------------------------- MODULE AuctionServiceInv -------------------------
(***************************************************************************)
(* The inductive invariant of AuctionService, in the parts its proofs      *)
(* need: rows and events tell one story, and what a handler loaded tells   *)
(* something of the row it will write, however late it does.               *)
(***************************************************************************)
EXTENDS AuctionService

\* Only seeds are seeded, at a place that the log has reached; the events that
\* follow are other events than those before.
SeedInv ==
  \A a \in AuctionId : /\ seedings[a] \subseteq 0..Len(log)
                       /\ a \notin Seeded => seedings[a] = {}

\* Events, requests and handlers are about known auctions only: an id whose
\* row is yet to be created is nowhere in use.
KnownInv ==
  /\ \A i \in 1..Len(log) : Known(log[i].auctionId)
  /\ \A r \in Request : req[r] # None => Known(req[r].auctionId)
  /\ \A c \in Consumer : job[c] # None => Known(job[c].msg.auctionId)

\* A row of a has begun, and has not ended since.
Alive(a) == \E n \in Begins(a) : \A d \in Ends(a) : d <= n

LifeInv == SeedInv /\ KnownInv /\ RowIffAnnounced /\ EventsFormALife

\* A handler holds a bid because it raises what was loaded.
BidJobInv ==
  \A c \in Consumer : job[c] # None /\ job[c].kind = "bid" => Raises(job[c].msg, job[c].loaded)

\* No auction that is sold, or that a handler has seen concluded, is live.
Concludes(c) ==
  job[c] # None /\ job[c].kind = "result" /\ job[c].loaded.status # "Live"

SoldInv ==
  /\ \A a \in AuctionId : rows[a] # None /\ rows[a].sale.winner # None => rows[a].sale.status # "Live"
  /\ \A c \in Consumer : Concludes(c) /\ rows[job[c].msg.auctionId] # None =>
       rows[job[c].msg.auctionId].sale.status # "Live"

\* The seed of auction a, or some event of it, tells value v of column f.
Tells(events, a, f, v) ==
  \/ a \in Seeded /\ v = SeedItem[a][f]
  \/ \E i \in 1..Len(events) : /\ events[i].auctionId = a /\ events[i].item # None
                               /\ events[i].item[f] = v

\* Whatever is in flight may commit its event.
RoomInv == Len(log) + Cardinality(InFlight) <= MaxEvents

IInv == TypeOK /\ LifeInv /\ BidJobInv /\ SoldInv /\ ItemWasAnnounced /\ RoomInv
=============================================================================
