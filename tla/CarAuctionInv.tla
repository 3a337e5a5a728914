--------------------------- MODULE CarAuctionInv ---------------------------
(***************************************************************************)
(* The inductive invariant of CarAuction, on top of AuctionService's: what *)
(* the events, the refused creations, the documents, the handlers and the  *)
(* synchronisation of the search service owe to one another.               *)
(***************************************************************************)
EXTENDS CarAuction

\* Creations and updates carry an item, only what is no seed is created, and an
\* event is taken after it was committed.
EventInv ==
  /\ Len(log) <= MaxEvents
  /\ \A i \in 1..Len(log) :
       /\ log[i].kind # "AuctionDeleted" => log[i].item # None
       /\ log[i].kind = "AuctionCreated" => log[i].auctionId \notin Seeded
  /\ \A i \in 1..MaxEvents : i > Len(log) => taken[i] = 0

\* What waits for the fault's consumer, or to be delivered again as a Volvo, are
\* creations of Saabs that were taken.
Waiting == faults \union reissued

WaitingInv ==
  \A i \in Waiting :
    log[i].kind = "AuctionCreated" /\ log[i].item[Make] = Saab /\ taken[i] > 0

\* The search service has documents of known auctions only.
ShownInv ==
  /\ \A a \in AuctionId : items[a] # None \/ sync.docs[a] # None => Known(a)
  /\ \A h \in Handler : work[h] # None => Known(work[h].auctionId)

\* A handler adds to the document that it loaded.
Extends(new, old) ==
  /\ new.item = old.item
  /\ new.currentHighBid >= old.currentHighBid
  /\ old.winner # None => new.winner # None
  /\ old.status = "Finished" => new.status = "Finished"

WorkInv == \A h \in Handler : work[h] # None => Extends(work[h].doc, work[h].loaded)

SearchInv == SearchTypeOK /\ EventInv /\ WaitingInv /\ ShownInv /\ WorkInv
-----------------------------------------------------------------------------
\* A document of auction a says of bids and results what messages told.
BidOf(a, n) == n = 0 \/ \E m \in BidPlaced : m.auctionId = a /\ m.amount = n

SaleOf(a, winner, n) ==
  IF winner = None THEN n = 0
  ELSE \E m \in AuctionFinished : m.auctionId = a /\ m.winner = winner /\ m.amount = n

Told(a, doc) ==
  /\ BidOf(a, doc.currentHighBid)
  /\ a \in orderly => SaleOf(a, doc.winner, doc.soldAmount)

ToldInv ==
  /\ \A a \in AuctionId : /\ rows[a] # None => Told(a, DocOf(rows[a]))
                          /\ items[a] # None => Told(a, items[a])
                          /\ sync.docs[a] # None => Told(a, sync.docs[a])
  /\ \A h \in Handler : work[h] # None => Told(work[h].auctionId, work[h].doc)
-----------------------------------------------------------------------------
(* Of auctions that nothing has disturbed *)

\* Events are taken in order, each after the earlier ones have had their effect,
\* and a refused creation is in one place.
InOrder(a) ==
  /\ \A i, j \in EventsOf(a) : j < i /\ taken[i] > 0 => taken[j] > 0 /\ j \notin Waiting
  /\ \A i \in EventsOf(a) : i \notin faults \intersect reissued

\* Its seeding, if any, came before its events.
SeededFirst(a) == \A n \in seedings[a], i \in EventsOf(a) : n < i

\* A request holds the item of the row, which is that of the last event.
RowIsLast(a) ==
  rows[a] # None =>
    /\ \A r \in Request : req[r] # None /\ req[r].auctionId = a => req[r].loaded = rows[a].item
    /\ \A i \in EventsOf(a) : (\A j \in EventsOf(a) : j <= i) => log[i].item = rows[a].item

\* The auctions that are shown are those whose creation has had its effect and
\* whose deletion has not (seeded ones may wait for the synchronisation).
DeletionTaken(a) ==
  \E i \in EventsOf(a) : log[i].kind = "AuctionDeleted" /\ taken[i] > 0

CreationTaken(a) ==
  \E i \in EventsOf(a) : log[i].kind = "AuctionCreated" /\ taken[i] > 0 /\ i \notin Waiting

ShownIsTaken(a) ==
  /\ items[a] # None => ~ DeletionTaken(a)
  /\ a \notin Seeded => (items[a] # None <=> CreationTaken(a) /\ ~ DeletionTaken(a))

\* What is shown is the item of the last event that was taken.
ItemIsLastTaken(a) ==
  items[a] # None =>
    /\ EventsOf(a) = {} => rows[a] # None /\ items[a].item = rows[a].item
    /\ \A i \in EventsOf(a) :
         taken[i] > 0 /\ (\A j \in EventsOf(a) : taken[j] > 0 => j <= i)
           => SameItem(items[a].item, log[i].item)

Undisturbed(a) ==
  /\ ~ Overtaken(a) /\ InOrder(a) /\ SeededFirst(a) /\ RowIsLast(a)
  /\ ShownIsTaken(a) /\ ItemIsLastTaken(a)

CalmInv == calm \subseteq AuctionId /\ \A a \in calm : Undisturbed(a)

CarInv == SearchInv /\ ToldInv /\ CalmInv
=============================================================================
