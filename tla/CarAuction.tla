----------------------------- MODULE CarAuction -----------------------------
(***************************************************************************)
(* The auction service and the search service together: the events that    *)
(* the one commits to its outbox are delivered to the other, both consume  *)
(* the messages of the bid service, and the search service reads the rows  *)
(* of the auction service when it starts.                                  *)
(***************************************************************************)
EXTENDS SearchService

CONSTANTS Listing,      \* auction -> [seller, reservePrice]
          Seeded,       \* auctions that the auction service seeds,
          SeedItem,     \* the item of each,
          SeedStatus,   \* and the status
          Request,      \* concurrent requests to the auction service
          Consumer,     \* its concurrent message handlers
          MaxDeliveries \* bound: deliveries of each message to it

VARIABLES req, job, deliveries, \* the auction service's
          calm,   \* history: auctions whose events search took in order, undisturbed
          orderly \* history: auctions whose results were saved over what was loaded

Auction == INSTANCE AuctionService

ASSUME AuctionAssumption ==
  /\ Auction!ListingAssumption /\ Auction!SeededAssumption /\ Auction!MessageAssumption
  /\ Auction!NoneAssumption /\ Auction!BoundAssumption

auctionVars == <<rows, log, seedings, req, job, deliveries>>
carVars == <<auctionVars, searchVars, calm, orderly>>

CarInit == Auction!Init /\ Init /\ calm = AuctionId /\ orderly = AuctionId
-----------------------------------------------------------------------------
EventsOf(a) == {i \in 1..Len(log) : log[i].auctionId = a}

\* Search has taken every event of the auction, and no creation is on its way
\* back from a refusal.
Settled(a) ==
  \A i \in EventsOf(a) : taken[i] > 0 /\ i \notin faults \union reissued

\* The step disturbs auction a: an event of a is delivered again, or before an
\* earlier one has had its effect, or is lost; a handler is overtaken; the
\* synchronisation saves what is no longer the row, or what events to come will
\* save again; two requests of the seller overlap; or the auction, once deleted,
\* is seeded again, which no event tells.
Disturbed(a) ==
  \/ \E i \in EventsOf(a) :
       /\ taken'[i] # taken[i]
       /\ \/ taken[i] > 0
          \/ \E j \in EventsOf(a) : j < i /\ (taken[j] = 0 \/ j \in faults \union reissued)
  \/ EventsOf(a) \intersect lost' # {}
  \/ Overtaken(a)'
  \/ /\ sync.docs[a] # None /\ sync'.docs[a] = None
     /\ (~ Settled(a) \/ rows[a] = None \/ rows[a].item # sync.docs[a].item)
  \/ \E r, s \in Request :
       r # s /\ None \notin {req[r], req[s]} /\ req[r].auctionId = a /\ req[s].auctionId = a
  \/ EventsOf(a) # {} /\ seedings'[a] # seedings[a]

\* A handler of the auction service saves the result of a over another that it
\* had not loaded; of the two columns, it writes those that it modified.
Overwritten(a) ==
  \E c \in Consumer :
    /\ job[c] # None /\ job[c].kind = "result" /\ job[c].msg.auctionId = a
    /\ job'[c] = None /\ rows' # rows
    /\ rows[a] # None /\ rows[a].sale # job[c].loaded

Watch ==
  /\ calm' = {a \in calm : ~ Disturbed(a)}
  /\ orderly' = {a \in orderly : ~ Overwritten(a)}

AuctionStep == Auction!Next /\ UNCHANGED searchVars /\ Watch

SearchStep == Next /\ UNCHANGED auctionVars /\ Watch

CarNext == AuctionStep \/ SearchStep

CarSpec == CarInit /\ [][CarNext]_carVars

\* The outbox and the broker deliver every event, which is consumed or lost, and
\* every fault finds its consumer.  Nothing else is obliged to happen.
CarFairSpec ==
  CarSpec /\ \A i \in 1..MaxEvents : WF_carVars(EventStep(i) /\ UNCHANGED auctionVars /\ Watch)
-----------------------------------------------------------------------------
(* Properties *)

\* Both columns are the same, but for a Saab that was created as a Volvo.
SameItem(shown, held) == shown = held \/ (held[Make] = Saab /\ shown = AsVolvo(held))

\* The search shows what the auction service holds, of every auction whose
\* events it has all taken, in order and undisturbed: the same auctions exist,
\* with the same items (seeded ones may wait for the synchronisation).  What
\* disturbs an auction, Disturbed lists: neither an event that is delivered
\* again, or too early, nor one that is lost is ever made good.
SearchMirrors ==
  \A a \in calm : Settled(a) =>
    /\ items[a] # None => rows[a] # None /\ SameItem(items[a].item, rows[a].item)
    /\ rows[a] # None /\ a \notin Seeded => items[a] # None

\* What the search shows of bids and results was announced for that auction: a
\* high bid that somebody bid, and a winner with the amount it was sold at (but
\* for an auction whose row has its winner and its amount from two results).
\* Documents come from events, from handlers that loaded them long before, and
\* from rows that the auction service's own handlers have written.
ShowsWhatWasAnnounced ==
  \A a \in AuctionId : items[a] # None =>
    /\ items[a].currentHighBid # 0 =>
         \E m \in BidPlaced : m.auctionId = a /\ m.amount = items[a].currentHighBid
    /\ a \in orderly =>
         IF items[a].winner = None THEN items[a].soldAmount = 0
         ELSE \E m \in AuctionFinished :
                m.auctionId = a /\ m.winner = items[a].winner /\ m.amount = items[a].soldAmount

\* Every auction that is created is shown in the end, a refused Saab as a
\* Volvo, unless it is deleted, or a consumption of its creation fails until the
\* retries are used up, which nothing makes good.
CreationLost(a) == \E i \in EventsOf(a) \intersect lost : log[i].kind = "AuctionCreated"

CreatedIsShown ==
  \A a \in AuctionId :
    WasCreated(a) ~> (items[a] # None \/ Auction!Ends(a) # {} \/ CreationLost(a))
=============================================================================
