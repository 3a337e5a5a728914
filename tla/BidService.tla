----------------------------- MODULE BidService -----------------------------
(***************************************************************************)
(* The bid service: PlaceBid requests (BidsController), the background     *)
(* loop that closes auctions (CheckAuctionFinished) and the consumer that  *)
(* copies an auction into the bid database (AuctionCreatedConsumer), all   *)
(* sharing one Mongo database without transactions.  Every await is a      *)
(* point where the others may run, so every database or broker call is a   *)
(* step of its own.                                                        *)
(*                                                                         *)
(* What the service sees of the auction service is the variable listing    *)
(* (rows that the gRPC fallback can find) and the AuctionCreated events it *)
(* may be handed, once or more often.  Listing[a] holds the fields of an   *)
(* auction that no operation of the auction service changes.               *)
(***************************************************************************)
EXTENDS Integers, Sequences, FiniteSets

CONSTANTS AuctionId,      \* auctions
          User,           \* user names: sellers and bidders
          Request,        \* PlaceBid requests; a request's name is its bid's id
          Amount,         \* amounts that are offered
          None,           \* null
          Listing,        \* auction -> [seller, reservePrice, auctionEnd]
          Seeded,         \* auctions seeded into the auction database: no AuctionCreated
          Second,         \* clock ticks in a second
          MaxTime,        \* bound: the clock stops here
          MaxDeliveries,  \* bound: deliveries of AuctionCreated per auction
          MaxCrashes      \* bound: crashes of the process

BidStatus == {"Accepted", "AcceptedBelowReserve", "TooLow", "Finished"}

Bid == [id : Request, auctionId : AuctionId, bidder : User, amount : Amount,
        bidTime : Nat, bidStatus : BidStatus]

ASSUME AmountAssumption == Amount \subseteq Int
ASSUME ListingAssumption ==
  Listing \in [AuctionId -> [seller : User, reservePrice : Int, auctionEnd : Nat]]
ASSUME SeededAssumption == Seeded \subseteq AuctionId
ASSUME NoneAssumption == None \notin Bid /\ None \notin AuctionId
ASSUME BoundAssumption == /\ Second \in Nat \ {0}
                          /\ {MaxTime, MaxDeliveries, MaxCrashes} \subseteq Nat

VARIABLES now,        \* DateTime.UtcNow
          listing,    \* the auction service's row: "none", "listed" or "deleted"
          deliveries, \* AuctionCreated events consumed, per auction
          auctions,   \* Auction documents: "absent", "open" or "finished"
          bids,       \* Bid documents
          pc,         \* where each PlaceBid request stands
          bid,        \* each request's bid, None before and after the request
          deadline,   \* the auctionEnd each request works with
          earlier,    \* history: bids on the auction when the request arrived
          chk,        \* where CheckAuctions stands
          batch,      \* finishedAuctions still to be visited
          current,    \* the auction being visited
          winner,     \* winningBid
          placed,     \* BidPlaced events published
          results,    \* AuctionFinished events published per auction (None: not sold)
          sealed,     \* history: accepted bids when Finished was last saved
          crashes     \* crashes so far

clientVars  == <<pc, bid, deadline, earlier>>
checkerVars == <<chk, batch, current, winner>>
vars == <<now, listing, deliveries, auctions, bids, pc, bid, deadline, earlier,
          chk, batch, current, winner, placed, results, sealed, crashes>>

InFlight == {"grpc", "dated", "pricing", "saving", "publishing"}
Answered == {"done", "rejected", "failed"}

Init ==
  /\ now = 0
  /\ listing = [a \in AuctionId |-> IF a \in Seeded THEN "listed" ELSE "none"]
  /\ deliveries = [a \in AuctionId |-> 0]
  /\ auctions = [a \in AuctionId |-> "absent"]
  /\ bids = {}
  /\ pc = [r \in Request |-> "idle"]
  /\ bid = [r \in Request |-> None]
  /\ deadline = [r \in Request |-> 0]
  /\ earlier = [r \in Request |-> {}]
  /\ chk = "idle" /\ batch = {} /\ current = None /\ winner = None
  /\ placed = {}
  /\ results = [a \in AuctionId |-> << >>]
  /\ sealed = [a \in AuctionId |-> {}]
  /\ crashes = 0

-----------------------------------------------------------------------------
(* BidsController.PlaceBid *)

BidsOn(a) == {b \in bids : b.auctionId = a}
AcceptedOn(a) == {b \in BidsOn(a) : b.bidStatus = "Accepted"}

\* Mutant of Admit: the request goes on without having constructed its bid.
AdmitNoBid(r, draft, end) ==
  /\ pc' = [pc EXCEPT ![r] = "dated"]
  /\ deadline' = [deadline EXCEPT ![r] = end]
  /\ UNCHANGED bid

\* The auction is at hand with this end: refuse the seller, otherwise construct
\* the bid, stamped with the time.
Admit(r, draft, end) ==
  \/ /\ draft.bidder = Listing[draft.auctionId].seller
     /\ pc' = [pc EXCEPT ![r] = "rejected"]
     /\ bid' = [bid EXCEPT ![r] = None]
     /\ UNCHANGED deadline
  \/ /\ draft.bidder # Listing[draft.auctionId].seller
     /\ pc' = [pc EXCEPT ![r] = "dated"]
     /\ bid' = [bid EXCEPT ![r] = [draft EXCEPT !.bidTime = now]]
     /\ deadline' = [deadline EXCEPT ![r] = end]

\* The request arrives and looks the auction up in the bid database.
PlaceBid(r, u, a, m) ==
  LET draft == [id |-> r, auctionId |-> a, bidder |-> u, amount |-> m,
                bidTime |-> now, bidStatus |-> "Accepted"]
  IN /\ pc[r] = "idle"
     /\ earlier' = [earlier EXCEPT ![r] = BidsOn(a)]
     /\ \/ /\ auctions[a] # "absent"
           /\ Admit(r, draft, Listing[a].auctionEnd)
        \/ /\ auctions[a] = "absent"
           /\ pc' = [pc EXCEPT ![r] = "grpc"]
           /\ bid' = [bid EXCEPT ![r] = draft]
           /\ UNCHANGED deadline
     /\ UNCHANGED <<now, listing, deliveries, auctions, bids, checkerVars,
                    placed, results, sealed, crashes>>

\* The end as the gRPC reply carries it: DateTime.ToString drops what is less
\* than a second.
WholeSeconds(t) == t - (t % Second)

\* GrpcAuctionClient.GetAuction returns the auction; nothing stores it.
GrpcReply(r) ==
  /\ pc[r] = "grpc"
  /\ listing[bid[r].auctionId] = "listed"
  /\ Admit(r, bid[r], WholeSeconds(Listing[bid[r].auctionId].auctionEnd))
  /\ UNCHANGED <<now, listing, deliveries, auctions, bids, earlier, checkerVars,
                 placed, results, sealed, crashes>>

\* The request returns or its exception is thrown: its locals are gone.
Answer(r, how) ==
  /\ pc' = [pc EXCEPT ![r] = how]
  /\ bid' = [bid EXCEPT ![r] = None]
  /\ deadline' = [deadline EXCEPT ![r] = 0]
  /\ UNCHANGED earlier

\* Not found, or any other exception of the call: GetAuction returns null.
GrpcNull(r) ==
  /\ pc[r] = "grpc"
  /\ Answer(r, "rejected")
  /\ UNCHANGED <<now, listing, deliveries, auctions, bids, checkerVars,
                 placed, results, sealed, crashes>>

\* Mutant of CheckDeadline: a bid at the very end is late (<= for <).
CheckDeadlineInclusive(r) ==
  /\ pc[r] = "dated"
  /\ LET late == deadline[r] <= now
     IN /\ bid' = IF late THEN [bid EXCEPT ![r].bidStatus = "Finished"] ELSE bid
        /\ pc' = [pc EXCEPT ![r] = IF late THEN "saving" ELSE "pricing"]
  /\ UNCHANGED <<now, listing, deliveries, auctions, bids, deadline, earlier,
                 checkerVars, placed, results, sealed, crashes>>

CheckDeadline(r) ==
  /\ pc[r] = "dated"
  /\ \/ /\ deadline[r] < now
        /\ bid' = [bid EXCEPT ![r].bidStatus = "Finished"]
        /\ pc' = [pc EXCEPT ![r] = "saving"]
     \/ /\ ~(deadline[r] < now)
        /\ pc' = [pc EXCEPT ![r] = "pricing"]
        /\ UNCHANGED bid
  /\ UNCHANGED <<now, listing, deliveries, auctions, bids, deadline, earlier,
                 checkerVars, placed, results, sealed, crashes>>

\* Mutants of Price: the reserve price itself is enough; only accepted bids are
\* compared with; the reserve price is looked at first.
PriceReserveInclusive(b) ==
  IF \E h \in BidsOn(b.auctionId) : b.amount <= h.amount THEN "TooLow"
  ELSE IF b.amount >= Listing[b.auctionId].reservePrice THEN "Accepted"
  ELSE "AcceptedBelowReserve"

PriceAcceptedOnly(b) ==
  IF \E h \in AcceptedOn(b.auctionId) : b.amount <= h.amount THEN "TooLow"
  ELSE IF b.amount > Listing[b.auctionId].reservePrice THEN "Accepted"
  ELSE "AcceptedBelowReserve"

PriceReserveFirst(b) ==
  IF b.amount <= Listing[b.auctionId].reservePrice THEN "TooLow"
  ELSE IF \E h \in BidsOn(b.auctionId) : b.amount <= h.amount THEN "TooLow"
  ELSE "Accepted"

\* The status of an offer that is compared with the stored bids, whatever
\* their own status.
Price(b) ==
  IF \E h \in BidsOn(b.auctionId) : b.amount <= h.amount THEN "TooLow"
  ELSE IF b.amount > Listing[b.auctionId].reservePrice THEN "Accepted"
  ELSE "AcceptedBelowReserve"

ReadHighBid(r) ==
  /\ pc[r] = "pricing"
  /\ bid' = [bid EXCEPT ![r].bidStatus = Price(bid[r])]
  /\ pc' = [pc EXCEPT ![r] = "saving"]
  /\ UNCHANGED <<now, listing, deliveries, auctions, bids, deadline, earlier,
                 checkerVars, placed, results, sealed, crashes>>

\* Mutant of SaveBid: the event is published before the bid is saved.
SaveBidAfterPublish(r) ==
  /\ pc[r] = "saving"
  /\ placed' = placed \union {bid[r]}
  /\ pc' = [pc EXCEPT ![r] = "publishing"]
  /\ UNCHANGED <<now, listing, deliveries, auctions, bids, bid, deadline, earlier,
                 checkerVars, results, sealed, crashes>>

SaveBid(r) ==
  /\ pc[r] = "saving"
  /\ bids' = bids \union {bid[r]}
  /\ pc' = [pc EXCEPT ![r] = "publishing"]
  /\ UNCHANGED <<now, listing, deliveries, auctions, bid, deadline, earlier,
                 checkerVars, placed, results, sealed, crashes>>

\* Mutant of PublishBid: the request answers and publishes nothing.
PublishBidForgotten(r) ==
  /\ pc[r] = "publishing"
  /\ Answer(r, "done")
  /\ UNCHANGED <<now, listing, deliveries, auctions, bids, checkerVars,
                 placed, results, sealed, crashes>>

PublishBid(r) ==
  /\ pc[r] = "publishing"
  /\ placed' = placed \union {bid[r]}
  /\ Answer(r, "done")
  /\ UNCHANGED <<now, listing, deliveries, auctions, bids, checkerVars,
                 results, sealed, crashes>>

\* A database or broker call throws: the request answers 500, nothing is undone.
FailRequest(r) ==
  /\ pc[r] \in InFlight \ {"grpc"}
  /\ Answer(r, "failed")
  /\ UNCHANGED <<now, listing, deliveries, auctions, bids, checkerVars,
                 placed, results, sealed, crashes>>
-----------------------------------------------------------------------------
(* CheckAuctionFinished *)

Ended(a) == Listing[a].auctionEnd <= now

\* Mutant of CheckAuctions: the query does not exclude finished auctions.
CheckAuctionsAgain ==
  /\ chk = "idle"
  /\ batch' = {a \in AuctionId : Ended(a) /\ auctions[a] # "absent"}
  /\ chk' = IF batch' = {} THEN "idle" ELSE "foreach"
  /\ UNCHANGED <<now, listing, deliveries, auctions, bids, clientVars, current,
                 winner, placed, results, sealed, crashes>>

\* The query; with nothing to do the loop only sleeps.
CheckAuctions ==
  /\ chk = "idle"
  /\ batch' = {a \in AuctionId : Ended(a) /\ auctions[a] = "open"}
  /\ chk' = IF batch' = {} THEN "idle" ELSE "foreach"
  /\ UNCHANGED <<now, listing, deliveries, auctions, bids, clientVars, current,
                 winner, placed, results, sealed, crashes>>

\* Save the auction as finished, in the order the query happens to return.
MarkFinished(a) ==
  /\ chk = "foreach"
  /\ a \in batch
  /\ auctions' = [auctions EXCEPT ![a] = "finished"]
  /\ sealed' = [sealed EXCEPT ![a] = AcceptedOn(a)]
  /\ batch' = batch \ {a}
  /\ current' = a
  /\ chk' = "winner"
  /\ UNCHANGED <<now, listing, deliveries, bids, clientVars, winner, placed,
                 results, crashes>>

\* Mutant of TopAccepted: the query sorts ascending.
TopAcceptedAscending(a) ==
  {b \in AcceptedOn(a) : \A c \in AcceptedOn(a) : b.amount <= c.amount}

\* The highest accepted bids: of equal amounts the query may return any.
TopAccepted(a) ==
  {b \in AcceptedOn(a) : \A c \in AcceptedOn(a) : c.amount <= b.amount}

\* Mutants of SelectWinner: an auction nobody won is passed over; any accepted
\* bid will do.
SelectWinnerOrSkip ==
  /\ chk = "winner"
  /\ winner' \in TopAccepted(current) \union {None}
  /\ winner' = None <=> AcceptedOn(current) = {}
  /\ chk' = IF winner' # None THEN "publish" ELSE IF batch = {} THEN "idle" ELSE "foreach"
  /\ UNCHANGED <<now, listing, deliveries, auctions, bids, clientVars, batch,
                 current, placed, results, sealed, crashes>>

SelectWinnerUnsorted ==
  /\ chk = "winner"
  /\ \/ winner' \in AcceptedOn(current)
     \/ AcceptedOn(current) = {} /\ winner' = None
  /\ chk' = "publish"
  /\ UNCHANGED <<now, listing, deliveries, auctions, bids, clientVars, batch,
                 current, placed, results, sealed, crashes>>

SelectWinner ==
  /\ chk = "winner"
  /\ \/ winner' \in TopAccepted(current)
     \/ AcceptedOn(current) = {} /\ winner' = None
  /\ chk' = "publish"
  /\ UNCHANGED <<now, listing, deliveries, auctions, bids, clientVars, batch,
                 current, placed, results, sealed, crashes>>

\* Mutant of PublishFinished: the foreach never returns to the loop.
PublishFinishedStuck ==
  /\ chk = "publish"
  /\ results' = [results EXCEPT ![current] = Append(@, winner)]
  /\ chk' = "foreach"
  /\ current' = None
  /\ winner' = None
  /\ UNCHANGED <<now, listing, deliveries, auctions, bids, clientVars, batch,
                 placed, sealed, crashes>>

PublishFinished ==
  /\ chk = "publish"
  /\ results' = [results EXCEPT ![current] = Append(@, winner)]
  /\ chk' = IF batch = {} THEN "idle" ELSE "foreach"
  /\ current' = None
  /\ winner' = None
  /\ UNCHANGED <<now, listing, deliveries, auctions, bids, clientVars, batch,
                 placed, sealed, crashes>>
-----------------------------------------------------------------------------
(* AuctionCreatedConsumer, and what surrounds the service *)

\* AuctionCreated is delivered at least once, and once more when the auction
\* service republishes it after a fault elsewhere.  The document is replaced:
\* Finished is false again.
ConsumeAuctionCreated(a) ==
  /\ a \notin Seeded
  /\ listing[a] # "none"
  /\ deliveries[a] < MaxDeliveries
  /\ deliveries' = [deliveries EXCEPT ![a] = @ + 1]
  /\ auctions' = [auctions EXCEPT ![a] = "open"]
  /\ UNCHANGED <<now, listing, bids, clientVars, checkerVars, placed, results,
                 sealed, crashes>>

\* The auction service commits a new row, or removes one.  The bid service
\* consumes no AuctionDeleted.
ListAuction(a) ==
  /\ listing[a] = "none"
  /\ listing' = [listing EXCEPT ![a] = "listed"]
  /\ UNCHANGED <<now, deliveries, auctions, bids, clientVars, checkerVars,
                 placed, results, sealed, crashes>>

DelistAuction(a) ==
  /\ listing[a] = "listed"
  /\ listing' = [listing EXCEPT ![a] = "deleted"]
  /\ UNCHANGED <<now, deliveries, auctions, bids, clientVars, checkerVars,
                 placed, results, sealed, crashes>>

Tick ==
  /\ now < MaxTime
  /\ now' = now + 1
  /\ UNCHANGED <<listing, deliveries, auctions, bids, clientVars, checkerVars,
                 placed, results, sealed, crashes>>

\* The process stops (an exception in the loop stops the host as well) and is
\* started again: what was in flight is lost, the database and the broker stay.
Crash ==
  /\ crashes < MaxCrashes
  /\ crashes' = crashes + 1
  /\ pc' = [r \in Request |-> IF pc[r] \in InFlight THEN "failed" ELSE pc[r]]
  /\ bid' = [r \in Request |-> None]
  /\ deadline' = [r \in Request |-> 0]
  /\ chk' = "idle" /\ batch' = {} /\ current' = None /\ winner' = None
  /\ UNCHANGED <<now, listing, deliveries, auctions, bids, earlier, placed,
                 results, sealed>>
-----------------------------------------------------------------------------
RequestStep(r) ==
  \/ \E u \in User, a \in AuctionId, m \in Amount : PlaceBid(r, u, a, m)
  \/ GrpcReply(r) \/ GrpcNull(r) \/ CheckDeadline(r) \/ ReadHighBid(r)
  \/ SaveBid(r) \/ PublishBid(r) \/ FailRequest(r)

CheckerStep ==
  CheckAuctions \/ (\E a \in AuctionId : MarkFinished(a)) \/ SelectWinner \/ PublishFinished

AuctionStep(a) == ConsumeAuctionCreated(a) \/ ListAuction(a) \/ DelistAuction(a)

Next ==
  \/ \E r \in Request : RequestStep(r)
  \/ CheckerStep
  \/ \E a \in AuctionId : AuctionStep(a)
  \/ Tick
  \/ Crash

Spec == Init /\ [][Next]_vars

\* An awaited call returns or throws; the loop runs for as long as the host;
\* time passes.  Nothing obliges a client to bid, an auction to be listed, a
\* broker to deliver, or the process to crash.
Fairness ==
  /\ \A r \in Request :
       /\ WF_vars(GrpcReply(r) \/ GrpcNull(r))
       /\ WF_vars(CheckDeadline(r))
       /\ WF_vars(ReadHighBid(r))
       /\ WF_vars(SaveBid(r) \/ FailRequest(r))
       /\ WF_vars(PublishBid(r) \/ FailRequest(r))
  /\ WF_vars(CheckerStep)
  /\ WF_vars(Tick)

FairSpec == Spec /\ Fairness
-----------------------------------------------------------------------------
(* Properties *)

\* Every variable has its type.
TypeOK ==
  /\ now \in Nat
  /\ listing \in [AuctionId -> {"none", "listed", "deleted"}]
  /\ deliveries \in [AuctionId -> Nat]
  /\ auctions \in [AuctionId -> {"absent", "open", "finished"}]
  /\ bids \subseteq Bid
  /\ pc \in [Request -> {"idle"} \union InFlight \union Answered]
  /\ bid \in [Request -> Bid \union {None}]
  /\ \A r \in Request : pc[r] \in InFlight => bid[r] \in Bid /\ bid[r].id = r
  /\ deadline \in [Request -> Int]
  /\ earlier \in [Request -> SUBSET Bid]
  /\ chk \in {"idle", "foreach", "winner", "publish"}
  /\ batch \subseteq AuctionId
  /\ current \in AuctionId \union {None}
  /\ chk \in {"winner", "publish"} => current \in AuctionId
  /\ winner \in Bid \union {None}
  /\ placed \subseteq Bid
  /\ results \in [AuctionId -> Seq(Bid \union {None})]
  /\ sealed \in [AuctionId -> SUBSET Bid]
  /\ crashes \in Nat

\* No more AuctionFinished events are published for an auction than there were
\* deliveries of its AuctionCreated: the loop announces a closing once, and
\* only a fresh delivery re-opens the document.
AtMostOneResultPerDelivery ==
  \A a \in AuctionId : Len(results[a]) <= deliveries[a]

\* One announced result is at least as good as another for the seller.
AtLeast(w, v) == v # None => w # None /\ v.amount <= w.amount

\* When an auction is announced again, after its document was re-opened, the
\* later result is never worse than the earlier one.
ResultsImprove ==
  \A a \in AuctionId : \A i, j \in 1..Len(results[a]) :
    i < j => AtLeast(results[a][j], results[a][i])

\* Whoever is announced as winner has a stored bid, on that auction, above the
\* reserve price, placed by somebody other than the seller and not after the
\* auction's end, however late it was saved.
EligibleWinner ==
  \A a \in AuctionId : \A i \in 1..Len(results[a]) :
    LET w == results[a][i]
    IN w # None => /\ w \in AcceptedOn(a)
                   /\ w.amount > Listing[a].reservePrice
                   /\ w.bidder # Listing[a].seller
                   /\ w.bidTime <= Listing[a].auctionEnd

\* A bid refused as too low really was: another stored bid on the auction
\* offers at least as much (TooLow is decided before the bid is saved).
TooLowIsOutbid ==
  \A b \in bids : b.bidStatus = "TooLow" =>
    \E c \in BidsOn(b.auctionId) : c.id # b.id /\ c.amount >= b.amount

\* Real-time order: an offer that was accepted, below the reserve price or not,
\* beats every bid that had been stored before its request arrived.
AcceptedBeatsEarlier ==
  \A b \in bids : b.bidStatus \in {"Accepted", "AcceptedBelowReserve"} =>
    \A e \in earlier[b.id] : e.amount < b.amount

\* No bid is turned away as Finished before the auction's end, rounded down to
\* the second as the gRPC reply rounds it.
NotTurnedAwayEarly ==
  \A b \in bids : b.bidStatus = "Finished" =>
    WholeSeconds(Listing[b.auctionId].auctionEnd) < now

\* The auction service and the clients are told only of bids that are stored.
PublishedAreStored == placed \subseteq bids

\* A result is owed between the save of Finished and the publication.
OwedResult == [a \in AuctionId |-> chk \in {"winner", "publish"} /\ current = a]

House == INSTANCE AuctionHouse WITH book <- bids, outcomes <- results, owed <- OwedResult

\* The service keeps the promise of AuctionHouse: every bid it stores has the
\* status it deserves, and every result it publishes beats the accepted bids
\* that were stored when the auction was saved as finished.
ImplementsAuctionHouse == House!Spec

\* An auction past its end that the database holds open is closed, whatever
\* crashes and re-deliveries happen.
EndedAuctionCloses ==
  \A a \in AuctionId : (auctions[a] = "open" /\ Ended(a)) ~> auctions[a] = "finished"

\* Without a crash, every auction the service was told of gets a result.
KnownAuctionIsAnnounced ==
  \A a \in AuctionId : deliveries[a] > 0 ~> (results[a] # << >> \/ crashes > 0)

\* Every request is answered, and a stored bid is published unless its own
\* request failed.
BidAnswered ==
  \A r \in Request :
    /\ pc[r] \in InFlight ~> pc[r] \in Answered
    /\ (\E b \in bids : b.id = r) ~> (pc[r] = "failed" \/ \E b \in placed : b.id = r)
-----------------------------------------------------------------------------
(* What comments of the code say and the code does not do *)

\* BidsController.cs:71 "if either first bid or higher than current high bid":
\* a bid that is stored as accepted is higher than the bids stored before it.
AcceptedIsHigher ==
  [][\A b \in bids' \ bids :
       b.bidStatus \in {"Accepted", "AcceptedBelowReserve"} =>
         \A c \in BidsOn(b.auctionId) : c.amount < b.amount]_vars

\* BidsController.cs:60 "Auction has finished, no more bids are accepted": no
\* accepted bid is stored for an auction whose document says Finished.
NoBidAcceptedOnceFinished ==
  [][\A b \in bids' \ bids :
       b.bidStatus = "Accepted" => auctions[b.auctionId] # "finished"]_vars

\* CheckAuctionFinished.cs:67 "Publish the result of the finished auction": an
\* auction saved as finished has its result published.
FinishedIsPublished ==
  \A a \in AuctionId : auctions[a] = "finished" ~> results[a] # << >>
=============================================================================
