--------------------------- MODULE BidServiceInv ---------------------------
(***************************************************************************)
(* The inductive invariant of BidService, in the four parts its proof      *)
(* needs: what the ledger of deliveries and results balances, what a       *)
(* request in flight knows of its bid and of the time, and what the        *)
(* closing loop knows of the winner it holds.                              *)
(***************************************************************************)
EXTENDS BidService

\* Results owed for auction a: one while the loop has saved it as finished and
\* not yet published its result.
Owed(a) == IF chk \in {"winner", "publish"} /\ current = a THEN 1 ELSE 0

\* Results still to come from an open document.
Open(a) == IF auctions[a] = "open" THEN 1 ELSE 0

\* Every delivery of AuctionCreated is accounted for by at most one of: a
\* result, a result that is owed, an open document.
LedgerInv ==
  /\ \A a \in batch : auctions[a] = "open"
  /\ \A a \in AuctionId :
       Len(results[a]) + Owed(a) + Open(a) <= deliveries[a]

\* Bid b deserves its status, given the bids in book and those that were there
\* before it arrived.
Sound(b, book, before) ==
  LET lot == Listing[b.auctionId]
  IN /\ b.bidder # lot.seller
     /\ b.bidStatus = "Accepted" => b.amount > lot.reservePrice
     /\ b.bidStatus = "AcceptedBelowReserve" => b.amount <= lot.reservePrice
     /\ b.bidStatus \in {"Accepted", "AcceptedBelowReserve"} =>
          b.bidTime <= lot.auctionEnd /\ \A e \in before : e.amount < b.amount
     /\ b.bidStatus = "TooLow" =>
          \E c \in book : c.auctionId = b.auctionId /\ c.id # b.id /\ c.amount >= b.amount

\* What holds of request r by where it stands.
Knows(r) ==
  /\ pc[r] \in {"idle", "grpc", "dated", "pricing", "saving"} => \A b \in bids : b.id # r
  /\ pc[r] \in InFlight =>
       \A e \in earlier[r] : e \in bids /\ e.auctionId = bid[r].auctionId
  /\ pc[r] \in {"dated", "pricing"} =>
       /\ bid[r].bidder # Listing[bid[r].auctionId].seller
       /\ bid[r].bidTime <= now
       /\ deadline[r] <= Listing[bid[r].auctionId].auctionEnd
  /\ pc[r] = "pricing" => bid[r].bidTime <= Listing[bid[r].auctionId].auctionEnd
  /\ pc[r] \in {"saving", "publishing"} => Sound(bid[r], bids, earlier[r])
  /\ pc[r] = "publishing" => bid[r] \in bids

\* What holds of the stored bids and of the published ones.
BookInv ==
  /\ \A b \in bids : Sound(b, bids, earlier[b.id])
  /\ placed \subseteq bids

RequestInv == (\A r \in Request : Knows(r)) /\ BookInv

\* What makes a refusal as late a just one: a request works with an end that is
\* not earlier than the whole second of the auction's, and a bid that was judged
\* late is late from then on.
Late(b) == WholeSeconds(Listing[b.auctionId].auctionEnd) < now

Timely(r) ==
  /\ pc[r] = "dated" => WholeSeconds(Listing[bid[r].auctionId].auctionEnd) <= deadline[r]
  /\ pc[r] \in {"saving", "publishing"} /\ bid[r].bidStatus = "Finished" => Late(bid[r])

TimelyInv == (\A r \in Request : Timely(r)) /\ NotTurnedAwayEarly

ClosingInv ==
  /\ \A a \in AuctionId : sealed[a] \subseteq AcceptedOn(a)
  /\ \A a \in AuctionId : \A i \in 1..Len(results[a]) :
       results[a][i] # None => results[a][i] \in AcceptedOn(a)
  /\ chk = "publish" =>
       /\ winner # None => winner \in AcceptedOn(current)
       /\ \A b \in sealed[current] : AtLeast(winner, b)
       /\ \A i \in 1..Len(results[current]) : AtLeast(winner, results[current][i])
  /\ ResultsImprove

IInv == TypeOK /\ LedgerInv /\ RequestInv /\ TimelyInv /\ ClosingInv
=============================================================================
