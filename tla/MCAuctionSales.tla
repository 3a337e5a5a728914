--------------------------- MODULE MCAuctionSales ---------------------------
(* A small instance of AuctionSales for TLC. *)
EXTENDS AuctionSalesInv, TLC

CONSTANTS a1, ann, bob, cat, make, saab, volvo

MCListing == [a \in AuctionId |-> [seller |-> ann, reservePrice |-> 1]]
MCSeedItem == [a \in Seeded |-> [f \in Field |-> volvo]]
MCSeedStatus == [a \in Seeded |-> "Live"]
MCEnd == [a \in AuctionId |-> 1]

Offer(n, bidder, amount) ==
  [id |-> n, auctionId |-> a1, bidder |-> bidder, amount |-> amount,
   bidTime |-> 1, bidStatus |-> "Accepted"]

\* Two bids above the reserve price, which may be announced or arrive in either order.
TwoBids == {Offer(1, bob, 2), Offer(2, cat, 3)}

MCPlaced == {BidMessage(b) : b \in Bid}
MCFinished == {ResultMessage(a1, w) : w \in Bid} \union {ResultMessage(a, None) : a \in AuctionId}

\* Each sale may be delivered twice.
SalesTwice == [m \in BidPlaced \union AuctionFinished |->
                 IF m \in AuctionFinished /\ m.winner # None THEN 2 ELSE 1]

(***************************************************************************)
(* Two scenarios, which the first start decides between.                   *)
(***************************************************************************)

\* No start has managed to seed: a1 is created, bid on and sold.  Three events,
\* and no change but of the make; what it is first is all the same.
Trading ==
  /\ UNCHANGED seedings
  /\ Len(log') + Cardinality(InFlight') <= 3
  /\ \A i \in 1..Len(log'), f \in Field :
       log'[i].kind = "AuctionCreated" \/ (log'[i].item # None /\ f # make) =>
         log'[i].item[f] = volvo
  /\ \A r \in Request, f \in Field \ {make} : req'[r] # None => req'[r].patch[f] = None

\* The seeds are there: rows come and go, and nobody bids.
Keeping == UNCHANGED <<house, deliveries>>

MCNext ==
  /\ SalesNext
  /\ IF seedings = [a \in AuctionId |-> {}] THEN Trading ELSE Keeping

MCSpec == SalesInit /\ [][MCNext]_<<vars, house, mishaps>>

Symmetry == Permutations(Request) \union Permutations(Consumer)
=============================================================================
