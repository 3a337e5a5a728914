-------------------------- MODULE MCAuctionService --------------------------
(* A small instance of AuctionService, alone, for TLC. *)
EXTENDS AuctionServiceInv, TLC

CONSTANTS a1, ann, bob, volvo

MCListing == [a \in AuctionId |-> [seller |-> ann, reservePrice |-> 1]]

\* The seeds: items all the same, one auction that ended long ago.
MCSeedItem == [a \in Seeded |-> [f \in Field |-> volvo]]
MCSeedStatus == [a \in Seeded |-> "ReserveNotMet"]

Bid(n, ok) == [auctionId |-> a1, amount |-> n, accepted |-> ok]

\* A bid that was refused, and two accepted ones.
ThreeBids == {Bid(1, FALSE), Bid(2, TRUE), Bid(3, TRUE)}

OneSale == {[auctionId |-> a1, winner |-> bob, amount |-> 2]}

\* The sale may be reported twice.
SaleTwice == [m \in BidPlaced \union AuctionFinished |-> IF m \in AuctionFinished THEN 2 ELSE 1]

Requests == Permutations(Request)
=============================================================================
