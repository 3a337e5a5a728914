---------------------------- MODULE MCCarAuction ----------------------------
(* Small instances of CarAuction for TLC. *)
EXTENDS CarAuctionInv, TLC

CONSTANTS a1, a2, ann, bob, volvo

MCSeedItem == [a \in Seeded |-> [f \in Field |-> volvo]]

MCSeedStatus == [a \in Seeded |-> "ReserveNotMet"]

MCListing == [a \in AuctionId |-> [seller |-> ann, reservePrice |-> 1]]

Bid(n, ok) == [auctionId |-> a1, amount |-> n, accepted |-> ok]

\* Two accepted bids, which may arrive in either order.
TwoBids == {Bid(1, TRUE), Bid(2, TRUE)}

OneSale == {[auctionId |-> a1, winner |-> bob, amount |-> 2]}

\* What the auction service is told: the higher bid and the sale.
HighestAndSale == [m \in Messages |-> IF m.amount = 2 THEN 1 ELSE 0]

Symmetry == Permutations(Handler)
=============================================================================
