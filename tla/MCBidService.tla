---------------------------- MODULE MCBidService ----------------------------
(* Small instances of BidService for TLC. *)
EXTENDS BidServiceInv, TLC

CONSTANTS sold, other, seeded, ann, bob

\* One auction that ends within a second.
OneListing == sold :> [seller |-> ann, reservePrice |-> 1, auctionEnd |-> 1]

\* Two auctions that may be closed by the same round of the loop, or by
\* different ones, and one from the seed data, which the loop never sees.
ThreeListings ==
  OneListing
  @@ other :> [seller |-> ann, reservePrice |-> 0, auctionEnd |-> 1]
  @@ seeded :> [seller |-> bob, reservePrice |-> 0, auctionEnd |-> 1]

Symmetry == Permutations(Request)
=============================================================================
