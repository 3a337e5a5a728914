---------------------------- MODULE AuctionSales ----------------------------
(***************************************************************************)
(* The auction service and the bid service together.  The bid service      *)
(* stands behind its promise, AuctionHouse, which it implements: the       *)
(* messages that are delivered to the auction service are those of bids    *)
(* that the house has entered and of outcomes that it has announced, for   *)
(* auctions that it has learned of, deleted ones included.                 *)
(***************************************************************************)
EXTENDS AuctionService

CONSTANTS Bid,        \* the bids that may be made
          AuctionEnd, \* auction -> when it ends
          MaxOutcomes \* bound: outcomes announced or owed, per auction

VARIABLES book, sealed, owed, outcomes, \* the house's
          mishaps \* history: <<auction, kind>> of the handlers that went wrong

house == <<book, sealed, owed, outcomes>>

Lot == [a \in AuctionId |-> [seller |-> Listing[a].seller, auctionEnd |-> AuctionEnd[a],
                             reservePrice |-> Listing[a].reservePrice]]

House == INSTANCE AuctionHouse WITH Listing <- Lot

\* The message about a bid, and the one about an outcome.
BidMessage(b) ==
  [auctionId |-> b.auctionId, amount |-> b.amount,
   accepted |-> b.bidStatus \in {"Accepted", "AcceptedBelowReserve"}]

ResultMessage(a, w) ==
  [auctionId |-> a, winner |-> IF w = None THEN None ELSE w.bidder,
   amount |-> IF w = None THEN None ELSE w.amount]

Announced(a) == {outcomes[a][i] : i \in DOMAIN outcomes[a]}

Published ==
  {BidMessage(b) : b \in book}
    \union UNION {{ResultMessage(a, w) : w \in Announced(a)} : a \in AuctionId}

\* The messages of the constants are those that the bid service can publish.
ASSUME UniverseAssumption ==
  /\ BidPlaced = {BidMessage(b) : b \in Bid}
  /\ \A a \in AuctionId : ResultMessage(a, None) \in AuctionFinished
  /\ \A b \in Bid : b.bidStatus = "Accepted" => ResultMessage(b.auctionId, b) \in AuctionFinished

SalesInit == Init /\ House!Init /\ mishaps = {}
-----------------------------------------------------------------------------
\* An auction that is not in the documents of the bid service is found over gRPC.
Bidding(b) ==
  /\ Known(b.auctionId)
  /\ book' = book \union {b}
  /\ House!Enter

\* The loop finds auctions in the documents only, where seeded ones never are.
\* It closes one again when its creation was delivered again, which replaces the
\* document.
Closing(a) ==
  /\ WasCreated(a)
  /\ Len(outcomes[a]) < MaxOutcomes
  /\ House!Close(a)

HouseStep ==
  /\ \/ \E b \in Bid : Bidding(b)
     \/ \E a \in AuctionId : Closing(a) \/ House!Announce(a)
     \/ House!Forget
  /\ UNCHANGED <<vars, mishaps>>

\* Handler c of a bid ends without saving it (a restart among the reasons), or
\* one of either kind saves over what another has written since the load.
Mishap(c) ==
  /\ job[c] # None /\ job'[c] = None
  /\ LET row == rows[job[c].msg.auctionId]
     IN row # None =>
          \/ job[c].kind = "bid" /\ (rows' = rows \/ row.currentHighBid # job[c].loaded)
          \/ job[c].kind = "result" /\ row.sale # job[c].loaded

Watch ==
  mishaps' = mishaps \union
               {<<job[c].msg.auctionId, job[c].kind>> : c \in {x \in Consumer : Mishap(x)}}

AuctionStep ==
  /\ Next
  /\ \A m \in Messages : deliveries'[m] # deliveries[m] => m \in Published
  /\ Watch
  /\ UNCHANGED house

SalesNext == HouseStep \/ AuctionStep

SalesSpec == SalesInit /\ [][SalesNext]_<<vars, house, mishaps>>
-----------------------------------------------------------------------------
(* Properties *)

\* The sale in the row of an auction is one that the bid service has announced,
\* with the winner and the amount of the same bid, above the reserve price, and
\* Finished says that there is one: however often the auction was closed again,
\* and in whatever order its results came, unless a result was saved over another
\* that its handler had not loaded (AuctionFinishedConsumer.cs:30).
SaleWasAnnounced ==
  \A a \in AuctionId : rows[a] # None /\ <<a, "result">> \notin mishaps =>
    LET sale == rows[a].sale
    IN  IF sale.winner = None THEN sale.soldAmount = None /\ sale.status # "Finished"
        ELSE /\ sale.status = "Finished"
             /\ \E w \in Announced(a) \ {None} :
                  w.bidder = sale.winner /\ w.amount = sale.soldAmount

\* Once every bid on a created auction was handled, and none in a mishap, the
\* current high bid is not below the amount that the auction was sold at, though
\* bids and results are different messages in any order.  (Seeded auctions are
\* never sold: the loop of the bid service does not know them.)
HighBidCoversSale ==
  \A a \in AuctionId \ Seeded :
    /\ rows[a] # None /\ rows[a].sale.soldAmount # None
    /\ <<a, "bid">> \notin mishaps
    /\ \A b \in House!On(a) : deliveries[BidMessage(b)] > 0
    /\ \A c \in Consumer : job[c] # None => job[c].kind # "bid" \/ job[c].msg.auctionId # a
    => rows[a].currentHighBid # None /\ rows[a].currentHighBid >= rows[a].sale.soldAmount
=============================================================================
