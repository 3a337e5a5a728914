-------------------------- MODULE AuctionSalesInv --------------------------
(***************************************************************************)
(* The inductive invariant of AuctionSales, on top of AuctionService's:    *)
(* what the house has announced, where the delivered messages come from,   *)
(* and what has become of each of them, in a row or in a handler.          *)
(***************************************************************************)
EXTENDS AuctionServiceInv, AuctionSales

\* The house announces accepted bids of its book, above the reserve price.
HouseInv ==
  /\ book \subseteq Bid
  /\ outcomes \in [AuctionId -> Seq(Bid \union {None})]
  /\ \A b \in book : b.bidStatus = "Accepted" => b.amount > Listing[b.auctionId].reservePrice
  /\ \A a \in AuctionId : Announced(a) \subseteq House!Accepted(a) \union {None}

\* What was delivered had been published, about an auction that is known; what a
\* handler holds had been delivered.
MessageInv ==
  /\ \A m \in Messages : deliveries[m] > 0 => m \in Published /\ Known(m.auctionId)
  /\ \A c \in Consumer : job[c] # None => deliveries[job[c].msg] > 0

\* An amount is none, or that of a bid that auction a was announced as sold to.
\* Rows and handlers hold no other, mishaps or not.
Sold(a, n) == n = None \/ \E w \in Announced(a) \ {None} : w.amount = n

AmountInv ==
  /\ \A a \in AuctionId : rows[a] # None => Sold(a, rows[a].sale.soldAmount)
  /\ \A c \in Consumer : job[c] # None /\ job[c].kind = "result" =>
       Sold(job[c].msg.auctionId, job[c].loaded.soldAmount)

\* An accepted bid on a created auction that was delivered, and met with no mishap
\* there, is in a handler or covered by the current high bid.
InHand(m) == \E c \in Consumer : job[c] # None /\ job[c].kind = "bid" /\ job[c].msg = m

Covers(high, m) == high # None /\ high >= m.amount

HandledInv ==
  \A m \in BidPlaced :
    /\ m.accepted /\ m.auctionId \notin Seeded /\ deliveries[m] > 0
    /\ rows[m.auctionId] # None /\ <<m.auctionId, "bid">> \notin mishaps
    => InHand(m) \/ Covers(rows[m.auctionId].currentHighBid, m)

SalesInv == IInv /\ HouseInv /\ MessageInv /\ SaleWasAnnounced /\ AmountInv /\ HandledInv
=============================================================================
