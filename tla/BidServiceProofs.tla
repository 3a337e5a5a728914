-------------------------- MODULE BidServiceProofs --------------------------
(* Theorems about BidService, for all values of its constants. *)
EXTENDS BidServiceInv, TLAPS

USE DEF clientVars, checkerVars

\* A draft bid is a bid.
LEMMA DraftType ==
  ASSUME NEW r \in Request, NEW u \in User, NEW a \in AuctionId, NEW m \in Amount,
         NEW t \in Nat, NEW s \in BidStatus
  PROVE  [id |-> r, auctionId |-> a, bidder |-> u, amount |-> m,
          bidTime |-> t, bidStatus |-> s] \in Bid
BY DEF Bid

\* Stamping a bid or deciding its status leaves a bid with the same id.
LEMMA BidUpdate ==
  ASSUME NEW b \in Bid, NEW t \in Nat, NEW s \in BidStatus
  PROVE  /\ [b EXCEPT !.bidTime = t] \in Bid
         /\ [b EXCEPT !.bidTime = t].id = b.id
         /\ [b EXCEPT !.bidStatus = s] \in Bid
         /\ [b EXCEPT !.bidStatus = s].id = b.id
BY DEF Bid

\* A time that is cut to seconds is an integer.
LEMMA WholeSecondsType ==
  ASSUME NEW t \in Nat PROVE WholeSeconds(t) \in Int
BY BoundAssumption DEF WholeSeconds

\* A request that goes on to p, with a bid under its own id, keeps its type.
LEMMA MoveType ==
  ASSUME TypeOK, NEW r \in Request, NEW p \in InFlight, pc' = [pc EXCEPT ![r] = p],
         NEW b \in Bid, b.id = r, bid' = [bid EXCEPT ![r] = b]
  PROVE  /\ pc' \in [Request -> {"idle"} \union InFlight \union Answered]
         /\ bid' \in [Request -> Bid \union {None}]
         /\ \A q \in Request : pc'[q] \in InFlight => bid'[q] \in Bid /\ bid'[q].id = q
BY DEF TypeOK

\* Admit keeps the type of the request's variables.
LEMMA AdmitType ==
  ASSUME TypeOK, NEW r \in Request, NEW b \in Bid, b.id = r, NEW e \in Int, Admit(r, b, e)
  PROVE  /\ pc' \in [Request -> {"idle"} \union InFlight \union Answered]
         /\ bid' \in [Request -> Bid \union {None}]
         /\ \A q \in Request : pc'[q] \in InFlight => bid'[q] \in Bid /\ bid'[q].id = q
         /\ deadline' \in [Request -> Int]
<1>1. CASE b.bidder = Listing[b.auctionId].seller
  <2>1. /\ pc' = [pc EXCEPT ![r] = "rejected"]
        /\ bid' = [bid EXCEPT ![r] = None]
        /\ deadline' = deadline
    BY <1>1 DEF Admit
  <2> QED BY <2>1 DEF TypeOK, InFlight, Answered
<1>2. CASE b.bidder # Listing[b.auctionId].seller
  <2> DEFINE stamped == [b EXCEPT !.bidTime = now]
  <2>1. stamped \in Bid /\ stamped.id = r
    BY DEF Bid, TypeOK
  <2>2. /\ pc' = [pc EXCEPT ![r] = "dated"]
        /\ bid' = [bid EXCEPT ![r] = stamped]
        /\ deadline' = [deadline EXCEPT ![r] = e]
    BY <1>2 DEF Admit
  <2> HIDE DEF stamped
  <2> QED BY <2>1, <2>2 DEF TypeOK, InFlight, Answered
<1> QED BY <1>1, <1>2

\* An answer keeps the type of the request's variables.
LEMMA AnswerType ==
  ASSUME TypeOK, NEW r \in Request, NEW how \in Answered, Answer(r, how)
  PROVE  /\ pc' \in [Request -> {"idle"} \union InFlight \union Answered]
         /\ bid' \in [Request -> Bid \union {None}]
         /\ \A q \in Request : pc'[q] \in InFlight => bid'[q] \in Bid /\ bid'[q].id = q
         /\ deadline' \in [Request -> Int]
         /\ earlier' \in [Request -> SUBSET Bid]
BY DEF Answer, TypeOK, InFlight, Answered

\* Every step keeps the types.
LEMMA TypeStep == TypeOK /\ [Next]_vars => TypeOK'
<1> SUFFICES ASSUME TypeOK, [Next]_vars PROVE TypeOK'
  OBVIOUS
<1>1. ASSUME NEW r \in Request, NEW u \in User, NEW a \in AuctionId, NEW m \in Amount,
             PlaceBid(r, u, a, m)
      PROVE  TypeOK'
  <2> DEFINE draft == [id |-> r, auctionId |-> a, bidder |-> u, amount |-> m,
                       bidTime |-> now, bidStatus |-> "Accepted"]
  <2>1. draft \in Bid /\ draft.id = r
    BY DraftType DEF TypeOK, BidStatus
  <2>2. BidsOn(a) \subseteq Bid
    BY DEF BidsOn, TypeOK
  <2>3. CASE auctions[a] # "absent" /\ Admit(r, draft, Listing[a].auctionEnd)
    <3>1. Listing[a].auctionEnd \in Int
      BY ListingAssumption
    <3> HIDE DEF draft
    <3>2. /\ pc' \in [Request -> {"idle"} \union InFlight \union Answered]
          /\ bid' \in [Request -> Bid \union {None}]
          /\ \A q \in Request : pc'[q] \in InFlight => bid'[q] \in Bid /\ bid'[q].id = q
          /\ deadline' \in [Request -> Int]
      BY <2>1, <2>3, <3>1, AdmitType
    <3> QED BY <1>1, <2>2, <3>2 DEF PlaceBid, TypeOK
  <2>4. CASE auctions[a] = "absent"
    <3> HIDE DEF draft
    <3>1. pc' = [pc EXCEPT ![r] = "grpc"] /\ bid' = [bid EXCEPT ![r] = draft]
      BY <1>1, <2>4 DEF PlaceBid, draft
    <3>2. /\ pc' \in [Request -> {"idle"} \union InFlight \union Answered]
          /\ bid' \in [Request -> Bid \union {None}]
          /\ \A q \in Request : pc'[q] \in InFlight => bid'[q] \in Bid /\ bid'[q].id = q
      BY <2>1, <3>1, MoveType DEF InFlight
    <3>3. /\ earlier' = [earlier EXCEPT ![r] = BidsOn(a)]
          /\ UNCHANGED <<now, listing, deliveries, auctions, bids, checkerVars,
                         placed, results, sealed, crashes, deadline>>
      BY <1>1, <2>4 DEF PlaceBid
    <3> QED BY <2>2, <3>2, <3>3 DEF TypeOK, checkerVars
  <2> QED BY <1>1, <2>3, <2>4 DEF PlaceBid
<1>2. ASSUME NEW r \in Request, GrpcReply(r) PROVE TypeOK'
  <2>1. bid[r] \in Bid /\ bid[r].id = r
    BY <1>2 DEF GrpcReply, TypeOK, InFlight
  <2>2. WholeSeconds(Listing[bid[r].auctionId].auctionEnd) \in Int
    BY <2>1, ListingAssumption, WholeSecondsType DEF Bid
  <2>3. Admit(r, bid[r], WholeSeconds(Listing[bid[r].auctionId].auctionEnd))
    BY <1>2 DEF GrpcReply
  <2>4. /\ pc' \in [Request -> {"idle"} \union InFlight \union Answered]
        /\ bid' \in [Request -> Bid \union {None}]
        /\ \A q \in Request : pc'[q] \in InFlight => bid'[q] \in Bid /\ bid'[q].id = q
        /\ deadline' \in [Request -> Int]
    BY <2>1, <2>2, <2>3, AdmitType
  <2> QED BY <1>2, <2>4 DEF GrpcReply, TypeOK
<1>3. ASSUME NEW r \in Request, GrpcNull(r) PROVE TypeOK'
  BY <1>3, AnswerType DEF GrpcNull, TypeOK, Answered
<1>4. ASSUME NEW r \in Request, CheckDeadline(r) PROVE TypeOK'
  <2>1. bid[r] \in Bid /\ bid[r].id = r
    BY <1>4 DEF CheckDeadline, TypeOK, InFlight
  <2>2. [bid[r] EXCEPT !.bidStatus = "Finished"] \in Bid
        /\ [bid[r] EXCEPT !.bidStatus = "Finished"].id = r
    BY <2>1, BidUpdate DEF BidStatus, Bid
  <2>3. /\ pc' \in [Request -> {"idle"} \union InFlight \union Answered]
        /\ bid' \in [Request -> Bid \union {None}]
        /\ \A q \in Request : pc'[q] \in InFlight => bid'[q] \in Bid /\ bid'[q].id = q
    <3>1. CASE pc' = [pc EXCEPT ![r] = "saving"] /\ bid' = [bid EXCEPT ![r].bidStatus = "Finished"]
      BY <2>2, <3>1, MoveType DEF InFlight
    <3>2. CASE pc' = [pc EXCEPT ![r] = "pricing"] /\ bid' = bid
      BY <2>1, <3>2 DEF TypeOK, InFlight
    <3> QED BY <1>4, <3>1, <3>2 DEF CheckDeadline
  <2>4. UNCHANGED <<now, listing, deliveries, auctions, bids, deadline, earlier,
                    checkerVars, placed, results, sealed, crashes>>
    BY <1>4 DEF CheckDeadline
  <2> QED BY <2>3, <2>4 DEF TypeOK, checkerVars
<1>5. ASSUME NEW r \in Request, ReadHighBid(r) PROVE TypeOK'
  <2>1. bid[r] \in Bid /\ bid[r].id = r
    BY <1>5 DEF ReadHighBid, TypeOK, InFlight
  <2>2. Price(bid[r]) \in BidStatus
    BY DEF Price, BidStatus
  <2>3. [bid[r] EXCEPT !.bidStatus = Price(bid[r])] \in Bid
        /\ [bid[r] EXCEPT !.bidStatus = Price(bid[r])].id = r
    BY <2>1, <2>2 DEF Bid
  <2> QED BY <1>5, <2>1, <2>3 DEF ReadHighBid, TypeOK, InFlight
<1>6. ASSUME NEW r \in Request, SaveBid(r) PROVE TypeOK'
  BY <1>6 DEF SaveBid, TypeOK, InFlight
<1>7. ASSUME NEW r \in Request, PublishBid(r) PROVE TypeOK'
  <2>1. bid[r] \in Bid
    BY <1>7 DEF PublishBid, TypeOK, InFlight
  <2> QED BY <1>7, <2>1, AnswerType DEF PublishBid, TypeOK, Answered
<1>8. ASSUME NEW r \in Request, FailRequest(r) PROVE TypeOK'
  BY <1>8, AnswerType DEF FailRequest, TypeOK, Answered
<1>9. CASE CheckAuctions
  BY <1>9 DEF CheckAuctions, TypeOK
<1>10. ASSUME NEW a \in AuctionId, MarkFinished(a) PROVE TypeOK'
  <2>1. AcceptedOn(a) \subseteq Bid
    BY DEF AcceptedOn, BidsOn, TypeOK
  <2> QED BY <1>10, <2>1 DEF MarkFinished, TypeOK
<1>11. CASE SelectWinner
  <2>1. TopAccepted(current) \subseteq Bid
    BY DEF TopAccepted, AcceptedOn, BidsOn, TypeOK
  <2> QED BY <1>11, <2>1 DEF SelectWinner, TypeOK
<1>12. CASE PublishFinished
  <2>1. Append(results[current], winner) \in Seq(Bid \union {None})
    BY <1>12 DEF PublishFinished, TypeOK
  <2> QED BY <1>12, <2>1 DEF PublishFinished, TypeOK
<1>13. ASSUME NEW a \in AuctionId, ConsumeAuctionCreated(a) PROVE TypeOK'
  BY <1>13 DEF ConsumeAuctionCreated, TypeOK
<1>14. ASSUME NEW a \in AuctionId, ListAuction(a) \/ DelistAuction(a) PROVE TypeOK'
  BY <1>14 DEF ListAuction, DelistAuction, TypeOK
<1>15. CASE Tick
  BY <1>15 DEF Tick, TypeOK
<1>16. CASE Crash
  BY <1>16 DEF Crash, TypeOK, InFlight, Answered
<1>17. CASE UNCHANGED vars
  BY <1>17 DEF vars, TypeOK
<1> QED
  BY <1>1, <1>2, <1>3, <1>4, <1>5, <1>6, <1>7, <1>8, <1>9, <1>10, <1>11, <1>12,
     <1>13, <1>14, <1>15, <1>16, <1>17
     DEF Next, RequestStep, CheckerStep, AuctionStep

\* Type correctness: in every reachable state every variable has its type, and
\* a request in flight holds its own bid.
THEOREM TypeCorrect == Spec => []TypeOK
<1>1. Init => TypeOK
  BY SeededAssumption, BoundAssumption DEF Init, TypeOK, InFlight
<1>2. TypeOK /\ [Next]_vars => TypeOK'
  BY TypeStep
<1> QED BY <1>1, <1>2, PTL DEF Spec
-----------------------------------------------------------------------------
(* The ledger of deliveries and results *)

\* The steps of requests and of the surroundings leave the ledger's variables
\* alone.
LedgerVars == <<deliveries, auctions, chk, batch, current, results>>

\* Steps that leave its variables alone keep the ledger of deliveries and results.
LEMMA LedgerFrame == LedgerInv /\ UNCHANGED LedgerVars => LedgerInv'
BY DEF LedgerInv, LedgerVars, Owed, Open

\* Every step keeps the ledger: no more results than deliveries of the creation.
LEMMA LedgerStep == TypeOK /\ LedgerInv /\ [Next]_vars => LedgerInv'
<1> SUFFICES ASSUME TypeOK, LedgerInv, [Next]_vars PROVE LedgerInv'
  OBVIOUS
<1>1. ASSUME NEW r \in Request, RequestStep(r) PROVE LedgerInv'
  <2>1. UNCHANGED LedgerVars
    BY <1>1 DEF RequestStep, PlaceBid, GrpcReply, GrpcNull, CheckDeadline, ReadHighBid,
                SaveBid, PublishBid, FailRequest, LedgerVars
  <2> QED BY <2>1, LedgerFrame
<1>2. CASE CheckAuctions
  <2>1. \A a \in AuctionId : Owed(a) = 0 /\ Owed(a)' = 0
    BY <1>2 DEF CheckAuctions, Owed
  <2>2. \A a \in batch' : auctions'[a] = "open"
    BY <1>2 DEF CheckAuctions
  <2> QED BY <1>2, <2>1, <2>2 DEF CheckAuctions, LedgerInv, Open
<1>3. ASSUME NEW c \in AuctionId, MarkFinished(c) PROVE LedgerInv'
  <2>1. auctions[c] = "open" /\ auctions'[c] = "finished"
    BY <1>3 DEF MarkFinished, LedgerInv, TypeOK
  <2>2. \A a \in AuctionId : Owed(a) = 0 /\ Owed(a)' = IF a = c THEN 1 ELSE 0
    BY <1>3 DEF MarkFinished, Owed
  <2>3. \A a \in batch' : auctions'[a] = "open"
    BY <1>3 DEF MarkFinished, LedgerInv, TypeOK
  <2>4. ASSUME NEW a \in AuctionId
        PROVE  (Len(results[a]) + Owed(a) + Open(a) <= deliveries[a])'
    <3>1. results' = results /\ deliveries' = deliveries
      BY <1>3 DEF MarkFinished
    <3>2. Len(results[a]) \in Nat
      BY DEF TypeOK
    <3>3. Len(results[a]) + Owed(a) + Open(a) <= deliveries[a]
      BY DEF LedgerInv
    <3>4. CASE a = c
      BY <2>1, <2>2, <3>1, <3>2, <3>3, <3>4 DEF Open
    <3>5. CASE a # c
      <4>1. auctions'[a] = auctions[a]
        BY <1>3, <3>5 DEF MarkFinished, TypeOK
      <4> QED BY <2>2, <3>1, <3>2, <3>3, <3>5, <4>1 DEF Open
    <3> QED BY <3>4, <3>5
  <2> QED BY <2>3, <2>4 DEF LedgerInv, Open
<1>4. CASE SelectWinner
  <2>1. \A a \in AuctionId : Owed(a)' = Owed(a) /\ Owed(a) \in {0, 1}
    BY <1>4 DEF SelectWinner, Owed
  <2> QED BY <1>4, <2>1 DEF SelectWinner, LedgerInv, Open
<1>5. CASE PublishFinished
  <2>1. current \in AuctionId
    BY <1>5 DEF PublishFinished, TypeOK
  <2>2. \A a \in AuctionId : Owed(a) = (IF a = current THEN 1 ELSE 0) /\ Owed(a)' = 0
    BY <1>5 DEF PublishFinished, Owed
  <2>3. ASSUME NEW a \in AuctionId
        PROVE  (Len(results[a]) + Owed(a) + Open(a) <= deliveries[a])'
    <3>1. auctions' = auctions /\ deliveries' = deliveries
      BY <1>5 DEF PublishFinished
    <3>2. Len(results[a]) \in Nat /\ results[a] \in Seq(Bid \union {None})
      BY DEF TypeOK
    <3>3. Len(results[a]) + Owed(a) + Open(a) <= deliveries[a]
      BY DEF LedgerInv
    <3>4. CASE a = current
      <4>1. results'[a] = Append(results[a], winner)
        BY <1>5, <2>1, <3>4 DEF PublishFinished, TypeOK
      <4>2. Len(results'[a]) = Len(results[a]) + 1
        BY <3>2, <4>1 DEF TypeOK
      <4> QED BY <2>2, <3>1, <3>2, <3>3, <3>4, <4>2 DEF Open
    <3>5. CASE a # current
      <4>1. results'[a] = results[a]
        BY <1>5, <3>5 DEF PublishFinished, TypeOK
      <4> QED BY <2>2, <3>1, <3>2, <3>3, <3>5, <4>1 DEF Open
    <3> QED BY <3>4, <3>5
  <2>4. \A a \in batch' : auctions'[a] = "open"
    BY <1>5 DEF PublishFinished, LedgerInv
  <2> QED BY <2>3, <2>4 DEF LedgerInv, Open
<1>6. ASSUME NEW c \in AuctionId, ConsumeAuctionCreated(c) PROVE LedgerInv'
  <2>1. \A a \in AuctionId : Owed(a)' = Owed(a) /\ Owed(a) \in {0, 1}
    BY <1>6 DEF ConsumeAuctionCreated, Owed
  <2>2. \A a \in batch' : auctions'[a] = "open"
    BY <1>6 DEF ConsumeAuctionCreated, LedgerInv, TypeOK
  <2>3. ASSUME NEW a \in AuctionId
        PROVE  (Len(results[a]) + Owed(a) + Open(a) <= deliveries[a])'
    <3>1. results' = results
      BY <1>6 DEF ConsumeAuctionCreated
    <3>2. Len(results[a]) \in Nat /\ deliveries[a] \in Nat
      BY DEF TypeOK
    <3>3. Len(results[a]) + Owed(a) + Open(a) <= deliveries[a]
      BY DEF LedgerInv
    <3>4. CASE a = c
      <4>1. auctions'[a] = "open" /\ deliveries'[a] = deliveries[a] + 1
        BY <1>6, <3>4 DEF ConsumeAuctionCreated, TypeOK
      <4> QED BY <2>1, <3>1, <3>2, <3>3, <4>1 DEF Open
    <3>5. CASE a # c
      <4>1. auctions'[a] = auctions[a] /\ deliveries'[a] = deliveries[a]
        BY <1>6, <3>5 DEF ConsumeAuctionCreated, TypeOK
      <4> QED BY <2>1, <3>1, <3>2, <3>3, <4>1 DEF Open
    <3> QED BY <3>4, <3>5
  <2> QED BY <2>2, <2>3 DEF LedgerInv, Open
<1>7. ASSUME NEW a \in AuctionId, ListAuction(a) \/ DelistAuction(a) PROVE LedgerInv'
  BY <1>7, LedgerFrame DEF ListAuction, DelistAuction, LedgerVars
<1>8. CASE Tick
  BY <1>8, LedgerFrame DEF Tick, LedgerVars
<1>9. CASE Crash
  <2>1. \A a \in AuctionId : Owed(a)' = 0 /\ Owed(a) \in {0, 1}
    BY <1>9 DEF Crash, Owed
  <2>2. \A a \in AuctionId : Len(results[a]) \in Nat /\ deliveries[a] \in Nat
    BY DEF TypeOK
  <2> QED BY <1>9, <2>1, <2>2 DEF Crash, LedgerInv, Open
<1>10. CASE UNCHANGED vars
  BY <1>10, LedgerFrame DEF vars, LedgerVars
<1> QED
  BY <1>1, <1>2, <1>3, <1>4, <1>5, <1>6, <1>7, <1>8, <1>9, <1>10
     DEF Next, CheckerStep, AuctionStep

\* Nothing is delivered, open or published at the start.
LEMMA LedgerInit == Init => LedgerInv
BY DEF Init, LedgerInv, Owed, Open

\* The ledger balances for good.
THEOREM LedgerBalances == Spec => []LedgerInv
<1>1. TypeOK /\ TypeOK' /\ LedgerInv /\ [Next]_vars => LedgerInv'
  BY LedgerStep
<1> QED BY <1>1, LedgerInit, TypeCorrect, PTL DEF Spec

\* Never more AuctionFinished events for an auction than deliveries of its
\* AuctionCreated.
THEOREM AtMostOneResult == Spec => []AtMostOneResultPerDelivery
<1>1. TypeOK /\ LedgerInv => AtMostOneResultPerDelivery
  <2> SUFFICES ASSUME TypeOK, LedgerInv, NEW a \in AuctionId
               PROVE  Len(results[a]) <= deliveries[a]
    BY DEF AtMostOneResultPerDelivery
  <2>1. Len(results[a]) \in Nat /\ deliveries[a] \in Nat
    BY DEF TypeOK
  <2>2. Len(results[a]) + Owed(a) + Open(a) <= deliveries[a]
    BY DEF LedgerInv
  <2>3. Owed(a) \in {0, 1} /\ Open(a) \in {0, 1}
    BY DEF Owed, Open
  <2> QED BY <2>1, <2>2, <2>3
<1> QED BY <1>1, TypeCorrect, LedgerBalances, PTL
=============================================================================
