-------------------------- MODULE BidPromiseProofs --------------------------
(***************************************************************************)
(* Theorems about what BidService stores and publishes, for all values of  *)
(* its constants: bids deserve their status, winners are eligible, results *)
(* only improve, and the service implements AuctionHouse.                  *)
(***************************************************************************)
EXTENDS BidServiceProofs

USE DEF clientVars, checkerVars

\* A bid that deserves its status keeps deserving it as the book grows.
LEMMA SoundMono ==
  ASSUME NEW B, NEW C, B \subseteq C, NEW E, NEW b, Sound(b, B, E)
  PROVE  Sound(b, C, E)
BY DEF Sound

\* A request that does not move keeps what it knows, when time passes and
\* others store bids.
LEMMA KnowsFrame ==
  ASSUME TypeOK, NEW r \in Request, Knows(r),
         pc'[r] = pc[r], bid'[r] = bid[r],
         deadline'[r] = deadline[r], earlier'[r] = earlier[r],
         now' \in Nat, now <= now', bids \subseteq bids', \A b \in bids' \ bids : b.id # r
  PROVE  Knows(r)'
<1>1. Sound(bid[r], bids, earlier[r]) => Sound(bid[r], bids', earlier[r])
  BY SoundMono
<1>2. (pc[r] \in {"saving", "publishing"} => Sound(bid[r], bids, earlier[r]))'
  BY <1>1 DEF Knows
<1>3. (pc[r] \in {"dated", "pricing"} => bid[r].bidTime <= now)'
  <2>1. pc[r] \in {"dated", "pricing"} => bid[r].bidTime \in Nat
    BY DEF TypeOK, InFlight, Bid
  <2> QED BY <2>1 DEF Knows, TypeOK
<1> QED BY <1>2, <1>3 DEF Knows

\* Nothing is asked of a request that has returned.
LEMMA KnowsAnswered ==
  ASSUME NEW r \in Request, pc'[r] \in Answered PROVE Knows(r)'
BY DEF Knows, Answered, InFlight

\* The other requests, when request r moves and stores nothing.
LEMMA OthersKnow ==
  ASSUME TypeOK, \A q \in Request : Knows(q), NEW r \in Request,
         \A q \in Request \ {r} : /\ pc'[q] = pc[q] /\ bid'[q] = bid[q]
                                  /\ deadline'[q] = deadline[q] /\ earlier'[q] = earlier[q],
         now' = now, bids' = bids
  PROVE  \A q \in Request \ {r} : Knows(q)'
BY KnowsFrame DEF TypeOK

\* The stored bids, when none is added and none of their histories changes.
LEMMA BookFrame ==
  ASSUME BookInv, bids' = bids, \A b \in bids : earlier'[b.id] = earlier[b.id],
         placed' \subseteq bids
  PROVE  BookInv'
BY DEF BookInv

\* Admit: the request is refused, or stamps a bid that is not the seller's.
LEMMA AdmitKnows ==
  ASSUME TypeOK, NEW r \in Request, NEW b \in Bid, b.id = r, NEW e \in Int, Admit(r, b, e),
         e <= Listing[b.auctionId].auctionEnd,
         \A c \in bids : c.id # r,
         \A x \in earlier'[r] : x \in bids /\ x.auctionId = b.auctionId,
         now' = now, bids' = bids
  PROVE  /\ Knows(r)'
         /\ \A q \in Request \ {r} : pc'[q] = pc[q] /\ bid'[q] = bid[q] /\ deadline'[q] = deadline[q]
<1>1. CASE b.bidder = Listing[b.auctionId].seller
  <2>1. /\ pc' = [pc EXCEPT ![r] = "rejected"]
        /\ bid' = [bid EXCEPT ![r] = None]
        /\ deadline' = deadline
    BY <1>1 DEF Admit
  <2>2. pc'[r] \in Answered
    BY <2>1 DEF TypeOK, Answered
  <2> QED BY <2>1, <2>2, KnowsAnswered DEF TypeOK
<1>2. CASE b.bidder # Listing[b.auctionId].seller
  <2> DEFINE stamped == [b EXCEPT !.bidTime = now]
  <2>1. /\ stamped.bidder = b.bidder /\ stamped.auctionId = b.auctionId
        /\ stamped.bidTime = now /\ now \in Nat
    BY DEF Bid, TypeOK
  <2>2. /\ pc' = [pc EXCEPT ![r] = "dated"]
        /\ bid' = [bid EXCEPT ![r] = stamped]
        /\ deadline' = [deadline EXCEPT ![r] = e]
    BY <1>2 DEF Admit
  <2> HIDE DEF stamped
  <2>3. pc'[r] = "dated" /\ bid'[r] = stamped /\ deadline'[r] = e
    BY <2>2 DEF TypeOK
  <2>4. Knows(r)'
    BY <1>2, <2>1, <2>3 DEF Knows
  <2> QED BY <2>2, <2>4 DEF TypeOK
<1> QED BY <1>1, <1>2

\* A request that returns: the others and the book are as before.
LEMMA AnswerKnows ==
  ASSUME TypeOK, RequestInv, NEW r \in Request, NEW how \in Answered, Answer(r, how),
         now' = now, bids' = bids, placed' \subseteq bids
  PROVE  RequestInv'
<1>1. /\ pc'[r] = how
      /\ \A q \in Request \ {r} : /\ pc'[q] = pc[q] /\ bid'[q] = bid[q]
                                  /\ deadline'[q] = deadline[q] /\ earlier'[q] = earlier[q]
      /\ earlier' = earlier
  BY DEF Answer, TypeOK
<1>2. Knows(r)'
  BY <1>1, KnowsAnswered
<1>3. \A q \in Request \ {r} : Knows(q)'
  BY <1>1, OthersKnow DEF RequestInv
<1>4. BookInv'
  BY <1>1, BookFrame DEF RequestInv
<1> QED BY <1>2, <1>3, <1>4 DEF RequestInv

\* Steps that leave the requests and the book alone, while time may pass.
LEMMA RequestFrame ==
  ASSUME TypeOK, RequestInv, bids' = bids, pc' = pc, bid' = bid, deadline' = deadline,
         earlier' = earlier, placed' = placed, now' \in Nat, now <= now'
  PROVE  RequestInv'
<1>1. \A q \in Request : Knows(q)'
  BY KnowsFrame DEF RequestInv
<1>2. BookInv'
  BY BookFrame DEF RequestInv, BookInv
<1> QED BY <1>1, <1>2 DEF RequestInv

\* A step of one request keeps what the requests know of each other.
LEMMA RequestStepKeepsInv ==
  ASSUME TypeOK, RequestInv, NEW r \in Request, RequestStep(r)
  PROVE  RequestInv'
<1> USE DEF TypeOK
<1>1. ASSUME NEW u \in User, NEW a \in AuctionId, NEW m \in Amount, PlaceBid(r, u, a, m)
      PROVE  RequestInv'
  <2> DEFINE draft == [id |-> r, auctionId |-> a, bidder |-> u, amount |-> m,
                       bidTime |-> now, bidStatus |-> "Accepted"]
  <2>1. draft \in Bid /\ draft.id = r /\ draft.auctionId = a
    BY DraftType DEF BidStatus
  <2>2. /\ pc[r] = "idle" /\ now' = now /\ bids' = bids /\ placed' = placed
        /\ earlier' = [earlier EXCEPT ![r] = BidsOn(a)]
    BY <1>1 DEF PlaceBid
  <2>3. \A b \in bids : b.id # r
    BY <2>2 DEF RequestInv, Knows
  <2>4. \A x \in earlier'[r] : x \in bids /\ x.auctionId = a
    BY <2>2 DEF BidsOn
  <2>5. \A q \in Request \ {r} : earlier'[q] = earlier[q]
    BY <2>2
  <2>6. BookInv'
    <3>1. \A b \in bids : earlier'[b.id] = earlier[b.id]
      BY <2>3, <2>5 DEF Bid
    <3> QED BY <2>2, <3>1, BookFrame DEF RequestInv, BookInv
  <2>7. /\ Knows(r)'
        /\ \A q \in Request \ {r} : pc'[q] = pc[q] /\ bid'[q] = bid[q] /\ deadline'[q] = deadline[q]
    <3>1. CASE auctions[a] # "absent"
      <4>1. Admit(r, draft, Listing[a].auctionEnd)
        BY <1>1, <3>1 DEF PlaceBid
      <4>2. Listing[a].auctionEnd \in Int
        BY ListingAssumption
      <4> HIDE DEF draft, TypeOK
      <4> QED BY <2>1, <2>2, <2>3, <2>4, <4>1, <4>2, AdmitKnows
    <3>2. CASE auctions[a] = "absent"
      <4>1. /\ pc' = [pc EXCEPT ![r] = "grpc"]
            /\ bid' = [bid EXCEPT ![r] = draft]
            /\ deadline' = deadline
        BY <1>1, <3>2 DEF PlaceBid
      <4> HIDE DEF draft
      <4>2. pc'[r] = "grpc" /\ bid'[r] = draft
        BY <4>1
      <4>3. Knows(r)'
        BY <2>1, <2>2, <2>3, <2>4, <4>2 DEF Knows
      <4> QED BY <4>1, <4>3
    <3> QED BY <3>1, <3>2
  <2>8. \A q \in Request \ {r} : Knows(q)'
    <3> HIDE DEF TypeOK
    <3> QED BY <2>2, <2>5, <2>7, OthersKnow DEF RequestInv
  <2> QED BY <2>6, <2>7, <2>8 DEF RequestInv
<1>2. CASE GrpcReply(r)
  <2> DEFINE end == WholeSeconds(Listing[bid[r].auctionId].auctionEnd)
  <2>1. pc[r] = "grpc" /\ now' = now /\ bids' = bids /\ placed' = placed /\ earlier' = earlier
    BY <1>2 DEF GrpcReply
  <2>2. bid[r] \in Bid /\ bid[r].id = r
    BY <2>1 DEF InFlight
  <2>3. end \in Int /\ end <= Listing[bid[r].auctionId].auctionEnd
    <3>1. Listing[bid[r].auctionId].auctionEnd \in Nat
      BY <2>2, ListingAssumption DEF Bid
    <3> QED BY <3>1, BoundAssumption DEF WholeSeconds
  <2>4. Admit(r, bid[r], end)
    BY <1>2 DEF GrpcReply
  <2>5. \A b \in bids : b.id # r
    BY <2>1 DEF RequestInv, Knows
  <2>6. \A x \in earlier'[r] : x \in bids /\ x.auctionId = bid[r].auctionId
    BY <2>1 DEF RequestInv, Knows, InFlight
  <2> HIDE DEF end, TypeOK
  <2>7. /\ Knows(r)'
        /\ \A q \in Request \ {r} : pc'[q] = pc[q] /\ bid'[q] = bid[q] /\ deadline'[q] = deadline[q]
    BY <2>1, <2>2, <2>3, <2>4, <2>5, <2>6, AdmitKnows
  <2>8. \A q \in Request \ {r} : Knows(q)'
    BY <2>1, <2>7, OthersKnow DEF RequestInv
  <2>9. BookInv'
    BY <2>1, BookFrame DEF RequestInv, BookInv
  <2> QED BY <2>7, <2>8, <2>9 DEF RequestInv
<1>3. CASE GrpcNull(r)
  <2> HIDE DEF TypeOK
  <2> QED BY <1>3, AnswerKnows DEF GrpcNull, RequestInv, BookInv, Answered
<1>4. CASE CheckDeadline(r)
  <2>1. /\ pc[r] = "dated" /\ now' = now /\ bids' = bids /\ placed' = placed
        /\ earlier' = earlier /\ deadline' = deadline
    BY <1>4 DEF CheckDeadline
  <2>2. bid[r] \in Bid /\ deadline[r] \in Int
    BY <2>1 DEF InFlight
  <2>3. /\ bid[r].bidder # Listing[bid[r].auctionId].seller
        /\ bid[r].bidTime <= now
        /\ deadline[r] <= Listing[bid[r].auctionId].auctionEnd
        /\ \A b \in bids : b.id # r
        /\ \A e \in earlier[r] : e \in bids /\ e.auctionId = bid[r].auctionId
    BY <2>1 DEF RequestInv, Knows, InFlight
  <2>4. Knows(r)'
    <3>1. CASE deadline[r] < now
      <4> DEFINE judged == [bid[r] EXCEPT !.bidStatus = "Finished"]
      <4>1. /\ judged.bidStatus = "Finished" /\ judged.auctionId = bid[r].auctionId
            /\ judged.bidder = bid[r].bidder
        BY <2>2 DEF Bid
      <4> HIDE DEF judged
      <4>2. Sound(judged, bids, earlier[r])
        BY <2>3, <4>1 DEF Sound
      <4>3. pc'[r] = "saving" /\ bid'[r] = judged
        BY <1>4, <3>1 DEF CheckDeadline, judged
      <4> QED BY <2>1, <2>3, <4>1, <4>2, <4>3 DEF Knows
    <3>2. CASE ~(deadline[r] < now)
      <4>1. pc'[r] = "pricing" /\ bid'[r] = bid[r]
        BY <1>4, <3>2 DEF CheckDeadline
      <4>2. bid[r].bidTime <= Listing[bid[r].auctionId].auctionEnd
        <5>1. /\ bid[r].bidTime \in Nat /\ Listing[bid[r].auctionId].auctionEnd \in Nat
              /\ now \in Nat
          BY <2>2, ListingAssumption DEF Bid
        <5> QED BY <2>2, <2>3, <3>2, <5>1
      <4> QED BY <2>1, <2>3, <4>1, <4>2 DEF Knows
    <3> QED BY <3>1, <3>2
  <2>5. \A q \in Request \ {r} : pc'[q] = pc[q] /\ bid'[q] = bid[q]
    BY <1>4 DEF CheckDeadline
  <2> HIDE DEF TypeOK
  <2>6. \A q \in Request \ {r} : Knows(q)'
    BY <2>1, <2>5, OthersKnow DEF RequestInv
  <2>7. BookInv'
    BY <2>1, BookFrame DEF RequestInv, BookInv
  <2> QED BY <2>4, <2>6, <2>7 DEF RequestInv
<1>5. CASE ReadHighBid(r)
  <2> DEFINE priced == [bid[r] EXCEPT !.bidStatus = Price(bid[r])]
  <2>1. /\ pc[r] = "pricing" /\ now' = now /\ bids' = bids /\ placed' = placed
        /\ earlier' = earlier /\ deadline' = deadline
    BY <1>5 DEF ReadHighBid
  <2>2. bid[r] \in Bid /\ bid[r].id = r
    BY <2>1 DEF InFlight
  <2>3. /\ bid[r].bidder # Listing[bid[r].auctionId].seller
        /\ bid[r].bidTime <= Listing[bid[r].auctionId].auctionEnd
        /\ \A b \in bids : b.id # r
        /\ \A e \in earlier[r] : e \in bids /\ e.auctionId = bid[r].auctionId
    BY <2>1 DEF RequestInv, Knows, InFlight
  <2>4. /\ priced.id = r /\ priced.auctionId = bid[r].auctionId
        /\ priced.bidder = bid[r].bidder /\ priced.amount = bid[r].amount
        /\ priced.bidTime = bid[r].bidTime /\ priced.bidStatus = Price(bid[r])
    BY <2>2 DEF Bid
  <2>5. pc'[r] = "saving" /\ bid'[r] = priced
    BY <1>5 DEF ReadHighBid
  <2>6. \A q \in Request \ {r} : pc'[q] = pc[q] /\ bid'[q] = bid[q]
    BY <1>5 DEF ReadHighBid
  <2>7. /\ priced.amount \in Int /\ \A c \in bids : c.amount \in Int
        /\ Listing[bid[r].auctionId].reservePrice \in Int
    BY <2>2, <2>4, AmountAssumption, ListingAssumption DEF Bid
  <2> HIDE DEF priced, TypeOK
  <2>8. Sound(priced, bids, earlier[r])
    <3>1. CASE \E h \in BidsOn(bid[r].auctionId) : bid[r].amount <= h.amount
      <4>1. priced.bidStatus = "TooLow"
        BY <2>4, <3>1 DEF Price
      <4>2. \E c \in bids : c.auctionId = priced.auctionId /\ c.id # priced.id /\ c.amount >= priced.amount
        BY <2>3, <2>4, <2>7, <3>1 DEF BidsOn
      <4> QED BY <2>3, <2>4, <4>1, <4>2 DEF Sound
    <3>2. CASE ~(\E h \in BidsOn(bid[r].auctionId) : bid[r].amount <= h.amount)
      <4>1. \A e \in earlier[r] : e.amount < priced.amount
        BY <2>3, <2>4, <2>7, <3>2 DEF BidsOn
      <4>2. priced.bidStatus = IF bid[r].amount > Listing[bid[r].auctionId].reservePrice
                               THEN "Accepted" ELSE "AcceptedBelowReserve"
        BY <2>4, <3>2 DEF Price
      <4> QED BY <2>3, <2>4, <2>7, <4>1, <4>2 DEF Sound
    <3> QED BY <3>1, <3>2
  <2>9. Knows(r)'
    BY <2>1, <2>3, <2>4, <2>5, <2>8 DEF Knows
  <2>10. \A q \in Request \ {r} : Knows(q)'
    BY <2>1, <2>6, OthersKnow DEF RequestInv
  <2>11. BookInv'
    BY <2>1, BookFrame DEF RequestInv, BookInv
  <2> QED BY <2>9, <2>10, <2>11 DEF RequestInv
<1>6. CASE SaveBid(r)
  <2>1. /\ pc[r] = "saving" /\ now' = now /\ bids' = bids \union {bid[r]} /\ placed' = placed
        /\ earlier' = earlier /\ deadline' = deadline /\ bid' = bid
        /\ pc' = [pc EXCEPT ![r] = "publishing"]
    BY <1>6 DEF SaveBid
  <2>2. bid[r] \in Bid /\ bid[r].id = r
    BY <2>1 DEF InFlight
  <2>3. /\ Sound(bid[r], bids, earlier[r])
        /\ \A e \in earlier[r] : e \in bids /\ e.auctionId = bid[r].auctionId
    BY <2>1 DEF RequestInv, Knows, InFlight
  <2>4. pc'[r] = "publishing"
    BY <2>1
  <2>5. Sound(bid[r], bids', earlier[r])
    BY <2>1, <2>3, SoundMono
  <2>6. Knows(r)'
    BY <2>1, <2>3, <2>4, <2>5 DEF Knows
  <2>7. ASSUME NEW q \in Request \ {r} PROVE Knows(q)'
    <3>1. Knows(q) /\ pc'[q] = pc[q] /\ q # r /\ q \in Request
      BY <2>1 DEF RequestInv
    <3> QED BY <2>1, <2>2, <3>1, KnowsFrame
  <2>8. \A b \in bids : Sound(b, bids', earlier[b.id])
    BY <2>1, SoundMono DEF RequestInv, BookInv
  <2>9. BookInv'
    BY <2>1, <2>2, <2>5, <2>8 DEF RequestInv, BookInv
  <2> QED BY <2>6, <2>7, <2>9 DEF RequestInv
<1>7. CASE PublishBid(r)
  <2>1. bid[r] \in bids
    BY <1>7 DEF PublishBid, RequestInv, Knows
  <2> HIDE DEF TypeOK
  <2> QED BY <1>7, <2>1, AnswerKnows DEF PublishBid, RequestInv, BookInv, Answered
<1>8. CASE FailRequest(r)
  <2> HIDE DEF TypeOK
  <2> QED BY <1>8, AnswerKnows DEF FailRequest, RequestInv, BookInv, Answered
<1> QED BY <1>1, <1>2, <1>3, <1>4, <1>5, <1>6, <1>7, <1>8 DEF RequestStep

\* A crash answers every request in flight.
LEMMA CrashKeepsRequestInv == TypeOK /\ RequestInv /\ Crash => RequestInv'
<1> SUFFICES ASSUME TypeOK, RequestInv, Crash PROVE RequestInv'
  OBVIOUS
<1>1. /\ bids' = bids /\ earlier' = earlier /\ placed' = placed /\ now' = now
      /\ pc' = [r \in Request |-> IF pc[r] \in InFlight THEN "failed" ELSE pc[r]]
  BY DEF Crash
<1>2. ASSUME NEW r \in Request PROVE Knows(r)'
  <2>1. CASE pc[r] = "idle"
    <3>1. pc'[r] = "idle" /\ \A b \in bids : b.id # r
      BY <1>1, <2>1 DEF RequestInv, Knows, InFlight
    <3> QED BY <1>1, <3>1 DEF Knows, InFlight
  <2>2. CASE pc[r] # "idle"
    <3>1. pc'[r] \in Answered
      BY <1>1, <2>2 DEF TypeOK, Answered
    <3> QED BY <3>1, KnowsAnswered
  <2> QED BY <2>1, <2>2
<1>3. BookInv'
  BY <1>1, BookFrame DEF RequestInv, BookInv
<1> QED BY <1>2, <1>3 DEF RequestInv

\* Every step keeps what the requests know of each other.
LEMMA RequestInvStep == TypeOK /\ RequestInv /\ [Next]_vars => RequestInv'
<1> SUFFICES ASSUME TypeOK, RequestInv, [Next]_vars PROVE RequestInv'
  OBVIOUS
<1>1. ASSUME NEW r \in Request, RequestStep(r) PROVE RequestInv'
  BY <1>1, RequestStepKeepsInv
<1>2. CASE CheckerStep
  <2>1. /\ now' = now /\ bids' = bids /\ pc' = pc /\ bid' = bid
        /\ deadline' = deadline /\ earlier' = earlier /\ placed' = placed
    BY <1>2 DEF CheckerStep, CheckAuctions, MarkFinished, SelectWinner, PublishFinished
  <2>2. now \in Nat
    BY DEF TypeOK
  <2> QED BY <2>1, <2>2, RequestFrame
<1>3. ASSUME NEW a \in AuctionId, AuctionStep(a) PROVE RequestInv'
  <2>1. /\ now' = now /\ bids' = bids /\ pc' = pc /\ bid' = bid
        /\ deadline' = deadline /\ earlier' = earlier /\ placed' = placed
    BY <1>3 DEF AuctionStep, ConsumeAuctionCreated, ListAuction, DelistAuction
  <2>2. now \in Nat
    BY DEF TypeOK
  <2> QED BY <2>1, <2>2, RequestFrame
<1>4. CASE Tick
  <2>1. /\ now \in Nat /\ now' = now + 1 /\ bids' = bids /\ pc' = pc /\ bid' = bid
        /\ deadline' = deadline /\ earlier' = earlier /\ placed' = placed
    BY <1>4 DEF Tick, TypeOK
  <2> QED BY <2>1, RequestFrame
<1>5. CASE Crash
  BY <1>5, CrashKeepsRequestInv
<1>6. CASE UNCHANGED vars
  <2>1. /\ now' = now /\ bids' = bids /\ pc' = pc /\ bid' = bid
        /\ deadline' = deadline /\ earlier' = earlier /\ placed' = placed
        /\ now \in Nat
    BY <1>6 DEF vars, TypeOK
  <2> QED BY <2>1, RequestFrame
<1> QED BY <1>1, <1>2, <1>3, <1>4, <1>5, <1>6 DEF Next

\* Every request knows what its bid deserves, and every stored bid got it.
THEOREM BidsDeserveTheirStatus == Spec => []RequestInv
<1>1. Init => RequestInv
  BY DEF Init, RequestInv, Knows, BookInv, InFlight
<1>2. TypeOK /\ RequestInv /\ [Next]_vars => RequestInv'
  BY RequestInvStep
<1> QED BY <1>1, <1>2, TypeCorrect, PTL DEF Spec

\* A bid refused as too low has been outbid by another stored bid.
THEOREM TooLow == Spec => []TooLowIsOutbid
<1>1. TypeOK /\ RequestInv => TooLowIsOutbid
  BY DEF RequestInv, BookInv, Sound, TooLowIsOutbid, BidsOn
<1> QED BY <1>1, TypeCorrect, BidsDeserveTheirStatus, PTL

\* An accepted offer beats every bid stored before its request arrived.
THEOREM RealTimeOrder == Spec => []AcceptedBeatsEarlier
<1>1. RequestInv => AcceptedBeatsEarlier
  BY DEF RequestInv, BookInv, Sound, AcceptedBeatsEarlier
<1> QED BY <1>1, BidsDeserveTheirStatus, PTL

\* Only stored bids are published.
THEOREM NothingInvented == Spec => []PublishedAreStored
<1>1. RequestInv => PublishedAreStored
  BY DEF RequestInv, BookInv, PublishedAreStored
<1> QED BY <1>1, BidsDeserveTheirStatus, PTL
-----------------------------------------------------------------------------
(* Refusals as late *)

\* A whole second is an integer, and not after the time it is cut from.
LEMMA WholeSecondsFacts ==
  ASSUME NEW a \in AuctionId
  PROVE  /\ WholeSeconds(Listing[a].auctionEnd) \in Int
         /\ WholeSeconds(Listing[a].auctionEnd) <= Listing[a].auctionEnd
<1>1. Listing[a].auctionEnd \in Nat
  BY ListingAssumption
<1> QED BY <1>1, BoundAssumption DEF WholeSeconds

\* Late bids stay late as time passes.
LEMMA LateStays ==
  ASSUME NEW b \in Bid, Late(b), now \in Nat, now' \in Nat, now <= now'
  PROVE  Late(b)'
<1>1. b.auctionId \in AuctionId
  BY DEF Bid
<1>2. WholeSeconds(Listing[b.auctionId].auctionEnd) \in Int
  BY <1>1, WholeSecondsFacts
<1> QED BY <1>2 DEF Late

\* Stored bids that were late are late later on, when only late ones are added.
LEMMA BookTimely ==
  ASSUME TypeOK, NotTurnedAwayEarly, now' \in Nat, now <= now',
         \A b \in bids' \ bids : b \in Bid /\ (b.bidStatus = "Finished" => Late(b))
  PROVE  NotTurnedAwayEarly'
<1>1. ASSUME NEW b \in bids', b.bidStatus = "Finished" PROVE Late(b)'
  <2>1. b \in Bid /\ Late(b)
    BY <1>1 DEF TypeOK, NotTurnedAwayEarly, Late
  <2> QED BY <2>1, LateStays DEF TypeOK
<1> QED BY <1>1 DEF NotTurnedAwayEarly, Late

\* A request that does not move, while time passes.
LEMMA TimelyFrame ==
  ASSUME TypeOK, NEW r \in Request, Timely(r), pc'[r] = pc[r], bid'[r] = bid[r],
         deadline'[r] = deadline[r], now' \in Nat, now <= now'
  PROVE  Timely(r)'
<1>1. pc[r] \in {"saving", "publishing"} => bid[r] \in Bid
  BY DEF TypeOK, InFlight
<1>2. pc[r] \in {"saving", "publishing"} /\ bid[r].bidStatus = "Finished" => Late(bid[r])'
  BY <1>1, LateStays DEF Timely, TypeOK
<1> QED BY <1>2 DEF Timely, Late

\* Request r moves and stores nothing: it is enough to look at r.
LEMMA TimelyMove ==
  ASSUME TypeOK, TimelyInv, NEW r \in Request, now' = now, bids' = bids,
         \A q \in Request \ {r} : /\ pc'[q] = pc[q] /\ bid'[q] = bid[q]
                                  /\ deadline'[q] = deadline[q],
         Timely(r)'
  PROVE  TimelyInv'
<1>1. now' \in Nat /\ now <= now'
  BY DEF TypeOK
<1>2. \A q \in Request \ {r} : Timely(q)'
  BY <1>1, TimelyFrame DEF TimelyInv
<1>3. NotTurnedAwayEarly'
  BY <1>1, BookTimely DEF TimelyInv
<1> QED BY <1>2, <1>3 DEF TimelyInv

\* Admit hands the request an end that is not before the whole second of the
\* auction's.
LEMMA AdmitTimely ==
  ASSUME TypeOK, TimelyInv, NEW r \in Request, NEW b \in Bid, NEW e \in Int, Admit(r, b, e),
         WholeSeconds(Listing[b.auctionId].auctionEnd) <= e, now' = now, bids' = bids
  PROVE  TimelyInv'
<1>1. CASE b.bidder = Listing[b.auctionId].seller
  <2>1. /\ pc' = [pc EXCEPT ![r] = "rejected"]
        /\ bid' = [bid EXCEPT ![r] = None]
        /\ deadline' = deadline
    BY <1>1 DEF Admit
  <2>2. Timely(r)'
    BY <2>1 DEF TypeOK, Timely
  <2> QED BY <2>1, <2>2, TimelyMove DEF TypeOK
<1>2. CASE b.bidder # Listing[b.auctionId].seller
  <2> DEFINE stamped == [b EXCEPT !.bidTime = now]
  <2>1. stamped.auctionId = b.auctionId
    BY DEF Bid
  <2>2. /\ pc' = [pc EXCEPT ![r] = "dated"]
        /\ bid' = [bid EXCEPT ![r] = stamped]
        /\ deadline' = [deadline EXCEPT ![r] = e]
    BY <1>2 DEF Admit
  <2> HIDE DEF stamped
  <2>3. pc'[r] = "dated" /\ bid'[r] = stamped /\ deadline'[r] = e
    BY <2>2 DEF TypeOK
  <2>4. Timely(r)'
    BY <2>1, <2>3 DEF Timely
  <2>5. \A q \in Request \ {r} : /\ pc'[q] = pc[q] /\ bid'[q] = bid[q]
                                 /\ deadline'[q] = deadline[q]
    BY <2>2 DEF TypeOK
  <2> QED BY <2>4, <2>5, TimelyMove
<1> QED BY <1>1, <1>2

\* A request that returns.
LEMMA AnswerTimely ==
  ASSUME TypeOK, TimelyInv, NEW r \in Request, NEW how \in Answered, Answer(r, how),
         now' = now, bids' = bids
  PROVE  TimelyInv'
<1>1. Timely(r)'
  BY DEF Answer, TypeOK, Timely, Answered
<1>2. \A q \in Request \ {r} : /\ pc'[q] = pc[q] /\ bid'[q] = bid[q]
                               /\ deadline'[q] = deadline[q]
  BY DEF Answer, TypeOK
<1> QED BY <1>1, <1>2, TimelyMove

\* A step of one request turns nobody away before the end.
LEMMA RequestStepTimely ==
  ASSUME TypeOK, TimelyInv, NEW r \in Request, RequestStep(r)
  PROVE  TimelyInv'
<1>1. ASSUME NEW u \in User, NEW a \in AuctionId, NEW m \in Amount, PlaceBid(r, u, a, m)
      PROVE  TimelyInv'
  <2> DEFINE draft == [id |-> r, auctionId |-> a, bidder |-> u, amount |-> m,
                       bidTime |-> now, bidStatus |-> "Accepted"]
  <2>1. draft \in Bid /\ draft.auctionId = a
    BY DraftType DEF TypeOK, BidStatus
  <2>2. now' = now /\ bids' = bids
    BY <1>1 DEF PlaceBid
  <2>3. CASE auctions[a] # "absent" /\ Admit(r, draft, Listing[a].auctionEnd)
    <3>1. /\ Listing[a].auctionEnd \in Int
          /\ WholeSeconds(Listing[a].auctionEnd) <= Listing[a].auctionEnd
      BY ListingAssumption, WholeSecondsFacts
    <3> HIDE DEF draft
    <3> QED BY <2>1, <2>2, <2>3, <3>1, AdmitTimely
  <2>4. CASE auctions[a] = "absent"
    <3>1. /\ pc' = [pc EXCEPT ![r] = "grpc"]
          /\ bid' = [bid EXCEPT ![r] = draft]
          /\ deadline' = deadline
      BY <1>1, <2>4 DEF PlaceBid
    <3> HIDE DEF draft
    <3>2. Timely(r)'
      BY <3>1 DEF TypeOK, Timely
    <3>3. \A q \in Request \ {r} : /\ pc'[q] = pc[q] /\ bid'[q] = bid[q]
                                   /\ deadline'[q] = deadline[q]
      BY <3>1 DEF TypeOK
    <3> QED BY <2>2, <3>2, <3>3, TimelyMove
  <2> QED BY <1>1, <2>3, <2>4 DEF PlaceBid
<1>2. CASE GrpcReply(r)
  <2>1. /\ pc[r] = "grpc" /\ now' = now /\ bids' = bids
        /\ Admit(r, bid[r], WholeSeconds(Listing[bid[r].auctionId].auctionEnd))
    BY <1>2 DEF GrpcReply
  <2>2. bid[r] \in Bid /\ bid[r].auctionId \in AuctionId
    BY <2>1 DEF TypeOK, InFlight, Bid
  <2>3. WholeSeconds(Listing[bid[r].auctionId].auctionEnd) \in Int
    BY <2>2, WholeSecondsFacts
  <2> QED BY <2>1, <2>2, <2>3, AdmitTimely
<1>3. CASE GrpcNull(r)
  BY <1>3, AnswerTimely DEF GrpcNull, Answered
<1>4. CASE CheckDeadline(r)
  <2>1. /\ pc[r] = "dated" /\ now' = now /\ bids' = bids /\ deadline' = deadline
        /\ \A q \in Request \ {r} : pc'[q] = pc[q] /\ bid'[q] = bid[q]
    BY <1>4 DEF CheckDeadline, TypeOK
  <2>2. /\ bid[r] \in Bid /\ bid[r].auctionId \in AuctionId
        /\ deadline[r] \in Int /\ now \in Nat
    BY <2>1 DEF TypeOK, InFlight, Bid
  <2>3. CASE deadline[r] < now
    <3> DEFINE judged == [bid[r] EXCEPT !.bidStatus = "Finished"]
    <3>1. judged.auctionId = bid[r].auctionId
      BY <2>2 DEF Bid
    <3> HIDE DEF judged
    <3>2. pc'[r] = "saving" /\ bid'[r] = judged
      BY <1>4, <2>3 DEF CheckDeadline, TypeOK, judged
    <3>3. WholeSeconds(Listing[bid[r].auctionId].auctionEnd) <= deadline[r]
      BY <2>1 DEF TimelyInv, Timely
    <3>4. WholeSeconds(Listing[bid[r].auctionId].auctionEnd) \in Int
      BY <2>2, WholeSecondsFacts
    <3>5. WholeSeconds(Listing[bid[r].auctionId].auctionEnd) < now'
      BY <2>1, <2>2, <2>3, <3>3, <3>4
    <3>6. WholeSeconds(Listing[bid'[r].auctionId].auctionEnd) < now'
      BY <3>1, <3>2, <3>5
    <3>7. Timely(r)'
      BY <3>2, <3>6 DEF Timely, Late
    <3> QED BY <2>1, <3>7, TimelyMove
  <2>4. CASE ~(deadline[r] < now)
    <3>1. Timely(r)'
      BY <1>4, <2>4 DEF CheckDeadline, TypeOK, Timely
    <3> QED BY <2>1, <3>1, TimelyMove
  <2> QED BY <2>3, <2>4
<1>5. CASE ReadHighBid(r)
  <2> DEFINE priced == [bid[r] EXCEPT !.bidStatus = Price(bid[r])]
  <2>1. /\ pc[r] = "pricing" /\ now' = now /\ bids' = bids /\ deadline' = deadline
        /\ \A q \in Request \ {r} : pc'[q] = pc[q] /\ bid'[q] = bid[q]
    BY <1>5 DEF ReadHighBid, TypeOK
  <2>2. bid[r] \in Bid
    BY <2>1 DEF TypeOK, InFlight
  <2>3. priced.bidStatus = Price(bid[r])
    BY <2>2 DEF Bid
  <2> HIDE DEF priced
  <2>4. pc'[r] = "saving" /\ bid'[r] = priced
    BY <1>5 DEF ReadHighBid, TypeOK, priced
  <2>5. Price(bid[r]) # "Finished"
    BY DEF Price
  <2>6. Timely(r)'
    BY <2>3, <2>4, <2>5 DEF Timely
  <2> QED BY <2>1, <2>6, TimelyMove
<1>6. CASE SaveBid(r)
  <2>1. /\ pc[r] = "saving" /\ now' = now /\ bids' = bids \union {bid[r]}
        /\ deadline' = deadline /\ bid' = bid /\ pc' = [pc EXCEPT ![r] = "publishing"]
    BY <1>6 DEF SaveBid
  <2>2. bid[r] \in Bid /\ now \in Nat
    BY <2>1 DEF TypeOK, InFlight
  <2>3. bid[r].bidStatus = "Finished" => Late(bid[r])
    BY <2>1 DEF TimelyInv, Timely
  <2>4. NotTurnedAwayEarly'
    BY <2>1, <2>2, <2>3, BookTimely DEF TimelyInv
  <2>5. Timely(r)'
    BY <2>1, <2>3 DEF Timely, TypeOK, Late
  <2>6. ASSUME NEW q \in Request \ {r} PROVE Timely(q)'
    <3>1. Timely(q) /\ pc'[q] = pc[q] /\ q \in Request
      BY <2>1 DEF TimelyInv, TypeOK
    <3> QED BY <2>1, <2>2, <3>1, TimelyFrame
  <2> QED BY <2>4, <2>5, <2>6 DEF TimelyInv
<1>7. CASE PublishBid(r)
  BY <1>7, AnswerTimely DEF PublishBid, Answered
<1>8. CASE FailRequest(r)
  BY <1>8, AnswerTimely DEF FailRequest, Answered
<1> QED BY <1>1, <1>2, <1>3, <1>4, <1>5, <1>6, <1>7, <1>8 DEF RequestStep

\* No step turns anybody away before the end.
LEMMA TimelyStep == TypeOK /\ TimelyInv /\ [Next]_vars => TimelyInv'
<1> SUFFICES ASSUME TypeOK, TimelyInv, [Next]_vars PROVE TimelyInv'
  OBVIOUS
<1>1. ASSUME NEW r \in Request, RequestStep(r) PROVE TimelyInv'
  BY <1>1, RequestStepTimely
<1>2. CASE UNCHANGED <<bids, pc, bid, deadline>> /\ now' \in Nat /\ now <= now'
  <2>1. \A r \in Request : Timely(r)'
    BY <1>2, TimelyFrame DEF TimelyInv
  <2>2. NotTurnedAwayEarly'
    BY <1>2, BookTimely DEF TimelyInv
  <2> QED BY <2>1, <2>2 DEF TimelyInv
<1>3. CASE CheckerStep
  <2>1. UNCHANGED <<bids, pc, bid, deadline, now>>
    BY <1>3 DEF CheckerStep, CheckAuctions, MarkFinished, SelectWinner, PublishFinished
  <2> QED BY <1>2, <2>1 DEF TypeOK
<1>4. ASSUME NEW a \in AuctionId, AuctionStep(a) PROVE TimelyInv'
  <2>1. UNCHANGED <<bids, pc, bid, deadline, now>>
    BY <1>4 DEF AuctionStep, ConsumeAuctionCreated, ListAuction, DelistAuction
  <2> QED BY <1>2, <2>1 DEF TypeOK
<1>5. CASE Tick
  BY <1>2, <1>5 DEF Tick, TypeOK
<1>6. CASE Crash
  <2>1. /\ bids' = bids /\ now' = now
        /\ pc' = [r \in Request |-> IF pc[r] \in InFlight THEN "failed" ELSE pc[r]]
    BY <1>6 DEF Crash
  <2>2. \A r \in Request : Timely(r)'
    BY <2>1 DEF Timely, InFlight
  <2>3. NotTurnedAwayEarly'
    BY <2>1, BookTimely DEF TimelyInv, TypeOK
  <2> QED BY <2>2, <2>3 DEF TimelyInv
<1>7. CASE UNCHANGED vars
  BY <1>2, <1>7 DEF vars, TypeOK
<1> QED BY <1>1, <1>3, <1>4, <1>5, <1>6, <1>7 DEF Next

\* No bid is turned away as Finished while the auction, to the second, still
\* runs: neither with the end of the document nor with that of the gRPC reply.
THEOREM NobodyTurnedAwayEarly == Spec => []NotTurnedAwayEarly
<1>1. Init => TimelyInv
  BY DEF Init, TimelyInv, Timely, NotTurnedAwayEarly
<1>2. TypeOK /\ TimelyInv /\ [Next]_vars => TimelyInv'
  BY TimelyStep
<1>3. TimelyInv => NotTurnedAwayEarly
  BY DEF TimelyInv
<1> QED BY <1>1, <1>2, <1>3, TypeCorrect, PTL DEF Spec
-----------------------------------------------------------------------------
(* The closing loop *)

\* Accepted bids stay: the book only grows.
LEMMA BookGrows == [Next]_vars => bids \subseteq bids'
BY DEF Next, RequestStep, PlaceBid, GrpcReply, GrpcNull, CheckDeadline, ReadHighBid, SaveBid,
       PublishBid, FailRequest, CheckerStep, CheckAuctions, MarkFinished, SelectWinner,
       PublishFinished, AuctionStep, ConsumeAuctionCreated, ListAuction, DelistAuction,
       Tick, Crash, vars

\* More bids are no fewer accepted bids.
LEMMA AcceptedGrow ==
  ASSUME bids \subseteq bids', NEW a PROVE AcceptedOn(a) \subseteq AcceptedOn(a)'
BY DEF AcceptedOn, BidsOn

\* Steps that leave the loop, the seals and the results alone.
LEMMA ClosingFrame ==
  ASSUME ClosingInv, bids \subseteq bids', UNCHANGED <<chk, current, winner, results, sealed>>
  PROVE  ClosingInv'
BY AcceptedGrow DEF ClosingInv, ResultsImprove, AtLeast

\* Every step keeps what the closing loop owes, has sealed and has published.
LEMMA ClosingStep == TypeOK /\ ClosingInv /\ [Next]_vars => ClosingInv'
<1> SUFFICES ASSUME TypeOK, ClosingInv, [Next]_vars PROVE ClosingInv'
  OBVIOUS
<1> bids \subseteq bids'
  BY BookGrows
<1>1. ASSUME NEW r \in Request, RequestStep(r) PROVE ClosingInv'
  <2>1. UNCHANGED <<chk, current, winner, results, sealed>>
    BY <1>1 DEF RequestStep, PlaceBid, GrpcReply, GrpcNull, CheckDeadline, ReadHighBid,
                SaveBid, PublishBid, FailRequest
  <2> QED BY <2>1, ClosingFrame
<1>2. CASE CheckAuctions
  BY <1>2 DEF CheckAuctions, ClosingInv, AcceptedOn, BidsOn, ResultsImprove
<1>3. ASSUME NEW c \in AuctionId, MarkFinished(c) PROVE ClosingInv'
  <2>1. /\ chk' = "winner" /\ results' = results /\ bids' = bids
        /\ sealed' = [sealed EXCEPT ![c] = AcceptedOn(c)]
    BY <1>3 DEF MarkFinished
  <2>2. \A a \in AuctionId : AcceptedOn(a)' = AcceptedOn(a)
    BY <2>1 DEF AcceptedOn, BidsOn
  <2>3. \A a \in AuctionId : sealed'[a] \subseteq AcceptedOn(a)'
    BY <2>1, <2>2 DEF ClosingInv, TypeOK
  <2> QED BY <2>1, <2>2, <2>3 DEF ClosingInv, ResultsImprove
<1>4. CASE SelectWinner
  <2>1. /\ chk = "winner" /\ chk' = "publish" /\ bids' = bids /\ sealed' = sealed
        /\ results' = results /\ current' = current /\ current \in AuctionId
    BY <1>4 DEF SelectWinner, TypeOK
  <2>2. \A a \in AuctionId : AcceptedOn(a)' = AcceptedOn(a)
    BY <2>1 DEF AcceptedOn, BidsOn
  <2>3. /\ winner' # None => winner' \in AcceptedOn(current)
        /\ \A b \in AcceptedOn(current) : AtLeast(winner', b)
    <3>1. \A b \in AcceptedOn(current) : b # None
      BY NoneAssumption DEF AcceptedOn, BidsOn, TypeOK
    <3>2. CASE winner' \in TopAccepted(current)
      BY <3>1, <3>2 DEF TopAccepted, AtLeast
    <3>3. CASE AcceptedOn(current) = {} /\ winner' = None
      BY <3>3
    <3> QED BY <1>4, <3>2, <3>3 DEF SelectWinner
  <2>4. \A b \in sealed[current] : AtLeast(winner', b)
    BY <2>1, <2>3 DEF ClosingInv
  <2>5. \A i \in 1..Len(results[current]) : AtLeast(winner', results[current][i])
    BY <2>1, <2>3 DEF ClosingInv, AtLeast
  <2> QED BY <2>1, <2>2, <2>3, <2>4, <2>5 DEF ClosingInv, ResultsImprove
<1>5. CASE PublishFinished
  <2>1. /\ chk = "publish" /\ chk' # "publish" /\ bids' = bids /\ sealed' = sealed
        /\ results' = [results EXCEPT ![current] = Append(@, winner)]
        /\ current \in AuctionId
    BY <1>5 DEF PublishFinished, TypeOK
  <2>2. \A a \in AuctionId : AcceptedOn(a)' = AcceptedOn(a)
    BY <2>1 DEF AcceptedOn, BidsOn
  <2>3. /\ winner # None => winner \in AcceptedOn(current)
        /\ \A i \in 1..Len(results[current]) : AtLeast(winner, results[current][i])
    BY <2>1 DEF ClosingInv
  <2>4. results[current] \in Seq(Bid \union {None}) /\ winner \in Bid \union {None}
    BY <2>1 DEF TypeOK
  <2> DEFINE n == Len(results[current])
  <2>5. /\ results'[current] = Append(results[current], winner)
        /\ \A a \in AuctionId \ {current} : results'[a] = results[a]
    BY <2>1 DEF TypeOK
  <2>6. /\ n \in Nat /\ Len(results'[current]) = n + 1
        /\ results'[current][n + 1] = winner
        /\ \A i \in 1..n : results'[current][i] = results[current][i]
    BY <2>4, <2>5
  <2> HIDE DEF n
  <2>7. ASSUME NEW a \in AuctionId, NEW i \in 1..Len(results'[a]), results'[a][i] # None
        PROVE  results'[a][i] \in AcceptedOn(a)'
    <3>1. CASE a # current
      BY <2>2, <2>5, <2>7, <3>1 DEF ClosingInv
    <3>2. CASE a = current /\ i = n + 1
      BY <2>2, <2>3, <2>6, <2>7, <3>2
    <3>3. CASE a = current /\ i # n + 1
      <4>1. i \in 1..n
        BY <2>6, <3>3
      <4> QED BY <2>1, <2>2, <2>6, <2>7, <3>3, <4>1 DEF ClosingInv, n
    <3> QED BY <3>1, <3>2, <3>3
  <2>8. ASSUME NEW a \in AuctionId, NEW i \in 1..Len(results'[a]), NEW j \in 1..Len(results'[a]),
               i < j
        PROVE  AtLeast(results'[a][j], results'[a][i])
    <3>1. CASE a # current
      BY <2>5, <2>8, <3>1 DEF ClosingInv, ResultsImprove
    <3>2. CASE a = current /\ j = n + 1
      <4>1. i \in 1..n
        BY <2>6, <2>8, <3>2
      <4> QED BY <2>3, <2>6, <3>2, <4>1 DEF n
    <3>3. CASE a = current /\ j # n + 1
      <4>1. i \in 1..n /\ j \in 1..n
        BY <2>6, <2>8, <3>3
      <4>2. AtLeast(results[current][j], results[current][i])
        BY <2>1, <2>8, <4>1 DEF ClosingInv, ResultsImprove, n
      <4> QED BY <2>6, <3>3, <4>1, <4>2
    <3> QED BY <3>1, <3>2, <3>3
  <2>9. ResultsImprove'
    BY <2>8 DEF ResultsImprove, AtLeast
  <2> QED BY <2>1, <2>2, <2>7, <2>9 DEF ClosingInv
<1>6. ASSUME NEW a \in AuctionId, AuctionStep(a) PROVE ClosingInv'
  <2>1. UNCHANGED <<chk, current, winner, results, sealed>>
    BY <1>6 DEF AuctionStep, ConsumeAuctionCreated, ListAuction, DelistAuction
  <2> QED BY <2>1, ClosingFrame
<1>7. CASE Tick \/ UNCHANGED vars
  <2>1. UNCHANGED <<chk, current, winner, results, sealed>>
    BY <1>7 DEF Tick, vars
  <2> QED BY <2>1, ClosingFrame
<1>8. CASE Crash
  BY <1>8 DEF Crash, ClosingInv, AcceptedOn, BidsOn, ResultsImprove
<1> QED BY <1>1, <1>2, <1>3, <1>4, <1>5, <1>6, <1>7, <1>8 DEF Next, CheckerStep

\* What the closing loop publishes is nobody or an accepted bid, and it is about
\* to publish no less than every bid accepted when the auction was marked
\* finished and every result before, across crashes and repeated rounds.
THEOREM ClosingKeepsPromises == Spec => []ClosingInv
<1>1. Init => ClosingInv
  BY DEF Init, ClosingInv, ResultsImprove
<1>2. TypeOK /\ ClosingInv /\ [Next]_vars => ClosingInv'
  BY ClosingStep
<1> QED BY <1>1, <1>2, TypeCorrect, PTL DEF Spec

\* A later result of an auction is never worse than an earlier one.
THEOREM ResultsOnlyImprove == Spec => []ResultsImprove
<1>1. ClosingInv => ResultsImprove
  BY DEF ClosingInv
<1> QED BY <1>1, ClosingKeepsPromises, PTL

\* An announced winner has a stored, accepted, timely bid above the reserve.
THEOREM WinnersAreEligible == Spec => []EligibleWinner
<1>1. RequestInv /\ ClosingInv => EligibleWinner
  <2> SUFFICES ASSUME RequestInv, ClosingInv, NEW a \in AuctionId,
                      NEW i \in 1..Len(results[a]), results[a][i] # None
               PROVE  /\ results[a][i] \in AcceptedOn(a)
                      /\ results[a][i].amount > Listing[a].reservePrice
                      /\ results[a][i].bidder # Listing[a].seller
                      /\ results[a][i].bidTime <= Listing[a].auctionEnd
    BY DEF EligibleWinner
  <2>1. results[a][i] \in AcceptedOn(a)
    BY DEF ClosingInv
  <2>2. /\ results[a][i] \in bids /\ results[a][i].auctionId = a
        /\ results[a][i].bidStatus = "Accepted"
    BY <2>1 DEF AcceptedOn, BidsOn
  <2>3. Sound(results[a][i], bids, earlier[results[a][i].id])
    BY <2>2 DEF RequestInv, BookInv
  <2> QED BY <2>1, <2>2, <2>3 DEF Sound
<1> QED BY <1>1, BidsDeserveTheirStatus, ClosingKeepsPromises, PTL
-----------------------------------------------------------------------------
(* Refinement *)

\* The house and the service count the same bids.
LEMMA HouseViews == \A a : House!On(a) = BidsOn(a) /\ House!Accepted(a) = AcceptedOn(a)
BY DEF House!On, House!Accepted, BidsOn, AcceptedOn

\* The save of a bid is an entry in the book of the house.
LEMMA SaveEnters ==
  ASSUME TypeOK, RequestInv, NEW r \in Request, SaveBid(r)
  PROVE  House!Enter
<1>1. /\ pc[r] = "saving" /\ bids' = bids \union {bid[r]} /\ results' = results
      /\ sealed' = sealed /\ chk' = chk /\ current' = current
  BY DEF SaveBid
<1>2. bid[r] \in Bid /\ bid[r].id = r
  BY <1>1 DEF TypeOK, InFlight
<1>3. Sound(bid[r], bids, earlier[r]) /\ \A c \in bids : c.id # r
  BY <1>1 DEF RequestInv, Knows
<1>4. bid[r] \in (bids' \ bids) \intersect Bid
  BY <1>1, <1>2, <1>3
<1>5. bid[r].bidStatus \in BidStatus
  BY <1>2 DEF Bid
<1>6. House!Admissible(bid[r])
  <2>1. bid[r].bidStatus = "TooLow" =>
          \E c \in House!On(bid[r].auctionId) : c.amount >= bid[r].amount
    BY <1>3 DEF Sound, House!On
  <2> QED BY <1>2, <1>3, <1>5, <2>1 DEF Sound, BidStatus, House!Admissible
<1>7. OwedResult' = OwedResult
  BY <1>1 DEF OwedResult
<1> QED BY <1>1, <1>4, <1>6, <1>7 DEF House!Enter

\* Marking an auction finished closes it in the house.
LEMMA MarkCloses ==
  ASSUME NEW a \in AuctionId, TypeOK, MarkFinished(a)
  PROVE  House!Close(a)
<1>1. /\ chk = "foreach" /\ chk' = "winner" /\ current' = a /\ bids' = bids
      /\ results' = results /\ sealed' = [sealed EXCEPT ![a] = AcceptedOn(a)]
  BY DEF MarkFinished
<1>2. ~ OwedResult[a]
  BY <1>1 DEF OwedResult
<1>3. OwedResult' = [OwedResult EXCEPT ![a] = TRUE]
  BY <1>1 DEF OwedResult
<1> QED BY <1>1, <1>2, <1>3, HouseViews DEF House!Close

\* Publishing a result announces it in the house.
LEMMA PublishAnnounces ==
  ASSUME TypeOK, ClosingInv, PublishFinished
  PROVE  House!Announce(current)
<1>1. /\ chk = "publish" /\ chk' \in {"idle", "foreach"} /\ bids' = bids /\ sealed' = sealed
      /\ results' = [results EXCEPT ![current] = Append(@, winner)] /\ current \in AuctionId
  BY DEF PublishFinished, TypeOK
<1>2. OwedResult[current]
  BY <1>1 DEF OwedResult
<1>3. OwedResult' = [OwedResult EXCEPT ![current] = FALSE]
  BY <1>1 DEF OwedResult
<1>4. winner \in House!Accepted(current) \union {None} /\ House!Deserves(winner, current)
  <2>1. \A b \in sealed[current] : b # None /\ AtLeast(winner, b)
    BY <1>1, NoneAssumption DEF ClosingInv, TypeOK
  <2>2. CASE winner = None
    BY <2>1, <2>2 DEF AtLeast, House!Deserves
  <2>3. CASE winner # None
    <3>1. winner \in House!Accepted(current)
      BY <1>1, <2>3, HouseViews DEF ClosingInv
    <3> QED BY <2>1, <2>3, <3>1 DEF AtLeast, House!Deserves
  <2> QED BY <2>2, <2>3
<1> QED BY <1>1, <1>2, <1>3, <1>4 DEF House!Announce

\* Every step of the service is a step of the auction house, or changes nothing
\* the auction house knows of.
LEMMA StepRefines ==
  ASSUME TypeOK, RequestInv, ClosingInv, [Next]_vars
  PROVE  [House!Next]_<<bids, sealed, OwedResult, results>>
<1>1. ASSUME NEW r \in Request, RequestStep(r)
      PROVE  House!Next \/ UNCHANGED <<bids, sealed, OwedResult, results>>
  <2>1. CASE SaveBid(r)
    BY <2>1, SaveEnters DEF House!Next
  <2>2. CASE ~ SaveBid(r)
    <3>1. /\ bids' = bids /\ sealed' = sealed /\ chk' = chk /\ current' = current
          /\ results' = results
      BY <1>1, <2>2 DEF RequestStep, PlaceBid, GrpcReply, GrpcNull, CheckDeadline, ReadHighBid,
                        PublishBid, FailRequest
    <3> QED BY <3>1 DEF OwedResult
  <2> QED BY <2>1, <2>2
<1>2. CASE CheckAuctions \/ SelectWinner
  <2>1. bids' = bids /\ sealed' = sealed /\ results' = results
    BY <1>2 DEF CheckAuctions, SelectWinner
  <2>2. OwedResult' = OwedResult
    BY <1>2 DEF CheckAuctions, SelectWinner, OwedResult
  <2> QED BY <2>1, <2>2
<1>3. ASSUME NEW a \in AuctionId, MarkFinished(a) PROVE House!Next
  BY <1>3, MarkCloses DEF House!Next
<1>4. CASE PublishFinished
  <2>1. current \in AuctionId
    BY <1>4 DEF PublishFinished, TypeOK
  <2> QED BY <1>4, <2>1, PublishAnnounces DEF House!Next
<1>5. ASSUME NEW a \in AuctionId, AuctionStep(a)
      PROVE  UNCHANGED <<bids, sealed, OwedResult, results>>
  BY <1>5 DEF AuctionStep, ConsumeAuctionCreated, ListAuction, DelistAuction, OwedResult
<1>6. CASE Tick \/ UNCHANGED vars
  BY <1>6 DEF Tick, vars, OwedResult
<1>7. CASE Crash
  <2>1. OwedResult' = [a \in AuctionId |-> FALSE]
    BY <1>7 DEF Crash, OwedResult
  <2> QED BY <1>7, <2>1 DEF Crash, House!Next, House!Forget
<1> QED BY <1>1, <1>2, <1>3, <1>4, <1>5, <1>6, <1>7 DEF Next, CheckerStep

\* The bid service implements the auction house.
THEOREM Implementation == Spec => ImplementsAuctionHouse
<1>1. Init => House!Init
  BY DEF Init, House!Init, OwedResult
<1>2. TypeOK /\ RequestInv /\ ClosingInv /\ [Next]_vars
        => [House!Next]_<<bids, sealed, OwedResult, results>>
  BY StepRefines
<1> QED
  BY <1>1, <1>2, TypeCorrect, BidsDeserveTheirStatus, ClosingKeepsPromises, PTL
     DEF Spec, ImplementsAuctionHouse, House!Spec
=============================================================================
