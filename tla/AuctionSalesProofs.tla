------------------------- MODULE AuctionSalesProofs -------------------------
(***************************************************************************)
(* Theorems about the auction service behind the auction house, for all    *)
(* values of the constants: what a row says of its sale has been announced *)
(* by the house, and the current high bid covers it.                       *)
(***************************************************************************)
EXTENDS AuctionPromiseProofs, AuctionSalesInv

\* A step of the composition is a step of the service, or leaves it alone.
LEMMA ServiceStep == [SalesNext]_<<vars, house, mishaps>> => [Next]_vars
BY DEF SalesNext, HouseStep, AuctionStep

\* The composition is a behaviour of the auction service: what was proved of the
\* service alone, under messages that come from anywhere, holds of it here.
THEOREM SalesAreService == SalesSpec => Spec
<1>1. SalesInit => Init
  BY DEF SalesInit
<1> QED BY <1>1, ServiceStep, PTL DEF SalesSpec, Spec

\* And a behaviour of the house: the service never acts on the bid service's
\* behalf.
THEOREM SalesAreHouse == SalesSpec => House!Spec
<1>1. SalesInit => House!Init
  BY DEF SalesInit
<1>2. [SalesNext]_<<vars, house, mishaps>> => [House!Next]_<<book, sealed, owed, outcomes>>
  BY DEF SalesNext, HouseStep, AuctionStep, Bidding, Closing, house, House!Next
<1> QED BY <1>1, <1>2, PTL DEF SalesSpec, House!Spec
-----------------------------------------------------------------------------
(* The house *)

\* Bids, and the messages about them.
LEMMA BidFacts ==
  ASSUME NEW b \in Bid
  PROVE  b.auctionId \in AuctionId /\ b.amount \in Int /\ BidMessage(b) \in BidPlaced
<1>1. BidMessage(b) \in BidPlaced
  BY UniverseAssumption
<1>2. BidMessage(b).auctionId \in AuctionId /\ BidMessage(b).amount \in Int
  BY <1>1, MessageAssumption
<1> QED BY <1>1, <1>2 DEF BidMessage

\* Announcing adds one outcome to the announced ones.
LEMMA AnnounceAdds ==
  ASSUME HouseInv, NEW a \in AuctionId, House!Announce(a)
  PROVE  /\ book' = book
         /\ outcomes' \in [AuctionId -> Seq(Bid \union {None})]
         /\ \E w \in House!Accepted(a) \union {None} :
              \A c \in AuctionId :
                {outcomes'[c][i] : i \in DOMAIN outcomes'[c]} =
                  IF c = a THEN Announced(c) \union {w} ELSE Announced(c)
<1>1. PICK w \in House!Accepted(a) \union {None} : outcomes' = [outcomes EXCEPT ![a] = Append(@, w)]
  BY DEF House!Announce
<1>2. w \in Bid \union {None}
  BY <1>1 DEF HouseInv, House!Accepted, House!On
<1>3. outcomes[a] \in Seq(Bid \union {None})
  BY DEF HouseInv
<1>4. Append(outcomes[a], w) \in Seq(Bid \union {None})
  BY <1>2, <1>3
<1>5. outcomes' \in [AuctionId -> Seq(Bid \union {None})]
  BY <1>1, <1>4 DEF HouseInv
<1>6. ASSUME NEW c \in AuctionId
      PROVE  {outcomes'[c][i] : i \in DOMAIN outcomes'[c]} =
               IF c = a THEN Announced(c) \union {w} ELSE Announced(c)
  <2>1. CASE c = a
    <3> DEFINE s == outcomes[a]
               n == Len(s)
    <3>1. outcomes'[c] = Append(s, w)
      BY <1>1, <2>1 DEF HouseInv
    <3>2. /\ n \in Nat /\ Len(Append(s, w)) = n + 1 /\ Append(s, w)[n + 1] = w
          /\ \A i \in 1..n : Append(s, w)[i] = s[i]
          /\ DOMAIN s = 1..n /\ DOMAIN Append(s, w) = 1..(n + 1)
      BY <1>2, <1>3, <1>4
    <3>3. \A i : i \in 1..(n + 1) <=> i \in 1..n \/ i = n + 1
      BY <3>2
    <3> HIDE DEF n
    <3> QED BY <2>1, <3>1, <3>2, <3>3 DEF Announced
  <2>2. CASE c # a
    BY <1>1, <2>2 DEF HouseInv, Announced
  <2> QED BY <2>1, <2>2
<1> QED BY <1>1, <1>5, <1>6 DEF House!Announce

\* Entering a bid that deserves its status.
LEMMA EnterKeepsHouse ==
  ASSUME HouseInv, House!Enter
  PROVE  HouseInv' /\ book \subseteq book' /\ outcomes' = outcomes
<1>1. PICK b \in (book' \ book) \intersect Bid : House!Admissible(b) /\ book' = book \union {b}
  BY DEF House!Enter
<1>2. outcomes' = outcomes
  BY DEF House!Enter
<1>3. Lot[b.auctionId].reservePrice = Listing[b.auctionId].reservePrice
  BY <1>1, BidFacts DEF Lot
<1>4. b.bidStatus = "Accepted" => b.amount > Listing[b.auctionId].reservePrice
  BY <1>1, <1>3 DEF House!Admissible
<1> QED BY <1>1, <1>2, <1>4 DEF HouseInv, Announced, House!Accepted, House!On

\* A step of the auction house keeps its book: bids and results are only added.
LEMMA HouseStepInv ==
  ASSUME HouseInv, HouseStep
  PROVE  /\ HouseInv'
         /\ book \subseteq book'
         /\ \A a \in AuctionId : Announced(a) \subseteq Announced(a)'
<1>1. CASE House!Enter
  BY <1>1, EnterKeepsHouse DEF Announced
<1>2. ASSUME NEW a \in AuctionId, House!Announce(a)
      PROVE  HouseInv' /\ book \subseteq book' /\ \A c \in AuctionId : Announced(c) \subseteq Announced(c)'
  <2>1. PICK w \in House!Accepted(a) \union {None} :
          \A c \in AuctionId : {outcomes'[c][i] : i \in DOMAIN outcomes'[c]} =
                                 IF c = a THEN Announced(c) \union {w} ELSE Announced(c)
    BY <1>2, AnnounceAdds
  <2>2. book' = book /\ outcomes' \in [AuctionId -> Seq(Bid \union {None})]
    BY <1>2, AnnounceAdds
  <2>3. \A c \in AuctionId : Announced(c)' = IF c = a THEN Announced(c) \union {w} ELSE Announced(c)
    BY <2>1 DEF Announced
  <2>4. \A c \in AuctionId : House!Accepted(c)' = House!Accepted(c)
    BY <2>2 DEF House!Accepted, House!On
  <2> QED BY <2>1, <2>2, <2>3, <2>4 DEF HouseInv
<1>3. CASE book' = book /\ outcomes' = outcomes
  BY <1>3 DEF HouseInv, Announced, House!Accepted, House!On
<1> QED BY <1>1, <1>2, <1>3 DEF HouseStep, Bidding, Closing, House!Close, House!Forget

\* The published messages only grow.
LEMMA PublishedGrows ==
  ASSUME HouseInv, HouseStep
  PROVE  Published \subseteq Published'
<1>1. ASSUME NEW m \in Published PROVE m \in Published'
  <2>1. CASE \E x \in book : m = BidMessage(x)
    BY <2>1, HouseStepInv DEF Published, BidMessage
  <2>2. CASE \E a \in AuctionId : \E w \in Announced(a) : m = ResultMessage(a, w)
    <3>1. PICK a \in AuctionId : \E w \in Announced(a) : m = ResultMessage(a, w)
      BY <2>2
    <3>2. Announced(a) \subseteq Announced(a)'
      BY HouseStepInv
    <3> QED BY <3>1, <3>2 DEF Published, ResultMessage
  <2> QED BY <1>1, <2>1, <2>2 DEF Published
<1> QED BY <1>1

\* Where a published result comes from: an outcome nobody won, or an accepted bid
\* above the reserve price.
LEMMA ResultOrigin ==
  ASSUME HouseInv, NEW m \in AuctionFinished, m \in Published
  PROVE  /\ m.auctionId \in AuctionId
         /\ \/ m.winner = None
            \/ \E w \in Announced(m.auctionId) \ {None} :
                 /\ m.winner = w.bidder /\ m.amount = w.amount /\ m.winner # None
                 /\ m.amount \in Int /\ m.amount > Listing[m.auctionId].reservePrice
<1>1. /\ m \in [auctionId : AuctionId, winner : User \union {None}, amount : Money]
      /\ m.winner = None <=> m.amount = None
  BY MessageAssumption
<1>2. ASSUME NEW b \in book, m = BidMessage(b) PROVE FALSE
  <2>1. "winner" \in DOMAIN m /\ DOMAIN BidMessage(b) = {"auctionId", "amount", "accepted"}
    BY <1>1 DEF BidMessage
  <2> QED BY <1>2, <2>1
<1>3. PICK a \in AuctionId : \E w \in Announced(a) : m = ResultMessage(a, w)
  BY <1>2 DEF Published
<1> PICK w \in Announced(a) : m = ResultMessage(a, w)
  BY <1>3
<1>4. m.auctionId = a
  BY <1>3 DEF ResultMessage
<1>5. CASE w = None
  BY <1>1, <1>3, <1>5 DEF ResultMessage
<1>6. CASE w # None
  <2>1. m.winner = w.bidder /\ m.amount = w.amount
    BY <1>3, <1>6 DEF ResultMessage
  <2>2. w \in book /\ w \in Bid /\ w.auctionId = a /\ w.bidStatus = "Accepted"
    BY <1>3, <1>6 DEF HouseInv, House!Accepted, House!On
  <2>3. w.amount \in Int /\ w.amount > Listing[a].reservePrice
    BY <2>2, BidFacts DEF HouseInv
  <2>4. m.winner # None
    BY <1>1, <2>1, <2>3, NoneAssumption
  <2> QED BY <1>3, <1>4, <1>6, <2>1, <2>3, <2>4
<1> QED BY <1>1, <1>5, <1>6

-----------------------------------------------------------------------------
(* Deliveries *)

\* Known auctions stay known.
LEMMA KnownStays ==
  ASSUME TypeOK, LifeInv, [Next]_vars, NEW a \in AuctionId, Known(a)
  PROVE  Known(a)'
<1> DEFINE Goal == seedings[a] \subseteq seedings'[a] /\ (WasCreated(a) => WasCreated(a)')
<1>1. ASSUME NEW k \in {"AuctionCreated", "AuctionUpdated", "AuctionDeleted"},
             NEW b \in AuctionId, NEW item \in Item \union {None}, Emit(k, b, item),
             seedings' = seedings
      PROVE  Goal
  <2>1. Len(log) \in Nat /\ Len(log') = Len(log) + 1 /\ \A i \in 1..Len(log) : log'[i] = log[i]
    BY <1>1, EmitFacts DEF TypeOK
  <2> QED BY <1>1, <2>1 DEF WasCreated
<1>2. ASSUME NEW r \in Request, CommitUpdate(r) PROVE Goal
  <2> DEFINE item == Patched(req[r].loaded, req[r].patch)
  <2>1. /\ Emit("AuctionUpdated", req[r].auctionId, item) /\ seedings' = seedings
        /\ req[r].auctionId \in AuctionId /\ item \in Item
    BY <1>2, PatchedType DEF CommitUpdate, TypeOK, Req
  <2> HIDE DEF item, Goal
  <2> QED BY <1>1, <2>1
<1>3. ASSUME NEW r \in Request, CommitDelete(r) PROVE Goal
  <2> HIDE DEF Goal
  <2> QED BY <1>1, <1>3 DEF CommitDelete, TypeOK, Req
<1>4. ASSUME NEW b \in AuctionId, NEW i \in Item, CreateAuction(b, i) PROVE Goal
  <2> HIDE DEF Goal
  <2> QED BY <1>1, <1>4 DEF CreateAuction
<1>5. ASSUME log' = log, seedings' = seedings PROVE Goal
  BY <1>5 DEF WasCreated
<1>6. ASSUME Restart PROVE Goal
  <2>1. a \notin Seeded => seedings[a] = {}
    BY DEF LifeInv, SeedInv
  <2>2. log' = log /\ seedings[a] \subseteq seedings'[a]
    BY <1>6, <2>1, RestartFacts
  <2> QED BY <2>2 DEF WasCreated
<1>7. Goal
  <2> HIDE DEF Goal
  <2> QED
    BY <1>2, <1>3, <1>4, <1>5, <1>6, StepCases
       DEF Load, FailRequest, DeliverToNoRow, LoadForBid, LoadForResult, Deliver,
           SaveHighBid, SaveResult, FailJob, vars
<1> QED BY <1>7 DEF Known

\* What a step of the service does to the deliveries and to a handler.
LEMMA DeliveryStep ==
  ASSUME TypeOK, [Next]_vars
  PROVE  /\ \A m \in Messages :
              \/ deliveries'[m] = deliveries[m]
              \/ deliveries'[m] = deliveries[m] + 1 /\ Known(m.auctionId)
         /\ \A c \in Consumer : job'[c] # None =>
              job'[c] = job[c] \/ deliveries'[job'[c].msg] > 0
<1> DEFINE Goal == /\ \A m \in Messages :
                        \/ deliveries'[m] = deliveries[m]
                        \/ deliveries'[m] = deliveries[m] + 1 /\ Known(m.auctionId)
                   /\ \A c \in Consumer : job'[c] # None =>
                        job'[c] = job[c] \/ deliveries'[job'[c].msg] > 0
<1>1. deliveries \in [Messages -> Nat] /\ DOMAIN job = Consumer
  BY DEF TypeOK
<1>2. ASSUME NEW d \in Consumer, NEW n \in Messages, Deliver(d, n), NEW j,
             job' = job \/ (j.msg = n /\ job' = [job EXCEPT ![d] = j])
      PROVE  Goal
  <2>1. deliveries' = [deliveries EXCEPT ![n] = @ + 1] /\ Known(n.auctionId)
    BY <1>2 DEF Deliver, Known
  <2>2. deliveries'[n] = deliveries[n] + 1 /\ deliveries'[n] > 0
    BY <1>1, <2>1
  <2>3. \A c \in Consumer : job'[c] = job[c] \/ job'[c].msg = n
    BY <1>1, <1>2
  <2> QED BY <1>1, <2>1, <2>2, <2>3
<1>3. ASSUME NEW d \in Consumer, NEW n \in BidPlaced, LoadForBid(d, n) PROVE Goal
  <2> DEFINE j == [kind |-> "bid", msg |-> n, loaded |-> rows[n.auctionId].currentHighBid]
  <2>1. /\ n \in Messages /\ Deliver(d, n) /\ j.msg = n
        /\ job' = job \/ job' = [job EXCEPT ![d] = j]
    BY <1>3 DEF LoadForBid, Messages
  <2> HIDE DEF j, Goal
  <2> QED BY <1>2, <2>1
<1>4. ASSUME NEW d \in Consumer, NEW n \in AuctionFinished, LoadForResult(d, n) PROVE Goal
  <2> DEFINE j == [kind |-> "result", msg |-> n, loaded |-> rows[n.auctionId].sale]
  <2>1. /\ n \in Messages /\ Deliver(d, n) /\ j.msg = n /\ job' = [job EXCEPT ![d] = j]
    BY <1>4 DEF LoadForResult, Messages
  <2> HIDE DEF j, Goal
  <2> QED BY <1>2, <2>1
<1>5. ASSUME NEW d \in Consumer, SaveHighBid(d) \/ SaveResult(d) \/ FailJob(d) PROVE Goal
  <2>1. job' = [job EXCEPT ![d] = None] /\ deliveries' = deliveries
    BY <1>5 DEF SaveHighBid, SaveResult, FailJob
  <2> QED BY <1>1, <2>1
<1>6. ASSUME NEW d \in Consumer, NEW n \in Messages, DeliverToNoRow(d, n) PROVE Goal
  <2> HIDE DEF Goal
  <2> QED BY <1>2, <1>6 DEF DeliverToNoRow
<1>7. ASSUME job' = job, deliveries' = deliveries PROVE Goal
  BY <1>7
<1>8. ASSUME \/ \E a \in AuctionId, i \in Item : CreateAuction(a, i)
             \/ \E r \in Request, u \in User, a \in AuctionId, op \in {"update", "delete"},
                   p \in Patch : Load(r, u, a, op, p)
             \/ \E r \in Request : CommitUpdate(r) \/ CommitDelete(r) \/ FailRequest(r)
             \/ UNCHANGED vars
      PROVE  Goal
  <2> HIDE DEF Goal
  <2>1. job' = job /\ deliveries' = deliveries
    BY <1>8 DEF CreateAuction, Load, CommitUpdate, CommitDelete, FailRequest, vars
  <2> QED BY <1>7, <2>1
<1>9. ASSUME Restart PROVE Goal
  BY <1>9, RestartFacts
<1> HIDE DEF Goal
<1>10. Goal
  BY <1>3, <1>4, <1>5, <1>6, <1>8, <1>9, StepCases
<1> QED BY <1>10 DEF Goal

\* The house and its messages are unchanged by the steps of the service.
LEMMA AuctionStepFrame ==
  ASSUME AuctionStep
  PROVE  /\ [Next]_vars
         /\ book' = book /\ outcomes' = outcomes
         /\ Published' = Published
         /\ \A a \in AuctionId : Announced(a)' = Announced(a)
         /\ mishaps \subseteq mishaps'
<1>1. [Next]_vars /\ book' = book /\ outcomes' = outcomes
  BY DEF AuctionStep, house
<1>2. mishaps \subseteq mishaps'
  BY DEF AuctionStep, Watch
<1>3. \A a \in AuctionId : Announced(a)' = Announced(a)
  BY <1>1 DEF Announced
<1>4. Published' = Published
  BY <1>1 DEF Published, Announced
<1> QED BY <1>1, <1>2, <1>3, <1>4

\* Steps of either side keep the book of the house.
LEMMA HouseInvStep == HouseInv /\ [SalesNext]_<<vars, house, mishaps>> => HouseInv'
<1> SUFFICES ASSUME HouseInv, [SalesNext]_<<vars, house, mishaps>> PROVE HouseInv'
  OBVIOUS
<1>1. CASE HouseStep
  BY <1>1, HouseStepInv
<1>2. CASE book' = book /\ outcomes' = outcomes
  BY <1>2 DEF HouseInv, Announced, House!Accepted, House!On
<1> QED BY <1>1, <1>2 DEF SalesNext, AuctionStep, house

\* Every message, and every handler of one, is still of what was published.
LEMMA MessageStep ==
  TypeOK /\ LifeInv /\ HouseInv /\ MessageInv /\ [SalesNext]_<<vars, house, mishaps>>
    => MessageInv'
<1> SUFFICES ASSUME TypeOK, LifeInv, HouseInv, MessageInv,
                    [SalesNext]_<<vars, house, mishaps>>
             PROVE  MessageInv'
  OBVIOUS
<1>1. [Next]_vars
  BY ServiceStep
<1>2. \A m \in Messages : m.auctionId \in AuctionId
  BY MessageAssumption DEF Messages
<1>3. Published \subseteq Published'
  <2>1. CASE HouseStep
    BY <2>1, PublishedGrows
  <2>2. CASE UNCHANGED house
    BY <2>2 DEF house, Published, Announced
  <2> QED BY <2>1, <2>2 DEF SalesNext, AuctionStep
<1>4. ASSUME NEW m \in Messages, deliveries'[m] > 0 PROVE m \in Published' /\ Known(m.auctionId)'
  <2>1. CASE deliveries'[m] = deliveries[m]
    <3>1. m \in Published /\ Known(m.auctionId)
      BY <1>4, <2>1 DEF MessageInv
    <3>2. ASSUME NEW a \in AuctionId, Known(a) PROVE Known(a)'
      BY <1>1, <3>2, KnownStays
    <3> QED BY <1>2, <1>3, <3>1, <3>2 DEF Known, WasCreated
  <2>2. CASE deliveries'[m] # deliveries[m]
    <3>1. Known(m.auctionId)
      BY <1>1, <2>2, DeliveryStep
    <3>2. m \in Published
      BY <2>2 DEF SalesNext, HouseStep, AuctionStep, vars
    <3>3. ASSUME NEW a \in AuctionId, Known(a) PROVE Known(a)'
      BY <1>1, <3>3, KnownStays
    <3> QED BY <1>2, <1>3, <3>1, <3>2, <3>3 DEF Known, WasCreated
  <2> QED BY <2>1, <2>2
<1>5. ASSUME NEW c \in Consumer, job'[c] # None PROVE deliveries'[job'[c].msg] > 0
  <2>1. CASE job'[c] = job[c]
    <3>1. job[c].msg \in Messages /\ deliveries[job[c].msg] > 0
      BY <1>5, <2>1 DEF TypeOK, BidJob, ResultJob, Messages, MessageInv
    <3>2. deliveries[job[c].msg] \in Nat
      BY <3>1 DEF TypeOK
    <3>3. \/ deliveries'[job[c].msg] = deliveries[job[c].msg]
          \/ deliveries'[job[c].msg] = deliveries[job[c].msg] + 1
      BY <1>1, <3>1, DeliveryStep
    <3> QED BY <2>1, <3>1, <3>2, <3>3
  <2> QED BY <1>1, <1>5, <2>1, DeliveryStep
<1> QED BY <1>4, <1>5 DEF MessageInv, Known, WasCreated

-----------------------------------------------------------------------------
(* The sale in a row *)

\* A sale that SaleWasAnnounced accepts for auction a.
Proper(a, sale) ==
  IF sale.winner = None THEN sale.soldAmount = None /\ sale.status # "Finished"
  ELSE /\ sale.status = "Finished"
       /\ \E w \in Announced(a) \ {None} :
            w.bidder = sale.winner /\ w.amount = sale.soldAmount

\* A published result makes a proper sale of a proper sale.
LEMMA ConcludedProper ==
  ASSUME HouseInv, NEW m \in AuctionFinished, m \in Published,
         NEW s, Proper(m.auctionId, s)
  PROVE  Proper(m.auctionId, Concluded(m, s))
<1> DEFINE a == m.auctionId
           t == Concluded(m, s)
<1>1. /\ t.winner = IF m.winner # None THEN m.winner ELSE s.winner
      /\ t.soldAmount = IF m.winner # None THEN m.amount ELSE s.soldAmount
      /\ t.status = IF t.soldAmount # None /\ t.soldAmount > Listing[a].reservePrice
                    THEN "Finished" ELSE "ReserveNotMet"
  BY DEF Concluded
<1>2. a \in AuctionId
  BY ResultOrigin
<1>3. CASE m.winner = None /\ s.winner = None
  <2>1. t.winner = None /\ t.soldAmount = None
    BY <1>1, <1>3 DEF Proper
  <2> QED BY <1>1, <2>1 DEF Proper
<1>4. CASE m.winner = None /\ s.winner # None
  <2>1. PICK w \in Announced(a) \ {None} : w.bidder = s.winner /\ w.amount = s.soldAmount
    BY <1>4 DEF Proper
  <2>2. w \in book /\ w \in Bid /\ w.auctionId = a /\ w.bidStatus = "Accepted"
    BY <1>2, <2>1 DEF HouseInv, House!Accepted, House!On
  <2>3. w.amount \in Int /\ w.amount # None /\ w.amount > Listing[a].reservePrice
    BY <2>2, BidFacts, NoneAssumption DEF HouseInv
  <2>4. t.winner = s.winner /\ t.soldAmount = w.amount
    BY <1>1, <1>4, <2>1
  <2>5. t.status = "Finished"
    BY <1>1, <2>3, <2>4
  <2> HIDE DEF t, a
  <2>6. Proper(a, t)
    BY <1>4, <2>1, <2>4, <2>5 DEF Proper
  <2> QED BY <2>6 DEF t, a
<1>5. CASE m.winner # None
  <2>1. PICK w \in Announced(a) \ {None} :
          /\ m.winner = w.bidder /\ m.amount = w.amount
          /\ m.amount \in Int /\ m.amount > Listing[a].reservePrice
    BY <1>5, ResultOrigin
  <2>2. m.amount # None
    BY <2>1, NoneAssumption
  <2>3. t.winner = w.bidder /\ t.soldAmount = w.amount /\ t.winner # None
    BY <1>1, <1>5, <2>1
  <2>4. t.status = "Finished"
    BY <1>1, <2>1, <2>2, <2>3
  <2> HIDE DEF t, a
  <2>5. Proper(a, t)
    BY <2>1, <2>3, <2>4 DEF Proper
  <2> QED BY <2>5 DEF t, a
<1> QED BY <1>3, <1>4, <1>5

\* A handler that saves a result over a sale it had not loaded is a mishap.
LEMMA StaleResult ==
  ASSUME TypeOK, Watch, NEW c \in Consumer, SaveResult(c),
         NEW a \in AuctionId, job[c].msg.auctionId = a, rows[a] # None,
         rows[a].sale # job[c].loaded
  PROVE  <<a, "result">> \in mishaps'
<1>1. job[c] # None /\ job[c].kind = "result" /\ job'[c] = None
  BY DEF SaveResult, TypeOK
<1>2. Mishap(c)
  BY <1>1 DEF Mishap
<1> QED BY <1>1, <1>2 DEF Watch

\* The messages that handlers hold.
LEMMA JobMessages ==
  ASSUME TypeOK, MessageInv, NEW c \in Consumer, job[c] # None
  PROVE  /\ job[c].kind = "bid" => job[c].msg \in BidPlaced
         /\ job[c].kind = "result" => job[c].msg \in AuctionFinished /\ job[c].loaded \in Sale
         /\ job[c].kind \in {"bid", "result"}
         /\ job[c].msg \in Published /\ Known(job[c].msg.auctionId)
         /\ job[c].msg.auctionId \in AuctionId
<1>1. job[c] \in BidJob \union ResultJob
  BY DEF TypeOK, BidJob, ResultJob
<1>2. /\ job[c].kind = "bid" => job[c].msg \in BidPlaced
      /\ job[c].kind = "result" => job[c].msg \in AuctionFinished /\ job[c].loaded \in Sale
      /\ job[c].kind \in {"bid", "result"}
  BY <1>1 DEF BidJob, ResultJob
<1>3. job[c].msg \in Messages
  BY <1>2 DEF Messages
<1>4. job[c].msg.auctionId \in AuctionId
  BY <1>2, MessageAssumption
<1> QED BY <1>2, <1>3, <1>4 DEF MessageInv

\* A step of the service keeps the sale of auction a proper.
LEMMA ProperStep ==
  ASSUME TypeOK, LifeInv, HouseInv, MessageInv, SaleWasAnnounced, AuctionStep,
         NEW a \in AuctionId, rows'[a] # None, <<a, "result">> \notin mishaps'
  PROVE  Proper(a, rows'[a].sale)
<1>1. [Next]_vars /\ <<a, "result">> \notin mishaps
  BY AuctionStepFrame
<1>2. CASE rows[a] = None
  <2>1. /\ rows'[a].sale.winner = None /\ rows'[a].sale.soldAmount = None
        /\ rows'[a].sale.status # "Finished"
    BY <1>1, <1>2, AddedRow
  <2> QED BY <2>1 DEF Proper
<1>3. CASE rows[a] # None
  <2>1. Proper(a, rows[a].sale)
    BY <1>1, <1>3 DEF SaleWasAnnounced, Proper
  <2>2. CASE rows'[a].sale = rows[a].sale
    BY <2>1, <2>2
  <2>3. ASSUME NEW c \in Consumer, SaveResult(c), job[c].msg.auctionId = a
        PROVE  Proper(a, rows'[a].sale)
    <3> DEFINE t == Concluded(job[c].msg, job[c].loaded)
    <3>1. rows[a].sale = job[c].loaded
      BY <1>3, <2>3, StaleResult DEF AuctionStep
    <3>2. job[c] # None /\ job[c].kind = "result"
      BY <2>3 DEF SaveResult
    <3>3. job[c].msg \in AuctionFinished /\ job[c].msg \in Published
      BY <3>2, JobMessages
    <3>4. Proper(a, t)
      BY <2>1, <2>3, <3>1, <3>3, ConcludedProper
    <3>5. /\ rows'[a].sale.winner = t.winner /\ rows'[a].sale.soldAmount = t.soldAmount
          /\ rows'[a].sale.status = t.status
      BY <1>3, <2>3, <3>1, SaleColumns
    <3> HIDE DEF t
    <3> QED BY <3>4, <3>5 DEF Proper
  <2> QED BY <1>1, <1>3, <2>2, <2>3, RowStep
<1> QED BY <1>2, <1>3

\* Steps of the house add announcements: a proper sale stays one.
LEMMA ProperGrows ==
  ASSUME HouseInv, HouseStep, NEW a \in AuctionId, NEW s, Proper(a, s)
  PROVE  IF s.winner = None THEN s.soldAmount = None /\ s.status # "Finished"
         ELSE /\ s.status = "Finished"
              /\ \E w \in Announced(a)' \ {None} : w.bidder = s.winner /\ w.amount = s.soldAmount
<1>1. Announced(a) \subseteq Announced(a)'
  BY HouseStepInv
<1> QED BY <1>1 DEF Proper

\* A step leaves every winner with a result that was announced for the auction.
LEMMA SaleStep ==
  TypeOK /\ LifeInv /\ HouseInv /\ MessageInv /\ SaleWasAnnounced
    /\ [SalesNext]_<<vars, house, mishaps>> => SaleWasAnnounced'
<1> SUFFICES ASSUME TypeOK, LifeInv, HouseInv, MessageInv, SaleWasAnnounced,
                    [SalesNext]_<<vars, house, mishaps>>
             PROVE  SaleWasAnnounced'
  OBVIOUS
<1>1. CASE AuctionStep
  <2>1. \A a \in AuctionId : Announced(a)' = Announced(a)
    BY <1>1, AuctionStepFrame
  <2>2. \A a \in AuctionId : rows'[a] # None /\ <<a, "result">> \notin mishaps'
          => Proper(a, rows'[a].sale)
    BY <1>1, ProperStep
  <2> QED BY <2>1, <2>2 DEF SaleWasAnnounced, Proper
<1>2. CASE HouseStep
  <2>1. rows' = rows /\ mishaps' = mishaps
    BY <1>2 DEF HouseStep, vars
  <2>2. \A a \in AuctionId : rows[a] # None /\ <<a, "result">> \notin mishaps
          => Proper(a, rows[a].sale)
    BY DEF SaleWasAnnounced, Proper
  <2> QED BY <1>2, <2>1, <2>2, ProperGrows DEF SaleWasAnnounced
<1>3. CASE UNCHANGED <<vars, house, mishaps>>
  BY <1>3 DEF vars, house, SaleWasAnnounced, Announced
<1> QED BY <1>1, <1>2, <1>3 DEF SalesNext

-----------------------------------------------------------------------------
(* The amount of a sale, mishaps or not *)

\* What a result handler writes or keeps as the amount was announced.
LEMMA SavedAmount ==
  ASSUME TypeOK, HouseInv, MessageInv, AmountInv, NEW c \in Consumer, SaveResult(c),
         NEW a \in AuctionId, job[c].msg.auctionId = a, rows[a] # None
  PROVE  Sold(a, rows'[a].sale.soldAmount)
<1> DEFINE m == job[c].msg
           t == Concluded(m, job[c].loaded)
<1>1. job[c] # None /\ job[c].kind = "result"
  BY DEF SaveResult
<1>2. m \in AuctionFinished /\ m \in Published
  BY <1>1, JobMessages
<1>3. Sold(a, rows[a].sale.soldAmount) /\ Sold(a, job[c].loaded.soldAmount)
  BY <1>1 DEF AmountInv
<1>4. m.winner # None => Sold(a, m.amount)
  BY <1>2, ResultOrigin DEF Sold
<1>5. t.soldAmount = IF m.winner # None THEN m.amount ELSE job[c].loaded.soldAmount
  BY DEF Concluded
<1>6. \/ rows'[a].sale.soldAmount = t.soldAmount
      \/ rows'[a].sale.soldAmount = rows[a].sale.soldAmount
  BY SaleColumns
<1> QED BY <1>3, <1>4, <1>5, <1>6

\* The steps of the service, for rows and for handlers.
LEMMA AmountInRow ==
  ASSUME TypeOK, LifeInv, HouseInv, MessageInv, AmountInv, [Next]_vars,
         NEW a \in AuctionId, rows'[a] # None
  PROVE  Sold(a, rows'[a].sale.soldAmount)
<1>1. CASE rows[a] = None
  <2>1. rows'[a].sale.soldAmount = None
    BY <1>1, AddedRow
  <2> QED BY <2>1 DEF Sold
<1>2. CASE rows[a] # None /\ rows'[a].sale = rows[a].sale
  BY <1>2 DEF AmountInv
<1>3. CASE rows[a] # None /\ \E c \in Consumer : SaveResult(c) /\ job[c].msg.auctionId = a
  BY <1>3, SavedAmount
<1> QED BY <1>1, <1>2, <1>3, RowStep

\* What a handler of a result has loaded is an amount that some result sold at.
LEMMA AmountInJob ==
  ASSUME TypeOK, AmountInv, [Next]_vars,
         NEW c \in Consumer, job'[c] # None, job'[c].kind = "result"
  PROVE  Sold(job'[c].msg.auctionId, job'[c].loaded.soldAmount)
<1>1. CASE job'[c] = job[c]
  BY <1>1 DEF AmountInv
<1>2. ASSUME NEW m \in AuctionFinished, rows[m.auctionId] # None,
             job'[c] = [kind |-> "result", msg |-> m, loaded |-> rows[m.auctionId].sale]
      PROVE  Sold(job'[c].msg.auctionId, job'[c].loaded.soldAmount)
  <2>1. job'[c].msg = m /\ job'[c].loaded = rows[m.auctionId].sale /\ m.auctionId \in AuctionId
    BY <1>2, MessageAssumption
  <2> QED BY <1>2, <2>1 DEF AmountInv
<1>3. ASSUME NEW m \in BidPlaced,
             job'[c] = [kind |-> "bid", msg |-> m, loaded |-> rows[m.auctionId].currentHighBid]
      PROVE  FALSE
  BY <1>3
<1> QED BY <1>1, <1>2, <1>3, JobStep

\* A step leaves every amount of a row, and of a handler, one that a result sold at.
LEMMA AmountStep ==
  TypeOK /\ LifeInv /\ HouseInv /\ MessageInv /\ AmountInv
    /\ [SalesNext]_<<vars, house, mishaps>> => AmountInv'
<1> SUFFICES ASSUME TypeOK, LifeInv, HouseInv, MessageInv, AmountInv,
                    [SalesNext]_<<vars, house, mishaps>>
             PROVE  AmountInv'
  OBVIOUS
<1>1. [Next]_vars /\ TypeOK'
  BY ServiceStep, TypeStep
<1>2. \A a \in AuctionId : Announced(a) \subseteq Announced(a)'
  BY HouseStepInv DEF SalesNext, AuctionStep, house, Announced
<1>3. \A a \in AuctionId : rows'[a] # None => Sold(a, rows'[a].sale.soldAmount)
  BY <1>1, AmountInRow
<1>4. \A c \in Consumer : job'[c] # None /\ job'[c].kind = "result" =>
        Sold(job'[c].msg.auctionId, job'[c].loaded.soldAmount)
  BY <1>1, AmountInJob
<1>5. \A c \in Consumer : job'[c] # None => job'[c].msg.auctionId \in AuctionId
  BY <1>1, MessageAssumption DEF TypeOK, BidJob, ResultJob
<1> QED BY <1>2, <1>3, <1>4, <1>5 DEF AmountInv, Sold
-----------------------------------------------------------------------------
(* Bids on their way to the current high bid *)

\* How a handler lets go of a bid.
LEMMA BidJobEnds ==
  ASSUME TypeOK, [Next]_vars,
         NEW c \in Consumer, job[c] # None, job[c].kind = "bid", job'[c] # job[c]
  PROVE  /\ job'[c] = None
         /\ SaveHighBid(c) \/ FailJob(c) \/ Restart
<1>1. DOMAIN job = Consumer
  BY DEF TypeOK
<1>2. ASSUME NEW d \in Consumer, NEW j, job' = job \/ job' = [job EXCEPT ![d] = j], job[d] = None
      PROVE  FALSE
  BY <1>1, <1>2
<1>3. ASSUME NEW d \in Consumer, NEW m \in BidPlaced, LoadForBid(d, m) PROVE FALSE
  <2> DEFINE j == [kind |-> "bid", msg |-> m, loaded |-> rows[m.auctionId].currentHighBid]
  <2>1. job[d] = None /\ (job' = job \/ job' = [job EXCEPT ![d] = j])
    BY <1>3 DEF LoadForBid, Deliver
  <2> HIDE DEF j
  <2> QED BY <1>2, <2>1
<1>4. ASSUME NEW d \in Consumer, NEW m \in AuctionFinished, LoadForResult(d, m) PROVE FALSE
  <2> DEFINE j == [kind |-> "result", msg |-> m, loaded |-> rows[m.auctionId].sale]
  <2>1. job[d] = None /\ job' = [job EXCEPT ![d] = j]
    BY <1>4 DEF LoadForResult, Deliver
  <2> HIDE DEF j
  <2> QED BY <1>2, <2>1
<1>5. ASSUME NEW d \in Consumer, SaveHighBid(d) \/ SaveResult(d) \/ FailJob(d)
      PROVE  c = d /\ job'[c] = None /\ (SaveHighBid(c) \/ FailJob(c))
  <2>1. job' = [job EXCEPT ![d] = None]
    BY <1>5 DEF SaveHighBid, SaveResult, FailJob
  <2>2. c = d /\ job'[c] = None
    BY <1>1, <2>1
  <2>3. ~ SaveResult(c)
    BY DEF SaveResult
  <2> QED BY <1>5, <2>2, <2>3
<1>6. job' # job
  OBVIOUS
<1>7. Restart => job'[c] = None
  BY DEF Restart
<1> QED
  BY <1>3, <1>4, <1>5, <1>6, <1>7, StepCases
     DEF CreateAuction, Load, CommitUpdate, CommitDelete, FailRequest, DeliverToNoRow, vars

\* A bid that ends without being saved over what its handler had loaded is a
\* mishap.
LEMMA LostBid ==
  ASSUME TypeOK, Watch, NEW c \in Consumer, SaveHighBid(c) \/ FailJob(c) \/ Restart,
         job[c] # None, job[c].kind = "bid",
         NEW a \in AuctionId, job[c].msg.auctionId = a, rows[a] # None,
         <<a, "bid">> \notin mishaps'
  PROVE  SaveHighBid(c) /\ job[c].loaded = rows[a].currentHighBid
<1>1. job'[c] = None
  BY DEF SaveHighBid, FailJob, Restart, TypeOK
<1>2. ~ Mishap(c)
  BY DEF Watch
<1>3. rows' # rows /\ job[c].loaded = rows[a].currentHighBid
  BY <1>1, <1>2 DEF Mishap
<1>4. rows # NoRows
  BY DEF NoRows
<1> QED BY <1>3, <1>4 DEF FailJob, Restart, SeedData

\* What the save of a high bid makes of the row.
LEMMA HighBidSaved ==
  ASSUME TypeOK, NEW c \in Consumer, SaveHighBid(c)
  PROVE  /\ job[c].msg.amount \in Int /\ job[c].msg.amount # None
         /\ rows'[job[c].msg.auctionId].currentHighBid = job[c].msg.amount
<1> DEFINE a == job[c].msg.auctionId
           n == job[c].msg.amount
<1>1. /\ a \in AuctionId /\ n \in Int /\ rows[a] \in Row
      /\ rows' = [rows EXCEPT ![a] = [rows[a] EXCEPT !.currentHighBid = n]]
  BY HighBidWrites
<1> HIDE DEF a, n
<1>2. rows'[a] = [rows[a] EXCEPT !.currentHighBid = n]
  BY <1>1 DEF TypeOK
<1>3. rows'[a].currentHighBid = n /\ n # None
  BY <1>1, <1>2, NoneAssumption DEF Row
<1> QED BY <1>1, <1>3 DEF a, n

\* An accepted bid that is delivered by a step is from then on in a handler, or
\* the row covers it.
LEMMA DeliveredBid ==
  ASSUME TypeOK, [Next]_vars, NEW m \in BidPlaced, m.accepted,
         deliveries'[m] # deliveries[m], rows[m.auctionId] # None
  PROVE  \/ \E c \in Consumer : job'[c] # None /\ job'[c].kind = "bid" /\ job'[c].msg = m
         \/ rows' = rows /\ Covers(rows[m.auctionId].currentHighBid, m)
<1>1. deliveries \in [Messages -> Nat] /\ m \in Messages /\ m.auctionId \in AuctionId /\ m.amount \in Int
  BY MessageAssumption DEF TypeOK, Messages
<1>2. ASSUME NEW d \in Consumer, NEW n \in Messages, Deliver(d, n) PROVE n = m
  BY <1>1, <1>2 DEF Deliver
<1>3. ASSUME NEW d \in Consumer, LoadForBid(d, m)
      PROVE  \/ \E c \in Consumer : job'[c] # None /\ job'[c].kind = "bid" /\ job'[c].msg = m
             \/ rows' = rows /\ Covers(rows[m.auctionId].currentHighBid, m)
  <2> DEFINE high == rows[m.auctionId].currentHighBid
             j == [kind |-> "bid", msg |-> m, loaded |-> high]
  <2>1. rows' = rows /\ job' = IF Raises(m, high) THEN [job EXCEPT ![d] = j] ELSE job
    BY <1>3 DEF LoadForBid, Deliver
  <2>2. CASE Raises(m, high)
    <3>1. j \in BidJob
      <4>1. high \in Money
        BY <1>1 DEF TypeOK, Row
      <4> QED BY <4>1 DEF BidJob
    <3>2. j.kind = "bid" /\ j.msg = m
      OBVIOUS
    <3> HIDE DEF j
    <3>3. job'[d] = j
      BY <2>1, <2>2 DEF TypeOK
    <3>4. j # None
      BY <3>1, NoneAssumption
    <3> QED BY <3>2, <3>3, <3>4
  <2>3. CASE ~ Raises(m, high)
    <3>1. high \in Int \union {None}
      BY <1>1 DEF TypeOK, Row, Money
    <3>2. high # None /\ high >= m.amount
      BY <1>1, <2>3, <3>1 DEF Raises
    <3> QED BY <2>1, <3>2 DEF Covers
  <2> QED BY <2>2, <2>3
<1>4. ASSUME NEW d \in Consumer, NEW n \in AuctionFinished, LoadForResult(d, n) PROVE FALSE
  <2>1. n = m
    BY <1>2, <1>4 DEF LoadForResult, Messages
  <2>2. DOMAIN m = {"auctionId", "amount", "accepted"} /\ "winner" \in DOMAIN n
    BY MessageAssumption
  <2> QED BY <2>1, <2>2
<1>5. ASSUME NEW d \in Consumer, NEW n \in Messages, DeliverToNoRow(d, n) PROVE FALSE
  BY <1>2, <1>5 DEF DeliverToNoRow
<1>6. ASSUME NEW d \in Consumer, NEW n \in BidPlaced, LoadForBid(d, n) PROVE n = m
  BY <1>2, <1>6 DEF LoadForBid, Messages
<1> QED
  BY <1>3, <1>4, <1>5, <1>6, StepCases
     DEF CreateAuction, Load, CommitUpdate, CommitDelete, FailRequest,
         SaveHighBid, SaveResult, FailJob, Restart, vars

\* A save over the high bid that was loaded raises it, to the bid's own amount.
LEMMA HighBidRises ==
  ASSUME TypeOK, BidJobInv, Watch, NEW c \in Consumer, SaveHighBid(c),
         NEW a \in AuctionId, job[c].msg.auctionId = a, rows[a] # None,
         <<a, "bid">> \notin mishaps', NEW m \in BidPlaced
  PROVE  /\ Covers(rows[a].currentHighBid, m) => Covers(rows'[a].currentHighBid, m)
         /\ job[c].msg = m => Covers(rows'[a].currentHighBid, m)
<1> DEFINE n == job[c].msg.amount
<1>1. job[c] # None /\ job[c].kind = "bid"
  BY DEF SaveHighBid
<1>2. job[c].loaded = rows[a].currentHighBid
  BY <1>1, LostBid
<1>3. n \in Int /\ n # None /\ rows'[a].currentHighBid = n
  BY HighBidSaved
<1>4. rows[a].currentHighBid = None \/ n > rows[a].currentHighBid
  BY <1>1, <1>2 DEF BidJobInv, Raises
<1>5. rows[a].currentHighBid \in Int \union {None} /\ m.amount \in Int
  BY MessageAssumption DEF TypeOK, Row, Money
<1> HIDE DEF n
<1>6. Covers(rows[a].currentHighBid, m) => Covers(rows'[a].currentHighBid, m)
  BY <1>3, <1>4, <1>5 DEF Covers
<1>7. job[c].msg = m => Covers(rows'[a].currentHighBid, m)
  BY <1>3, <1>5 DEF Covers, n
<1> QED BY <1>6, <1>7

\* A handled bid stays so, whatever step the service takes.
LEMMA HandledInAuctionStep ==
  ASSUME TypeOK, LifeInv, BidJobInv, MessageInv, HandledInv, AuctionStep,
         NEW m \in BidPlaced, m.accepted, m.auctionId \notin Seeded, deliveries'[m] > 0,
         rows'[m.auctionId] # None, <<m.auctionId, "bid">> \notin mishaps'
  PROVE  InHand(m)' \/ Covers(rows'[m.auctionId].currentHighBid, m)
<1> DEFINE a == m.auctionId
<1>1. m \in Messages /\ a \in AuctionId
  BY MessageAssumption DEF Messages
<1>2. [Next]_vars /\ Watch /\ <<a, "bid">> \notin mishaps
  BY AuctionStepFrame DEF AuctionStep
<1>3. rows[a] # None
  <2>1. CASE rows[a] = None
    <3>1. ~ Known(a) /\ deliveries' = deliveries
      BY <1>1, <1>2, <2>1, AddedRow
    <3> QED BY <1>1, <3>1 DEF MessageInv
  <2> QED BY <2>1
<1>4. CASE deliveries'[m] # deliveries[m]
  BY <1>2, <1>3, <1>4, DeliveredBid DEF InHand
<1>5. CASE InHand(m)
  <2>1. PICK c \in Consumer : job[c] # None /\ job[c].kind = "bid" /\ job[c].msg = m
    BY <1>5 DEF InHand
  <2>2. CASE job'[c] = job[c]
    BY <2>1, <2>2 DEF InHand
  <2>3. CASE job'[c] # job[c]
    <3>1. SaveHighBid(c) \/ FailJob(c) \/ Restart
      BY <1>2, <2>1, <2>3, BidJobEnds
    <3>2. SaveHighBid(c)
      BY <1>1, <1>2, <1>3, <2>1, <3>1, LostBid
    <3> QED BY <1>1, <1>2, <1>3, <2>1, <3>2, HighBidRises
  <2> QED BY <2>2, <2>3
<1>6. CASE Covers(rows[a].currentHighBid, m)
  <2>1. CASE rows'[a].currentHighBid = rows[a].currentHighBid
    BY <1>6, <2>1
  <2>2. ASSUME NEW c \in Consumer, SaveHighBid(c), job[c].msg.auctionId = a
        PROVE  Covers(rows'[a].currentHighBid, m)
    BY <1>1, <1>2, <1>3, <1>6, <2>2, HighBidRises
  <2> QED BY <1>1, <1>2, <1>3, <2>1, <2>2, RowStep
<1> QED BY <1>2, <1>3, <1>4, <1>5, <1>6 DEF HandledInv

\* Every step keeps track of the accepted bids that were delivered.
LEMMA HandledStep ==
  TypeOK /\ LifeInv /\ BidJobInv /\ MessageInv /\ HandledInv
    /\ [SalesNext]_<<vars, house, mishaps>> => HandledInv'
<1> SUFFICES ASSUME TypeOK, LifeInv, BidJobInv, MessageInv, HandledInv,
                    [SalesNext]_<<vars, house, mishaps>>
             PROVE  HandledInv'
  OBVIOUS
<1>1. CASE AuctionStep
  BY <1>1, HandledInAuctionStep DEF HandledInv, Covers
<1>2. CASE UNCHANGED <<vars, mishaps>>
  BY <1>2 DEF HandledInv, InHand, Covers, vars
<1> QED BY <1>1, <1>2 DEF SalesNext, HouseStep
-----------------------------------------------------------------------------
(* The theorems *)

\* Nothing is sold, delivered or in hand at the start.
LEMMA SalesInvInit == SalesInit => SalesInv
<1> SUFFICES ASSUME SalesInit PROVE SalesInv
  OBVIOUS
<1>1. Init /\ House!Init /\ mishaps = {}
  BY DEF SalesInit
<1>2. IInv
  BY <1>1, TypeInit, LifeInit, SoldInit, ItemInit, RoomInit DEF Init, BidJobInv, IInv
<1>3. \A a \in AuctionId : rows[a] # None =>
        /\ rows[a].sale.winner = None /\ rows[a].sale.soldAmount = None
        /\ rows[a].sale.status # "Finished"
  <2> SUFFICES ASSUME NEW a \in AuctionId, rows[a] # None
               PROVE  /\ rows[a].sale.winner = None /\ rows[a].sale.soldAmount = None
                      /\ rows[a].sale.status # "Finished"
    OBVIOUS
  <2>1. a \in Seeded /\ rows[a] = SeedRow(a, 1)
    BY <1>1 DEF Init, SeededRows, NoRows
  <2> QED BY <2>1, SeedRowType
<1>4. (\A c \in Consumer : job[c] = None) /\ \A m \in Messages : deliveries[m] = 0
  BY <1>1 DEF Init
<1>5. HouseInv
  <2>1. book = {} /\ outcomes = [a \in AuctionId |-> << >>]
    BY <1>1 DEF House!Init
  <2>2. \A a \in AuctionId : Announced(a) = {}
    BY <2>1 DEF Announced
  <2> QED BY <2>1, <2>2 DEF HouseInv
<1>6. MessageInv
  BY <1>4 DEF MessageInv
<1>7. SaleWasAnnounced /\ AmountInv
  BY <1>3, <1>4 DEF SaleWasAnnounced, AmountInv, Sold
<1>8. HandledInv
  BY <1>4 DEF HandledInv, Messages
<1> QED BY <1>2, <1>5, <1>6, <1>7, <1>8 DEF SalesInv

\* The inductive invariant of the two services together.
THEOREM SalesInvariant == SalesSpec => []SalesInv
<1>1. SalesInv /\ [SalesNext]_<<vars, house, mishaps>> => SalesInv'
  <2> SUFFICES ASSUME SalesInv, [SalesNext]_<<vars, house, mishaps>> PROVE SalesInv'
    OBVIOUS
  <2>1. /\ TypeOK /\ LifeInv /\ BidJobInv /\ SoldInv /\ ItemWasAnnounced /\ RoomInv
      /\ [Next]_vars
    BY ServiceStep DEF SalesInv, IInv
  <2>2. IInv'
    BY <2>1, TypeStep, LifeStep, BidJobStep, SoldStep, ItemStep, RoomStep DEF IInv
  <2>3. HouseInv' /\ MessageInv'
    BY <2>1, HouseInvStep, MessageStep DEF SalesInv
  <2>4. SaleWasAnnounced' /\ AmountInv'
    BY <2>1, SaleStep, AmountStep DEF SalesInv
  <2>5. HandledInv'
    BY <2>1, HandledStep DEF SalesInv
  <2> QED BY <2>2, <2>3, <2>4, <2>5 DEF SalesInv
<1> QED BY <1>1, SalesInvInit, PTL DEF SalesSpec

\* No row shows a sale that the bid service has not announced, and a sale that it
\* shows is Finished, with the winner and the amount of one and the same bid.
THEOREM SalesWereAnnounced == SalesSpec => []SaleWasAnnounced
BY SalesInvariant, PTL DEF SalesInv

\* Once the bids on a created auction were handled without a mishap, what it was
\* sold at is not above its current high bid.
THEOREM HighBidCovers == SalesSpec => []HighBidCoversSale
<1>1. SalesInv => HighBidCoversSale
  <2> SUFFICES ASSUME SalesInv, NEW a \in AuctionId \ Seeded,
                      rows[a] # None, rows[a].sale.soldAmount # None,
                      <<a, "bid">> \notin mishaps,
                      \A b \in House!On(a) : deliveries[BidMessage(b)] > 0,
                      \A c \in Consumer : job[c] # None =>
                        job[c].kind # "bid" \/ job[c].msg.auctionId # a
               PROVE  /\ rows[a].currentHighBid # None
                      /\ rows[a].currentHighBid >= rows[a].sale.soldAmount
    BY DEF HighBidCoversSale
  <2>1. PICK w \in Announced(a) \ {None} : w.amount = rows[a].sale.soldAmount
    BY DEF SalesInv, AmountInv, Sold
  <2>2. w \in House!On(a) /\ w \in Bid /\ w.auctionId = a /\ w.bidStatus = "Accepted"
    BY <2>1 DEF SalesInv, HouseInv, House!Accepted, House!On
  <2> DEFINE m == BidMessage(w)
  <2>3. m \in BidPlaced /\ m.auctionId = a /\ m.amount = w.amount /\ m.accepted
    BY <2>2, BidFacts DEF BidMessage
  <2>4. deliveries[m] > 0
    BY <2>2
  <2> HIDE DEF m
  <2>5. ~ InHand(m)
    BY <2>3 DEF InHand
  <2>6. Covers(rows[a].currentHighBid, m)
    BY <2>3, <2>4, <2>5 DEF SalesInv, HandledInv
  <2> QED BY <2>1, <2>3, <2>6 DEF Covers
<1> QED BY <1>1, SalesInvariant, PTL
=============================================================================
