------------------------ MODULE AuctionServiceProofs ------------------------
(* Theorems about AuctionService, for all values of its constants. *)
EXTENDS AuctionServiceInv, TLAPS

\* A new row is a row, and not null; so is a seeded one.
LEMMA NewRowType ==
  ASSUME NEW i \in Item, NEW t \in Int
  PROVE  NewRow(i, t) \in Row /\ NewRow(i, t) # None /\ NewRow(i, t).item = i
<1>1. NoSale \in Sale
  BY DEF NoSale, Sale, Money, Status
<1>2. NewRow(i, t) \in Row
  BY <1>1 DEF NewRow, Row, Money
<1> QED BY <1>2, NoneAssumption DEF NewRow

LEMMA SeedRowType ==
  ASSUME NEW a \in Seeded, NEW t \in Int
  PROVE  /\ SeedRow(a, t) \in Row /\ SeedRow(a, t) # None
         /\ SeedRow(a, t).item = SeedItem[a] /\ SeedRow(a, t).item \in Item
         /\ SeedRow(a, t).currentHighBid = None
         /\ SeedRow(a, t).sale.winner = None /\ SeedRow(a, t).sale.soldAmount = None
         /\ SeedRow(a, t).sale.status # "Finished"
<1> DEFINE i == SeedItem[a]
           s == [NoSale EXCEPT !.status = SeedStatus[a]]
<1>1. i \in Item /\ SeedStatus[a] \in {"Live", "ReserveNotMet"}
  BY SeededAssumption
<1>2. /\ s \in Sale /\ s.winner = None /\ s.soldAmount = None
      /\ s.status # "Finished"
  BY <1>1 DEF NoSale, Sale, Money, Status
<1>3. SeedRow(a, t) = [item |-> i, currentHighBid |-> None, sale |-> s, updatedAt |-> t]
  BY DEF SeedRow, NewRow
<1>4. SeedRow(a, t) \in Row
  <2> HIDE DEF s, i
  <2> QED BY <1>1, <1>2, <1>3 DEF Row, Money
<1>5. SeedRow(a, t) # None
  BY <1>4, NoneAssumption
<1> QED
  <2> HIDE DEF s, i
  <2>1. SeedRow(a, t).item = i /\ SeedRow(a, t).currentHighBid = None /\ SeedRow(a, t).sale = s
    BY <1>3
  <2> QED BY <1>1, <1>2, <1>4, <1>5, <2>1 DEF i

\* The seeded rows, and the places where auctions were seeded.
LEMMA SeededRowsType ==
  ASSUME NEW t \in Int
  PROVE  SeededRows(t) \in [AuctionId -> Row \union {None}]
BY SeedRowType DEF SeededRows

LEMMA SeedDataType ==
  ASSUME TypeOK, SeedData
  PROVE  /\ rows' \in [AuctionId -> Row \union {None}]
         /\ seedings' \in [AuctionId -> SUBSET Nat]
<1>1. Len(log) \in Nat /\ 2 * Len(log) + 1 \in Int
  BY DEF TypeOK
<1>2. rows' \in [AuctionId -> Row \union {None}]
  BY <1>1, SeededRowsType DEF SeedData
<1>3. \A a \in AuctionId : seedings[a] \union {Len(log)} \subseteq Nat
  BY <1>1 DEF TypeOK
<1> QED BY <1>2, <1>3 DEF SeedData

\* Applying a patch to an item gives an item, and so does writing the modified
\* columns of one over another.
LEMMA PatchedType ==
  ASSUME NEW item \in Item, NEW patch \in Patch
  PROVE  Patched(item, patch) \in Item
BY DEF Patched, Item, Patch

\* Some columns of one item written over another make an item.
LEMMA WrittenType ==
  ASSUME NEW x \in Item, NEW y \in Item, NEW F
  PROVE  [f \in Field |-> IF f \in F THEN x[f] ELSE y[f]] \in Item
BY DEF Item

\* A sale that a message concludes is a sale.
LEMMA ConcludedType ==
  ASSUME NEW m \in AuctionFinished, NEW s \in Sale
  PROVE  Concluded(m, s) \in Sale
<1>1. m.winner \in User \union {None} /\ m.amount \in Money
  BY MessageAssumption DEF Money
<1>2. s.winner \in User \union {None} /\ s.soldAmount \in Money
  BY DEF Sale
<1> QED BY <1>1, <1>2 DEF Concluded, Sale, Status

\* Sales are functions on their three columns.
LEMMA SaleIsFunction ==
  ASSUME NEW g, g = [f \in {"winner", "soldAmount", "status"} |-> g[f]],
         g["winner"] \in User \union {None}, g["soldAmount"] \in Money, g["status"] \in Status
  PROVE  g \in Sale
BY DEF Sale

\* Some columns of one sale written over another make a sale.
LEMMA SaleWrittenType ==
  ASSUME NEW x \in Sale, NEW y \in Sale, NEW F
  PROVE  [f \in DOMAIN x |-> IF f \in F THEN x[f] ELSE y[f]] \in Sale
<1>1. DOMAIN x = {"winner", "soldAmount", "status"}
  BY DEF Sale
<1> DEFINE g == [f \in {"winner", "soldAmount", "status"} |-> IF f \in F THEN x[f] ELSE y[f]]
<1>2. /\ g["winner"] \in User \union {None}
      /\ g["soldAmount"] \in Money
      /\ g["status"] \in Status
  BY DEF Sale
<1>3. g = [f \in {"winner", "soldAmount", "status"} |-> g[f]]
  OBVIOUS
<1>4. g \in Sale
  <2> HIDE DEF g
  <2> QED BY <1>2, <1>3, SaleIsFunction
<1> QED BY <1>1, <1>4

\* What appending an event does to a log.
LEMMA EmitFacts ==
  ASSUME log \in Seq(Event), NEW k \in {"AuctionCreated", "AuctionUpdated", "AuctionDeleted"},
         NEW a \in AuctionId, NEW item \in Item \union {None}, Emit(k, a, item)
  PROVE  /\ log' \in Seq(Event)
         /\ Len(log') = Len(log) + 1
         /\ \A i \in 1..Len(log) : log'[i] = log[i]
         /\ log'[Len(log) + 1].kind = k /\ log'[Len(log) + 1].auctionId = a
         /\ log'[Len(log) + 1].item = item
<1> DEFINE e == [kind |-> k, auctionId |-> a, item |-> item]
<1>1. e \in Event
  BY DEF Event
<1>2. log' = Append(log, e)
  BY DEF Emit
<1>3. e.kind = k /\ e.auctionId = a /\ e.item = item
  OBVIOUS
<1> HIDE DEF e
<1> QED BY <1>1, <1>2, <1>3

\* What replacing one column of a row makes of it.
LEMMA ColumnWritten ==
  ASSUME NEW row \in Row, NEW w \in Item, NEW n \in Money, NEW s \in Sale
  PROVE  /\ [row EXCEPT !.item = w] \in Row
         /\ [row EXCEPT !.currentHighBid = n] \in Row
         /\ [row EXCEPT !.sale = s] \in Row
         /\ [row EXCEPT !.item = w].currentHighBid = row.currentHighBid
         /\ [row EXCEPT !.item = w].sale = row.sale
         /\ [row EXCEPT !.item = w].item = w
         /\ [row EXCEPT !.currentHighBid = n].item = row.item
         /\ [row EXCEPT !.sale = s].item = row.item
         /\ [row EXCEPT !.currentHighBid = n].currentHighBid = n
         /\ [row EXCEPT !.currentHighBid = n].sale = row.sale
         /\ [row EXCEPT !.sale = s].currentHighBid = row.currentHighBid
         /\ [row EXCEPT !.sale = s].sale = s
BY DEF Row

\* The three saves that write to a row: each writes one column of it.
LEMMA UpdateWrites ==
  ASSUME TypeOK, NEW r \in Request, CommitUpdate(r)
  PROVE  \/ rows' = rows
         \/ \E a \in AuctionId, w \in Item :
              rows[a] \in Row /\ rows' = [rows EXCEPT ![a] = [rows[a] EXCEPT !.item = w]]
<1> DEFINE a == req[r].auctionId
           item == Patched(req[r].loaded, req[r].patch)
           modified == Modified(req[r].loaded, item)
           written == [f \in Field |-> IF f \in modified THEN item[f] ELSE rows[a].item[f]]
<1>1. a \in AuctionId /\ item \in Item
  BY PatchedType DEF CommitUpdate, TypeOK, Req
<1>2. CASE modified = {}
  BY <1>2 DEF CommitUpdate
<1>3. CASE modified # {}
  <2>1. rows[a] \in Row /\ rows[a].item \in Item
    BY <1>1, <1>3 DEF CommitUpdate, TypeOK, Row
  <2>2. written \in Item
    BY <1>1, <2>1, WrittenType
  <2>3. rows' = [rows EXCEPT ![a].item = written]
    BY <1>3 DEF CommitUpdate
  <2> HIDE DEF a, written
  <2>4. rows' = [rows EXCEPT ![a] = [rows[a] EXCEPT !.item = written]]
    BY <2>3
  <2> QED BY <1>1, <2>1, <2>2, <2>4
<1> QED BY <1>2, <1>3

\* The save of a high bid writes that column of its own row.
LEMMA HighBidWrites ==
  ASSUME TypeOK, NEW c \in Consumer, SaveHighBid(c)
  PROVE  LET a == job[c].msg.auctionId
             n == job[c].msg.amount
         IN /\ a \in AuctionId /\ n \in Int /\ rows[a] \in Row
            /\ rows' = [rows EXCEPT ![a] = [rows[a] EXCEPT !.currentHighBid = n]]
<1> DEFINE a == job[c].msg.auctionId
           n == job[c].msg.amount
<1>1. job[c] \in BidJob
  BY DEF SaveHighBid, TypeOK, BidJob, ResultJob
<1>2. a \in AuctionId /\ n \in Int
  BY <1>1, MessageAssumption DEF BidJob
<1>3. rows[a] \in Row
  BY <1>2 DEF SaveHighBid, TypeOK
<1>4. rows' = [rows EXCEPT ![a].currentHighBid = n]
  BY DEF SaveHighBid
<1>5. rows' = [rows EXCEPT ![a] = [rows[a] EXCEPT !.currentHighBid = n]]
  <2> HIDE DEF a, n
  <2> QED BY <1>4
<1> QED BY <1>2, <1>3, <1>5

\* The save of a result writes columns of the sale of its own row, or nothing.
LEMMA ResultWrites ==
  ASSUME TypeOK, NEW c \in Consumer, SaveResult(c)
  PROVE  LET a == job[c].msg.auctionId
             sale == Concluded(job[c].msg, job[c].loaded)
             modified == Modified(job[c].loaded, sale)
             written == [f \in DOMAIN sale |-> IF f \in modified THEN sale[f]
                                              ELSE rows[a].sale[f]]
         IN /\ a \in AuctionId /\ sale \in Sale /\ job[c].loaded \in Sale
            /\ \/ modified = {} /\ rows' = rows
               \/ /\ rows[a] \in Row /\ written \in Sale
                  /\ rows' = [rows EXCEPT ![a] = [rows[a] EXCEPT !.sale = written]]
<1> DEFINE a == job[c].msg.auctionId
           sale == Concluded(job[c].msg, job[c].loaded)
           modified == Modified(job[c].loaded, sale)
           written == [f \in DOMAIN sale |-> IF f \in modified THEN sale[f] ELSE rows[a].sale[f]]
<1>1. job[c] \in ResultJob
  BY DEF SaveResult, TypeOK, BidJob, ResultJob
<1>2. a \in AuctionId /\ job[c].loaded \in Sale
  BY <1>1, MessageAssumption DEF ResultJob
<1>3. sale \in Sale
  BY <1>1, ConcludedType DEF ResultJob
<1>4. CASE modified = {} /\ rows' = rows
  BY <1>2, <1>3, <1>4
<1>5. CASE ~ (modified = {} /\ rows' = rows)
  <2>1. rows[a] # None /\ rows' = [rows EXCEPT ![a].sale = written]
    BY <1>5 DEF SaveResult
  <2>2. rows[a] \in Row /\ rows[a].sale \in Sale
    BY <1>2, <2>1 DEF TypeOK, Row
  <2>3. written \in Sale
    <3> HIDE DEF sale, modified, a
    <3> QED BY <1>3, <2>2, SaleWrittenType
  <2>4. rows' = [rows EXCEPT ![a] = [rows[a] EXCEPT !.sale = written]]
    <3> HIDE DEF a, written
    <3> QED BY <2>1
  <2> QED BY <1>2, <1>3, <2>2, <2>3, <2>4
<1> QED BY <1>4, <1>5

\* Every step keeps the types.
LEMMA TypeStep == TypeOK /\ [Next]_vars => TypeOK'
<1> SUFFICES ASSUME TypeOK, [Next]_vars PROVE TypeOK'
  OBVIOUS
<1>1. ASSUME NEW a \in AuctionId, NEW i \in Item, CreateAuction(a, i) PROVE TypeOK'
  <2> DEFINE row == NewRow(i, 2 * (Len(log) + 1))
  <2>1. rows' = [rows EXCEPT ![a] = row] /\ row \in Row
    BY <1>1, NewRowType DEF CreateAuction, TypeOK
  <2>2. log' \in Seq(Event)
    BY <1>1, EmitFacts DEF CreateAuction, TypeOK
  <2> HIDE DEF row
  <2> QED BY <1>1, <2>1, <2>2 DEF CreateAuction, TypeOK
<1>2. ASSUME NEW r \in Request, NEW u \in User, NEW a \in AuctionId,
             NEW op \in {"update", "delete"}, NEW p \in Patch, Load(r, u, a, op, p)
      PROVE  TypeOK'
  <2> DEFINE q == [op |-> op, patch |-> p, auctionId |-> a, loaded |-> rows[a].item]
  <2>1. rows[a] \in Row
    BY <1>2 DEF Load, TypeOK
  <2>2. q \in Req
    BY <2>1 DEF Req, Row
  <2>3. req' = [req EXCEPT ![r] = q]
    BY <1>2 DEF Load
  <2> HIDE DEF q
  <2>4. req' \in [Request -> Req \union {None}]
    BY <2>2, <2>3 DEF TypeOK, Req
  <2> QED BY <1>2, <2>4 DEF Load, TypeOK, Req
<1>3. ASSUME NEW r \in Request, CommitUpdate(r) PROVE TypeOK'
  <2> DEFINE a == req[r].auctionId
             item == Patched(req[r].loaded, req[r].patch)
  <2>1. rows' \in [AuctionId -> Row \union {None}]
    <3>1. CASE rows' = rows
      BY <3>1 DEF TypeOK
    <3>2. ASSUME NEW b \in AuctionId, NEW w \in Item, rows[b] \in Row,
                 rows' = [rows EXCEPT ![b] = [rows[b] EXCEPT !.item = w]]
          PROVE  rows' \in [AuctionId -> Row \union {None}]
      <4>1. [rows[b] EXCEPT !.item = w] \in Row
        BY <3>2 DEF Row
      <4> QED BY <3>2, <4>1 DEF TypeOK
    <3> QED BY <1>3, <3>1, <3>2, UpdateWrites
  <2>2. a \in AuctionId /\ item \in Item
    BY <1>3, PatchedType DEF CommitUpdate, TypeOK, Req
  <2>3. Emit("AuctionUpdated", a, item)
    BY <1>3 DEF CommitUpdate
  <2>4. log' \in Seq(Event)
    <3> HIDE DEF a, item
    <3> QED BY <2>2, <2>3, EmitFacts DEF TypeOK
  <2> QED BY <1>3, <2>1, <2>4 DEF CommitUpdate, TypeOK
<1>4. ASSUME NEW r \in Request, CommitDelete(r) PROVE TypeOK'
  <2>1. req[r].auctionId \in AuctionId
    BY <1>4 DEF CommitDelete, TypeOK, Req
  <2>2. log' \in Seq(Event)
    BY <1>4, <2>1, EmitFacts DEF CommitDelete, TypeOK
  <2> QED BY <1>4, <2>1, <2>2 DEF CommitDelete, TypeOK
<1>5. ASSUME NEW r \in Request, FailRequest(r) PROVE TypeOK'
  BY <1>5 DEF FailRequest, TypeOK
<1>6. ASSUME NEW c \in Consumer, NEW m \in Messages, Deliver(c, m)
      PROVE  /\ deliveries' \in [Messages -> Nat]
             /\ rows' = rows /\ log' = log /\ seedings' = seedings /\ req' = req
  BY <1>6 DEF Deliver, TypeOK
<1>7. ASSUME NEW c \in Consumer, NEW m \in Messages, DeliverToNoRow(c, m) PROVE TypeOK'
  BY <1>6, <1>7 DEF DeliverToNoRow, TypeOK
<1>8. ASSUME NEW c \in Consumer, NEW m \in BidPlaced, LoadForBid(c, m) PROVE TypeOK'
  <2> DEFINE high == rows[m.auctionId].currentHighBid
             j == [kind |-> "bid", msg |-> m, loaded |-> high]
  <2>1. m.auctionId \in AuctionId
    BY MessageAssumption
  <2>2. high \in Money
    BY <1>8, <2>1 DEF LoadForBid, TypeOK, Row
  <2>3. j \in BidJob
    BY <2>2 DEF BidJob
  <2>4. job' = [job EXCEPT ![c] = j] \/ job' = job
    BY <1>8 DEF LoadForBid
  <2>5. job' \in [Consumer -> BidJob \union ResultJob \union {None}]
    <3> HIDE DEF j
    <3> QED BY <2>3, <2>4 DEF TypeOK, BidJob, ResultJob
  <2>6. m \in Messages /\ Deliver(c, m)
    BY <1>8 DEF LoadForBid, Messages
  <2> QED BY <1>6, <2>5, <2>6 DEF TypeOK, BidJob, ResultJob
<1>9. ASSUME NEW c \in Consumer, NEW m \in AuctionFinished, LoadForResult(c, m) PROVE TypeOK'
  <2> DEFINE j == [kind |-> "result", msg |-> m, loaded |-> rows[m.auctionId].sale]
  <2>1. m.auctionId \in AuctionId
    BY MessageAssumption
  <2>2. rows[m.auctionId].sale \in Sale
    BY <1>9, <2>1 DEF LoadForResult, TypeOK, Row
  <2>3. j \in ResultJob
    BY <2>2 DEF ResultJob
  <2>4. job' = [job EXCEPT ![c] = j]
    BY <1>9 DEF LoadForResult
  <2>5. job' \in [Consumer -> BidJob \union ResultJob \union {None}]
    <3> HIDE DEF j
    <3> QED BY <2>3, <2>4 DEF TypeOK, BidJob, ResultJob
  <2>6. m \in Messages /\ Deliver(c, m)
    BY <1>9 DEF LoadForResult, Messages
  <2> QED BY <1>6, <2>5, <2>6 DEF TypeOK, BidJob, ResultJob
<1>10. ASSUME NEW c \in Consumer, SaveHighBid(c) PROVE TypeOK'
  <2> DEFINE a == job[c].msg.auctionId
             row == [rows[a] EXCEPT !.currentHighBid = job[c].msg.amount]
  <2>1. a \in AuctionId /\ row \in Row /\ rows' = [rows EXCEPT ![a] = row]
    BY <1>10, HighBidWrites DEF Row, Money
  <2>2. rows' \in [AuctionId -> Row \union {None}]
    <3> HIDE DEF a, row
    <3> QED BY <2>1 DEF TypeOK
  <2> QED BY <1>10, <2>2 DEF SaveHighBid, TypeOK
<1>11. ASSUME NEW c \in Consumer, SaveResult(c) PROVE TypeOK'
  <2>1. \/ rows' = rows
        \/ \E a \in AuctionId, s \in Sale :
             rows[a] \in Row /\ rows' = [rows EXCEPT ![a] = [rows[a] EXCEPT !.sale = s]]
    BY <1>11, ResultWrites
  <2>2. ASSUME NEW a \in AuctionId, NEW s \in Sale, rows[a] \in Row,
               rows' = [rows EXCEPT ![a] = [rows[a] EXCEPT !.sale = s]]
        PROVE  rows' \in [AuctionId -> Row \union {None}]
    <3>1. [rows[a] EXCEPT !.sale = s] \in Row
      BY <2>2 DEF Row
    <3> QED BY <2>2, <3>1 DEF TypeOK
  <2>3. rows' \in [AuctionId -> Row \union {None}]
    BY <2>1, <2>2 DEF TypeOK
  <2> QED BY <1>11, <2>3 DEF SaveResult, TypeOK
<1>12. ASSUME NEW c \in Consumer, FailJob(c) PROVE TypeOK'
  BY <1>12 DEF FailJob, TypeOK
<1>13. NoPatch \in Patch
  BY DEF NoPatch, Patch
<1>14. CASE UNCHANGED vars
  BY <1>14 DEF vars, TypeOK
<1>15. ASSUME NEW r \in Request, RequestStep(r) PROVE TypeOK'
  BY <1>2, <1>3, <1>4, <1>5, <1>13, <1>15 DEF RequestStep, DeleteAuction, UpdateAuction
<1>16. ASSUME NEW c \in Consumer, ConsumerStep(c) PROVE TypeOK'
  BY <1>7, <1>8, <1>9, <1>10, <1>11, <1>12, <1>16 DEF ConsumerStep
<1>17. CASE Restart
  <2>1. /\ rows' \in [AuctionId -> Row \union {None}]
        /\ seedings' \in [AuctionId -> SUBSET Nat]
    BY <1>17, SeedDataType DEF Restart, TypeOK
  <2>2. /\ req' \in [Request -> Req \union {None}]
        /\ job' \in [Consumer -> BidJob \union ResultJob \union {None}]
    BY <1>17 DEF Restart
  <2> QED BY <1>17, <2>1, <2>2 DEF Restart, TypeOK
<1> QED BY <1>1, <1>14, <1>15, <1>16, <1>17 DEF Next

\* The variables start with their types.
LEMMA TypeInit == Init => TypeOK
<1> SUFFICES ASSUME Init PROVE TypeOK
  OBVIOUS
<1>1. rows \in [AuctionId -> Row \union {None}]
  BY SeededRowsType DEF Init, NoRows
<1>2. << >> \in Seq(Event)
  OBVIOUS
<1>3. seedings \in [AuctionId -> SUBSET Nat]
  BY DEF Init
<1> QED BY <1>1, <1>2, <1>3 DEF Init, TypeOK

\* Every variable of the auction service keeps its type: what handlers and
\* requests hold between load and save, and the rows that they write.
THEOREM AuctionTypeCorrect == Spec => []TypeOK
BY TypeInit, TypeStep, PTL DEF Spec
=============================================================================
