-------------------------- MODULE CarAuctionProofs --------------------------
(***************************************************************************)
(* Theorems about the auction service and the search service together, for *)
(* all values of the constants.  What was proved of the auction service    *)
(* alone is cited through the instance Proved of its theorems, under the   *)
(* same assumptions on its constants.                                      *)
(***************************************************************************)
EXTENDS CarAuctionInv, WellFoundedInduction, TLAPS

Proved == INSTANCE AuctionPromiseProofs

\* The assumptions of the auction service, in the form in which its theorems ask
\* for them.
LEMMA Assumed ==
  /\ Listing \in [AuctionId -> [seller : User, reservePrice : Int]]
  /\ Seeded \subseteq AuctionId
  /\ SeedItem \in [Seeded -> Proved!Item]
  /\ SeedStatus \in [Seeded -> {"Live", "ReserveNotMet"}]
  /\ BidPlaced \subseteq [auctionId : AuctionId, amount : Int, accepted : BOOLEAN]
  /\ AuctionFinished \subseteq
       [auctionId : AuctionId, winner : User \union {None}, amount : Proved!Money]
  /\ \A m \in AuctionFinished : m.winner = None <=> m.amount = None
  /\ None \notin Proved!Row \union Proved!Item \union Proved!Req \union Proved!BidJob
                   \union Proved!ResultJob \union Value \union Int \union User
  /\ Proved!IsFiniteSet(Request)
  /\ MaxEvents \in Nat /\ MaxDeliveries \in [BidPlaced \union AuctionFinished -> Nat]
BY AuctionAssumption
   DEF Auction!ListingAssumption, Auction!SeededAssumption, Auction!MessageAssumption, Auction!NoneAssumption,
       Auction!BoundAssumption, Auction!Money, Auction!Row, Auction!Item, Auction!Req,
       Auction!BidJob, Auction!ResultJob, Auction!Sale, Auction!Status, Auction!Patch,
       Auction!IsFiniteSet, Proved!IsFiniteSet,
       Proved!Money, Proved!Row, Proved!Item, Proved!Req, Proved!BidJob,
       Proved!ResultJob, Proved!Sale, Proved!Status, Proved!Patch

\* The auction service of the composition is the one of the theorems.
LEMMA SameNext == Auction!Next => Proved!Next
<1>1. \A a, i : Auction!CreateAuction(a, i) => Proved!CreateAuction(a, i)
  BY Zenon DEF Proved!CreateAuction, Auction!CreateAuction, Proved!Room, Auction!Room,
             Proved!InFlight, Auction!InFlight, Proved!Cardinality,
             Auction!Cardinality, Proved!WasCreated, Auction!WasCreated,
             Proved!NewRow, Auction!NewRow, Proved!NoSale, Auction!NoSale,
             Proved!Emit, Auction!Emit
<1>2. \A r, u, a, op, p : Auction!Load(r, u, a, op, p) => Proved!Load(r, u, a, op, p)
  BY Zenon DEF Proved!Load, Auction!Load, Proved!Room, Auction!Room, Proved!InFlight,
             Auction!InFlight, Proved!Cardinality, Auction!Cardinality
<1>3. \A r : Auction!CommitUpdate(r) => Proved!CommitUpdate(r)
  BY Zenon DEF Proved!CommitUpdate, Auction!CommitUpdate, Proved!Modified,
             Auction!Modified, Proved!Patched, Auction!Patched, Proved!Emit,
             Auction!Emit
<1>4. \A r : Auction!CommitDelete(r) => Proved!CommitDelete(r)
  BY Zenon DEF Proved!CommitDelete, Auction!CommitDelete, Proved!Emit, Auction!Emit
<1>5. \A r : Auction!FailRequest(r) => Proved!FailRequest(r)
  BY Zenon DEF Proved!FailRequest, Auction!FailRequest
<1>6. \A c, m : Auction!DeliverToNoRow(c, m) => Proved!DeliverToNoRow(c, m)
  BY Zenon DEF Proved!DeliverToNoRow, Auction!DeliverToNoRow, Proved!Deliver,
             Auction!Deliver, Proved!Known, Auction!Known, Proved!WasCreated,
             Auction!WasCreated
<1>7. \A c, m : Auction!LoadForBid(c, m) => Proved!LoadForBid(c, m)
  BY Zenon DEF Proved!LoadForBid, Auction!LoadForBid, Proved!Deliver, Auction!Deliver,
             Proved!Known, Auction!Known, Proved!WasCreated, Auction!WasCreated,
             Proved!Raises, Auction!Raises
<1>8. \A c, m : Auction!LoadForResult(c, m) => Proved!LoadForResult(c, m)
  BY Zenon DEF Proved!LoadForResult, Auction!LoadForResult, Proved!Deliver,
             Auction!Deliver, Proved!Known, Auction!Known, Proved!WasCreated,
             Auction!WasCreated
<1>9. \A c : Auction!SaveHighBid(c) => Proved!SaveHighBid(c)
  BY Zenon DEF Proved!SaveHighBid, Auction!SaveHighBid
<1>10. \A c : Auction!SaveResult(c) => Proved!SaveResult(c)
  BY Zenon DEF Proved!SaveResult, Auction!SaveResult, Proved!Concluded,
             Auction!Concluded, Proved!Modified, Auction!Modified
<1>11. \A c : Auction!FailJob(c) => Proved!FailJob(c)
  BY Zenon DEF Proved!FailJob, Auction!FailJob
<1>12. Auction!Restart => Proved!Restart
  BY Zenon DEF Proved!Restart, Auction!Restart, Proved!SeedData, Auction!SeedData,
             Proved!NoRows, Auction!NoRows, Proved!SeededRows, Auction!SeededRows,
             Proved!SeedRow, Auction!SeedRow, Proved!NewRow, Auction!NewRow,
             Proved!NoSale, Auction!NoSale
<1> QED
  BY <1>1, <1>2, <1>3, <1>4, <1>5, <1>6, <1>7, <1>8, <1>9, <1>10, <1>11, <1>12
     DEF Proved!Next, Auction!Next, Proved!RequestStep, Auction!RequestStep,
             Proved!ConsumerStep, Auction!ConsumerStep, Proved!UpdateAuction,
             Auction!UpdateAuction, Proved!DeleteAuction, Auction!DeleteAuction,
             Proved!NoPatch, Auction!NoPatch, Proved!Item, Auction!Item,
             Proved!Patch, Auction!Patch, Proved!Messages, Auction!Messages

\* The auction service of the composition starts as that of the theorems.
LEMMA SameInit == Auction!Init => Proved!Init
BY Zenon DEF Proved!Init, Auction!Init, Proved!NoRows, Auction!NoRows,
             Proved!SeededRows, Auction!SeededRows, Proved!SeedRow, Auction!SeedRow,
             Proved!NewRow, Auction!NewRow, Proved!NoSale, Auction!NoSale,
             Proved!Messages, Auction!Messages

\* What holds of the auction service alone holds of it here: it is not aware of
\* the search service.
THEOREM CarIsAuction == CarSpec => Proved!Spec
<1>1. CarInit => Proved!Init
  BY SameInit DEF CarInit
<1>2. [CarNext]_carVars => [Proved!Next]_Proved!vars
  BY SameNext DEF CarNext, AuctionStep, SearchStep, carVars, auctionVars, Proved!vars
<1> QED BY <1>1, <1>2, PTL DEF CarSpec, Proved!Spec
-----------------------------------------------------------------------------
(* Events, documents and messages *)

\* The types of the auction service, as the search service reads it.
LEMMA AuctionTypes ==
  ASSUME Proved!TypeOK
  PROVE  /\ Len(log) \in Nat
         /\ \A i \in 1..Len(log) :
              /\ log[i].kind \in {"AuctionCreated", "AuctionUpdated", "AuctionDeleted"}
              /\ log[i].auctionId \in AuctionId /\ log[i].item \in Item \union {None}
         /\ \A a \in AuctionId : rows[a] # None =>
              /\ rows[a].item \in Item /\ rows[a].currentHighBid \in Int \union {None}
              /\ rows[a].sale.winner \in User \union {None}
              /\ rows[a].sale.soldAmount \in Int \union {None}
              /\ rows[a].sale.status \in {"Live", "Finished", "ReserveNotMet"}
              /\ rows[a].updatedAt \in Int
<1>1. log \in Seq(Proved!Event) /\ rows \in [AuctionId -> Proved!Row \union {None}]
  BY DEF Proved!TypeOK
<1>2. Len(log) \in Nat /\ \A i \in 1..Len(log) : log[i] \in Proved!Event
  BY <1>1
<1>3. \A i \in 1..Len(log) :
        /\ log[i].kind \in {"AuctionCreated", "AuctionUpdated", "AuctionDeleted"}
        /\ log[i].auctionId \in AuctionId /\ log[i].item \in Item \union {None}
  BY <1>2 DEF Proved!Event, Proved!Item, Item
<1>4. \A a \in AuctionId : rows[a] # None => rows[a] \in Proved!Row
  BY <1>1
<1>5. ASSUME NEW a \in AuctionId, rows[a] # None
      PROVE  /\ rows[a].item \in Item /\ rows[a].currentHighBid \in Int \union {None}
             /\ rows[a].sale \in Proved!Sale /\ rows[a].updatedAt \in Int
  BY <1>4, <1>5 DEF Proved!Row, Proved!Item, Proved!Money, Item
<1>6. \A x \in Proved!Sale : /\ x.winner \in User \union {None}
                             /\ x.soldAmount \in Int \union {None}
                             /\ x.status \in {"Live", "Finished", "ReserveNotMet"}
  BY DEF Proved!Sale, Proved!Money, Proved!Status
<1> QED BY <1>2, <1>3, <1>5, <1>6

\* Events are appended, and what was known stays known.
LEMMA EventAppended ==
  ASSUME Proved!TypeOK, NEW k \in {"AuctionCreated", "AuctionUpdated", "AuctionDeleted"},
         NEW b \in AuctionId, NEW item \in Item \union {None}, Proved!Committed(k, b, item)
  PROVE  /\ Len(log') = Len(log) + 1
         /\ \A i \in 1..Len(log) : log'[i] = log[i]
         /\ log'[Len(log) + 1].kind = k /\ log'[Len(log) + 1].auctionId = b
         /\ log'[Len(log) + 1].item = item
<1>1. log \in Seq(Proved!Event) /\ Proved!Emit(k, b, item) /\ item \in Proved!Item \union {None}
  BY DEF Proved!TypeOK, Proved!Committed, Item, Proved!Item
<1> QED BY <1>1, Assumed, Proved!EmitFacts

\* A step of the auction service is quiet, seeds, or commits one event.
LEMMA AuctionView ==
  ASSUME Proved!IInv, AuctionStep
  PROVE  \/ Proved!Quiet
         \/ Proved!Reseeded
         \/ \E k \in {"AuctionCreated", "AuctionUpdated", "AuctionDeleted"}, b \in AuctionId,
               item \in Item \union {None} : Proved!Committed(k, b, item)
<1>1. [Proved!Next]_Proved!vars /\ Proved!TypeOK /\ Proved!LifeInv
  BY SameNext DEF AuctionStep, Proved!IInv
<1>2. \/ Proved!Quiet
      \/ Proved!Reseeded
      \/ \E k \in {"AuctionCreated", "AuctionUpdated", "AuctionDeleted"}, b \in AuctionId,
            item \in Proved!Item \union {None} : Proved!Committed(k, b, item)
  BY <1>1, Assumed, Proved!QuietOrCommitted
<1> QED BY <1>2 DEF Item, Proved!Item

\* The documents that are made of events and of rows.
LEMMA DocTypes ==
  /\ \A i \in Int, item \in Item : NewDoc(i, item) \in Doc /\ AsVolvo(item) \in Item
  /\ \A doc \in Doc : doc # None
<1>1. \A i \in Int, item \in Item : NewDoc(i, item) \in Doc /\ AsVolvo(item) \in Item
  BY MakeAssumption DEF NewDoc, AsVolvo, Doc, Item
<1>2. \A doc \in Doc : doc # None
  BY NoneAssumption
<1> QED BY <1>1, <1>2

\* A row makes a document.
LEMMA RowDoc ==
  ASSUME Proved!TypeOK, NEW a \in AuctionId, rows[a] # None
  PROVE  DocOf(rows[a]) \in Doc
<1>1. \A n \in Int \union {None} : OrZero(n) \in Int
  BY DEF OrZero
<1>2. /\ rows[a].item \in Item /\ OrZero(rows[a].currentHighBid) \in Int
      /\ rows[a].sale.winner \in User \union {None} /\ OrZero(rows[a].sale.soldAmount) \in Int
      /\ rows[a].sale.status \in {"Live", "Finished", "ReserveNotMet"}
      /\ rows[a].updatedAt \in Int
  BY <1>1, AuctionTypes
<1> QED BY <1>2 DEF DocOf, Doc

\* The event that is taken, and what becomes of the count of its deliveries.
LEMMA TakeFacts ==
  ASSUME SearchTypeOK, Proved!TypeOK, NEW i \in 1..MaxEvents, NEW kind, Take(i, kind)
  PROVE  /\ i \in 1..Len(log) /\ log[i].kind = kind /\ log[i].auctionId \in AuctionId
         /\ taken' \in [1..MaxEvents -> Nat]
         /\ taken'[i] = taken[i] + 1 /\ taken'[i] > 0 /\ taken'[i] # taken[i]
         /\ \A j \in 1..MaxEvents : j # i => taken'[j] = taken[j]
<1>1. taken \in [1..MaxEvents -> Nat] /\ taken' = [taken EXCEPT ![i] = @ + 1]
  BY DEF SearchTypeOK, Take
<1>2. i \in 1..Len(log) /\ log[i].kind = kind
  BY DEF Take
<1> QED BY <1>1, <1>2, AuctionTypes
-----------------------------------------------------------------------------
(* What the steps of the search service write *)

\* Where a document x that is written under id b comes from.
FromEvent(i, x) ==
  \/ ConsumeAuctionCreated(i) /\ x = NewDoc(i, log[i].item)
  \/ ConsumeReissued(i) /\ x = NewDoc(i, AsVolvo(log[i].item))
  \/ /\ ConsumeAuctionUpdated(i) /\ items[log[i].auctionId] # None
     /\ x = [items[log[i].auctionId] EXCEPT !.item = log[i].item]
  \/ ConsumeAuctionDeleted(i) /\ x = None

Source(b, x) ==
  \/ \E i \in 1..MaxEvents : i \in 1..Len(log) /\ log[i].auctionId = b /\ FromEvent(i, x)
  \/ \E h \in Handler : SaveDocument(h) /\ work[h].auctionId = b /\ x = work[h].doc
  \/ SaveItem(b) /\ x = sync.docs[b]

\* A handler's document, and one that the synchronisation carries.
LEMMA HeldTypes ==
  ASSUME SearchTypeOK
  PROVE  /\ \A h \in Handler : work[h] # None =>
              work[h].auctionId \in AuctionId /\ work[h].loaded \in Doc /\ work[h].doc \in Doc
         /\ \A a \in AuctionId : items[a] \in Doc \union {None} /\ sync.docs[a] \in Doc \union {None}
         /\ DOMAIN items = AuctionId /\ DOMAIN work = Handler
         /\ DOMAIN sync = {"at", "cut", "docs"} /\ DOMAIN sync.docs = AuctionId
BY DEF SearchTypeOK

\* The handlers of events write one document, if any.
LEMMA EventWrites ==
  ASSUME SearchTypeOK, EventInv, WaitingInv, Proved!TypeOK, NEW i \in 1..MaxEvents, EventStep(i)
  PROVE  \/ items' = items
         \/ \E b \in AuctionId, x \in Doc \union {None} :
              /\ i \in 1..Len(log) /\ log[i].auctionId = b /\ FromEvent(i, x)
              /\ items' = [items EXCEPT ![b] = x]
<1> DEFINE b == log[i].auctionId
<1>1. ASSUME NEW kind, Take(i, kind)
      PROVE  /\ i \in 1..Len(log) /\ b \in AuctionId
             /\ kind # "AuctionDeleted" => log[i].item \in Item
  <2>1. i \in 1..Len(log) /\ log[i].kind = kind /\ b \in AuctionId
    BY <1>1, TakeFacts
  <2> QED BY <2>1, AuctionTypes DEF EventInv
<1>2. CASE ConsumeAuctionCreated(i)
  <2>1. i \in 1..Len(log) /\ b \in AuctionId /\ NewDoc(i, log[i].item) \in Doc
    BY <1>1, <1>2, DocTypes DEF ConsumeAuctionCreated
  <2> QED BY <1>2, <2>1 DEF ConsumeAuctionCreated, FromEvent
<1>3. CASE ConsumeReissued(i)
  <2>1. i \in 1..Len(log) /\ log[i].kind = "AuctionCreated"
    BY <1>3 DEF ConsumeReissued, SearchTypeOK, WaitingInv, Waiting
  <2>2. b \in AuctionId /\ log[i].item \in Item
    BY <2>1, AuctionTypes DEF EventInv
  <2>3. NewDoc(i, AsVolvo(log[i].item)) \in Doc
    BY <2>2, DocTypes
  <2> QED BY <1>3, <2>1, <2>2, <2>3 DEF ConsumeReissued, FromEvent
<1>4. CASE ConsumeAuctionUpdated(i)
  <2> DEFINE x == [items[b] EXCEPT !.item = log[i].item]
  <2>1. i \in 1..Len(log) /\ b \in AuctionId /\ log[i].item \in Item
    BY <1>1, <1>4 DEF ConsumeAuctionUpdated
  <2>2. CASE items[b] # None
    <3>1. x \in Doc
      BY <2>1, <2>2, HeldTypes DEF Doc
    <3>2. items' = [items EXCEPT ![b] = x]
      BY <1>4, <2>2 DEF ConsumeAuctionUpdated
    <3>3. FromEvent(i, x)
      BY <1>4, <2>2 DEF FromEvent
    <3> HIDE DEF x
    <3> QED BY <2>1, <3>1, <3>2, <3>3
  <2>3. CASE items[b] = None
    BY <1>4, <2>3 DEF ConsumeAuctionUpdated
  <2> QED BY <2>2, <2>3
<1>5. CASE ConsumeAuctionDeleted(i)
  <2>1. i \in 1..Len(log) /\ b \in AuctionId
    BY <1>1, <1>5 DEF ConsumeAuctionDeleted
  <2> QED BY <1>5, <2>1 DEF ConsumeAuctionDeleted, FromEvent
<1>6. CASE RefuseSaab(i) \/ Republish(i) \/ LoseEvent(i)
  BY <1>6 DEF RefuseSaab, Republish, LoseEvent
<1> QED BY <1>2, <1>3, <1>4, <1>5, <1>6 DEF EventStep

\* Every step of the search service writes one document, if any.
LEMMA ItemWrites ==
  ASSUME SearchTypeOK, EventInv, WaitingInv, Proved!TypeOK, Next
  PROVE  \/ items' = items
         \/ \E b \in AuctionId, x \in Doc \union {None} :
              Source(b, x) /\ items' = [items EXCEPT ![b] = x]
<1>1. ASSUME NEW i \in 1..MaxEvents, EventStep(i)
      PROVE  \/ items' = items
             \/ \E b \in AuctionId, x \in Doc \union {None} :
                  Source(b, x) /\ items' = [items EXCEPT ![b] = x]
  BY <1>1, EventWrites DEF Source
<1>2. ASSUME NEW h \in Handler, SaveDocument(h)
      PROVE  \E b \in AuctionId, x \in Doc \union {None} :
               Source(b, x) /\ items' = [items EXCEPT ![b] = x]
  BY <1>2, HeldTypes DEF SaveDocument, Source
<1>3. ASSUME NEW a \in AuctionId, SaveItem(a)
      PROVE  \E b \in AuctionId, x \in Doc \union {None} :
               Source(b, x) /\ items' = [items EXCEPT ![b] = x]
  BY <1>3, HeldTypes DEF SaveItem, Source
<1> QED
  BY <1>1, <1>2, <1>3
     DEF Next, HandlerStep, ConsumeBidPlaced, ConsumeAuctionFinished, Ignore, Hold, Receive,
         FailSave, SyncStep, FindLastUpdated, GetItems, FailSync, Restart

\* A document that a message makes of the one that is stored.
Amended(m, doc, new) ==
  \/ m \in BidPlaced /\ Raises(m, doc) /\ new = [doc EXCEPT !.currentHighBid = m.amount]
  \/ /\ m \in AuctionFinished
     /\ new = [IF m.winner # None THEN Sold(m, doc) ELSE doc EXCEPT !.status = "Finished"]

\* What a message makes of a document.
LEMMA AmendedFacts ==
  ASSUME NEW m, NEW doc \in Doc, NEW new, Amended(m, doc, new)
  PROVE  /\ m \in Messages /\ m.auctionId \in AuctionId /\ new \in Doc /\ Extends(new, doc)
         /\ \/ new.currentHighBid = doc.currentHighBid
            \/ m \in BidPlaced /\ new.currentHighBid = m.amount
         /\ \/ new.winner = doc.winner /\ new.soldAmount = doc.soldAmount
            \/ /\ m \in AuctionFinished /\ m.winner # None
               /\ new.winner = m.winner /\ new.soldAmount = m.amount
<1>1. CASE m \in BidPlaced /\ Raises(m, doc) /\ new = [doc EXCEPT !.currentHighBid = m.amount]
  <2>1. m.auctionId \in AuctionId /\ m.amount \in Int /\ m.amount > doc.currentHighBid
    BY <1>1, MessageAssumption DEF Raises
  <2>2. doc.currentHighBid \in Int
    BY DEF Doc
  <2>3. /\ new \in Doc /\ new.item = doc.item /\ new.currentHighBid = m.amount
        /\ new.winner = doc.winner /\ new.soldAmount = doc.soldAmount /\ new.status = doc.status
    BY <1>1, <2>1 DEF Doc
  <2>4. Extends(new, doc)
    BY <2>1, <2>2, <2>3 DEF Extends
  <2> QED BY <1>1, <2>1, <2>3, <2>4 DEF Messages
<1>2. CASE /\ m \in AuctionFinished
           /\ new = [IF m.winner # None THEN Sold(m, doc) ELSE doc EXCEPT !.status = "Finished"]
  <2>1. /\ m.auctionId \in AuctionId /\ m.winner \in User \union {None}
        /\ m.amount \in Int \union {None} /\ (m.winner = None <=> m.amount = None)
    BY <1>2, MessageAssumption
  <2>2. CASE m.winner = None
    <3>1. /\ new \in Doc /\ new.item = doc.item /\ new.currentHighBid = doc.currentHighBid
          /\ new.winner = doc.winner /\ new.soldAmount = doc.soldAmount
          /\ new.status = "Finished"
      BY <1>2, <2>2 DEF Doc
    <3>2. doc.currentHighBid \in Int
      BY DEF Doc
    <3> QED BY <1>2, <2>1, <3>1, <3>2 DEF Messages, Extends
  <2>3. CASE m.winner # None
    <3> DEFINE w == m.winner
               n == m.amount
    <3>0. w \in User \union {None} /\ n \in Int
      BY <2>1, <2>3
    <3>1. Sold(m, doc) \in Doc
      <4>1. Sold(m, doc) = [doc EXCEPT !.winner = w, !.soldAmount = n]
        BY DEF Sold
      <4> HIDE DEF w, n
      <4> QED BY <3>0, <4>1 DEF Doc
    <3>2. /\ Sold(m, doc).item = doc.item /\ Sold(m, doc).currentHighBid = doc.currentHighBid
          /\ Sold(m, doc).winner = m.winner /\ Sold(m, doc).soldAmount = m.amount
      BY DEF Sold, Doc
    <3>3. new = [Sold(m, doc) EXCEPT !.status = "Finished"]
      BY <1>2, <2>3
    <3>4. /\ new \in Doc /\ new.item = doc.item /\ new.currentHighBid = doc.currentHighBid
          /\ new.winner = m.winner /\ new.soldAmount = m.amount /\ new.status = "Finished"
      BY <3>1, <3>2, <3>3 DEF Doc
    <3>5. doc.currentHighBid \in Int
      BY DEF Doc
    <3> QED BY <1>2, <2>1, <2>3, <3>4, <3>5 DEF Messages, Extends
  <2> QED BY <2>2, <2>3
<1> QED BY <1>1, <1>2 DEF Amended

\* A handler that is at work after a step of the search service was so before, or
\* has just loaded the document.
LEMMA WorkWrites ==
  ASSUME SearchTypeOK, Next, NEW h \in Handler, work'[h] # None
  PROVE  \/ work'[h] = work[h]
         \/ /\ items' = items
            /\ \E m \in Messages, new \in Doc :
                 /\ items[m.auctionId] \in Doc /\ Amended(m, items[m.auctionId], new)
                 /\ Known(m.auctionId)
                 /\ work'[h] = [auctionId |-> m.auctionId, loaded |-> items[m.auctionId], doc |-> new]
<1> DEFINE Goal ==
      \/ work'[h] = work[h]
      \/ /\ items' = items
         /\ \E m \in Messages, new \in Doc :
              /\ items[m.auctionId] \in Doc /\ Amended(m, items[m.auctionId], new)
              /\ Known(m.auctionId)
              /\ work'[h] = [auctionId |-> m.auctionId, loaded |-> items[m.auctionId], doc |-> new]
<1>1. DOMAIN work = Handler
  BY DEF SearchTypeOK
<1>2. ASSUME NEW g \in Handler, NEW m \in Messages, NEW new, Hold(g, m, new),
             items[m.auctionId] # None, Amended(m, items[m.auctionId], new)
      PROVE  Goal
  <2> DEFINE x == [auctionId |-> m.auctionId, loaded |-> items[m.auctionId], doc |-> new]
  <2>1. items[m.auctionId] \in Doc
    BY <1>2, MessageAssumption DEF Messages, SearchTypeOK
  <2>2. new \in Doc
    BY <1>2, <2>1, AmendedFacts
  <2>3. /\ work' = [work EXCEPT ![g] = x] /\ items' = items
        /\ Known(m.auctionId)
    BY <1>2 DEF Hold, Receive
  <2>4. work'[h] = work[h] \/ work'[h] = x
    <3> HIDE DEF x
    <3> QED BY <1>1, <2>3
  <2> QED BY <1>2, <2>1, <2>2, <2>3, <2>4
<1>3. ASSUME NEW g \in Handler, NEW m \in BidPlaced, ConsumeBidPlaced(g, m) PROVE Goal
  <2>1. m \in Messages
    BY DEF Messages
  <2>2. CASE Ignore(m)
    BY <2>2 DEF Ignore
  <2>3. ASSUME items[m.auctionId] # None, Raises(m, items[m.auctionId]),
               Hold(g, m, [items[m.auctionId] EXCEPT !.currentHighBid = m.amount])
        PROVE  Goal
    <3>1. Amended(m, items[m.auctionId], [items[m.auctionId] EXCEPT !.currentHighBid = m.amount])
      BY <2>3 DEF Amended
    <3> HIDE DEF Goal
    <3> QED BY <1>2, <2>1, <2>3, <3>1
  <2> HIDE DEF Goal
  <2> QED BY <1>3, <2>2, <2>3 DEF ConsumeBidPlaced
<1>4. ASSUME NEW g \in Handler, NEW m \in AuctionFinished, ConsumeAuctionFinished(g, m) PROVE Goal
  <2> DEFINE doc == items[m.auctionId]
             new == [IF m.winner # None THEN Sold(m, doc) ELSE doc EXCEPT !.status = "Finished"]
  <2>1. m \in Messages
    BY DEF Messages
  <2>2. CASE Ignore(m)
    BY <2>2 DEF Ignore
  <2>3. ASSUME doc # None, Hold(g, m, new) PROVE Goal
    <3>1. Amended(m, doc, new)
      BY DEF Amended
    <3> HIDE DEF Goal, new
    <3> QED BY <1>2, <2>1, <2>3, <3>1
  <2> HIDE DEF Goal
  <2> QED BY <1>4, <2>2, <2>3 DEF ConsumeAuctionFinished
<1>5. ASSUME NEW g \in Handler, SaveDocument(g) \/ FailSave(g) PROVE Goal
  <2>1. work' = [work EXCEPT ![g] = None]
    BY <1>5 DEF SaveDocument, FailSave
  <2> QED BY <1>1, <2>1
<1>6. ASSUME Restart PROVE Goal
  BY <1>6 DEF Restart
<1>7. ASSUME work' = work PROVE Goal
  BY <1>7
<1> HIDE DEF Goal
<1>8. Goal
  BY <1>3, <1>4, <1>5, <1>6, <1>7
     DEF Next, EventStep, HandlerStep, ConsumeAuctionCreated, RefuseSaab, Republish,
         ConsumeReissued, ConsumeAuctionUpdated, ConsumeAuctionDeleted, LoseEvent,
         SyncStep, FindLastUpdated, GetItems, SaveItem, FailSync
<1> QED BY <1>8 DEF Goal

\* A document that the synchronisation carries after a step was carried before,
\* or is that of a row.
LEMMA SyncWrites ==
  ASSUME SearchTypeOK, Next, NEW a \in AuctionId, sync'.docs[a] # None
  PROVE  \/ sync'.docs[a] = sync.docs[a]
         \/ rows[a] # None /\ sync'.docs[a] = DocOf(rows[a])
<1>1. NoDocs[a] = None /\ Start.docs[a] = None /\ Done.docs[a] = None
  BY DEF NoDocs, Start, Done
<1>2. sync.docs \in [AuctionId -> Doc \union {None}] /\ DOMAIN sync = {"at", "cut", "docs"}
  BY HeldTypes DEF SearchTypeOK
<1>3. ASSUME GetItems PROVE rows[a] # None /\ sync'.docs[a] = DocOf(rows[a])
  <2> DEFINE docs == [b \in AuctionId |-> IF b \in UpdatedSince(sync.cut)
                                          THEN DocOf(rows[b]) ELSE None]
  <2>1. sync' = IF docs = NoDocs THEN Done ELSE [sync EXCEPT !.at = "saving", !.docs = docs]
    BY <1>3 DEF GetItems
  <2>2. sync'.docs = docs
    <3> HIDE DEF docs
    <3> QED BY <1>1, <1>2, <2>1
  <2> QED BY <2>2 DEF UpdatedSince
<1>4. ASSUME NEW b \in AuctionId, SaveItem(b) PROVE sync'.docs[a] = sync.docs[a]
  <2> DEFINE docs == [sync.docs EXCEPT ![b] = None]
  <2>1. sync' = IF docs = NoDocs THEN Done ELSE [sync EXCEPT !.docs = docs]
    BY <1>4 DEF SaveItem
  <2>2. sync'.docs = docs
    <3> HIDE DEF docs
    <3> QED BY <1>1, <1>2, <2>1
  <2>3. docs[a] = sync.docs[a] \/ docs[a] = None
    BY <1>2
  <2> HIDE DEF docs
  <2> QED BY <2>2, <2>3
<1>5. CASE FindLastUpdated
  <2>1. sync'.docs = sync.docs
    BY <1>2, <1>5 DEF FindLastUpdated
  <2> QED BY <2>1
<1>6. ASSUME sync' = Start \/ sync' = Done PROVE FALSE
  BY <1>1, <1>6
<1>7. CASE sync' = sync
  BY <1>7
<1> QED
  BY <1>3, <1>4, <1>5, <1>6, <1>7
     DEF Next, EventStep, HandlerStep, ConsumeAuctionCreated, RefuseSaab, Republish,
         ConsumeReissued, ConsumeAuctionUpdated, ConsumeAuctionDeleted, LoseEvent,
         ConsumeBidPlaced, ConsumeAuctionFinished, Ignore, Hold, Receive, SaveDocument, FailSave,
         SyncStep, FailSync, Restart
-----------------------------------------------------------------------------
(* The search service's own invariant *)

\* Rows are of auctions that are known.
LEMMA RowIsKnown ==
  ASSUME Proved!LifeInv, NEW a \in AuctionId, rows[a] # None
  PROVE  Known(a)
<1>1. Proved!Begins(a) # {}
  BY DEF Proved!LifeInv, Proved!RowIffAnnounced
<1> QED BY <1>1 DEF Proved!Begins, Known, WasCreated

\* The synchronisation keeps its type.
LEMMA SyncType ==
  ASSUME SearchTypeOK, ShownInv, Proved!TypeOK, Next
  PROVE  sync' \in [at : {"start", "asked", "saving", "done"}, cut : Int,
                    docs : [AuctionId -> Doc \union {None}]]
<1> DEFINE Sync == [at : {"start", "asked", "saving", "done"}, cut : Int,
                    docs : [AuctionId -> Doc \union {None}]]
<1>1. NoDocs \in [AuctionId -> Doc \union {None}]
  BY DEF NoDocs
<1>2. Start \in Sync /\ Done \in Sync
  BY <1>1 DEF Start, Done
<1>3. sync \in Sync
  BY DEF SearchTypeOK
<1>4. ASSUME NEW at \in {"start", "asked", "saving", "done"}, NEW cut \in Int
      PROVE  [sync EXCEPT !.at = at, !.cut = cut] \in Sync
  BY <1>3
<1>5. ASSUME NEW at \in {"start", "asked", "saving", "done"},
             NEW docs \in [AuctionId -> Doc \union {None}]
      PROVE  [sync EXCEPT !.at = at, !.docs = docs] \in Sync
  BY <1>3
<1>6. ASSUME NEW docs \in [AuctionId -> Doc \union {None}]
      PROVE  [sync EXCEPT !.docs = docs] \in Sync
  BY <1>3
<1> HIDE DEF Sync
<1>7. ASSUME FindLastUpdated PROVE sync' \in Sync
  <2>1. ASSUME sync' = [sync EXCEPT !.at = "asked", !.cut = -1] PROVE sync' \in Sync
    <3>1. -1 \in Int
      OBVIOUS
    <3> QED BY <1>4, <2>1, <3>1
  <2>2. ASSUME NEW a \in Stored, NEW fraction \in {0, 1},
               sync' = [sync EXCEPT !.at = "asked", !.cut = items[a].updatedAt - fraction]
        PROVE  sync' \in Sync
    <3>1. items[a].updatedAt \in Int
      BY DEF Stored, SearchTypeOK, Doc
    <3>2. items[a].updatedAt - fraction \in Int
      BY <3>1
    <3> QED BY <1>4, <2>2, <3>2
  <2> QED BY <1>7, <2>1, <2>2 DEF FindLastUpdated
<1>8. ASSUME GetItems PROVE sync' \in Sync
  <2> DEFINE docs == [b \in AuctionId |-> IF b \in UpdatedSince(sync.cut)
                                          THEN DocOf(rows[b]) ELSE None]
  <2>1. docs \in [AuctionId -> Doc \union {None}]
    BY RowDoc DEF UpdatedSince
  <2>2. sync' = Done \/ sync' = [sync EXCEPT !.at = "saving", !.docs = docs]
    BY <1>8 DEF GetItems
  <2> HIDE DEF docs
  <2> QED BY <1>2, <1>5, <2>1, <2>2
<1>9. ASSUME NEW a \in AuctionId, SaveItem(a) PROVE sync' \in Sync
  <2> DEFINE docs == [sync.docs EXCEPT ![a] = None]
  <2>1. docs \in [AuctionId -> Doc \union {None}]
    BY HeldTypes DEF SearchTypeOK
  <2>2. sync' = Done \/ sync' = [sync EXCEPT !.docs = docs]
    BY <1>9 DEF SaveItem
  <2> HIDE DEF docs
  <2> QED BY <1>2, <1>6, <2>1, <2>2
<1>10. ASSUME sync' = sync \/ sync' = Start \/ sync' = Done PROVE sync' \in Sync
  BY <1>2, <1>3, <1>10
<1>11. sync' \in Sync
  BY <1>7, <1>8, <1>9, <1>10
     DEF Next, EventStep, HandlerStep, ConsumeAuctionCreated, RefuseSaab, Republish,
         ConsumeReissued, ConsumeAuctionUpdated, ConsumeAuctionDeleted, LoseEvent,
         ConsumeBidPlaced, ConsumeAuctionFinished, Ignore, Hold, Receive, SaveDocument, FailSave,
         SyncStep, FailSync, Restart
<1> QED BY <1>11 DEF Sync

\* The variables other than the documents keep their types.
LEMMA CountsType ==
  ASSUME SearchTypeOK, EventInv, Proved!TypeOK, Next, log' = log
  PROVE  /\ {faults', reissued', lost'} \subseteq SUBSET (1..Len(log))
         /\ taken' \in [1..MaxEvents -> Nat] /\ received' \in [Messages -> Nat]
         /\ restarts' \in Nat
         /\ \A i \in 1..MaxEvents : i > Len(log) => taken'[i] = 0
<1>1. /\ {faults, reissued, lost} \subseteq SUBSET (1..Len(log))
      /\ taken \in [1..MaxEvents -> Nat] /\ received \in [Messages -> Nat]
      /\ restarts \in Nat
      /\ \A i \in 1..MaxEvents : i > Len(log) => taken[i] = 0
  BY DEF SearchTypeOK, EventInv
<1> DEFINE Goal == /\ {faults', reissued', lost'} \subseteq SUBSET (1..Len(log))
                   /\ taken' \in [1..MaxEvents -> Nat] /\ received' \in [Messages -> Nat]
                   /\ restarts' \in Nat
                   /\ \A i \in 1..MaxEvents : i > Len(log) => taken'[i] = 0
<1>2. ASSUME NEW i \in 1..MaxEvents, EventStep(i) PROVE Goal
  <2>1. ASSUME NEW kind, Take(i, kind)
        PROVE  /\ i \in 1..Len(log) /\ taken' \in [1..MaxEvents -> Nat]
               /\ \A j \in 1..MaxEvents : j > Len(log) => taken'[j] = 0
    <3>1. /\ i \in 1..Len(log) /\ taken' \in [1..MaxEvents -> Nat]
          /\ \A j \in 1..MaxEvents : j # i => taken'[j] = taken[j]
      BY <2>1, TakeFacts
    <3>2. Len(log) \in Nat
      BY AuctionTypes
    <3> QED BY <1>1, <3>1, <3>2
  <2>2. CASE RefuseSaab(i)
    BY <1>1, <2>1, <2>2 DEF RefuseSaab
  <2>3. CASE Republish(i) \/ ConsumeReissued(i) \/ LoseEvent(i)
    BY <1>1, <2>1, <2>3 DEF Republish, ConsumeReissued, LoseEvent
  <2>4. CASE ConsumeAuctionCreated(i) \/ ConsumeAuctionUpdated(i) \/ ConsumeAuctionDeleted(i)
    BY <1>1, <2>1, <2>4
       DEF ConsumeAuctionCreated, ConsumeAuctionUpdated, ConsumeAuctionDeleted
  <2> QED BY <1>2, <2>2, <2>3, <2>4 DEF EventStep
<1>3. ASSUME NEW m \in Messages, Receive(m), UNCHANGED <<faults, reissued, lost, taken, restarts>>
      PROVE  Goal
  BY <1>1, <1>3 DEF Receive
<1>4. ASSUME NEW h \in Handler, HandlerStep(h) PROVE Goal
  <2> HIDE DEF Goal
  <2>1. ASSUME NEW m \in BidPlaced, ConsumeBidPlaced(h, m) PROVE Goal
    BY <1>3, <2>1 DEF ConsumeBidPlaced, Ignore, Hold, Receive, Messages
  <2>2. ASSUME NEW m \in AuctionFinished, ConsumeAuctionFinished(h, m) PROVE Goal
    BY <1>3, <2>2 DEF ConsumeAuctionFinished, Ignore, Hold, Receive, Messages
  <2>3. ASSUME SaveDocument(h) \/ FailSave(h) PROVE Goal
    BY <1>1, <2>3 DEF SaveDocument, FailSave, Goal
  <2> QED BY <1>4, <2>1, <2>2, <2>3 DEF HandlerStep
<1>5. ASSUME SyncStep PROVE Goal
  BY <1>1, <1>5 DEF SyncStep, FindLastUpdated, GetItems, SaveItem, FailSync
<1>6. ASSUME Restart PROVE Goal
  BY <1>1, <1>6 DEF Restart
<1> HIDE DEF Goal
<1>7. Goal
  BY <1>2, <1>4, <1>5, <1>6 DEF Next
<1> QED BY <1>7 DEF Goal

\* The handlers keep their type.
LEMMA WorkType ==
  ASSUME SearchTypeOK, Next
  PROVE  work' \in [Handler -> [auctionId : AuctionId, loaded : Doc, doc : Doc] \union {None}]
<1> DEFINE Held == [auctionId : AuctionId, loaded : Doc, doc : Doc] \union {None}
<1>1. work \in [Handler -> Held]
  BY DEF SearchTypeOK
<1>2. ASSUME NEW h \in Handler PROVE work'[h] \in Held
  <2>1. CASE work'[h] = work[h]
    BY <1>1, <2>1
  <2>2. ASSUME NEW m \in Messages, NEW new \in Doc, items[m.auctionId] \in Doc,
               work'[h] = [auctionId |-> m.auctionId, loaded |-> items[m.auctionId], doc |-> new]
        PROVE  work'[h] \in Held
    <3>1. m.auctionId \in AuctionId
      BY MessageAssumption DEF Messages
    <3> QED BY <2>2, <3>1
  <2>3. CASE work'[h] = None
    BY <2>3
  <2> QED BY <2>1, <2>2, <2>3, WorkWrites
<1>3. ASSUME NEW h \in Handler, HandlerStep(h) PROVE work' = work \/ \E x : work' = [work EXCEPT ![h] = x]
  BY <1>3
     DEF HandlerStep, ConsumeBidPlaced, ConsumeAuctionFinished, Ignore, Hold, SaveDocument, FailSave
<1>4. \/ work' = work \/ \E h \in Handler : \E x : work' = [work EXCEPT ![h] = x]
      \/ work' = [h \in Handler |-> None]
  BY <1>3
     DEF Next, EventStep, ConsumeAuctionCreated, RefuseSaab, Republish,
         ConsumeReissued, ConsumeAuctionUpdated, ConsumeAuctionDeleted, LoseEvent,
         SyncStep, FindLastUpdated, GetItems, SaveItem, FailSync, Restart
<1> HIDE DEF Held
<1>5. work' = [h \in Handler |-> work'[h]]
  BY <1>1, <1>4
<1>6. work' \in [Handler -> Held]
  BY <1>2, <1>5
<1> QED BY <1>6 DEF Held

\* Only the event that is delivered is counted.
LEMMA TakenStep ==
  ASSUME SearchTypeOK, Proved!TypeOK, Next, NEW i \in 1..MaxEvents, taken'[i] # taken[i]
  PROVE  /\ i \in 1..Len(log) /\ taken'[i] = taken[i] + 1 /\ EventStep(i)
         /\ Take(i, log[i].kind)
         /\ \A j \in 1..MaxEvents : j # i => taken'[j] = taken[j]
<1>1. PICK j \in 1..MaxEvents : EventStep(j) /\ taken' # taken
  BY DEF Next, HandlerStep, ConsumeBidPlaced, ConsumeAuctionFinished, Ignore, Hold, Receive,
         SaveDocument, FailSave, SyncStep, FindLastUpdated, GetItems, SaveItem, FailSync, Restart
<1>2. PICK kind : Take(j, kind)
  <2>1. CASE LoseEvent(j)
    BY <1>1, <2>1 DEF LoseEvent
  <2>2. CASE ~ LoseEvent(j)
    BY <1>1, <2>2
       DEF EventStep, ConsumeAuctionCreated, RefuseSaab, Republish,
           ConsumeReissued, ConsumeAuctionUpdated, ConsumeAuctionDeleted
  <2> QED BY <2>1, <2>2
<1>3. /\ j \in 1..Len(log) /\ log[j].kind = kind /\ taken'[j] = taken[j] + 1
      /\ \A k \in 1..MaxEvents : k # j => taken'[k] = taken[k]
  BY <1>2, TakeFacts
<1> QED BY <1>1, <1>2, <1>3

\* What waits after a step waited before, or was just refused.
LEMMA WaitingStep ==
  ASSUME SearchTypeOK, EventInv, WaitingInv, Proved!TypeOK, Next, log' = log
  PROVE  /\ \A i \in 1..MaxEvents : taken'[i] >= taken[i]
         /\ \A i \in Waiting' : i \in Waiting \/ RefuseSaab(i)
         /\ WaitingInv'
<1>1. ASSUME NEW i \in 1..MaxEvents
      PROVE  taken'[i] >= taken[i] /\ taken[i] \in Nat /\ taken'[i] \in Nat
  <2>1. taken[i] \in Nat /\ taken'[i] \in Nat
    BY CountsType DEF SearchTypeOK
  <2> QED BY <2>1, TakenStep
<1>2. ASSUME NEW i \in Waiting', i \notin Waiting PROVE RefuseSaab(i)
  BY <1>2
     DEF Waiting, Next, EventStep, HandlerStep, ConsumeAuctionCreated, RefuseSaab, Republish,
         ConsumeReissued, ConsumeAuctionUpdated, ConsumeAuctionDeleted, LoseEvent,
         ConsumeBidPlaced, ConsumeAuctionFinished, Ignore, Hold, Receive, SaveDocument, FailSave,
         SyncStep, FindLastUpdated, GetItems, SaveItem, FailSync, Restart
<1>3. ASSUME NEW i \in Waiting'
      PROVE  log[i].kind = "AuctionCreated" /\ log[i].item[Make] = Saab /\ taken'[i] > 0
  <2>1. i \in 1..MaxEvents
    <3>1. i \in 1..Len(log)
      BY <1>2, CountsType DEF Waiting
    <3>2. Len(log) <= MaxEvents /\ Len(log) \in Nat /\ MaxEvents \in Nat
      BY AuctionTypes, BoundAssumption DEF EventInv
    <3> QED BY <3>1, <3>2
  <2>2. CASE i \in Waiting
    BY <1>1, <2>1, <2>2 DEF WaitingInv
  <2>3. CASE RefuseSaab(i)
    BY <2>1, <2>3, TakeFacts DEF RefuseSaab
  <2> QED BY <1>2, <2>2, <2>3
<1>4. WaitingInv'
  BY <1>3 DEF WaitingInv
<1> QED BY <1>1, <1>2, <1>4

\* The steps of the search service.
LEMMA SearchStepInv ==
  ASSUME SearchInv, Proved!TypeOK, Proved!LifeInv, Next, rows' = rows, log' = log,
         seedings' = seedings
  PROVE  SearchInv'
<1>1. SearchTypeOK /\ EventInv /\ WaitingInv /\ ShownInv /\ WorkInv
  BY DEF SearchInv
<1>2. SearchTypeOK'
  <2>1. items' \in [AuctionId -> Doc \union {None}]
    <3>1. items \in [AuctionId -> Doc \union {None}]
      BY <1>1 DEF SearchTypeOK
    <3> QED BY <1>1, <3>1, ItemWrites
  <2> QED BY <1>1, <2>1, WorkType, SyncType, CountsType DEF SearchTypeOK
<1>3. EventInv'
  BY <1>1, CountsType DEF EventInv
<1>4. WaitingInv'
  BY <1>1, WaitingStep
<1>5. \A a : Known(a)' <=> Known(a)
  BY DEF Known, WasCreated
<1>6. ASSUME NEW a \in AuctionId, items'[a] # None PROVE Known(a)
  <2>1. CASE items'[a] = items[a]
    BY <1>1, <1>6, <2>1 DEF ShownInv
  <2>2. ASSUME NEW x \in Doc \union {None}, Source(a, x), x # None PROVE Known(a)
    <3>1. ASSUME NEW i \in 1..Len(log), log[i].auctionId = a PROVE Known(a)
      BY <3>1 DEF Proved!LifeInv, Proved!KnownInv, Proved!Known, Proved!WasCreated,
                  Known, WasCreated
    <3> QED BY <1>1, <2>2, <3>1 DEF Source, ShownInv, SaveDocument, SaveItem
  <2>3. CASE items'[a] # items[a]
    <3>1. \E x \in Doc \union {None} : Source(a, x) /\ items'[a] = x
      BY <1>1, <2>3, ItemWrites, HeldTypes
    <3> QED BY <1>6, <2>2, <3>1
  <2> QED BY <2>1, <2>3
<1>7. ASSUME NEW a \in AuctionId, sync'.docs[a] # None PROVE Known(a)
  BY <1>1, <1>7, SyncWrites, RowIsKnown DEF ShownInv
<1>8. ASSUME NEW h \in Handler, work'[h] # None
      PROVE  Known(work'[h].auctionId) /\ Extends(work'[h].doc, work'[h].loaded)
  <2>1. CASE work'[h] = work[h]
    BY <1>1, <1>8, <2>1 DEF ShownInv, WorkInv
  <2>2. ASSUME NEW m \in Messages, NEW new \in Doc, items[m.auctionId] \in Doc,
               Amended(m, items[m.auctionId], new), Known(m.auctionId),
               work'[h] = [auctionId |-> m.auctionId, loaded |-> items[m.auctionId], doc |-> new]
        PROVE  Known(work'[h].auctionId) /\ Extends(work'[h].doc, work'[h].loaded)
    <3>1. Extends(new, items[m.auctionId])
      BY <2>2, AmendedFacts
    <3> QED BY <2>2, <3>1
  <2> QED BY <1>1, <1>8, <2>1, <2>2, WorkWrites DEF Known
<1>9. ShownInv'
  BY <1>5, <1>6, <1>7, <1>8 DEF ShownInv
<1>10. WorkInv'
  BY <1>8 DEF WorkInv, Extends
<1> QED BY <1>2, <1>3, <1>4, <1>9, <1>10 DEF SearchInv

\* A step of the auction service as the search service sees it: events are
\* appended within the bound, and what was known stays known.
LEMMA LogGrows ==
  ASSUME Proved!IInv, AuctionStep
  PROVE  /\ Len(log) \in Nat /\ Len(log') \in Nat /\ Len(log) <= Len(log') /\ Len(log') <= MaxEvents
         /\ \A i \in 1..Len(log) : i \in 1..Len(log') /\ log'[i] = log[i]
         /\ \A i \in 1..Len(log') : i \notin 1..Len(log) =>
              /\ log'[i].kind # "AuctionDeleted" => log'[i].item # None
              /\ log'[i].kind = "AuctionCreated" => log'[i].auctionId \notin Seeded
         /\ \A a \in AuctionId : Known(a) => Known(a)'
<1>1. [Proved!Next]_Proved!vars /\ Proved!TypeOK /\ Proved!RoomInv
  BY SameNext DEF AuctionStep, Proved!IInv
<1>2. Proved!TypeOK' /\ Proved!RoomInv'
  BY <1>1, Assumed, Proved!TypeStep, Proved!RoomStep
<1>3. Len(log) \in Nat /\ Len(log') \in Nat /\ Len(log) <= MaxEvents /\ Len(log') <= MaxEvents
  <2>1. Len(log) <= MaxEvents
    BY <1>1, Assumed, Proved!RoomBound
  <2>2. (Proved!TypeOK /\ Proved!RoomInv => Len(log) <= MaxEvents)'
    BY Assumed, Proved!RoomBound, PTL
  <2>3. Len(log') <= MaxEvents
    BY <1>2, <2>2
  <2> QED BY <1>1, <1>2, <2>1, <2>3 DEF Proved!TypeOK
<1>4. ASSUME log' = log, \A a \in AuctionId : seedings[a] \subseteq seedings'[a]
      PROVE  \A a \in AuctionId : Known(a) => Known(a)'
  BY <1>4 DEF Known, WasCreated
<1>5. ASSUME NEW k \in {"AuctionCreated", "AuctionUpdated", "AuctionDeleted"},
             NEW b \in AuctionId, NEW item \in Item \union {None}, Proved!Committed(k, b, item)
      PROVE  /\ Len(log') = Len(log) + 1
             /\ \A i \in 1..Len(log) : log'[i] = log[i]
             /\ seedings' = seedings
             /\ LET e == log'[Len(log) + 1]
                IN /\ e.kind # "AuctionDeleted" => e.item # None
                   /\ e.kind = "AuctionCreated" => e.auctionId \notin Seeded
  <2>1. /\ Len(log') = Len(log) + 1
        /\ \A i \in 1..Len(log) : log'[i] = log[i]
        /\ log'[Len(log) + 1].kind = k /\ log'[Len(log) + 1].auctionId = b
        /\ log'[Len(log) + 1].item = item
    BY <1>1, <1>5, EventAppended
  <2>2. \/ k = "AuctionCreated" /\ item \in Proved!Item /\ b \notin Seeded
        \/ k = "AuctionUpdated" /\ item \in Proved!Item
        \/ k = "AuctionDeleted"
    BY <1>5 DEF Proved!Committed
  <2>3. None \notin Proved!Item
    BY Assumed
  <2> QED BY <1>5, <2>1, <2>2, <2>3 DEF Proved!Committed
<1>6. CASE /\ Len(log') = Len(log) + 1
           /\ \A i \in 1..Len(log) : log'[i] = log[i]
           /\ seedings' = seedings
           /\ LET e == log'[Len(log) + 1]
              IN /\ e.kind # "AuctionDeleted" => e.item # None
                 /\ e.kind = "AuctionCreated" => e.auctionId \notin Seeded
  <2>1. \A i \in 1..Len(log') : i \in 1..Len(log) \/ i = Len(log) + 1
    BY <1>3, <1>6
  <2>2. \A i \in 1..Len(log) : i \in 1..Len(log')
    BY <1>3, <1>6
  <2> QED BY <1>3, <1>6, <2>1, <2>2 DEF Known, WasCreated
<1> QED BY <1>3, <1>4, <1>5, <1>6, AuctionView DEF Proved!Quiet, Proved!Reseeded

\* The steps of the auction service.
LEMMA AuctionStepInv ==
  ASSUME SearchInv, Proved!IInv, AuctionStep
  PROVE  SearchInv'
<1>1. /\ items' = items /\ work' = work /\ sync' = sync /\ faults' = faults
      /\ reissued' = reissued /\ lost' = lost /\ taken' = taken /\ received' = received
      /\ restarts' = restarts
  BY DEF AuctionStep, searchVars
<1>2. SearchTypeOK /\ EventInv /\ WaitingInv /\ ShownInv /\ WorkInv
  BY DEF SearchInv
<1>3. SearchTypeOK'
  <2>1. {faults', reissued', lost'} \subseteq SUBSET (1..Len(log'))
    BY <1>1, <1>2, LogGrows DEF SearchTypeOK
  <2> QED BY <1>1, <1>2, <2>1 DEF SearchTypeOK
<1>4. EventInv'
  <2>1. \A i \in 1..Len(log') :
          /\ log'[i].kind # "AuctionDeleted" => log'[i].item # None
          /\ log'[i].kind = "AuctionCreated" => log'[i].auctionId \notin Seeded
    BY <1>2, LogGrows DEF EventInv
  <2>2. \A i \in 1..MaxEvents : i > Len(log') => taken'[i] = 0
    BY <1>1, <1>2, LogGrows DEF EventInv
  <2> QED BY <2>1, <2>2, LogGrows DEF EventInv
<1>5. WaitingInv'
  <2>1. Waiting' = Waiting /\ Waiting \subseteq 1..Len(log)
    BY <1>1, <1>2 DEF Waiting, SearchTypeOK
  <2> QED BY <1>1, <1>2, <2>1, LogGrows DEF WaitingInv
<1>6. ShownInv'
  <2>1. \A a \in AuctionId : Known(a) => Known(a)'
    BY LogGrows
  <2>2. \A h \in Handler : work[h] # None => work[h].auctionId \in AuctionId
    BY <1>2, HeldTypes
  <2>3. \A a \in AuctionId : (items[a] # None \/ sync.docs[a] # None => Known(a))'
    BY <1>1, <1>2, <2>1 DEF ShownInv
  <2>4. \A h \in Handler : (work[h] # None => Known(work[h].auctionId))'
    <3> SUFFICES ASSUME NEW h \in Handler, work'[h] # None
                 PROVE  Known(work[h].auctionId)'
      BY <1>1
    <3>1. Known(work[h].auctionId)
      BY <1>1, <1>2 DEF ShownInv
    <3> QED BY <2>1, <2>2, <3>1, <1>1
  <2> QED BY <2>3, <2>4 DEF ShownInv
<1>7. WorkInv'
  BY <1>1, <1>2 DEF WorkInv, Extends
<1> QED BY <1>3, <1>4, <1>5, <1>6, <1>7 DEF SearchInv

\* At the start there is nothing in the search service.
LEMMA SearchInit == CarInit => SearchInv
<1> SUFFICES ASSUME CarInit PROVE SearchInv
  OBVIOUS
<1>1. Len(log) = 0 /\ MaxEvents \in Nat
  BY BoundAssumption DEF CarInit, Auction!Init
<1>2. SearchTypeOK
  BY DEF CarInit, Init, SearchTypeOK, NoDocs, Start
<1>3. EventInv
  BY <1>1 DEF CarInit, Init, EventInv
<1> QED
  BY <1>2, <1>3
     DEF CarInit, Init, SearchInv, WaitingInv, Waiting, ShownInv, WorkInv, NoDocs, Start

\* Both invariants, of the auction service and of the search service, hold.
LEMMA SearchInvariant == CarSpec => [](Proved!IInv /\ SearchInv)
<1>1. Proved!Spec => []Proved!IInv
  BY Assumed, Proved!AuctionInvariant
<1>2. Proved!IInv /\ SearchInv /\ [CarNext]_carVars => SearchInv'
  <2> SUFFICES ASSUME Proved!IInv, SearchInv, [CarNext]_carVars PROVE SearchInv'
    OBVIOUS
  <2>1. CASE AuctionStep
    BY <2>1, AuctionStepInv
  <2>2. CASE SearchStep
    <3>1. /\ Proved!TypeOK /\ Proved!LifeInv /\ Next
          /\ rows' = rows /\ log' = log /\ seedings' = seedings
      BY <2>2 DEF SearchStep, Proved!IInv, auctionVars
    <3> QED BY <3>1, SearchStepInv
  <2>3. CASE UNCHANGED carVars
    BY <2>3
       DEF carVars, auctionVars, searchVars, SearchInv, SearchTypeOK, EventInv, WaitingInv,
           Waiting, ShownInv, Known, WasCreated, WorkInv, Extends
  <2> QED BY <2>1, <2>2, <2>3 DEF CarNext
<1> QED BY <1>1, <1>2, CarIsAuction, SearchInit, PTL DEF CarSpec

\* Every variable of the search service keeps its type: what its handlers hold
\* between load and save, what the synchronisation carries, and the refused
\* creations, which are always events of the log.
THEOREM SearchTypeCorrect == CarSpec => []SearchTypeOK
BY SearchInvariant, PTL DEF SearchInv
-----------------------------------------------------------------------------
(* What a step does to one document *)

\* A document that changes was written by the handler of an event of its auction,
\* by a handler of a message, or by the synchronisation.
LEMMA ItemChange ==
  ASSUME SearchInv, Proved!TypeOK, Next, NEW a \in AuctionId, items'[a] # items[a]
  PROVE  Source(a, items'[a])
<1>1. SearchTypeOK /\ EventInv /\ WaitingInv
  BY DEF SearchInv
<1>2. PICK b \in AuctionId, x \in Doc \union {None} : Source(b, x) /\ items' = [items EXCEPT ![b] = x]
  BY <1>1, ItemWrites
<1>3. a = b /\ items'[a] = x
  BY <1>1, <1>2, HeldTypes
<1> QED BY <1>2, <1>3

\* A creation that is delivered replaces the document of its auction.
LEMMA CreationReplaces ==
  ASSUME SearchInv, Proved!TypeOK, NEW i \in 1..MaxEvents,
         ConsumeAuctionCreated(i) \/ ConsumeReissued(i)
  PROVE  i \in 1..Len(log) /\ log[i].kind = "AuctionCreated" /\ Replaces(log[i].auctionId)
<1>1. SearchTypeOK /\ WaitingInv
  BY DEF SearchInv
<1>2. CASE ConsumeAuctionCreated(i)
  <2>1. i \in 1..Len(log) /\ log[i].kind = "AuctionCreated" /\ taken'[i] # taken[i]
    BY <1>1, <1>2, TakeFacts DEF ConsumeAuctionCreated
  <2> QED BY <2>1 DEF Replaces
<1>3. CASE ConsumeReissued(i)
  <2>1. i \in 1..Len(log) /\ log[i].kind = "AuctionCreated"
    BY <1>1, <1>3 DEF ConsumeReissued, SearchTypeOK, WaitingInv, Waiting
  <2>2. taken'[i] # taken[i] \/ i \in reissued \ reissued'
    BY <1>1, <1>3, TakeFacts DEF ConsumeReissued
  <2> QED BY <2>1, <2>2 DEF Replaces
<1> QED BY <1>2, <1>3

\* What is written over a document that nothing replaces, by a handler that was
\* not overtaken, adds to it.
LEMMA OnlyAdds ==
  ASSUME SearchInv, Proved!TypeOK, Next, NEW a \in AuctionId,
         items'[a] # None, ~ Replaces(a), ~ Overtaken(a)
  PROVE  /\ items[a] # None
         /\ items'[a].currentHighBid >= items[a].currentHighBid
         /\ items[a].winner # None => items'[a].winner # None
         /\ items[a].status = "Finished" => items'[a].status = "Finished"
<1> DEFINE Goal == /\ items[a] # None
                   /\ items'[a].currentHighBid >= items[a].currentHighBid
                   /\ items[a].winner # None => items'[a].winner # None
                   /\ items[a].status = "Finished" => items'[a].status = "Finished"
<1>1. SearchTypeOK /\ WorkInv
  BY DEF SearchInv
<1>2. items[a] # None => items[a] \in Doc /\ items[a].currentHighBid \in Int
  BY <1>1, HeldTypes DEF Doc
<1>3. ASSUME items'[a] = items[a] PROVE Goal
  BY <1>2, <1>3
<1>4. ASSUME NEW i \in 1..MaxEvents, log[i].auctionId = a, FromEvent(i, items'[a]) PROVE Goal
  <2>1. PICK x : x = items'[a] /\ x = [items[a] EXCEPT !.item = log[i].item] /\ items[a] # None
    BY <1>4, CreationReplaces DEF FromEvent
  <2>2. items[a] \in Doc
    BY <1>2, <2>1
  <2>3. /\ x.currentHighBid = items[a].currentHighBid /\ x.winner = items[a].winner
        /\ x.status = items[a].status
    BY <2>1, <2>2 DEF Doc
  <2> QED BY <1>2, <2>1, <2>3
<1>5. ASSUME NEW h \in Handler, SaveDocument(h), work[h].auctionId = a, items'[a] = work[h].doc
      PROVE  Goal
  <2>1. work[h] # None /\ work[h].loaded = items[a] /\ work[h].loaded \in Doc
    BY <1>1, <1>5, HeldTypes DEF SaveDocument, Overtaken
  <2>2. Extends(work[h].doc, items[a]) /\ items[a] # None
    BY <1>1, <2>1, DocTypes DEF WorkInv
  <2> QED BY <1>5, <2>2 DEF Extends
<1>6. ~ (SaveItem(a) /\ items'[a] = sync.docs[a])
  BY DEF Replaces
<1> HIDE DEF Goal
<1>7. Goal
  BY <1>3, <1>4, <1>5, <1>6, ItemChange DEF Source
<1> QED BY <1>7 DEF Goal

\* A step that changes what the search service has is one of its own.
LEMMA SearchMoves ==
  ASSUME [CarNext]_carVars, searchVars' # searchVars
  PROVE  Next /\ UNCHANGED auctionVars /\ Watch
BY DEF CarNext, AuctionStep, SearchStep, carVars

\* Bids and results that are shown are taken back only by what may be late: a
\* creation, the synchronisation, a handler that was overtaken; not by updates
\* or by messages, in whatever order they come and however often.
THEOREM NothingTakenBack == CarSpec => NothingIsTakenBack
<1> DEFINE Kept == \A a \in AuctionId :
              items[a] # None /\ items'[a] # None /\ ~ Replaces(a) /\ ~ Overtaken(a) =>
                /\ items'[a].currentHighBid >= items[a].currentHighBid
                /\ items[a].winner # None => items'[a].winner # None
                /\ items[a].status = "Finished" => items'[a].status = "Finished"
<1>1. Proved!IInv /\ SearchInv /\ [CarNext]_carVars => [Kept]_searchVars
  <2> SUFFICES ASSUME Proved!IInv, SearchInv, [CarNext]_carVars, searchVars' # searchVars PROVE Kept
    OBVIOUS
  <2>1. Next /\ Proved!TypeOK
    BY SearchMoves DEF Proved!IInv
  <2> QED BY <2>1, OnlyAdds
<1> QED BY <1>1, SearchInvariant, PTL DEF CarSpec, NothingIsTakenBack

\* An auction that is not shown comes back by a creation, by the synchronisation
\* or by a handler that was overtaken, and by nothing else.
THEOREM DeletedStays == CarSpec => DeletedStaysDeleted
<1> DEFINE Stays == \A a \in AuctionId :
              items[a] = None /\ ~ Overtaken(a) => items'[a] = None \/ Replaces(a)
<1>1. Proved!IInv /\ SearchInv /\ [CarNext]_carVars => [Stays]_searchVars
  <2> SUFFICES ASSUME Proved!IInv, SearchInv, [CarNext]_carVars, searchVars' # searchVars PROVE Stays
    OBVIOUS
  <2>1. Next /\ Proved!TypeOK
    BY SearchMoves DEF Proved!IInv
  <2> QED BY <2>1, OnlyAdds
<1> QED BY <1>1, SearchInvariant, PTL DEF CarSpec, DeletedStaysDeleted
-----------------------------------------------------------------------------
(* What documents tell of bids and results *)

\* A document that says what another says is told if the other is.
LEMMA SameTold ==
  ASSUME NEW a, NEW old, NEW new, Told(a, old), orderly' \subseteq orderly,
         new.currentHighBid = old.currentHighBid,
         new.winner = old.winner, new.soldAmount = old.soldAmount
  PROVE  /\ BidOf(a, new.currentHighBid)
         /\ a \in orderly' => SaleOf(a, new.winner, new.soldAmount)
BY DEF Told

\* A document of a new auction says nothing.
LEMMA NothingTold ==
  ASSUME NEW a, NEW new,
         new.currentHighBid = 0, new.winner = None, new.soldAmount = 0
  PROVE  /\ BidOf(a, new.currentHighBid)
         /\ a \in orderly' => SaleOf(a, new.winner, new.soldAmount)
BY DEF BidOf, SaleOf

\* A message tells what it puts into a document.
LEMMA AmendedTold ==
  ASSUME NEW m, NEW doc \in Doc, NEW new, Amended(m, doc, new), Told(m.auctionId, doc),
         orderly' \subseteq orderly
  PROVE  /\ BidOf(m.auctionId, new.currentHighBid)
         /\ m.auctionId \in orderly' => SaleOf(m.auctionId, new.winner, new.soldAmount)
<1>1. \/ new.currentHighBid = doc.currentHighBid
      \/ m \in BidPlaced /\ new.currentHighBid = m.amount
  BY AmendedFacts
<1>2. \/ new.winner = doc.winner /\ new.soldAmount = doc.soldAmount
      \/ /\ m \in AuctionFinished /\ m.winner # None
         /\ new.winner = m.winner /\ new.soldAmount = m.amount
  BY AmendedFacts
<1>3. BidOf(m.auctionId, new.currentHighBid)
  BY <1>1 DEF BidOf, Told
<1>4. m.auctionId \in orderly' => SaleOf(m.auctionId, new.winner, new.soldAmount)
  BY <1>2 DEF SaleOf, Told
<1> QED BY <1>3, <1>4

\* The steps of the search service.
LEMMA SearchTold ==
  ASSUME SearchInv, Proved!TypeOK, ToldInv, Next, rows' = rows, orderly' \subseteq orderly
  PROVE  ToldInv'
<1> DEFINE Tells(a, doc) == /\ BidOf(a, doc.currentHighBid)
                            /\ a \in orderly' => SaleOf(a, doc.winner, doc.soldAmount)
<1>1. SearchTypeOK
  BY DEF SearchInv
<1>2. \A a, doc : Told(a, doc) => Tells(a, doc)
  BY DEF Told
<1>3. ASSUME NEW a \in AuctionId, rows'[a] # None PROVE Tells(a, DocOf(rows'[a]))
  <2>1. Told(a, DocOf(rows[a]))
    BY <1>3 DEF ToldInv
  <2> HIDE DEF Tells
  <2> QED BY <1>2, <2>1
<1>4. ASSUME NEW a \in AuctionId, NEW x, Source(a, x), x # None PROVE Tells(a, x)
  <2>1. ASSUME NEW i \in 1..MaxEvents, log[i].auctionId = a, FromEvent(i, x) PROVE Tells(a, x)
    <3>1. ASSUME NEW item, x = NewDoc(i, item) PROVE Tells(a, x)
      <4>1. x.currentHighBid = 0 /\ x.winner = None /\ x.soldAmount = 0
        BY <3>1 DEF NewDoc
      <4> QED BY <4>1, NothingTold
    <3>2. ASSUME items[a] # None, x = [items[a] EXCEPT !.item = log[i].item] PROVE Tells(a, x)
      <4>1. items[a] \in Doc /\ Told(a, items[a])
        BY <1>1, <3>2, HeldTypes DEF ToldInv
      <4>2. /\ x.currentHighBid = items[a].currentHighBid
            /\ x.winner = items[a].winner /\ x.soldAmount = items[a].soldAmount
        BY <3>2, <4>1 DEF Doc
      <4> QED BY <4>1, <4>2, SameTold
    <3> HIDE DEF Tells
    <3> QED BY <1>4, <2>1, <3>1, <3>2 DEF FromEvent
  <2>2. ASSUME NEW h \in Handler, SaveDocument(h), work[h].auctionId = a, x = work[h].doc
        PROVE  Tells(a, x)
    <3>1. Told(a, x)
      BY <2>2 DEF ToldInv, SaveDocument
    <3> HIDE DEF Tells
    <3> QED BY <1>2, <3>1
  <2>3. ASSUME SaveItem(a), x = sync.docs[a] PROVE Tells(a, x)
    <3>1. Told(a, x)
      BY <1>4, <2>3 DEF ToldInv
    <3> HIDE DEF Tells
    <3> QED BY <1>2, <3>1
  <2> HIDE DEF Tells
  <2> QED BY <1>4, <2>1, <2>2, <2>3 DEF Source
<1>5. ASSUME NEW a \in AuctionId, items'[a] # None PROVE Tells(a, items'[a])
  <2>1. CASE items'[a] = items[a]
    <3>1. Told(a, items'[a])
      BY <1>5, <2>1 DEF ToldInv
    <3> HIDE DEF Tells
    <3> QED BY <1>2, <3>1
  <2> HIDE DEF Tells
  <2> QED BY <1>4, <1>5, <2>1, ItemChange
<1>6. ASSUME NEW a \in AuctionId, sync'.docs[a] # None PROVE Tells(a, sync'.docs[a])
  <2>1. Told(a, sync'.docs[a])
    BY <1>1, <1>6, SyncWrites DEF ToldInv
  <2> HIDE DEF Tells
  <2> QED BY <1>2, <2>1
<1>7. ASSUME NEW h \in Handler, work'[h] # None PROVE Tells(work'[h].auctionId, work'[h].doc)
  <2>1. CASE work'[h] = work[h]
    <3>1. Told(work[h].auctionId, work[h].doc)
      BY <1>7, <2>1 DEF ToldInv
    <3> HIDE DEF Tells
    <3> QED BY <1>2, <2>1, <3>1
  <2>2. ASSUME NEW m \in Messages, NEW new \in Doc, items[m.auctionId] \in Doc,
               Amended(m, items[m.auctionId], new),
               work'[h] = [auctionId |-> m.auctionId, loaded |-> items[m.auctionId], doc |-> new]
        PROVE  Tells(work'[h].auctionId, work'[h].doc)
    <3>1. m.auctionId \in AuctionId /\ items[m.auctionId] # None
      BY <2>2, DocTypes, AmendedFacts
    <3>2. Told(m.auctionId, items[m.auctionId])
      BY <3>1 DEF ToldInv
    <3>3. Tells(m.auctionId, new)
      BY <2>2, <3>2, AmendedTold
    <3>4. work'[h].auctionId = m.auctionId /\ work'[h].doc = new
      BY <2>2
    <3> HIDE DEF Tells
    <3> QED BY <3>3, <3>4
  <2> HIDE DEF Tells
  <2> QED BY <1>1, <1>7, <2>1, <2>2, WorkWrites
<1> QED BY <1>3, <1>5, <1>6, <1>7 DEF ToldInv, Told, BidOf, SaleOf

\* What a row says of its bids after a step of the auction service.
LEMMA RowBidTold ==
  ASSUME Proved!IInv, AuctionStep, NEW a \in AuctionId, rows'[a] # None,
         rows[a] # None => BidOf(a, OrZero(rows[a].currentHighBid))
  PROVE  BidOf(a, OrZero(rows'[a].currentHighBid))
<1>1. [Proved!Next]_Proved!vars /\ Proved!TypeOK /\ Proved!LifeInv
  BY SameNext DEF AuctionStep, Proved!IInv
<1>2. CASE rows[a] = None
  <2>1. rows'[a].currentHighBid = None
    BY <1>1, <1>2, Assumed, Proved!AddedRow
  <2> QED BY <2>1 DEF BidOf, OrZero
<1>3. ASSUME NEW c \in Consumer, Proved!SaveHighBid(c), job[c].msg.auctionId = a
      PROVE  BidOf(a, OrZero(rows'[a].currentHighBid))
  <2> DEFINE n == job[c].msg.amount
  <2>1. job[c].msg \in BidPlaced
    BY <1>1, <1>3 DEF Proved!SaveHighBid, Proved!TypeOK, Proved!BidJob, Proved!ResultJob
  <2>2. /\ n \in Int /\ rows[a] \in Proved!Row
        /\ rows' = [rows EXCEPT ![a] = [rows[a] EXCEPT !.currentHighBid = n]]
    BY <1>1, <1>3, Assumed, Proved!HighBidWrites
  <2> HIDE DEF n
  <2>3. rows'[a].currentHighBid = n
    BY <1>1, <2>2 DEF Proved!TypeOK, Proved!Row
  <2>4. n # None
    BY <2>2, Assumed
  <2> QED BY <1>3, <2>1, <2>3, <2>4 DEF BidOf, OrZero, n
<1>4. CASE rows[a] # None /\ rows'[a].currentHighBid = rows[a].currentHighBid
  BY <1>4
<1> QED BY <1>1, <1>2, <1>3, <1>4, Assumed, Proved!RowStep

\* What a row that is orderly says of its results after a step of the auction
\* service.
LEMMA RowSaleTold ==
  ASSUME Proved!IInv, AuctionStep, NEW a \in AuctionId, rows'[a] # None, a \in orderly',
         rows[a] # None => SaleOf(a, rows[a].sale.winner, OrZero(rows[a].sale.soldAmount))
  PROVE  SaleOf(a, rows'[a].sale.winner, OrZero(rows'[a].sale.soldAmount))
<1>1. [Proved!Next]_Proved!vars /\ Proved!TypeOK /\ Proved!LifeInv
  BY SameNext DEF AuctionStep, Proved!IInv
<1>2. CASE rows[a] = None
  <2>1. rows'[a].sale.winner = None /\ rows'[a].sale.soldAmount = None
    BY <1>1, <1>2, Assumed, Proved!AddedRow
  <2> QED BY <2>1 DEF SaleOf, OrZero
<1>3. CASE rows[a] # None /\ rows'[a].sale = rows[a].sale
  BY <1>3
<1>4. ASSUME NEW c \in Consumer, Proved!SaveResult(c), job[c].msg.auctionId = a,
             rows[a] # None, rows' # rows
      PROVE  SaleOf(a, rows'[a].sale.winner, OrZero(rows'[a].sale.soldAmount))
  <2> DEFINE m == job[c].msg
             sale == Proved!Concluded(m, job[c].loaded)
  <2>1. m \in AuctionFinished /\ job[c] # None /\ job[c].kind = "result" /\ job'[c] = None
    BY <1>1, <1>4 DEF Proved!SaveResult, Proved!TypeOK, Proved!BidJob, Proved!ResultJob
  <2>2. rows[a].sale = job[c].loaded
    BY <1>4, <2>1 DEF AuctionStep, Watch, Overwritten
  <2>3. /\ rows'[a].sale.winner = sale.winner
        /\ rows'[a].sale.soldAmount = sale.soldAmount
    <3>1. LET loaded == job[c].loaded
              new == rows'[a].sale
          IN /\ new.winner = IF loaded.winner # sale.winner THEN sale.winner
                             ELSE rows[a].sale.winner
             /\ new.soldAmount = IF loaded.soldAmount # sale.soldAmount THEN sale.soldAmount
                                 ELSE rows[a].sale.soldAmount
      BY <1>1, <1>4, Assumed, Proved!SaleColumns
    <3> HIDE DEF sale
    <3> QED BY <2>2, <3>1
  <2>4. /\ sale.winner = IF m.winner # None THEN m.winner ELSE rows[a].sale.winner
        /\ sale.soldAmount = IF m.winner # None THEN m.amount ELSE rows[a].sale.soldAmount
    BY <2>2 DEF Proved!Concluded
  <2>5. m.winner # None => m.amount # None
    BY <2>1, Assumed
  <2>6. m.auctionId = a
    BY <1>4
  <2> HIDE DEF m, sale
  <2>7. CASE m.winner = None
    BY <1>4, <2>3, <2>4, <2>7
  <2>8. CASE m.winner # None
    BY <2>1, <2>3, <2>4, <2>5, <2>6, <2>8 DEF SaleOf, OrZero, m
  <2> QED BY <2>7, <2>8
<1>5. CASE rows' = rows
  BY <1>5
<1> QED BY <1>1, <1>2, <1>3, <1>4, <1>5, Assumed, Proved!RowStep

\* The steps of the auction service.
LEMMA AuctionTold ==
  ASSUME Proved!IInv, SearchInv, ToldInv, AuctionStep
  PROVE  ToldInv'
<1>1. items' = items /\ work' = work /\ sync' = sync /\ orderly' \subseteq orderly
  BY DEF AuctionStep, searchVars, Watch
<1>2. \A row : /\ DocOf(row).currentHighBid = OrZero(row.currentHighBid)
               /\ DocOf(row).winner = row.sale.winner
               /\ DocOf(row).soldAmount = OrZero(row.sale.soldAmount)
  BY DEF DocOf
<1>3. ASSUME NEW a \in AuctionId, rows'[a] # None
      PROVE  /\ BidOf(a, DocOf(rows'[a]).currentHighBid)
             /\ a \in orderly' => SaleOf(a, DocOf(rows'[a]).winner, DocOf(rows'[a]).soldAmount)
  <2>1. rows[a] # None =>
          /\ BidOf(a, OrZero(rows[a].currentHighBid))
          /\ a \in orderly => SaleOf(a, rows[a].sale.winner, OrZero(rows[a].sale.soldAmount))
    BY <1>2 DEF ToldInv, Told
  <2>2. BidOf(a, OrZero(rows'[a].currentHighBid))
    BY <1>3, <2>1, RowBidTold
  <2>3. a \in orderly' => SaleOf(a, rows'[a].sale.winner, OrZero(rows'[a].sale.soldAmount))
    BY <1>1, <1>3, <2>1, RowSaleTold
  <2> QED BY <1>2, <2>2, <2>3
<1>4. \A a, doc : Told(a, doc) =>
        /\ BidOf(a, doc.currentHighBid)
        /\ a \in orderly' => SaleOf(a, doc.winner, doc.soldAmount)
  BY <1>1 DEF Told
<1>5. /\ \A a \in AuctionId : /\ items[a] # None => Told(a, items[a])
                              /\ sync.docs[a] # None => Told(a, sync.docs[a])
      /\ \A h \in Handler : work[h] # None => Told(work[h].auctionId, work[h].doc)
  BY DEF ToldInv
<1> QED BY <1>1, <1>3, <1>4, <1>5 DEF ToldInv, Told, BidOf, SaleOf

\* At the start nothing was told: seeded rows have no bids and no sale.
LEMMA ToldInit == CarInit => ToldInv
<1> SUFFICES ASSUME CarInit PROVE ToldInv
  OBVIOUS
<1>1. ASSUME NEW a \in AuctionId, rows[a] # None PROVE Told(a, DocOf(rows[a]))
  <2>1. a \in Seeded /\ rows[a] = Proved!SeedRow(a, 1)
    BY <1>1, SameInit DEF CarInit, Proved!Init, Proved!SeededRows, Proved!NoRows
  <2>2. /\ rows[a].currentHighBid = None /\ rows[a].sale.winner = None
        /\ rows[a].sale.soldAmount = None
    BY <2>1, Assumed, Proved!SeedRowType
  <2>3. /\ DocOf(rows[a]).currentHighBid = 0 /\ DocOf(rows[a]).winner = None
        /\ DocOf(rows[a]).soldAmount = 0
    BY <2>2 DEF DocOf, OrZero
  <2> QED BY <2>3 DEF Told, BidOf, SaleOf
<1> QED BY <1>1 DEF CarInit, Init, ToldInv, NoDocs, Start

\* The steps of both services keep what is told.
LEMMA ToldStep ==
  ASSUME Proved!IInv, SearchInv, ToldInv, [CarNext]_carVars
  PROVE  ToldInv'
<1>1. CASE AuctionStep
  BY <1>1, AuctionTold
<1>2. CASE SearchStep
  <2>1. Next /\ rows' = rows /\ orderly' \subseteq orderly /\ Proved!TypeOK
    BY <1>2 DEF SearchStep, auctionVars, Watch, Proved!IInv
  <2> QED BY <2>1, SearchTold
<1>3. CASE UNCHANGED carVars
  BY <1>3 DEF carVars, auctionVars, searchVars, ToldInv, Told, BidOf, SaleOf
<1> QED BY <1>1, <1>2, <1>3 DEF CarNext

\* The high bids that the search shows were bid, and its winners with what they
\* paid were announced, through events, handlers, rows and the synchronisation,
\* unless a row has its winner and its amount from two results.
THEOREM ShownWasAnnounced == CarSpec => []ShowsWhatWasAnnounced
<1>1. ToldInv => ShowsWhatWasAnnounced
  BY DEF ToldInv, Told, BidOf, SaleOf, ShowsWhatWasAnnounced
<1> QED BY <1>1, SearchInvariant, ToldInit, ToldStep, PTL DEF CarSpec
-----------------------------------------------------------------------------
(* Auctions that nothing has disturbed: the steps of the search service *)

\* A set of places in the log has a last one.
LEMMA LastOne ==
  ASSUME NEW n \in Nat, NEW S, S \subseteq 1..n, S # {}
  PROVE  \E i \in S : \A j \in S : j <= i
<1> DEFINE T == {n - i : i \in S}
<1>1. T \subseteq Nat
  <2>1. \A i \in S : n - i \in Nat
    OBVIOUS
  <2> QED BY <2>1
<1>2. T # {}
  <2>1. PICK i \in S : TRUE
    OBVIOUS
  <2>2. n - i \in T
    OBVIOUS
  <2> QED BY <2>2
<1> DEFINE R == {ss \in Nat \X Nat : ss[1] < ss[2]}
<1>3. IsWellFoundedOn(R, Nat)
  BY NatLessThanWellFounded, Zenon DEF OpToRel
<1> HIDE DEF R, T
<1>4. PICK x \in T : \A y \in T : ~ (<<y, x>> \in R)
  BY <1>1, <1>2, <1>3, WFMin, Zenon
<1>5. \A y \in T : ~ (y < x)
  <2>1. \A y \in T : y < x => <<y, x>> \in R
    BY <1>1 DEF R
  <2> QED BY <1>4, <2>1
<1>6. PICK i \in S : x = n - i
  BY DEF T
<1>7. \A j \in S : j <= i
  BY <1>5, <1>6 DEF T
<1> QED BY <1>7

\* A creation comes before every other event of its auction, none of which is
\* another creation, and it is of an auction that was not seeded.
LEMMA CreationIsFirst ==
  ASSUME Proved!TypeOK, Proved!LifeInv, EventInv, NEW a, NEW i \in EventsOf(a),
         log[i].kind = "AuctionCreated"
  PROVE  /\ a \notin Seeded
         /\ \A j \in EventsOf(a) : j # i => i < j /\ log[j].kind # "AuctionCreated"
<1>1. Len(log) \in Nat
  BY AuctionTypes
<1> QED BY <1>1 DEF EventsOf, EventInv, Proved!LifeInv, Proved!EventsFormALife

\* A row that nothing has seeded since its events began has not ended, and without
\* a seeding it was created.
LEMMA RowGoesOn ==
  ASSUME Proved!TypeOK, Proved!LifeInv, NEW a \in AuctionId, SeededFirst(a), rows[a] # None
  PROVE  /\ \A i \in EventsOf(a) : log[i].kind # "AuctionDeleted"
         /\ a \notin Seeded => \E i \in EventsOf(a) : log[i].kind = "AuctionCreated"
<1>1. PICK n \in Proved!Begins(a) : \A d \in Proved!Ends(a) : d <= n
  BY DEF Proved!LifeInv, Proved!RowIffAnnounced
<1>2. Len(log) \in Nat /\ Proved!Ends(a) \subseteq EventsOf(a) /\ EventsOf(a) \subseteq 1..Len(log)
  BY AuctionTypes DEF Proved!Ends, EventsOf
<1>3. n \in seedings[a] \/ (n \in EventsOf(a) /\ log[n].kind = "AuctionCreated")
  BY <1>1 DEF Proved!Begins, EventsOf
<1>4. ASSUME NEW d \in Proved!Ends(a) PROVE FALSE
  <2>1. d <= n /\ d \in EventsOf(a) /\ d \in Int /\ log[d].kind = "AuctionDeleted"
    BY <1>1, <1>2 DEF Proved!Ends
  <2>2. CASE n \in seedings[a]
    <3>1. n < d /\ n \in Int
      BY <2>1, <2>2 DEF SeededFirst, Proved!TypeOK
    <3> QED BY <2>1, <3>1
  <2>3. CASE n \in EventsOf(a) /\ log[n].kind = "AuctionCreated"
    <3>1. n \in Int /\ d # n /\ d < n
      BY <1>2, <2>1, <2>3
    <3> QED BY <2>1, <2>3, <3>1 DEF EventsOf, Proved!LifeInv, Proved!EventsFormALife
  <2> QED BY <1>3, <2>2, <2>3
<1>5. a \notin Seeded => seedings[a] = {}
  BY DEF Proved!LifeInv, Proved!SeedInv
<1> QED BY <1>3, <1>4, <1>5 DEF Proved!Ends, EventsOf

\* A step of the search service that does not disturb auction a.
CalmStep(a) ==
  /\ SearchInv /\ Proved!TypeOK /\ Proved!LifeInv
  /\ Next /\ rows' = rows /\ log' = log /\ seedings' = seedings /\ req' = req
  /\ Undisturbed(a) /\ ~ Disturbed(a)

\* The parts of that, and the places of the events of a.
LEMMA CalmStepFacts ==
  ASSUME NEW a \in AuctionId, CalmStep(a)
  PROVE  /\ SearchTypeOK /\ EventInv /\ WaitingInv /\ ShownInv /\ WorkInv
         /\ Proved!TypeOK /\ Proved!LifeInv /\ Next
         /\ ~ Overtaken(a) /\ InOrder(a) /\ SeededFirst(a) /\ RowIsLast(a)
         /\ ShownIsTaken(a) /\ ItemIsLastTaken(a)
         /\ EventsOf(a)' = EventsOf(a)
         /\ \A i \in EventsOf(a) : /\ i \in 1..Len(log) /\ i \in 1..MaxEvents /\ i \in Int
                                   /\ log[i].auctionId = a
                                   /\ taken[i] \in Nat /\ taken'[i] \in Nat
<1>1. /\ SearchTypeOK /\ EventInv /\ WaitingInv /\ ShownInv /\ WorkInv
      /\ Proved!TypeOK /\ Proved!LifeInv /\ Next /\ log' = log
  BY DEF CalmStep, SearchInv
<1>2. /\ ~ Overtaken(a) /\ InOrder(a) /\ SeededFirst(a) /\ RowIsLast(a)
      /\ ShownIsTaken(a) /\ ItemIsLastTaken(a)
  BY DEF CalmStep, Undisturbed
<1>3. EventsOf(a)' = EventsOf(a)
  BY <1>1 DEF EventsOf
<1>4. ASSUME NEW i \in EventsOf(a)
      PROVE  /\ i \in 1..Len(log) /\ i \in 1..MaxEvents /\ i \in Int /\ log[i].auctionId = a
             /\ taken[i] \in Nat /\ taken'[i] \in Nat
  <2>1. i \in 1..Len(log) /\ log[i].auctionId = a
    BY DEF EventsOf
  <2>2. Len(log) \in Nat /\ Len(log) <= MaxEvents /\ MaxEvents \in Nat
    BY <1>1, AuctionTypes, BoundAssumption DEF EventInv
  <2>3. i \in 1..MaxEvents /\ i \in Int
    BY <2>1, <2>2
  <2>4. taken' \in [1..MaxEvents -> Nat] /\ taken \in [1..MaxEvents -> Nat]
    BY <1>1, CountsType DEF SearchTypeOK
  <2> QED BY <2>1, <2>3, <2>4
<1> QED BY <1>1, <1>2, <1>3, <1>4

\* The event that the step delivers was not taken before, and those before it
\* have had their effect.
LEMMA InTurn ==
  ASSUME NEW a \in AuctionId, CalmStep(a), NEW i \in EventsOf(a), taken'[i] # taken[i]
  PROVE  /\ taken[i] = 0 /\ i \notin Waiting /\ taken'[i] > 0
         /\ \A j \in EventsOf(a) : j < i => taken[j] > 0 /\ j \notin Waiting
         /\ \A j \in EventsOf(a) : j # i => taken'[j] = taken[j]
<1>1. i \in 1..MaxEvents /\ \A j \in EventsOf(a) : taken[j] \in Nat /\ j \in 1..MaxEvents
  BY CalmStepFacts
<1>2. ~ Disturbed(a)
  BY DEF CalmStep
<1>3. taken[i] = 0 /\ \A j \in EventsOf(a) : j < i => taken[j] > 0 /\ j \notin Waiting
  <2>1. /\ ~ taken[i] > 0
        /\ \A j \in EventsOf(a) : j < i => taken[j] # 0 /\ j \notin faults \union reissued
    BY <1>2, Zenon DEF Disturbed
  <2> QED BY <1>1, <2>1 DEF Waiting
<1>4. i \notin Waiting
  BY <1>3, CalmStepFacts DEF WaitingInv
<1>5. taken'[i] = taken[i] + 1 /\ \A j \in EventsOf(a) : j # i => taken'[j] = taken[j]
  BY <1>1, CalmStepFacts, TakenStep
<1> QED BY <1>1, <1>3, <1>4, <1>5

\* Events are still taken in order.
LEMMA InOrderStep ==
  ASSUME NEW a \in AuctionId, CalmStep(a)
  PROVE  InOrder(a)'
<1>1. /\ \A i \in 1..MaxEvents : taken'[i] >= taken[i]
      /\ \A i \in Waiting' : i \in Waiting \/ RefuseSaab(i)
  BY CalmStepFacts, WaitingStep DEF CalmStep
<1>2. ASSUME NEW i \in EventsOf(a), RefuseSaab(i) PROVE taken'[i] # taken[i]
  BY <1>2, CalmStepFacts, TakeFacts DEF RefuseSaab
<1>3. ASSUME NEW i \in EventsOf(a), NEW j \in EventsOf(a), j < i, taken'[i] > 0
      PROVE  taken'[j] > 0 /\ j \notin Waiting'
  <2>1. taken[j] > 0 /\ j \notin Waiting
    <3>1. CASE taken'[i] = taken[i]
      BY <1>3, <3>1, CalmStepFacts DEF InOrder
    <3>2. CASE taken'[i] # taken[i]
      BY <1>3, <3>2, InTurn
    <3> QED BY <3>1, <3>2
  <2>2. taken'[j] > 0
    BY <1>1, <2>1, CalmStepFacts
  <2>3. ~ RefuseSaab(j)
    BY <1>2, <2>1, CalmStepFacts, InTurn
  <2> QED BY <1>1, <2>1, <2>2, <2>3
<1>4. ASSUME NEW i \in EventsOf(a) PROVE i \notin faults' \intersect reissued'
  <2>1. i \notin faults \intersect reissued
    BY CalmStepFacts DEF InOrder
  <2>2. ASSUME RefuseSaab(i) PROVE i \notin reissued'
    <3>1. i \notin Waiting
      BY <1>2, <2>2, InTurn
    <3> QED BY <2>2, <3>1 DEF RefuseSaab, Waiting
  <2>3. i \in faults' => i \in faults \/ RefuseSaab(i)
    BY CalmStepFacts
       DEF Next, EventStep, HandlerStep, ConsumeAuctionCreated, RefuseSaab, Republish,
           ConsumeReissued, ConsumeAuctionUpdated, ConsumeAuctionDeleted, LoseEvent,
           ConsumeBidPlaced, ConsumeAuctionFinished, Ignore, Hold, Receive, SaveDocument, FailSave,
           SyncStep, FindLastUpdated, GetItems, SaveItem, FailSync, Restart
  <2>4. i \in reissued' => i \in reissued \/ i \notin faults'
    BY CalmStepFacts
       DEF Next, EventStep, HandlerStep, ConsumeAuctionCreated, RefuseSaab, Republish,
           ConsumeReissued, ConsumeAuctionUpdated, ConsumeAuctionDeleted, LoseEvent,
           ConsumeBidPlaced, ConsumeAuctionFinished, Ignore, Hold, Receive, SaveDocument, FailSave,
           SyncStep, FindLastUpdated, GetItems, SaveItem, FailSync, Restart
  <2> QED BY <2>1, <2>2, <2>3, <2>4
<1> QED BY <1>3, <1>4, CalmStepFacts DEF InOrder

\* Nothing of auction a changes that its document has to do with.
Untouched(a) ==
  /\ items'[a] = items[a]
  /\ \A i \in EventsOf(a) : taken'[i] = taken[i] /\ (i \in Waiting' <=> i \in Waiting)

\* What a step may have to do with auction a.
LEMMA CalmCases ==
  ASSUME NEW a \in AuctionId, CalmStep(a)
  PROVE  \/ \E i \in EventsOf(a) :
              \/ ConsumeAuctionCreated(i) \/ RefuseSaab(i) \/ ConsumeReissued(i)
              \/ ConsumeAuctionUpdated(i) \/ ConsumeAuctionDeleted(i)
         \/ \E h \in Handler : SaveDocument(h) /\ work[h].auctionId = a
         \/ SaveItem(a)
         \/ Untouched(a)
<1>1. SearchTypeOK /\ Proved!TypeOK /\ DOMAIN items = AuctionId
  BY CalmStepFacts, HeldTypes
<1>2. ASSUME NEW i \in 1..MaxEvents, EventStep(i), i \in EventsOf(a), ~ Untouched(a)
      PROVE  \/ ConsumeAuctionCreated(i) \/ RefuseSaab(i) \/ ConsumeReissued(i)
             \/ ConsumeAuctionUpdated(i) \/ ConsumeAuctionDeleted(i)
  <2>1. ~ LoseEvent(i)
    BY <1>2 DEF LoseEvent, CalmStep, Disturbed
  <2> QED BY <1>2, <2>1 DEF EventStep, Republish, Untouched, Waiting
<1>3. ASSUME NEW i \in 1..MaxEvents, EventStep(i), i \notin EventsOf(a) PROVE Untouched(a)
  <2>1. ASSUME NEW kind, Take(i, kind)
        PROVE  /\ i \in 1..Len(log) /\ log[i].auctionId # a
               /\ \A j \in EventsOf(a) : taken'[j] = taken[j]
    <3>1. i \in 1..Len(log) /\ \A j \in 1..MaxEvents : j # i => taken'[j] = taken[j]
      BY <1>1, <2>1, TakeFacts
    <3> QED BY <1>3, <3>1, CalmStepFacts DEF EventsOf
  <2>2. CASE ConsumeAuctionCreated(i)
    BY <1>1, <2>1, <2>2 DEF ConsumeAuctionCreated, Untouched, Waiting
  <2>3. CASE RefuseSaab(i)
    BY <1>3, <2>1, <2>3 DEF RefuseSaab, Untouched, Waiting
  <2>4. CASE Republish(i)
    BY <2>4 DEF Republish, Untouched, Waiting
  <2>5. CASE ConsumeReissued(i)
    <3>1. i \in 1..Len(log)
      BY <1>1, <2>5 DEF ConsumeReissued, SearchTypeOK
    <3>2. log[i].auctionId # a
      BY <1>3, <3>1 DEF EventsOf
    <3> QED BY <1>1, <1>3, <2>1, <2>5, <3>2 DEF ConsumeReissued, Untouched, Waiting
  <2>6. CASE ConsumeAuctionUpdated(i)
    BY <1>1, <2>1, <2>6 DEF ConsumeAuctionUpdated, Untouched, Waiting
  <2>7. CASE ConsumeAuctionDeleted(i)
    BY <1>1, <2>1, <2>7 DEF ConsumeAuctionDeleted, Untouched, Waiting
  <2>8. CASE LoseEvent(i)
    BY <1>3, <2>1, <2>8 DEF LoseEvent, Untouched, Waiting
  <2> QED BY <1>3, <2>2, <2>3, <2>4, <2>5, <2>6, <2>7, <2>8 DEF EventStep
<1>4. ASSUME NEW h \in Handler, HandlerStep(h), ~ (SaveDocument(h) /\ work[h].auctionId = a)
      PROVE  Untouched(a)
  <2>1. CASE SaveDocument(h)
    BY <1>1, <1>4, <2>1 DEF SaveDocument, Untouched, Waiting
  <2>2. CASE ~ SaveDocument(h)
    BY <1>4, <2>2
       DEF HandlerStep, ConsumeBidPlaced, ConsumeAuctionFinished, Ignore, Hold, Receive,
           FailSave, Untouched, Waiting
  <2> QED BY <2>1, <2>2
<1>5. ASSUME SyncStep, ~ SaveItem(a) PROVE Untouched(a)
  BY <1>1, <1>5
     DEF SyncStep, FindLastUpdated, GetItems, SaveItem, FailSync, Untouched, Waiting
<1>6. CASE Restart
  BY <1>6 DEF Restart, Untouched, Waiting
<1> QED BY <1>2, <1>3, <1>4, <1>5, <1>6, CalmStepFacts DEF Next

\* The creation is delivered: nothing of the auction was taken, and nothing was
\* shown.
LEMMA CreationInTurn ==
  ASSUME NEW a \in AuctionId, CalmStep(a), NEW i \in EventsOf(a),
         log[i].kind = "AuctionCreated", taken'[i] # taken[i]
  PROVE  /\ a \notin Seeded /\ items[a] = None
         /\ \A j \in EventsOf(a) : taken[j] = 0 /\ (j # i => log[j].kind # "AuctionCreated")
<1>1. a \notin Seeded /\ \A j \in EventsOf(a) : j # i => i < j /\ log[j].kind # "AuctionCreated"
  BY CalmStepFacts, CreationIsFirst
<1>2. taken[i] = 0
  BY InTurn
<1>3. ASSUME NEW j \in EventsOf(a) PROVE taken[j] = 0
  BY <1>1, <1>2, CalmStepFacts DEF InOrder
<1>4. ~ CreationTaken(a)
  BY <1>3 DEF CreationTaken
<1> QED BY <1>1, <1>3, <1>4, CalmStepFacts DEF ShownIsTaken

\* The creation is delivered again as a Volvo: it is the only event of the
\* auction that was taken.
LEMMA ReissueInTurn ==
  ASSUME NEW a \in AuctionId, CalmStep(a), NEW i \in EventsOf(a), i \in Waiting
  PROVE  /\ log[i].kind = "AuctionCreated" /\ log[i].item[Make] = Saab /\ taken[i] > 0
         /\ \A j \in EventsOf(a) : j # i => taken[j] = 0
<1>1. log[i].kind = "AuctionCreated" /\ log[i].item[Make] = Saab /\ taken[i] > 0
  BY CalmStepFacts DEF WaitingInv
<1>2. \A j \in EventsOf(a) : j # i => i < j
  BY <1>1, CalmStepFacts, CreationIsFirst
<1> QED BY <1>1, <1>2, CalmStepFacts DEF InOrder

\* The parts of the invariant after the step, in terms of the events of before.
LEMMA AfterStep ==
  ASSUME NEW a \in AuctionId, CalmStep(a)
  PROVE  /\ DeletionTaken(a)' <=>
              \E i \in EventsOf(a) : log[i].kind = "AuctionDeleted" /\ taken'[i] > 0
         /\ CreationTaken(a)' <=>
              \E i \in EventsOf(a) :
                log[i].kind = "AuctionCreated" /\ taken'[i] > 0 /\ i \notin Waiting'
         /\ ShownIsTaken(a)' <=>
              /\ items'[a] # None => ~ DeletionTaken(a)'
              /\ a \notin Seeded =>
                   (items'[a] # None <=> CreationTaken(a)' /\ ~ DeletionTaken(a)')
         /\ ItemIsLastTaken(a)' <=>
              (items'[a] # None =>
                 /\ EventsOf(a) = {} => rows[a] # None /\ items'[a].item = rows[a].item
                 /\ \A i \in EventsOf(a) :
                      taken'[i] > 0 /\ (\A j \in EventsOf(a) : taken'[j] > 0 => j <= i)
                        => SameItem(items'[a].item, log[i].item))
<1>1. EventsOf(a)' = EventsOf(a) /\ log' = log /\ rows' = rows
  BY CalmStepFacts DEF CalmStep
<1>2. DeletionTaken(a)' <=>
        \E i \in EventsOf(a) : log[i].kind = "AuctionDeleted" /\ taken'[i] > 0
  BY <1>1 DEF DeletionTaken
<1>3. CreationTaken(a)' <=>
        \E i \in EventsOf(a) :
          log[i].kind = "AuctionCreated" /\ taken'[i] > 0 /\ i \notin Waiting'
  BY <1>1 DEF CreationTaken
<1>4. ShownIsTaken(a)' <=>
        /\ items'[a] # None => ~ DeletionTaken(a)'
        /\ a \notin Seeded =>
             (items'[a] # None <=> CreationTaken(a)' /\ ~ DeletionTaken(a)')
  BY DEF ShownIsTaken
<1>5. ItemIsLastTaken(a)' <=>
        (items'[a] # None =>
           /\ EventsOf(a) = {} => rows[a] # None /\ items'[a].item = rows[a].item
           /\ \A i \in EventsOf(a) :
                taken'[i] > 0 /\ (\A j \in EventsOf(a) : taken'[j] > 0 => j <= i)
                  => SameItem(items'[a].item, log[i].item))
  BY <1>1 DEF ItemIsLastTaken, SameItem
<1> QED BY <1>2, <1>3, <1>4, <1>5

\* A step that leaves the deliveries of a's events, and whether a is shown, and
\* with what item, leaves the rest.
LEMMA SameShown ==
  ASSUME NEW a \in AuctionId, CalmStep(a), items'[a] = None <=> items[a] = None,
         items[a] # None => items'[a].item = items[a].item,
         \A i \in EventsOf(a) : taken'[i] = taken[i] /\ (i \in Waiting' <=> i \in Waiting)
  PROVE  ShownIsTaken(a)' /\ ItemIsLastTaken(a)'
<1>1. DeletionTaken(a)' <=> DeletionTaken(a)
  BY AfterStep DEF DeletionTaken
<1>2. CreationTaken(a)' <=> CreationTaken(a)
  BY AfterStep DEF CreationTaken
<1>3. ShownIsTaken(a)'
  BY <1>1, <1>2, AfterStep, CalmStepFacts DEF ShownIsTaken
<1>4. ItemIsLastTaken(a)'
  BY AfterStep, CalmStepFacts DEF ItemIsLastTaken
<1> QED BY <1>3, <1>4

\* The creation is saved, or refused.
LEMMA CreationShown ==
  ASSUME NEW a \in AuctionId, CalmStep(a), NEW i \in EventsOf(a),
         ConsumeAuctionCreated(i) \/ RefuseSaab(i)
  PROVE  ShownIsTaken(a)' /\ ItemIsLastTaken(a)'
<1>1. log[i].kind = "AuctionCreated" /\ taken'[i] # taken[i] /\ DOMAIN items = AuctionId
  BY CalmStepFacts, TakeFacts, HeldTypes DEF ConsumeAuctionCreated, RefuseSaab
<1>2. /\ a \notin Seeded /\ items[a] = None
      /\ \A j \in EventsOf(a) : taken[j] = 0 /\ (j # i => log[j].kind # "AuctionCreated")
  BY <1>1, CreationInTurn
<1>3. /\ i \notin Waiting /\ taken'[i] > 0
      /\ \A j \in EventsOf(a) : j # i => taken'[j] = taken[j]
  BY <1>1, InTurn
<1>4. \A j \in EventsOf(a) : taken'[j] > 0 => j = i
  BY <1>2, <1>3
<1>5. ~ DeletionTaken(a)'
  BY <1>1, <1>4, AfterStep
<1>6. CASE ConsumeAuctionCreated(i)
  <2>1. items'[a] = NewDoc(i, log[i].item) /\ Waiting' = Waiting
    BY <1>1, <1>6, CalmStepFacts DEF ConsumeAuctionCreated, Waiting
  <2>2. items'[a] # None /\ items'[a].item = log[i].item
    <3>1. i \in Int /\ log[i].item \in Item
      BY <1>1, AuctionTypes, CalmStepFacts DEF EventInv
    <3>2. NewDoc(i, log[i].item) # None
      BY <3>1, DocTypes
    <3> QED BY <2>1, <3>2 DEF NewDoc
  <2>3. CreationTaken(a)'
    BY <1>1, <1>3, <2>1, AfterStep
  <2> QED BY <1>4, <1>5, <2>2, <2>3, AfterStep DEF SameItem
<1>7. CASE RefuseSaab(i)
  <2>1. items'[a] = None /\ i \in Waiting'
    BY <1>2, <1>7 DEF RefuseSaab, Waiting
  <2>2. ~ CreationTaken(a)'
    BY <1>4, <2>1, AfterStep
  <2> QED BY <2>1, <2>2, AfterStep
<1> QED BY <1>6, <1>7

\* The creation that was refused is saved as a Volvo.
LEMMA ReissueShown ==
  ASSUME NEW a \in AuctionId, CalmStep(a), NEW i \in EventsOf(a), ConsumeReissued(i)
  PROVE  ShownIsTaken(a)' /\ ItemIsLastTaken(a)'
<1>1. i \in Waiting /\ i \notin Waiting' /\ taken' = taken
  <2>1. i \in Waiting /\ i \in reissued
    BY DEF ConsumeReissued, Waiting
  <2>2. ~ Take(i, "AuctionCreated")
    BY <2>1, CalmStepFacts, TakeFacts, InTurn
  <2> QED BY <2>1, <2>2, CalmStepFacts DEF ConsumeReissued, Waiting, InOrder
<1>2. /\ log[i].kind = "AuctionCreated" /\ log[i].item[Make] = Saab /\ taken[i] > 0
      /\ \A j \in EventsOf(a) : j # i => taken[j] = 0
  BY <1>1, ReissueInTurn
<1>3. items'[a] = NewDoc(i, AsVolvo(log[i].item))
  BY CalmStepFacts, HeldTypes DEF ConsumeReissued
<1>4. items'[a] # None /\ items'[a].item = AsVolvo(log[i].item)
  <2>1. i \in Int /\ log[i].item \in Item
    BY <1>2, AuctionTypes, CalmStepFacts DEF EventInv
  <2>2. NewDoc(i, AsVolvo(log[i].item)) # None
    BY <2>1, DocTypes
  <2> QED BY <1>3, <2>2 DEF NewDoc
<1>5. ~ DeletionTaken(a)' /\ CreationTaken(a)'
  BY <1>1, <1>2, AfterStep
<1>6. \A j \in EventsOf(a) : taken'[j] > 0 => j = i
  BY <1>1, <1>2
<1> QED BY <1>2, <1>4, <1>5, <1>6, AfterStep DEF SameItem

\* An update modifies the document, if there is one.
LEMMA UpdateShown ==
  ASSUME NEW a \in AuctionId, CalmStep(a), NEW i \in EventsOf(a), ConsumeAuctionUpdated(i)
  PROVE  ShownIsTaken(a)' /\ ItemIsLastTaken(a)'
<1>1. log[i].kind = "AuctionUpdated" /\ taken'[i] # taken[i]
  BY CalmStepFacts, TakeFacts DEF ConsumeAuctionUpdated
<1>2. /\ taken[i] = 0 /\ taken'[i] > 0
      /\ \A j \in EventsOf(a) : j # i => taken'[j] = taken[j]
  BY <1>1, InTurn
<1>3. Waiting' = Waiting
  BY DEF ConsumeAuctionUpdated, Waiting
<1>4. /\ items'[a] = None <=> items[a] = None
      /\ items[a] # None => items'[a].item = log[i].item
  <2>1. items[a] \in Doc \union {None} /\ DOMAIN items = AuctionId
    BY CalmStepFacts, HeldTypes
  <2>2. CASE items[a] = None
    BY <2>2, CalmStepFacts DEF ConsumeAuctionUpdated
  <2>3. CASE items[a] # None
    <3> DEFINE x == [items[a] EXCEPT !.item = log[i].item]
    <3>1. items'[a] = x
      BY <2>1, <2>3, CalmStepFacts DEF ConsumeAuctionUpdated
    <3>2. x.item = log[i].item
      BY <2>1, <2>3 DEF Doc
    <3>3. log[i].item \in Item
      BY <1>1, AuctionTypes, CalmStepFacts DEF EventInv
    <3>4. x # None
      BY <2>1, <2>3, <3>3, NoneAssumption DEF Doc
    <3> QED BY <2>3, <3>1, <3>2, <3>4
  <2> QED BY <2>2, <2>3
<1>5. DeletionTaken(a)' <=> DeletionTaken(a)
  BY <1>1, <1>2, AfterStep DEF DeletionTaken
<1>6. CreationTaken(a)' <=> CreationTaken(a)
  BY <1>1, <1>2, <1>3, AfterStep DEF CreationTaken
<1>7. ShownIsTaken(a)'
  BY <1>4, <1>5, <1>6, AfterStep, CalmStepFacts DEF ShownIsTaken
<1>8. ASSUME NEW j \in EventsOf(a), taken'[j] > 0, \A k \in EventsOf(a) : taken'[k] > 0 => k <= j
      PROVE  j = i
  <2>1. i <= j
    BY <1>2, <1>8
  <2>2. j # i => taken[j] > 0 /\ i < j
    BY <1>2, <1>8, <2>1, CalmStepFacts
  <2> QED BY <1>2, <2>2, CalmStepFacts DEF InOrder
<1> QED BY <1>4, <1>7, <1>8, AfterStep DEF SameItem

\* A deletion leaves no document.
LEMMA DeletionShown ==
  ASSUME NEW a \in AuctionId, CalmStep(a), NEW i \in EventsOf(a), ConsumeAuctionDeleted(i)
  PROVE  ShownIsTaken(a)' /\ ItemIsLastTaken(a)'
<1>1. log[i].kind = "AuctionDeleted" /\ taken'[i] # taken[i]
  BY CalmStepFacts, TakeFacts DEF ConsumeAuctionDeleted
<1>2. DeletionTaken(a)'
  BY <1>1, InTurn, AfterStep
<1>3. items'[a] = None
  BY CalmStepFacts, HeldTypes DEF ConsumeAuctionDeleted
<1> QED BY <1>2, <1>3, AfterStep

\* A handler that was not overtaken finds the document that it loaded.
LEMMA SaveShown ==
  ASSUME NEW a \in AuctionId, CalmStep(a), NEW h \in Handler, SaveDocument(h), work[h].auctionId = a
  PROVE  ShownIsTaken(a)' /\ ItemIsLastTaken(a)'
<1>1. /\ work[h] # None /\ work[h].loaded \in Doc /\ work[h].doc \in Doc
      /\ work[h].loaded = items[a] /\ DOMAIN items = AuctionId
  BY CalmStepFacts, HeldTypes DEF SaveDocument, Overtaken
<1>2. items'[a] = work[h].doc /\ work[h].doc.item = items[a].item
  BY <1>1, CalmStepFacts DEF SaveDocument, WorkInv, Extends
<1>3. taken' = taken /\ Waiting' = Waiting
  BY DEF SaveDocument, Waiting
<1> QED BY <1>1, <1>2, <1>3, DocTypes, SameShown

\* The synchronisation saves what the row still is, when every event has been
\* taken.
LEMMA SyncShown ==
  ASSUME NEW a \in AuctionId, CalmStep(a), SaveItem(a)
  PROVE  ShownIsTaken(a)' /\ ItemIsLastTaken(a)'
<1>1. sync.docs[a] # None /\ sync'.docs[a] = None
  <2> DEFINE docs == [sync.docs EXCEPT ![a] = None]
  <2>1. sync' = IF docs = NoDocs THEN Done ELSE [sync EXCEPT !.docs = docs]
    BY DEF SaveItem
  <2>2. docs[a] = None /\ NoDocs[a] = None /\ Done.docs = NoDocs /\ DOMAIN sync = {"at", "cut", "docs"}
    BY CalmStepFacts, HeldTypes DEF NoDocs, Done
  <2>3. sync'.docs = docs \/ sync'.docs = NoDocs
    <3> HIDE DEF docs
    <3> QED BY <2>1, <2>2
  <2> HIDE DEF docs
  <2> QED BY <2>2, <2>3 DEF SaveItem
<1>2. Settled(a) /\ rows[a] # None /\ rows[a].item = sync.docs[a].item
  BY <1>1 DEF CalmStep, Disturbed
<1>3. items'[a] = sync.docs[a] /\ taken' = taken /\ Waiting' = Waiting
  BY CalmStepFacts, HeldTypes DEF SaveItem, Waiting
<1>4. \A i \in EventsOf(a) : taken'[i] > 0 /\ i \notin Waiting' /\ log[i].kind # "AuctionDeleted"
  BY <1>2, <1>3, CalmStepFacts, RowGoesOn DEF Settled, Waiting
<1>5. a \notin Seeded => \E i \in EventsOf(a) : log[i].kind = "AuctionCreated"
  BY <1>2, CalmStepFacts, RowGoesOn
<1>6. ShownIsTaken(a)'
  BY <1>1, <1>3, <1>4, <1>5, AfterStep
<1>7. ItemIsLastTaken(a)'
  BY <1>2, <1>3, <1>4, CalmStepFacts, AfterStep DEF RowIsLast, SameItem
<1> QED BY <1>6, <1>7

\* No step of the search service that leaves a alone disturbs what it shows of a.
LEMMA CalmSearchStep ==
  ASSUME NEW a \in AuctionId, CalmStep(a)
  PROVE  Undisturbed(a)'
<1>1. ~ Overtaken(a)'
  BY DEF CalmStep, Disturbed
<1>2. InOrder(a)'
  BY InOrderStep
<1>3. ShownIsTaken(a)' /\ ItemIsLastTaken(a)'
  <2>1. CASE Untouched(a)
    BY <2>1, SameShown DEF Untouched
  <2> QED
    BY <2>1, CalmCases, CreationShown, ReissueShown, UpdateShown, DeletionShown, SaveShown, SyncShown
<1>4. RowIsLast(a)' /\ SeededFirst(a)'
  BY CalmStepFacts DEF CalmStep, RowIsLast, SeededFirst, EventsOf
<1> QED BY <1>1, <1>2, <1>3, <1>4 DEF Undisturbed
-----------------------------------------------------------------------------
(* Auctions that nothing has disturbed: the steps of the auction service *)

\* The events of a after a step that commits one, n, which is not yet taken.
LEMMA EventsAfter ==
  ASSUME Proved!IInv, SearchInv, AuctionStep, NEW a \in AuctionId,
         NEW k \in {"AuctionCreated", "AuctionUpdated", "AuctionDeleted"},
         NEW b \in AuctionId, NEW item \in Item \union {None}, Proved!Committed(k, b, item)
  PROVE  LET n == Len(log) + 1
         IN /\ EventsOf(a)' = EventsOf(a) \union (IF a = b THEN {n} ELSE {})
            /\ \A i \in EventsOf(a) : i \in Int /\ i < n /\ log'[i] = log[i]
            /\ n \in Int /\ log'[n].kind = k /\ log'[n].item = item
            /\ taken[n] = 0 /\ n \notin Waiting
<1> DEFINE n == Len(log) + 1
<1>1. Proved!TypeOK /\ SearchTypeOK /\ EventInv
  BY DEF Proved!IInv, SearchInv
<1>2. /\ Len(log') = n /\ \A i \in 1..Len(log) : log'[i] = log[i]
      /\ log'[n].kind = k /\ log'[n].auctionId = b /\ log'[n].item = item
  BY <1>1, EventAppended
<1>3. Len(log) \in Nat /\ n <= MaxEvents /\ MaxEvents \in Nat
  BY <1>1, <1>2, AuctionTypes, LogGrows, BoundAssumption
<1>4. 1..n = 1..Len(log) \union {n} /\ n \notin 1..Len(log) /\ n \in 1..MaxEvents
  BY <1>3
<1>5. EventsOf(a)' = EventsOf(a) \union (IF a = b THEN {n} ELSE {})
  <2>1. EventsOf(a)' = {i \in 1..n : log'[i].auctionId = a}
    BY <1>2 DEF EventsOf
  <2> HIDE DEF n
  <2> QED BY <1>2, <1>4, <2>1 DEF EventsOf
<1>6. \A i \in EventsOf(a) : i \in Int /\ i < n /\ log'[i] = log[i]
  BY <1>2, <1>3 DEF EventsOf
<1>7. taken[n] = 0
  BY <1>1, <1>3, <1>4 DEF EventInv
<1>8. n \notin Waiting
  BY <1>1, <1>4 DEF SearchTypeOK, Waiting
<1> QED BY <1>2, <1>3, <1>5, <1>6, <1>7, <1>8

\* A step of the auction service that commits no event.
LEMMA QuietCalm ==
  ASSUME NEW a \in AuctionId, Undisturbed(a), UNCHANGED searchVars, Proved!Quiet
  PROVE  Undisturbed(a)'
<1>1. /\ items' = items /\ work' = work /\ taken' = taken /\ Waiting' = Waiting
      /\ faults' = faults /\ reissued' = reissued
  BY DEF searchVars, Waiting
<1>2. log' = log /\ EventsOf(a)' = EventsOf(a)
  BY DEF Proved!Quiet, EventsOf
<1>3. /\ rows'[a] = None <=> rows[a] = None
      /\ rows[a] # None => rows'[a].item = rows[a].item
  BY DEF Proved!Quiet
<1>4. ~ Overtaken(a)'
  BY <1>1 DEF Undisturbed, Overtaken
<1>5. InOrder(a)'
  BY <1>1, <1>2 DEF Undisturbed, InOrder
<1>6. RowIsLast(a)' /\ SeededFirst(a)'
  BY <1>2, <1>3 DEF Undisturbed, RowIsLast, SeededFirst, Proved!Quiet
<1>7. ShownIsTaken(a)'
  BY <1>1, <1>2 DEF Undisturbed, ShownIsTaken, DeletionTaken, CreationTaken
<1>8. ItemIsLastTaken(a)'
  BY <1>1, <1>2, <1>3 DEF Undisturbed, ItemIsLastTaken, SameItem
<1> QED BY <1>4, <1>5, <1>6, <1>7, <1>8 DEF Undisturbed

\* A step of the auction service that seeds, but not auction a once it had events.
LEMMA ReseededCalm ==
  ASSUME Proved!TypeOK, Proved!LifeInv, NEW a \in AuctionId, Undisturbed(a), ~ Disturbed(a),
         UNCHANGED searchVars, Proved!Reseeded
  PROVE  Undisturbed(a)'
<1>1. /\ items' = items /\ work' = work /\ taken' = taken /\ Waiting' = Waiting
      /\ faults' = faults /\ reissued' = reissued
  BY DEF searchVars, Waiting
<1>2. /\ log' = log /\ EventsOf(a)' = EventsOf(a) /\ rows[a] = None
      /\ \A r \in Request : req'[r] = None
  BY DEF Proved!Reseeded, EventsOf
<1>3. ~ Overtaken(a)' /\ InOrder(a)'
  BY <1>1, <1>2 DEF Undisturbed, Overtaken, InOrder
<1>4. ShownIsTaken(a)'
  BY <1>1, <1>2 DEF Undisturbed, ShownIsTaken, DeletionTaken, CreationTaken
<1>5. CASE EventsOf(a) = {}
  <2>1. items[a] = None
    BY <1>2, <1>5 DEF Undisturbed, ItemIsLastTaken
  <2> QED BY <1>1, <1>2, <1>3, <1>4, <1>5, <2>1
          DEF Undisturbed, SeededFirst, RowIsLast, ItemIsLastTaken
<1>6. CASE EventsOf(a) # {}
  <2>1. seedings'[a] = seedings[a]
    BY <1>6 DEF Disturbed
  <2>2. Len(log) \notin seedings[a]
    <3>1. \A d \in Proved!Ends(a) : d <= Len(log)
      BY AuctionTypes DEF Proved!Ends
    <3> QED BY <1>2, <3>1 DEF Proved!LifeInv, Proved!RowIffAnnounced, Proved!Begins
  <2>3. rows'[a] = None
    BY <2>1, <2>2 DEF Proved!Reseeded
  <2>4. SeededFirst(a)' /\ RowIsLast(a)'
    BY <1>2, <2>1, <2>3 DEF Undisturbed, SeededFirst, RowIsLast
  <2>5. ItemIsLastTaken(a)'
    BY <1>1, <1>2, <1>6 DEF Undisturbed, ItemIsLastTaken, SameItem
  <2> QED BY <1>3, <1>4, <2>4, <2>5 DEF Undisturbed
<1> QED BY <1>5, <1>6

\* After a step that commits an event of its own, the row is as the event says,
\* unless two requests overlapped.
LEMMA RowAfter ==
  ASSUME Proved!LifeInv, NEW a \in AuctionId, RowIsLast(a), ~ Disturbed(a),
         NEW k, NEW item, Proved!Committed(k, a, item), rows'[a] # None
  PROVE  /\ item = rows'[a].item
         /\ \A r \in Request : req'[r] # None /\ req'[r].auctionId = a =>
              req'[r].loaded = rows'[a].item
<1>1. \A r \in Request : req'[r] # None => req'[r] = req[r]
  BY DEF Proved!Committed
<1>2. CASE k = "AuctionCreated"
  <2>1. rows'[a].item = item /\ ~ Proved!Known(a)
    BY <1>2 DEF Proved!Committed
  <2>2. \A r \in Request : req[r] # None => req[r].auctionId # a
    BY <2>1 DEF Proved!LifeInv, Proved!KnownInv
  <2> QED BY <1>1, <2>1, <2>2
<1>3. ASSUME NEW r \in Request, Proved!Updated(r, a, item)
      PROVE  /\ item = rows'[a].item
             /\ \A s \in Request : ~ (req'[s] # None /\ req'[s].auctionId = a)
  <2>1. /\ req[r] # None /\ req[r].auctionId = a /\ req'[r] = None /\ rows[a] # None
        /\ req[r].loaded = rows[a].item => rows'[a].item = item
    BY <1>3 DEF Proved!Updated
  <2>2. req[r].loaded = rows[a].item
    BY <2>1 DEF RowIsLast
  <2>3. ASSUME NEW s \in Request, req'[s] # None, req'[s].auctionId = a PROVE FALSE
    <3>1. s # r /\ req[s] # None /\ req[s].auctionId = a
      BY <1>1, <2>1, <2>3
    <3> QED BY <2>1, <3>1 DEF Disturbed
  <2> QED BY <2>1, <2>2, <2>3
<1> QED BY <1>2, <1>3 DEF Proved!Committed

\* A step of the auction service that commits an event.
LEMMA CommittedCalm ==
  ASSUME Proved!IInv, SearchInv, AuctionStep, NEW a \in AuctionId, Undisturbed(a), ~ Disturbed(a),
         NEW k \in {"AuctionCreated", "AuctionUpdated", "AuctionDeleted"},
         NEW b \in AuctionId, NEW item \in Item \union {None}, Proved!Committed(k, b, item)
  PROVE  Undisturbed(a)'
<1> DEFINE n == Len(log) + 1
<1>1. /\ items' = items /\ work' = work /\ taken' = taken /\ Waiting' = Waiting
      /\ faults' = faults /\ reissued' = reissued
  BY DEF AuctionStep, searchVars, Waiting
<1>2. /\ EventsOf(a)' = EventsOf(a) \union (IF a = b THEN {n} ELSE {})
      /\ \A i \in EventsOf(a) : i \in Int /\ i < n /\ log'[i] = log[i]
      /\ n \in Int /\ log'[n].kind = k /\ log'[n].item = item
      /\ taken[n] = 0 /\ n \notin Waiting
  BY EventsAfter
<1> HIDE DEF n
<1>3. EventsOf(a) \subseteq EventsOf(a)' /\ EventsOf(a)' \subseteq EventsOf(a) \union {n}
  BY <1>2
<1>4. ~ Overtaken(a)'
  BY <1>1 DEF Undisturbed, Overtaken
<1>5. InOrder(a)'
  <2>1. ASSUME NEW i \in EventsOf(a)', NEW j \in EventsOf(a)', j < i, taken'[i] > 0
        PROVE  taken'[j] > 0 /\ j \notin Waiting'
    <3>1. i \in EventsOf(a) /\ j \in EventsOf(a)
      BY <1>1, <1>2, <1>3, <2>1
    <3> QED BY <1>1, <2>1, <3>1 DEF Undisturbed, InOrder
  <2>2. ASSUME NEW i \in EventsOf(a)' PROVE i \notin faults' \intersect reissued'
    BY <1>1, <1>2, <1>3 DEF Undisturbed, InOrder, Waiting
  <2> QED BY <2>1, <2>2 DEF InOrder
<1>6. RowIsLast(a)'
  <2>1. CASE a # b
    <3>1. rows'[a] = rows[a] /\ EventsOf(a)' = EventsOf(a)
      BY <1>2, <2>1 DEF Proved!Committed
    <3>2. \A r \in Request : req'[r] # None => req'[r] = req[r]
      BY DEF Proved!Committed
    <3> QED BY <1>2, <3>1, <3>2 DEF Undisturbed, RowIsLast
  <2>2. CASE a = b
    <3>1. ASSUME rows'[a] # None
          PROVE  /\ item = rows'[a].item
                 /\ \A r \in Request : req'[r] # None /\ req'[r].auctionId = a =>
                      req'[r].loaded = rows'[a].item
      BY <2>2, <3>1, RowAfter DEF Undisturbed, Proved!IInv
    <3>2. ASSUME NEW i \in EventsOf(a)', \A j \in EventsOf(a)' : j <= i PROVE i = n
      BY <1>2, <2>2, <3>2
    <3> QED BY <1>2, <3>1, <3>2 DEF RowIsLast
  <2> QED BY <2>1, <2>2
<1>11. SeededFirst(a)'
  <2>1. seedings' = seedings /\ \A m \in seedings[a] : m \in Int /\ m < n
    BY AuctionTypes DEF n, Proved!Committed, Proved!IInv, Proved!LifeInv, Proved!SeedInv
  <2> QED BY <1>3, <2>1 DEF Undisturbed, SeededFirst
<1>7. DeletionTaken(a)' <=> DeletionTaken(a)
  BY <1>1, <1>2, <1>3 DEF DeletionTaken
<1>8. CreationTaken(a)' <=> CreationTaken(a)
  BY <1>1, <1>2, <1>3 DEF CreationTaken
<1>9. ShownIsTaken(a)'
  BY <1>1, <1>7, <1>8 DEF Undisturbed, ShownIsTaken
<1>10. ItemIsLastTaken(a)'
  <2>1. ASSUME items[a] # None, EventsOf(a)' = {}
        PROVE  rows'[a] # None /\ items[a].item = rows'[a].item
    <3>1. a # b /\ EventsOf(a) = {}
      BY <1>2, <2>1
    <3> QED BY <2>1, <3>1 DEF Undisturbed, ItemIsLastTaken, Proved!Committed
  <2>2. ASSUME items[a] # None, NEW i \in EventsOf(a)', taken[i] > 0,
               \A j \in EventsOf(a)' : taken[j] > 0 => j <= i
        PROVE  SameItem(items[a].item, log'[i].item)
    <3>1. i \in EventsOf(a) /\ log'[i] = log[i]
      BY <1>2, <1>3, <2>2
    <3> QED BY <1>3, <2>2, <3>1 DEF Undisturbed, ItemIsLastTaken
  <2> QED BY <1>1, <2>1, <2>2 DEF ItemIsLastTaken, SameItem
<1> QED BY <1>4, <1>5, <1>6, <1>9, <1>10, <1>11 DEF Undisturbed

\* The steps of both services keep the invariant of undisturbed auctions.
LEMMA CalmKept ==
  ASSUME Proved!IInv, SearchInv, CalmInv, [CarNext]_carVars
  PROVE  CalmInv'
<1>1. calm' \subseteq calm
  BY DEF CarNext, AuctionStep, SearchStep, Watch, carVars
<1>2. ASSUME NEW a \in calm' PROVE Undisturbed(a)'
  <2>1. CASE AuctionStep
    <3>1. a \in calm /\ a \in AuctionId /\ ~ Disturbed(a) /\ Undisturbed(a) /\ UNCHANGED searchVars
      BY <2>1 DEF AuctionStep, Watch, CalmInv
    <3>2. Proved!TypeOK /\ Proved!LifeInv
      BY DEF Proved!IInv
    <3> QED BY <2>1, <3>1, <3>2, QuietCalm, ReseededCalm, CommittedCalm, AuctionView
  <2>2. CASE SearchStep
    <3>1. a \in calm /\ a \in AuctionId /\ ~ Disturbed(a) /\ Undisturbed(a)
      BY <2>2 DEF SearchStep, Watch, CalmInv
    <3>2. CalmStep(a)
      BY <2>2, <3>1 DEF SearchStep, CalmStep, Proved!IInv, auctionVars
    <3> QED BY <3>1, <3>2, CalmSearchStep
  <2>3. CASE UNCHANGED carVars
    <3>1. Undisturbed(a)
      BY <2>3 DEF carVars, CalmInv
    <3>2. /\ rows' = rows /\ log' = log /\ seedings' = seedings /\ req' = req
          /\ items' = items /\ work' = work
          /\ taken' = taken /\ faults' = faults /\ reissued' = reissued
      BY <2>3 DEF carVars, auctionVars, searchVars
    <3>3. ~ Overtaken(a)' /\ InOrder(a)' /\ SeededFirst(a)' /\ RowIsLast(a)'
      BY <3>1, <3>2
         DEF Undisturbed, Overtaken, InOrder, SeededFirst, RowIsLast, EventsOf, Waiting
    <3>4. ShownIsTaken(a)'
      BY <3>1, <3>2
         DEF Undisturbed, ShownIsTaken, DeletionTaken, CreationTaken, EventsOf, Waiting
    <3>5. ItemIsLastTaken(a)'
      BY <3>1, <3>2 DEF Undisturbed, ItemIsLastTaken, EventsOf, SameItem
    <3> QED BY <3>3, <3>4, <3>5 DEF Undisturbed
  <2> QED BY <2>1, <2>2, <2>3 DEF CarNext
<1> QED BY <1>1, <1>2 DEF CalmInv

\* At the start there are no events, and nothing is shown.
LEMMA CalmInit == CarInit => CalmInv
<1> SUFFICES ASSUME CarInit, NEW a \in AuctionId PROVE Undisturbed(a)
  BY DEF CarInit, CalmInv
<1>1. EventsOf(a) = {}
  BY DEF CarInit, Auction!Init, EventsOf
<1>2. items[a] = None /\ ~ Overtaken(a) /\ \A r \in Request : req[r] = None
  BY DEF CarInit, Init, Auction!Init, NoDocs, Overtaken
<1> QED
  BY <1>1, <1>2
     DEF Undisturbed, InOrder, SeededFirst, RowIsLast, ShownIsTaken, DeletionTaken,
         CreationTaken, ItemIsLastTaken

\* What the invariant says of an auction whose events have all been taken.
LEMMA MirrorsRow ==
  ASSUME Proved!IInv, SearchInv, NEW a \in AuctionId, Undisturbed(a), Settled(a)
  PROVE  /\ items[a] # None => rows[a] # None /\ SameItem(items[a].item, rows[a].item)
         /\ rows[a] # None /\ a \notin Seeded => items[a] # None
<1>1. /\ Proved!TypeOK /\ Proved!LifeInv /\ ShownInv
      /\ SeededFirst(a) /\ RowIsLast(a) /\ ShownIsTaken(a) /\ ItemIsLastTaken(a)
  BY DEF Proved!IInv, SearchInv, Undisturbed
<1>2. \A i \in EventsOf(a) : taken[i] > 0 /\ i \notin Waiting
  BY DEF Settled, Waiting
<1>3. DeletionTaken(a) <=> Proved!Ends(a) # {}
  BY <1>2 DEF DeletionTaken, Proved!Ends, EventsOf
<1>4. CreationTaken(a) <=> \E i \in EventsOf(a) : log[i].kind = "AuctionCreated"
  BY <1>2 DEF CreationTaken
<1>5. ASSUME items[a] # None PROVE rows[a] # None
  <2>1. Known(a) /\ Proved!Ends(a) = {}
    BY <1>1, <1>3, <1>5 DEF ShownInv, ShownIsTaken
  <2>2. Proved!Begins(a) # {}
    BY <2>1 DEF Proved!Begins, Known, WasCreated
  <2> QED BY <1>1, <2>1, <2>2 DEF Proved!LifeInv, Proved!RowIffAnnounced
<1>6. ASSUME items[a] # None PROVE SameItem(items[a].item, rows[a].item)
  <2>1. CASE EventsOf(a) = {}
    BY <1>1, <1>6, <2>1 DEF ItemIsLastTaken, SameItem
  <2>2. CASE EventsOf(a) # {}
    <3>1. PICK i \in EventsOf(a) : \A j \in EventsOf(a) : j <= i
      BY <1>1, <2>2, AuctionTypes, LastOne DEF EventsOf
    <3>2. SameItem(items[a].item, log[i].item)
      BY <1>1, <1>2, <1>6, <3>1 DEF ItemIsLastTaken
    <3>3. log[i].item = rows[a].item
      BY <1>1, <1>5, <1>6, <3>1 DEF RowIsLast
    <3> QED BY <3>2, <3>3
  <2> QED BY <2>1, <2>2
<1>7. rows[a] # None /\ a \notin Seeded => items[a] # None
  BY <1>1, <1>4, RowGoesOn DEF DeletionTaken, ShownIsTaken
<1> QED BY <1>5, <1>6, <1>7

\* The whole invariant of the composition.
THEOREM CarInvariant == CarSpec => []CarInv
<1>1. Proved!IInv /\ SearchInv /\ ToldInv /\ CalmInv /\ [CarNext]_carVars => ToldInv' /\ CalmInv'
  BY ToldStep, CalmKept
<1> QED BY <1>1, SearchInvariant, ToldInit, CalmInit, PTL DEF CarSpec, CarInv

\* Once every event of an auction has been taken, in order and with nothing in
\* between that disturbs it, the search shows exactly the row: it is there or
\* not there as the row is, and with its item, whatever else goes on.
THEOREM MirrorsRows == CarSpec => []SearchMirrors
<1>1. Proved!IInv /\ SearchInv /\ CalmInv => SearchMirrors
  BY MirrorsRow DEF CalmInv, SearchMirrors
<1> QED BY <1>1, SearchInvariant, CarInvariant, PTL DEF CarInv
=============================================================================
