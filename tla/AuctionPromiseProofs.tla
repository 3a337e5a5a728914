------------------------ MODULE AuctionPromiseProofs ------------------------
(***************************************************************************)
(* What the auction service promises about its rows and its events, proved *)
(* for all values of the constants.  Each save writes one column of one    *)
(* row (UpdateWrites, HighBidWrites, ResultWrites), so the argument is     *)
(* about what the writer had loaded when others wrote in between.          *)
(***************************************************************************)
EXTENDS AuctionServiceProofs, FiniteSetTheorems

\* The steps of the service, with what they are applied to.
LEMMA StepCases ==
  ASSUME [Next]_vars
  PROVE  \/ \E a \in AuctionId, i \in Item : CreateAuction(a, i)
         \/ \E r \in Request, u \in User, a \in AuctionId, op \in {"update", "delete"},
               p \in Patch : Load(r, u, a, op, p)
         \/ \E r \in Request : CommitUpdate(r) \/ CommitDelete(r) \/ FailRequest(r)
         \/ \E c \in Consumer, m \in Messages : DeliverToNoRow(c, m)
         \/ \E c \in Consumer, m \in BidPlaced : LoadForBid(c, m)
         \/ \E c \in Consumer, m \in AuctionFinished : LoadForResult(c, m)
         \/ \E c \in Consumer : SaveHighBid(c) \/ SaveResult(c) \/ FailJob(c)
         \/ Restart
         \/ UNCHANGED vars
<1>1. NoPatch \in Patch
  BY DEF NoPatch, Patch
<1>2. ASSUME NEW r \in Request, RequestStep(r)
      PROVE  \/ CommitUpdate(r) \/ CommitDelete(r) \/ FailRequest(r)
             \/ \E u \in User, a \in AuctionId, op \in {"update", "delete"}, p \in Patch :
                  Load(r, u, a, op, p)
  BY <1>1, <1>2 DEF RequestStep, DeleteAuction, UpdateAuction
<1>3. ASSUME NEW c \in Consumer, ConsumerStep(c)
      PROVE  \/ \E m \in Messages : DeliverToNoRow(c, m)
             \/ \E m \in BidPlaced : LoadForBid(c, m)
             \/ \E m \in AuctionFinished : LoadForResult(c, m)
             \/ SaveHighBid(c) \/ SaveResult(c) \/ FailJob(c)
  BY <1>3 DEF ConsumerStep
<1> QED BY <1>2, <1>3 DEF Next

\* A restart that finds a row leaves the rows; one that does not may seed.
LEMMA RestartFacts ==
  ASSUME TypeOK, Restart
  PROVE  /\ log' = log /\ deliveries' = deliveries
         /\ \A r \in Request : req'[r] = None
         /\ \A c \in Consumer : job'[c] = None
         /\ \/ rows' = rows /\ seedings' = seedings
            \/ /\ rows = NoRows /\ rows' = SeededRows(2 * Len(log) + 1)
               /\ \A a \in AuctionId :
                    seedings'[a] = IF a \in Seeded THEN seedings[a] \union {Len(log)} ELSE {}
               /\ \A a \in AuctionId : rows[a] = None
               /\ \A a \in AuctionId : rows'[a] # None <=> a \in Seeded
               /\ \A a \in Seeded : /\ rows'[a].item = SeedItem[a]
                                    /\ rows'[a].currentHighBid = None
                                    /\ rows'[a].sale.winner = None
                                    /\ rows'[a].sale.soldAmount = None
                                    /\ rows'[a].sale.status # "Finished"
<1>1. /\ log' = log /\ deliveries' = deliveries
      /\ \A r \in Request : req'[r] = None
      /\ \A c \in Consumer : job'[c] = None
  BY DEF Restart
<1>2. CASE SeedData
  <2> DEFINE t == 2 * Len(log) + 1
  <2>1. t \in Int
    BY DEF TypeOK
  <2>2. /\ rows = NoRows /\ rows' = SeededRows(t)
        /\ \A a \in AuctionId :
             seedings'[a] = IF a \in Seeded THEN seedings[a] \union {Len(log)} ELSE {}
    BY <1>2 DEF SeedData
  <2>3. \A a \in AuctionId : rows[a] = None
    BY <2>2 DEF NoRows
  <2> HIDE DEF t
  <2>4. \A a \in AuctionId : rows'[a] = IF a \in Seeded THEN SeedRow(a, t) ELSE None
    BY <2>2 DEF SeededRows
  <2>5. \A a \in Seeded : a \in AuctionId /\ rows'[a] = SeedRow(a, t)
    BY <2>4, SeededAssumption
  <2>6. \A a \in AuctionId : rows'[a] # None <=> a \in Seeded
    BY <2>1, <2>4, SeedRowType
  <2>7. \A a \in Seeded : /\ rows'[a].item = SeedItem[a]
                          /\ rows'[a].currentHighBid = None
                          /\ rows'[a].sale.winner = None
                          /\ rows'[a].sale.soldAmount = None
                          /\ rows'[a].sale.status # "Finished"
    BY <2>1, <2>5, SeedRowType
  <2> QED BY <1>1, <2>2, <2>3, <2>6, <2>7 DEF t
<1>3. CASE UNCHANGED <<rows, seedings>>
  BY <1>1, <1>3
<1> QED BY <1>2, <1>3 DEF Restart

\* What an event changes about which auctions are created, and alive.
LEMMA EmitHistory ==
  ASSUME TypeOK, SeedInv, seedings' = seedings,
         NEW k \in {"AuctionCreated", "AuctionUpdated", "AuctionDeleted"},
         NEW a \in AuctionId, NEW item \in Item \union {None}, Emit(k, a, item)
  PROVE  \A b \in AuctionId :
           /\ WasCreated(b)' <=> WasCreated(b) \/ (b = a /\ k = "AuctionCreated")
           /\ (b # a \/ k = "AuctionUpdated") => (Alive(b)' <=> Alive(b))
           /\ b = a /\ k = "AuctionCreated" => Alive(b)'
           /\ b = a /\ k = "AuctionDeleted" => ~ Alive(b)'
<1>1. /\ Len(log') = Len(log) + 1 /\ Len(log) \in Nat
      /\ \A i \in 1..Len(log) : log'[i] = log[i]
      /\ log'[Len(log) + 1].kind = k /\ log'[Len(log) + 1].auctionId = a
  BY EmitFacts DEF TypeOK
<1>2. \A i : i \in 1..Len(log') <=> i \in 1..Len(log) \/ i = Len(log) + 1
  BY <1>1
<1> SUFFICES ASSUME NEW b \in AuctionId
             PROVE  /\ WasCreated(b)' <=> WasCreated(b) \/ (b = a /\ k = "AuctionCreated")
                    /\ (b # a \/ k = "AuctionUpdated") => (Alive(b)' <=> Alive(b))
                    /\ b = a /\ k = "AuctionCreated" => Alive(b)'
                    /\ b = a /\ k = "AuctionDeleted" => ~ Alive(b)'
  OBVIOUS
<1>3. WasCreated(b)' <=> WasCreated(b) \/ (b = a /\ k = "AuctionCreated")
  BY <1>1, <1>2 DEF WasCreated
<1>4. seedings'[b] = seedings[b] /\ seedings[b] \subseteq 0..Len(log)
  BY DEF SeedInv
<1>5. Begins(b)' = IF b = a /\ k = "AuctionCreated" THEN Begins(b) \union {Len(log) + 1}
                   ELSE Begins(b)
  BY <1>1, <1>2, <1>4 DEF Begins
<1>6. Ends(b)' = IF b = a /\ k = "AuctionDeleted" THEN Ends(b) \union {Len(log) + 1} ELSE Ends(b)
  BY <1>1, <1>2 DEF Ends
<1>7. Begins(b) \subseteq 0..Len(log) /\ Ends(b) \subseteq 1..Len(log)
  BY <1>1, <1>4 DEF Begins, Ends
<1>8. (b # a \/ k = "AuctionUpdated") => (Alive(b)' <=> Alive(b))
  BY <1>5, <1>6 DEF Alive
<1>9. b = a /\ k = "AuctionCreated" => Alive(b)'
  BY <1>1, <1>5, <1>6, <1>7 DEF Alive
<1>10. b = a /\ k = "AuctionDeleted" => ~ Alive(b)'
  BY <1>1, <1>5, <1>6, <1>7 DEF Alive
<1> QED BY <1>3, <1>8, <1>9, <1>10

\* An auction that was deleted and is alive was seeded again in between.
LEMMA SeededSince ==
  ASSUME TypeOK, SeedInv, EventsFormALife, NEW a \in AuctionId, Alive(a),
         NEW i \in 1..Len(log), log[i].auctionId = a, log[i].kind = "AuctionDeleted"
  PROVE  \E n \in seedings[a] : i <= n /\ n < Len(log) + 1
<1>1. Len(log) \in Nat
  BY DEF TypeOK
<1>2. PICK n \in Begins(a) : \A d \in Ends(a) : d <= n
  BY DEF Alive
<1>3. i <= n
  BY <1>2 DEF Ends
<1>4. CASE n \in seedings[a]
  BY <1>1, <1>3, <1>4 DEF SeedInv
<1>5. CASE n \in 1..Len(log) /\ log[n].auctionId = a /\ log[n].kind = "AuctionCreated"
  <2>1. i < n
    BY <1>1, <1>3, <1>5
  <2> QED BY <1>5, <2>1 DEF EventsFormALife
<1> QED BY <1>2, <1>4, <1>5 DEF Begins

\* An event keeps the log a sequence of lives if its auction was not known
\* before its creation, and alive before its deletion.
LEMMA EmitKeepsLives ==
  ASSUME TypeOK, SeedInv, KnownInv, EventsFormALife, seedings' = seedings,
         NEW k \in {"AuctionCreated", "AuctionUpdated", "AuctionDeleted"},
         NEW a \in AuctionId, NEW item \in Item \union {None}, Emit(k, a, item),
         k = "AuctionCreated" => ~ Known(a),
         k = "AuctionDeleted" => Alive(a),
         k # "AuctionCreated" => Known(a)
  PROVE  /\ EventsFormALife'
         /\ (\A i \in 1..Len(log) : Known(log[i].auctionId))'
         /\ SeedInv'
<1>1. /\ log \in Seq(Event) /\ log' \in Seq(Event) /\ Len(log) \in Nat
      /\ Len(log') = Len(log) + 1
      /\ \A i \in 1..Len(log) : log'[i] = log[i]
      /\ log'[Len(log) + 1].kind = k /\ log'[Len(log) + 1].auctionId = a
  BY EmitFacts DEF TypeOK
<1>2. \A i : i \in 1..Len(log') <=> i \in 1..Len(log) \/ i = Len(log) + 1
  BY <1>1
<1>3. ASSUME NEW i \in 1..Len(log'), NEW j \in 1..Len(log'), i < j,
             log'[i].auctionId = log'[j].auctionId
      PROVE  /\ log'[j].kind # "AuctionCreated"
             /\ log'[i].kind = "AuctionDeleted" =>
                  \/ log'[j].kind = "AuctionUpdated"
                  \/ \E n \in seedings'[log'[i].auctionId] : i <= n /\ n < j
  <2>1. i \in 1..Len(log) /\ log'[i] = log[i]
    BY <1>1, <1>2, <1>3
  <2>2. CASE j \in 1..Len(log)
    BY <1>1, <1>3, <2>1, <2>2 DEF EventsFormALife
  <2>3. CASE j = Len(log) + 1
    <3>1. log[i].auctionId = a
      BY <1>1, <1>3, <2>1, <2>3
    <3>2. Known(a)
      BY <2>1, <3>1 DEF KnownInv
    <3>3. log[i].kind = "AuctionDeleted" /\ k = "AuctionDeleted" =>
            \E n \in seedings[a] : i <= n /\ n < j
      BY <2>1, <2>3, <3>1, SeededSince
    <3> QED BY <1>1, <2>1, <2>3, <3>1, <3>2, <3>3
  <2> QED BY <1>2, <2>2, <2>3
<1> DEFINE CreatedNow(b) == \E n \in 1..Len(log') :
                               log'[n].auctionId = b /\ log'[n].kind = "AuctionCreated"
<1>4. ASSUME NEW i \in 1..Len(log')
      PROVE  seedings'[log'[i].auctionId] # {} \/ CreatedNow(log'[i].auctionId)
  <2> DEFINE b == log'[i].auctionId
  <2>1. b \in AuctionId
    <3>1. log'[i] \in Event
      BY <1>1, <1>4
    <3> QED BY <3>1 DEF Event
  <2>2. CreatedNow(b) <=> WasCreated(b) \/ (b = a /\ k = "AuctionCreated")
    <3>1. \A x \in AuctionId : WasCreated(x)' <=> WasCreated(x) \/ (x = a /\ k = "AuctionCreated")
      BY EmitHistory
    <3>2. \A x \in AuctionId : CreatedNow(x) <=> WasCreated(x) \/ (x = a /\ k = "AuctionCreated")
      BY <3>1 DEF WasCreated
    <3> HIDE DEF b, CreatedNow
    <3> QED BY <2>1, <3>2
  <2>3. seedings[b] # {} \/ WasCreated(b) \/ (b = a /\ k = "AuctionCreated")
    BY <1>1, <1>2, <1>4 DEF KnownInv, Known
  <2> HIDE DEF b, CreatedNow
  <2>4. seedings'[b] # {} \/ CreatedNow(b)
    BY <2>2, <2>3
  <2> QED BY <2>4 DEF b
<1>5. SeedInv'
  BY <1>1 DEF SeedInv
<1> QED BY <1>3, <1>4, <1>5 DEF EventsFormALife, Known, WasCreated

\* A created auction was never seeded: an id is known once it is either.
LEMMA FreshIsUnknown ==
  ASSUME LifeInv, NEW a \in AuctionId, NEW i, CreateAuction(a, i)
  PROVE  ~ Known(a)
BY DEF LifeInv, SeedInv, CreateAuction, Known

\* An id that is not known has no row, and nobody at work on it.
LEMMA UnknownHasNoTrace ==
  ASSUME LifeInv, NEW a \in AuctionId, ~ Known(a)
  PROVE  /\ rows[a] = None
         /\ \A r \in Request : req[r] # None => req[r].auctionId # a
         /\ \A c \in Consumer : job[c] # None => job[c].msg.auctionId # a
<1>1. Begins(a) = {}
  BY DEF Begins, Known, WasCreated
<1> QED BY <1>1 DEF LifeInv, KnownInv, RowIffAnnounced

\* What a step makes of a row that is there before and after it.
LEMMA RowStep ==
  ASSUME TypeOK, LifeInv, [Next]_vars,
         NEW a \in AuctionId, rows[a] # None, rows'[a] # None
  PROVE  /\ \/ rows'[a].currentHighBid = rows[a].currentHighBid
            \/ \E c \in Consumer : SaveHighBid(c) /\ job[c].msg.auctionId = a
         /\ \/ rows'[a].sale = rows[a].sale
            \/ \E c \in Consumer : SaveResult(c) /\ job[c].msg.auctionId = a
<1> DEFINE Goal == /\ \/ rows'[a].currentHighBid = rows[a].currentHighBid
                      \/ \E c \in Consumer : SaveHighBid(c) /\ job[c].msg.auctionId = a
                   /\ \/ rows'[a].sale = rows[a].sale
                      \/ \E c \in Consumer : SaveResult(c) /\ job[c].msg.auctionId = a
<1>1. rows \in [AuctionId -> Row \union {None}] /\ rows[a] \in Row
  BY DEF TypeOK
<1>2. CASE rows' = rows
  BY <1>2
<1>3. ASSUME NEW b \in AuctionId, NEW i \in Item, CreateAuction(b, i) PROVE Goal
  <2>1. b # a
    BY <1>3, FreshIsUnknown, UnknownHasNoTrace
  <2> QED BY <1>1, <1>3, <2>1 DEF CreateAuction
<1>4. ASSUME NEW r \in Request, CommitUpdate(r) PROVE Goal
  <2>1. ASSUME NEW b \in AuctionId, NEW w \in Item, rows[b] \in Row,
               rows' = [rows EXCEPT ![b] = [rows[b] EXCEPT !.item = w]]
        PROVE  Goal
    <3>1. b = a => rows'[a] = [rows[a] EXCEPT !.item = w]
      BY <1>1, <2>1
    <3>2. b # a => rows'[a] = rows[a]
      BY <1>1, <2>1
    <3>3. rows[a].currentHighBid \in Money /\ rows[a].sale \in Sale
      BY <1>1 DEF Row
    <3>4. /\ [rows[a] EXCEPT !.item = w].currentHighBid = rows[a].currentHighBid
          /\ [rows[a] EXCEPT !.item = w].sale = rows[a].sale
      BY <1>1, <3>3, ColumnWritten
    <3> QED BY <3>1, <3>2, <3>4
  <2> QED BY <1>2, <1>4, <2>1, UpdateWrites
<1>5. ASSUME NEW r \in Request, CommitDelete(r) PROVE Goal
  <2>1. req[r].auctionId # a
    BY <1>1, <1>5 DEF CommitDelete
  <2> QED BY <1>1, <1>5, <2>1 DEF CommitDelete
<1>6. ASSUME NEW c \in Consumer, SaveHighBid(c) PROVE Goal
  <2> DEFINE b == job[c].msg.auctionId
             n == job[c].msg.amount
  <2>1. n \in Money /\ rows' = [rows EXCEPT ![b] = [rows[b] EXCEPT !.currentHighBid = n]]
    BY <1>6, HighBidWrites DEF Money
  <2>2. [rows[a] EXCEPT !.currentHighBid = n].sale = rows[a].sale
    <3> HIDE DEF n
    <3> QED BY <1>1, <2>1, ColumnWritten DEF Row
  <2>3. rows'[a] = rows[a] \/ (b = a /\ rows'[a] = [rows[a] EXCEPT !.currentHighBid = n])
    <3> HIDE DEF b, n
    <3> QED BY <1>1, <2>1
  <2> QED BY <1>6, <2>2, <2>3
<1>7. ASSUME NEW c \in Consumer, SaveResult(c) PROVE Goal
  <2> DEFINE b == job[c].msg.auctionId
  <2>1. \/ rows' = rows
        \/ \E s \in Sale : rows' = [rows EXCEPT ![b] = [rows[b] EXCEPT !.sale = s]]
    BY <1>7, ResultWrites
  <2>2. ASSUME NEW s \in Sale, rows' = [rows EXCEPT ![b] = [rows[b] EXCEPT !.sale = s]]
        PROVE  Goal
    <3>1. [rows[a] EXCEPT !.sale = s].currentHighBid = rows[a].currentHighBid
      BY <1>1, ColumnWritten DEF Row
    <3>2. rows'[a] = rows[a] \/ (b = a /\ rows'[a] = [rows[a] EXCEPT !.sale = s])
      <4> HIDE DEF b
      <4> QED BY <1>1, <2>2
    <3> QED BY <1>7, <3>1, <3>2
  <2> QED BY <1>2, <2>1, <2>2
<1>8. CASE Restart
  BY <1>2, <1>8, RestartFacts
<1> QED
  BY <1>2, <1>3, <1>4, <1>5, <1>6, <1>7, <1>8, StepCases
     DEF Load, FailRequest, DeliverToNoRow, LoadForBid, LoadForResult, Deliver, FailJob, vars

\* A save that writes to a row neither adds nor removes one.
LEMMA SavesKeepRows ==
  ASSUME TypeOK,
         \/ \E r \in Request : CommitUpdate(r)
         \/ \E c \in Consumer : SaveHighBid(c) \/ SaveResult(c)
  PROVE  \A b \in AuctionId : rows'[b] = None <=> rows[b] = None
<1>1. rows \in [AuctionId -> Row \union {None}] /\ None \notin Row
  BY NoneAssumption DEF TypeOK
<1>2. ASSUME NEW a \in AuctionId, NEW row \in Row, rows[a] \in Row, rows' = [rows EXCEPT ![a] = row]
      PROVE  \A b \in AuctionId : rows'[b] = None <=> rows[b] = None
  BY <1>1, <1>2
<1>3. ASSUME NEW r \in Request, CommitUpdate(r)
      PROVE  rows' = rows \/ \E a \in AuctionId, row \in Row :
                               rows[a] \in Row /\ rows' = [rows EXCEPT ![a] = row]
  <2>1. ASSUME NEW a \in AuctionId, NEW w \in Item, rows[a] \in Row
        PROVE  [rows[a] EXCEPT !.item = w] \in Row
    BY <2>1 DEF Row
  <2> QED BY <1>3, <2>1, UpdateWrites
<1>4. ASSUME NEW c \in Consumer, SaveHighBid(c)
      PROVE  rows' = rows \/ \E a \in AuctionId, row \in Row :
                               rows[a] \in Row /\ rows' = [rows EXCEPT ![a] = row]
  <2>1. ASSUME NEW a \in AuctionId, NEW n \in Int, rows[a] \in Row
        PROVE  [rows[a] EXCEPT !.currentHighBid = n] \in Row
    BY <2>1 DEF Row, Money
  <2> QED BY <1>4, <2>1, HighBidWrites
<1>5. ASSUME NEW c \in Consumer, SaveResult(c)
      PROVE  rows' = rows \/ \E a \in AuctionId, row \in Row :
                               rows[a] \in Row /\ rows' = [rows EXCEPT ![a] = row]
  <2>1. ASSUME NEW a \in AuctionId, NEW s \in Sale, rows[a] \in Row
        PROVE  [rows[a] EXCEPT !.sale = s] \in Row
    BY <2>1 DEF Row
  <2> QED BY <1>5, <2>1, ResultWrites
<1> QED BY <1>2, <1>3, <1>4, <1>5

\* Every step keeps rows and events one story.
LEMMA LifeStep == TypeOK /\ LifeInv /\ [Next]_vars => LifeInv'
<1> SUFFICES ASSUME TypeOK, LifeInv, [Next]_vars PROVE LifeInv'
  OBVIOUS
<1>1. rows \in [AuctionId -> Row \union {None}] /\ None \notin Row
  BY NoneAssumption DEF TypeOK
<1>2. ASSUME NEW a \in AuctionId, NEW i \in Item, CreateAuction(a, i) PROVE LifeInv'
  <2>1. ~ Known(a) /\ Emit("AuctionCreated", a, i) /\ seedings' = seedings
    BY <1>2, FreshIsUnknown DEF CreateAuction
  <2>2. EventsFormALife' /\ (\A n \in 1..Len(log) : Known(log[n].auctionId))' /\ SeedInv'
    BY <2>1, EmitKeepsLives DEF LifeInv
  <2>3. \A b \in AuctionId : /\ WasCreated(b)' <=> WasCreated(b) \/ b = a
                             /\ Alive(b)' <=> Alive(b) \/ b = a
    BY <2>1, EmitHistory DEF LifeInv
  <2>4. RowIffAnnounced'
    <3> DEFINE row == NewRow(i, 2 * (Len(log) + 1))
    <3>1. row # None
      BY NewRowType DEF TypeOK
    <3>2. rows' = [rows EXCEPT ![a] = row]
      BY <1>2 DEF CreateAuction
    <3> HIDE DEF row
    <3>3. \A b \in AuctionId : rows'[b] # None <=> rows[b] # None \/ b = a
      BY <1>1, <3>1, <3>2
    <3> QED BY <2>3, <3>3 DEF RowIffAnnounced, Alive, LifeInv
  <2>5. /\ \A r \in Request : req[r] # None => req[r].auctionId \in AuctionId
        /\ \A c \in Consumer : job[c] # None => job[c].msg.auctionId \in AuctionId
    BY MessageAssumption DEF TypeOK, Req, BidJob, ResultJob
  <2>6. req' = req /\ job' = job
    BY <1>2 DEF CreateAuction
  <2> QED BY <2>1, <2>2, <2>3, <2>4, <2>5, <2>6 DEF LifeInv, KnownInv, Known
<1>3. ASSUME log' = log, seedings' = seedings, \A b \in AuctionId : rows'[b] = None <=> rows[b] = None,
             \A r \in Request : req'[r] # None => Known(req'[r].auctionId),
             \A c \in Consumer : job'[c] # None => Known(job'[c].msg.auctionId)
      PROVE  LifeInv'
  BY <1>3 DEF LifeInv, SeedInv, KnownInv, Known, WasCreated, Begins, Ends, RowIffAnnounced,
              EventsFormALife
<1>4. ASSUME NEW r \in Request, NEW u \in User, NEW a \in AuctionId,
             NEW op \in {"update", "delete"}, NEW p \in Patch, Load(r, u, a, op, p)
      PROVE  LifeInv'
  <2>1. Known(a)
    BY <1>4, UnknownHasNoTrace DEF Load
  <2> DEFINE q == [op |-> op, patch |-> p, auctionId |-> a, loaded |-> rows[a].item]
  <2>2. req' = [req EXCEPT ![r] = q] /\ q.auctionId = a
    BY <1>4 DEF Load
  <2> HIDE DEF q
  <2>3. \A x \in Request : req'[x] # None => Known(req'[x].auctionId)
    BY <2>1, <2>2 DEF TypeOK, LifeInv, KnownInv
  <2> QED BY <1>3, <1>4, <2>3 DEF Load, LifeInv, KnownInv
<1>5. ASSUME NEW r \in Request, CommitUpdate(r) \/ CommitDelete(r),
             NEW k \in {"AuctionUpdated", "AuctionDeleted"},
             NEW item \in Item \union {None}, Emit(k, req[r].auctionId, item),
             k = "AuctionDeleted" => rows[req[r].auctionId] # None,
             \A b \in AuctionId : rows'[b] = None <=>
                rows[b] = None \/ (k = "AuctionDeleted" /\ b = req[r].auctionId)
      PROVE  LifeInv'
  <2> DEFINE a == req[r].auctionId
  <2>1. a \in AuctionId /\ Known(a)
    BY <1>5 DEF CommitUpdate, CommitDelete, TypeOK, Req, LifeInv, KnownInv
  <2>2. k = "AuctionDeleted" => Alive(a)
    BY <1>5, <2>1 DEF LifeInv, RowIffAnnounced, Alive
  <2> HIDE DEF a
  <2>3. /\ Emit(k, a, item) /\ req' = [req EXCEPT ![r] = None] /\ job' = job
        /\ seedings' = seedings
    BY <1>5 DEF a, CommitUpdate, CommitDelete
  <2>4. EventsFormALife' /\ (\A n \in 1..Len(log) : Known(log[n].auctionId))' /\ SeedInv'
    BY <2>1, <2>2, <2>3, EmitKeepsLives DEF LifeInv
  <2>5. \A b \in AuctionId :
          /\ WasCreated(b)' <=> WasCreated(b)
          /\ Alive(b)' <=> Alive(b) /\ ~ (b = a /\ k = "AuctionDeleted")
    BY <2>1, <2>3, EmitHistory DEF LifeInv
  <2>6. RowIffAnnounced'
    BY <1>5, <2>5 DEF a, RowIffAnnounced, Alive, LifeInv
  <2>7. /\ \A x \in Request : req[x] # None => req[x].auctionId \in AuctionId
        /\ \A c \in Consumer : job[c] # None => job[c].msg.auctionId \in AuctionId
        /\ \A x \in Request : req'[x] # None => req'[x] = req[x]
    BY <2>3, MessageAssumption DEF TypeOK, Req, BidJob, ResultJob
  <2> QED BY <2>3, <2>4, <2>5, <2>6, <2>7 DEF LifeInv, KnownInv, Known
<1>6. ASSUME NEW r \in Request, CommitUpdate(r) PROVE LifeInv'
  <2> DEFINE item == Patched(req[r].loaded, req[r].patch)
  <2>1. item \in Item
    BY <1>6, PatchedType DEF CommitUpdate, TypeOK, Req
  <2>2. Emit("AuctionUpdated", req[r].auctionId, item)
    BY <1>6 DEF CommitUpdate
  <2> HIDE DEF item
  <2> QED BY <1>5, <1>6, <2>1, <2>2, SavesKeepRows
<1>7. ASSUME NEW r \in Request, CommitDelete(r) PROVE LifeInv'
  <2>1. \A b \in AuctionId : rows'[b] = None <=> rows[b] = None \/ b = req[r].auctionId
    BY <1>1, <1>7 DEF CommitDelete
  <2> QED BY <1>5, <1>7, <2>1 DEF CommitDelete
<1>8. ASSUME NEW r \in Request, FailRequest(r) PROVE LifeInv'
  <2>1. \A x \in Request : req'[x] # None => req'[x] = req[x]
    BY <1>8 DEF FailRequest, TypeOK
  <2> QED BY <1>3, <1>8, <2>1 DEF FailRequest, LifeInv, KnownInv
<1>9. ASSUME NEW c \in Consumer, NEW m \in Messages, Deliver(c, m), NEW j,
             job' = job \/ (j.msg = m /\ job' = [job EXCEPT ![c] = j])
      PROVE  LifeInv'
  <2>1. Known(m.auctionId)
    BY <1>9 DEF Deliver, Known
  <2>2. \A d \in Consumer : job'[d] # None => Known(job'[d].msg.auctionId)
    BY <1>9, <2>1 DEF TypeOK, LifeInv, KnownInv
  <2> QED BY <1>3, <1>9, <2>2 DEF Deliver, LifeInv, KnownInv
<1>10. ASSUME NEW c \in Consumer, NEW m \in Messages, DeliverToNoRow(c, m) PROVE LifeInv'
  BY <1>9, <1>10 DEF DeliverToNoRow
<1>11. ASSUME NEW c \in Consumer, NEW m \in BidPlaced, LoadForBid(c, m) PROVE LifeInv'
  <2> DEFINE j == [kind |-> "bid", msg |-> m, loaded |-> rows[m.auctionId].currentHighBid]
  <2>1. /\ m \in Messages /\ Deliver(c, m) /\ j.msg = m
        /\ job' = job \/ job' = [job EXCEPT ![c] = j]
    BY <1>11 DEF LoadForBid, Messages
  <2> HIDE DEF j
  <2> QED BY <1>9, <2>1
<1>12. ASSUME NEW c \in Consumer, NEW m \in AuctionFinished, LoadForResult(c, m) PROVE LifeInv'
  <2> DEFINE j == [kind |-> "result", msg |-> m, loaded |-> rows[m.auctionId].sale]
  <2>1. /\ m \in Messages /\ Deliver(c, m) /\ j.msg = m
        /\ job' = [job EXCEPT ![c] = j]
    BY <1>12 DEF LoadForResult, Messages
  <2> HIDE DEF j
  <2> QED BY <1>9, <2>1
<1>13. ASSUME NEW c \in Consumer, SaveHighBid(c) \/ SaveResult(c) \/ FailJob(c) PROVE LifeInv'
  <2>1. \A b \in AuctionId : rows'[b] = None <=> rows[b] = None
    BY <1>13, SavesKeepRows DEF FailJob
  <2>2. job' = [job EXCEPT ![c] = None] /\ log' = log /\ seedings' = seedings /\ req' = req
    BY <1>13 DEF SaveHighBid, SaveResult, FailJob
  <2>3. \A d \in Consumer : job'[d] # None => job'[d] = job[d]
    BY <2>2 DEF TypeOK
  <2> QED BY <1>3, <2>1, <2>2, <2>3 DEF LifeInv, KnownInv
<1>14. CASE UNCHANGED vars
  BY <1>3, <1>14 DEF vars, LifeInv, KnownInv
<1>15. CASE Restart
  <2>1. CASE rows' = rows /\ seedings' = seedings
    BY <1>3, <1>15, <2>1, RestartFacts
  <2>2. CASE ~ (rows' = rows /\ seedings' = seedings)
    <3>1. /\ log' = log
          /\ \A r \in Request : req'[r] = None
          /\ \A c \in Consumer : job'[c] = None
          /\ \A a \in AuctionId :
               /\ seedings'[a] = IF a \in Seeded THEN seedings[a] \union {Len(log)} ELSE {}
               /\ rows[a] = None
               /\ rows'[a] # None <=> a \in Seeded
      BY <1>15, <2>2, RestartFacts
    <3>0. Len(log) \in Nat
      BY DEF TypeOK
    <3>2. SeedInv'
      <4>1. \A a \in AuctionId : seedings[a] \subseteq 0..Len(log)
        BY DEF LifeInv, SeedInv
      <4>2. Len(log) \in 0..Len(log)
        BY <3>0
      <4>3. ASSUME NEW a \in AuctionId PROVE seedings'[a] \subseteq 0..Len(log)
        <5>1. CASE a \in Seeded
          <6>1. seedings'[a] = seedings[a] \union {Len(log)}
            BY <3>1, <5>1
          <6> QED BY Zenon, <4>1, <4>2, <6>1
        <5>2. CASE a \notin Seeded
          BY <3>1, <5>2
        <5> QED BY <5>1, <5>2
      <4> QED BY <3>1, <4>3 DEF SeedInv
    <3>3. \A a \in AuctionId : seedings[a] \subseteq seedings'[a]
      BY <3>1 DEF LifeInv, SeedInv
    <3>4. \A i \in 1..Len(log) : log[i].auctionId \in AuctionId
      <4>1. \A i \in 1..Len(log) : log[i] \in Event
        BY DEF TypeOK
      <4> QED BY <4>1 DEF Event
    <3>5. KnownInv'
      BY <3>1, <3>3, <3>4 DEF LifeInv, KnownInv, Known, WasCreated
    <3>6. EventsFormALife'
      BY <3>1, <3>3, <3>4 DEF LifeInv, EventsFormALife
    <3>7. ASSUME NEW a \in AuctionId PROVE (rows'[a] # None <=> Alive(a)')
      <4>1. Ends(a)' = Ends(a) /\ \A d \in Ends(a) : d <= Len(log)
        BY <3>0, <3>1 DEF Ends
      <4>2. CASE a \in Seeded
        <5>1. Len(log) \in Begins(a)'
          BY <3>1, <4>2 DEF Begins
        <5> QED BY <3>1, <4>1, <4>2, <5>1 DEF Alive
      <4>3. CASE a \notin Seeded
        <5>1. Begins(a)' = Begins(a)
          BY <3>1, <4>3 DEF Begins, LifeInv, SeedInv
        <5>2. ~ Alive(a)
          BY <3>1 DEF Alive, LifeInv, RowIffAnnounced
        <5> QED BY <3>1, <4>1, <4>3, <5>1, <5>2 DEF Alive
      <4> QED BY <4>2, <4>3
    <3>8. RowIffAnnounced'
      BY <3>7 DEF RowIffAnnounced, Alive
    <3> QED BY <3>2, <3>5, <3>6, <3>8 DEF LifeInv
  <2> QED BY <2>1, <2>2
<1> QED
  BY <1>2, <1>4, <1>6, <1>7, <1>8, <1>10, <1>11, <1>12, <1>13, <1>14, <1>15, StepCases

\* The seeded rows have no events, and nothing else has a row.
LEMMA LifeInit == Init => LifeInv
<1> SUFFICES ASSUME Init PROVE LifeInv
  OBVIOUS
<1>1. 1..Len(log) = {} /\ Len(log) = 0
  BY DEF Init
<1>2. SeedInv /\ KnownInv /\ EventsFormALife
  BY <1>1 DEF Init, SeedInv, KnownInv, EventsFormALife
<1>3. ASSUME NEW a \in AuctionId PROVE (rows[a] # None <=> Alive(a))
  <2>1. Begins(a) = seedings[a] /\ Ends(a) = {}
    BY <1>1 DEF Begins, Ends
  <2>2. Alive(a) <=> seedings[a] # {}
    BY <2>1 DEF Alive
  <2>3. CASE rows = SeededRows(1) /\ seedings = [b \in AuctionId |-> IF b \in Seeded THEN {0} ELSE {}]
    <3>1. rows[a] = IF a \in Seeded THEN SeedRow(a, 1) ELSE None
      BY <2>3 DEF SeededRows
    <3>2. a \in Seeded => SeedRow(a, 1) # None
      BY SeedRowType
    <3> QED BY <2>2, <2>3, <3>1, <3>2
  <2>4. CASE rows = NoRows /\ seedings = [b \in AuctionId |-> {}]
    BY <2>2, <2>4 DEF NoRows
  <2> QED BY <2>3, <2>4 DEF Init
<1> QED BY <1>2, <1>3 DEF LifeInv, RowIffAnnounced, Alive

\* Types and the agreement of rows and events hold together.
LEMMA LifeInvariant == Spec => [](TypeOK /\ LifeInv)
<1>1. Init => TypeOK /\ LifeInv
  BY TypeInit, LifeInit
<1>2. TypeOK /\ LifeInv /\ [Next]_vars => (TypeOK /\ LifeInv)'
  BY TypeStep, LifeStep
<1> QED BY <1>1, <1>2, PTL DEF Spec

\* A row is there exactly when a creation of it was committed, or a start seeded
\* it, and no deletion since, however updates, deletes, handlers and restarts
\* overlap or fail.
THEOREM RowsAreAnnounced == Spec => []RowIffAnnounced
BY LifeInvariant, PTL DEF LifeInv

\* The events of an auction form a life: created once and first, deleted at
\* most once, only updates after that, until a restart seeds it again.
THEOREM EventsAreLives == Spec => []EventsFormALife
BY LifeInvariant, PTL DEF LifeInv

\* What the steps of the handlers make of the jobs in flight.
LEMMA JobStep ==
  ASSUME TypeOK, [Next]_vars, NEW c \in Consumer, job'[c] # None
  PROVE  \/ job'[c] = job[c]
         \/ \E m \in BidPlaced :
              /\ rows[m.auctionId] # None
              /\ Raises(m, rows[m.auctionId].currentHighBid)
              /\ rows' = rows
              /\ job'[c] = [kind |-> "bid", msg |-> m,
                            loaded |-> rows[m.auctionId].currentHighBid]
         \/ \E m \in AuctionFinished :
              /\ rows[m.auctionId] # None
              /\ rows' = rows
              /\ job'[c] = [kind |-> "result", msg |-> m, loaded |-> rows[m.auctionId].sale]
<1>1. ASSUME NEW d \in Consumer, NEW m \in BidPlaced, LoadForBid(d, m)
      PROVE  \/ job' = job
             \/ /\ rows[m.auctionId] # None /\ rows' = rows
                /\ Raises(m, rows[m.auctionId].currentHighBid)
                /\ job' = [job EXCEPT ![d] = [kind |-> "bid", msg |-> m,
                                              loaded |-> rows[m.auctionId].currentHighBid]]
  BY <1>1 DEF LoadForBid, Deliver
<1>2. ASSUME NEW d \in Consumer, NEW m \in AuctionFinished, LoadForResult(d, m)
      PROVE  /\ rows[m.auctionId] # None /\ rows' = rows
             /\ job' = [job EXCEPT ![d] = [kind |-> "result", msg |-> m,
                                           loaded |-> rows[m.auctionId].sale]]
  BY <1>2 DEF LoadForResult, Deliver
<1>3. ASSUME NEW j, NEW d \in Consumer, job' = [job EXCEPT ![d] = j]
      PROVE  job'[c] = job[c] \/ job'[c] = j
  BY <1>3 DEF TypeOK
<1>4. ASSUME NEW d \in Consumer, NEW m \in BidPlaced, LoadForBid(d, m)
      PROVE  \/ job'[c] = job[c]
             \/ /\ rows[m.auctionId] # None
                /\ Raises(m, rows[m.auctionId].currentHighBid)
                /\ rows' = rows
                /\ job'[c] = [kind |-> "bid", msg |-> m,
                              loaded |-> rows[m.auctionId].currentHighBid]
  BY <1>1, <1>3, <1>4
<1>5. ASSUME NEW d \in Consumer, NEW m \in AuctionFinished, LoadForResult(d, m)
      PROVE  \/ job'[c] = job[c]
             \/ /\ rows[m.auctionId] # None
                /\ rows' = rows
                /\ job'[c] = [kind |-> "result", msg |-> m, loaded |-> rows[m.auctionId].sale]
  BY <1>2, <1>3, <1>5
<1>6. ASSUME NEW d \in Consumer, SaveHighBid(d) \/ SaveResult(d) \/ FailJob(d)
      PROVE  job'[c] = job[c]
  <2>1. job' = [job EXCEPT ![d] = None]
    BY <1>6 DEF SaveHighBid, SaveResult, FailJob
  <2> QED BY <1>3, <2>1
<1> QED
  BY <1>4, <1>5, <1>6, StepCases
     DEF CreateAuction, Load, CommitUpdate, CommitDelete, FailRequest, DeliverToNoRow, Restart, vars

\* A handler never comes to hold a bid that did not raise what it loaded.
LEMMA BidJobStep == TypeOK /\ BidJobInv /\ [Next]_vars => BidJobInv'
<1> SUFFICES ASSUME TypeOK, BidJobInv, [Next]_vars,
                    NEW c \in Consumer, job'[c] # None, job'[c].kind = "bid"
             PROVE  Raises(job'[c].msg, job'[c].loaded)
  BY DEF BidJobInv, Raises
<1>1. CASE job'[c] = job[c]
  BY <1>1 DEF BidJobInv
<1>2. CASE job'[c] # job[c]
  <2>1. ASSUME NEW m \in BidPlaced, Raises(m, rows[m.auctionId].currentHighBid),
               job'[c] = [kind |-> "bid", msg |-> m,
                          loaded |-> rows[m.auctionId].currentHighBid]
        PROVE  Raises(job'[c].msg, job'[c].loaded)
    BY <2>1
  <2>2. ASSUME NEW m \in AuctionFinished,
               job'[c] = [kind |-> "result", msg |-> m, loaded |-> rows[m.auctionId].sale]
        PROVE  FALSE
    BY <2>2
  <2> QED BY <1>2, <2>1, <2>2, JobStep
<1> QED BY <1>1, <1>2

\* The current high bid is never lowered but by a handler that another one has
\* overtaken: a handler whose load is still current saves only what raises it.
THEOREM HighBidIsRaised == Spec => HighBidFallsOnlyWhenOvertaken
<1> DEFINE Inv == TypeOK /\ LifeInv /\ BidJobInv
           Kept(a) == rows'[a].currentHighBid # None
                      /\ rows'[a].currentHighBid >= rows[a].currentHighBid
           Step == \A a \in AuctionId :
                     /\ rows[a] # None /\ rows'[a] # None /\ rows[a].currentHighBid # None
                     /\ ~ Overtaken(a)
                     => Kept(a)
<1>1. Init => Inv
  BY TypeInit, LifeInit DEF Init, BidJobInv
<1>2. Inv /\ [Next]_vars => Inv'
  BY TypeStep, LifeStep, BidJobStep
<1>3. Inv /\ [Next]_vars => Step
  <2> SUFFICES ASSUME Inv, [Next]_vars, NEW a \in AuctionId, rows[a] # None, rows'[a] # None,
                      rows[a].currentHighBid # None, ~ Overtaken(a)
               PROVE  Kept(a)
    OBVIOUS
  <2>1. rows[a] \in Row /\ rows[a].currentHighBid \in Int
    BY DEF TypeOK, Row, Money
  <2>2. CASE rows'[a].currentHighBid = rows[a].currentHighBid
    BY <2>1, <2>2
  <2>3. ASSUME NEW c \in Consumer, SaveHighBid(c), job[c].msg.auctionId = a
        PROVE  Kept(a)
    <3> DEFINE n == job[c].msg.amount
    <3>1. job[c].loaded = rows[a].currentHighBid
      BY <2>3 DEF SaveHighBid, Overtaken
    <3>2. n > rows[a].currentHighBid
      BY <2>3, <3>1 DEF SaveHighBid, BidJobInv, Raises
    <3>3. n \in Int /\ rows' = [rows EXCEPT ![a] = [rows[a] EXCEPT !.currentHighBid = n]]
      BY <2>3, HighBidWrites
    <3>4. rows'[a].currentHighBid = n
      <4> HIDE DEF n
      <4>1. rows'[a] = [rows[a] EXCEPT !.currentHighBid = n]
        BY <3>3 DEF TypeOK
      <4> QED BY <2>1, <4>1 DEF Row
    <3>5. n # None
      BY <3>3, NoneAssumption
    <3> QED BY <2>1, <3>2, <3>3, <3>4, <3>5
  <2> QED BY <2>2, <2>3, RowStep
<1> QED BY <1>1, <1>2, <1>3, PTL DEF Spec, HighBidFallsOnlyWhenOvertaken

\* What the save of a result makes of the three columns of the sale: those that
\* the handler changed from what it had loaded, the row's own otherwise.
LEMMA SaleColumns ==
  ASSUME TypeOK, NEW c \in Consumer, SaveResult(c),
         NEW a \in AuctionId, job[c].msg.auctionId = a, rows[a] # None
  PROVE  LET loaded == job[c].loaded
             sale == Concluded(job[c].msg, loaded)
             old == rows[a].sale
             new == rows'[a].sale
         IN /\ new.winner = IF loaded.winner # sale.winner THEN sale.winner ELSE old.winner
            /\ new.soldAmount = IF loaded.soldAmount # sale.soldAmount THEN sale.soldAmount
                                ELSE old.soldAmount
            /\ new.status = IF loaded.status # sale.status THEN sale.status ELSE old.status
<1> DEFINE m == job[c].msg
           loaded == job[c].loaded
           sale == Concluded(m, loaded)
           modified == Modified(loaded, sale)
           written == [f \in DOMAIN sale |-> IF f \in modified THEN sale[f] ELSE rows[a].sale[f]]
<1>1. /\ sale \in Sale /\ loaded \in Sale /\ rows[a] \in Row
      /\ \/ modified = {} /\ rows' = rows
         \/ written \in Sale /\ rows' = [rows EXCEPT ![a] = [rows[a] EXCEPT !.sale = written]]
  <2>1. rows[a] \in Row
    BY DEF TypeOK
  <2> QED BY <2>1, ResultWrites
<1>2. \A f \in {"winner", "soldAmount", "status"} : f \in modified <=> loaded[f] # sale[f]
  BY <1>1 DEF Modified, Sale
<1>3. DOMAIN sale = {"winner", "soldAmount", "status"}
  BY <1>1 DEF Sale
<1>4. \A f \in {"winner", "soldAmount", "status"} :
        rows'[a].sale[f] = IF f \in modified THEN sale[f] ELSE rows[a].sale[f]
  <2>1. CASE modified = {} /\ rows' = rows
    BY <2>1
  <2>2. CASE rows' = [rows EXCEPT ![a] = [rows[a] EXCEPT !.sale = written]] /\ written \in Sale
    <3>1. rows'[a].sale = written
      <4> HIDE DEF written
      <4>1. rows'[a] = [rows[a] EXCEPT !.sale = written]
        BY <2>2 DEF TypeOK
      <4> QED BY <1>1, <4>1 DEF Row
    <3>2. \A f \in {"winner", "soldAmount", "status"} :
            written[f] = IF f \in modified THEN sale[f] ELSE rows[a].sale[f]
      <4> HIDE DEF sale, modified
      <4> QED BY <1>3
    <3> HIDE DEF sale, modified, written
    <3> QED BY <3>1, <3>2
  <2> QED BY <1>1, <2>1, <2>2
<1> HIDE DEF sale, modified, loaded
<1>5. /\ rows'[a].sale.winner = IF loaded.winner # sale.winner THEN sale.winner
                                ELSE rows[a].sale.winner
      /\ rows'[a].sale.soldAmount = IF loaded.soldAmount # sale.soldAmount THEN sale.soldAmount
                                    ELSE rows[a].sale.soldAmount
      /\ rows'[a].sale.status = IF loaded.status # sale.status THEN sale.status
                                ELSE rows[a].sale.status
  BY <1>2, <1>4
<1> QED BY <1>5 DEF sale, loaded, m

\* The save of a result, whatever was loaded when, leaves no live auction and
\* takes no winner away: either it writes the status, or what was loaded was
\* concluded already and so was the row ever since.
LEMMA ResultConcludes ==
  ASSUME TypeOK, SoldInv, NEW c \in Consumer, SaveResult(c),
         NEW a \in AuctionId, job[c].msg.auctionId = a, rows[a] # None
  PROVE  /\ rows'[a].sale.status # "Live"
         /\ rows[a].sale.winner # None => rows'[a].sale.winner # None
<1> DEFINE m == job[c].msg
           loaded == job[c].loaded
           sale == Concluded(m, loaded)
           modified == Modified(loaded, sale)
           written == [f \in DOMAIN sale |-> IF f \in modified THEN sale[f] ELSE rows[a].sale[f]]
<1>1. /\ sale \in Sale /\ loaded \in Sale /\ rows[a] \in Row /\ rows[a].sale \in Sale
      /\ \/ modified = {} /\ rows' = rows
         \/ written \in Sale /\ rows' = [rows EXCEPT ![a] = [rows[a] EXCEPT !.sale = written]]
  <2>1. rows[a] \in Row
    BY DEF TypeOK
  <2>2. rows[a].sale \in Sale
    BY <2>1 DEF Row
  <2> QED BY <2>1, <2>2, ResultWrites
<1>2. sale.status # "Live" /\ (sale.winner = loaded.winner \/ sale.winner # None)
  BY DEF Concluded
<1>3. job[c] # None /\ job[c].kind = "result"
  BY DEF SaveResult
<1>4. \A f \in {"winner", "soldAmount", "status"} : f \in modified <=> loaded[f] # sale[f]
  BY <1>1 DEF Modified, Sale
<1>5. "status" \notin modified => rows[a].sale.status # "Live"
  <2>1. "status" \notin modified => loaded.status = sale.status
    BY <1>4
  <2> QED BY <1>2, <1>3, <2>1 DEF SoldInv, Concludes
<1>6. CASE modified = {} /\ rows' = rows
  BY <1>5, <1>6
<1>7. CASE rows' = [rows EXCEPT ![a] = [rows[a] EXCEPT !.sale = written]] /\ written \in Sale
  <2>1. rows'[a].sale = written
    <3> HIDE DEF written
    <3>1. rows'[a] = [rows[a] EXCEPT !.sale = written]
      BY <1>7 DEF TypeOK
    <3> QED BY <1>1, <3>1 DEF Row
  <2>2. DOMAIN sale = {"winner", "soldAmount", "status"}
    BY <1>1 DEF Sale
  <2>3. /\ written.status = IF "status" \in modified THEN sale.status ELSE rows[a].sale.status
        /\ written.winner = IF "winner" \in modified THEN sale.winner ELSE rows[a].sale.winner
    <3> HIDE DEF sale, modified
    <3> QED BY <2>2
  <2>4. "winner" \in modified => sale.winner # None
    <3>1. "winner" \in modified => loaded.winner # sale.winner
      BY <1>4
    <3> QED BY <1>2, <3>1
  <2> QED
    <3> HIDE DEF sale, modified, written
    <3> QED BY <1>2, <1>5, <2>1, <2>3, <2>4
<1> QED BY <1>1, <1>6, <1>7

\* A row that is concluded stays so for as long as it is there, and keeps its
\* winner.
LEMMA ConcludedStays ==
  ASSUME TypeOK, LifeInv, SoldInv, [Next]_vars,
         NEW a \in AuctionId, rows[a] # None, rows'[a] # None
  PROVE  /\ rows[a].sale.status # "Live" => rows'[a].sale.status # "Live"
         /\ rows[a].sale.winner # None => rows'[a].sale.winner # None
<1>1. CASE rows'[a].sale = rows[a].sale
  BY <1>1
<1>2. CASE \E c \in Consumer : SaveResult(c) /\ job[c].msg.auctionId = a
  BY <1>2, ResultConcludes
<1> QED BY <1>1, <1>2, RowStep

\* A row that a step adds is created, under an id that no handler knows, or
\* seeded, when none is at work.
LEMMA AddedRow ==
  ASSUME TypeOK, LifeInv, [Next]_vars,
         NEW a \in AuctionId, rows[a] = None, rows'[a] # None
  PROVE  /\ rows'[a].sale.winner = None /\ rows'[a].sale.soldAmount = None
         /\ rows'[a].sale.status # "Finished" /\ rows'[a].currentHighBid = None
         /\ deliveries' = deliveries
         /\ \/ /\ ~ Known(a) /\ job' = job
               /\ \A c \in Consumer : job[c] # None => job[c].msg.auctionId # a
            \/ a \in Seeded /\ \A c \in Consumer : job'[c] = None
<1> DEFINE Goal == /\ rows'[a].sale.winner = None /\ rows'[a].sale.soldAmount = None
                   /\ rows'[a].sale.status # "Finished" /\ rows'[a].currentHighBid = None
                   /\ deliveries' = deliveries
                   /\ \/ /\ ~ Known(a) /\ job' = job
                         /\ \A c \in Consumer : job[c] # None => job[c].msg.auctionId # a
                      \/ a \in Seeded /\ \A c \in Consumer : job'[c] = None
<1>1. ASSUME NEW b \in AuctionId, NEW i \in Item, CreateAuction(b, i)
      PROVE  Goal
  <2> DEFINE row == NewRow(i, 2 * (Len(log) + 1))
  <2>1. /\ rows' = [rows EXCEPT ![b] = row] /\ ~ Known(b)
        /\ job' = job /\ deliveries' = deliveries
    BY <1>1, FreshIsUnknown DEF CreateAuction
  <2>2. row.sale = NoSale /\ row.currentHighBid = None
    BY DEF NewRow
  <2>3. a = b /\ rows'[a] = row
    <3> HIDE DEF row
    <3> QED BY <2>1 DEF TypeOK
  <2>4. \A c \in Consumer : job[c] # None => job[c].msg.auctionId # a
    BY <2>1, <2>3, UnknownHasNoTrace
  <2> HIDE DEF row
  <2> QED BY <2>1, <2>2, <2>3, <2>4 DEF NoSale
<1>2. ASSUME NEW r \in Request, CommitDelete(r) PROVE FALSE
  <2>1. rows' = [rows EXCEPT ![req[r].auctionId] = None]
    BY <1>2 DEF CommitDelete
  <2> QED BY <2>1 DEF TypeOK
<1>3. CASE Restart
  BY <1>3, RestartFacts
<1> QED
  BY <1>1, <1>2, <1>3, SavesKeepRows, StepCases
     DEF Load, FailRequest, DeliverToNoRow, LoadForBid, LoadForResult, Deliver, FailJob, vars

\* No step makes live what is sold, or what a handler saw concluded.
LEMMA SoldStep == TypeOK /\ LifeInv /\ SoldInv /\ [Next]_vars => SoldInv'
<1> SUFFICES ASSUME TypeOK, LifeInv, SoldInv, [Next]_vars PROVE SoldInv'
  OBVIOUS
<1>1. TypeOK'
  BY TypeStep
<1>2. ASSUME NEW a \in AuctionId, rows'[a] # None, rows'[a].sale.winner # None
      PROVE  rows'[a].sale.status # "Live"
  <2>1. rows[a] # None
    BY <1>2, AddedRow
  <2>2. CASE \E c \in Consumer : SaveResult(c) /\ job[c].msg.auctionId = a
    BY <2>1, <2>2, ResultConcludes
  <2>3. CASE rows'[a].sale = rows[a].sale
    BY <1>2, <2>1, <2>3 DEF SoldInv
  <2> QED BY <1>2, <2>1, <2>2, <2>3, RowStep
<1>3. ASSUME NEW c \in Consumer, job'[c] # None, job'[c].kind = "result",
             job'[c].loaded.status # "Live", rows'[job'[c].msg.auctionId] # None
      PROVE  rows'[job'[c].msg.auctionId].sale.status # "Live"
  <2> DEFINE a == job'[c].msg.auctionId
  <2>1. a \in AuctionId
    BY <1>1, <1>3, MessageAssumption DEF TypeOK, BidJob, ResultJob
  <2>2. CASE job'[c] = job[c]
    <3>1. a = job[c].msg.auctionId /\ Concludes(c)
      BY <1>3, <2>2 DEF Concludes
    <3>2. rows[a] # None
      <4> HIDE DEF a
      <4> SUFFICES ASSUME rows[a] = None PROVE FALSE
        OBVIOUS
      <4>1. job[c] # None /\ job'[c] # None /\ rows'[a] # None
        BY <1>3, <2>2 DEF a
      <4> QED BY <2>1, <3>1, <4>1, AddedRow
    <3>3. rows[a].sale.status # "Live"
      BY <3>1, <3>2 DEF SoldInv
    <3> QED BY <1>3, <2>1, <3>2, <3>3, ConcludedStays
  <2>3. CASE job'[c] # job[c]
    <3>1. ASSUME NEW m \in BidPlaced,
                 job'[c] = [kind |-> "bid", msg |-> m,
                            loaded |-> rows[m.auctionId].currentHighBid]
          PROVE  FALSE
      BY <1>3, <3>1
    <3>2. ASSUME NEW m \in AuctionFinished, rows' = rows,
                 job'[c] = [kind |-> "result", msg |-> m, loaded |-> rows[m.auctionId].sale]
          PROVE  rows'[a].sale.status # "Live"
      <4>1. a = m.auctionId /\ job'[c].loaded = rows[a].sale
        BY <3>2
      <4> QED BY <1>3, <3>2, <4>1
    <3> QED BY <1>3, <2>3, <3>1, <3>2, JobStep
  <2> QED BY <2>2, <2>3
<1> QED BY <1>2, <1>3 DEF SoldInv, Concludes

\* Seeded rows have no winner, and no handler is at work.
LEMMA SoldInit == Init => SoldInv
<1> SUFFICES ASSUME Init PROVE SoldInv
  OBVIOUS
<1>1. ASSUME NEW a \in AuctionId, rows[a] # None PROVE rows[a].sale.winner = None
  <2>1. a \in Seeded /\ rows[a] = SeedRow(a, 1)
    BY <1>1 DEF Init, NoRows, SeededRows
  <2> QED BY <2>1, SeedRowType
<1> QED BY <1>1 DEF Init, SoldInv, Concludes

\* A sale is for as long as the row: no handler, whatever it had loaded, and no
\* request takes a winner away or makes the auction live again.
THEOREM SalesAreKept == Spec => SaleIsKept
<1> DEFINE Inv == TypeOK /\ LifeInv /\ SoldInv
           Step == \A a \in AuctionId :
                     rows[a] # None /\ rows'[a] # None /\ rows[a].sale.winner # None =>
                       rows'[a].sale.winner # None /\ rows'[a].sale.status # "Live"
<1>1. Init => Inv
  BY TypeInit, LifeInit, SoldInit
<1>2. Inv /\ [Next]_vars => Inv'
  BY TypeStep, LifeStep, SoldStep
<1>3. Inv /\ [Next]_vars => Step
  BY ConcludedStays DEF SoldInv
<1> QED BY <1>1, <1>2, <1>3, PTL DEF Spec, SaleIsKept

-----------------------------------------------------------------------------
(* What the events have told of the items *)

\* Events are never taken back: what was told stays told.
LEMMA ToldStays ==
  ASSUME TypeOK, [Next]_vars, NEW a, NEW f, NEW v, Tells(log, a, f, v)
  PROVE  Tells(log', a, f, v)
<1>1. ASSUME NEW k \in {"AuctionCreated", "AuctionUpdated", "AuctionDeleted"},
             NEW b \in AuctionId, NEW item \in Item \union {None}, Emit(k, b, item)
      PROVE  Tells(log', a, f, v)
  <2>1. /\ Len(log) \in Nat /\ Len(log') = Len(log) + 1
        /\ \A i \in 1..Len(log) : log'[i] = log[i]
    BY <1>1, EmitFacts DEF TypeOK
  <2>2. \A i \in 1..Len(log) : i \in 1..Len(log')
    BY <2>1
  <2> QED BY <2>1, <2>2 DEF Tells
<1>2. ASSUME NEW r \in Request, CommitUpdate(r) PROVE Tells(log', a, f, v)
  <2> DEFINE item == Patched(req[r].loaded, req[r].patch)
  <2>1. /\ Emit("AuctionUpdated", req[r].auctionId, item)
        /\ req[r].auctionId \in AuctionId /\ item \in Item
    BY <1>2, PatchedType DEF CommitUpdate, TypeOK, Req
  <2> HIDE DEF item
  <2> QED BY <1>1, <2>1
<1>3. ASSUME NEW r \in Request, CommitDelete(r) PROVE Tells(log', a, f, v)
  BY <1>1, <1>3 DEF CommitDelete, TypeOK, Req
<1>4. ASSUME NEW b \in AuctionId, NEW i \in Item, CreateAuction(b, i) PROVE Tells(log', a, f, v)
  BY <1>1, <1>4 DEF CreateAuction
<1> QED
  BY <1>2, <1>3, <1>4, StepCases
     DEF Load, FailRequest, DeliverToNoRow, LoadForBid, LoadForResult, Deliver,
         SaveHighBid, SaveResult, FailJob, Restart, vars

\* An event with an item tells every column of it.
LEMMA EmitTells ==
  ASSUME TypeOK, NEW k \in {"AuctionCreated", "AuctionUpdated", "AuctionDeleted"},
         NEW a \in AuctionId, NEW item \in Item, Emit(k, a, item), NEW f
  PROVE  Tells(log', a, f, item[f])
<1>1. /\ Len(log) \in Nat /\ Len(log') = Len(log) + 1
      /\ log'[Len(log) + 1].auctionId = a /\ log'[Len(log) + 1].item = item
  BY EmitFacts DEF TypeOK
<1>2. Len(log) + 1 \in 1..Len(log') /\ item # None
  BY <1>1, NoneAssumption
<1> QED BY <1>1, <1>2 DEF Tells

\* The save of an update writes the columns that its own event tells, and leaves
\* the others as they were.
LEMMA UpdateTells ==
  ASSUME TypeOK, ItemWasAnnounced, NEW r \in Request, CommitUpdate(r),
         NEW a \in AuctionId, rows'[a] # None, NEW f \in Field
  PROVE  Tells(log', a, f, rows'[a].item[f])
<1> DEFINE b == req[r].auctionId
           item == Patched(req[r].loaded, req[r].patch)
           modified == Modified(req[r].loaded, item)
           written == [g \in Field |-> IF g \in modified THEN item[g] ELSE rows[b].item[g]]
<1>1. b \in AuctionId /\ item \in Item /\ Emit("AuctionUpdated", b, item)
  BY PatchedType DEF CommitUpdate, TypeOK, Req
<1>2. [Next]_vars
  BY DEF Next, RequestStep
<1>3. rows[a] # None
  BY SavesKeepRows
<1>4. Tells(log', a, f, rows[a].item[f])
  <2>1. Tells(log, a, f, rows[a].item[f])
    BY <1>3 DEF ItemWasAnnounced, Tells
  <2> QED BY <1>2, <2>1, ToldStays
<1>5. \A g : Tells(log', b, g, item[g])
  <2> HIDE DEF b, item
  <2> QED BY <1>1, EmitTells
<1>6. CASE rows' = rows
  BY <1>4, <1>6
<1>7. CASE rows' # rows
  <2>1. rows' = [rows EXCEPT ![b].item = written] /\ rows[b] # None
    BY <1>7 DEF CommitUpdate
  <2>2. rows[b] \in Row
    BY <1>1, <2>1 DEF TypeOK
  <2>3. rows[b].item \in Item
    BY <2>2 DEF Row
  <2>4. written \in Item
    BY <1>1, <2>3, WrittenType
  <2>5. CASE a = b
    <3>1. rows'[a] = [rows[b] EXCEPT !.item = written]
      <4> HIDE DEF b, written
      <4> QED BY <2>1, <2>5 DEF TypeOK
    <3>2. rows'[a].item = written
      <4> HIDE DEF b, written
      <4> QED BY <2>2, <2>4, <3>1 DEF Row
    <3>3. written[f] = IF f \in modified THEN item[f] ELSE rows[b].item[f]
      OBVIOUS
    <3> HIDE DEF b, item, modified, written
    <3> QED BY <1>4, <1>5, <2>5, <3>2, <3>3
  <2>6. CASE a # b
    <3>1. rows'[a] = rows[a]
      <4> HIDE DEF b, written
      <4> QED BY <2>1, <2>6 DEF TypeOK
    <3> QED BY <1>4, <3>1
  <2> QED BY <2>5, <2>6
<1> QED BY <1>6, <1>7

\* Every step leaves rows whose items were told of by events.
LEMMA ItemStep == TypeOK /\ LifeInv /\ ItemWasAnnounced /\ [Next]_vars => ItemWasAnnounced'
<1> SUFFICES ASSUME TypeOK, LifeInv, ItemWasAnnounced, [Next]_vars,
                    NEW a \in AuctionId, rows'[a] # None, NEW f \in Field
             PROVE  Tells(log', a, f, rows'[a].item[f])
  BY DEF ItemWasAnnounced, Tells
<1>1. ASSUME rows[a] # None, rows'[a].item = rows[a].item
      PROVE  Tells(log', a, f, rows'[a].item[f])
  <2>1. Tells(log, a, f, rows[a].item[f])
    BY <1>1 DEF ItemWasAnnounced, Tells
  <2> QED BY <1>1, <2>1, ToldStays
<1>2. rows \in [AuctionId -> Row \union {None}]
  BY DEF TypeOK
<1>3. ASSUME NEW b \in AuctionId, NEW i \in Item, CreateAuction(b, i)
      PROVE  Tells(log', a, f, rows'[a].item[f])
  <2> DEFINE row == NewRow(i, 2 * (Len(log) + 1))
  <2>1. Emit("AuctionCreated", b, i) /\ rows' = [rows EXCEPT ![b] = row] /\ row.item = i
    BY <1>3 DEF CreateAuction, NewRow
  <2> HIDE DEF row
  <2>2. CASE a = b
    <3>1. rows'[a].item = i
      BY <1>2, <2>1, <2>2
    <3> QED BY <2>1, <2>2, <3>1, EmitTells
  <2>3. CASE a # b
    <3>1. rows'[a] = rows[a]
      BY <1>2, <2>1, <2>3
    <3> QED BY <1>1, <3>1
  <2> QED BY <2>2, <2>3
<1>4. ASSUME NEW r \in Request, CommitUpdate(r) PROVE Tells(log', a, f, rows'[a].item[f])
  BY <1>4, UpdateTells
<1>5. ASSUME NEW r \in Request, CommitDelete(r) PROVE Tells(log', a, f, rows'[a].item[f])
  <2>1. rows'[a] = rows[a]
    BY <1>2, <1>5 DEF CommitDelete
  <2> QED BY <1>1, <2>1
<1>6. ASSUME NEW c \in Consumer, SaveHighBid(c) PROVE Tells(log', a, f, rows'[a].item[f])
  <2>1. rows[a] # None
    BY <1>6, SavesKeepRows
  <2>2. \E b \in AuctionId, n \in Money : rows[b] \in Row /\
          rows' = [rows EXCEPT ![b] = [rows[b] EXCEPT !.currentHighBid = n]]
    BY <1>6, HighBidWrites DEF Money
  <2>3. rows'[a].item = rows[a].item
    BY <1>2, <2>2 DEF Row
  <2> QED BY <1>1, <2>1, <2>3
<1>7. ASSUME NEW c \in Consumer, SaveResult(c) PROVE Tells(log', a, f, rows'[a].item[f])
  <2>1. rows[a] # None
    BY <1>7, SavesKeepRows
  <2>2. rows' = rows \/ \E b \in AuctionId, s \in Sale : rows[b] \in Row /\
          rows' = [rows EXCEPT ![b] = [rows[b] EXCEPT !.sale = s]]
    BY <1>7, ResultWrites
  <2>3. rows'[a].item = rows[a].item
    BY <1>2, <2>2 DEF Row
  <2> QED BY <1>1, <2>1, <2>3
<1>8. CASE rows' = rows
  BY <1>1, <1>8
<1>9. CASE Restart
  <2>1. CASE rows' = rows
    BY <1>8, <2>1
  <2>2. CASE rows' # rows
    BY <1>9, <2>2, RestartFacts DEF Tells
  <2> QED BY <2>1, <2>2
<1> QED
  BY <1>3, <1>4, <1>5, <1>6, <1>7, <1>8, <1>9, StepCases
     DEF Load, FailRequest, DeliverToNoRow, LoadForBid, LoadForResult, Deliver, FailJob, vars

\* At the start only seeded auctions have rows, with the items of the seeds.
LEMMA ItemInit == Init => ItemWasAnnounced
<1> SUFFICES ASSUME Init, NEW a \in AuctionId, rows[a] # None
             PROVE  a \in Seeded /\ rows[a].item = SeedItem[a]
  BY DEF ItemWasAnnounced
<1>1. a \in Seeded /\ rows[a] = SeedRow(a, 1)
  BY DEF Init, NoRows, SeededRows
<1> QED BY <1>1, SeedRowType

\* Nothing is in a row's item that no seed or event has told of: overlapping
\* updates mix their columns, but every column written is in the writer's event.
THEOREM ItemsWereAnnounced == Spec => []ItemWasAnnounced
<1>1. TypeOK /\ LifeInv /\ ItemWasAnnounced /\ [Next]_vars => ItemWasAnnounced'
  BY ItemStep
<1> QED BY <1>1, ItemInit, LifeInvariant, PTL DEF Spec

-----------------------------------------------------------------------------
(* Room for the events in flight *)

\* A request that is loaded, and one that ends, count for one.
LEMMA InFlightFacts ==
  ASSUME TypeOK, NEW r \in Request
  PROVE  /\ Cardinality(InFlight) \in Nat
         /\ \A x : x # None /\ req[r] = None /\ req' = [req EXCEPT ![r] = x] =>
              Cardinality(InFlight') = Cardinality(InFlight) + 1
         /\ req[r] # None /\ req' = [req EXCEPT ![r] = None] =>
              Cardinality(InFlight') = Cardinality(InFlight) - 1
<1>1. IsFiniteSet(InFlight)
  BY BoundAssumption, FS_Subset DEF InFlight
<1>2. DOMAIN req = Request
  BY DEF TypeOK
<1>3. ASSUME NEW x, x # None, req[r] = None, req' = [req EXCEPT ![r] = x]
      PROVE  Cardinality(InFlight') = Cardinality(InFlight) + 1
  <2>1. InFlight' = InFlight \union {r} /\ r \notin InFlight
    BY <1>2, <1>3 DEF InFlight
  <2> QED BY <1>1, <2>1, FS_AddElement
<1>4. ASSUME req[r] # None, req' = [req EXCEPT ![r] = None]
      PROVE  Cardinality(InFlight') = Cardinality(InFlight) - 1
  <2>1. InFlight' = InFlight \ {r} /\ r \in InFlight
    BY <1>2, <1>4 DEF InFlight
  <2> QED BY <1>1, <2>1, FS_RemoveElement
<1> QED BY <1>1, <1>3, <1>4, FS_CardinalityType

\* No step takes the room that a request in flight needs.
LEMMA RoomStep == TypeOK /\ RoomInv /\ [Next]_vars => RoomInv'
<1> SUFFICES ASSUME TypeOK, RoomInv, [Next]_vars PROVE RoomInv'
  OBVIOUS
<1>1. Len(log) \in Nat /\ MaxEvents \in Nat
  BY BoundAssumption DEF TypeOK
<1>2. Cardinality(InFlight) \in Nat
  BY BoundAssumption, FS_Subset, FS_CardinalityType DEF InFlight
<1>3. ASSUME NEW k \in {"AuctionCreated", "AuctionUpdated", "AuctionDeleted"},
             NEW a \in AuctionId, NEW item \in Item \union {None}, Emit(k, a, item)
      PROVE  Len(log') = Len(log) + 1
  BY <1>3, EmitFacts DEF TypeOK
<1>4. ASSUME NEW a \in AuctionId, NEW i \in Item, CreateAuction(a, i) PROVE RoomInv'
  <2>1. Len(log') = Len(log) + 1 /\ InFlight' = InFlight /\ Room
    BY <1>3, <1>4 DEF CreateAuction, InFlight
  <2> QED BY <1>1, <1>2, <2>1 DEF RoomInv, Room
<1>5. ASSUME NEW r \in Request, NEW u, NEW a \in AuctionId, NEW op \in {"update", "delete"},
             NEW p \in Patch, Load(r, u, a, op, p)
      PROVE  RoomInv'
  <2> DEFINE x == [op |-> op, patch |-> p, auctionId |-> a, loaded |-> rows[a].item]
  <2>1. Room /\ req[r] = None /\ req' = [req EXCEPT ![r] = x] /\ log' = log /\ rows[a] # None
    BY <1>5 DEF Load
  <2>2. x \in Req
    <3>1. rows[a].item \in Item
      BY <2>1 DEF TypeOK, Row
    <3> QED BY <3>1 DEF Req
  <2> HIDE DEF x
  <2>3. Cardinality(InFlight') = Cardinality(InFlight) + 1
    BY <2>1, <2>2, InFlightFacts, NoneAssumption
  <2> QED BY <1>1, <1>2, <2>1, <2>3 DEF RoomInv, Room
<1>6. ASSUME NEW r \in Request, CommitUpdate(r) \/ CommitDelete(r) \/ FailRequest(r)
      PROVE  RoomInv'
  <2>1. req[r] # None /\ req' = [req EXCEPT ![r] = None]
    BY <1>6 DEF CommitUpdate, CommitDelete, FailRequest
  <2>2. Cardinality(InFlight') = Cardinality(InFlight) - 1
    BY <2>1, InFlightFacts
  <2>3. Len(log') = Len(log) + 1 \/ log' = log
    <3>1. CASE CommitUpdate(r)
      <4> DEFINE item == Patched(req[r].loaded, req[r].patch)
      <4>1. /\ Emit("AuctionUpdated", req[r].auctionId, item)
            /\ req[r].auctionId \in AuctionId /\ item \in Item
        BY <3>1, PatchedType DEF CommitUpdate, TypeOK, Req
      <4> HIDE DEF item
      <4> QED BY <1>3, <4>1
    <3>2. CASE CommitDelete(r)
      BY <1>3, <3>2 DEF CommitDelete, TypeOK, Req
    <3> QED BY <1>6, <3>1, <3>2 DEF FailRequest
  <2> QED BY <1>1, <1>2, <2>2, <2>3 DEF RoomInv
<1>7. CASE log' = log /\ req' = req
  BY <1>7 DEF RoomInv, InFlight
<1>8. CASE Restart
  <2>1. log' = log /\ InFlight' = {}
    BY <1>8, RestartFacts DEF InFlight
  <2>2. Cardinality(InFlight') = 0
    BY <2>1, FS_EmptySet
  <2> QED BY <1>1, <1>2, <2>1, <2>2 DEF RoomInv
<1> QED
  BY <1>4, <1>5, <1>6, <1>7, <1>8, StepCases
     DEF DeliverToNoRow, LoadForBid, LoadForResult, Deliver, SaveHighBid, SaveResult, FailJob, vars

\* The log stays within its bound.
LEMMA RoomBound == TypeOK /\ RoomInv => Len(log) <= MaxEvents
<1> SUFFICES ASSUME TypeOK, RoomInv PROVE Len(log) <= MaxEvents
  OBVIOUS
<1>1. Cardinality(InFlight) \in Nat
  BY BoundAssumption, FS_Subset, FS_CardinalityType DEF InFlight
<1>2. Len(log) \in Nat /\ MaxEvents \in Nat
  BY BoundAssumption DEF TypeOK
<1> QED BY <1>1, <1>2 DEF RoomInv

\* There is room at the start.
LEMMA RoomInit == Init => RoomInv
<1> SUFFICES ASSUME Init PROVE RoomInv
  OBVIOUS
<1>1. InFlight = {} /\ Len(log) = 0
  BY DEF Init, InFlight
<1> QED BY <1>1, BoundAssumption, FS_EmptySet DEF RoomInv

\* The inductive invariant as a whole: types, one story of rows and events, bids
\* held for a reason, sales that stay, items that were told of, room for events.
THEOREM AuctionInvariant == Spec => []IInv
<1>1. Init => IInv
  BY TypeInit, LifeInit, SoldInit, ItemInit, RoomInit DEF Init, BidJobInv, IInv
<1>2. IInv /\ [Next]_vars => IInv'
  BY TypeStep, LifeStep, BidJobStep, SoldStep, ItemStep, RoomStep DEF IInv
<1> QED BY <1>1, <1>2, PTL DEF Spec
-----------------------------------------------------------------------------
(* A step as those see it who read the events and the items *)

\* Without an event, rows stay, and keep their items; a request may load one.
Quiet ==
  /\ log' = log /\ seedings' = seedings
  /\ \A a \in AuctionId : rows'[a] = None <=> rows[a] = None
  /\ \A a \in AuctionId : rows[a] # None => rows'[a].item = rows[a].item
  /\ \A r \in Request : req'[r] # None =>
       \/ req'[r] = req[r]
       \/ /\ rows[req'[r].auctionId] # None
          /\ req'[r].loaded = rows[req'[r].auctionId].item

\* Request r ends: its update leaves the row, if there is one, with the item of
\* the event, unless the row had changed since the load.
Updated(r, b, item) ==
  /\ req[r] # None /\ req[r].auctionId = b /\ req'[r] = None
  /\ rows'[b] = None <=> rows[b] = None
  /\ rows[b] # None /\ req[r].loaded = rows[b].item => rows'[b].item = item

\* An event of b is committed, and the other rows are as they were.
Committed(k, b, item) ==
  /\ Emit(k, b, item) /\ seedings' = seedings
  /\ \A a \in AuctionId : a # b => rows'[a] = rows[a]
  /\ \A r \in Request : req'[r] # None => req'[r] = req[r]
  /\ \/ /\ k = "AuctionCreated" /\ item \in Item /\ b \notin Seeded /\ ~ Known(b)
        /\ rows'[b] # None /\ rows'[b].item = item
     \/ k = "AuctionUpdated" /\ item \in Item /\ \E r \in Request : Updated(r, b, item)
     \/ k = "AuctionDeleted" /\ item = None /\ rows'[b] = None

\* What the save of an update does to its own row.
LEMMA UpdateIsCommitted ==
  ASSUME TypeOK, NEW r \in Request, CommitUpdate(r)
  PROVE  \E b \in AuctionId, item \in Item : Committed("AuctionUpdated", b, item)
<1> DEFINE b == req[r].auctionId
           item == Patched(req[r].loaded, req[r].patch)
           modified == Modified(req[r].loaded, item)
           written == [g \in Field |-> IF g \in modified THEN item[g] ELSE rows[b].item[g]]
<1>1. /\ req[r] # None /\ req[r].loaded \in Item
      /\ b \in AuctionId /\ item \in Item /\ Emit("AuctionUpdated", b, item)
      /\ seedings' = seedings
  BY PatchedType DEF CommitUpdate, TypeOK, Req
<1>2. \A x \in Request : req'[x] # None => req'[x] = req[x]
  BY DEF CommitUpdate, TypeOK
<1>3. req'[r] = None
  BY DEF CommitUpdate, TypeOK
<1>4. \A a \in AuctionId : rows'[a] = None <=> rows[a] = None
  BY SavesKeepRows
<1>5. \A a \in AuctionId : a # b => rows'[a] = rows[a]
  <2>1. rows' = rows \/ rows' = [rows EXCEPT ![b].item = written]
    BY DEF CommitUpdate
  <2> HIDE DEF b, written
  <2> QED BY <2>1 DEF TypeOK
<1>6. ASSUME rows[b] # None, req[r].loaded = rows[b].item
      PROVE  rows'[b].item = item
  <2>1. \A f \in Field : f \notin modified => item[f] = req[r].loaded[f]
    BY <1>1 DEF Modified, Item
  <2>2. CASE modified = {}
    <3>1. item = req[r].loaded
      <4> HIDE DEF item
      <4> QED BY <1>1, <2>1, <2>2 DEF Item
    <3>2. rows' = rows
      BY <2>2 DEF CommitUpdate
    <3> QED BY <1>6, <3>1, <3>2
  <2>3. CASE modified # {}
    <3>1. rows[b] \in Row /\ rows[b].item \in Item
      BY <1>1, <1>6 DEF TypeOK, Row
    <3>2. rows' = [rows EXCEPT ![b].item = written]
      BY <2>3 DEF CommitUpdate
    <3>3. written = item
      <4>1. \A f \in Field : (IF f \in modified THEN item[f] ELSE rows[b].item[f]) = item[f]
        BY <1>6, <2>1
      <4> HIDE DEF item, modified, b
      <4> QED BY <1>1, <4>1 DEF Item
    <3>4. rows'[b] = [rows[b] EXCEPT !.item = item]
      <4> HIDE DEF b, item, written
      <4> QED BY <1>1, <3>2, <3>3 DEF TypeOK
    <3> HIDE DEF b, item
    <3> QED BY <1>1, <3>1, <3>4 DEF Row
  <2> QED BY <2>2, <2>3
<1>7. Updated(r, b, item)
  BY <1>1, <1>3, <1>4, <1>6 DEF Updated
<1> HIDE DEF b, item
<1>8. Committed("AuctionUpdated", b, item)
  BY <1>1, <1>2, <1>5, <1>7 DEF Committed
<1> QED BY <1>1, <1>8

\* The service starts and seeds the auctions that are to be there from the start.
Reseeded ==
  /\ log' = log
  /\ \A r \in Request : req'[r] = None
  /\ \A a \in AuctionId :
       /\ rows[a] = None
       /\ IF a \in Seeded THEN Len(log) \in seedings'[a] ELSE rows'[a] = None
       /\ seedings[a] \subseteq seedings'[a]

\* Every step is of one of the three kinds.
LEMMA QuietOrCommitted ==
  ASSUME TypeOK, LifeInv, [Next]_vars
  PROVE  \/ Quiet
         \/ Reseeded
         \/ \E k \in {"AuctionCreated", "AuctionUpdated", "AuctionDeleted"}, b \in AuctionId,
               item \in Item \union {None} : Committed(k, b, item)
<1> DEFINE Goal == \/ Quiet
                   \/ Reseeded
                   \/ \E k \in {"AuctionCreated", "AuctionUpdated", "AuctionDeleted"},
                         b \in AuctionId, item \in Item \union {None} : Committed(k, b, item)
<1>1. rows \in [AuctionId -> Row \union {None}] /\ None \notin Row
  BY NoneAssumption DEF TypeOK
<1>2. ASSUME NEW a \in AuctionId, NEW i \in Item, CreateAuction(a, i) PROVE Goal
  <2> DEFINE row == NewRow(i, 2 * (Len(log) + 1))
  <2>1. /\ Emit("AuctionCreated", a, i) /\ a \notin Seeded /\ ~ Known(a)
        /\ rows' = [rows EXCEPT ![a] = row] /\ req' = req /\ seedings' = seedings
    BY <1>2, FreshIsUnknown DEF CreateAuction
  <2>2. row # None /\ row.item = i
    BY NewRowType DEF TypeOK
  <2> HIDE DEF row
  <2>3. /\ rows'[a] # None /\ rows'[a].item = i
        /\ \A b \in AuctionId : b # a => rows'[b] = rows[b]
    BY <1>1, <2>1, <2>2
  <2>4. Committed("AuctionCreated", a, i)
    BY <2>1, <2>3 DEF Committed
  <2> QED BY <2>4
<1>3. ASSUME NEW r \in Request, CommitUpdate(r) PROVE Goal
  BY <1>3, UpdateIsCommitted
<1>4. ASSUME NEW r \in Request, CommitDelete(r) PROVE Goal
  <2> DEFINE b == req[r].auctionId
  <2>1. /\ b \in AuctionId /\ Emit("AuctionDeleted", b, None) /\ seedings' = seedings
        /\ rows' = [rows EXCEPT ![b] = None] /\ req' = [req EXCEPT ![r] = None]
    BY <1>4 DEF CommitDelete, TypeOK, Req
  <2> HIDE DEF b
  <2>2. rows'[b] = None /\ \A a \in AuctionId : a # b => rows'[a] = rows[a]
    BY <1>1, <2>1
  <2>3. \A x \in Request : req'[x] # None => req'[x] = req[x]
    BY <2>1 DEF TypeOK
  <2>4. Committed("AuctionDeleted", b, None)
    BY <2>1, <2>2, <2>3 DEF Committed
  <2> QED BY <2>1, <2>4
<1>5. ASSUME NEW r \in Request, NEW u, NEW a \in AuctionId, NEW op \in {"update", "delete"},
             NEW p \in Patch, Load(r, u, a, op, p)
      PROVE  Goal
  <2> DEFINE x == [op |-> op, patch |-> p, auctionId |-> a, loaded |-> rows[a].item]
  <2>1. /\ log' = log /\ rows' = rows /\ seedings' = seedings
        /\ rows[a] # None /\ req' = [req EXCEPT ![r] = x]
    BY <1>5 DEF Load
  <2>2. x.auctionId = a /\ x.loaded = rows[a].item
    OBVIOUS
  <2> HIDE DEF x
  <2>3. \A y \in Request : req'[y] = req[y] \/ req'[y] = x
    BY <2>1 DEF TypeOK
  <2> QED BY <2>1, <2>2, <2>3 DEF Quiet
<1>6. ASSUME NEW c \in Consumer, SaveHighBid(c) \/ SaveResult(c) PROVE Goal
  <2>1. log' = log /\ req' = req /\ seedings' = seedings
    BY <1>6 DEF SaveHighBid, SaveResult
  <2>2. \A a \in AuctionId : rows'[a] = None <=> rows[a] = None
    BY <1>6, SavesKeepRows
  <2>3. ASSUME NEW a \in AuctionId, rows[a] # None PROVE rows'[a].item = rows[a].item
    <3>1. \/ rows' = rows
          \/ \E b \in AuctionId, n \in Money : rows[b] \in Row /\
               rows' = [rows EXCEPT ![b] = [rows[b] EXCEPT !.currentHighBid = n]]
          \/ \E b \in AuctionId, s \in Sale : rows[b] \in Row /\
               rows' = [rows EXCEPT ![b] = [rows[b] EXCEPT !.sale = s]]
      BY <1>6, HighBidWrites, ResultWrites DEF Money
    <3> QED BY <1>1, <2>3, <3>1 DEF Row
  <2> QED BY <2>1, <2>2, <2>3 DEF Quiet
<1>7. ASSUME NEW r \in Request, FailRequest(r) PROVE Goal
  <2>1. /\ log' = log /\ rows' = rows /\ seedings' = seedings
        /\ \A x \in Request : req'[x] # None => req'[x] = req[x]
    BY <1>7 DEF FailRequest, TypeOK
  <2> QED BY <2>1 DEF Quiet
<1>8. CASE log' = log /\ rows' = rows /\ req' = req /\ seedings' = seedings
  BY <1>8 DEF Quiet
<1>9. CASE Restart
  <2>1. CASE rows' = rows /\ seedings' = seedings
    BY <1>9, <2>1, RestartFacts DEF Quiet
  <2>2. CASE ~ (rows' = rows /\ seedings' = seedings)
    BY <1>9, <2>2, RestartFacts DEF Reseeded, LifeInv, SeedInv
  <2> QED BY <2>1, <2>2
<1> QED
  BY <1>2, <1>3, <1>4, <1>5, <1>6, <1>7, <1>8, <1>9, StepCases
     DEF DeliverToNoRow, LoadForBid, LoadForResult, Deliver, FailJob, vars
=============================================================================
