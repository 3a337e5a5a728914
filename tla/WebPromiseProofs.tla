-------------------------- MODULE WebPromiseProofs --------------------------
(***************************************************************************)
(* Proofs of what the web client promises: bids that stay and are listed   *)
(* once, forms that are left on success only, prices that were offered,    *)
(* lists of the parameters that are shown.                                 *)
(***************************************************************************)
EXTENDS WebClientProofs

(* Where the calls of a tab come from *)

\* Call d is call c, later.
Kin(d, c) ==
  /\ d.kind = c.kind /\ d.args = c.args
  /\ d.answer = c.answer \/ Failed(d.answer)
  /\ d.left = "no" => c.left = "no"

\* Calls that are waited for are answered one after the other.
AnswersInOrder(cs) ==
  \A i, j \in 1..Len(cs) : j < i /\ cs[i].answer # None => cs[j].left # "no"

NewCalls == {c \in SomeCall : c.left = "no" /\ c.answer = None}

\* The calls in cs are those of the tab, which are waited for only if stays, and new ones.
Sprung(cs, stays, new) ==
  /\ cs \in Seq(SomeCall) /\ AnswersInOrder(cs)
  /\ \A i \in 1..Len(cs) :
       \/ cs[i] \in new
       \/ \E k \in 1..Len(calls) : Kin(cs[i], calls[k]) /\ (cs[i].left = "no" => stays)

\* The order of the answers, said of the queue.
LEMMA OrderOfAnswers ==
  ASSUME NEW cs \in Seq(SomeCall)
  PROVE  AnswersInOrder(cs) <=> \A i \in 1..Len(cs) : cs[i].answer # None => i \in InFlight(cs)
<1>1. Len(cs) \in Nat /\ DOMAIN cs = 1..Len(cs)
  BY LenProperties
<1>2. \A i \in 1..Len(cs) : i \in InFlight(cs) <=> \A j \in 1..(i - 1) : cs[j].left # "no"
  BY <1>1 DEF InFlight
<1>3. \A i, j \in 1..Len(cs) : j < i <=> j \in 1..(i - 1)
  BY <1>1
<1>4. \A i \in 1..Len(cs) : \A j \in 1..(i - 1) : j \in 1..Len(cs)
  BY <1>1
<1> QED BY <1>2, <1>3, <1>4 DEF AnswersInOrder

\* The queue as it is.
LEMMA SprungFirst ==
  ASSUME calls \in Seq(SomeCall), AnswersInOrder(calls)
  PROVE  Sprung(calls, TRUE, {})
  BY DEF Sprung, Kin

\* The operations on the queue.
LEMMA SprungKept ==
  ASSUME NEW cs, NEW stays, NEW new \in SUBSET NewCalls, Sprung(cs, stays, new)
  PROVE  /\ new = {} => \A ds \in {Left(cs), Detached(cs)} : Sprung(ds, FALSE, new)
         /\ \A i \in 1..Len(cs) : Sprung(RemoveAt(cs, i), stays, new)
         /\ \A c \in new : Sprung(Append(cs, c), stays, new)
<1>1. /\ cs \in Seq(SomeCall) /\ Len(cs) \in Nat /\ AnswersInOrder(cs)
      /\ \A i \in 1..Len(cs) :
           \/ cs[i] \in new
           \/ \E k \in 1..Len(calls) : Kin(cs[i], calls[k]) /\ (cs[i].left = "no" => stays)
  BY LenProperties DEF Sprung
<1>2. ASSUME NEW ds \in {Left(cs), Detached(cs)}, new = {} PROVE Sprung(ds, FALSE, new)
  <2>1. /\ ds \in Seq(SomeCall)
        /\ \A i \in 1..Len(ds) : /\ i \in 1..Len(cs)
                                 /\ ds[i].kind = cs[i].kind /\ ds[i].args = cs[i].args
                                 /\ ds[i].answer = cs[i].answer /\ ds[i].left # "no"
    BY <1>1, LeftFacts
  <2> HIDE DEF Left, Detached
  <2>2. AnswersInOrder(ds)
    BY <1>1, <2>1 DEF AnswersInOrder
  <2>3. ASSUME NEW i \in 1..Len(ds)
        PROVE  \/ ds[i] \in new
               \/ \E k \in 1..Len(calls) : Kin(ds[i], calls[k]) /\ (ds[i].left = "no" => FALSE)
    <3>1. PICK k \in 1..Len(calls) : Kin(cs[i], calls[k])
      BY <1>1, <1>2, <2>1
    <3>2. Kin(ds[i], calls[k])
      BY <2>1, <3>1 DEF Kin
    <3> QED BY <2>1, <3>2
  <2> QED BY <2>1, <2>2, <2>3 DEF Sprung
<1>3. ASSUME NEW i \in 1..Len(cs) PROVE Sprung(RemoveAt(cs, i), stays, new)
  <2> DEFINE ds == RemoveAt(cs, i)
  <2>1. /\ ds \in Seq(SomeCall) /\ Len(ds) = Len(cs) - 1
        /\ \A k \in 1..(Len(cs) - 1) : ds[k] = cs[IF k < i THEN k ELSE k + 1]
    BY <1>1, RemoveAtKeeps
  <2> HIDE DEF ds
  <2>2. \A k \in 1..Len(ds) : \E x \in 1..Len(cs) : ds[k] = cs[x]
    BY <1>1, <2>1
  <2>3. AnswersInOrder(ds)
    <3> SUFFICES ASSUME NEW a \in 1..Len(ds), NEW b \in 1..Len(ds), b < a, ds[a].answer # None
                 PROVE  ds[b].left # "no"
      BY DEF AnswersInOrder
    <3> DEFINE x == IF a < i THEN a ELSE a + 1
               y == IF b < i THEN b ELSE b + 1
    <3>1. x \in 1..Len(cs) /\ y \in 1..Len(cs) /\ y < x
      BY <1>1, <2>1
    <3>2. ds[a] = cs[x] /\ ds[b] = cs[y]
      BY <2>1
    <3> HIDE DEF x, y
    <3> QED BY <1>1, <3>1, <3>2 DEF AnswersInOrder
  <2>4. \A k \in 1..Len(ds) :
          \/ ds[k] \in new
          \/ \E l \in 1..Len(calls) : Kin(ds[k], calls[l]) /\ (ds[k].left = "no" => stays)
    BY <1>1, <2>2
  <2> QED BY <2>1, <2>3, <2>4 DEF Sprung, ds
<1>4. ASSUME NEW c \in new PROVE Sprung(Append(cs, c), stays, new)
  <2> DEFINE ds == Append(cs, c)
  <2>1. c \in SomeCall /\ c.left = "no" /\ c.answer = None
    BY DEF NewCalls
  <2>2. /\ ds \in Seq(SomeCall) /\ Len(ds) = Len(cs) + 1 /\ ds[Len(cs) + 1] = c
        /\ \A i \in 1..Len(cs) : ds[i] = cs[i]
        /\ \A i \in 1..Len(ds) : i \in 1..Len(cs) \/ i = Len(cs) + 1
    BY <1>1, <2>1, AppendFacts
  <2> HIDE DEF ds
  <2>3. AnswersInOrder(ds)
    BY <1>1, <2>1, <2>2 DEF AnswersInOrder
  <2> QED BY <1>1, <2>2, <2>3 DEF Sprung, ds
<1> QED BY <1>2, <1>3, <1>4

\* A new search is that of the home page and its parameters, a new update that of the
\* form.
WantedCalls ==
  {c \in NewCalls :
     /\ c.kind = "search" => OnHome' /\ c.args = Query(params')
     /\ c.kind = "update" => /\ OnUpdate /\ page' = page
                             /\ c.args = [auctionId |-> page.auctionId, item |-> form,
                                          was |-> page.row.item, typed |-> typed]}

\* A step of the tab: its calls are those before, waited for if the page stays, and
\* new ones.
Journey == Sprung(calls', page'.name = page.name, WantedCalls)

\* Before a step.
LEMMA Queued ==
  ASSUME Types, QueueInv
  PROVE  /\ calls \in Seq(SomeCall) /\ AnswersInOrder(calls) /\ Sprung(calls, TRUE, {})
         /\ \A i \in InFlight(calls) : Sprung(RemoveAt(calls, i), TRUE, {})
<1>1. calls \in Seq(SomeCall) /\ AnswersInOrder(calls)
  BY QueueTypes, OrderOfAnswers DEF QueueInv
<1>2. Sprung(calls, TRUE, {})
  BY <1>1, SprungFirst
<1>3. ASSUME NEW i \in InFlight(calls) PROVE Sprung(RemoveAt(calls, i), TRUE, {})
  <2>1. i \in 1..Len(calls) /\ {} \in SUBSET NewCalls
    BY QueueTypes
  <2> QED BY <1>2, <2>1, SprungKept
<1> QED BY <1>1, <1>2, <1>3

\* The page stays.
LEMMA StaysJourney ==
  ASSUME NEW cs, Sprung(cs, TRUE, {}), calls' = cs, page'.name = page.name
  PROVE  Journey
<1>1. Sprung(cs, page'.name = page.name, WantedCalls)
  BY DEF Sprung
<1> QED BY <1>1, Zenon DEF Journey

\* A call is made.
LEMMA SendsJourney ==
  ASSUME NEW c \in WantedCalls, Sprung(calls, TRUE, {}), calls' = Append(calls, c),
         page'.name = page.name
  PROVE  Journey
<1>1. WantedCalls \in SUBSET NewCalls
  BY DEF WantedCalls
<1>2. Sprung(calls, TRUE, WantedCalls)
  BY DEF Sprung
<1>3. Sprung(Append(calls, c), TRUE, WantedCalls)
  BY <1>1, <1>2, SprungKept
<1>4. Sprung(Append(calls, c), page'.name = page.name, WantedCalls)
  BY <1>3 DEF Sprung
<1> QED BY <1>4, Zenon DEF Journey

\* A navigation, with a new call or without.
LEMMA LeavesJourney ==
  ASSUME NEW cs, Sprung(cs, TRUE, {}), NEW ds \in {Left(cs), Detached(cs)},
         calls' = ds \o <<>> \/ \E c \in WantedCalls : calls' = ds \o <<c>>
  PROVE  Journey
<1>1. WantedCalls \in SUBSET NewCalls /\ {} \in SUBSET NewCalls
  BY DEF WantedCalls
<1>2. Sprung(ds, FALSE, {})
  BY <1>1, SprungKept
<1>3. ds \in Seq(SomeCall)
  BY <1>2 DEF Sprung
<1> HIDE DEF WantedCalls
<1> HIDE DEF Left, Detached
<1>4. Sprung(ds, FALSE, WantedCalls)
  BY <1>2 DEF Sprung
<1> DEFINE stays == page'.name = page.name
<1>5. CASE calls' = ds \o <<>>
  <2>1. calls' = ds
    BY <1>3, <1>5, ConcatEmptySeq
  <2>2. Sprung(ds, stays, WantedCalls)
    BY <1>4 DEF Sprung
  <2> QED BY <2>1, <2>2, Zenon DEF Journey
<1>6. ASSUME NEW c \in WantedCalls, calls' = ds \o <<c>> PROVE Journey
  <2>1. c \in SomeCall
    BY <1>1 DEF NewCalls
  <2>2. calls' = Append(ds, c)
    BY <1>3, <1>6, <2>1, AppendFacts
  <2>3. Sprung(Append(ds, c), FALSE, WantedCalls)
    BY <1>1, <1>4, SprungKept
  <2>4. Sprung(Append(ds, c), stays, WantedCalls)
    BY <2>3 DEF Sprung
  <2> QED BY <2>2, <2>4, Zenon DEF Journey
<1> QED BY <1>5, <1>6

\* A page without calls, or with one.
LEMMA FirstJourney ==
  ASSUME calls' = <<>> \/ \E c \in WantedCalls : calls' = <<c>>
  PROVE  Journey
<1>1. WantedCalls \in SUBSET NewCalls
  BY DEF WantedCalls
<1> HIDE DEF WantedCalls
<1>2. CASE calls' = <<>>
  <2>1. calls' \in Seq(SomeCall) /\ Len(calls') = 0
    BY <1>2, EmptySeq
  <2> QED BY <2>1 DEF Journey, Sprung, AnswersInOrder
<1>3. ASSUME NEW c \in WantedCalls, calls' = <<c>> PROVE Journey
  <2>1. c \in SomeCall
    BY <1>1 DEF NewCalls
  <2>2. calls' \in Seq(SomeCall) /\ Len(calls') = 1 /\ calls'[1] = c
    BY <1>3, <2>1
  <2> QED BY <2>2 DEF Journey, Sprung, AnswersInOrder
<1> QED BY <1>2, <1>3

\* The page of an auction, with its call.
LEMMA VisitsJourney ==
  ASSUME Types, NEW cs, Sprung(cs, TRUE, {}), NEW a \in AuctionId \union {None},
         NEW kept \in SUBSET SomePage, VisitDetails(cs, a, kept)
  PROVE  Journey
<1>1. PICK p \in Renderings(DetailsPage(a), kept) : GoToDetails(cs, p) /\ cached' = Keeping(p, kept)
  BY DEF VisitDetails
<1>2. ServicesType /\ session \in Session
  BY DEF Types, TabType
<1>3. p \in SomePage /\ p.name = "details"
  BY <1>1, <1>2, RenderedPages DEF Renderings, Same
<1>4. BidsCall(p) \in WantedCalls
  BY <1>3, BidsCallType DEF WantedCalls, NewCalls
<1>5. PICK fetch \in BOOLEAN, ds \in {Left(cs), Detached(cs)} :
        calls' = ds \o (IF fetch THEN <<BidsCall(p)>> ELSE <<>>)
  <2> DEFINE remount == ~ Same(p, page)
             fetch == remount \/ BidsCall(p) # BidsCall(page)
  <2>1. calls' = (IF remount THEN Left(cs) ELSE Detached(cs)) \o (IF fetch THEN <<BidsCall(p)>> ELSE <<>>)
    BY <1>1 DEF GoToDetails
  <2>2. fetch \in BOOLEAN /\ remount \in BOOLEAN
    OBVIOUS
  <2> HIDE DEF fetch, remount
  <2> QED BY <2>1, <2>2
<1>6. calls' = ds \o <<>> \/ calls' = ds \o <<BidsCall(p)>>
  BY <1>5
<1> QED BY <1>4, <1>6, LeavesJourney

\* The home page, with its call.
LEMMA HomeJourney ==
  ASSUME NEW cs, Sprung(cs, TRUE, {}), NEW ps \in Params, GoHome(cs, ps)
  PROVE  Journey
<1>1. page' = HomePage /\ params' = ps /\ calls' = Left(cs) \o <<SearchCall(ps)>>
  BY DEF GoHome, Show
<1>2. OnHome'
  BY <1>1 DEF OnHome, HomePage, Page
<1>3. SearchCall(ps) \in WantedCalls
  BY <1>1, <1>2, SearchCallType DEF WantedCalls, NewCalls
<1> QED BY <1>1, <1>3, LeavesJourney

\* A full load.
LEMMA LoadJourney ==
  ASSUME Types, NEW p \in SomePage, NEW u, Load(p, u)
  PROVE  Journey
<1>1. page' = p /\ calls' = MountCalls(p) /\ params' = InitialParams
  BY DEF Load
<1>2. InitialParams \in Params
  BY ParamsTypes DEF Types, ListType
<1>3. CASE p.name = "home"
  <2>1. OnHome' /\ calls' = <<SearchCall(InitialParams)>>
    BY <1>1, <1>3 DEF OnHome, MountCalls
  <2>2. SearchCall(InitialParams) \in WantedCalls
    BY <1>1, <1>2, <2>1, SearchCallType DEF WantedCalls, NewCalls
  <2> QED BY <2>1, <2>2, FirstJourney
<1>4. CASE p.name = "details"
  <2>1. calls' = <<BidsCall(p)>>
    BY <1>1, <1>4 DEF MountCalls
  <2>2. BidsCall(p) \in WantedCalls
    BY BidsCallType DEF WantedCalls, NewCalls
  <2> QED BY <2>1, <2>2, FirstJourney
<1>5. CASE p.name \notin {"home", "details"}
  <2>1. calls' = <<>>
    BY <1>1, <1>5 DEF MountCalls
  <2> QED BY <2>1, FirstJourney
<1> QED BY <1>3, <1>4, <1>5

\* A call fails: nothing else about the queue changes.
LEMMA FailedCall ==
  ASSUME Types, NEW i, NEW answer \in {Error, Rejected}, Fail(i, answer)
  PROVE  \E d \in SomeCall :
           /\ i \in InFlight(calls) /\ i \in 1..Len(calls) /\ calls[i] \in SomeCall /\ page' = page
           /\ d.kind = calls[i].kind /\ d.args = calls[i].args /\ d.left = calls[i].left
           /\ d.answer = answer
           /\ calls' \in Seq(SomeCall) /\ Len(calls') = Len(calls)
           /\ \A j \in 1..Len(calls) : calls'[j] = IF j = i THEN d ELSE calls[j]
<1>1. /\ i \in InFlight(calls) /\ calls' = [calls EXCEPT ![i].answer = answer] /\ page' = page
  BY DEF Fail
<1>2. calls \in Seq(SomeCall) /\ i \in 1..Len(calls) /\ calls[i] \in SomeCall
  BY <1>1, QueueTypes
<1> DEFINE c == calls[i]
           d == [c EXCEPT !.answer = answer]
           ds == [calls EXCEPT ![i] = d]
<1>3. d \in SomeCall /\ d.kind = c.kind /\ d.args = c.args /\ d.left = c.left /\ d.answer = answer
  <2>1. c \in SomeCall
    BY <1>2
  <2> HIDE DEF c
  <2> QED BY <2>1, CallAnswer
<1>4. calls' = ds
  BY <1>1
<1> HIDE DEF d
<1>5. /\ ds \in Seq(SomeCall) /\ Len(ds) = Len(calls)
      /\ \A j \in 1..Len(calls) : ds[j] = IF j = i THEN d ELSE calls[j]
  BY <1>2, <1>3, ExceptSeq
<1> HIDE DEF ds
<1> QED BY <1>1, <1>2, <1>3, <1>4, <1>5

\* A call fails.
LEMMA FailJourney ==
  ASSUME Types, QueueInv, NEW i, NEW answer \in {Error, Rejected}, Fail(i, answer)
  PROVE  Journey
<1>1. PICK d \in SomeCall :
           /\ i \in InFlight(calls) /\ i \in 1..Len(calls) /\ calls[i] \in SomeCall /\ page' = page
           /\ d.kind = calls[i].kind /\ d.args = calls[i].args /\ d.left = calls[i].left
           /\ d.answer = answer
           /\ calls' \in Seq(SomeCall) /\ Len(calls') = Len(calls)
           /\ \A j \in 1..Len(calls) : calls'[j] = IF j = i THEN d ELSE calls[j]
  BY FailedCall
<1>2. Len(calls) \in Nat /\ AnswersInOrder(calls)
  BY Queued, QueueTypes
<1>3. \A j \in 1..Len(calls) : j < i => calls[j].left # "no"
  <2>1. \A j \in 1..(i - 1) : calls[j].left # "no"
    BY <1>1 DEF InFlight
  <2> QED BY <1>1, <1>2, <2>1
<1>4. AnswersInOrder(calls')
  BY <1>1, <1>2, <1>3 DEF AnswersInOrder
<1>5. \A j \in 1..Len(calls') : Kin(calls'[j], calls[j])
  BY <1>1, <1>2 DEF Kin, Failed
<1>6. Sprung(calls', TRUE, {})
  BY <1>1, <1>4, <1>5 DEF Sprung
<1> QED BY <1>1, <1>6, StaysJourney

\* The services and the session.
LEMMA WorldJourney ==
  ASSUME Types, QueueInv, World
  PROVE  Journey
<1>1. Sprung(calls, TRUE, {})
  BY Queued
<1>2. CASE UNCHANGED <<page, calls>>
  BY <1>1, <1>2, StaysJourney
<1>3. CASE \E i \in DOMAIN calls, answer \in {Error, Rejected} : Fail(i, answer)
  BY <1>3, FailJourney
<1>4. UNCHANGED <<page, calls>> \/ \E i \in DOMAIN calls, answer \in {Error, Rejected} : Fail(i, answer)
  BY DEF World, tabVars, TokenExpires, SignInElsewhere
<1> QED BY <1>2, <1>3, <1>4

\* The parameters are set.
LEMMA SetJourney ==
  ASSUME Types, QueueInv, NEW ps \in Params, SetOnHome(ps) \/ SetAndGoHome(ps)
  PROVE  Journey
<1>1. Sprung(calls, TRUE, {})
  BY Queued
<1>2. CASE SetOnHome(ps)
  <2>1. OnHome /\ params' = ps /\ page' = page
        /\ (calls' = calls \/ calls' = Append(calls, SearchCall(ps)))
    BY <1>2 DEF SetOnHome, Send
  <2>2. SearchCall(ps) \in WantedCalls
    BY <2>1, SearchCallType DEF WantedCalls, NewCalls, OnHome
  <2> QED BY <1>1, <2>1, <2>2, StaysJourney, SendsJourney
<1>3. CASE GoHome(calls, ps)
  BY <1>1, <1>3, HomeJourney
<1> QED BY <1>2, <1>3 DEF SetAndGoHome

\* The buttons that set parameters.
SetsParams == \E ps \in Params : SetOnHome(ps) \/ SetAndGoHome(ps)

\* All buttons set parameters, but for the text in the search box.
LEMMA OnListSets ==
  ASSUME Types, OnList
  PROVE  /\ UNCHANGED restVars
         /\ \/ SetsParams
            \/ \E text \in SearchText : params' = [params EXCEPT !.searchValue = text]
                                        /\ UNCHANGED <<page, calls, list, loading, shown, fresh>>
<1>1. UNCHANGED <<bidVars, formVars, liveVars>>
  BY DEF OnList
<1>2. params \in Params /\ viewer \in User \union {None}
  BY DEF Types, ListType, TabType
<1>3. ASSUME Click PROVE UNCHANGED restVars
  BY <1>1, <1>3 DEF Click, restVars
<1> DEFINE Goal == /\ UNCHANGED restVars
                   /\ \/ SetsParams
                      \/ \E text \in SearchText : params' = [params EXCEPT !.searchValue = text]
                                        /\ UNCHANGED <<page, calls, list, loading, shown, fresh>>
<1>4. CASE Filters
  <2>1. Click /\ SetsParams
    BY <1>2, <1>4, ParamsTypes DEF Filters, SetsParams
  <2> QED BY <1>3, <2>1
<1>5. CASE EmptyFilter
  <2>1. Click /\ SetsParams
    BY <1>2, <1>5, ParamsTypes DEF EmptyFilter, SetsParams
  <2> QED BY <1>3, <2>1
<1>6. CASE Search
  <2>1. Click /\ SetsParams
    BY <1>2, <1>6, ParamsTypes DEF Search, SetsParams
  <2> QED BY <1>3, <2>1
<1>7. CASE Logo
  <2>1. Click /\ SetsParams
    BY <1>2, <1>7, ParamsTypes DEF Logo, SetsParams
  <2> QED BY <1>3, <2>1
<1>8. CASE SetWinner
  <2>1. Click /\ SetsParams
    BY <1>2, <1>8, ParamsTypes DEF SetWinner, SetsParams
  <2> QED BY <1>3, <2>1
<1>9. CASE SetSeller
  <2>1. Click /\ SetsParams
    BY <1>2, <1>9, ParamsTypes DEF SetSeller, SetsParams
  <2> QED BY <1>3, <2>1
<1>10. ASSUME NEW n \in 1..Cardinality(AuctionId), AppPagination(n) PROVE Goal
  <2>1. n \in Nat \ {0}
    OBVIOUS
  <2>2. Click /\ SetsParams
    BY <1>2, <1>10, <2>1, ParamsTypes DEF AppPagination, SetsParams
  <2> QED BY <1>3, <2>2
<1>11. ASSUME NEW text \in SearchText, TypeSearch(text) PROVE Goal
  <2>1. /\ Click /\ params' = [params EXCEPT !.searchValue = text]
        /\ UNCHANGED <<page, calls, list, loading, shown, fresh>>
    BY <1>11 DEF TypeSearch
  <2> QED BY <1>3, <2>1
<1> QED BY <1>4, <1>5, <1>6, <1>7, <1>8, <1>9, <1>10, <1>11 DEF OnList

\* The home page and the navigation bar.
LEMMA OnListJourney ==
  ASSUME Types, QueueInv, OnList
  PROVE  Journey
<1>1. SetsParams \/ UNCHANGED <<page, calls>>
  BY OnListSets
<1>2. CASE SetsParams
  BY <1>2, SetJourney DEF SetsParams
<1>3. CASE UNCHANGED <<page, calls>>
  BY <1>3, Queued, StaysJourney
<1> QED BY <1>1, <1>2, <1>3

\* The forms.
LEMMA OnFormsJourney ==
  ASSUME Types, QueueInv, OnForms
  PROVE  Journey
<1>1. Sprung(calls, TRUE, {}) /\ page \in SomePage
  BY Queued DEF Types, TabType
<1>2. ASSUME NEW f \in Field, NEW v \in Value, TypeField(f, v) PROVE Journey
  <2>1. calls' = calls /\ page' = page
    BY <1>2 DEF TypeField, tabVars
  <2> QED BY <1>1, <2>1, StaysJourney
<1>3. ASSUME NEW kind \in Kinds, NEW args \in ArgsOf(kind), kind \notin {"search", "update"},
             Send(Call(kind, args)), page' = page
      PROVE  Journey
  <2>1. Call(kind, args) \in WantedCalls
    BY <1>3, NewCall DEF WantedCalls, NewCalls
  <2>2. calls' = Append(calls, Call(kind, args))
    BY <1>3 DEF Send
  <2> QED BY <1>1, <1>3, <2>1, <2>2, SendsJourney
<1>4. ASSUME NEW item \in NewItem, SubmitCreate(item) PROVE Journey
  <2>1. "create" \in Kinds /\ [item |-> item] \in ArgsOf("create")
    BY NewItemAssumption DEF Kinds, ArgsOf, SomeCar
  <2>2. Send(Call("create", [item |-> item])) /\ page' = page
    BY <1>4 DEF SubmitCreate, Submit
  <2> QED BY <1>3, <2>1, <2>2
<1>5. CASE SubmitUpdate
  <2> DEFINE args == [auctionId |-> page.auctionId, item |-> form, was |-> page.row.item, typed |-> typed]
             c == Call("update", args)
  <2>1. /\ form \in SomeCar /\ page.row # Error /\ page.name = "update" /\ typed \in SUBSET Field
        /\ OnUpdate /\ page' = page /\ Send(c)
    BY <1>5 DEF SubmitUpdate, Submit, OnUpdate, Types, FormsType
  <2>2. page.auctionId \in AuctionId /\ page.row \in Row
    BY <1>1, <2>1, PageFacts
  <2>3. page.row.item \in SomeCar
    BY <2>2 DEF Row, SomeCar
  <2>4. "update" \in Kinds /\ args \in ArgsOf("update")
    BY <2>1, <2>2, <2>3 DEF Kinds, ArgsOf
  <2>5. c \in NewCalls /\ c.kind = "update" /\ c.args = args
    <3> HIDE DEF args
    <3> QED BY <2>4, NewCall DEF NewCalls
  <2> HIDE DEF c
  <2>6. c \in WantedCalls
    BY <2>1, <2>5 DEF WantedCalls
  <2>7. calls' = Append(calls, c)
    BY <2>1 DEF Send
  <2> QED BY <1>1, <2>1, <2>6, <2>7, SendsJourney
<1>6. CASE SubmitDelete
  <2> DEFINE args == [auctionId |-> IF page.row = Error THEN None ELSE page.auctionId]
  <2>1. page.auctionId \in AuctionId \union {None}
    BY <1>1, PageFacts
  <2>2. "delete" \in Kinds /\ args \in ArgsOf("delete")
    BY <2>1 DEF Kinds, ArgsOf
  <2>3. Send(Call("delete", args)) /\ page' = page
    BY <1>6 DEF SubmitDelete, Submit
  <2> HIDE DEF args
  <2> QED BY <1>3, <2>2, <2>3
<1>7. ASSUME NEW n \in Offer, SubmitBid(n) PROVE Journey
  <2> DEFINE args == [auctionId |-> page.auctionId, amount |-> n]
  <2>1. page.name = "details" /\ page.row # Error
    BY <1>7 DEF SubmitBid, BidFormShown, Types, BidsType, OnDetails
  <2>2. page.auctionId \in AuctionId
    BY <1>1, <2>1, PageFacts
  <2>3. "place" \in Kinds /\ args \in ArgsOf("place")
    BY <2>2 DEF Kinds, ArgsOf
  <2>4. Send(Call("place", args)) /\ page' = page
    BY <1>7 DEF SubmitBid
  <2> HIDE DEF args
  <2> QED BY <1>3, <2>3, <2>4
<1> QED BY <1>2, <1>4, <1>5, <1>6, <1>7 DEF OnForms

\* Answers that leave the page, or lead to that of an auction.
LEMMA ShownJourney ==
  ASSUME Types, NEW cs, Sprung(cs, TRUE, {}),
         \/ Toast(cs)
         \/ \E a \in AuctionId, kept \in SUBSET SomePage : LeaveFor(a, cs, kept)
  PROVE  Journey
<1>1. CASE Toast(cs)
  BY <1>1, StaysJourney DEF Toast
<1>2. ASSUME NEW a \in AuctionId, NEW kept \in SUBSET SomePage, LeaveFor(a, cs, kept)
      PROVE  Journey
  BY <1>2, VisitsJourney DEF LeaveFor
<1> QED BY <1>1, <1>2

\* An update is answered in one of three ways.
LEMMA UpdatedFacts ==
  ASSUME Types, NEW i, ReceiveUpdated(i)
  PROVE  LET c == calls[i]
             rest == RemoveAt(calls, i)
             anew == c.left = "no" /\ c.answer # Rejected
         IN  /\ Answered(i, "update") /\ UNCHANGED <<serviceVars, session, done>>
             /\ c.args.auctionId \in AuctionId /\ Kept(anew) \in SUBSET SomePage
             /\ \/ LeaveFor(c.args.auctionId, rest, Kept(anew)) /\ ~ Failed(c.answer)
                \/ Toast(rest)
                \/ /\ c.left = "no"
                   /\ calls' = rest
                   /\ page' = UpdatePage(page.auctionId)
                   /\ Reset(UpdatePage(page.auctionId).row)
                   /\ cached' = Kept(anew)
                   /\ UNCHANGED <<listVars, bidVars>>
<1> DEFINE c == calls[i]
           rest == RemoveAt(calls, i)
           anew == c.left = "no" /\ c.answer # Rejected
<1>1. /\ Answered(i, "update") /\ UNCHANGED <<serviceVars, session, done>>
      /\ AfterUpdate(c, rest, anew)
  BY DEF ReceiveUpdated
<1>2. c.args.auctionId \in AuctionId
  BY <1>1, AnsweredFacts DEF ArgsOf
<1>3. Kept(anew) \in SUBSET SomePage
  BY DEF Kept, Types, TabType
<1>4. \/ LeaveFor(c.args.auctionId, rest, Kept(anew)) /\ ~ Failed(c.answer)
      \/ Toast(rest)
      \/ /\ anew
         /\ calls' = rest
         /\ page' = UpdatePage(page.auctionId)
         /\ Reset(UpdatePage(page.auctionId).row)
         /\ cached' = Kept(anew)
         /\ UNCHANGED <<listVars, bidVars>>
  BY <1>1, Zenon DEF AfterUpdate
<1> HIDE DEF rest
<1> QED BY <1>1, <1>2, <1>3, <1>4, Zenon DEF rest

\* Answers.
LEMMA ReceiveJourney ==
  ASSUME Types, QueueInv, Receive
  PROVE  Journey
<1>1. PICK i \in DOMAIN calls :
        \/ ReceiveSearch(i) \/ ReceiveBids(i) \/ ReceivePlaced(i) \/ ReceiveDetails(i)
        \/ ReceiveCreated(i) \/ ReceiveDeleted(i) \/ ReceiveUpdated(i)
  BY DEF Receive
<1> DEFINE rest == RemoveAt(calls, i)
<1>2. i \in InFlight(calls) /\ Sprung(rest, TRUE, {})
  BY <1>1, Queued DEF ReceiveSearch, ReceiveBids, ReceivePlaced, ReceiveDetails, ReceiveCreated,
                      ReceiveDeleted, ReceiveUpdated, Answered
<1>3. CASE ReceiveSearch(i)
  <2> DEFINE crash == OnHome /\ ~ loading' /\ list' = NoList
  <2>1. IF crash THEN page' = Crashed /\ calls' = <<>> ELSE page' = page /\ calls' = rest
    BY <1>3, Zenon DEF ReceiveSearch
  <2> HIDE DEF crash, rest
  <2>2. calls' = <<>> \/ (page' = page /\ calls' = rest)
    BY <2>1, Zenon
  <2> QED BY <1>2, <2>2, FirstJourney, StaysJourney
<1>4. CASE ReceiveBids(i) \/ ReceivePlaced(i) \/ ReceiveDetails(i)
  <2>1. page' = page /\ calls' = rest
    BY <1>4 DEF ReceiveBids, ReceivePlaced, ReceiveDetails
  <2> HIDE DEF rest
  <2> QED BY <1>2, <2>1, StaysJourney
<1>5. cached \in SUBSET SomePage /\ params \in Params
  BY DEF Types, TabType, ListType
<1>6. CASE ReceiveCreated(i)
  <2>1. Answered(i, "create")
        /\ (Toast(rest) \/ (~ Failed(calls[i].answer) /\ LeaveFor(calls[i].answer, rest, cached)))
    BY <1>6 DEF ReceiveCreated
  <2>2. ~ Failed(calls[i].answer) => calls[i].answer \in AuctionId
    BY <2>1, AnsweredFacts DEF DataOf
  <2> HIDE DEF rest
  <2> QED BY <1>2, <1>5, <2>1, <2>2, ShownJourney
<1>7. CASE ReceiveDeleted(i)
  <2>1. Toast(rest) \/ GoHomeAgain(rest) \/ GoHome(rest, params)
    BY <1>7 DEF ReceiveDeleted
  <2> HIDE DEF rest
  <2>2. CASE GoHomeAgain(rest)
    <3>1. rest \in Seq(SomeCall)
      BY <1>2 DEF Sprung
    <3>2. Detached(rest) \in Seq(SomeCall)
      BY <3>1, LeftFacts
    <3>3. calls' = Detached(rest) \o <<>>
      <4> HIDE DEF Detached
      <4> QED BY <2>2, <3>2, ConcatEmptySeq DEF GoHomeAgain
    <3> QED BY <1>2, <3>3, LeavesJourney
  <2> QED BY <1>2, <1>5, <2>1, <2>2, ShownJourney, HomeJourney
<1>8. CASE ReceiveUpdated(i)
  <2> DEFINE c == calls[i]
             anew == c.left = "no" /\ c.answer # Rejected
  <2>1. /\ Answered(i, "update")
        /\ c.args.auctionId \in AuctionId /\ Kept(anew) \in SUBSET SomePage
        /\ \/ LeaveFor(c.args.auctionId, rest, Kept(anew))
           \/ Toast(rest)
           \/ c.left = "no" /\ calls' = rest /\ page' = UpdatePage(page.auctionId)
    BY <1>8, UpdatedFacts
  <2> HIDE DEF anew, rest
  <2>2. CASE c.left = "no" /\ calls' = rest /\ page' = UpdatePage(page.auctionId)
    <3>1. page.name = "update"
      BY <2>1, <2>2, AnsweredFacts DEF QueueInv, Attached
    <3>2. page'.name = "update"
      BY <2>2, PageFacts, RenderedPages DEF Types, TabType
    <3> QED BY <1>2, <2>2, <3>1, <3>2, StaysJourney
  <2> QED BY <1>2, <2>1, <2>2, ShownJourney
<1> QED BY <1>1, <1>3, <1>4, <1>6, <1>7, <1>8

\* Ways between the pages.
LEMMA NavigateJourney ==
  ASSUME Types, QueueInv, Navigate
  PROVE  Journey
<1>1. /\ page \in SomePage /\ cached \in SUBSET SomePage /\ session \in Session /\ ServicesType
      /\ Sprung(calls, TRUE, {})
  BY Queued DEF Types, TabType
<1>2. CASE \E a \in AuctionId : OpenAuction(a)
  BY <1>1, <1>2, VisitsJourney DEF OpenAuction
<1>3. CASE \E a \in toasts : OpenToast(a)
  BY <1>1, <1>3, VisitsJourney DEF OpenToast, Types, LiveType
<1>4. CASE OpenUpdate \/ OpenCreate
  <2>1. calls' = Left(calls) \o <<>>
    BY <1>4 DEF OpenUpdate, OpenCreate, VisitUpdate, Show
  <2> QED BY <1>1, <2>1, LeavesJourney
<1>5. CASE Reload
  <2>1. page.auctionId \in AuctionId \union {None}
    BY <1>1, PageFacts
  <2>2. DetailsPage(page.auctionId) \in SomePage /\ UpdatePage(page.auctionId) \in SomePage
    BY <1>1, <2>1, RenderedPages
  <2>3. \E p \in SomePage : Load(p, CurrentUser)
    BY <1>1, <1>5, <2>2 DEF Reload, SomePage
  <2> QED BY <2>3, LoadJourney
<1>6. CASE SignOut \/ \E u \in User : SignIn(u)
  <2>1. HomePage \in SomePage
    BY DEF SomePage
  <2>2. \E u : Load(HomePage, u)
    BY <1>6 DEF SignIn, SignOut
  <2> QED BY <2>1, <2>2, LoadJourney
<1> QED BY <1>2, <1>3, <1>4, <1>5, <1>6 DEF Navigate

\* The hub.
LEMMA NotifyJourney ==
  ASSUME Types, QueueInv, Notify
  PROVE  Journey
<1>1. Sprung(calls, TRUE, {})
  BY Queued
<1>2. CASE calls' = calls /\ page' = page
  BY <1>1, <1>2, StaysJourney
<1>3. ASSUME NEW a \in AuctionId, AuctionFinished(a) PROVE Journey
  <2>1. "details" \in Kinds /\ a \in ArgsOf("details")
    BY DEF Kinds, ArgsOf
  <2>2. Call("details", a) \in WantedCalls
    BY <2>1, NewCall DEF WantedCalls, NewCalls
  <2>3. calls' = Append(calls, Call("details", a)) /\ page' = page
    BY <1>3 DEF AuctionFinished, Announce, Send
  <2> QED BY <1>1, <2>2, <2>3, SendsJourney
<1>4. (calls' = calls /\ page' = page) \/ \E a \in AuctionId : AuctionFinished(a)
  BY DEF Notify, Connect, Disconnect, BidPlaced, AuctionCreated, Announce, tabVars
<1> QED BY <1>2, <1>3, <1>4

\* A step of the tab, but that of a server action, is a journey.
LEMMA Journeys ==
  ASSUME Types, QueueInv, [Next]_vars, ~ Respond
  PROVE  Journey
<1>1. CASE CloseForm \/ UNCHANGED vars
  <2>1. calls' = calls /\ page' = page
    BY <1>1 DEF CloseForm, CountdownCompletes, vars, clientVars, tabVars
  <2> QED BY <2>1, Queued, StaysJourney
<1>2. CASE World \/ OnList \/ OnForms \/ Receive \/ Navigate \/ Notify
  BY <1>2, WorldJourney, OnListJourney, OnFormsJourney, ReceiveJourney, NavigateJourney, NotifyJourney
<1> QED BY <1>1, <1>2 DEF Next

\* A server action: one call that was not answered has an answer.
LEMMA Responses ==
  ASSUME Types, QueueInv, Respond
  PROVE  \E i \in 1..Len(calls), d \in SomeCall :
           /\ Serve(i) /\ Watch(i) /\ WatchList
           /\ UNCHANGED <<session, viewer, page, cached, params, list, loading, shown, bidVars, form, typed,
                          liveVars>>
           /\ calls[i] \in SomeCall /\ calls[i].answer = None
           /\ d.kind = calls[i].kind /\ d.args = calls[i].args /\ d.left = calls[i].left
           /\ d.answer \in {Error} \union DataOf(d.kind)
           /\ Len(calls') = Len(calls) /\ calls' \in Seq(SomeCall) /\ AnswersInOrder(calls')
           /\ \A j \in 1..Len(calls) : calls'[j] = IF j = i THEN d ELSE calls[j]
           /\ d.kind \in {"create", "update", "delete"} /\ d.answer # Error => Granted(calls[i])
           /\ \E o \in Outcomes(calls[i]) :
                d.answer = HandleResponse(o.response) /\ rows' = o.rows /\ bids' = o.bids
<1>1. PICK i \in DOMAIN calls :
        /\ Serve(i) /\ Watch(i) /\ WatchList
        /\ UNCHANGED <<params, list, loading, shown, bidVars, form, typed, liveVars>>
  BY DEF Respond
<1>2. PICK o \in Outcomes(calls[i]) :
        /\ HandleResponse(o.response) \in {Error} \union DataOf(calls[i].kind)
        /\ calls' = [calls EXCEPT ![i].answer = HandleResponse(o.response)]
        /\ rows' = o.rows /\ bids' = o.bids
        /\ calls[i].kind \in {"create", "update", "delete"} /\ HandleResponse(o.response) # Error
             => Granted(calls[i])
  BY <1>1, ServeMoves DEF Types
<1>3. i \in 1..Len(calls) /\ calls[i] \in SomeCall /\ calls[i].answer = None
  BY <1>1, ServeMoves DEF Types
<1>4. UNCHANGED <<session, viewer, page, cached>>
  BY <1>1 DEF Serve
<1>5. calls \in Seq(SomeCall) /\ Len(calls) \in Nat /\ AnswersInOrder(calls)
  BY Queued, QueueTypes
<1>6. \A j \in 1..Len(calls) : j < i => calls[j].left # "no"
  <2>1. \A j \in 1..(i - 1) : calls[j].left # "no"
    BY <1>1 DEF Serve, InFlight
  <2> QED BY <1>3, <1>5, <2>1
<1> DEFINE c == calls[i]
           answer == HandleResponse(o.response)
           d == [c EXCEPT !.answer = answer]
           ds == [calls EXCEPT ![i] = d]
<1>7. d \in SomeCall /\ d.kind = c.kind /\ d.args = c.args /\ d.left = c.left /\ d.answer = answer
  <2>1. c \in SomeCall /\ answer \in {None, Error, Rejected} \union DataOf(c.kind)
    BY <1>2, <1>3
  <2> HIDE DEF c, answer
  <2> QED BY <2>1, CallAnswer
<1>8. calls' = ds
  BY <1>2
<1> HIDE DEF d
<1>9. /\ ds \in Seq(SomeCall) /\ Len(ds) = Len(calls)
      /\ \A j \in 1..Len(calls) : ds[j] = IF j = i THEN d ELSE calls[j]
  BY <1>3, <1>5, <1>7, ExceptSeq
<1> HIDE DEF ds
<1>10. AnswersInOrder(ds)
  BY <1>5, <1>6, <1>7, <1>9 DEF AnswersInOrder
<1> HIDE DEF answer
<1>11. d.answer = HandleResponse(o.response)
  BY <1>7 DEF answer
<1> WITNESS i \in 1..Len(calls), d \in SomeCall
<1> QED BY <1>1, <1>2, <1>3, <1>4, <1>7, <1>8, <1>9, <1>10, <1>11

\* Only the services themselves, and server actions, change what the services hold.
LEMMA ServicesStay ==
  ASSUME Types, [Next]_vars, ~ World, ~ Respond
  PROVE  UNCHANGED serviceVars
<1>1. CASE UNCHANGED vars
  BY <1>1 DEF vars
<1>2. CASE OnList
  BY <1>2, OnListSets DEF restVars
<1>3. CASE OnForms
  BY <1>3 DEF OnForms, TypeField, SubmitCreate, SubmitUpdate, SubmitDelete, Submit, SubmitBid
<1>4. CASE Receive
  BY <1>4 DEF Receive, ReceiveSearch, ReceiveBids, ReceivePlaced, ReceiveDetails, ReceiveCreated,
              ReceiveDeleted, ReceiveUpdated
<1>5. CASE CloseForm
  BY <1>5 DEF CloseForm, CountdownCompletes
<1>6. CASE Navigate
  <2>1. CASE \E p, u : Load(p, u)
    BY <2>1 DEF Load
  <2>2. CASE Visit
    BY <2>2 DEF Visit
  <2>3. Visit \/ \E p, u : Load(p, u)
    BY <1>6 DEF Navigate, OpenAuction, OpenToast, OpenUpdate, OpenCreate, Reload, SignIn, SignOut
  <2> QED BY <2>1, <2>2, <2>3
<1>7. CASE Notify
  BY <1>7 DEF Notify, Connect, Disconnect, BidPlaced, AuctionCreated, AuctionFinished, Announce
<1> QED BY <1>1, <1>2, <1>3, <1>4, <1>5, <1>6, <1>7 DEF Next

\* Bids stay, and auctions stay, in every step.
LEMMA StepMoves ==
  ASSUME Types, [Next]_vars
  PROVE  Moves
<1>1. CASE World
  BY <1>1, WorldMoves DEF Types
<1>2. CASE Respond
  <2>1. \E i : Serve(i)
    BY <1>2 DEF Respond
  <2> QED BY <2>1, ServeMoves DEF Types
<1>3. CASE ~ World /\ ~ Respond
  BY <1>3, ServicesStay, MovesNot DEF Types
<1> QED BY <1>1, <1>2, <1>3

\* Stored bids stay stored.
LEMMA StoredStay ==
  ASSUME Types, Moves
  PROVE  /\ Stored \subseteq Stored' /\ ServicesType'
         /\ \A b \in Stored' : b.id \in 1..Len(bids) => b \in Stored
<1>1. ServicesType /\ ServicesType' /\ Len(bids) <= Len(bids') /\ Len(bids) \in Nat /\ Len(bids') \in Nat
      /\ \A i \in 1..Len(bids) : bids'[i] = bids[i]
  BY LenProperties DEF Types, Moves, ServicesType
<1>2. bids \in Seq(Bid) /\ bids' \in Seq(Bid)
  BY <1>1 DEF ServicesType
<1>3. \A b : b \in Stored <=> b.id \in 1..Len(bids) /\ bids[b.id] = b /\ b \in Bid
  BY <1>1, StoredFacts
<1>4. \A b : b \in Stored' <=> b.id \in 1..Len(bids') /\ bids'[b.id] = b /\ b \in Bid
  <2> SUFFICES ASSUME NEW b PROVE b \in Stored' <=> b.id \in 1..Len(bids') /\ bids'[b.id] = b /\ b \in Bid
    OBVIOUS
  <2>1. \A i \in 1..Len(bids') : bids'[i].id = i /\ bids'[i] \in Bid
    BY <1>1, <1>2, ElementOfSeq DEF ServicesType
  <2>2. b \in Stored' <=> \E i \in 1..Len(bids') : bids'[i] = b
    BY <1>2, SeqRange DEF Stored
  <2> QED BY <2>1, <2>2
<1>5. 1..Len(bids) \subseteq 1..Len(bids')
  BY <1>1
<1> QED BY <1>1, <1>3, <1>4, <1>5

\* The order of the answers, and the pages of the searches and the updates that are
\* waited for.
LEMMA QueueStep ==
  ASSUME Types, QueueInv, [Next]_vars
  PROVE  QueueInv'
<1>1. \A i \in 1..Len(calls) : /\ calls[i].left = "no" /\ calls[i].kind = "search" => page.name = "home"
                               /\ calls[i].left = "no" /\ calls[i].kind = "update" => page.name = "update"
  BY DEF QueueInv, Attached, OnHome
<1>2. /\ calls' \in Seq(SomeCall) /\ AnswersInOrder(calls')
      /\ \A i \in 1..Len(calls') :
           /\ calls'[i].left = "no" /\ calls'[i].kind = "search" => page'.name = "home"
           /\ calls'[i].left = "no" /\ calls'[i].kind = "update" => page'.name = "update"
  <2>1. CASE Respond
    BY <1>1, <2>1, Responses
  <2>2. CASE ~ Respond
    <3>1. Journey
      BY <2>2, Journeys
    <3>2. ASSUME NEW i \in 1..Len(calls'), calls'[i].left = "no"
          PROVE  /\ calls'[i].kind = "search" => page'.name = "home"
                 /\ calls'[i].kind = "update" => page'.name = "update"
      <4>1. CASE calls'[i] \in WantedCalls
        BY <4>1 DEF WantedCalls, OnHome, OnUpdate
      <4>2. CASE \E k \in 1..Len(calls) : Kin(calls'[i], calls[k]) /\ (calls'[i].left = "no" => page'.name = page.name)
        BY <1>1, <3>2, <4>2 DEF Kin
      <4> QED BY <3>1, <4>1, <4>2 DEF Journey, Sprung
    <3>3. calls' \in Seq(SomeCall) /\ AnswersInOrder(calls')
      BY <3>1 DEF Journey, Sprung
    <3> QED BY <3>2, <3>3
  <2> QED BY <2>1, <2>2
<1>3. \A i \in 1..Len(calls') : calls'[i].answer # None => i \in InFlight(calls')
  BY <1>2, OrderOfAnswers
<1> QED BY <1>2, <1>3 DEF QueueInv, Attached, OnHome
-----------------------------------------------------------------------------
(* The forms *)

\* What a step does to the update form.
FormMoves ==
  \/ page'.name # "update"
  \/ UNCHANGED <<form, typed, page>>
  \/ /\ page' = page /\ form # None
     /\ \E f \in Field, v \in Value : form' = [form EXCEPT ![f] = v] /\ typed' = typed \union {f}
  \/ Reset(page'.row)

\* A step to the page of an auction.
LEMMA VisitsDetails ==
  ASSUME Types, NEW cs, NEW a \in AuctionId \union {None}, NEW kept \in SUBSET SomePage,
         VisitDetails(cs, a, kept)
  PROVE  page'.name = "details" /\ page'.auctionId = a
<1>1. PICK p \in Renderings(DetailsPage(a), kept) : GoToDetails(cs, p) /\ cached' = Keeping(p, kept)
  BY DEF VisitDetails
<1>2. p.name = "details" /\ p.auctionId = a
  BY <1>1, RenderedPages DEF Renderings, Same, Types, TabType
<1> QED BY <1>1, <1>2 DEF GoToDetails

\* Answers that leave the page, or lead to that of an auction.
LEMMA ShownForm ==
  ASSUME Types, NEW cs,
         \/ Toast(cs)
         \/ \E a \in AuctionId, kept \in SUBSET SomePage : LeaveFor(a, cs, kept)
  PROVE  FormMoves
<1>1. CASE Toast(cs)
  BY <1>1 DEF Toast, FormMoves
<1>2. ASSUME NEW a \in AuctionId, NEW kept \in SUBSET SomePage, LeaveFor(a, cs, kept)
      PROVE  FormMoves
  <2>1. VisitDetails(cs, a, kept)
    BY <1>2 DEF LeaveFor
  <2> QED BY <2>1, VisitsDetails DEF FormMoves
<1> QED BY <1>1, <1>2

\* The form changes as its user types, and with its page.
LEMMA FormsMove ==
  ASSUME Types, [Next]_vars
  PROVE  FormMoves
<1>1. /\ page \in SomePage /\ cached \in SUBSET SomePage /\ session \in Session /\ ServicesType
      /\ page.auctionId \in AuctionId \union {None}
  BY PageFacts DEF Types, TabType
<1>2. HomePage.name = "home" /\ CreatePage.name = "create" /\ Crashed.name = "crashed"
  BY DEF HomePage, CreatePage, Crashed, Page
<1>3. CASE UNCHANGED <<form, typed, page>>
  BY <1>3 DEF FormMoves
<1>4. CASE World \/ Respond \/ CloseForm \/ Notify \/ UNCHANGED vars
  <2>1. UNCHANGED <<form, typed, page>>
    BY <1>4 DEF World, TokenExpires, SignInElsewhere, Fail, Respond, Serve, CloseForm, CountdownCompletes,
                Notify, Connect, Disconnect, BidPlaced, AuctionCreated, AuctionFinished, Announce, vars,
                clientVars, tabVars, formVars
  <2> QED BY <1>3, <2>1
<1>5. CASE OnList
  <2>1. UNCHANGED <<form, typed>> /\ (page' = page \/ page' = HomePage)
    BY <1>5, OnListSets DEF SetsParams, SetAndGoHome, SetOnHome, GoHome, Show, restVars, formVars
  <2> QED BY <1>2, <2>1 DEF FormMoves
<1>6. CASE OnForms
  <2>1. \/ UNCHANGED <<form, typed, page>>
        \/ /\ page' = page /\ form # None
           /\ \E f \in Field, v \in Value : form' = [form EXCEPT ![f] = v] /\ typed' = typed \union {f}
    BY <1>6 DEF OnForms, TypeField, OnUpdate, SubmitCreate, SubmitUpdate, SubmitDelete, Submit, SubmitBid, tabVars,
                formVars
  <2> QED BY <2>1, Zenon DEF FormMoves
<1>7. CASE Receive
  <2>1. PICK i \in DOMAIN calls :
          \/ (ReceiveSearch(i) \/ ReceiveBids(i) \/ ReceivePlaced(i) \/ ReceiveDetails(i))
             /\ UNCHANGED formVars
          \/ ReceiveCreated(i) \/ ReceiveDeleted(i) \/ ReceiveUpdated(i)
    BY <1>7 DEF Receive, ReceiveDetails
  <2> DEFINE rest == RemoveAt(calls, i)
  <2>2. CASE (ReceiveSearch(i) \/ ReceiveBids(i) \/ ReceivePlaced(i) \/ ReceiveDetails(i))
             /\ UNCHANGED formVars
    <3>1. page' = page \/ page' = Crashed
      BY <2>2 DEF ReceiveSearch, ReceiveBids, ReceivePlaced, ReceiveDetails
    <3> QED BY <1>2, <2>2, <3>1 DEF FormMoves, formVars
  <2>3. CASE ReceiveCreated(i)
    <3>1. Answered(i, "create")
          /\ (Toast(rest) \/ (~ Failed(calls[i].answer) /\ LeaveFor(calls[i].answer, rest, cached)))
      BY <2>3 DEF ReceiveCreated
    <3>2. ~ Failed(calls[i].answer) => calls[i].answer \in AuctionId
      BY <3>1, AnsweredFacts DEF DataOf
    <3> HIDE DEF rest
    <3> QED BY <1>1, <3>1, <3>2, ShownForm
  <2>4. CASE ReceiveDeleted(i)
    <3>1. \/ Toast(rest)
          \/ /\ GoHomeAgain(rest) \/ GoHome(rest, params)
             /\ UNCHANGED <<form, typed>>
      BY <2>4 DEF ReceiveDeleted
    <3>2. CASE GoHomeAgain(rest) /\ UNCHANGED <<form, typed>>
      BY <1>3, <3>2 DEF GoHomeAgain
    <3>3. CASE GoHome(rest, params) /\ UNCHANGED <<form, typed>>
      BY <1>2, <3>3 DEF GoHome, Show, FormMoves
    <3> HIDE DEF rest
    <3> QED BY <3>1, <3>2, <3>3, ShownForm
  <2>5. CASE ReceiveUpdated(i)
    <3> DEFINE c == calls[i]
               anew == c.left = "no" /\ c.answer # Rejected
    <3>1. /\ c.args.auctionId \in AuctionId /\ Kept(anew) \in SUBSET SomePage
          /\ \/ LeaveFor(c.args.auctionId, rest, Kept(anew))
             \/ Toast(rest)
             \/ page' = UpdatePage(page.auctionId) /\ Reset(UpdatePage(page.auctionId).row)
      BY <2>5, UpdatedFacts
    <3> HIDE DEF c, anew, rest
    <3>2. CASE page' = UpdatePage(page.auctionId) /\ Reset(UpdatePage(page.auctionId).row)
      BY <3>2, Zenon DEF FormMoves
    <3> QED BY <3>1, <3>2, ShownForm
  <2> QED BY <2>1, <2>2, <2>3, <2>4, <2>5
<1>8. CASE Navigate
  <2>1. ASSUME NEW a \in AuctionId \union {None}, VisitDetails(calls, a, cached) PROVE FormMoves
    BY <1>1, <2>1, VisitsDetails DEF FormMoves
  <2>2. CASE (\E a \in AuctionId : OpenAuction(a)) \/ \E a \in toasts : OpenToast(a)
    BY <2>1, <2>2 DEF OpenAuction, OpenToast, Types, LiveType
  <2>3. CASE OpenUpdate
    <3>1. \E p : Show(calls, p, <<>>) /\ Reset(p.row)
      BY <2>3 DEF OpenUpdate, VisitUpdate
    <3>2. \E p : page' = p /\ Reset(p.row)
      BY <3>1 DEF Show
    <3> QED BY <3>2, Zenon DEF FormMoves
  <2>4. CASE OpenCreate
    BY <1>2, <2>4 DEF OpenCreate, Show, FormMoves
  <2>5. ASSUME NEW p, NEW u, Load(p, u) PROVE FormMoves
    <3>1. page' = p /\ Reset(IF p.name = "update" THEN p.row ELSE Error)
      BY <2>5 DEF Load
    <3> QED BY <3>1, Zenon DEF FormMoves
  <2> QED BY <1>8, <2>2, <2>3, <2>4, <2>5 DEF Navigate, Reload, SignIn, SignOut
<1> QED BY <1>4, <1>5, <1>6, <1>7, <1>8 DEF Next

\* What nobody typed into is as it came.
LEMMA FormStep ==
  ASSUME Types, FormInv, [Next]_vars
  PROVE  FormInv'
<1> SUFFICES ASSUME page'.name = "update", form' # None, NEW f \in Field \ typed'
             PROVE  form'[f] = page'.row.item[f]
  BY DEF FormInv
<1>1. FormMoves
  BY FormsMove
<1>2. CASE UNCHANGED <<form, typed, page>>
  BY <1>2 DEF FormInv
<1>3. ASSUME NEW g \in Field, NEW v \in Value, page' = page, form # None, form' = [form EXCEPT ![g] = v],
             typed' = typed \union {g}
      PROVE  form'[f] = page'.row.item[f]
  <2>1. form \in SomeCar \union {None} /\ f # g /\ f \notin typed
    BY <1>3 DEF Types, FormsType
  <2> QED BY <1>3, <2>1 DEF FormInv, SomeCar
<1>4. CASE Reset(page'.row)
  BY <1>4 DEF Reset
<1> QED BY <1>1, <1>2, <1>3, <1>4 DEF FormMoves

\* What was granted stays granted, and only server actions grant.
LEMMA DoneStays ==
  ASSUME Types, [Next]_vars, ~ Respond
  PROVE  done' = done
<1>1. CASE World \/ CloseForm \/ Notify \/ UNCHANGED vars
  BY <1>1 DEF World, CloseForm, CountdownCompletes, Notify, Connect, Disconnect, BidPlaced, AuctionCreated,
              AuctionFinished, Announce, vars, clientVars, formVars
<1>2. CASE OnList
  BY <1>2, OnListSets DEF restVars, formVars
<1>3. CASE OnForms
  BY <1>3 DEF OnForms, TypeField, SubmitCreate, SubmitUpdate, SubmitDelete, Submit, SubmitBid, formVars
<1>4. CASE Receive
  BY <1>4 DEF Receive, ReceiveDetails, ReceiveCreated, ReceiveDeleted, ReceiveUpdated, formVars
<1>5. CASE Navigate
  <2>1. CASE \E p, u : Load(p, u)
    BY <2>1 DEF Load
  <2>2. CASE OpenUpdate
    BY <2>2 DEF OpenUpdate
  <2>3. CASE UNCHANGED formVars
    BY <2>3 DEF formVars
  <2>4. OpenUpdate \/ UNCHANGED formVars \/ \E p, u : Load(p, u)
    BY <1>5 DEF Navigate, OpenAuction, OpenToast, OpenCreate, Reload, SignIn, SignOut
  <2> QED BY <2>1, <2>2, <2>3, <2>4
<1> QED BY <1>1, <1>2, <1>3, <1>4, <1>5 DEF Next

\* What was sent, and what of it was granted.
LEMMA SentStep ==
  ASSUME Types, QueueInv, FormInv, SentInv, [Next]_vars
  PROVE  SentInv'
<1> DEFINE Succ(c) == c.answer \notin {None, Error, Rejected}
           Asks(c) == c.kind \in {"create", "update", "delete"}
           Keeps(c) == \A f \in Field \ c.args.typed : c.args.item[f] = c.args.was[f]
           Req(c) == [kind |-> c.kind, args |-> c.args]
<1>1. \A i \in 1..Len(calls) : /\ Asks(calls[i]) /\ Succ(calls[i]) => Req(calls[i]) \in done
                               /\ calls[i].kind = "update" => Keeps(calls[i])
  BY DEF SentInv, Succeeded
<1> SUFFICES ASSUME NEW i \in 1..Len(calls')
             PROVE  /\ Asks(calls'[i]) /\ Succ(calls'[i]) => Req(calls'[i]) \in done'
                    /\ calls'[i].kind = "update" => Keeps(calls'[i])
  BY DEF SentInv, Succeeded
<1> DEFINE d == calls'[i]
<1>2. CASE Respond
  <2>1. PICK j \in 1..Len(calls), e \in SomeCall :
           /\ Watch(j)
           /\ e.kind = calls[j].kind /\ e.args = calls[j].args
           /\ Len(calls') = Len(calls)
           /\ \A k \in 1..Len(calls) : calls'[k] = IF k = j THEN e ELSE calls[k]
           /\ e.kind \in {"create", "update", "delete"} /\ e.answer # Error => Granted(calls[j])
    BY <1>2, Responses
  <2>2. done \subseteq done' /\ (Asks(calls[j]) /\ Granted(calls[j]) => Req(calls[j]) \in done')
    BY <2>1 DEF Watch
  <2>3. CASE i = j
    <3>1. d = e
      BY <2>1, <2>3
    <3> HIDE DEF d
    <3> QED BY <1>1, <2>1, <2>2, <3>1
  <2>4. CASE i # j
    <3>1. d = calls[i] /\ i \in 1..Len(calls)
      BY <2>1, <2>4
    <3>2. /\ Asks(calls[i]) /\ Succ(calls[i]) => Req(calls[i]) \in done'
          /\ calls[i].kind = "update" => Keeps(calls[i])
      BY <1>1, <2>2, <3>1
    <3> HIDE DEF Asks, Succ, Req, Keeps
    <3> QED BY <3>1, <3>2, Zenon
  <2> QED BY <2>3, <2>4
<1>3. CASE ~ Respond
  <2>1. Journey /\ done' = done
    BY <1>3, Journeys, DoneStays
  <2>2. CASE d \in WantedCalls
    <3> HIDE DEF d
    <3>1. d.answer = None /\ (d.kind = "update" => /\ OnUpdate
                                /\ d.args = [auctionId |-> page.auctionId, item |-> form,
                                             was |-> page.row.item, typed |-> typed])
      BY <2>2 DEF WantedCalls, NewCalls
    <3>2. d.kind = "update" => Keeps(d)
      BY <3>1 DEF OnUpdate, FormInv
    <3> QED BY <3>1, <3>2 DEF d
  <2>3. ASSUME NEW k \in 1..Len(calls), Kin(d, calls[k])
        PROVE  (Asks(d) /\ Succ(d) => Req(d) \in done') /\ (d.kind = "update" => Keeps(d))
    <3> HIDE DEF d
    <3>1. d.kind = calls[k].kind /\ d.args = calls[k].args /\ (Succ(d) => Succ(calls[k]))
      BY <2>3 DEF Kin, Failed
    <3> QED BY <1>1, <2>1, <3>1
  <2> QED BY <2>1, <2>2, <2>3 DEF Journey, Sprung
<1> QED BY <1>2, <1>3

\* An update that is granted changes what its user typed.
LEMMA RestKept ==
  ASSUME Types, SentInv, NEW i \in DOMAIN calls, calls[i].kind = "update", Serve(i),
         rows[calls[i].args.auctionId].item = calls[i].args.was
  PROVE  LET c == calls[i]
             a == c.args.auctionId
         IN  \A f \in Field \ c.args.typed : rows'[a].item[f] = rows[a].item[f]
<1> DEFINE c == calls[i]
           a == c.args.auctionId
<1>1. c \in SomeCall /\ i \in 1..Len(calls)
  BY QueueTypes
<1>2. PICK o \in Outcomes(c) : rows' = o.rows
  BY DEF Serve
<1>3. \A f \in Field \ c.args.typed : c.args.item[f] = c.args.was[f]
  BY <1>1 DEF SentInv
<1>4. /\ c.args \in [auctionId : AuctionId, item : SomeCar, was : SomeCar, typed : SUBSET Field]
      /\ a \in AuctionId
  BY <1>1, CallFields DEF ArgsOf
<1> HIDE DEF c
<1>5. c.kind = "update" /\ rows[a].item = c.args.was
  BY DEF c
<1>6. \/ rows' = rows
      \/ /\ Exists(a)
         /\ rows' = [rows EXCEPT ![a] = [@ EXCEPT !.item = c.args.item]]
  BY <1>1, <1>2, <1>5, ChangeOutcome DEF Types, TabType
<1>7. CASE Exists(a) /\ rows' = [rows EXCEPT ![a] = [@ EXCEPT !.item = c.args.item]]
  <2>1. rows \in [AuctionId -> Row \union {None}] /\ rows[a] \in Row
    BY <1>4, <1>7, ExistsFacts DEF Types, ServicesType
  <2>2. rows'[a].item = c.args.item
    BY <1>4, <1>7, <2>1 DEF Row
  <2> QED BY <1>3, <1>5, <2>2 DEF c
<1> QED BY <1>6, <1>7 DEF c
-----------------------------------------------------------------------------
(* The bids of a page *)

\* What a step does to the list of bids, and to what is known of it.
LEMMA BidsMove ==
  ASSUME Types, [Next]_vars
  PROVE  \/ UNCHANGED <<bidList, bidsOf, missed, announced>>
         \/ \E p, u : Load(p, u)
         \/ \E i \in DOMAIN calls : (ReceiveBids(i) \/ ReceivePlaced(i)) /\ UNCHANGED liveVars
         \/ \E b \in Stored : BidPlaced(b)
<1>1. CASE World \/ Respond \/ CloseForm \/ UNCHANGED vars
  BY <1>1 DEF World, Respond, CloseForm, CountdownCompletes, vars, clientVars, bidVars, liveVars
<1>2. CASE OnList
  BY <1>2, OnListSets DEF restVars, bidVars, liveVars
<1>3. CASE OnForms
  BY <1>3 DEF OnForms, TypeField, SubmitCreate, SubmitUpdate, SubmitDelete, Submit, SubmitBid, bidVars,
              liveVars
<1>4. ASSUME NEW cs, NEW a, NEW kept, VisitDetails(cs, a, kept)
      PROVE  UNCHANGED <<bidList, bidsOf, missed>>
  BY <1>4 DEF VisitDetails, GoToDetails
<1>5. ASSUME NEW cs,
             Toast(cs) \/ \E a, kept : LeaveFor(a, cs, kept)
      PROVE  UNCHANGED <<bidList, bidsOf, missed>>
  BY <1>4, <1>5 DEF Toast, LeaveFor, bidVars
<1>6. CASE Receive
  <2>1. PICK i \in DOMAIN calls :
          \/ (ReceiveSearch(i) \/ ReceiveDetails(i)) /\ UNCHANGED <<bidVars, announced>>
          \/ (ReceiveBids(i) \/ ReceivePlaced(i)) /\ UNCHANGED liveVars
          \/ (ReceiveCreated(i) \/ ReceiveDeleted(i) \/ ReceiveUpdated(i)) /\ announced' = announced
    BY <1>6 DEF Receive, ReceiveDetails, liveVars
  <2>2. CASE (ReceiveSearch(i) \/ ReceiveDetails(i)) /\ UNCHANGED <<bidVars, announced>>
    BY <2>2 DEF bidVars
  <2>3. CASE ReceiveCreated(i) /\ announced' = announced
    BY <1>5, <2>3 DEF ReceiveCreated
  <2>4. CASE ReceiveDeleted(i) /\ announced' = announced
    BY <1>5, <2>4 DEF ReceiveDeleted, bidVars
  <2>5. CASE ReceiveUpdated(i) /\ announced' = announced
    <3> DEFINE c == calls[i]
               rest == RemoveAt(calls, i)
               anew == c.left = "no" /\ c.answer # Rejected
    <3>1. \/ LeaveFor(c.args.auctionId, rest, Kept(anew))
          \/ Toast(rest)
          \/ UNCHANGED bidVars
      BY <2>5, UpdatedFacts
    <3> HIDE DEF c, anew, rest
    <3> QED BY <1>5, <2>5, <3>1 DEF bidVars
  <2> QED BY <2>1, <2>2, <2>3, <2>4, <2>5
<1>7. CASE Navigate
  <2>1. CASE (\E a \in AuctionId : OpenAuction(a)) \/ \E a \in toasts : OpenToast(a)
    BY <1>4, <2>1 DEF OpenAuction, OpenToast, Visit, liveVars
  <2>2. CASE OpenUpdate \/ OpenCreate
    BY <2>2 DEF OpenUpdate, OpenCreate, Visit, bidVars, liveVars
  <2> QED BY <1>7, <2>1, <2>2 DEF Navigate, Reload, SignIn, SignOut
<1>8. CASE Notify
  BY <1>8 DEF Notify, Connect, Disconnect, AuctionCreated, AuctionFinished, Announce, bidVars, liveVars
<1> QED BY <1>1, <1>2, <1>3, <1>6, <1>7, <1>8 DEF Next

\* A bid is put into a list of stored bids, unless it is there.
LEMMA AddBidListed ==
  ASSUME ServicesType, NEW bs \in Seq(Bid), Range(bs) \subseteq Stored, Distinct(bs), NEW b \in Stored
  PROVE  /\ Range(AddBid(bs, b)) = Range(bs) \union {b}
         /\ Distinct(AddBid(bs, b))
<1>1. b \in Bid /\ \A x \in Stored : x.id = b.id => x = b
  BY StoredFacts
<1>2. DOMAIN bs = 1..Len(bs) /\ Len(bs) \in Nat
      /\ \A x : x \in Range(bs) <=> \E i \in 1..Len(bs) : bs[i] = x
  BY SeqRange
<1>3. CASE b.id \in Ids(bs)
  <2>1. AddBid(bs, b) = bs
    BY <1>3 DEF AddBid
  <2>2. b \in Range(bs)
    BY <1>1, <1>3 DEF Ids
  <2> QED BY <2>1, <2>2
<1>4. CASE b.id \notin Ids(bs)
  <2> DEFINE ds == <<b>> \o bs
  <2>1. AddBid(bs, b) = ds
    BY <1>4 DEF AddBid
  <2>2. /\ ds \in Seq(Bid) /\ Len(ds) = Len(bs) + 1 /\ ds[1] = b
        /\ \A k \in 1..Len(ds) : k # 1 => k - 1 \in 1..Len(bs) /\ ds[k] = bs[k - 1]
    BY <1>1, <1>2, AddBidType
  <2> HIDE DEF ds
  <2>3. DOMAIN ds = 1..Len(ds) /\ \A x : x \in Range(ds) <=> \E i \in 1..Len(ds) : ds[i] = x
    BY <2>2, SeqRange
  <2>4. Range(ds) = Range(bs) \union {b}
    <3>1. ASSUME NEW x \in Range(ds) PROVE x \in Range(bs) \union {b}
      BY <1>2, <2>2, <2>3
    <3>2. ASSUME NEW x \in Range(bs) PROVE x \in Range(ds)
      <4>1. PICK i \in 1..Len(bs) : bs[i] = x
        BY <1>2
      <4>2. i + 1 \in 1..Len(ds) /\ i + 1 # 1 /\ (i + 1) - 1 = i
        BY <1>2, <2>2
      <4>3. ds[i + 1] = x
        BY <2>2, <4>1, <4>2
      <4> QED BY <2>3, <4>2, <4>3
    <3>3. b \in Range(ds)
      BY <1>2, <2>2, <2>3
    <3> QED BY <3>1, <3>2, <3>3
  <2>5. \A i \in 1..Len(bs) : bs[i].id # b.id
    BY <1>2, <1>4 DEF Ids
  <2>6. Distinct(ds)
    <3> SUFFICES ASSUME NEW j \in 1..Len(ds), NEW k \in 1..Len(ds), ds[j].id = ds[k].id, j < k
                 PROVE  FALSE
      BY <1>2, <2>2, <2>3 DEF Distinct
    <3>1. k # 1 /\ k - 1 \in 1..Len(bs) /\ ds[k] = bs[k - 1]
      BY <2>2
    <3>2. j # 1
      BY <2>2, <2>5, <3>1
    <3>3. j - 1 \in 1..Len(bs) /\ ds[j] = bs[j - 1]
      BY <2>2, <3>2
    <3>4. j - 1 = k - 1
      BY <1>2, <3>1, <3>3 DEF Distinct
    <3> QED BY <3>4
  <2> QED BY <2>1, <2>4, <2>6
<1> QED BY <1>3, <1>4

\* Where an answer that is no failure comes from.
LEMMA AnswersMove ==
  ASSUME Types, QueueInv, [Next]_vars, NEW i \in 1..Len(calls'),
         calls'[i].answer \notin {None, Error, Rejected}
  PROVE  \E k \in 1..Len(calls) :
           /\ calls'[i].kind = calls[k].kind /\ calls'[i].args = calls[k].args
           /\ calls'[i].left = "no" => calls[k].left = "no"
           /\ calls[k] \in SomeCall
           /\ \/ calls'[i].answer = calls[k].answer
              \/ Respond /\ \E o \in Outcomes(calls[k]) :
                   calls'[i].answer = HandleResponse(o.response) /\ rows' = o.rows /\ bids' = o.bids
<1> DEFINE d == calls'[i]
<1>1. \A k \in 1..Len(calls) : calls[k] \in SomeCall
  BY QueueTypes
<1>2. CASE Respond
  <2>1. PICK j \in 1..Len(calls), e \in SomeCall :
           /\ calls[j] \in SomeCall
           /\ e.kind = calls[j].kind /\ e.args = calls[j].args /\ e.left = calls[j].left
           /\ Len(calls') = Len(calls)
           /\ \A k \in 1..Len(calls) : calls'[k] = IF k = j THEN e ELSE calls[k]
           /\ \E o \in Outcomes(calls[j]) :
                e.answer = HandleResponse(o.response) /\ rows' = o.rows /\ bids' = o.bids
    BY <1>2, Responses
  <2>2. i \in 1..Len(calls)
    BY <2>1
  <2>3. CASE i = j
    <3>1. d = e
      BY <2>1, <2>3
    <3> QED BY <1>2, <2>1, <3>1
  <2>4. CASE i # j
    <3>1. d = calls[i]
      BY <2>1, <2>2, <2>4
    <3> QED BY <1>1, <2>2, <3>1
  <2> QED BY <2>3, <2>4
<1>3. CASE ~ Respond
  <2>1. Journey
    BY <1>3, Journeys
  <2>2. d \notin WantedCalls
    BY DEF WantedCalls, NewCalls
  <2>3. PICK k \in 1..Len(calls) : Kin(d, calls[k])
    BY <2>1, <2>2 DEF Journey, Sprung
  <2>4. /\ d.kind = calls[k].kind /\ d.args = calls[k].args
        /\ d.left = "no" => calls[k].left = "no"
        /\ d.answer = calls[k].answer
    BY <2>3 DEF Kin, Failed
  <2> QED BY <1>1, <2>4
<1> QED BY <1>2, <1>3

\* bs are some of the bids in stored, of auction a, each once.
AreBidsOf(a, bs, stored) ==
  Range(bs) \subseteq stored /\ (\A b \in Range(bs) : b.auctionId = a) /\ Distinct(bs)

\* An answer that lists bids, or is one, is of stored bids.
LEMMA ListedAnswers ==
  ASSUME Types, QueueInv, ListedInv, [Next]_vars, NEW i \in 1..Len(calls'),
         calls'[i].answer \notin {None, Error, Rejected}
  PROVE  /\ calls'[i].kind = "bids" => AreBidsOf(calls'[i].args, calls'[i].answer, Stored')
         /\ calls'[i].kind = "place" => calls'[i].answer \in Stored'
<1> DEFINE d == calls'[i]
<1>1. PICK k \in 1..Len(calls) :
           /\ d.kind = calls[k].kind /\ d.args = calls[k].args
           /\ calls[k] \in SomeCall
           /\ \/ d.answer = calls[k].answer
              \/ \E o \in Outcomes(calls[k]) :
                   d.answer = HandleResponse(o.response) /\ rows' = o.rows /\ bids' = o.bids
  BY AnswersMove
<1>2. Moves /\ Stored \subseteq Stored' /\ ServicesType /\ ServicesType'
  BY StepMoves, StoredStay DEF Types
<1> DEFINE Good == /\ d.kind = "bids" => AreBidsOf(d.args, d.answer, Stored')
                   /\ d.kind = "place" => d.answer \in Stored'
<1>3. ASSUME d.answer = calls[k].answer PROVE Good
  <2>1. Succeeded(k)
    BY <1>3 DEF Succeeded
  <2>2. /\ calls[k].kind = "bids" => /\ Range(calls[k].answer) \subseteq BidsOn(calls[k].args)
                                     /\ Distinct(calls[k].answer)
        /\ calls[k].kind = "place" => calls[k].answer \in Stored
    BY <2>1 DEF ListedInv
  <2> HIDE DEF d
  <2> QED BY <1>1, <1>2, <1>3, <2>2 DEF BidsOn, AreBidsOf
<1>4. ASSUME NEW o \in Outcomes(calls[k]), d.answer = HandleResponse(o.response), bids' = o.bids
      PROVE  Good
  <2> DEFINE c == calls[k]
  <2>1. c \in SomeCall /\ o \in Outcomes(c) /\ d.kind = c.kind /\ d.args = c.args /\ d.answer \notin {None, Error, Rejected}
    BY <1>1
  <2> HIDE DEF c, d
  <2>2. CASE d.kind = "bids"
    <3>1. d.answer = GetBidsForAuction(c.args).data
      BY <1>2, <1>4, <2>1, <2>2, ReadOutcome
    <3>2. Range(d.answer) \subseteq BidsOn(d.args) /\ Distinct(d.answer)
      BY <1>2, <2>1, <3>1, BidsAnswer
    <3> QED BY <1>2, <2>2, <3>2 DEF BidsOn, AreBidsOf
  <2>3. CASE d.kind = "place"
    <3>1. PICK a \in AuctionId, n \in Nat :
            o.bids = Append(bids, NewBid(a, n)) /\ d.answer = NewBid(a, n)
      BY <1>2, <1>4, <2>1, <2>3, PlaceOutcome
    <3>2. /\ d.answer \in Bid /\ d.answer.id = Len(bids) + 1 /\ Len(bids) \in Nat
          /\ bids' \in Seq(Bid) /\ Len(bids') = Len(bids) + 1 /\ bids'[Len(bids) + 1] = d.answer
      BY <1>2, <1>4, <3>1, NewBidType
    <3>3. d.answer \in Range(bids')
      <4>1. Len(bids) + 1 \in 1..Len(bids')
        BY <3>2
      <4> QED BY <3>2, <4>1, SeqRange
    <3> QED BY <2>3, <3>3 DEF Stored
  <2> QED BY <2>2, <2>3
<1> HIDE DEF Good
<1>5. Good
  BY <1>1, <1>3, <1>4
<1> QED BY <1>5 DEF Good

\* A stored bid whose id is in a list of stored bids is in it.
LEMMA InList ==
  ASSUME ServicesType, NEW bs, Range(bs) \subseteq Stored, NEW b \in Stored, b.id \in Ids(bs)
  PROVE  b \in Range(bs)
<1>1. PICK x \in Range(bs) : x.id = b.id
  BY DEF Ids
<1>2. x = b
  BY <1>1, StoredFacts
<1> QED BY <1>1, <1>2

\* Listed bids are stored bids, each once.
LEMMA ListedStep ==
  ASSUME Types, QueueInv, ListedInv, [Next]_vars
  PROVE  ListedInv'
<1>1. Moves /\ Stored \subseteq Stored' /\ ServicesType
  BY StepMoves, StoredStay DEF Types
<1>2. Range(bidList) \subseteq Stored /\ Distinct(bidList) /\ bidList \in Seq(Bid)
  BY DEF ListedInv, Types, BidsType
<1>3. \A i \in 1..Len(calls') : calls'[i].answer \notin {None, Error, Rejected} =>
        /\ calls'[i].kind = "bids" => AreBidsOf(calls'[i].args, calls'[i].answer, Stored')
        /\ calls'[i].kind = "place" => calls'[i].answer \in Stored'
  BY ListedAnswers
<1>4. Range(bidList') \subseteq Stored' /\ Distinct(bidList')
  <2>1. CASE UNCHANGED bidList
    BY <1>1, <1>2, <2>1 DEF Distinct
  <2>2. CASE \E p, u : Load(p, u)
    <3>1. bidList' = <<>>
      BY <2>2 DEF Load
    <3>2. bidList' \in Seq(Bid) /\ Len(bidList') = 0
      BY <3>1, EmptySeq
    <3>3. DOMAIN bidList' = 1..Len(bidList')
          /\ \A x : x \in Range(bidList') <=> \E i \in 1..Len(bidList') : bidList'[i] = x
      BY <3>2, SeqRange
    <3>4. \A i \in 1..Len(bidList') : FALSE
      BY <3>2
    <3> QED BY <3>3, <3>4 DEF Distinct
  <2>3. ASSUME NEW b \in Stored, bidList' \in {bidList, AddBid(bidList, b)}
        PROVE  Range(bidList') \subseteq Stored' /\ Distinct(bidList')
    <3>1. Range(AddBid(bidList, b)) = Range(bidList) \union {b} /\ Distinct(AddBid(bidList, b))
      BY <1>1, <1>2, AddBidListed
    <3> QED BY <1>1, <1>2, <2>3, <3>1 DEF Distinct
  <2>4. ASSUME NEW i \in DOMAIN calls, ReceiveBids(i)
        PROVE  Range(bidList') \subseteq Stored' /\ Distinct(bidList')
    <3>1. Answered(i, "bids") /\ (bidList' = bidList \/ (~ Failed(calls[i].answer) /\ bidList' = calls[i].answer))
      BY <2>4 DEF ReceiveBids
    <3>2. CASE ~ Failed(calls[i].answer) /\ bidList' = calls[i].answer
      <4>1. i \in 1..Len(calls) /\ calls[i].kind = "bids" /\ Succeeded(i)
        BY <3>1, <3>2, AnsweredFacts DEF Answered, Failed, Succeeded
      <4>2. Range(calls[i].answer) \subseteq Stored /\ Distinct(calls[i].answer)
        BY <4>1 DEF ListedInv, BidsOn
      <4> QED BY <1>1, <3>2, <4>2 DEF Distinct
    <3> QED BY <2>1, <3>1, <3>2
  <2>5. ASSUME NEW i \in DOMAIN calls, ReceivePlaced(i)
        PROVE  Range(bidList') \subseteq Stored' /\ Distinct(bidList')
    <3>1. Answered(i, "place") /\ (bidList' = bidList \/ (~ Failed(calls[i].answer)
                                                          /\ bidList' = AddBid(bidList, calls[i].answer)))
      BY <2>5 DEF ReceivePlaced
    <3>2. CASE ~ Failed(calls[i].answer) /\ bidList' = AddBid(bidList, calls[i].answer)
      <4>1. i \in 1..Len(calls) /\ calls[i].kind = "place" /\ Succeeded(i)
        BY <3>1, <3>2, AnsweredFacts DEF Answered, Failed, Succeeded
      <4>2. calls[i].answer \in Stored
        BY <4>1 DEF ListedInv
      <4> QED BY <2>3, <3>2, <4>2
    <3> QED BY <2>1, <3>1, <3>2
  <2>6. ASSUME NEW b \in Stored, BidPlaced(b) PROVE Range(bidList') \subseteq Stored' /\ Distinct(bidList')
    <3>1. bidList' \in {bidList, AddBid(bidList, b)}
      BY <2>6, PlacedFacts
    <3> QED BY <2>3, <3>1
  <2>7. \/ UNCHANGED <<bidList, bidsOf, missed, announced>>
        \/ \E p, u : Load(p, u)
        \/ \E i \in DOMAIN calls : (ReceiveBids(i) \/ ReceivePlaced(i)) /\ UNCHANGED liveVars
        \/ \E b \in Stored : BidPlaced(b)
    BY BidsMove
  <2> QED BY <2>1, <2>2, <2>4, <2>5, <2>6, <2>7
<1> QED BY <1>3, <1>4 DEF ListedInv, Succeeded, BidsOn, AreBidsOf

\* Notified bids stay in the list of their auction, and in the answers with such lists.
LEMMA NotedStep ==
  ASSUME Types, QueueInv, ListedInv, NotedInv, [Next]_vars
  PROVE  NotedInv'
<1>1. Moves /\ Stored \subseteq Stored' /\ ServicesType
      /\ (\A b \in Stored' : b.id \in 1..Len(bids) => b \in Stored)
  BY StepMoves, StoredStay DEF Types
<1>2. Range(bidList) \subseteq Stored /\ Distinct(bidList) /\ bidList \in Seq(Bid)
      /\ announced \subseteq 1..Len(bids) /\ HasNoted(bidsOf, bidList)
  BY DEF ListedInv, NotedInv, Types, BidsType, LiveType
<1>3. \A b \in Stored : b \in Bid /\ b.auctionId # None
  BY <1>1, StoredFacts, NoneAssumption DEF Bid
<1> DEFINE Noted(a, bs, ids) == \A b \in Stored : b.auctionId = a /\ b.id \in ids => b \in Range(bs)
           Comes(i) == calls[i].kind = "bids" /\ calls[i].answer \notin {None, Error, Rejected}
           ids == announced \ missed
           new == announced' \ missed'
<1>4. Noted(bidsOf, bidList, ids)
  BY <1>2 DEF HasNoted
<1>5. \A i \in 1..Len(calls) : Comes(i) => Noted(calls[i].args, calls[i].answer, ids)
                                        /\ Range(calls[i].answer) \subseteq BidsOn(calls[i].args)
  BY DEF NotedInv, ListedInv, HasNoted, Succeeded
<1>6. ASSUME NEW i \in 1..Len(calls), calls' = RemoveAt(calls, i), NEW j \in 1..Len(calls), j # i
      PROVE  \E k \in DOMAIN calls' : calls'[k] = calls[j]
  <2>1. calls \in Seq(SomeCall) /\ Len(calls) \in Nat
    BY QueueTypes
  <2>2. calls' \in Seq(SomeCall) /\ Len(calls') = Len(calls) - 1
        /\ \A k \in 1..(Len(calls) - 1) : calls'[k] = calls[IF k < i THEN k ELSE k + 1]
    BY <1>6, <2>1, RemoveAtKeeps
  <2>3. DOMAIN calls' = 1..(Len(calls) - 1)
    BY <2>2, LenProperties
  <2>4. CASE j < i
    <3>1. j \in 1..(Len(calls) - 1) /\ calls'[j] = calls[j]
      BY <2>1, <2>2, <2>4
    <3> QED BY <2>3, <3>1
  <2>5. CASE j > i
    <3>1. j - 1 \in 1..(Len(calls) - 1) /\ ~ (j - 1 < i) /\ (j - 1) + 1 = j
      BY <2>1, <2>5
    <3>2. calls'[j - 1] = calls[j]
      BY <2>2, <3>1
    <3> QED BY <2>3, <3>1, <3>2
  <2> QED BY <1>6, <2>4, <2>5
<1> DEFINE Goal == /\ announced' \subseteq 1..Len(bids)
                   /\ Noted(bidsOf', bidList', new)
                   /\ \A i \in 1..Len(calls) :
                        Comes(i) => Noted(calls[i].args, calls[i].answer, new)
                                    \/ \A k \in 1..Len(calls') : calls'[k].answer = None
<1>7. ASSUME UNCHANGED <<bidList, bidsOf, missed, announced>> PROVE Goal
  <2>1. new = ids /\ bidsOf' = bidsOf /\ bidList' = bidList /\ announced' = announced
    BY <1>7
  <2> HIDE DEF ids, new, Comes
  <2> QED BY <1>2, <1>4, <1>5, <2>1
<1>8. ASSUME NEW p, NEW u, Load(p, u) PROVE Goal
  <2>1. bidsOf' = None /\ announced' = announced /\ calls' = MountCalls(p)
    BY <1>8 DEF Load
  <2>2. \A k \in 1..Len(calls') : calls'[k].answer = None
    <3>1. calls' \in {<<SearchCall(InitialParams)>>, <<BidsCall(p)>>, <<>>}
      BY <2>1 DEF MountCalls
    <3>2. SearchCall(InitialParams).answer = None /\ BidsCall(p).answer = None
      BY DEF SearchCall, BidsCall, Call
    <3>3. CASE calls' = <<SearchCall(InitialParams)>>
      BY <3>2, <3>3
    <3>4. CASE calls' = <<BidsCall(p)>>
      BY <3>2, <3>4
    <3>5. CASE calls' = <<>>
      BY <3>5
    <3> QED BY <3>1, <3>3, <3>4, <3>5
  <2>3. Noted(bidsOf', bidList', new)
    BY <1>3, <2>1
  <2> HIDE DEF new, Noted
  <2> QED BY <1>2, <2>1, <2>2, <2>3
<1>9. ASSUME NEW j \in DOMAIN calls, ReceiveBids(j), UNCHANGED liveVars PROVE Goal
  <2> DEFINE c == calls[j]
  <2>1. /\ Answered(j, "bids") /\ announced' = announced
        /\ calls' = RemoveAt(calls, j)
        /\ \/ UNCHANGED <<bidList, bidsOf, missed>>
           \/ /\ ~ Failed(c.answer) /\ bidList' = c.answer /\ bidsOf' = c.args
              /\ missed' = IF Fetching(c.args, calls') THEN missed ELSE missed \ Ids(c.answer)
    BY <1>9 DEF ReceiveBids, liveVars
  <2>2. j \in 1..Len(calls) /\ c.kind = "bids" /\ c.answer # None
    BY <2>1, AnsweredFacts DEF Answered
  <2>3. CASE UNCHANGED <<bidList, bidsOf, missed>>
    BY <1>7, <2>1, <2>3
  <2>4. CASE /\ ~ Failed(c.answer) /\ bidList' = c.answer /\ bidsOf' = c.args
             /\ missed' = IF Fetching(c.args, calls') THEN missed ELSE missed \ Ids(c.answer)
    <3>1. Comes(j)
      BY <2>2, <2>4 DEF Failed
    <3>2. Noted(c.args, c.answer, ids) /\ Range(c.answer) \subseteq BidsOn(c.args)
      <4> HIDE DEF Comes, Noted, ids
      <4> QED BY <1>5, <2>2, <3>1
    <3>3. \A b \in Stored : b.id \in Ids(c.answer) => b \in Range(c.answer) /\ b.auctionId = c.args
      <4> HIDE DEF c
      <4>1. Range(c.answer) \subseteq Stored /\ \A b \in Range(c.answer) : b.auctionId = c.args
        BY <3>2 DEF BidsOn
      <4> QED BY <1>1, <4>1, InList
    <3>4. new \subseteq ids \union Ids(c.answer) /\ (Fetching(c.args, calls') => new = ids)
      BY <2>1, <2>4
    <3>5. Noted(c.args, c.answer, new)
      <4> HIDE DEF c, ids, new
      <4> QED BY <3>2, <3>3, <3>4
    <3>6. ASSUME NEW i \in 1..Len(calls), Comes(i) PROVE Noted(calls[i].args, calls[i].answer, new)
      <4>1. Noted(calls[i].args, calls[i].answer, ids)
        <5> HIDE DEF Comes, Noted, ids
        <5> QED BY <1>5, <3>6
      <4>2. CASE i = j
        BY <3>5, <4>2
      <4>3. CASE i # j /\ calls[i].args = c.args
        <5>1. Fetching(c.args, calls')
          BY <1>6, <2>1, <2>2, <3>6, <4>3 DEF Fetching
        <5> HIDE DEF ids, new, c
        <5> QED BY <3>4, <4>1, <5>1
      <4>4. CASE calls[i].args # c.args
        <5> HIDE DEF ids, new, c
        <5> QED BY <3>3, <3>4, <4>1, <4>4
      <4> QED BY <4>2, <4>3, <4>4
    <3> HIDE DEF Comes, Noted, ids, new
    <3> QED BY <1>2, <2>1, <2>4, <3>5, <3>6
  <2> QED BY <2>1, <2>3, <2>4
<1>10. ASSUME NEW b \in Stored, bidList' = AddBid(bidList, b), bidsOf' = bidsOf,
              new \subseteq ids \union {b.id}, announced' \subseteq 1..Len(bids)
       PROVE  Noted(bidsOf', bidList', new)
  <2>1. Range(bidList') = Range(bidList) \union {b}
    BY <1>1, <1>2, <1>10, AddBidListed
  <2>2. \A x \in Stored : x.id = b.id => x = b
    BY <1>1, StoredFacts
  <2> HIDE DEF ids, new
  <2> QED BY <1>4, <1>10, <2>1, <2>2
<1>11. ASSUME NEW j \in DOMAIN calls, ReceivePlaced(j), UNCHANGED liveVars PROVE Goal
  <2> DEFINE c == calls[j]
  <2>1. /\ Answered(j, "place") /\ UNCHANGED <<announced, bidsOf, missed>>
        /\ bidList' = IF Failed(c.answer) THEN bidList ELSE AddBid(bidList, c.answer)
    BY <1>11 DEF ReceivePlaced, liveVars
  <2>2. CASE Failed(c.answer)
    BY <1>7, <2>1, <2>2
  <2>3. CASE ~ Failed(c.answer)
    <3>1. j \in 1..Len(calls) /\ c.kind = "place" /\ Succeeded(j)
      BY <2>1, <2>3, AnsweredFacts DEF Answered, Failed, Succeeded
    <3>2. c.answer \in Stored
      BY <3>1 DEF ListedInv
    <3>3. new = ids
      BY <2>1
    <3>4. Noted(bidsOf', bidList', new)
      <4> HIDE DEF ids, new, Noted, c
      <4> QED BY <1>2, <1>10, <2>1, <2>3, <3>2, <3>3
    <3> HIDE DEF ids, new, Noted, Comes
    <3> QED BY <1>2, <1>5, <2>1, <3>3, <3>4
  <2> QED BY <2>2, <2>3
<1>12. ASSUME NEW b \in Stored, BidPlaced(b) PROVE Goal
  <2>1. /\ b.id \in 1..Len(bids) /\ bidsOf' = bidsOf /\ announced' = announced \union {b.id}
        /\ bidList' \in {bidList, AddBid(bidList, b)}
        /\ \/ missed' = missed \union {b.id}
           \/ missed' = missed /\ bidList' = AddBid(bidList, b) /\ ~ Fetching(b.auctionId, calls)
    BY <1>12, PlacedFacts
  <2>2. announced' \subseteq 1..Len(bids)
    BY <1>2, <2>1
  <2>3. CASE missed' = missed \union {b.id}
    <3>1. new \subseteq ids
      BY <2>1, <2>3
    <3>2. Noted(bidsOf', bidList', new)
      <4>1. CASE bidList' = bidList
        <5> HIDE DEF ids, new
        <5> QED BY <1>4, <2>1, <3>1, <4>1
      <4>2. CASE bidList' = AddBid(bidList, b)
        <5> HIDE DEF ids, new, Noted
        <5> QED BY <1>10, <2>1, <2>2, <3>1, <4>2
      <4> QED BY <2>1, <4>1, <4>2
    <3>3. \A i \in 1..Len(calls) : Comes(i) => Noted(calls[i].args, calls[i].answer, new)
      <4> HIDE DEF ids, new, Comes
      <4> QED BY <1>5, <3>1
    <3> HIDE DEF ids, new, Comes, Noted
    <3> QED BY <2>2, <3>2, <3>3
  <2>4. CASE missed' = missed /\ bidList' = AddBid(bidList, b) /\ ~ Fetching(b.auctionId, calls)
    <3>1. new \subseteq ids \union {b.id}
      BY <2>1, <2>4
    <3>2. Noted(bidsOf', bidList', new)
      <4> HIDE DEF ids, new, Noted
      <4> QED BY <1>10, <2>1, <2>2, <2>4, <3>1
    <3>3. ASSUME NEW i \in 1..Len(calls), Comes(i) PROVE Noted(calls[i].args, calls[i].answer, new)
      <4>1. Noted(calls[i].args, calls[i].answer, ids)
        <5> HIDE DEF Comes, Noted, ids
        <5> QED BY <1>5, <3>3
      <4>2. calls[i].args # b.auctionId
        BY <2>4, <3>3, QueueTypes, LenProperties DEF Fetching
      <4>3. \A x \in Stored : x.id = b.id => x = b
        BY <1>1, StoredFacts
      <4> HIDE DEF ids, new
      <4> QED BY <3>1, <4>1, <4>2, <4>3
    <3> HIDE DEF ids, new, Comes, Noted
    <3> QED BY <2>2, <3>2, <3>3
  <2> QED BY <2>1, <2>3, <2>4
<1>13. Goal
  <2> HIDE DEF Goal
  <2> QED BY <1>7, <1>8, <1>9, <1>11, <1>12, BidsMove
<1>14. ASSUME NEW i \in 1..Len(calls'), calls'[i].kind = "bids",
              calls'[i].answer \notin {None, Error, Rejected}
       PROVE  Noted(calls'[i].args, calls'[i].answer, new)
  <2> DEFINE d == calls'[i]
  <2>1. PICK k \in 1..Len(calls) :
           /\ d.kind = calls[k].kind /\ d.args = calls[k].args
           /\ calls[k] \in SomeCall
           /\ \/ d.answer = calls[k].answer
              \/ \E o \in Outcomes(calls[k]) : d.answer = HandleResponse(o.response)
    BY <1>14, AnswersMove
  <2>2. CASE d.answer = calls[k].answer
    <3>1. Comes(k)
      BY <1>14, <2>1, <2>2
    <3>2. d.answer # None
      BY <1>14
    <3> HIDE DEF Comes, d, Noted, new
    <3>3. Noted(calls[k].args, calls[k].answer, new) \/ \A l \in 1..Len(calls') : calls'[l].answer = None
      BY <1>13, <3>1
    <3>4. Noted(calls[k].args, calls[k].answer, new)
      BY <3>2, <3>3 DEF d
    <3> QED BY <2>1, <2>2, <3>4 DEF d
  <2>3. ASSUME NEW o \in Outcomes(calls[k]), d.answer = HandleResponse(o.response)
        PROVE  Noted(d.args, d.answer, new)
    <3> DEFINE c == calls[k]
    <3>1. c \in SomeCall /\ o \in Outcomes(c) /\ c.kind = "bids" /\ d.args = c.args
      BY <1>14, <2>1
    <3> HIDE DEF c
    <3>2. HandleResponse(o.response) = GetBidsForAuction(c.args).data
      BY <1>1, <3>1, ReadOutcome
    <3>3. \A b \in Stored : b.auctionId = c.args => b \in Range(GetBidsForAuction(c.args).data)
      BY <1>1, BidsAnswer
    <3> HIDE DEF d
    <3> QED BY <2>3, <3>1, <3>2, <3>3
  <2> HIDE DEF Noted, new
  <2> QED BY <2>1, <2>2, <2>3
<1>15. \A b \in Stored' : b.id \in new => b \in Stored
  BY <1>1, <1>13
<1>16. HasNoted(bidsOf, bidList)'
  <2>1. Noted(bidsOf', bidList', new)
    BY <1>13
  <2> HIDE DEF new
  <2>2. \A b \in Stored' : b.auctionId = bidsOf' /\ b.id \in new => b \in Range(bidList')
    BY <1>15, <2>1
  <2> QED BY <2>2 DEF HasNoted, new
<1>17. ASSUME NEW i \in 1..Len(calls'), calls'[i].kind = "bids",
              calls'[i].answer \notin {None, Error, Rejected}
       PROVE  HasNoted(calls[i].args, calls[i].answer)'
  <2>1. Noted(calls'[i].args, calls'[i].answer, new)
    BY <1>14, <1>17
  <2> HIDE DEF new
  <2>2. \A b \in Stored' : b.auctionId = calls'[i].args /\ b.id \in new => b \in Range(calls'[i].answer)
    BY <1>15, <2>1
  <2> QED BY <2>2 DEF HasNoted, new
<1> QED BY <1>16, <1>17 DEF NotedInv, Succeeded
-----------------------------------------------------------------------------
(* The home page *)

\* What a step does to the list of the home page.
LEMMA ListMove ==
  ASSUME Types, [Next]_vars
  PROVE  \/ UNCHANGED listVars
         \/ (World \/ Respond) /\ UNCHANGED <<params, list, loading, shown>> /\ WatchList
         \/ OnList
         \/ \E i \in DOMAIN calls : ReceiveSearch(i)
         \/ \E i \in DOMAIN calls : /\ ReceiveDeleted(i)
                                    /\ \/ GoHomeAgain(RemoveAt(calls, i))
                                       \/ GoHome(RemoveAt(calls, i), params)
         \/ \E p, u : Load(p, u)
         \/ \E b \in Stored : BidPlaced(b)
<1>1. CASE World \/ Respond
  BY <1>1 DEF World, Respond
<1>2. CASE CloseForm \/ UNCHANGED vars
  BY <1>2 DEF CloseForm, CountdownCompletes, vars, clientVars
<1>3. CASE OnForms
  BY <1>3 DEF OnForms, TypeField, SubmitCreate, SubmitUpdate, SubmitDelete, Submit, SubmitBid
<1>4. ASSUME NEW cs, Toast(cs) \/ \E a, kept : LeaveFor(a, cs, kept)
      PROVE  UNCHANGED listVars
  BY <1>4 DEF Toast, LeaveFor
<1>5. CASE Receive
  <2>1. PICK i \in DOMAIN calls :
          \/ ReceiveSearch(i)
          \/ UNCHANGED listVars
          \/ ReceiveCreated(i) \/ ReceiveDeleted(i) \/ ReceiveUpdated(i)
    BY <1>5 DEF Receive, ReceiveDetails
  <2>2. CASE ReceiveCreated(i)
    BY <1>4, <2>2 DEF ReceiveCreated
  <2>3. CASE ReceiveDeleted(i)
    <3>1. Toast(RemoveAt(calls, i)) \/ GoHomeAgain(RemoveAt(calls, i)) \/ GoHome(RemoveAt(calls, i), params)
      BY <2>3 DEF ReceiveDeleted
    <3>2. CASE Toast(RemoveAt(calls, i))
      BY <3>2 DEF Toast
    <3> QED BY <2>3, <3>1, <3>2
  <2>4. CASE ReceiveUpdated(i)
    <3> DEFINE c == calls[i]
               rest == RemoveAt(calls, i)
               anew == c.left = "no" /\ c.answer # Rejected
    <3>1. \/ LeaveFor(c.args.auctionId, rest, Kept(anew))
          \/ Toast(rest)
          \/ UNCHANGED listVars
      BY <2>4, UpdatedFacts
    <3> HIDE DEF c, anew, rest
    <3> QED BY <1>4, <3>1
  <2> QED BY <2>1, <2>2, <2>3, <2>4
<1>6. CASE Navigate
  <2>1. Visit \/ \E p, u : Load(p, u)
    BY <1>6 DEF Navigate, OpenAuction, OpenToast, OpenUpdate, OpenCreate, Reload, SignIn, SignOut
  <2> QED BY <2>1 DEF Visit
<1>7. CASE Notify
  BY <1>7 DEF Notify, Connect, Disconnect, AuctionCreated, AuctionFinished, Announce
<1> QED BY <1>1, <1>2, <1>3, <1>5, <1>6, <1>7 DEF Next

\* What was offered stays offered.
LEMMA OfferedStays ==
  ASSUME Types, Moves, NEW x, Offered(x)
  PROVE  x.currentHighBid \in {0} \union Amounts(PricedBids(x.id)')
<1>1. Stored \subseteq Stored' /\ synced \subseteq synced'
  BY StoredStay DEF Moves
<1> QED BY <1>1, PricedStay DEF Offered

\* Prices are those of bids.
LEMMA PricesStep ==
  ASSUME Types, QueueInv, PricesInv, [Next]_vars
  PROVE  PricesInv'
<1> DEFINE Later(x) == x.currentHighBid \in {0} \union Amounts(PricedBids(x.id)')
<1>1. Moves /\ ServicesType /\ Stored \subseteq Stored'
  BY StepMoves, StoredStay DEF Types
<1>2. \A x : Offered(x) => Later(x)
  BY <1>1, OfferedStays
<1>3. list # NoList => list \in SomeList /\ \A x \in Range(list.results) : Offered(x)
  BY DEF PricesInv, Types, ListType
<1>4. ASSUME NEW i \in 1..Len(calls), calls[i].kind = "search", calls[i].answer \notin {None, Error, Rejected}
      PROVE  \A x \in Range(calls[i].answer.results) : Offered(x)
  BY <1>4 DEF PricesInv, Succeeded
<1> DEFINE Goal == list' # NoList => \A x \in Range(list'.results) : Later(x)
<1>5. Goal
  <2>1. ASSUME list' = list PROVE Goal
    <3> HIDE DEF Later
    <3> QED BY <1>2, <1>3, <2>1
  <2>2. ASSUME OnList PROVE list' = list
    BY <2>2, OnListSets DEF SetsParams, SetAndGoHome, SetOnHome, GoHome
  <2>3. ASSUME NEW i \in DOMAIN calls, ReceiveSearch(i) PROVE Goal
    <3> DEFINE c == calls[i]
    <3>1. Answered(i, "search") /\ (list' = list \/ (c.answer # Rejected /\ list' = SetData(c.answer)))
      BY <2>3 DEF ReceiveSearch
    <3>2. CASE c.answer # Rejected /\ list' = SetData(c.answer)
      <4>1. i \in 1..Len(calls) /\ c.kind = "search" /\ c.answer # None
        BY <3>1, AnsweredFacts DEF Answered
      <4>2. CASE c.answer = Error
        BY <3>2, <4>2 DEF SetData
      <4>3. CASE c.answer # Error
        <5>1. \A x \in Range(c.answer.results) : Offered(x)
          BY <1>4, <3>2, <4>1, <4>3
        <5>2. list' = c.answer
          BY <3>2, <4>3 DEF SetData
        <5> HIDE DEF Later, c
        <5> QED BY <1>2, <5>1, <5>2
      <4> QED BY <4>2, <4>3
    <3> HIDE DEF Goal
    <3> QED BY <2>1, <3>1, <3>2
  <2>4. ASSUME NEW p, NEW u, Load(p, u) PROVE Goal
    <3>1. list' = EmptyList
      BY <2>4 DEF Load
    <3>2. list'.results = <<>>
      BY <3>1 DEF EmptyList
    <3>3. list'.results \in Seq(Bid) /\ Len(list'.results) = 0
      BY <3>2, EmptySeq
    <3>4. \A x : x \in Range(list'.results) <=> \E i \in 1..Len(list'.results) : list'.results[i] = x
      BY <3>3, SeqRange
    <3> QED BY <3>3, <3>4
  <2>5. ASSUME NEW b \in Stored, BidPlaced(b) PROVE Goal
    <3>1. /\ b \in Bid
          /\ \/ list' = list
             \/ /\ IsAccepted(b) /\ list # NoList
                /\ list' = [list EXCEPT !.results = SetCurrentPrice(@, b)]
      BY <2>5, PlacedFacts
    <3>2. CASE /\ IsAccepted(b) /\ list # NoList
               /\ list' = [list EXCEPT !.results = SetCurrentPrice(@, b)]
      <4>1. \A x \in Range(list'.results) :
              x \in Range(list.results) \/ (x.id = b.auctionId /\ x.currentHighBid = b.amount)
        BY <1>3, <3>1, <3>2, SetPriceType
      <4>2. \A x : x.id = b.auctionId /\ x.currentHighBid = b.amount => Later(x)
        BY <1>1, <3>2 DEF Amounts, PricedBids, BidsOn
      <4> HIDE DEF Later
      <4> QED BY <1>2, <1>3, <3>2, <4>1, <4>2
    <3> HIDE DEF Goal
    <3> QED BY <2>1, <3>1, <3>2
  <2>6. ASSUME NEW cs, NEW ps, GoHomeAgain(cs) \/ GoHome(cs, ps) PROVE list' = list
    BY <2>6 DEF GoHomeAgain, GoHome
  <2>7. UNCHANGED listVars => list' = list
    BY DEF listVars
  <2> HIDE DEF Goal
  <2> QED BY <2>1, <2>2, <2>3, <2>4, <2>5, <2>6, <2>7, ListMove
<1>6. ASSUME NEW i \in 1..Len(calls'), calls'[i].kind = "search", calls'[i].answer \notin {None, Error, Rejected}
      PROVE  \A x \in Range(calls'[i].answer.results) : Later(x)
  <2> DEFINE d == calls'[i]
  <2>1. PICK k \in 1..Len(calls) :
           /\ d.kind = calls[k].kind /\ d.args = calls[k].args
           /\ calls[k] \in SomeCall
           /\ \/ d.answer = calls[k].answer
              \/ \E o \in Outcomes(calls[k]) : d.answer = HandleResponse(o.response)
    BY <1>6, AnswersMove
  <2>2. CASE d.answer = calls[k].answer
    <3>1. \A x \in Range(calls[k].answer.results) : Offered(x)
      BY <1>4, <1>6, <2>1, <2>2
    <3> HIDE DEF d, Later
    <3> QED BY <1>2, <2>2, <3>1 DEF d
  <2>3. ASSUME NEW o \in Outcomes(calls[k]), d.answer = HandleResponse(o.response)
        PROVE  \A x \in Range(d.answer.results) : Later(x)
    <3> DEFINE c == calls[k]
    <3>1. c \in SomeCall /\ o \in Outcomes(c) /\ c.kind = "search"
      BY <1>6, <2>1
    <3> HIDE DEF c
    <3>2. HandleResponse(o.response) = SearchItems(c.args, Hits(c.args)) /\ c.args \in Params
      BY <1>1, <3>1, ReadOutcome, CallFields DEF ArgsOf
    <3>3. \A x \in Range(SearchItems(c.args, Hits(c.args)).results) : Offered(x)
      BY <1>1, <3>2, HitsType, SearchAnswer
    <3> HIDE DEF d, Later
    <3> QED BY <1>2, <2>3, <3>2, <3>3
  <2> HIDE DEF Later
  <2> QED BY <2>1, <2>2, <2>3
<1> QED BY <1>5, <1>6 DEF PricesInv, Succeeded, Offered, Amounts

-----------------------------------------------------------------------------
(* The searches *)

\* The last search in ds is that in cs, or has failed since; none waits in ds only when
\* none waits in cs.
Follows(ds, cs) ==
  /\ \A i \in 1..Len(ds) : LastWaits(ds, i) =>
       \E k \in 1..Len(cs) : /\ LastWaits(cs, k) /\ ds[i].args = cs[k].args
                             /\ ds[i].answer = cs[k].answer \/ Failed(ds[i].answer)
  /\ NoneWaits(ds) => NoneWaits(cs)

\* A call is answered: nothing else about the queue changes.
LEMMA FollowsSame ==
  ASSUME NEW cs \in Seq(SomeCall), NEW ds, Len(ds) = Len(cs),
         \A j \in 1..Len(cs) : /\ ds[j].kind = cs[j].kind /\ ds[j].left = cs[j].left
                               /\ ds[j].args = cs[j].args
                               /\ ds[j].answer = cs[j].answer \/ Failed(ds[j].answer)
  PROVE  Follows(ds, cs)
BY DEF Follows, LastWaits, NoneWaits, Waits

\* A call is taken out of the queue, before which none waits: the last search remains,
\* unless it was that one.
LEMMA FirstTaken ==
  ASSUME NEW cs \in Seq(SomeCall), NEW i \in 1..Len(cs), \A j \in 1..(i - 1) : ~ Waits(cs[j])
  PROVE  LET ds == RemoveAt(cs, i)
         IN  /\ \A m \in 1..Len(ds) : LastWaits(ds, m) => \E k \in 1..Len(cs) : LastWaits(cs, k) /\ ds[m] = cs[k]
             /\ NoneWaits(ds) /\ Waits(cs[i]) => LastWaits(cs, i)
<1> DEFINE ds == RemoveAt(cs, i)
           At(m) == IF m < i THEN m ELSE m + 1
<1>1. /\ Len(cs) \in Nat /\ Len(ds) = Len(cs) - 1
      /\ \A m \in 1..(Len(cs) - 1) : ds[m] = cs[At(m)]
  BY RemoveAtKeeps
<1> HIDE DEF ds
<1>2. \A k \in 1..Len(cs) : k = i \/ \E m \in 1..Len(ds) : k = At(m)
  <2> SUFFICES ASSUME NEW k \in 1..Len(cs), k # i PROVE \E m \in 1..Len(ds) : k = At(m)
    OBVIOUS
  <2>1. CASE k < i
    <3>1. k \in 1..Len(ds) /\ At(k) = k
      BY <1>1, <2>1
    <3> QED BY <3>1
  <2>2. CASE k > i
    <3>1. k - 1 \in 1..Len(ds) /\ At(k - 1) = k
      BY <1>1, <2>2
    <3> QED BY <3>1
  <2> QED BY <2>1, <2>2
<1>3. ASSUME NEW m \in 1..Len(ds), LastWaits(ds, m)
      PROVE  \E k \in 1..Len(cs) : LastWaits(cs, k) /\ ds[m] = cs[k]
  <2>1. At(m) \in 1..Len(cs) /\ ds[m] = cs[At(m)]
    BY <1>1
  <2>2. Waits(cs[At(m)]) /\ \A n \in 1..Len(ds) : Waits(ds[n]) => n <= m
    BY <1>3, <2>1 DEF LastWaits
  <2>3. i <= At(m)
    BY <2>1, <2>2
  <2>4. ASSUME NEW k \in 1..Len(cs), Waits(cs[k]) PROVE k <= At(m)
    <3>1. CASE k = i
      BY <2>3, <3>1
    <3>2. ASSUME NEW n \in 1..Len(ds), k = At(n) PROVE k <= At(m)
      <4>1. n <= m
        BY <1>1, <2>2, <2>4, <3>2
      <4> QED BY <3>2, <4>1
    <3> QED BY <1>2, <3>1, <3>2
  <2>5. LastWaits(cs, At(m))
    BY <2>1, <2>2, <2>4 DEF LastWaits
  <2> HIDE DEF At
  <2> QED BY <2>1, <2>5
<1>4. ASSUME NoneWaits(ds), Waits(cs[i]) PROVE LastWaits(cs, i)
  <2>1. ASSUME NEW k \in 1..Len(cs), k # i PROVE ~ Waits(cs[k])
    <3>1. PICK m \in 1..Len(ds) : k = At(m)
      BY <1>2, <2>1
    <3> QED BY <1>1, <1>4, <3>1 DEF NoneWaits
  <2> QED BY <1>1, <1>4, <2>1 DEF LastWaits
<1> QED BY <1>3, <1>4 DEF ds

\* A call that is no search that the page waits for is taken out.
LEMMA FollowsTaken ==
  ASSUME NEW cs \in Seq(SomeCall), NEW i \in 1..Len(cs), ~ Waits(cs[i])
  PROVE  Follows(RemoveAt(cs, i), cs)
<1> DEFINE ds == RemoveAt(cs, i)
           At(m) == IF m < i THEN m ELSE m + 1
<1>1. /\ Len(cs) \in Nat /\ Len(ds) = Len(cs) - 1
      /\ \A m \in 1..(Len(cs) - 1) : ds[m] = cs[At(m)]
  BY RemoveAtKeeps
<1> HIDE DEF ds
<1>2. ASSUME NEW k \in 1..Len(cs), Waits(cs[k]) PROVE \E m \in 1..Len(ds) : k = At(m) /\ Waits(ds[m])
  <2>1. k # i
    BY <1>2
  <2>2. CASE k < i
    <3>1. k \in 1..Len(ds) /\ At(k) = k
      BY <1>1, <2>2
    <3> QED BY <1>1, <1>2, <3>1
  <2>3. CASE k > i
    <3>1. k - 1 \in 1..Len(ds) /\ At(k - 1) = k
      BY <1>1, <2>3
    <3>2. ds[k - 1] = cs[k]
      BY <1>1, <3>1
    <3> QED BY <1>2, <3>1, <3>2
  <2> QED BY <2>1, <2>2, <2>3
<1>3. ASSUME NEW m \in 1..Len(ds), LastWaits(ds, m)
      PROVE  \E k \in 1..Len(cs) : /\ LastWaits(cs, k) /\ ds[m].args = cs[k].args
                                   /\ ds[m].answer = cs[k].answer \/ Failed(ds[m].answer)
  <2>1. At(m) \in 1..Len(cs) /\ ds[m] = cs[At(m)]
    BY <1>1
  <2>2. Waits(cs[At(m)]) /\ \A n \in 1..Len(ds) : Waits(ds[n]) => n <= m
    BY <1>3, <2>1 DEF LastWaits
  <2>3. ASSUME NEW k \in 1..Len(cs), Waits(cs[k]) PROVE k <= At(m)
    <3>1. PICK n \in 1..Len(ds) : k = At(n) /\ Waits(ds[n])
      BY <1>2, <2>3
    <3>2. n <= m
      BY <2>2, <3>1
    <3> QED BY <3>1, <3>2
  <2>4. LastWaits(cs, At(m))
    BY <2>1, <2>2, <2>3 DEF LastWaits
  <2> HIDE DEF At
  <2> QED BY <2>1, <2>4
<1>4. NoneWaits(ds) => NoneWaits(cs)
  BY <1>2 DEF NoneWaits
<1> QED BY <1>3, <1>4 DEF Follows, ds

\* A call that is no search is made.
LEMMA FollowsMade ==
  ASSUME NEW cs \in Seq(SomeCall), NEW c \in SomeCall, c.kind # "search"
  PROVE  Follows(Append(cs, c), cs)
<1> DEFINE ds == Append(cs, c)
<1>1. /\ Len(cs) \in Nat /\ Len(ds) = Len(cs) + 1
      /\ \A i \in 1..Len(cs) : ds[i] = cs[i] /\ i \in 1..Len(ds)
      /\ ds[Len(cs) + 1] = c
      /\ \A i \in 1..Len(ds) : i \in 1..Len(cs) \/ i = Len(cs) + 1
  BY AppendFacts
<1> HIDE DEF ds
<1>2. \A i \in 1..Len(ds) : Waits(ds[i]) => i \in 1..Len(cs) /\ Waits(cs[i]) /\ ds[i] = cs[i]
  BY <1>1 DEF Waits
<1>3. \A i \in 1..Len(cs) : Waits(cs[i]) => i \in 1..Len(ds) /\ Waits(ds[i])
  BY <1>1
<1>4. \A i \in 1..Len(ds) : LastWaits(ds, i) => i \in 1..Len(cs) /\ LastWaits(cs, i) /\ ds[i] = cs[i]
  BY <1>2, <1>3 DEF LastWaits
<1>5. NoneWaits(ds) => NoneWaits(cs)
  BY <1>3 DEF NoneWaits
<1>6. Follows(ds, cs)
  BY <1>4, <1>5 DEF Follows
<1> QED BY <1>6 DEF ds

\* A search is made, and is the last one.
LEMMA SearchMade ==
  ASSUME NEW cs \in Seq(SomeCall), NEW c \in SomeCall, Waits(c)
  PROVE  /\ \A i \in 1..Len(Append(cs, c)) : LastWaits(Append(cs, c), i) => Append(cs, c)[i] = c
         /\ ~ NoneWaits(Append(cs, c))
<1> DEFINE ds == Append(cs, c)
<1>1. /\ Len(cs) \in Nat /\ Len(ds) = Len(cs) + 1 /\ ds[Len(cs) + 1] = c
  BY AppendFacts
<1> HIDE DEF ds
<1>2. Len(cs) + 1 \in 1..Len(ds) /\ Waits(ds[Len(cs) + 1])
  BY <1>1
<1>3. \A i \in 1..Len(ds) : LastWaits(ds, i) => i = Len(cs) + 1
  BY <1>1, <1>2 DEF LastWaits
<1>4. /\ \A i \in 1..Len(ds) : LastWaits(ds, i) => ds[i] = c
      /\ ~ NoneWaits(ds)
  BY <1>1, <1>2, <1>3 DEF NoneWaits
<1> QED BY <1>4 DEF ds

\* The positions of the auctions that the parameters find.
At == {i \in 1..Len(Order[params.orderBy]) : Matches(Query(params), Order[params.orderBy][i])}

\* The parameters that are sent.
LEMMA QueryFields ==
  ASSUME NEW ps \in Params
  PROVE  /\ Query(ps) \in Params
         /\ Query(ps).pageNumber = ps.pageNumber /\ Query(ps).pageSize = ps.pageSize
         /\ Query(ps).searchTerm = ps.searchTerm /\ Query(ps).orderBy = ps.orderBy
         /\ Query(ps).filterBy = ps.filterBy /\ Query(ps).seller = ps.seller
         /\ Query(ps).winner = ps.winner
         /\ ps.pageNumber \in Nat \ {0} /\ ps.pageSize \in Nat \ {0}
         /\ ps.orderBy \in DOMAIN Order /\ Order[ps.orderBy] \in Seq(AuctionId)
<1>1. Query(ps) \in Params
  BY ParamsTypes
<1>2. ps.pageSize \in Nat \ {0}
  <2>1. ps.pageSize \in PageSizeButtons \union {DefaultPageSize}
    BY DEF Params
  <2> QED BY <2>1, Zenon, ParamsAssumption
<1>3. ps.orderBy \in DOMAIN Order /\ ps.pageNumber \in Nat \ {0}
  BY DEF Params
<1>4. Order[ps.orderBy] \in Seq(AuctionId)
  BY <1>3, Zenon, ParamsAssumption
<1>5. /\ Query(ps).pageNumber = ps.pageNumber /\ Query(ps).pageSize = ps.pageSize
      /\ Query(ps).searchTerm = ps.searchTerm /\ Query(ps).orderBy = ps.orderBy
      /\ Query(ps).filterBy = ps.filterBy /\ Query(ps).seller = ps.seller
      /\ Query(ps).winner = ps.winner
  BY DEF Query, Params
<1> QED BY <1>1, <1>2, <1>3, <1>4, <1>5

\* How many pages there are now.
LEMMA PagesNow ==
  ASSUME params \in Params
  PROVE  /\ Cardinality(At) \in Nat
         /\ PageCount = (Cardinality(At) + params.pageSize - 1) \div params.pageSize
<1> DEFINE all == Order[params.orderBy]
<1>1. /\ all \in Seq(AuctionId) /\ Query(params).orderBy = params.orderBy
      /\ Query(params).pageSize = params.pageSize
  BY QueryFields
<1>2. DOMAIN all = 1..Len(all) /\ At \in SUBSET (1..Len(all))
  BY <1>1, SeqRange DEF At
<1>3. Len(Pick(all, At)) = Cardinality(At) /\ Cardinality(At) \in Nat
  <2> HIDE DEF all
  <2> QED BY <1>1, <1>2, PickTakes
<1>4. Hits(Query(params)) = Pick(all, At)
  BY <1>1, <1>2, Zenon DEF Hits, At
<1>5. PageCount = (Len(Hits(Query(params))) + Query(params).pageSize - 1) \div Query(params).pageSize
  BY DEF PageCount, SearchItems
<1> QED BY <1>1, <1>3, <1>4, <1>5

\* How many pages there are after a step.
LEMMA PagesThen ==
  ASSUME params' \in Params
  PROVE  /\ Cardinality(At') \in Nat
         /\ PageCount' = (Cardinality(At') + params'.pageSize - 1) \div params'.pageSize
<1> DEFINE all == Order[params'.orderBy]
<1>1. /\ all \in Seq(AuctionId) /\ Query(params').orderBy = params'.orderBy
      /\ Query(params').pageSize = params'.pageSize
  BY QueryFields
<1>2. DOMAIN all = 1..Len(all) /\ At' \in SUBSET (1..Len(all))
  BY <1>1, SeqRange DEF At
<1>3. Len(Pick(all, At')) = Cardinality(At') /\ Cardinality(At') \in Nat
  <2> HIDE DEF all
  <2> QED BY <1>1, <1>2, PickTakes
<1>4. Hits(Query(params))' = Pick(all, At')
  BY <1>1, <1>2, Zenon DEF Hits, At
<1>5. PageCount' = (Len(Hits(Query(params))') + Query(params').pageSize - 1) \div Query(params').pageSize
  BY DEF PageCount, SearchItems
<1> QED BY <1>1, <1>3, <1>4, <1>5

\* The parameters of before, but for the number of the page and the text in the search
\* box.
SameSearch(ps, qs) ==
  /\ qs.pageSize = ps.pageSize /\ qs.searchTerm = ps.searchTerm /\ qs.orderBy = ps.orderBy
  /\ qs.filterBy = ps.filterBy /\ qs.seller = ps.seller /\ qs.winner = ps.winner

\* Unless the clock goes on, or an auction goes, there are as many pages as before.
LEMMA PagesGrow ==
  ASSUME Types, Moves, params' \in Params, SameSearch(params, params'),
         clock' = clock, Catalogue \subseteq Catalogue'
  PROVE  PageCount \in Nat /\ PageCount' \in Nat /\ PageCount <= PageCount'
<1> DEFINE all == Order[params.orderBy]
<1>1. params \in Params /\ ServicesType
  BY DEF Types, ListType
<1>2. all \in Seq(AuctionId) /\ params.pageSize \in Nat \ {0}
  BY <1>1, QueryFields
<1>3. ASSUME NEW a \in AuctionId, Matches(Query(params), a) PROVE Matches(Query(params), a)'
  <2>1. Exists(a) /\ Exists(a)'
    BY <1>3 DEF Matches, Catalogue
  <2>2. rows[a] # None /\ SameParties(rows[a], rows'[a])
    BY <2>1 DEF Exists, Moves, Grows
  <2>3. /\ Query(params').searchTerm = Query(params).searchTerm
        /\ Query(params').filterBy = Query(params).filterBy
        /\ Query(params').seller = Query(params).seller /\ Query(params').winner = Query(params).winner
    BY <1>1, QueryFields DEF SameSearch
  <2>4. Filtered(Query(params).filterBy, a) => Filtered(Query(params).filterBy, a)'
    BY <2>3, Zenon DEF Filtered
  <2> QED BY <1>3, <2>1, <2>2, <2>3, <2>4 DEF Matches, SameParties
<1>4. At \subseteq At' /\ IsFiniteSet(At')
  <2>1. params'.orderBy = params.orderBy
    BY DEF SameSearch
  <2>2. At' \subseteq 1..Len(all) /\ Len(all) \in Nat
    BY <1>2, <2>1 DEF At
  <2>3. IsFiniteSet(1..Len(all))
    BY <2>2, FS_Interval
  <2>4. IsFiniteSet(At')
    BY <2>2, <2>3, FS_Subset
  <2>5. \A i \in 1..Len(all) : all[i] \in AuctionId
    BY <1>2
  <2> QED BY <1>3, <2>1, <2>4, <2>5 DEF At
<1>5. Cardinality(At) <= Cardinality(At') /\ Cardinality(At) \in Nat /\ Cardinality(At') \in Nat
  BY <1>1, <1>4, FS_Subset, PagesNow, PagesThen
<1>6. params'.pageSize = params.pageSize
  BY DEF SameSearch
<1>7. /\ PageCount = (Cardinality(At) + params.pageSize - 1) \div params.pageSize
      /\ PageCount' = (Cardinality(At') + params.pageSize - 1) \div params.pageSize
  BY <1>1, <1>6, PagesNow, PagesThen
<1>8. /\ PageCount \in Nat /\ PageCount' \in Nat
  BY <1>2, <1>5, <1>7, PagesType
<1>9. /\ Cardinality(At) + params.pageSize - 1 \in Nat /\ Cardinality(At') + params.pageSize - 1 \in Nat
      /\ Cardinality(At) + params.pageSize - 1 <= Cardinality(At') + params.pageSize - 1
  BY <1>2, <1>5
<1> QED BY <1>2, <1>7, <1>8, <1>9, DivMono

\* A step that leaves the home page as it is: the list may get another price, and the
\* queue other calls.
Quiet ==
  /\ UNCHANGED <<serviceVars, params, loading, shown, fresh>>
  /\ list' = list \/ (list # NoList /\ list' \in SomeList /\ list'.pageCount = list.pageCount)
  /\ OnHome' => OnHome /\ Follows(calls', calls)

\* The queue stays, loses an answer, or gets a call.
LEMMA QuietCalls ==
  ASSUME Types, UNCHANGED <<serviceVars, listVars>>,
         OnHome' =>
           /\ OnHome
           /\ \/ calls' = calls
              \/ \E i \in 1..Len(calls) : calls[i].kind # "search" /\ calls' = RemoveAt(calls, i)
              \/ \E c \in SomeCall : c.kind # "search" /\ calls' = Append(calls, c)
  PROVE  Quiet
<1>1. calls \in Seq(SomeCall)
  BY QueueTypes
<1>2. Follows(calls, calls)
  BY <1>1, FollowsSame
<1>3. \A i \in 1..Len(calls) : calls[i].kind # "search" => Follows(RemoveAt(calls, i), calls)
  BY <1>1, FollowsTaken DEF Waits
<1>4. \A c \in SomeCall : c.kind # "search" => Follows(Append(calls, c), calls)
  BY <1>1, FollowsMade
<1> QED BY <1>2, <1>3, <1>4 DEF Quiet, listVars

\* A page that is not the home page.
LEMMA QuietElsewhere ==
  ASSUME Types, UNCHANGED <<serviceVars, listVars>>, page'.name # "home"
  PROVE  Quiet
BY QuietCalls DEF OnHome

\* Answers that leave the page, or lead to that of an auction.
LEMMA QuietShown ==
  ASSUME Types, UNCHANGED serviceVars, NEW i \in 1..Len(calls), calls[i].kind # "search",
         \/ Toast(RemoveAt(calls, i))
         \/ \E a \in AuctionId, kept \in SUBSET SomePage : LeaveFor(a, RemoveAt(calls, i), kept)
  PROVE  Quiet
<1>1. CASE Toast(RemoveAt(calls, i))
  <2>1. UNCHANGED <<serviceVars, listVars>> /\ page' = page /\ calls' = RemoveAt(calls, i)
    BY <1>1 DEF Toast
  <2> QED BY <2>1, QuietCalls DEF OnHome
<1>2. ASSUME NEW a \in AuctionId, NEW kept \in SUBSET SomePage, LeaveFor(a, RemoveAt(calls, i), kept)
      PROVE  Quiet
  <2>1. page'.name = "details" /\ UNCHANGED <<serviceVars, listVars>>
    BY <1>2, VisitsDetails DEF LeaveFor
  <2> QED BY <2>1, QuietElsewhere
<1> QED BY <1>1, <1>2

\* The forms are on other pages.
LEMMA QuietForms ==
  ASSUME Types, OnForms
  PROVE  Quiet
<1>1. page' = page /\ UNCHANGED <<serviceVars, listVars>>
  BY DEF OnForms, TypeField, SubmitCreate, SubmitUpdate, SubmitDelete, Submit, SubmitBid, tabVars
<1>2. OnUpdate \/ OnDetails \/ page = CreatePage
  BY Zenon DEF OnForms, TypeField, SubmitCreate, SubmitUpdate, SubmitDelete, SubmitBid, SellerButtons,
               BidFormShown
<1>3. page.name # "home"
  BY <1>2 DEF OnUpdate, OnDetails, CreatePage, Page
<1> QED BY <1>1, <1>3, QuietElsewhere

\* The bids, the toasts and the countdown.
LEMMA QuietBids ==
  ASSUME Types, NEW i \in 1..Len(calls),
         ReceiveBids(i) \/ ReceivePlaced(i) \/ ReceiveDetails(i), UNCHANGED <<serviceVars, listVars>>
  PROVE  Quiet
<1>1. page' = page /\ calls' = RemoveAt(calls, i) /\ calls[i].kind # "search"
  BY DEF ReceiveBids, ReceivePlaced, ReceiveDetails, Answered
<1> QED BY <1>1, QuietCalls DEF OnHome

\* A notification.
LEMMA QuietNotify ==
  ASSUME Types, Notify
  PROVE  Quiet
<1>1. calls \in Seq(SomeCall)
  BY QueueTypes
<1>2. ASSUME NEW b \in Stored, BidPlaced(b) PROVE Quiet
  <2>1. /\ b \in Bid /\ UNCHANGED <<serviceVars, tabVars, params, loading, shown, fresh>>
        /\ \/ list' = list
           \/ list # NoList /\ list' = [list EXCEPT !.results = SetCurrentPrice(@, b)]
    BY <1>2, PlacedFacts
  <2>2. OnHome' => OnHome /\ Follows(calls', calls)
    <3>1. page' = page /\ calls' = calls
      BY <2>1 DEF tabVars
    <3> QED BY <1>1, <3>1, FollowsSame DEF OnHome
  <2>3. list # NoList => list \in SomeList
    BY DEF Types, ListType
  <2>4. list # NoList => [list EXCEPT !.results = SetCurrentPrice(@, b)] \in SomeList
    BY <2>1, <2>3, SetPriceType
  <2>5. list # NoList => [list EXCEPT !.results = SetCurrentPrice(@, b)].pageCount = list.pageCount
    BY <2>3 DEF SomeList
  <2> QED BY <2>1, <2>2, <2>4, <2>5 DEF Quiet
<1>3. ASSUME NEW a \in AuctionId, AuctionCreated(a) \/ AuctionFinished(a) PROVE Quiet
  <2>1. page' = page /\ UNCHANGED <<serviceVars, listVars>>
    BY <1>3 DEF AuctionCreated, AuctionFinished, Announce
  <2>2. "details" \in Kinds /\ a \in ArgsOf("details")
    BY DEF Kinds, ArgsOf
  <2>3. Call("details", a) \in SomeCall /\ Call("details", a).kind = "details"
    BY <2>2, NewCall
  <2>4. calls' = calls \/ calls' = Append(calls, Call("details", a))
    BY <1>3 DEF AuctionCreated, AuctionFinished, Send
  <2>5. calls' = calls \/ \E c \in SomeCall : c.kind # "search" /\ calls' = Append(calls, c)
    BY <2>3, <2>4
  <2> QED BY <2>1, <2>5, QuietCalls DEF OnHome
<1>4. CASE Connect \/ Disconnect
  <2>1. page' = page /\ calls' = calls /\ UNCHANGED <<serviceVars, listVars>>
    BY <1>4 DEF Connect, Disconnect, tabVars
  <2> QED BY <2>1, QuietCalls DEF OnHome
<1> QED BY <1>2, <1>3, <1>4 DEF Notify

\* The ways to other pages, but for a full load.
LEMMA QuietNavigate ==
  ASSUME Types, Navigate
  PROVE  Quiet \/ \E p, u : Load(p, u)
<1>1. cached \in SUBSET SomePage
  BY DEF Types, TabType
<1>2. ASSUME Visit PROVE UNCHANGED <<serviceVars, listVars>>
  BY <1>2 DEF Visit
<1>3. ASSUME NEW a \in AuctionId \union {None}, OpenAuction(a) \/ OpenToast(a) PROVE Quiet
  <2>1. Visit /\ VisitDetails(calls, a, cached)
    BY <1>3 DEF OpenAuction, OpenToast
  <2>2. page'.name = "details"
    BY <1>1, <2>1, VisitsDetails
  <2> QED BY <1>2, <2>1, <2>2, QuietElsewhere
<1>4. CASE OpenUpdate
  <2>1. Visit /\ \E a, p : page' = p /\ p \in Renderings(UpdatePage(a), cached)
    BY <1>4 DEF OpenUpdate, VisitUpdate, Show
  <2>2. page'.name = "update"
    BY <2>1 DEF Renderings, Same, UpdatePage, Page
  <2> QED BY <1>2, <2>1, <2>2, QuietElsewhere
<1>5. CASE OpenCreate
  <2>1. Visit /\ page'.name = "create"
    BY <1>5 DEF OpenCreate, Show, CreatePage, Page
  <2> QED BY <1>2, <2>1, QuietElsewhere
<1>6. toasts \subseteq AuctionId \union {None}
  BY DEF Types, LiveType
<1>7. CASE \/ \E a \in AuctionId : OpenAuction(a)
           \/ \E a \in toasts : OpenToast(a)
  BY <1>3, <1>6, <1>7
<1>8. CASE Reload \/ SignOut \/ \E u \in User : SignIn(u)
  BY <1>8 DEF Reload, SignIn, SignOut
<1> QED BY <1>4, <1>5, <1>7, <1>8 DEF Navigate

\* Answers: those of a search, and those that lead to the home page.
LEMMA QuietReceive ==
  ASSUME Types, QueueInv, Receive
  PROVE  \/ Quiet
         \/ \E i \in 1..Len(calls) : ReceiveSearch(i)
         \/ \E i \in 1..Len(calls) :
              /\ Answered(i, "delete") /\ UNCHANGED serviceVars
              /\ IF OnHome THEN GoHomeAgain(RemoveAt(calls, i)) ELSE GoHome(RemoveAt(calls, i), params)
<1>1. PICK i \in 1..Len(calls) :
        \/ ReceiveSearch(i)
        \/ ReceiveBids(i) /\ UNCHANGED listVars
        \/ ReceivePlaced(i) /\ UNCHANGED listVars
        \/ ReceiveDetails(i)
        \/ ReceiveCreated(i) \/ ReceiveDeleted(i) \/ ReceiveUpdated(i)
  BY QueueTypes DEF Receive
<1> DEFINE rest == RemoveAt(calls, i)
<1>2. CASE \/ ReceiveBids(i) /\ UNCHANGED listVars
           \/ ReceivePlaced(i) /\ UNCHANGED listVars
           \/ ReceiveDetails(i)
  <2>1. UNCHANGED <<serviceVars, listVars>>
    BY <1>2 DEF ReceiveBids, ReceivePlaced, ReceiveDetails
  <2> QED BY <1>2, <2>1, QuietBids
<1>3. cached \in SUBSET SomePage
  BY DEF Types, TabType
<1>4. CASE ReceiveCreated(i)
  <2>1. /\ Answered(i, "create") /\ UNCHANGED serviceVars
        /\ Toast(rest) \/ (~ Failed(calls[i].answer) /\ LeaveFor(calls[i].answer, rest, cached))
    BY <1>4 DEF ReceiveCreated
  <2>2. ~ Failed(calls[i].answer) => calls[i].answer \in AuctionId
    BY <2>1, AnsweredFacts DEF DataOf
  <2>3. calls[i].kind # "search"
    BY <2>1 DEF Answered
  <2> QED BY <1>3, <2>1, <2>2, <2>3, QuietShown
<1>5. CASE ReceiveDeleted(i)
  <2>1. /\ Answered(i, "delete") /\ UNCHANGED serviceVars
        /\ \/ Toast(rest)
           \/ IF OnHome THEN GoHomeAgain(rest) ELSE GoHome(rest, params)
    BY <1>5, Zenon DEF ReceiveDeleted
  <2>2. calls[i].kind # "search"
    BY <2>1 DEF Answered
  <2>3. CASE Toast(rest)
    BY <2>1, <2>2, <2>3, QuietShown
  <2> QED BY <2>1, <2>3
<1>6. CASE ReceiveUpdated(i)
  <2> DEFINE c == calls[i]
             anew == c.left = "no" /\ c.answer # Rejected
  <2>1. /\ Answered(i, "update") /\ UNCHANGED serviceVars
        /\ c.args.auctionId \in AuctionId /\ Kept(anew) \in SUBSET SomePage
        /\ \/ LeaveFor(c.args.auctionId, rest, Kept(anew))
           \/ Toast(rest)
           \/ page' = UpdatePage(page.auctionId) /\ UNCHANGED listVars
    BY <1>6, UpdatedFacts
  <2>2. c.kind # "search"
    BY <2>1 DEF Answered
  <2>3. CASE page' = UpdatePage(page.auctionId) /\ UNCHANGED listVars
    <3>1. page'.name = "update"
      BY <2>3 DEF UpdatePage, Page
    <3> QED BY <2>1, <2>3, <3>1, QuietElsewhere
  <2>4. CASE LeaveFor(c.args.auctionId, rest, Kept(anew)) \/ Toast(rest)
    <3> HIDE DEF anew
    <3> QED BY <2>1, <2>2, <2>4, QuietShown
  <2> QED BY <2>1, <2>3, <2>4
<1> QED BY <1>1, <1>2, <1>4, <1>5, <1>6

\* What a step does to the home page.
LEMMA HomeMoves ==
  ASSUME Types, QueueInv, [Next]_vars
  PROVE  \/ Quiet \/ World \/ Respond \/ OnList
         \/ \E i \in 1..Len(calls) : ReceiveSearch(i)
         \/ \E i \in 1..Len(calls) :
              /\ Answered(i, "delete") /\ UNCHANGED serviceVars
              /\ IF OnHome THEN GoHomeAgain(RemoveAt(calls, i)) ELSE GoHome(RemoveAt(calls, i), params)
         \/ \E p, u : Load(p, u)
<1>1. CASE CloseForm \/ UNCHANGED vars
  <2>1. page' = page /\ calls' = calls /\ UNCHANGED <<serviceVars, listVars>>
    BY <1>1 DEF CloseForm, CountdownCompletes, vars, clientVars, tabVars
  <2> QED BY <2>1, QuietCalls DEF OnHome
<1>2. CASE OnForms
  BY <1>2, QuietForms
<1>3. CASE Notify
  BY <1>3, QuietNotify
<1>4. CASE Navigate
  BY <1>4, QuietNavigate
<1>5. CASE Receive
  <2> HIDE DEF Quiet
  <2> QED BY <1>5, QuietReceive
<1> QED BY <1>1, <1>2, <1>3, <1>4, <1>5 DEF Next

\* What the invariant says of the home page.
HomeInv == SearchesInv /\ ShownInv /\ PagesInv

\* The answer to a search that has succeeded is a list.
LEMMA SearchAnswers ==
  ASSUME NEW cs \in Seq(SomeCall), NEW i \in 1..Len(cs), cs[i].kind = "search",
         cs[i].answer \notin {None, Error, Rejected}
  PROVE  cs[i].answer \in SomeList /\ cs[i].answer.pageCount \in Nat
<1>1. cs[i] \in SomeCall
  OBVIOUS
<1>2. cs[i].answer \in SomeList
  BY <1>1, CallFields DEF DataOf
<1> QED BY <1>2 DEF SomeList

\* The parameters, and the number of pages, of a step.
LEMMA HomeTypes ==
  ASSUME Types
  PROVE  /\ params \in Params /\ params.pageNumber \in Nat \ {0} /\ PageCount \in Nat
         /\ calls \in Seq(SomeCall) /\ Len(calls) \in Nat /\ DOMAIN calls = 1..Len(calls)
         /\ list # NoList => list \in SomeList /\ list.pageCount \in Nat
         /\ \A i \in 1..Len(calls) : calls[i].kind = "search" /\ Succeeded(i) =>
              calls[i].answer \in SomeList /\ calls[i].answer.pageCount \in Nat
<1>1. params \in Params /\ (list # NoList => list \in SomeList)
  BY DEF Types, ListType
<1>2. params.pageNumber \in Nat \ {0} /\ params.pageSize \in Nat \ {0}
  BY <1>1, QueryFields
<1>3. PageCount \in Nat
  BY <1>1, <1>2, PagesNow, PagesType
<1>4. calls \in Seq(SomeCall) /\ Len(calls) \in Nat /\ DOMAIN calls = 1..Len(calls)
  BY QueueTypes
<1>5. \A l \in SomeList : l.pageCount \in Nat
  BY DEF SomeList
<1> QED BY <1>1, <1>2, <1>3, <1>4, <1>5, SearchAnswers DEF Succeeded

\* The home page stays as it is, and shows as many pages as before or more.
LEMMA HomeKept ==
  ASSUME Types, HomeInv, Types', QueueInv',
         UNCHANGED <<loading, shown>>, Query(params') = Query(params),
         list' = list \/ (list # NoList /\ list' \in SomeList /\ list'.pageCount = list.pageCount),
         OnHome' => OnHome /\ Follows(calls', calls),
         fresh' => fresh /\ PageCount' \in Nat /\ PageCount <= PageCount'
  PROVE  HomeInv'
<1>1. /\ params \in Params /\ params.pageNumber \in Nat \ {0} /\ PageCount \in Nat
      /\ calls \in Seq(SomeCall) /\ params' \in Params
  BY HomeTypes DEF Types, ListType
<1>2. params'.pageNumber = params.pageNumber
  BY <1>1, QueryFields
<1>3. SearchesInv /\ ShownInv /\ PagesInv
  BY DEF HomeInv
<1>4. ASSUME NEW i \in 1..Len(calls'), LastWaits(calls', i)
      PROVE  \E k \in 1..Len(calls) : /\ LastWaits(calls, k) /\ calls'[i].args = calls[k].args
                                      /\ calls'[i].answer = calls[k].answer \/ Failed(calls'[i].answer)
  <2>1. OnHome'
    BY <1>4 DEF QueueInv, LastWaits, Waits, Attached
  <2> QED BY <1>4, <2>1 DEF Follows
<1>5. ListShown' => ListShown /\ (NoneWaits(calls') => NoneWaits(calls))
  BY DEF ListShown, Follows
<1>6. SearchesInv'
  <2>1. \A i \in 1..Len(calls') : LastWaits(calls', i) => calls'[i].args = Query(params')
    BY <1>3, <1>4 DEF SearchesInv
  <2>2. ListShown' /\ NoneWaits(calls') /\ shown'.by = "page" => shown'.query = Query(params')
    BY <1>3, <1>5 DEF SearchesInv
  <2> QED BY <2>1, <2>2 DEF SearchesInv
<1>7. NoList \notin SomeList
  BY NoneAssumption DEF NoList, SomeList
<1>8. ShownInv'
  <2>1. ListShown' => list # NoList
    BY <1>3, <1>5 DEF ShownInv
  <2>2. list # NoList => list' # NoList
    BY <1>7
  <2>3. ListShown' => list' # NoList
    BY <2>1, <2>2
  <2>4. NoList' = NoList
    BY DEF NoList
  <2> QED BY <2>3, <2>4 DEF ShownInv
<1>9. ASSUME fresh' PROVE /\ Within(params'.pageNumber, PageCount')
                          /\ \A i \in 1..Len(calls') : LastWaits(calls', i) /\ Succeeded(i)' =>
                               /\ calls'[i].answer.pageCount <= PageCount'
                               /\ Within(params'.pageNumber, calls'[i].answer.pageCount)
                          /\ ListShown' /\ NoneWaits(calls') /\ shown' = [query |-> Query(params'), by |-> "page"] =>
                               list'.pageCount <= PageCount' /\ Within(params'.pageNumber, list'.pageCount)
  <2>1. fresh /\ PageCount' \in Nat /\ PageCount <= PageCount'
    BY <1>9
  <2>2. Within(params'.pageNumber, PageCount')
    BY <1>1, <1>2, <1>3, <2>1 DEF PagesInv, Within
  <2>3. ASSUME NEW i \in 1..Len(calls'), LastWaits(calls', i), Succeeded(i)'
        PROVE  /\ calls'[i].answer.pageCount <= PageCount'
               /\ Within(params'.pageNumber, calls'[i].answer.pageCount)
    <3>1. PICK k \in 1..Len(calls) :
            /\ LastWaits(calls, k)
            /\ calls'[i].answer = calls[k].answer \/ Failed(calls'[i].answer)
      BY <1>4, <2>3
    <3>2. calls'[i].answer = calls[k].answer /\ Succeeded(k)
      BY <2>3, <3>1 DEF Succeeded, Failed
    <3>3. calls[k].kind = "search"
      BY <3>1 DEF LastWaits, Waits
    <3>4. calls[k].answer.pageCount \in Nat
      BY <3>2, <3>3, HomeTypes
    <3>5. calls[k].answer.pageCount <= PageCount /\ Within(params.pageNumber, calls[k].answer.pageCount)
      BY <1>3, <2>1, <3>1, <3>2 DEF PagesInv
    <3> QED BY <1>1, <1>2, <2>1, <3>2, <3>4, <3>5
  <2>4. ASSUME ListShown', NoneWaits(calls'), shown' = [query |-> Query(params'), by |-> "page"]
        PROVE  list'.pageCount <= PageCount' /\ Within(params'.pageNumber, list'.pageCount)
    <3>1. ListShown /\ NoneWaits(calls) /\ shown = [query |-> Query(params), by |-> "page"]
      BY <1>5, <2>4
    <3>2. list.pageCount <= PageCount /\ Within(params.pageNumber, list.pageCount)
      BY <1>3, <2>1, <3>1 DEF PagesInv
    <3>3. list.pageCount \in Nat /\ list'.pageCount = list.pageCount
      BY <1>3, <3>1, HomeTypes DEF ShownInv
    <3> QED BY <1>1, <1>2, <2>1, <3>2, <3>3
  <2> QED BY <2>2, <2>3, <2>4
<1>10. PagesInv'
  BY <1>9 DEF PagesInv
<1> QED BY <1>6, <1>8, <1>10 DEF HomeInv

\* The services do nothing.
LEMMA PagesStay ==
  ASSUME Types, params' \in Params, SameSearch(params, params'), UNCHANGED serviceVars
  PROVE  PageCount \in Nat /\ PageCount' \in Nat /\ PageCount <= PageCount'
<1>1. Moves /\ clock' = clock
  BY MovesNot DEF Types, serviceVars
<1>2. Catalogue \subseteq Catalogue'
  BY DEF serviceVars, Catalogue, Exists
<1> QED BY <1>1, <1>2, PagesGrow

\* A quiet step.
LEMMA HomeQuiet ==
  ASSUME Types, HomeInv, Types', QueueInv', Quiet
  PROVE  HomeInv'
<1>1. params' = params /\ params' \in Params /\ UNCHANGED serviceVars
  BY DEF Quiet, Types, ListType
<1>2. SameSearch(params, params')
  BY <1>1 DEF SameSearch
<1>3. PageCount' \in Nat /\ PageCount <= PageCount'
  BY <1>1, <1>2, PagesStay
<1> QED BY <1>1, <1>3, HomeKept DEF Quiet

\* The services and the session.
LEMMA HomeWorld ==
  ASSUME Types, HomeInv, Types', QueueInv', Moves, World
  PROVE  HomeInv'
<1>1. params' = params /\ params' \in Params /\ UNCHANGED <<list, loading, shown>> /\ WatchList
  BY DEF World, Types, ListType
<1>2. SameSearch(params, params')
  BY <1>1 DEF SameSearch
<1>3. fresh' => fresh /\ PageCount' \in Nat /\ PageCount <= PageCount'
  BY <1>1, <1>2, PagesGrow DEF WatchList
<1>4. calls \in Seq(SomeCall)
  BY QueueTypes
<1>5. page' = page /\ Follows(calls', calls)
  <2>1. CASE UNCHANGED <<page, calls>>
    BY <1>4, <2>1, FollowsSame
  <2>2. ASSUME NEW i, NEW answer \in {Error, Rejected}, Fail(i, answer)
        PROVE  page' = page /\ Follows(calls', calls)
    <3>1. PICK d \in SomeCall :
            /\ i \in 1..Len(calls) /\ page' = page
            /\ d.kind = calls[i].kind /\ d.args = calls[i].args /\ d.left = calls[i].left
            /\ d.answer = answer
            /\ Len(calls') = Len(calls)
            /\ \A j \in 1..Len(calls) : calls'[j] = IF j = i THEN d ELSE calls[j]
      BY <2>2, FailedCall
    <3>2. \A j \in 1..Len(calls) :
            /\ calls'[j].kind = calls[j].kind /\ calls'[j].left = calls[j].left
            /\ calls'[j].args = calls[j].args
            /\ calls'[j].answer = calls[j].answer \/ Failed(calls'[j].answer)
      BY <3>1 DEF Failed
    <3> QED BY <1>4, <3>1, <3>2, FollowsSame
  <2>3. UNCHANGED <<page, calls>> \/ \E i \in DOMAIN calls, answer \in {Error, Rejected} : Fail(i, answer)
    BY DEF World, tabVars, TokenExpires, SignInElsewhere
  <2> QED BY <2>1, <2>2, <2>3
<1> QED BY <1>1, <1>3, <1>5, HomeKept DEF OnHome

\* The answer to the last search has as many pages as there are.
LEMMA HomeRespond ==
  ASSUME Types, QueueInv, HomeInv, Types', QueueInv', Moves, Respond
  PROVE  HomeInv'
<1>1. PICK i \in 1..Len(calls), d \in SomeCall :
           /\ WatchList /\ UNCHANGED <<page, params, list, loading, shown>>
           /\ calls[i] \in SomeCall /\ calls[i].answer = None
           /\ d.kind = calls[i].kind /\ d.args = calls[i].args /\ d.left = calls[i].left
           /\ Len(calls') = Len(calls)
           /\ \A j \in 1..Len(calls) : calls'[j] = IF j = i THEN d ELSE calls[j]
           /\ \E o \in Outcomes(calls[i]) : d.answer = HandleResponse(o.response)
  BY Responses
<1>2. SearchesInv /\ ShownInv /\ PagesInv /\ ServicesType /\ params \in Params
  BY DEF HomeInv, Types, ListType
<1>3. SameSearch(params, params') /\ params' \in Params
  BY <1>1, <1>2 DEF SameSearch
<1>4. fresh' => fresh /\ PageCount' \in Nat /\ PageCount <= PageCount'
  BY <1>1, <1>3, PagesGrow DEF WatchList
<1>5. \A j \in 1..Len(calls) : /\ Waits(calls'[j]) <=> Waits(calls[j])
                               /\ calls'[j].args = calls[j].args
  BY <1>1 DEF Waits
<1>6. /\ \A j \in 1..Len(calls) : LastWaits(calls', j) => LastWaits(calls, j)
      /\ NoneWaits(calls') => NoneWaits(calls)
  BY <1>1, <1>5 DEF LastWaits, NoneWaits
<1>7. ListShown' <=> ListShown
  BY <1>1 DEF ListShown, OnHome
<1>8. SearchesInv'
  BY <1>1, <1>2, <1>5, <1>6, <1>7 DEF SearchesInv
<1>9. ShownInv'
  BY <1>1, <1>2, <1>7 DEF ShownInv, NoList
<1>10. /\ params.pageNumber \in Nat \ {0} /\ PageCount \in Nat
  BY HomeTypes
<1>11. ASSUME fresh', NEW j \in 1..Len(calls'), LastWaits(calls', j), Succeeded(j)'
       PROVE  /\ calls'[j].answer.pageCount <= PageCount'
              /\ Within(params'.pageNumber, calls'[j].answer.pageCount)
  <2>1. LastWaits(calls, j) /\ calls[j].kind = "search" /\ calls[j].args = Query(params) /\ j \in 1..Len(calls)
    BY <1>1, <1>2, <1>6, <1>11 DEF SearchesInv, LastWaits, Waits
  <2>2. CASE j = i
    <3>1. PICK o \in Outcomes(calls[i]) : d.answer = HandleResponse(o.response)
      BY <1>1
    <3> DEFINE c == calls[i]
    <3>2. c \in SomeCall /\ o \in Outcomes(c) /\ c.kind = "search" /\ c.args = Query(params)
      BY <1>1, <2>1, <2>2
    <3> HIDE DEF c
    <3>3. HandleResponse(o.response) = SearchItems(Query(params), Hits(Query(params)))
      BY <1>2, <3>2, ReadOutcome
    <3>4. calls'[j].answer.pageCount = PageCount
      BY <1>1, <2>1, <2>2, <3>1, <3>3 DEF PageCount
    <3>5. Within(params.pageNumber, PageCount)
      BY <1>2, <1>4, <1>11 DEF PagesInv
    <3> QED BY <1>1, <1>4, <1>10, <1>11, <3>4, <3>5
  <2>3. CASE j # i
    <3>1. calls'[j] = calls[j] /\ Succeeded(j)
      BY <1>1, <1>11, <2>1, <2>3 DEF Succeeded
    <3>2. calls[j].answer.pageCount <= PageCount /\ Within(params.pageNumber, calls[j].answer.pageCount)
      BY <1>2, <1>4, <1>11, <2>1, <3>1 DEF PagesInv
    <3>3. calls[j].answer.pageCount \in Nat
      BY <2>1, <3>1, HomeTypes
    <3> QED BY <1>1, <1>4, <1>10, <1>11, <3>1, <3>2, <3>3
  <2> QED BY <2>2, <2>3
<1>12. fresh' => Within(params'.pageNumber, PageCount')
  BY <1>1, <1>2, <1>4, <1>10 DEF PagesInv, Within
<1>13. ASSUME fresh', ListShown', NoneWaits(calls'), shown' = [query |-> Query(params'), by |-> "page"]
       PROVE  list'.pageCount <= PageCount' /\ Within(params'.pageNumber, list'.pageCount)
  <2>1. list.pageCount <= PageCount /\ Within(params.pageNumber, list.pageCount)
    BY <1>1, <1>2, <1>4, <1>6, <1>7, <1>13 DEF PagesInv
  <2>2. list.pageCount \in Nat
    BY <1>2, <1>7, <1>13, HomeTypes DEF ShownInv
  <2> QED BY <1>1, <1>4, <1>10, <1>13, <2>1, <2>2
<1>14. PagesInv'
  BY <1>11, <1>12, <1>13 DEF PagesInv
<1> QED BY <1>8, <1>9, <1>14 DEF HomeInv

\* A search is made: it is the last one, and is not answered.
LEMMA HomeAsked ==
  ASSUME params' \in Params, NEW cs \in Seq(SomeCall), calls' = Append(cs, SearchCall(params')),
         ListShown' => list' # NoList,
         fresh' => Within(params'.pageNumber, PageCount')
  PROVE  HomeInv'
<1> DEFINE c == SearchCall(params')
<1>1. /\ c \in SomeCall /\ c.kind = "search" /\ c.left = "no" /\ c.answer = None
      /\ c.args = Query(params')
  BY SearchCallType
<1> HIDE DEF c
<1>2. /\ \A i \in 1..Len(calls') : LastWaits(calls', i) => calls'[i] = c
      /\ ~ NoneWaits(calls')
  <2>1. Waits(c) /\ calls' = Append(cs, c)
    BY <1>1 DEF Waits, c
  <2> QED BY <1>1, <2>1, SearchMade
<1>3. SearchesInv'
  BY <1>1, <1>2 DEF SearchesInv
<1>4. ShownInv'
  BY DEF ShownInv, NoList
<1>5. PagesInv'
  BY <1>1, <1>2 DEF PagesInv, Succeeded
<1> QED BY <1>3, <1>4, <1>5 DEF HomeInv

\* No search is waited for, and no list is that of the parameters.
LEMMA HomeSilent ==
  ASSUME \A i \in 1..Len(calls') : ~ Waits(calls'[i]),
         ListShown' => list' # NoList /\ shown'.by # "page",
         fresh' => Within(params'.pageNumber, PageCount')
  PROVE  HomeInv'
<1>1. \A i : ~ LastWaits(calls', i)
  BY DEF LastWaits
<1>2. SearchesInv'
  BY <1>1 DEF SearchesInv
<1>3. ShownInv'
  BY DEF ShownInv, NoList
<1>4. ASSUME shown' = [query |-> Query(params'), by |-> "page"] PROVE shown'.by = "page"
  BY <1>4
<1>5. PagesInv'
  BY <1>1, <1>4 DEF PagesInv
<1> QED BY <1>2, <1>3, <1>5 DEF HomeInv

\* The home page is mounted, with the parameters it had or with page 1 of others.
LEMMA HomeMounted ==
  ASSUME Types, HomeInv, UNCHANGED serviceVars, NEW cs \in Seq(SomeCall), NEW ps \in Params,
         GoHome(cs, ps), ps.pageNumber = 1 \/ ps = params
  PROVE  HomeInv'
<1>1. /\ calls' = Left(cs) \o <<SearchCall(ps)>> /\ params' = ps /\ loading' = TRUE
      /\ fresh' = Fresh(ps)
  BY DEF GoHome, Show
<1>2. SearchCall(ps) \in SomeCall
  BY SearchCallType
<1>3. Left(cs) \in Seq(SomeCall)
  BY LeftFacts
<1>4. calls' = Append(Left(cs), SearchCall(params'))
  <2> DEFINE ds == Left(cs)
             c == SearchCall(ps)
  <2>1. ds \in Seq(SomeCall) /\ c \in SomeCall /\ calls' = ds \o <<c>>
    BY <1>1, <1>2, <1>3
  <2> HIDE DEF ds, c
  <2>2. calls' = Append(ds, c)
    BY <2>1, AppendFacts
  <2> QED BY <1>1, <2>2 DEF ds, c
<1>5. ~ ListShown'
  BY <1>1 DEF ListShown
<1>6. fresh' => Within(params'.pageNumber, PageCount')
  <2>1. CASE ps.pageNumber = 1
    BY <1>1, <2>1 DEF Within
  <2>2. CASE ps.pageNumber # 1 /\ ps = params
    <3>1. fresh' => fresh
      BY <1>1, <2>2 DEF Fresh
    <3>2. SameSearch(params, params') /\ params' \in Params
      BY <1>1, <2>2 DEF SameSearch
    <3>3. PageCount \in Nat /\ PageCount' \in Nat /\ PageCount <= PageCount'
      BY <3>2, PagesStay
    <3>4. fresh => Within(params.pageNumber, PageCount)
      BY DEF HomeInv, PagesInv
    <3>5. params.pageNumber \in Nat
      BY HomeTypes
    <3> QED BY <1>1, <2>2, <3>1, <3>3, <3>4, <3>5 DEF Within
  <2> QED BY <2>1, <2>2
<1> QED BY <1>1, <1>3, <1>4, <1>5, <1>6, HomeAsked

\* A navigation to the home page, from there.
LEMMA HomeAgain ==
  ASSUME Types, HomeInv, UNCHANGED serviceVars, NEW cs \in Seq(SomeCall), GoHomeAgain(cs)
  PROVE  HomeInv'
<1>1. /\ calls' = Detached(cs) /\ shown' = [shown EXCEPT !.by = "nobody"]
      /\ UNCHANGED <<page, params, list, loading, fresh>>
  BY DEF GoHomeAgain
<1>2. \A i \in 1..Len(calls') : ~ Waits(calls'[i])
  <2> DEFINE ds == Detached(cs)
  <2>1. ds \in Seq(SomeCall) /\ \A i \in 1..Len(ds) : ds[i].left # "no"
    <3> HIDE DEF ds
    <3> QED BY LeftFacts DEF ds
  <2> QED BY <1>1, <2>1 DEF Waits
<1>3. shown'.by = "nobody"
  BY <1>1 DEF Types, ListType
<1>4. ListShown' => list' # NoList
  BY <1>1 DEF HomeInv, ShownInv, ListShown, OnHome
<1>5. fresh' => Within(params'.pageNumber, PageCount')
  <2>1. SameSearch(params, params') /\ params' \in Params
    BY <1>1 DEF SameSearch, Types, ListType
  <2>2. PageCount \in Nat /\ PageCount' \in Nat /\ PageCount <= PageCount'
    BY <2>1, PagesStay
  <2>3. fresh => Within(params.pageNumber, PageCount)
    BY DEF HomeInv, PagesInv
  <2>4. params.pageNumber \in Nat
    BY HomeTypes
  <2> QED BY <1>1, <2>2, <2>3, <2>4 DEF Within
<1> QED BY <1>2, <1>3, <1>4, <1>5, HomeSilent

\* A full load.
LEMMA HomeLoaded ==
  ASSUME Types', QueueInv', NEW p, NEW u, Load(p, u)
  PROVE  HomeInv'
<1>1. /\ calls' = MountCalls(p) /\ page' = p /\ params' = InitialParams /\ loading' = TRUE
  BY DEF Load
<1>2. params' \in Params /\ params'.pageNumber = 1
  BY <1>1 DEF Types, ListType, InitialParams
<1>3. ~ ListShown' /\ Within(params'.pageNumber, PageCount')
  BY <1>1, <1>2 DEF ListShown, Within
<1>4. CASE p.name = "home"
  <2>1. calls' = <<SearchCall(params')>>
    BY <1>1, <1>4 DEF MountCalls
  <2>2. <<>> \in Seq(SomeCall)
    BY EmptySeq
  <2>3. calls' = Append(<<>>, SearchCall(params'))
    BY <2>1
  <2> QED BY <1>2, <1>3, <2>2, <2>3, HomeAsked
<1>5. CASE p.name # "home"
  <2>1. \A i \in 1..Len(calls') : ~ Waits(calls'[i])
    BY <1>1, <1>5 DEF QueueInv, Attached, Waits, OnHome
  <2> QED BY <1>3, <2>1, HomeSilent
<1> QED BY <1>4, <1>5

\* The page number that a button sets: the first, or one of the list that is shown.
LEMMA OnListPages ==
  ASSUME Types, ShownInv, OnList
  PROVE  \/ params'.pageNumber = 1
         \/ Query(params') = Query(params) /\ UNCHANGED <<page, calls, list, loading, shown, fresh>>
         \/ /\ ListShown /\ SameSearch(params, params')
            /\ params'.pageNumber \in Nat \ {0}
            /\ params'.pageNumber <= params.pageNumber \/ params'.pageNumber <= list.pageCount
<1>1. params \in Params /\ viewer \in User \union {None}
  BY DEF Types, ListType, TabType
<1> DEFINE Goal == \/ params'.pageNumber = 1
                   \/ Query(params') = Query(params) /\ UNCHANGED <<page, calls, list, loading, shown, fresh>>
                   \/ /\ ListShown /\ SameSearch(params, params')
                      /\ params'.pageNumber \in Nat \ {0}
                      /\ params'.pageNumber <= params.pageNumber \/ params'.pageNumber <= list.pageCount
<1>2. InitialParams.pageNumber = 1
  BY DEF InitialParams
<1>3. /\ \A f : SetParams(params, [filterBy |-> f]).pageNumber = 1
      /\ \A o : SetParams(params, [orderBy |-> o]).pageNumber = 1
      /\ \A s : SetParams(params, [pageSize |-> s]).pageNumber = 1
      /\ SetParams(params, [searchTerm |-> params.searchValue]).pageNumber = 1
      /\ \A u, w : SetParams(params, [winner |-> w, seller |-> u]).pageNumber = 1
  BY <1>1 DEF SetParams, Params
<1>4. \A ps : SetOnHome(ps) \/ SetAndGoHome(ps) => params' = ps
  BY DEF SetOnHome, SetAndGoHome, GoHome
<1>5. CASE Filters \/ EmptyFilter \/ Search \/ Logo \/ SetWinner \/ SetSeller
  <2>1. \E ps : (SetOnHome(ps) \/ SetAndGoHome(ps)) /\ ps.pageNumber = 1
    <3> HIDE DEF SetParams
    <3>1. CASE Filters
      <4>1. PICK f, o, s :
              \/ SetOnHome(SetParams(params, [filterBy |-> f]))
              \/ SetOnHome(SetParams(params, [orderBy |-> o]))
              \/ SetOnHome(SetParams(params, [pageSize |-> s]))
        BY <3>1, Zenon DEF Filters
      <4> HIDE DEF SetOnHome
      <4> QED BY <1>3, <4>1
    <3>2. CASE EmptyFilter \/ Logo
      BY <1>2, <3>2 DEF EmptyFilter, Logo
    <3>3. CASE Search
      BY <1>3, <3>3 DEF Search
    <3>4. CASE SetWinner \/ SetSeller
      BY <1>3, <3>4 DEF SetWinner, SetSeller
    <3> QED BY <1>5, <3>1, <3>2, <3>3, <3>4
  <2> QED BY <1>4, <2>1
<1>6. ASSUME NEW text \in SearchText, TypeSearch(text) PROVE Goal
  <2>1. params' = [params EXCEPT !.searchValue = text] /\ UNCHANGED <<page, calls, list, loading, shown, fresh>>
    BY <1>6 DEF TypeSearch
  <2>2. Query([params EXCEPT !.searchValue = text]) = Query(params)
    BY <1>1 DEF Query, Params
  <2> QED BY <2>1, <2>2
<1>7. ASSUME NEW n \in 1..Cardinality(AuctionId), AppPagination(n) PROVE Goal
  <2>1. ListShown /\ n \in PageButtons /\ params' = SetParams(params, [pageNumber |-> n])
    BY <1>4, <1>7 DEF AppPagination
  <2>2. n \in Nat \ {0}
    OBVIOUS
  <2>3. params' = [params EXCEPT !.pageNumber = n]
    BY <2>1 DEF SetParams
  <2>4. params'.pageNumber = n /\ SameSearch(params, params')
    BY <1>1, <2>3 DEF SameSearch, Params
  <2>5. params.pageNumber \in Nat \ {0} /\ list.pageCount \in Nat
    BY <2>1, HomeTypes DEF ShownInv
  <2> DEFINE m == params.pageNumber
  <2>6. \/ n \in 1..list.pageCount
        \/ n = Max({m - 1, 1})
        \/ n = Min({m + 1, list.pageCount})
    BY <2>1 DEF PageButtons
  <2> HIDE DEF m
  <2>7. m \in Nat /\ m - 1 \in Nat /\ 1 \in Nat /\ m + 1 \in Int /\ list.pageCount \in Int
    BY <2>5 DEF m
  <2>8. Max({m - 1, 1}) \in {m - 1, 1} /\ Min({m + 1, list.pageCount}) <= list.pageCount
    BY <2>7, MaxOfTwo, MinOfTwo
  <2>9. n = 1 \/ n <= m \/ n <= list.pageCount
    BY <2>5, <2>6, <2>7, <2>8
  <2> QED BY <2>1, <2>2, <2>4, <2>9 DEF m
<1> QED BY <1>5, <1>6, <1>7 DEF OnList

\* The buttons of the home page and of the navigation bar.
LEMMA HomeOnList ==
  ASSUME Types, HomeInv, Types', QueueInv', OnList
  PROVE  HomeInv'
<1>1. SearchesInv /\ ShownInv /\ PagesInv
  BY DEF HomeInv
<1>2. UNCHANGED serviceVars /\ params \in Params /\ params' \in Params
  BY OnListSets DEF restVars, Types, ListType
<1>3. calls \in Seq(SomeCall) /\ params.pageNumber \in Nat \ {0} /\ PageCount \in Nat
  BY HomeTypes
<1>4. ASSUME Query(params') = Query(params), UNCHANGED <<page, calls, list, loading, shown, fresh>>
      PROVE  HomeInv'
  <2>1. SameSearch(params, params')
    BY <1>2, <1>4, QueryFields DEF SameSearch
  <2>2. PageCount' \in Nat /\ PageCount <= PageCount'
    BY <1>2, <2>1, PagesStay
  <2>3. Follows(calls', calls)
    BY <1>3, <1>4, FollowsSame
  <2> QED BY <1>4, <2>2, <2>3, HomeKept DEF OnHome
<1>5. ASSUME NEW ps \in Params, ps = params', SetOnHome(ps), Query(params') # Query(params)
      PROVE  HomeInv'
  <2>1. /\ calls' = Append(calls, SearchCall(params')) /\ UNCHANGED <<page, list, loading, shown>>
        /\ fresh' = Fresh(params')
    BY <1>5 DEF SetOnHome, Send
  <2>2. ListShown' => list' # NoList
    BY <1>1, <2>1 DEF ShownInv, ListShown, OnHome
  <2>3. fresh' => Within(params'.pageNumber, PageCount')
    <3>1. CASE params'.pageNumber = 1
      BY <3>1 DEF Within
    <3>2. CASE params'.pageNumber # 1
      <4>1. fresh' => fresh /\ ListIsCurrent
        BY <2>1, <3>2 DEF Fresh
      <4>2. /\ ListShown /\ SameSearch(params, params')
            /\ params'.pageNumber \in Nat \ {0}
            /\ params'.pageNumber <= params.pageNumber \/ params'.pageNumber <= list.pageCount
        BY <1>1, <1>5, <3>2, OnListPages
      <4>3. ListIsCurrent => NoneWaits(calls) /\ shown = [query |-> Query(params), by |-> "page"]
        BY <1>3, HomeTypes DEF ListIsCurrent, Pending, NoneWaits, Waits
      <4>4. fresh /\ ListIsCurrent => list.pageCount <= PageCount /\ Within(params.pageNumber, list.pageCount)
        BY <1>1, <4>2, <4>3 DEF PagesInv
      <4>5. list.pageCount \in Nat
        BY <1>1, <4>2, HomeTypes DEF ShownInv
      <4>6. PageCount' \in Nat /\ PageCount <= PageCount'
        BY <1>2, <4>2, PagesStay
      <4> QED BY <1>3, <3>2, <4>1, <4>2, <4>4, <4>5, <4>6 DEF Within
    <3> QED BY <3>1, <3>2
  <2> QED BY <1>2, <1>3, <2>1, <2>2, <2>3, HomeAsked
<1>6. ASSUME NEW ps \in Params, SetOnHome(ps) PROVE HomeInv'
  <2>1. params' = ps /\ UNCHANGED <<page, list, loading, shown>>
    BY <1>6 DEF SetOnHome
  <2>2. Query(params') = Query(params) => UNCHANGED <<calls, fresh>>
    BY <1>6, <2>1 DEF SetOnHome
  <2> QED BY <1>4, <1>5, <1>6, <2>1, <2>2
<1>7. ASSUME NEW ps \in Params, ~ OnHome, GoHome(calls, ps) PROVE HomeInv'
  <2>1. params' = ps /\ page' = HomePage
    BY <1>7 DEF GoHome, Show
  <2>2. page' # page
    BY <1>7, <2>1 DEF OnHome, HomePage, Page
  <2>3. ps.pageNumber = 1
    BY <1>1, <1>7, <2>1, <2>2, OnListPages DEF ListShown
  <2> QED BY <1>2, <1>3, <1>7, <2>3, HomeMounted
<1>8. \/ Query(params') = Query(params) /\ UNCHANGED <<page, calls, list, loading, shown, fresh>>
      \/ \E ps \in Params : SetOnHome(ps) \/ (~ OnHome /\ GoHome(calls, ps))
  <2>1. CASE SetsParams
    BY <2>1 DEF SetsParams, SetAndGoHome
  <2>2. ASSUME NEW text \in SearchText, params' = [params EXCEPT !.searchValue = text]
        PROVE  Query(params') = Query(params)
    BY <1>2, <2>2 DEF Query, Params
  <2> QED BY <2>1, <2>2, OnListSets
<1> QED BY <1>4, <1>6, <1>7, <1>8

\* The answer to a search.
LEMMA HomeSearch ==
  ASSUME Types, QueueInv, HomeInv, Types', QueueInv', NEW i \in 1..Len(calls), ReceiveSearch(i)
  PROVE  HomeInv'
<1> DEFINE c == calls[i]
           crash == OnHome /\ ~ loading' /\ list' = NoList
<1>1. SearchesInv /\ ShownInv /\ PagesInv
  BY DEF HomeInv
<1>2. /\ i \in InFlight(calls) /\ c.kind = "search" /\ c.answer # None
      /\ IF crash THEN page' = Crashed /\ calls' = <<>> ELSE page' = page /\ calls' = RemoveAt(calls, i)
      /\ UNCHANGED <<params, fresh, serviceVars>>
  BY Zenon DEF ReceiveSearch, Answered
<1>3. \/ /\ c.answer = Rejected
         /\ shown' = IF c.left = "no" THEN [shown EXCEPT !.by = "nobody"] ELSE shown
         /\ UNCHANGED <<list, loading>>
      \/ /\ c.answer # Rejected
         /\ list' = SetData(c.answer)
         /\ shown' = [query |-> c.args, by |-> IF c.left = "no" THEN "page" ELSE "left"]
         /\ loading' = (loading /\ c.left = "page")
  BY Zenon DEF ReceiveSearch
<1>4. /\ params \in Params /\ calls \in Seq(SomeCall) /\ params' \in Params
      /\ params.pageNumber \in Nat \ {0} /\ PageCount \in Nat
  BY HomeTypes DEF Types, ListType
<1>5. PageCount' \in Nat /\ PageCount <= PageCount'
  BY <1>2, <1>4, PagesStay DEF SameSearch
<1>6. fresh' => Within(params'.pageNumber, PageCount')
  BY <1>1, <1>2, <1>4, <1>5 DEF PagesInv, Within
<1>7. CASE crash
  <2>1. calls' = <<>> /\ page'.name = "crashed"
    BY <1>2, <1>7 DEF Crashed, Page
  <2>2. \A k \in 1..Len(calls') : ~ Waits(calls'[k])
    BY <2>1, EmptySeq
  <2> QED BY <1>6, <2>1, <2>2, HomeSilent DEF ListShown, OnHome
<1>8. CASE ~ crash
  <2>1. page' = page /\ calls' = RemoveAt(calls, i)
    BY <1>2, <1>8
  <2>2. ListShown' => list' # NoList
    BY <1>8, <2>1 DEF ListShown, OnHome
  <2>3. CASE c.left # "no" /\ c.answer = Rejected
    <3>1. UNCHANGED <<list, loading, shown>>
      BY <1>3, <2>3
    <3>2. Follows(calls', calls)
      BY <1>4, <2>1, <2>3, FollowsTaken DEF Waits
    <3> QED BY <1>2, <1>5, <2>1, <3>1, <3>2, HomeKept DEF OnHome
  <2>4. ASSUME \A k \in 1..Len(calls') : LastWaits(calls', k) =>
                 \E j \in 1..Len(calls) : /\ LastWaits(calls, j) /\ calls'[k].args = calls[j].args
                                          /\ calls'[k].answer = calls[j].answer \/ Failed(calls'[k].answer),
               \/ shown'.by # "page"
               \/ ListShown' /\ NoneWaits(calls') =>
                    /\ shown'.query = Query(params)
                    /\ fresh => list'.pageCount <= PageCount /\ Within(params.pageNumber, list'.pageCount)
        PROVE  HomeInv'
    <3>1. SearchesInv'
      BY <1>1, <1>2, <2>4 DEF SearchesInv
    <3>2. ShownInv'
      BY <2>2 DEF ShownInv, NoList
    <3>3. ASSUME fresh', NEW k \in 1..Len(calls'), LastWaits(calls', k), Succeeded(k)'
          PROVE  calls'[k].answer.pageCount <= PageCount' /\ Within(params'.pageNumber, calls'[k].answer.pageCount)
      <4>1. PICK j \in 1..Len(calls) : /\ LastWaits(calls, j)
                                       /\ calls'[k].answer = calls[j].answer \/ Failed(calls'[k].answer)
        BY <2>4, <3>3
      <4>2. calls'[k].answer = calls[j].answer /\ Succeeded(j) /\ calls[j].kind = "search"
        BY <3>3, <4>1 DEF Succeeded, Failed, LastWaits, Waits
      <4>3. calls[j].answer.pageCount <= PageCount /\ Within(params.pageNumber, calls[j].answer.pageCount)
        BY <1>1, <1>2, <3>3, <4>1, <4>2 DEF PagesInv
      <4>4. calls[j].answer.pageCount \in Nat
        BY <4>2, HomeTypes
      <4> QED BY <1>2, <1>4, <1>5, <4>2, <4>3, <4>4
    <3>4. ASSUME fresh', ListShown', NoneWaits(calls'), shown' = [query |-> Query(params'), by |-> "page"]
          PROVE  list'.pageCount <= PageCount' /\ Within(params'.pageNumber, list'.pageCount)
      <4>1. list'.pageCount <= PageCount /\ Within(params.pageNumber, list'.pageCount)
        BY <1>2, <2>4, <3>4
      <4>2. list'.pageCount \in Nat
        BY <2>2, <3>4 DEF Types, ListType, SomeList
      <4> QED BY <1>2, <1>4, <1>5, <4>1, <4>2
    <3>5. PagesInv'
      BY <1>6, <3>3, <3>4 DEF PagesInv
    <3> QED BY <3>1, <3>2, <3>5 DEF HomeInv
  <2>5. CASE c.left # "no" /\ c.answer # Rejected
    <3>1. shown'.by # "page"
      BY <1>3, <2>5
    <3>2. Follows(calls', calls)
      BY <1>4, <2>1, <2>5, FollowsTaken DEF Waits
    <3> QED BY <2>4, <3>1, <3>2 DEF Follows
  <2>6. CASE c.left = "no"
    <3>1. \A j \in 1..(i - 1) : ~ Waits(calls[j])
      BY <1>2 DEF InFlight, Waits
    <3>2. /\ \A k \in 1..Len(calls') : LastWaits(calls', k) =>
               \E j \in 1..Len(calls) : LastWaits(calls, j) /\ calls'[k] = calls[j]
          /\ NoneWaits(calls') => LastWaits(calls, i)
      BY <1>2, <1>4, <2>1, <2>6, <3>1, FirstTaken DEF Waits
    <3>3. CASE c.answer = Rejected
      <4>1. shown'.by = "nobody"
        BY <1>3, <2>6, <3>3 DEF Types, ListType
      <4> QED BY <2>4, <3>2, <4>1
    <3>4. CASE c.answer # Rejected
      <4>1. shown'.query = c.args /\ list' = SetData(c.answer)
        BY <1>3, <3>4
      <4>2. ASSUME ListShown', NoneWaits(calls')
            PROVE  /\ shown'.query = Query(params)
                   /\ fresh => list'.pageCount <= PageCount /\ Within(params.pageNumber, list'.pageCount)
        <5>1. LastWaits(calls, i)
          BY <3>2, <4>2
        <5>2. c.answer # Error
          BY <2>2, <4>1, <4>2 DEF SetData
        <5>3. list' = c.answer /\ Succeeded(i)
          BY <1>2, <3>4, <4>1, <5>2 DEF SetData, Succeeded
        <5> QED BY <1>1, <4>1, <5>1, <5>3 DEF SearchesInv, PagesInv
      <4> QED BY <2>4, <3>2, <4>2
    <3> QED BY <3>3, <3>4
  <2> QED BY <2>3, <2>5, <2>6
<1> QED BY <1>7, <1>8

-----------------------------------------------------------------------------
(* The high bid *)

\* The high bid is folded over the list, from the lowest of its positions on.
LEMMA HighBidFolds ==
  ASSUME NEW bs
  PROVE  HighBid(bs) =
           (CHOOSE iter : iter = [s \in SUBSET DOMAIN bs |->
              IF s = {} THEN 0 ELSE HigherBid(iter[s \ {Max(s)}], bs[Max(s)])])[DOMAIN bs]
BY DEF HighBid, FoldLeft, MapThenFoldSet

\* The amounts of the accepted bids at some positions, and 0; the highest of them.
AcceptedAt(bs, s) == {0} \union Amounts({b \in {bs[i] : i \in s} : IsAccepted(b)})

HighestAt(bs, s) == Max(AcceptedAt(bs, s))

\* It is one of them, and none is higher.
LEMMA HighestFacts ==
  ASSUME NEW bs \in Seq(Bid), NEW s \in SUBSET (1..Len(bs))
  PROVE  /\ HighestAt(bs, s) \in AcceptedAt(bs, s) /\ HighestAt(bs, s) \in Nat
         /\ \A x \in AcceptedAt(bs, s) : x <= HighestAt(bs, s)
         /\ AcceptedAt(bs, s) \subseteq Nat
<1> DEFINE B == {b \in {bs[i] : i \in s} : IsAccepted(b)}
<1>1. B \in SUBSET Range(bs) /\ B \subseteq Bid
  BY SeqRange
<1> HIDE DEF B
<1>2. {0} \union Amounts(B) \subseteq Nat
  <2>1. \A b \in B : b.amount \in Nat
    BY <1>1 DEF Bid
  <2> QED BY <2>1 DEF Amounts
<1>3. LET T == {0} \union Amounts(B)
      IN  Max(T) \in T /\ Max(T) \in Nat /\ \A x \in T : x <= Max(T)
  BY <1>1, HighestOf
<1> QED BY <1>2, <1>3 DEF HighestAt, AcceptedAt, B

\* One position more.
LEMMA HighestHigher ==
  ASSUME NEW bs \in Seq(Bid), NEW s \in SUBSET (1..Len(bs)), NEW m \in s
  PROVE  HighestAt(bs, s) = HigherBid(HighestAt(bs, s \ {m}), bs[m])
<1> DEFINE b == bs[m]
           h == HighestAt(bs, s \ {m})
           H == HighestAt(bs, s)
<1>1. b \in Bid /\ b.amount \in Nat
  <2>1. b \in Bid
    BY ElementOfSeq
  <2> HIDE DEF b
  <2> QED BY <2>1 DEF Bid
<1>2. /\ h \in AcceptedAt(bs, s \ {m}) /\ h \in Nat
      /\ \A x \in AcceptedAt(bs, s \ {m}) : x <= h
  BY HighestFacts
<1>3. H \in AcceptedAt(bs, s) /\ H \in Nat /\ \A x \in AcceptedAt(bs, s) : x <= H
  BY HighestFacts
<1>4. /\ \A x \in AcceptedAt(bs, s) : x \in AcceptedAt(bs, s \ {m}) \/ (IsAccepted(b) /\ x = b.amount)
      /\ AcceptedAt(bs, s \ {m}) \subseteq AcceptedAt(bs, s)
      /\ IsAccepted(b) => b.amount \in AcceptedAt(bs, s)
  BY DEF AcceptedAt, Amounts
<1> HIDE DEF b, h, H
<1>5. HigherBid(h, b) \in AcceptedAt(bs, s) /\ HigherBid(h, b) \in Nat
  BY <1>1, <1>2, <1>4 DEF HigherBid
<1>6. \A x \in AcceptedAt(bs, s) : x <= HigherBid(h, b)
  <2>1. h <= HigherBid(h, b) /\ (IsAccepted(b) => b.amount <= HigherBid(h, b))
    BY <1>1, <1>2 DEF HigherBid
  <2> SUFFICES ASSUME NEW x \in AcceptedAt(bs, s) PROVE x <= HigherBid(h, b)
    OBVIOUS
  <2>2. x \in Nat
    BY HighestFacts
  <2>3. CASE x \in AcceptedAt(bs, s \ {m})
    <3>1. x <= h
      BY <1>2, <2>3
    <3> QED BY <1>2, <1>5, <2>1, <2>2, <3>1
  <2>4. CASE IsAccepted(b) /\ x = b.amount
    BY <2>1, <2>4
  <2> QED BY <1>4, <2>3, <2>4
<1>7. H = HigherBid(h, b)
  BY <1>3, <1>5, <1>6
<1> QED BY <1>7 DEF b, h, H

\* The fold gives the highest of the accepted bids: it is the only function that the
\* recursion allows.
LEMMA HighBidHighest ==
  ASSUME NEW bs \in Seq(Bid)
  PROVE  HighBid(bs) = Max({0} \union Amounts({b \in Range(bs) : IsAccepted(b)}))
<1> DEFINE D == DOMAIN bs
           Fold(g) == [s \in SUBSET D |-> IF s = {} THEN 0 ELSE HigherBid(g[s \ {Max(s)}], bs[Max(s)])]
           highest == [s \in SUBSET D |-> HighestAt(bs, s)]
<1>1. D = 1..Len(bs) /\ Len(bs) \in Nat
  BY SeqRange
<1>2. ASSUME NEW s \in SUBSET D, s # {} PROVE Max(s) \in s
  <2>1. s \subseteq Nat /\ \A x \in s : x <= Len(bs)
    BY <1>1
  <2> QED BY <1>1, <1>2, <2>1, MaxOf
<1>3. HighestAt(bs, {}) = 0
  <2>1. AcceptedAt(bs, {}) = {0}
    BY DEF AcceptedAt, Amounts
  <2>2. HighestAt(bs, {}) \in AcceptedAt(bs, {})
    BY HighestFacts
  <2> QED BY <2>1, <2>2
<1>4. ASSUME NEW s \in SUBSET D, s # {}
      PROVE  /\ s \ {Max(s)} \in SUBSET D
             /\ HighestAt(bs, s) = HigherBid(HighestAt(bs, s \ {Max(s)}), bs[Max(s)])
  BY <1>1, <1>2, <1>4, HighestHigher
<1>5. highest = Fold(highest)
  <2>1. ASSUME NEW s \in SUBSET D
        PROVE  HighestAt(bs, s) =
                 IF s = {} THEN 0 ELSE HigherBid(highest[s \ {Max(s)}], bs[Max(s)])
    <3>1. CASE s = {}
      BY <1>3, <3>1
    <3>2. CASE s # {}
      BY <1>4, <3>2
    <3> QED BY <3>1, <3>2
  <2> QED BY <2>1
<1>6. ASSUME NEW g, g = Fold(g) PROVE g = highest
  <2>1. /\ g[{}] = 0
        /\ \A s \in SUBSET D : s # {} => g[s] = HigherBid(g[s \ {Max(s)}], bs[Max(s)])
    <3>1. \A s \in SUBSET D : g[s] = IF s = {} THEN 0 ELSE HigherBid(g[s \ {Max(s)}], bs[Max(s)])
      BY <1>6
    <3> QED BY <3>1
  <2> DEFINE odd == {s \in SUBSET D : g[s] # HighestAt(bs, s)}
             sizes == {Cardinality(s) : s \in odd}
  <2>2. \A s \in SUBSET D : IsFiniteSet(s) /\ Cardinality(s) \in Nat
    <3>1. IsFiniteSet(1..Len(bs))
      BY <1>1, FS_Interval
    <3>2. IsFiniteSet(D)
      BY <1>1, <3>1
    <3> HIDE DEF D
    <3> QED BY <3>2, FS_Subset, FS_CardinalityType
  <2>3. odd = {}
    <3> SUFFICES ASSUME odd # {} PROVE FALSE
      OBVIOUS
    <3>1. sizes \subseteq Nat /\ sizes # {}
      BY <2>2
    <3>2. PICK n \in sizes : \A k \in sizes : n <= k
      <4> HIDE DEF sizes
      <4> QED BY <3>1, LeastOf
    <3>3. PICK s \in odd : n = Cardinality(s)
      OBVIOUS
    <3>4. s # {}
      BY <1>3, <2>1, <3>3
    <3> DEFINE m == Max(s)
    <3>5. m \in s /\ s \ {m} \in SUBSET D
      BY <1>2, <1>4, <3>3, <3>4
    <3>6. Cardinality(s \ {m}) = Cardinality(s) - 1
      <4> HIDE DEF m
      <4> QED BY <2>2, <3>3, <3>5, FS_RemoveElement
    <3>7. s \ {m} \notin odd
      <4>1. \A t \in odd : Cardinality(t) \in sizes
        OBVIOUS
      <4>2. Cardinality(s) \in Nat
        BY <2>2, <3>3
      <4> HIDE DEF odd, sizes, m
      <4> QED BY <3>2, <3>3, <3>6, <4>1, <4>2
    <3>8. g[s \ {m}] = HighestAt(bs, s \ {m})
      BY <3>5, <3>7
    <3>9. g[s] = HigherBid(g[s \ {m}], bs[m]) /\ HighestAt(bs, s) = HigherBid(HighestAt(bs, s \ {m}), bs[m])
      BY <1>4, <2>1, <3>3, <3>4
    <3> QED BY <3>3, <3>8, <3>9
  <2>4. \A s \in SUBSET D : g[s] = HighestAt(bs, s)
    BY <2>3
  <2>5. g = [s \in SUBSET D |-> g[s]]
    BY <1>6
  <2> QED BY <2>4, <2>5
<1>7. (CHOOSE iter : iter = Fold(iter)) = highest
  <2> HIDE DEF Fold, highest
  <2> QED BY <1>5, <1>6
<1>8. HighBid(bs) = HighestAt(bs, D)
  <2>1. HighBid(bs) = (CHOOSE iter : iter = Fold(iter))[D]
    BY HighBidFolds
  <2> QED BY <1>7, <2>1
<1>9. {bs[i] : i \in D} = Range(bs)
  BY <1>1, SeqRange
<1> QED BY <1>8, <1>9 DEF HighestAt, AcceptedAt
-----------------------------------------------------------------------------
(* The promises *)

\* Every step keeps what the invariant says of the home page.
LEMMA HomeStep ==
  ASSUME Types, QueueInv, HomeInv, [Next]_vars
  PROVE  HomeInv'
<1>1. Types' /\ QueueInv' /\ Moves
  BY TypesStep, QueueStep, StepMoves
<1>2. calls \in Seq(SomeCall) /\ params \in Params
  BY QueueTypes DEF Types, ListType
<1>3. ASSUME NEW i \in 1..Len(calls), UNCHANGED serviceVars,
             GoHomeAgain(RemoveAt(calls, i)) \/ GoHome(RemoveAt(calls, i), params)
      PROVE  HomeInv'
  <2>1. RemoveAt(calls, i) \in Seq(SomeCall)
    BY <1>2, RemoveAtKeeps
  <2> QED BY <1>2, <1>3, <2>1, HomeAgain, HomeMounted
<1> QED BY <1>1, <1>3, HomeMoves, HomeQuiet, HomeWorld, HomeRespond, HomeOnList, HomeSearch, HomeLoaded

\* At the start.
LEMMA WebInvInit == Init => WebInv
<1> SUFFICES ASSUME Init PROVE WebInv
  OBVIOUS
<1>1. Types /\ calls = <<SearchCall(InitialParams)>> /\ InitialParams \in Params
  BY TypesInit DEF Types, ListType, Init, ListInit
<1>2. /\ page = HomePage /\ bids = <<>> /\ bidList = <<>> /\ list = EmptyList /\ form = None
  BY DEF Init, ServicesInit, BidsInit, FormsInit, ListInit
<1>3. /\ SearchCall(InitialParams).kind = "search" /\ SearchCall(InitialParams).left = "no"
      /\ SearchCall(InitialParams).answer = None /\ SearchCall(InitialParams) \in SomeCall
  BY <1>1, SearchCallType
<1>4. \A i \in 1..Len(calls) : calls[i] = SearchCall(InitialParams)
  BY <1>1, <1>3
<1>5. \A i \in 1..Len(calls) : calls[i].kind = "search" /\ calls[i].answer = None
  BY <1>3, <1>4
<1>6. QueueInv
  <2>1. OnHome
    BY <1>2 DEF OnHome, HomePage, Page
  <2> QED BY <1>5, <2>1 DEF QueueInv
<1>7. ASSUME NEW s, s = <<>> PROVE Range(s) = {} /\ DOMAIN s = {}
  <2>1. s \in Seq(Bid) /\ Len(s) = 0
    BY <1>7, EmptySeq
  <2>2. DOMAIN s = 1..Len(s) /\ \A x : x \in Range(s) <=> \E i \in 1..Len(s) : s[i] = x
    BY <2>1, SeqRange
  <2> QED BY <2>1, <2>2
<1>8. ListedInv
  BY <1>2, <1>5, <1>7 DEF ListedInv, Distinct, Succeeded
<1>9. NotedInv
  <2>1. Stored = {}
    BY <1>2, <1>7 DEF Stored
  <2> QED BY <1>5, <2>1 DEF NotedInv, HasNoted, Succeeded
<1>10. SentInv /\ FormInv
  BY <1>2, <1>5 DEF SentInv, FormInv, Succeeded
<1>11. PricesInv
  <2>1. list.results = <<>>
    BY <1>2 DEF EmptyList
  <2>2. \A x \in Range(list.results) : Offered(x)
    BY <1>7, <2>1, Zenon
  <2> QED BY <1>5, <2>2 DEF PricesInv, Succeeded
<1>12. SearchesInv /\ ShownInv /\ PagesInv
  <2>1. loading = TRUE /\ params.pageNumber = 1 /\ params = InitialParams
    BY DEF Init, ListInit, InitialParams
  <2>2. ~ ListShown /\ Within(params.pageNumber, PageCount)
    BY <2>1 DEF ListShown, Within
  <2>3. \A i \in 1..Len(calls) : calls[i].args = Query(params) /\ ~ Succeeded(i)
    BY <1>1, <1>4, <1>5, <2>1, SearchCallType DEF Succeeded
  <2> QED BY <2>2, <2>3 DEF SearchesInv, ShownInv, PagesInv
<1> QED BY <1>1, <1>6, <1>8, <1>9, <1>10, <1>11, <1>12 DEF WebInv

\* The invariant of the web client: it is about the calls on their way, and what they
\* will be answered, as much as about what is shown.
THEOREM WebInvariant == Spec => []WebInv
<1>1. ASSUME WebInv, [Next]_vars PROVE WebInv'
  <2>1. HomeInv
    BY <1>1 DEF WebInv, HomeInv
  <2>2. HomeInv'
    BY <1>1, <2>1, HomeStep DEF WebInv
  <2>3. SearchesInv' /\ ShownInv' /\ PagesInv'
    BY <2>2 DEF HomeInv
  <2> QED BY <1>1, <2>3, TypesStep, QueueStep, ListedStep, NotedStep, SentStep, FormStep, PricesStep DEF WebInv
<1> QED BY <1>1, WebInvInit, PTL DEF Spec

\* A sequence of bids that are distinct has as many ids.
LEMMA DistinctIds ==
  ASSUME NEW bs \in Seq(Bid), Distinct(bs)
  PROVE  Cardinality(Ids(bs)) = Len(bs)
<1> DEFINE f == [i \in 1..Len(bs) |-> bs[i].id]
<1>1. Len(bs) \in Nat /\ DOMAIN bs = 1..Len(bs) /\ \A x : x \in Range(bs) <=> \E i \in 1..Len(bs) : bs[i] = x
  BY SeqRange
<1>2. f \in [1..Len(bs) -> Ids(bs)]
  BY <1>1 DEF Ids
<1>3. \A x \in Ids(bs) : \E i \in 1..Len(bs) : f[i] = x
  BY <1>1 DEF Ids
<1>4. \A i, j \in 1..Len(bs) : f[i] = f[j] => i = j
  BY <1>1 DEF Distinct
<1>5. f \in Bijection(1..Len(bs), Ids(bs))
  <2> HIDE DEF f
  <2> QED BY <1>2, <1>3, <1>4 DEF Bijection, Injection, Surjection, IsInjective
<1>6. ExistsBijection(1..Len(bs), Ids(bs))
  BY <1>5 DEF ExistsBijection
<1> QED BY <1>1, <1>6, FS_CountingElements

\* No bid is listed twice: neither the one that the user placed and is notified of,
\* nor one that is notified again (useBidStore.addBid).
THEOREM ListedOnce == Spec => []NoDuplicateBids
<1>1. WebInv => NoDuplicateBids
  BY DistinctIds DEF WebInv, Types, BidsType, ListedInv, NoDuplicateBids
<1> QED BY <1>1, WebInvariant, PTL

\* The high bid of the page, which a new bid is compared with, is the highest accepted
\* of the listed bids, in whatever order they came (the reduce in BidList).
THEOREM HighBidIsTheHighest == Spec => []HighBidIsHighest
<1>1. WebInv => HighBidIsHighest
  BY HighBidHighest DEF WebInv, Types, BidsType, HighBidIsHighest
<1> QED BY <1>1, WebInvariant, PTL

\* A bid that was notified stays in the list for as long as the list is the one of its
\* auction (BidList's effect, useBidStore), but for three exceptions: it was notified
\* while the tab was not listening or the handler threw; or while the bids of its
\* auction were being fetched, by whatever page; and nothing is claimed of the page
\* that is shown when the answer to a page that was left has replaced its list.
THEOREM NotedStay == Spec => []NotedBidsStay
<1>1. WebInv => NotedBidsStay
  BY DEF WebInv, NotedInv, HasNoted, NotedBidsStay
<1> QED BY <1>1, WebInvariant, PTL

\* Every variable has its type, and what is listed and noted are stored bids.
THEOREM WebTypeCorrect == Spec => []WebTypeOK
<1>1. WebInv => WebTypeOK
  <2> SUFFICES ASSUME WebInv PROVE WebTypeOK
    OBVIOUS
  <2>1. ListTypeOK
    <3>1. list # NoList => list \in SomeList
      BY DEF WebInv, Types, ListType
    <3>2. ASSUME list \in SomeList
          PROVE  /\ <<list.totalCount, list.pageCount>> \in Nat \X Nat
                 /\ Range(list.results) \subseteq [id : AuctionId, currentHighBid : Nat]
      <4>1. list.results \in Seq([id : AuctionId, currentHighBid : Nat])
        BY <3>2 DEF SomeList
      <4>2. list.totalCount \in Nat /\ list.pageCount \in Nat
        BY <3>2 DEF SomeList
      <4> QED BY <4>1, <4>2, SeqRange
    <3>3. /\ params \in Params /\ <<loading, fresh>> \in BOOLEAN \X BOOLEAN
          /\ shown.by \in {"page", "left", "nobody"}
      BY DEF WebInv, Types, ListType
    <3> QED BY <3>1, <3>2, <3>3 DEF ListTypeOK
  <2>2. DOMAIN bids = 1..Len(bids)
    BY SeqRange DEF WebInv, Types, ServicesType
  <2>3. BidsTypeOK
    BY <2>2 DEF WebInv, Types, BidsType, ListedInv, BidsTypeOK
  <2>4. FormsTypeOK
    BY DEF WebInv, Types, FormsType, FormsTypeOK, SomeCar
  <2> QED BY <2>1, <2>2, <2>3, <2>4 DEF WebInv, Types, TabType, LiveType, WebTypeOK
<1> QED BY <1>1, WebInvariant, PTL

\* A card shows no price but those of bids on its auction, in whatever order the bids
\* were notified and the lists came (setCurrentPrice looks at no price): accepted ones,
\* unless the search has copied the row, whose high bid may be a bid turned away.
THEOREM PricesWereOffered == Spec => []PriceWasOffered
<1>1. WebInv => PriceWasOffered
  BY DEF WebInv, PricesInv, Offered, PriceWasOffered
<1> QED BY <1>1, WebInvariant, PTL

\* On the home page, once every search is answered, the list is that of the parameters,
\* however fast they were changed (the effect of Listings; Next.js runs its server
\* actions one after the other).
THEOREM ListsAreOfTheirParams == Spec => []ListIsOfTheseParams
<1>1. WebInv => ListIsOfTheseParams
  <2> SUFFICES ASSUME WebInv, ListShown, ~ Pending("search"), shown.by = "page"
               PROVE  shown.query = Query(params)
    BY DEF ListIsOfTheseParams
  <2>1. NoneWaits(calls)
    BY HomeTypes DEF WebInv, Pending, NoneWaits, Waits
  <2> QED BY <2>1 DEF WebInv, SearchesInv
<1> QED BY <1>1, WebInvariant, PTL

\* The page number is one that the list has, as long as it is fresh (useParamsStore's
\* setParams goes back to page 1; AppPagination offers the pages of the list).
THEOREM PagesExist == Spec => []PageExists
<1>1. WebInv => PageExists
  <2> SUFFICES ASSUME WebInv, ListShown, ListIsCurrent, fresh
               PROVE  params.pageNumber <= Max({1, list.pageCount})
    BY DEF PageExists
  <2>1. Types /\ ShownInv /\ PagesInv
    BY DEF WebInv
  <2>2. NoneWaits(calls) /\ shown = [query |-> Query(params), by |-> "page"]
    BY <2>1, HomeTypes DEF ListIsCurrent, Pending, NoneWaits, Waits
  <2>3. Within(params.pageNumber, list.pageCount)
    BY <2>1, <2>2 DEF PagesInv
  <2>4. params.pageNumber \in Nat /\ list.pageCount \in Nat
    BY <2>1, HomeTypes DEF ShownInv
  <2> DEFINE n == list.pageCount
  <2>5. n \in Nat /\ 1 \in Nat
    BY <2>4
  <2> HIDE DEF n
  <2>6. Max({1, n}) \in Nat /\ 1 <= Max({1, n}) /\ n <= Max({1, n})
    BY <2>5, MaxOfTwo
  <2> QED BY <2>3, <2>4, <2>6 DEF Within, n
<1> QED BY <1>1, WebInvariant, PTL

\* A form is left for the page of its auction, and that page for the list, only when
\* what was asked for was granted (AuctionForm.onSubmit, DeleteButton.doDelete).
THEOREM LeftWhenDone == Spec => SuccessMeansDone
<1> DEFINE Done1(i) == [kind |-> calls[i].kind, args |-> calls[i].args] \in done
           Act == \A i \in DOMAIN calls :
                    (ReceiveCreated(i) \/ ReceiveUpdated(i) \/ ReceiveDeleted(i)) /\ page'.name # page.name
                      => Done1(i)
<1>1. ASSUME WebInv, NEW i \in DOMAIN calls, page'.name # page.name,
             ReceiveCreated(i) \/ ReceiveUpdated(i) \/ ReceiveDeleted(i)
      PROVE  Done1(i)
  <2>1. Types /\ SentInv /\ DOMAIN calls = 1..Len(calls)
    BY <1>1, QueueTypes DEF WebInv
  <2>2. CASE ReceiveCreated(i)
    <3>1. calls[i].kind = "create" /\ calls[i].answer # None /\ ~ Failed(calls[i].answer)
      BY <1>1, <2>2 DEF ReceiveCreated, Answered, Toast
    <3> QED BY <2>1, <3>1 DEF SentInv, Succeeded, Failed
  <2>3. CASE ReceiveUpdated(i)
    <3>1. page.name = "update" => UpdatePage(page.auctionId).name = page.name
      BY DEF UpdatePage, Page
    <3>2. calls[i].left = "no" /\ calls[i].kind = "update" => page.name = "update"
      BY <1>1, <2>1 DEF WebInv, QueueInv, Attached
    <3>3. calls[i].kind = "update" /\ calls[i].answer # None
      BY <2>3 DEF ReceiveUpdated, Answered
    <3>4. ~ Failed(calls[i].answer)
      BY <1>1, <2>1, <2>3, <3>1, <3>2, <3>3, UpdatedFacts DEF Toast
    <3> QED BY <2>1, <3>3, <3>4 DEF SentInv, Succeeded, Failed
  <2>4. CASE ReceiveDeleted(i)
    <3>1. calls[i].kind = "delete" /\ calls[i].answer # None /\ ~ Failed(calls[i].answer)
      BY <1>1, <2>4 DEF ReceiveDeleted, Answered, Toast
    <3> QED BY <2>1, <3>1 DEF SentInv, Succeeded, Failed
  <2> QED BY <1>1, <2>2, <2>3, <2>4
<1>2. WebInv => Act
  BY <1>1
<1>3. WebInv /\ [Next]_vars => [Act]_page
  BY <1>2
<1>4. Spec => [][Act]_page
  <2> HIDE DEF Act
  <2> QED BY <1>3, WebInvariant, PTL DEF Spec
<1> QED BY <1>4, Zenon DEF SuccessMeansDone

\* Who waits for an update is then shown the auction as the service has it, for
\* revalidatePath has dropped what the browser kept (auctionActions.updateAuction).
THEOREM UpdatesAreShown == Spec => UpdateIsShown
<1> DEFINE Act == \A i \in DOMAIN calls :
                    ReceiveUpdated(i) /\ calls[i].left = "no" /\ page'.name = "details"
                      => page'.row = HandleResponse(GetAuctionById(page'.auctionId))
<1>1. ASSUME WebInv, NEW i \in DOMAIN calls, page' # page,
             ReceiveUpdated(i), calls[i].left = "no", page'.name = "details"
      PROVE  page'.row = HandleResponse(GetAuctionById(page'.auctionId))
  <2> DEFINE c == calls[i]
  <2>1. Types /\ DOMAIN calls = 1..Len(calls)
    BY <1>1, QueueTypes DEF WebInv
  <2>2. UpdatePage(page.auctionId).name = "update"
    BY DEF UpdatePage, Page
  <2>3. LeaveFor(c.args.auctionId, RemoveAt(calls, i), Kept(c.left = "no" /\ c.answer # Rejected)) /\ ~ Failed(c.answer)
    BY <1>1, <2>1, <2>2, UpdatedFacts DEF Toast
  <2>4. Kept(c.left = "no" /\ c.answer # Rejected) = {}
    BY <1>1, <2>3 DEF Kept, Failed
  <2>5. VisitDetails(RemoveAt(calls, i), c.args.auctionId, {})
    BY <2>3, <2>4 DEF LeaveFor
  <2>6. page' = DetailsPage(c.args.auctionId)
    BY <2>5 DEF VisitDetails, GoToDetails, Renderings
  <2> QED BY <2>6 DEF DetailsPage, Page
<1>2. WebInv /\ [Next]_vars => [Act]_page
  BY <1>1
<1>3. Spec => [][Act]_page
  <2> HIDE DEF Act
  <2> QED BY <1>2, WebInvariant, PTL DEF Spec
<1> QED BY <1>3, Zenon DEF UpdateIsShown

\* An update that is granted changes only what its user has typed, unless the auction
\* was changed elsewhere since the form was given it (AuctionForm's reset).
THEOREM UpdatesKeepTheRest == Spec => UpdateKeepsTheRest
<1> DEFINE Act == \A i \in DOMAIN calls :
                    LET c == calls[i]
                        a == c.args.auctionId
                    IN  c.kind = "update" /\ Serve(i) /\ rows[a].item = c.args.was
                          => \A f \in Field \ c.args.typed : rows'[a].item[f] = rows[a].item[f]
<1>1. WebInv => Act
  BY RestKept DEF WebInv
<1>2. WebInv /\ [Next]_vars => [Act]_rows
  BY <1>1
<1>3. Spec => [][Act]_rows
  <2> HIDE DEF Act
  <2> QED BY <1>2, WebInvariant, PTL DEF Spec
<1> QED BY <1>3, Zenon DEF UpdateKeepsTheRest
=============================================================================
