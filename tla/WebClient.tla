----------------------------- MODULE WebClient -----------------------------
(***************************************************************************)
(* The web client as a whole: the live updates that the notification       *)
(* service sends to every connected tab, the ways between the pages, and   *)
(* the specification of a tab in the company of the services.              *)
(***************************************************************************)
EXTENDS WebForms

CONSTANTS Budgets, \* bounds: how often each activity happens, for each scenario
          Sessions \* the sessions a tab may start with

ASSUME ScenarioAssumption ==
  /\ \A b \in Budgets : DOMAIN b = Activity /\ Range(b) \subseteq Nat
  /\ Sessions \subseteq Session

VARIABLES connection, \* to the hub: "off" while it connects, "on", "closed" for good
          toasts,     \* the auctions that toasts link to, None for /undefined
          announced   \* history: the ids of bids that were notified

liveVars == <<connection, toasts, announced>>

clientVars == <<tabVars, listVars, bidVars, formVars, liveVars>>

vars == <<serviceVars, budget, clientVars>>

\* The stores of a tab that has just loaded page p for user u, and the calls that
\* its components make.
MountCalls(p) ==
  CASE p.name = "home"    -> <<SearchCall(InitialParams)>>
    [] p.name = "details" -> <<BidsCall(p)>>
    [] OTHER              -> <<>>

Init ==
  /\ ServicesInit /\ ListInit /\ BidsInit /\ FormsInit
  /\ budget \in Budgets
  /\ session \in Sessions
  /\ viewer = CurrentUser
  /\ page = HomePage
  /\ calls = MountCalls(HomePage)
  /\ cached = {}
  /\ connection = "off"
  /\ toasts = {}
  /\ announced = {}
-----------------------------------------------------------------------------
(* Live updates *)

Listening == connection = "on" /\ page # Crashed

Connect ==
  /\ connection = "off"
  /\ connection' = "on"
  /\ UNCHANGED <<serviceVars, budget, tabVars, listVars, bidVars, formVars, toasts, announced>>

\* The connection is lost and made again, or given up: when the first start
\* fails, and when the attempts to reconnect are used up.
Disconnect ==
  /\ Spend("drop")
  /\ \/ connection = "on" /\ connection' = "off"
     \/ connection = "off" /\ connection' = "closed"
  /\ UNCHANGED <<serviceVars, tabVars, listVars, bidVars, formVars, toasts, announced>>

\* Mutant of NoteBid: bids that were turned away are not added.
NoteAcceptedBid(b) ==
  /\ list' = IF IsAccepted(b) THEN [list EXCEPT !.results = SetCurrentPrice(@, b)] ELSE list
  /\ bidList' = IF IsAccepted(b) THEN AddBid(bidList, b) ELSE bidList

NoteBid(b) ==
  /\ list' = IF IsAccepted(b) THEN [list EXCEPT !.results = SetCurrentPrice(@, b)] ELSE list
  /\ bidList' = AddBid(bidList, b)

\* setCurrentPrice throws on a list that is none; the bid is then not added.  A
\* bid that is added while bids are fetched is lost with the old list.
BidPlaced(b) ==
  LET throws == IsAccepted(b) /\ list = NoList
      inVain == ~ Listening \/ throws \/ Fetching(b.auctionId, calls)
  IN  /\ b.id \in announced => Spend("repeat")
      /\ b.id \notin announced => UNCHANGED budget
      /\ announced' = announced \union {b.id}
      /\ missed' = IF inVain THEN missed \union {b.id} ELSE missed
      /\ IF Listening /\ ~ throws
         THEN NoteBid(b) /\ Rerender
         ELSE UNCHANGED <<list, bidList, open>>
      /\ UNCHANGED <<serviceVars, tabVars, params, loading, shown, fresh, bidsLoading, bidsOf,
                     formVars, connection, toasts>>

Announce ==
  /\ Spend("announce")
  /\ Listening
  /\ UNCHANGED <<serviceVars, session, viewer, page, cached, listVars, bidVars, formVars,
                 connection, announced>>

\* The seller is not told.
AuctionCreated(a) ==
  /\ Announce
  /\ rows[a] # None
  /\ toasts' = IF viewer # rows[a].seller THEN toasts \union {a} ELSE toasts
  /\ UNCHANGED calls

AuctionFinished(a) ==
  /\ Announce
  /\ rows[a] # None /\ ~ Live(a)
  /\ Send(Call("details", a))
  /\ UNCHANGED toasts

\* An error is shown like an auction, with a link to undefined.
ReceiveDetails(i) ==
  LET c == calls[i]
  IN  /\ Answered(i, "details")
      /\ calls' = RemoveAt(calls, i)
      /\ toasts' = CASE c.answer = Rejected -> toasts
                     [] c.answer = Error    -> toasts \union {None}
                     [] OTHER               -> toasts \union {c.args}
      /\ UNCHANGED <<serviceVars, budget, session, viewer, page, cached, listVars, bidVars,
                     formVars, connection, announced>>
-----------------------------------------------------------------------------
(* Ways between the pages *)

Visit ==
  /\ Spend("visit")
  /\ page # Crashed
  /\ UNCHANGED <<serviceVars, session, viewer, listVars, liveVars>>

OpenAuction(a) ==
  /\ Visit
  /\ ListShown
  /\ \E x \in Range(list.results) : x.id = a
  /\ VisitDetails(calls, a, cached)
  /\ UNCHANGED formVars

OpenToast(a) ==
  /\ Visit
  /\ a \in toasts
  /\ VisitDetails(calls, a, cached)
  /\ UNCHANGED formVars

OpenUpdate ==
  /\ Visit
  /\ SellerButtons
  /\ VisitUpdate(IF page.row = Error THEN None ELSE page.auctionId)
  /\ UNCHANGED <<bidVars, done>>

OpenCreate ==
  /\ Visit
  /\ viewer # None
  /\ Show(calls, CreatePage, <<>>)
  /\ UNCHANGED <<cached, bidVars, formVars>>

\* A full load starts everything anew.  What was sent is handled before, or not.
Load(p, u) ==
  /\ Spend("load")
  /\ page' = p
  /\ viewer' = u
  /\ calls' = MountCalls(p)
  /\ cached' = {}
  /\ params' = InitialParams /\ list' = EmptyList /\ loading' = TRUE /\ fresh' = TRUE
  /\ shown' = [query |-> Query(InitialParams), by |-> "nobody"]
  /\ bidList' = <<>> /\ bidsLoading' = TRUE /\ bidsOf' = None /\ missed' = {}
  /\ open' = (p.name = "details" => OpenOn(TRUE, p.row, p.auctionId))
  /\ Reset(IF p.name = "update" THEN p.row ELSE Error)
  /\ connection' = "off" /\ toasts' = {}
  /\ UNCHANGED <<serviceVars, done, announced>>

Reload ==
  /\ Load(CASE OnDetails             -> DetailsPage(page.auctionId)
            [] page.name = "update"  -> UpdatePage(page.auctionId)
            [] page = Crashed        -> HomePage
            [] OTHER                 -> page, CurrentUser)
  /\ UNCHANGED session

SignIn(u) ==
  /\ viewer = None /\ page # Crashed
  /\ session' = [user |-> u, valid |-> TRUE]
  /\ Load(HomePage, u)

SignOut ==
  /\ viewer # None /\ page # Crashed
  /\ session' = None
  /\ Load(HomePage, None)
-----------------------------------------------------------------------------
Catalogue == {a \in AuctionId : Exists(a)}

\* Auctions that end or go may leave a page without auctions.
WatchList == fresh' = (fresh /\ clock' = clock /\ Catalogue \subseteq Catalogue')

\* What the services and the session do by themselves.
World ==
  /\ \/ UNCHANGED tabVars /\ Tick
     \/ UNCHANGED tabVars /\ \E b \in Stored : SearchTakesBid(b)
     \/ UNCHANGED tabVars /\ \E a \in AuctionId : SearchSyncs(a)
     \/ UNCHANGED tabVars /\ \E a \in AuctionId, n \in Offer : OthersBid(a, n)
     \/ UNCHANGED tabVars /\ \E a \in AuctionId, f \in Field, v \in Value : EditElsewhere(a, f, v)
     \/ UNCHANGED tabVars /\ \E a \in AuctionId : DeleteElsewhere(a)
     \/ TokenExpires
     \/ \E u \in User : SignInElsewhere(u)
     \/ \E i \in DOMAIN calls, answer \in {Error, Rejected} : Fail(i, answer)
  /\ WatchList
  /\ UNCHANGED <<params, list, loading, shown, bidVars, formVars, liveVars>>

Respond ==
  \E i \in DOMAIN calls :
    /\ Serve(i) /\ Watch(i) /\ WatchList
    /\ UNCHANGED <<params, list, loading, shown, bidVars, form, typed, liveVars>>

OnList ==
  /\ \/ Filters \/ EmptyFilter \/ Search \/ Logo \/ SetWinner \/ SetSeller
     \/ \E n \in 1..Cardinality(AuctionId) : AppPagination(n)
     \/ \E text \in SearchText : TypeSearch(text)
  /\ UNCHANGED <<bidVars, formVars, liveVars>>

OnForms ==
  /\ \/ \E f \in Field, v \in Value : TypeField(f, v)
     \/ \E item \in NewItem : SubmitCreate(item)
     \/ SubmitUpdate
     \/ SubmitDelete
     \/ \E n \in Offer : SubmitBid(n) /\ UNCHANGED <<listVars, formVars>>
  /\ UNCHANGED liveVars

\* A new user of the layout stops the connection, which cannot start again while
\* it is stopping.
Receive ==
  \/ \E i \in DOMAIN calls :
       \/ ReceiveSearch(i) /\ UNCHANGED <<bidVars, formVars, liveVars>>
       \/ ReceiveBids(i) /\ UNCHANGED <<listVars, formVars, liveVars>>
       \/ ReceivePlaced(i) /\ UNCHANGED <<listVars, formVars, liveVars>>
       \/ (ReceiveCreated(i) \/ ReceiveDeleted(i)) /\ UNCHANGED liveVars
       \/ /\ ReceiveUpdated(i)
          /\ connection' = IF viewer' # viewer THEN "closed" ELSE connection
          /\ UNCHANGED <<toasts, announced>>
       \/ ReceiveDetails(i)

CloseForm == CountdownCompletes /\ UNCHANGED <<listVars, formVars, liveVars>>

Navigate ==
  \/ \E a \in AuctionId : OpenAuction(a)
  \/ \E a \in toasts : OpenToast(a)
  \/ OpenUpdate
  \/ OpenCreate
  \/ Reload
  \/ \E u \in User : SignIn(u)
  \/ SignOut

Notify ==
  \/ Connect
  \/ Disconnect
  \/ \E b \in Stored : BidPlaced(b)
  \/ \E a \in AuctionId : AuctionCreated(a) \/ AuctionFinished(a)

Next == World \/ Respond \/ OnList \/ OnForms \/ Receive \/ CloseForm \/ Navigate \/ Notify

\* A server action answers or fails, an answer reaches whoever waits for it, and
\* a countdown goes on.  Nothing is assumed of users, of the hub, of the broker.
Spec ==
  /\ Init /\ [][Next]_vars
  /\ WF_vars(Respond) /\ WF_vars(Receive) /\ WF_vars(CloseForm)
-----------------------------------------------------------------------------
(* Properties *)

\* Every variable has its type; an open toast is of an auction that there is.
WebTypeOK ==
  /\ ListTypeOK /\ BidsTypeOK /\ FormsTypeOK
  /\ session \in Session /\ viewer \in User \union {None}
  /\ connection \in {"off", "on", "closed"}
  /\ announced \subseteq DOMAIN bids
  /\ \A a \in toasts \ {None} : rows[a] # None

\* A bid that was notified stays in the list, however often the page is rendered and
\* other bids come, for as long as the list is the one of its auction.  It is not
\* claimed of a bid that was notified in vain: while the tab was not listening, or
\* the handler threw, or the bids of its auction were being fetched (until they are
\* fetched again, and nothing overtakes that).  Nor is it of the page that is shown:
\* when the answer to a page that was left comes last, the store is set to the bids
\* of that page's auction, and what was notified of the other one is lost.
NotedBidsStay ==
  \A b \in Stored :
    b.auctionId = bidsOf /\ b.id \in announced \ missed => b \in Range(bidList)
=============================================================================
