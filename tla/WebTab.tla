------------------------------- MODULE WebTab -------------------------------
(***************************************************************************)
(* A browser tab: the session, the page that is shown, and the server      *)
(* actions that its components have called.                                *)
(*                                                                         *)
(* Next.js runs the server actions of a tab one after the other.  A        *)
(* navigation drops those that were not sent yet; one that was sent is     *)
(* left behind, and still answers whoever called it.  Answers are thus out *)
(* of order only across a navigation.                                      *)
(***************************************************************************)
EXTENDS WebServices

CONSTANTS Error,    \* what a server action returns for a response that is not ok
          Rejected, \* the promise of a server action is rejected
          Done      \* the status text of a response without a body

ASSUME AnswerAssumption == None \notin {Error, Rejected, Done} /\ Error # Rejected

VARIABLES session, \* the cookie, shared by all tabs: [user, valid], None when signed out
          viewer,  \* the user the layout was rendered for
          page,    \* [name, auctionId, row, user]: what was rendered
          calls,   \* calls of server actions, those left behind first
          cached   \* the pages that the browser has kept

tabVars == <<session, viewer, page, calls, cached>>

Session == [user : User, valid : BOOLEAN] \union {None}

\* getCurrentUser looks at the session only, not at the access token in it.
CurrentUser == IF session = None THEN None ELSE session.user

\* The user whom the services see.
Authorized == IF session = None \/ ~ session.valid THEN None ELSE session.user
-----------------------------------------------------------------------------
(* Server actions *)

HandleResponse(response) == IF response.ok THEN response.data ELSE Error

Failed(answer) == answer \in {Error, Rejected}

Call(kind, args) == [kind |-> kind, args |-> args, left |-> "no", answer |-> None]

InFlight(cs) == {i \in DOMAIN cs : \A j \in 1..(i - 1) : cs[j].left # "no"}

\* A navigation takes the calls in flight out of the queue and drops the others:
\* to another page, whose components are new ones,
Left(cs) == [i \in InFlight(cs) |-> [cs[i] EXCEPT !.left = "page"]]

\* or to the page that is already shown, whose components stay.
Detached(cs) ==
  [i \in InFlight(cs) |-> [cs[i] EXCEPT !.left = IF @ = "no" THEN "queue" ELSE @]]

Pending(kind) == \E i \in DOMAIN calls : calls[i].kind = kind

Send(c) == calls' = Append(calls, c)

\* What the services may make of a call.
UpdateAuction(args) ==
  ChangeAuction(args.auctionId, [rows[args.auctionId] EXCEPT !.item = args.item], Authorized, Done)

DeleteAuction(args) ==
  ChangeAuction(args.auctionId, [rows[args.auctionId] EXCEPT !.deleted = TRUE], Authorized, Done)

Outcomes(c) ==
  CASE c.kind = "search"  -> {Unchanged(Ok(SearchItems(c.args, hits))) : hits \in {Hits(c.args)}}
    [] c.kind = "details" -> {Unchanged(GetAuctionById(c.args))}
    [] c.kind = "bids"    -> {Unchanged(GetBidsForAuction(c.args))}
    [] c.kind = "place"   -> PlaceBid(c.args.auctionId, c.args.amount, Authorized)
    [] c.kind = "create"  -> CreateAuction(c.args.item, Authorized)
    [] c.kind = "update"  -> UpdateAuction(c.args)
    [] c.kind = "delete"  -> DeleteAuction(c.args)

\* The server runs the action: fetch with the token, and handleResponse.
Serve(i) ==
  /\ i \in InFlight(calls)
  /\ calls[i].answer = None
  /\ \E o \in Outcomes(calls[i]) :
       /\ calls' = [calls EXCEPT ![i].answer = HandleResponse(o.response)]
       /\ rows' = o.rows
       /\ bids' = o.bids
  /\ UNCHANGED <<clock, prices, synced, session, viewer, page, cached, budget>>

\* The service answers with an error of its own, or the call throws: before the
\* service has handled it, or after, when the answer is lost.
Fail(i, answer) ==
  /\ Spend("fail")
  /\ i \in InFlight(calls)
  /\ \/ calls[i].answer = None
     \/ answer = Rejected /\ ~ Failed(calls[i].answer)
  /\ calls' = [calls EXCEPT ![i].answer = answer]
  /\ UNCHANGED <<serviceVars, session, viewer, page, cached>>

\* The answer of call i is there; rest are the other calls.
Answered(i, kind) == i \in InFlight(calls) /\ calls[i].kind = kind /\ calls[i].answer # None
-----------------------------------------------------------------------------
(* Pages *)

Page(name, a, row, user) == [name |-> name, auctionId |-> a, row |-> row, user |-> user]
HomePage == Page("home", None, None, None)
CreatePage == Page("create", None, None, None)
Crashed == Page("crashed", None, None, None)

\* Rendered on the server, with what the auction service answers.
DetailsPage(a) == Page("details", a, HandleResponse(GetAuctionById(a)), CurrentUser)
UpdatePage(a) == Page("update", a, HandleResponse(GetAuctionById(a)), None)

OnHome == page.name = "home"
OnDetails == page.name = "details"

Same(p, q) == p.name = q.name /\ p.auctionId = q.auctionId

\* A page that was visited within half a minute may be shown again as it was.
Renderings(p, kept) == {p} \union {q \in kept : Same(p, q)}

Keeping(p, kept) == {q \in kept : ~ Same(p, q)} \union {p}

\* A navigation from a page with the calls cs; the new page makes those in new.
Show(cs, p, new) == page' = p /\ calls' = Left(cs) \o new
-----------------------------------------------------------------------------
(* The session *)

TokenExpires ==
  /\ Spend("session")
  /\ session # None /\ session.valid
  /\ session' = [session EXCEPT !.valid = FALSE]
  /\ UNCHANGED <<serviceVars, viewer, page, calls, cached>>

\* In another tab; this one goes on showing what it was rendered with.
SignInElsewhere(u) ==
  /\ Spend("session")
  /\ session' = [user |-> u, valid |-> TRUE]
  /\ UNCHANGED <<serviceVars, viewer, page, calls, cached>>
=============================================================================
