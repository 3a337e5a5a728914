------------------------------ MODULE WebForms ------------------------------
(***************************************************************************)
(* The forms to create and to update an auction, and the button to delete  *)
(* it.  Their handlers await an answer, and go to another page when it is  *)
(* no error -- also when the user has left the form meanwhile.             *)
(***************************************************************************)
EXTENDS WebListings, WebBids

CONSTANT NewItem \* what is typed into the form for a new auction

ASSUME NewItemAssumption == NewItem \subseteq [Field -> Value]

VARIABLES form,  \* the fields of the update form, None when they are empty
          typed, \* history: the fields that the user has typed into
          done   \* history: the calls whose request the services have granted

formVars == <<form, typed, done>>

FormsInit ==
  /\ form = None
  /\ typed = {}
  /\ done = {}

\* Mutant of Reset: a form that has its fields already keeps them.
ResetWhenEmpty(row) ==
  /\ form' = IF row = Error THEN None ELSE IF form = None THEN row.item ELSE form
  /\ typed' = {}

\* The form is given an auction: the effect resets its fields.
Reset(row) ==
  /\ form' = IF row = Error THEN None ELSE row.item
  /\ typed' = {}

VisitUpdate(a) ==
  \E p \in Renderings(UpdatePage(a), cached) :
    Show(calls, p, <<>>) /\ Reset(p.row) /\ cached' = Keeping(p, cached)

OnUpdate == page.name = "update" /\ form # None

TypeField(f, v) ==
  /\ Spend("click")
  /\ OnUpdate
  /\ form' = [form EXCEPT ![f] = v]
  /\ typed' = typed \union {f}
  /\ UNCHANGED <<serviceVars, tabVars, listVars, bidVars, done>>

Submit ==
  /\ Spend("submit")
  /\ UNCHANGED <<serviceVars, session, viewer, page, cached, listVars, bidVars, formVars>>

SubmitCreate(item) ==
  /\ Submit
  /\ page = CreatePage
  /\ Send(Call("create", [item |-> item]))

\* All fields are sent, those too that nobody typed into.  was and typed are
\* history: the car that the form was given, and what the user changed.
SubmitUpdate ==
  /\ Submit
  /\ OnUpdate
  /\ Send(Call("update", [auctionId |-> page.auctionId, item |-> form,
                          was |-> page.row.item, typed |-> typed]))

\* Edit and delete are offered to the seller -- and to nobody in particular when
\* the auction could not be loaded, for then user and seller are both undefined.
SellerButtons ==
  /\ OnDetails
  /\ page.user = IF page.row = Error THEN None ELSE page.row.seller

SubmitDelete ==
  /\ Submit
  /\ SellerButtons
  /\ Send(Call("delete", [auctionId |-> IF page.row = Error THEN None ELSE page.auctionId]))

\* The service grants what call i asks for.
Granted(c) ==
  /\ Authorized # None
  /\ c.kind \in {"update", "delete"} =>
       Exists(c.args.auctionId) /\ rows[c.args.auctionId].seller = Authorized

Watch(i) ==
  LET c == calls[i]
  IN  done' = IF c.kind \in {"create", "update", "delete"} /\ Granted(c)
              THEN done \union {[kind |-> c.kind, args |-> c.args]} ELSE done
-----------------------------------------------------------------------------
\* The user is told, and stays.
Toast(rest) == calls' = rest /\ UNCHANGED <<page, cached, listVars, bidVars, form, typed>>

LeaveFor(a, rest, kept) == VisitDetails(rest, a, kept) /\ UNCHANGED <<listVars, form, typed>>

ReceiveCreated(i) ==
  LET rest == RemoveAt(calls, i)
      id == calls[i].answer
  IN  /\ Answered(i, "create")
      /\ IF Failed(id) THEN Toast(rest) ELSE LeaveFor(id, rest, cached)
      /\ UNCHANGED <<serviceVars, budget, session, viewer, done>>

\* Mutant of Kept: nothing is revalidated.
KeptAnyway(anew) == cached

\* revalidatePath drops the pages that the browser has kept.
Kept(anew) == IF anew THEN {} ELSE cached

\* Mutant of AfterUpdate: the answer is not asked for an error.
AfterUpdateUnchecked(c, rest, anew) ==
  IF c.answer # Rejected THEN LeaveFor(c.args.auctionId, rest, Kept(anew)) ELSE Toast(rest)

AfterUpdate(c, rest, anew) ==
  IF ~ Failed(c.answer) THEN LeaveFor(c.args.auctionId, rest, Kept(anew))
  ELSE IF ~ anew THEN Toast(rest)
  ELSE /\ calls' = rest
       /\ page' = UpdatePage(page.auctionId)
       /\ Reset(UpdatePage(page.auctionId).row)
       /\ cached' = Kept(anew)
       /\ UNCHANGED <<listVars, bidVars>>

\* Whatever the response was, revalidatePath renders the page anew, for the user
\* of now, and the form is given the auction again -- if the user is still there.
ReceiveUpdated(i) ==
  LET anew == calls[i].left = "no" /\ calls[i].answer # Rejected
  IN  /\ Answered(i, "update")
      /\ AfterUpdate(calls[i], RemoveAt(calls, i), anew)
      /\ viewer' = IF anew THEN CurrentUser ELSE viewer
      /\ UNCHANGED <<serviceVars, budget, session, done>>

ReceiveDeleted(i) ==
  LET rest == RemoveAt(calls, i)
  IN  /\ Answered(i, "delete")
      /\ IF Failed(calls[i].answer) THEN Toast(rest)
         ELSE /\ IF OnHome THEN GoHomeAgain(rest) ELSE GoHome(rest, params)
              /\ UNCHANGED <<cached, bidVars, form, typed>>
      /\ UNCHANGED <<serviceVars, budget, session, viewer, done>>
-----------------------------------------------------------------------------
(* Properties *)

FormsTypeOK ==
  /\ form \in [Field -> Value] \union {None}
  /\ typed \subseteq Field

\* A form is left for the page of its auction, and the page of an auction for the
\* list, only when the service has granted what was asked: whether the token has
\* expired, somebody else has signed in, or the auction is gone.
SuccessMeansDone ==
  [][\A i \in DOMAIN calls :
       (ReceiveCreated(i) \/ ReceiveUpdated(i) \/ ReceiveDeleted(i)) /\ page'.name # page.name
         => [kind |-> calls[i].kind, args |-> calls[i].args] \in done]_page

\* A user who waits for the update to be done is then shown the auction as the
\* service has it, and not as the browser has kept it.
UpdateIsShown ==
  [][\A i \in DOMAIN calls :
       ReceiveUpdated(i) /\ calls[i].left = "no" /\ page'.name = "details"
         => page'.row = HandleResponse(GetAuctionById(page'.auctionId))]_page

\* An update changes only what its user has typed, unless the auction was changed
\* elsewhere since the form was given it.
UpdateKeepsTheRest ==
  [][\A i \in DOMAIN calls :
       LET c == calls[i]
           a == c.args.auctionId
       IN  c.kind = "update" /\ Serve(i) /\ rows[a].item = c.args.was
             => \A f \in Field \ c.args.typed : rows'[a].item[f] = rows[a].item[f]]_rows
=============================================================================
