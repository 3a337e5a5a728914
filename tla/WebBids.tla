------------------------------ MODULE WebBids ------------------------------
(***************************************************************************)
(* The page of an auction: the list of bids, the form to place one, and    *)
(* the countdown to the end of the auction.                                *)
(***************************************************************************)
EXTENDS WebTab

CONSTANT Offer \* amounts that users offer

ASSUME OfferAssumption == Offer \subseteq Nat \ {0}

VARIABLES bidList,     \* the store's bids, of whatever auction, newest first
          open,        \* the store's answer to whether bids can be placed
          bidsLoading, \* the page waits for its bids
          bidsOf,      \* history: the auction whose bids the store was set to last
          missed       \* history: the ids of bids whose notification was no use

bidVars == <<bidList, open, bidsLoading, bidsOf, missed>>

BidsInit ==
  /\ bidList = <<>>
  /\ open = TRUE
  /\ bidsLoading = TRUE
  /\ bidsOf = None
  /\ missed = {}

Ids(bs) == {b.id : b \in Range(bs)}

\* Mutant of AddBid: the answer to a bid and its notification are both added.
AddBidTwice(bs, b) == <<b>> \o bs

AddBid(bs, b) == IF b.id \in Ids(bs) THEN bs ELSE <<b>> \o bs

\* Mutant of HigherBid: the test against the high bid so far is forgotten.
HigherBidUnordered(high, b) == IF IsAccepted(b) THEN b.amount ELSE high

HigherBid(high, b) ==
  IF high > b.amount THEN high ELSE IF IsAccepted(b) THEN b.amount ELSE high

HighBid(bs) == FoldLeft(HigherBid, 0, bs)

\* Among the calls cs, one that a page makes for the bids of auction a, or made
\* before it was left.
Fetching(a, cs) == \E i \in DOMAIN cs : cs[i].kind = "bids" /\ cs[i].args = a
-----------------------------------------------------------------------------
\* The effect that opens or closes the form: a date that is undefined is not
\* later than now.
OpenOn(remount, row, a) == row # Error /\ Live(a) /\ (remount \/ open)

\* The bids of a page whose auction could not be loaded are those of undefined.
BidsCall(p) == Call("bids", IF p.row = Error THEN None ELSE p.auctionId)

\* To p, the page of an auction.  A page that is already shown is only rendered
\* again, with the row p.row.  The store keeps the bids that it has.
GoToDetails(cs, p) ==
  LET remount == ~ Same(p, page)
      fetch == remount \/ BidsCall(p) # BidsCall(page)
  IN  /\ page' = p
      /\ calls' = (IF remount THEN Left(cs) ELSE Detached(cs))
                    \o (IF fetch THEN <<BidsCall(p)>> ELSE <<>>)
      /\ open' = OpenOn(fetch, p.row, p.auctionId)
      /\ bidsLoading' = (remount \/ bidsLoading)
      /\ UNCHANGED <<bidList, bidsOf, missed>>

VisitDetails(cs, a, kept) ==
  \E p \in Renderings(DetailsPage(a), kept) : GoToDetails(cs, p) /\ cached' = Keeping(p, kept)

\* The list is rendered again, and looks whether the auction is still open.
Rerender == open' = (open /\ (OnDetails => Live(page.auctionId)))

\* Mutant of ReceiveBids: loading ends with then, not with finally.
ReceiveBidsThen(i) ==
  LET c == calls[i]
  IN  /\ Answered(i, "bids")
      /\ calls' = RemoveAt(calls, i)
      /\ IF Failed(c.answer)
         THEN UNCHANGED <<bidList, bidsOf, missed>>
         ELSE /\ bidList' = c.answer
              /\ bidsOf' = c.args
              /\ missed' = IF Fetching(c.args, calls') THEN missed ELSE missed \ Ids(c.answer)
      /\ bidsLoading' = (bidsLoading /\ (c.left = "page" \/ Failed(c.answer)))
      /\ Rerender
      /\ UNCHANGED <<serviceVars, budget, session, viewer, page, cached>>

\* The store is set also for a page that was left: the page that is shown now then
\* lists the bids of another auction, and its own are gone.  A failure is only told.
ReceiveBids(i) ==
  LET c == calls[i]
  IN  /\ Answered(i, "bids")
      /\ calls' = RemoveAt(calls, i)
      /\ IF Failed(c.answer)
         THEN UNCHANGED <<bidList, bidsOf, missed>>
         ELSE /\ bidList' = c.answer
              /\ bidsOf' = c.args
              /\ missed' = IF Fetching(c.args, calls') THEN missed ELSE missed \ Ids(c.answer)
      /\ bidsLoading' = (bidsLoading /\ c.left = "page")
      /\ Rerender
      /\ UNCHANGED <<serviceVars, budget, session, viewer, page, cached>>

\* What stands below the bids: the form, or why there is none.
BidFormShown ==
  /\ OnDetails /\ ~ bidsLoading
  /\ open
  /\ page.user # None
  /\ page.user # page.row.seller

\* An amount that is not above the high bid of the list is refused on the spot.
SubmitBid(amount) ==
  /\ Spend("bid")
  /\ BidFormShown
  /\ amount > HighBid(bidList)
  /\ Send(Call("place", [auctionId |-> page.auctionId, amount |-> amount]))
  /\ UNCHANGED <<serviceVars, session, viewer, page, cached, bidVars>>

ReceivePlaced(i) ==
  LET c == calls[i]
  IN  /\ Answered(i, "place")
      /\ calls' = RemoveAt(calls, i)
      /\ bidList' = IF Failed(c.answer) THEN bidList ELSE AddBid(bidList, c.answer)
      /\ Rerender
      /\ UNCHANGED <<serviceVars, budget, session, viewer, page, cached, bidsLoading, bidsOf, missed>>

\* Mutant of CountdownCompletes: only the cards of the home page close the form.
CountdownCompletesAtHome ==
  /\ OnHome /\ open
  /\ ~ Live(page.auctionId)
  /\ open' = FALSE
  /\ UNCHANGED <<serviceVars, budget, tabVars, bidList, bidsLoading, bidsOf, missed>>

\* Countdowns of the cards on the home page complete without effect.
CountdownCompletes ==
  /\ OnDetails /\ open
  /\ ~ Live(page.auctionId)
  /\ open' = FALSE
  /\ UNCHANGED <<serviceVars, budget, tabVars, bidList, bidsLoading, bidsOf, missed>>
-----------------------------------------------------------------------------
(* Properties *)

BidsTypeOK ==
  /\ Range(bidList) \subseteq Stored
  /\ <<open, bidsLoading>> \in BOOLEAN \X BOOLEAN
  /\ bidsOf \in AuctionId \union {None}
  /\ missed \subseteq DOMAIN bids

\* No bid is listed twice, though the one who placed it hears of it twice, and
\* the broker may repeat itself.
NoDuplicateBids == Cardinality(Ids(bidList)) = Len(bidList)

\* The high bid of the page is the highest accepted of the listed bids, in
\* whatever order they came.
HighBidIsHighest ==
  HighBid(bidList) = Max({0} \union Amounts({b \in Range(bidList) : IsAccepted(b)}))

\* On the page of an auction that has ended, the form goes away by itself.
ClosesAtEnd ==
  OnDetails /\ ~ Live(page.auctionId) ~> ~ open \/ ~ OnDetails \/ Live(page.auctionId)

\* The page of an auction does not wait for its bids for ever, even if they
\* cannot be had.
BidsLoadingEnds == OnDetails /\ bidsLoading ~> ~ OnDetails \/ ~ bidsLoading
=============================================================================
