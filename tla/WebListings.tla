---------------------------- MODULE WebListings ----------------------------
(***************************************************************************)
(* The home page: the parameters of the search, the list that was found,   *)
(* and the buttons of the page and of the navigation bar.                  *)
(***************************************************************************)
EXTENDS WebTab

CONSTANTS FilterButtons, OrderButtons, PageSizeButtons, \* what the buttons set
          SearchText,                                   \* what is typed, "" included
          DefaultPageSize

ASSUME ParamsAssumption ==
  /\ PageSizeButtons \union {DefaultPageSize} \subseteq Nat \ {0}
  /\ "" \in SearchText /\ DOMAIN Found = SearchText
  /\ OrderButtons \union {"make"} = DOMAIN Order
  /\ \A o \in DOMAIN Order : Order[o] \in Seq(AuctionId)

VARIABLES params,  \* the store of the parameters
          list,    \* the store of the auctions
          loading, \* the page waits for its first list
          shown,   \* history: which search the list is of, and who brought it
          fresh    \* history: the page number was chosen from a list that still holds

listVars == <<params, list, loading, shown, fresh>>

\* Mutant of InitialParams: pages are counted from zero.
InitialParamsFromZero ==
  [pageNumber |-> 0, pageSize |-> DefaultPageSize, searchTerm |-> "", searchValue |-> "",
   orderBy |-> "make", filterBy |-> "live", seller |-> None, winner |-> None]

InitialParams ==
  [pageNumber |-> 1, pageSize |-> DefaultPageSize, searchTerm |-> "", searchValue |-> "",
   orderBy |-> "make", filterBy |-> "live", seller |-> None, winner |-> None]

Params ==
  [pageNumber : Nat \ {0}, pageSize : PageSizeButtons \union {DefaultPageSize},
   searchTerm : SearchText, searchValue : SearchText, orderBy : DOMAIN Order,
   filterBy : FilterButtons \union {"live"},
   seller : User \union {None}, winner : User \union {None}]

EmptyList == [results |-> <<>>, totalCount |-> 0, pageCount |-> 0]

\* What setData makes of an error: every field of it is undefined.
NoList == [results |-> None, totalCount |-> None, pageCount |-> None]

\* Mutant of SetParams: the page number stays when something else changes.
SetParamsKeepingPage(ps, new) == [f \in DOMAIN ps |-> IF f \in DOMAIN new THEN new[f] ELSE ps[f]]

\* A new page number is all that changes; any other change goes back to page 1.
SetParams(ps, new) ==
  IF "pageNumber" \in DOMAIN new
  THEN [ps EXCEPT !.pageNumber = new.pageNumber]
  ELSE [f \in DOMAIN ps |->
          IF f = "pageNumber" THEN 1 ELSE IF f \in DOMAIN new THEN new[f] ELSE ps[f]]

\* The text in the search box is no part of the URL.
Query(ps) == [ps EXCEPT !.searchValue = ""]

SearchCall(ps) == Call("search", Query(ps))

ListInit ==
  /\ params = InitialParams
  /\ list = EmptyList
  /\ loading = TRUE
  /\ shown = [query |-> Query(InitialParams), by |-> "nobody"]
  /\ fresh = TRUE

\* The page has its list, and no other is on its way.
ListIsCurrent == ~ Pending("search") /\ shown = [query |-> Query(params), by |-> "page"]

\* History: page 1 exists; another page when the list it was chosen from holds.
Fresh(ps) == ps.pageNumber = 1 \/ (fresh /\ ListIsCurrent)
-----------------------------------------------------------------------------
\* Mutant of SetOnHome: the effect does not depend on the URL.
SetOnHomeOnce(ps) ==
  /\ OnHome
  /\ params' = ps
  /\ UNCHANGED <<page, calls, list, loading, shown, fresh>>

\* The effect of Listings runs again when the URL has changed.
SetOnHome(ps) ==
  /\ OnHome
  /\ params' = ps
  /\ IF Query(ps) # Query(params) THEN Send(SearchCall(ps)) /\ fresh' = Fresh(ps)
                                  ELSE UNCHANGED <<calls, fresh>>
  /\ UNCHANGED <<page, list, loading, shown>>

\* The home page is mounted with the parameters ps; the list of its last visit
\* is kept, but not shown before an answer is there.
GoHome(cs, ps) ==
  /\ Show(cs, HomePage, <<SearchCall(ps)>>)
  /\ params' = ps
  /\ loading' = TRUE
  /\ fresh' = Fresh(ps)
  /\ UNCHANGED <<list, shown>>

\* A navigation to the home page that is already shown drops searches which
\* nobody will make again.
GoHomeAgain(cs) ==
  /\ calls' = Detached(cs)
  /\ shown' = [shown EXCEPT !.by = "nobody"]
  /\ UNCHANGED <<page, params, list, loading, fresh>>

\* From the navigation bar, which every page has.
SetAndGoHome(ps) ==
  /\ page # Crashed
  /\ SetOnHome(ps) \/ (~ OnHome /\ GoHome(calls, ps))

Click == Spend("click") /\ UNCHANGED <<serviceVars, session, viewer, cached>>

\* What Listings renders below its filters.
ListShown == OnHome /\ ~ loading

Filters ==
  /\ Click /\ ListShown
  /\ \/ \E f \in FilterButtons : SetOnHome(SetParams(params, [filterBy |-> f]))
     \/ \E o \in OrderButtons : SetOnHome(SetParams(params, [orderBy |-> o]))
     \/ \E s \in PageSizeButtons : SetOnHome(SetParams(params, [pageSize |-> s]))

EmptyFilter ==
  /\ Click /\ ListShown
  /\ list.totalCount = 0
  /\ SetOnHome(InitialParams)

\* The pages around the current one, the one before and the one after.
PageButtons ==
  LET n == params.pageNumber
  IN  {p \in 1..list.pageCount : p \in (n - 3)..(n + 3)}
        \union {Max({n - 1, 1}), Min({n + 1, list.pageCount})}

AppPagination(n) ==
  /\ Click /\ ListShown
  /\ list.totalCount # 0
  /\ n \in PageButtons
  /\ SetOnHome(SetParams(params, [pageNumber |-> n]))

TypeSearch(text) ==
  /\ Click /\ page # Crashed
  /\ params' = [params EXCEPT !.searchValue = text]
  /\ UNCHANGED <<page, calls, list, loading, shown, fresh>>

Search ==
  /\ Click
  /\ SetAndGoHome(SetParams(params, [searchTerm |-> params.searchValue]))

Logo == Click /\ SetAndGoHome(InitialParams)

SetWinner ==
  /\ Click /\ viewer # None
  /\ SetAndGoHome(SetParams(params, [winner |-> viewer, seller |-> None]))

SetSeller ==
  /\ Click /\ viewer # None
  /\ SetAndGoHome(SetParams(params, [winner |-> None, seller |-> viewer]))
-----------------------------------------------------------------------------
SetData(answer) == IF answer = Error THEN NoList ELSE answer

\* A rejected promise leaves everything as it is, the loading page included.
\* An error is stored like a list; rendering it throws.
ReceiveSearch(i) ==
  LET c == calls[i]
      by == IF c.left = "no" THEN "page" ELSE "left"
  IN  /\ Answered(i, "search")
      /\ IF c.answer = Rejected
         THEN /\ shown' = IF c.left = "no" THEN [shown EXCEPT !.by = "nobody"] ELSE shown
              /\ UNCHANGED <<list, loading>>
         ELSE /\ list' = SetData(c.answer)
              /\ shown' = [query |-> c.args, by |-> by]
              /\ loading' = (loading /\ c.left = "page")
      /\ IF OnHome /\ ~ loading' /\ list' = NoList
         THEN page' = Crashed /\ calls' = <<>>
         ELSE UNCHANGED page /\ calls' = RemoveAt(calls, i)
      /\ UNCHANGED <<params, fresh, serviceVars, budget, session, viewer, cached>>

\* Mutant of SetCurrentPrice: every card of the list gets the price.
SetCurrentPriceOfAll(auctions, b) ==
  [i \in DOMAIN auctions |-> [auctions[i] EXCEPT !.currentHighBid = b.amount]]

\* The price is set without looking at the old one.
SetCurrentPrice(auctions, b) ==
  [i \in DOMAIN auctions |->
     IF auctions[i].id = b.auctionId THEN [auctions[i] EXCEPT !.currentHighBid = b.amount]
     ELSE auctions[i]]
-----------------------------------------------------------------------------
(* Properties *)

ListTypeOK ==
  /\ params \in Params
  /\ list # NoList =>
       /\ <<list.totalCount, list.pageCount>> \in Nat \X Nat
       /\ Range(list.results) \subseteq [id : AuctionId, currentHighBid : Nat]
  /\ <<loading, fresh>> \in BOOLEAN \X BOOLEAN
  /\ shown.by \in {"page", "left", "nobody"}

\* On the home page, once every search is answered, the list is the one of the
\* parameters that the page shows, however fast they were changed -- unless the
\* last answer was that of a page left before, or failed.
ListIsOfTheseParams ==
  ListShown /\ ~ Pending("search") /\ shown.by = "page" => shown.query = Query(params)

\* The page number is one that the list has, unless it was chosen from the
\* pages of an older list, or auctions have ended or gone since.
PageExists ==
  ListShown /\ ListIsCurrent /\ fresh => params.pageNumber <= Max({1, list.pageCount})

\* The bids whose amount a card of a may show: once the search has copied the row
\* of the auction service, it may be one that was turned away.
PricedBids(a) == {b \in BidsOn(a) : IsAccepted(b) \/ a \in synced}

\* A card shows no price but that of a bid on its very auction, of an accepted one
\* unless the search has copied the row of it, whatever notifications and answers
\* were lost, late or out of order.  (It may be a lower one than was shown.)
PriceWasOffered ==
  list # NoList => \A x \in Range(list.results) :
    x.currentHighBid \in {0} \union Amounts(PricedBids(x.id))

\* A user who has done no more than to ask for the auctions won sees some, if
\* there are any.
WonAuctionsAreShown ==
  LET asked == SetParams(InitialParams, [winner |-> viewer, seller |-> None])
      won == {a \in AuctionId : Exists(a) /\ rows[a].winner = viewer}
  IN  viewer # None /\ Query(params) = asked /\ ListShown /\ ListIsCurrent
        => (won # {} => list.totalCount > 0)
=============================================================================
