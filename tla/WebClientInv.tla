---------------------------- MODULE WebClientInv ----------------------------
(***************************************************************************)
(* The inductive invariant of WebClient, in named parts: the types of what *)
(* the tab holds, what the calls in its queue and their answers say of the *)
(* services, and how lists, forms and pages agree with both.               *)
(***************************************************************************)
EXTENDS WebClient

(* Types *)

SomeCar == [Field -> Value]

\* A page of an auction that is undefined has no row.
SomePage ==
  {HomePage, CreatePage, Crashed}
    \union [name : {"details", "update"}, auctionId : AuctionId, row : Row \union {Error},
            user : User \union {None}]
    \union [name : {"details", "update"}, auctionId : {None}, row : {Error},
            user : User \union {None}]

SomeList ==
  [results : Seq([id : AuctionId, currentHighBid : Nat]), totalCount : Nat, pageCount : Nat]

\* A call of the kind with arguments in args; it has no answer, that of a failure,
\* or one in data.
CallOf(kind, args, data) ==
  [kind : {kind}, args : args, left : {"no", "page", "queue"},
   answer : {None, Error, Rejected} \union data]

SomeCall ==
  CallOf("search", Params, SomeList)
    \union CallOf("details", AuctionId, Row)
    \union CallOf("bids", AuctionId \union {None}, Seq(Bid))
    \union CallOf("place", [auctionId : AuctionId, amount : Offer], Bid)
    \union CallOf("create", [item : SomeCar], AuctionId)
    \union CallOf("update", [auctionId : AuctionId, item : SomeCar, was : SomeCar,
                             typed : SUBSET Field], {Done})
    \union CallOf("delete", [auctionId : AuctionId \union {None}], {Done})

\* Bids are numbered as they were stored; prices are those of bids.
ServicesType ==
  /\ clock \in Nat
  /\ rows \in [AuctionId -> Row \union {None}]
  /\ bids \in Seq(Bid)
  /\ \A i \in 1..Len(bids) : bids[i].id = i
  /\ prices \in [AuctionId -> Nat] /\ synced \subseteq AuctionId
  /\ \A a \in AuctionId : prices[a] \in {0} \union Amounts(PricedBids(a))

TabType ==
  /\ session \in Session
  /\ viewer \in User \union {None}
  /\ page \in SomePage
  /\ calls \in Seq(SomeCall)
  /\ cached \subseteq SomePage

ListType ==
  /\ params \in Params
  /\ list \in SomeList \union {NoList}
  /\ <<loading, fresh>> \in BOOLEAN \X BOOLEAN
  /\ shown \in [query : Params, by : {"page", "left", "nobody"}]

BidsType ==
  /\ bidList \in Seq(Bid)
  /\ <<open, bidsLoading>> \in BOOLEAN \X BOOLEAN
  /\ bidsOf \in AuctionId \union {None}
  /\ missed \subseteq 1..Len(bids)
  /\ OnDetails /\ open => page.row # Error

\* What an update form holds came with its page.
FormsType ==
  /\ form \in SomeCar \union {None}
  /\ typed \subseteq Field
  /\ page.name = "update" /\ form # None => page.row # Error

\* Toasts, and the calls that read an auction for one, are of auctions there are.
LiveType ==
  /\ connection \in {"off", "on", "closed"}
  /\ toasts \subseteq AuctionId \union {None}
  /\ announced \subseteq 1..Len(bids)
  /\ \A a \in toasts \ {None} : rows[a] # None
  /\ \A i \in 1..Len(calls) : calls[i].kind = "details" => rows[calls[i].args] # None

Types == ServicesType /\ TabType /\ ListType /\ BidsType /\ FormsType /\ LiveType
-----------------------------------------------------------------------------
(* The queue of calls *)

Attached(i) == calls[i].left = "no"

\* The answer of call i has come, and is neither an error nor a throw.
Succeeded(i) == calls[i].answer \notin {None, Error, Rejected}

\* Answers come in order; the searches and the updates that are waited for are
\* those of the page that is shown.
QueueInv ==
  \A i \in 1..Len(calls) :
    /\ calls[i].answer # None => i \in InFlight(calls)
    /\ Attached(i) /\ calls[i].kind = "search" => OnHome
    /\ Attached(i) /\ calls[i].kind = "update" => page.name = "update"
-----------------------------------------------------------------------------
(* The page of an auction *)

Distinct(bs) == \A j, k \in DOMAIN bs : bs[j].id = bs[k].id => j = k

\* Listed bids, and those in answers, are stored bids, each once.
ListedInv ==
  /\ Range(bidList) \subseteq Stored /\ Distinct(bidList)
  /\ \A i \in 1..Len(calls) : Succeeded(i) =>
       /\ calls[i].kind = "bids" => /\ Range(calls[i].answer) \subseteq BidsOn(calls[i].args)
                                    /\ Distinct(calls[i].answer)
       /\ calls[i].kind = "place" => calls[i].answer \in Stored

\* The bids of auction a that were notified, and not in vain, are all in bs.
HasNoted(a, bs) ==
  \A b \in Stored : b.auctionId = a /\ b.id \in announced \ missed => b \in Range(bs)

\* The same of every answer that is on its way, to whatever page: what is notified
\* meanwhile is notified in vain.
NotedInv ==
  /\ HasNoted(bidsOf, bidList)
  /\ \A i \in 1..Len(calls) :
       calls[i].kind = "bids" /\ Succeeded(i) => HasNoted(calls[i].args, calls[i].answer)
-----------------------------------------------------------------------------
(* Forms *)

\* Requests that succeeded were granted; an update sends what its form was given,
\* but for the fields that its user typed into.
SentInv ==
  \A i \in 1..Len(calls) :
    /\ calls[i].kind \in {"create", "update", "delete"} /\ Succeeded(i) =>
         [kind |-> calls[i].kind, args |-> calls[i].args] \in done
    /\ calls[i].kind = "update" =>
         \A f \in Field \ calls[i].args.typed : calls[i].args.item[f] = calls[i].args.was[f]

FormInv ==
  page.name = "update" /\ form # None =>
    \A f \in Field \ typed : form[f] = page.row.item[f]
-----------------------------------------------------------------------------
(* The home page *)

\* Prices in the list, and in answers, are those of bids.
Offered(x) == x.currentHighBid \in {0} \union Amounts(PricedBids(x.id))

PricesInv ==
  /\ list # NoList => \A x \in Range(list.results) : Offered(x)
  /\ \A i \in 1..Len(calls) : calls[i].kind = "search" /\ Succeeded(i) =>
       \A x \in Range(calls[i].answer.results) : Offered(x)

\* A search that the page waits for, and the last of those in a queue.
Waits(c) == c.kind = "search" /\ c.left = "no"

NoneWaits(cs) == \A j \in 1..Len(cs) : ~ Waits(cs[j])

LastWaits(cs, i) == i \in 1..Len(cs) /\ Waits(cs[i]) /\ \A j \in 1..Len(cs) : Waits(cs[j]) => j <= i

\* The last search is one for the parameters; with none, the list is theirs, or
\* somebody else's.
SearchesInv ==
  /\ \A i \in 1..Len(calls) : LastWaits(calls, i) => calls[i].args = Query(params)
  /\ ListShown /\ NoneWaits(calls) /\ shown.by = "page" => shown.query = Query(params)

\* The list that is shown is one.
ShownInv == ListShown => list # NoList

\* How many pages there are now.
PageCount == SearchItems(Query(params), Hits(Query(params))).pageCount

\* Page n is one of m pages; page 1 always is.
Within(n, m) == n = 1 \/ n <= m

\* As long as the page number is fresh, there is such a page: now, and in the list
\* of the parameters or the answer with it, neither of which has more pages than
\* there are now.
PagesInv ==
  fresh =>
    /\ Within(params.pageNumber, PageCount)
    /\ \A i \in 1..Len(calls) : LastWaits(calls, i) /\ Succeeded(i) =>
         calls[i].answer.pageCount <= PageCount /\ Within(params.pageNumber, calls[i].answer.pageCount)
    /\ ListShown /\ NoneWaits(calls) /\ shown = [query |-> Query(params), by |-> "page"] =>
         list.pageCount <= PageCount /\ Within(params.pageNumber, list.pageCount)

WebInv ==
  /\ Types /\ QueueInv /\ ListedInv /\ NotedInv /\ SentInv /\ FormInv
  /\ PricesInv /\ SearchesInv /\ ShownInv /\ PagesInv
=============================================================================
