# CarAuction in TLA+

Formal models of CarAuction (`src/`): a car auction site made of .NET services
that share nothing but messages (RabbitMQ through MassTransit), one gRPC call and
one HTTP call, and a Next.js client.  The models are checked with TLC on small
instances; the theorems are checked with TLAPS for every value of the constants.

1. [The system](#1-the-system)
2. [The modules](#2-the-modules)
3. [The runs](#3-the-runs)
4. [The proofs](#4-the-proofs)
5. [What the checks found](#5-what-the-checks-found)
6. [What is not modelled](#6-what-is-not-modelled)
7. [Plan](#7-plan)

Paths below are relative to `src/`.

## 1. The system

| component | state | operations | talks to |
|---|---|---|---|
| **Bid service** (`src/CardAction.BidService`) | Mongo: `Auction` documents (seller, reserve price, end, `Finished`), `Bid` documents | `PlaceBid`; background loop `CheckAuctionFinished`; consumer of `AuctionCreated`; `GetBidsForAuction` (read) | gRPC to the auction service when it does not know an auction; publishes `BidPlaced`, `AuctionFinished` (no outbox) |
| **Auction service** (`src/CarAction.AuctionService`) | Postgres: `Auctions` and `Items`, MassTransit outbox tables | create, update, delete; consumers of `BidPlaced`, `AuctionFinished` and of three faults; gRPC lookup; seed data | publishes `AuctionCreated`, `AuctionUpdated`, `AuctionDeleted` through the outbox |
| **Search service** (`src/CarAction.SearchService`) | Mongo: `Item`, a flat copy of auction and item | five consumers; synchronisation over HTTP at start-up; the search query | reads the auction service over HTTP once |
| **Notification service** (`src/NotificationService`) | none | forwards three events to every SignalR client | web client |
| **Gateway**, **Identity** | routes; users | reverse proxy; login pages over Duende IdentityServer | all |
| **Web client** (`clients/web-app`) | zustand stores for auctions, bids and search parameters | fetches, forms, SignalR handlers | gateway, notification service |

How a sale comes about: the seller creates an auction; its row and its
`AuctionCreated` event are committed in one Postgres transaction, and the outbox
delivers the event at least once to the bid and search services.  A bidder's
`PlaceBid` reads the auction (from Mongo, else over gRPC), compares the offer
with the highest stored bid, stores the bid with a status, and publishes
`BidPlaced`, from which the auction and search services maintain their
`CurrentHighBid`.  Every five seconds the loop of the bid service looks for
auctions past their end, saves them as finished one by one, and publishes
`AuctionFinished` with the highest accepted bid.

### What is hard, and what makes each part correct

*Bid service.*  There are no transactions and no locks, and every `await` is a
point where others run: other requests, the loop, the consumer.  A request
reads the high bid and saves its own in two calls; it judges the deadline and
saves later; the loop saves `Finished`, then looks for the winner, then
publishes, and a crash or an exception in between is never made up for; an
`AuctionCreated` that comes again re-opens a finished auction.  Correct means:
a bid has the status it deserves; whoever is announced is eligible and beats
every bid that was accepted when the auction closed; results are not announced
at will; ended auctions close and requests are answered.

*Auction service.*  Entity Framework loads an entity, and `SaveChanges` writes
the columns that differ from the load, with no concurrency token.  Seller
requests, bid messages and result messages of one auction are handled
concurrently.  Correct means: rows and committed events tell the same story;
winner, amount and status of a sale fit together and a sale is not taken back;
the current high bid only rises.

*Search service.*  Whole documents are loaded and saved back by concurrent
handlers, events of one auction may arrive in any order, and the start-up
synchronisation overlaps with them.  Correct means: it converges to what the
auction service holds, when nothing overlaps.

*Notification service.*  Stateless: it forwards what it receives to whoever is
connected, without replay; the broker may repeat and reorder.

*Web client.*  A tab keeps three stores (search parameters, auctions, bids) that
outlive its pages.  Answers of server actions come late, sometimes when the
user is already on another page; notifications come in between, twice, out of
order or not at all; the session that a page was rendered with may be gone when
its form is submitted; Next.js shows pages from a cache.  Correct means: the list
is the one that was asked for; prices and high bids are those that were offered,
each bid once; a form is left only when the service did what was asked, and
changes only what its user changed; nothing waits for ever.

`PROJECT.json` lists every hazard at its line, with the properties that cover it
or the reason why none does yet.

## 2. The modules

| module | what it is |
|---|---|
| `BidService` | the bid service: requests, loop, consumer, crash |
| `AuctionHouse` | abstract specification: what the bid service promises to the rest of the system |
| `BidServiceInv` | the inductive invariant of `BidService`, in named parts |
| `BidServiceProofs` | theorems: types, the ledger of results |
| `BidPromiseProofs` | theorems: statuses, the deadline, winners, the implementation of `AuctionHouse` |
| `MCBidService` | instances of `BidService` for TLC |
| `AuctionService` | the auction service: controller, outbox, two consumers |
| `AuctionServiceInv` | the inductive invariant of `AuctionService`, in named parts |
| `AuctionServiceProofs` | theorems: types; what each save writes |
| `AuctionPromiseProofs` | theorems: rows and events, items, high bids, sales |
| `MCAuctionService` | an instance of `AuctionService` alone, for the run of section 5 |
| `AuctionSales` | the auction service composed with `AuctionHouse`, the promise of the bid service |
| `AuctionSalesInv` | the inductive invariant of `AuctionSales`, in named parts |
| `AuctionSalesProofs` | theorems: announced sales, high bids that cover them |
| `MCAuctionSales` | an instance of `AuctionSales` for TLC, in two scenarios |
| `SearchService` | the search service: five consumers, the synchronisation, the fault consumer of the auction service |
| `CarAuction` | auction service and search service composed |
| `CarAuctionInv` | the inductive invariant of `CarAuction`, in named parts |
| `CarAuctionProofs` | theorems: what the search shows, and when it mirrors the rows |
| `MCCarAuction` | instances of `CarAuction` for TLC |
| `WebServices` | the services as the web client sees them through the gateway: rows, bids, the search query |
| `WebTab` | a browser tab: session, page, calls of server actions |
| `WebListings` | the home page: search parameters, list, filters, pages, navigation bar |
| `WebBids` | the page of an auction: list of bids, form to bid, countdown |
| `WebForms` | the forms to create and update an auction, the button to delete it |
| `WebClient` | the client as a whole: live updates, ways between pages, specification |
| `WebClientInv` | the inductive invariant of `WebClient`, in named parts |
| `WebClientProofs` | theorems: types; lemmas about sequences, numbers, calls and answers |
| `WebPromiseProofs` | theorems: lists, prices, pages, bids and forms |
| `MCWebClient` | instances of `WebClient` for TLC, one per scenario |

### BidService

One action per call that reads or writes shared state.  A request goes through

```
idle --PlaceBid--> dated | grpc | rejected        DB.Find<Auction>, seller check
grpc --GrpcReply--> dated | rejected              GrpcAuctionClient.GetAuction
grpc --GrpcNull--> rejected                       any exception of that call
dated --CheckDeadline--> pricing | saving         auction.AuctionEnd < UtcNow
pricing --ReadHighBid--> saving                   highest bid of any status, the status
saving --SaveBid--> publishing                    DB.SaveAsync(bid)
publishing --PublishBid--> done                   Publish(BidPlaced)
any call but gRPC --FailRequest--> failed         it throws: 500, nothing undone
```

and the loop through `idle --CheckAuctions--> foreach --MarkFinished--> winner
--SelectWinner--> publish --PublishFinished--> foreach | idle`.
`ConsumeAuctionCreated` replaces the document of an auction, so it is open
again.  `Crash` drops the requests and the loop's place; the database stays.
`listing` is the part of the auction service that the gRPC fallback sees.

Points where a reader may look twice:

* `Bid.BidTime` is read when the bid is constructed and the deadline is compared
  with a second reading of the clock; `Tick` may come between them.  `bidTime`
  says when the bid was made, not when it was stored.
* the end that comes over gRPC went through `DateTime.ToString()`, which has no
  fraction of a second: `WholeSeconds`, with `Second` clock ticks in a second.
* the auction found over gRPC is not stored, so the next request asks again.
* the high bid is the maximum over bids of *every* status, `TooLow` and
  `Finished` ones included.
* the reserve price must be *exceeded* to be accepted.
* of several accepted bids with the highest amount, the query may return any
  (`TopAccepted`).
* auctions of the seed data (`Seeded`) have no `AuctionCreated`: they are found
  over gRPC, collect bids and are never closed.  No property speaks of them
  closing, since nothing in the repository says that they do.
* an exception in the loop is not caught; the host stops with it (the default of
  `BackgroundService`), so it is a `Crash`.
* `AuctionCreated` can come twice because of redelivery, and because the fault
  consumer of the auction service publishes it again after the search service
  has refused it (`AuctionCreatedErrorConsumer.cs`).
* `earlier` and `sealed` are history variables: no guard reads them.

External to the repository, and modelled from how it is used: the delivery of
messages, the passing of time, the process.

### AuctionHouse

The promise behind `BidService`, with neither requests nor clock nor database.
A book of bids that only grows, each entered with a status it deserves
(`Admissible`); closing an auction seals the bids accepted so far and makes the
house owe a result; announcing names an accepted bid that beats the sealed
ones, or nobody when none was sealed; a crash may make the house forget what it
owes.  `BidService!ImplementsAuctionHouse` is the refinement, with `book <-
bids`, `outcomes <- results` and `owed` computed from the loop's place.  The
abstract specification says deliberately *less* than the comments of the code
(section 5): accepted bids need not arrive in order, and a bid may still be
accepted after the closing.

### AuctionService

`rows` is what the database holds; a row is its item's columns, the current
high bid, and the columns that a result may change (`sale`).  `log` is the
sequence of events committed to the outbox, each in the transaction that
committed its row.  A controller request (`req`) and a message handler (`job`)
each keep what they loaded; the commit writes only the modified columns
(`Modified`), throws when the row is gone and a column must be written
(`DbUpdateConcurrencyException`), and with no modified column sends nothing.
`CreateAuction` is one step: it loads nothing.

* `FailRequest` and `FailJob` are a save that throws, an unreachable database
  and a stop of the process: the transaction leaves nothing behind.
* Each start (`Init`, `Restart`) runs `DbInitializer`, which inserts the seeds into a
  table without a row (`SeedData`), under ids that never change and with no event;
  when that throws, the exception is captured and the service runs without them.
  So a seeded auction that was deleted may exist again, and be deleted again,
  after a restart that found the table empty.  `seedings` is history: how many
  events had been committed at each seeding.  The properties about rows and events
  are stated over it, since no event tells of a seed.  A restart also ends the
  requests and handlers that are under way.  One process is assumed, and seeds
  keep their end: a later seeding gives a later one, which no decision of this
  service looks at.
* A message whose row does not exist makes the handler dereference null; it goes
  to the error queue (`DeliverToNoRow`).
* A handler whose message changes nothing (`Raises` false) ends with its load.
* The seller and the reserve price are constants: no operation changes them.
* `MaxDeliveries` bounds how often each message comes; more than one is a
  redelivery.

### AuctionSales

The auction service in the company of the bid service, for which its promise
stands: `House == INSTANCE AuctionHouse`.  `BidService` implements it, by
theorem, so whatever the bid service does is a behaviour of the house, and the
house has neither clock nor requests to multiply the states.  A message is
delivered to the auction service only once it was published (`Published`): a bid
that is in the book, or an outcome that was announced.  Bids are taken on every
auction that has had a row (`Known`), deleted ones included, because the bid service
has no consumer of deletions; an auction may be closed again, because a second
delivery of its creation replaces the document.

`mishaps` is a history variable: the auctions and kinds of message whose handler
saved over what it had not loaded, or, for a bid, ended without saving.  It
makes the properties say exactly when the code keeps them: two results of one
auction handled at once may leave a sold row as `ReserveNotMet`.

### SearchService

`items` are the Mongo documents.  `rows`, `log` and `seedings`, which the module
declares and never changes, are what the auction service answers to the `GET`, what
its outbox delivers, and what it has seeded.

* An event is delivered by its place in the log (`Take`), at any time after its
  commit and in any order; `taken` counts, so a second time is a redelivery.
* The consumers of created, updated and deleted events are one database call
  each, hence one action each.  An update of a document that is not there
  matches nothing; a creation replaces whatever is stored.
* A creation with make Saab throws (`RefuseSaab`).  The resulting fault (`faults`)
  reaches `AuctionCreatedErrorConsumer` in the auction service (`Republish`),
  which publishes the event as a Volvo (`reissued`), and that is consumed like
  any creation (`ConsumeReissued`), perhaps more than once.  No row changes.
* A consumption may fail: before the database is initialised, while it is out of
  reach, or because a write was not acknowledged (`AuctionUpdatedConsumer.cs:29`,
  `AuctionDeletedConsumer.cs:24`).  It is retried five times, 5 ms apart
  (`Program.cs:38`, whose comment says seconds), and then lies in the error queue;
  the fault falls into the default branch of `AuctionCreatedErrorConsumer` or into
  one of the two other fault consumers, which log it.  That is `LoseEvent`: the
  delivery is used up and nothing is stored.  The republished Volvo and the fault
  of a refused Saab may be lost in the same way.  A failing attempt that had its
  effect, and a retry after it, are two deliveries (`Take`).
* The consumers of bids and results load a document (`Hold`), change it, and
  save the *whole* of it (`SaveDocument`), which inserts it when it is gone.  One
  that finds no document dereferences null, and its message is lost (`Ignore`).
* The synchronisation asks for the latest `UpdatedAt` in its own documents,
  GETs the rows updated after it, and saves them one by one (`FindLastUpdated`,
  `GetItems`, `SaveItem`).  `UpdatedAt` is set when a row is made and never again, so a
  place in the log stands for it (`updatedAt` of a row): event *i* is at 2*i*, and a
  seeding between two events.
  The timestamp loses its fraction of a second in the query string, so the
  newest stored auction may be sent again or not: `fraction`.  An exception
  starts it again or ends it (`FailSync`); `Restart` starts it anew.

### CarAuction

`CarAuction` extends `SearchService` and instantiates `AuctionService` over the
same `rows` and `log`: a step is one of either service.  The messages of the bid
service are the constants `BidPlaced` and `AuctionFinished`, delivered to either
consumer independently.

The two services agree only when nothing overlaps, and most of what the code
allows is an overlap.  So that the property can say which, a history variable
`calm` keeps the auctions that no step has *disturbed*: an event taken again or
before an earlier one, or lost; a handler overtaken between load and save; a
synchronised row saved that is out of date; two overlapping requests of the
seller; an auction seeded again after its deletion.  `Settled(a)` says that every
event of `a` was taken.  A second one, `orderly`,
keeps the auctions none of whose results the auction service has saved over
another that it had not loaded: such a save writes only the columns that it
modified, and may leave the winner of one result with the amount of another
(two handlers and three results are enough), and the synchronisation
copies what the row says.  No guard of either service reads either of them.

### The web client

`WebServices` <- `WebTab` <- `WebListings`, `WebBids` <- `WebForms` <- `WebClient`: each
extends the one before.  The model has one tab.  What other tabs, clients and
machines do to its session and to the services are actions of their own
(`SignInElsewhere`, `OthersBid`, `EditElsewhere`, `DeleteElsewhere`).

*The services* (`WebServices`) handle a request in one step; their inside is the
other modules' matter.  `Outcome` is what a request leads to: a response, and the
rows and bids after it.  `SearchItems` is the query of `SearchController`: filter,
seller, winner, text, order, page.  The search is behind in the prices only
(`prices`); rows are seen at once.  A price follows the messages of accepted bids,
in any order (`SearchTakesBid`), and at a start of the search service it becomes the
row's (`SearchSyncs`), which is the amount of a bid of any status: the auction
service takes the first bid that it hears of as it is (`BidPlacedConsumer.cs:25`).
`synced` is history: the auctions whose document was copied so.  `Pick` takes the
elements at some positions of
a sequence in order (`InOrder` lists the positions), for the auctions that match
(`Hits`) and for the bids of an auction.  The text score, by which a search for text
is ordered first, is left out: a found text is an arbitrary set of auctions in
the chosen order.

*A tab* (`WebTab`) is `session` (the cookie; `valid` says whether the access token
in it still is), `viewer` (the user that the layout was rendered for), `page` (with
the row and the user it was rendered with), `calls` and `cached`.

* Next.js runs the server actions of a tab one after the other (`InFlight`).  A
  navigation drops those not yet sent and leaves the one that was sent behind
  (`Left`, `Detached`): its answer still reaches the handler that waits for it.
  Answers are out of order across a navigation only.
* A page visited half a minute ago may be shown again as it was (`Renderings`).
  `revalidatePath` empties that cache and renders the page and the layout anew,
  for the user of now (`Kept`, `AfterUpdate`, `ReceiveUpdated`).  A layout for
  another user makes the effect of `SignalRProvider` stop the connection and start
  the same one while it is stopping, which fails: `connection = "closed"`.
* `Fail` is an error of the service or a throw, before or after the service has
  handled the request.  A response that is not ok is `Error`, a value like any
  other to the caller; a throw is `Rejected`.
* `Load` is a full load: of what was sent, the services have handled it before, or
  never will; the stores start anew.

*The home page* (`WebListings`).  `SetParams` and `Query` decide whether the effect
of `Listings` runs.  `setData` stores an error as a list without fields (`NoList`),
and rendering that throws (`Crashed`); a rejected call leaves everything as it
was, the first "loading..." included, since there is no `catch`.  The page number
may be chosen from the pages of an older list; `fresh` is history that says so.

*The page of an auction* (`WebBids`).  One list in the store, whatever auction it
belongs to: it is shown until the next answer, and every notified bid is added to
it.  Leaving the page does not cancel its fetch: when the answer comes, the store
is set to the bids of the auction that was left, under the page that is shown.
`bidsOf`, the auction whose bids the store was set to last, and `missed` are
history, for `NotedBidsStay`.  An auction that could not
be loaded has an undefined id, end and seller: its bids are fetched for
`undefined`, the form is closed, and edit and delete are offered to a visitor
who is not signed in (`SellerButtons`).  The form to bid trusts the list it has.

*The forms* (`WebForms`) keep the fields as they were when the page was rendered,
and send all of them.  Their handlers navigate when the answer comes, also when
the user has left.  `done` (what the services granted) and `typed` are history.

*Live updates* (`WebClient`).  `BidPlaced` is the notification of a stored bid, at any
time after it was stored, again if the broker repeats itself, or never.
`AuctionCreated` and `AuctionFinished` show toasts, which the model never removes.
The connection is lost and made again, or given up (`Disconnect`).

### The mutants

Definitions whose comment starts with "Mutant of" are the code with a plausible
mistake: they stand before the definition that they change and are used nowhere
in the specification.  `PROJECT.json` names, for every property of a passing run,
the mutant that violates it: it shows that the property depends on what the
code does.

## 3. The runs

Run one with `tlc -workers 2 -config <cfg> <module>`.

| run | cfg | shows |
|---|---|---|
| `bid_safety` | `BidSafety.cfg` | the safety properties of the bid service and its refinement of `AuctionHouse` |
| `bid_liveness` | `BidLiveness.cfg` | auctions close, results are announced, requests are answered |
| `auction_safety` | `AuctionSafety.cfg` | rows, events, seedings and sales of the auction service, with the bid service's promise behind its messages |
| `car_handlers` | `CarHandlers.cfg` | what the search shows while its handlers race |
| `car_events` | `CarEvents.cfg` | the search mirrors the auction service, and shows every creation that is not lost |
| `web_client` | `WebClient.cfg` | lists, prices, bids and forms of a browser tab fit together; nothing waits for ever |
| `bid_accepted_is_higher`, `bid_accepted_once_finished`, `bid_finished_unpublished`, `auction_high_bid_falls`, `car_no_saab`, `web_won_auctions` | one each | a comment of the code and what the code does disagree: TLC finds the behaviour (section 5) |

### Bid service

`BidSafety.cfg`: one auction with reserve price 1 that ends at tick 1 (in the
middle of a second, `Second = 2`), two requests of two users with amounts 1 to 3,
the clock up to 2, two deliveries of `AuctionCreated`, one crash.  Two requests
are enough for every race between bids, which are pairwise; amounts on, above
and twice above the reserve price give every status and every order of two
offers; the clock passes before, at and after the end; the second delivery
re-opens the auction, and one crash hits every point of the loop.  About two
million states.  Symmetry permutes the requests: their names are only compared,
and the run has no liveness property.

`BidLiveness.cfg`: two auctions that the loop may close in one batch or in two,
a seeded one, one request, one crash, no symmetry.

| property | says |
|---|---|
| `AtMostOneResultPerDelivery` | no more results than deliveries of `AuctionCreated` |
| `ResultsImprove` | an auction that is announced again never gets a worse result |
| `EligibleWinner` | a winner is stored, accepted, above reserve, not the seller's, made in time |
| `TooLowIsOutbid` | a refusal as too low is justified by another stored bid |
| `AcceptedBeatsEarlier` | an accepted offer beats all bids stored before its request arrived |
| `NotTurnedAwayEarly` | nobody is turned away before the end, rounded down to the second |
| `PublishedAreStored` | only stored bids are published |
| `ImplementsAuctionHouse` | refinement |
| `EndedAuctionCloses` | an open auction past its end is closed in the end |
| `KnownAuctionIsAnnounced` | without a crash, a known auction gets a result |
| `BidAnswered` | a request is answered; a stored bid is published unless its request failed |

*Fairness.*  Weak fairness on each request's pending call: an awaited call
returns or throws, and ASP.NET then continues the handler.  `SaveBid` and
`PublishBid` are fair only together with `FailRequest`, since the driver may
throw instead of succeeding; and when the gRPC call fails, `GetAuction` returns
null.  Weak fairness on the loop, which runs for as long as the host, and on the
clock.  The loop's own calls have no failing alternative under fairness other
than `Crash`, which is where an exception leads.  Nothing is assumed of clients,
of sellers, of the broker's deliveries, or of crashes.  Restart is part of
`Crash`, so the claim about the loop presumes that somebody starts the process again.

### Auction service

`AuctionSafety.cfg` (module `MCAuctionSales`): two scenarios, which the first start
decides between.  In both, two overlapping controller requests, restarts at any
time, columns with two values.

* `Trading`: no start has managed to seed.  One auction is created, with two bids
  above the reserve price, two concurrent handlers, two outcomes, each sale
  delivered up to twice and every other message once, three committed events; one
  column is changed.  Two of each actor suffice for a load and a save overlapping
  another's; three events hold create, update and delete of one auction; two
  outcomes are the fewest that differ: nobody and a winner, or two winners.  With two
  bids the better one can come before or after the other, before or after its own
  sale, and after the closing.  What the column holds at first is the same for
  all that is said, so it is one value.
* `Keeping`: one auction is seeded, another may be created; nobody bids.  Four events
  hold create, update and delete and an update after it, or two lives of the seeded
  auction; two columns let two updates write different ones.

Symmetry permutes requests and handlers, which are only compared.  Six hundred
thousand states.  `CHECK_DEADLOCK FALSE`, because the services wait for requests
when the bounds are used up.  Refused bids, bids on seeded auctions, and any number
of deliveries are in the theorems of section 4, which have no bounds.

| property | says |
|---|---|
| `RowIffAnnounced` | a row exists where a creation or a seeding was committed and no deletion since |
| `EventsFormALife` | created first and once, deleted once; after that at most an empty update, until a restart seeds the auction again |
| `ItemWasAnnounced` | a row holds no value that neither its seed nor an event has told of |
| `SaleWasAnnounced` | a row's sale is one announced outcome, winner and amount of the same bid, and `Finished` says that there is one, unless a result was saved over another |
| `HighBidCoversSale` | once all bids are handled without a mishap, the high bid is not below the sold amount |
| `SaleIsKept` | a saved sale is not taken back by anybody's older load |
| `HighBidFallsOnlyWhenOvertaken` | the high bid falls only through a lost update between two handlers |

### Auction and search service

`CarHandlers.cfg`: one auction, one request, two committed events, two handlers of
the search service and one of the auction service; two accepted bids, which may
come in either order, and one sale, each delivered once to the search.  Every
race of two loads and saves, of one with a deletion or a late creation, and of
one with the synchronisation is in it; three handlers add no new pair.
Symmetry permutes the handlers.  About 800 thousand states.

`CarEvents.cfg`: one auction to be created and a seeded one, two overlapping
requests, two events each delivered up to twice, one restart, no bids.  Two
events give create-then-update, create-then-delete and events of two auctions, in
and out of order; the second delivery gives a duplicate before or after the other event;
the restart gives a synchronisation with an older list.  Every event may be lost,
and the auction service restarts at will, seeding again when it finds no row.

Both: one column, the make, with Saab and Volvo as its values.  `CHECK_DEADLOCK
FALSE`, because all is quiet when the bounds are used up.

| property | says |
|---|---|
| `ShowsWhatWasAnnounced` | a high bid shown was bid; a winner shown was announced with that amount, unless the row has its sale from two results |
| `NothingIsTakenBack` | bids and results shown are lost only to a late or repeated creation, to the synchronisation, or to an overtaken handler |
| `DeletedStaysDeleted` | what is not shown comes in only by creation, synchronisation, or an overtaken handler |
| `SearchMirrors` | auctions that are calm and settled exist in both services with the same item |
| `CreatedIsShown` | every created auction is shown in the end, a Saab as a Volvo, unless it is deleted or its creation ended in an error queue |

*Fairness* (`CarFairSpec`): weak fairness of each event's deliveries
(`EventStep(i)`), fault and republication included: outbox and broker deliver at
least once.  A delivery need not succeed, since `LoseEvent` is one of the steps: it
is consumed or lost.  Nothing else is obliged to happen; in particular not the
synchronisation, the handlers, or the seller.

### Web client

`WebClient.cfg`: four auctions (one of `u1`'s that ends at tick 1, one that has ended
and that `u1` has won, one of `u2`'s that goes on, one still to be created), two
users, two fields with two values, offers 1 and 2, pages of 1 or 2 auctions (the
code has 4, 8 and 12, with a default of 12), two orders, all three filters, two
search texts.  `Soon`, the six hours, is one tick.  What may happen is bounded by a
budget for each activity, and the initial states are the thirteen budgets of
`MCWebClient`, each a scenario around one part of the client: browsing and
clicking, bidding and closing, the search service starting, failing, returning to a page, announcing, selling,
typing, expiring, leaving, a bid whose session is gone.  A navigation and
three clicks are needed for answers out of order; two visits and a return for
late bids; two submissions, an edit elsewhere and a failure for the forms.
About 600 thousand states.  No symmetry: the run checks liveness.
`CHECK_DEADLOCK FALSE`, because all is quiet when the budget is used up.

| property | says |
|---|---|
| `ListIsOfTheseParams` | once every search is answered, the list is that of the parameters |
| `PageExists` | the page number is one of the list's, unless the list has changed since |
| `PriceWasOffered` | a card shows a bid on its own auction, an accepted one unless the search has copied the row, whatever was lost or late |
| `NotedBidsStay` | a notified bid stays in the list of its auction, with the exceptions below |
| `NoDuplicateBids` | no bid is listed twice |
| `HighBidIsHighest` | the high bid of the page is the highest accepted one, in whatever order they came |
| `SuccessMeansDone` | a form is left only when the service has granted what was asked |
| `UpdateIsShown` | after an update its user sees the auction as it is, not as it was cached |
| `UpdateKeepsTheRest` | an update changes only what was typed |
| `ClosesAtEnd` | the form to bid goes away when the auction ends |
| `BidsLoadingEnds` | the page stops waiting for its bids |

`NotedBidsStay` does not claim three things, because the code does not do them.  (1) A
bid notified while the tab was not listening, or whose handler threw, is not
listed.  (2) A bid notified while the bids of its auction are being fetched, for
whatever page, may be overwritten by the answer, until they are fetched again and no
older answer overtakes that.  (3) When the late answer to a page that was left comes
last (`BidList.tsx:39-44` does not cancel it), the page that is shown lists the bids of
the other auction, and its own, notified ones included, are gone.  The hazard at
that line is thus not ruled out by the code: the property says what is left.

*Fairness.*  Weak fairness of `Respond` (a server action that was sent is handled;
it may fail instead), of `Receive` (an answer reaches whoever waits for it) and of
`CloseForm` (the countdown ticks in every tab).  Nothing is assumed of users, of
the hub, of the broker, of the clock or of the search.

## 4. The proofs

Eight modules hold theorems; `tlapm <module>.tla` checks one of them.  Each chain
`…Inv` <- `…Proofs` starts with the parts of an inductive invariant, every one
of which TLC has checked as an invariant of a run before it was proved.

### Bid service

The assumptions are those that `BidService` states: amounts and reserve prices
are integers, ends and bounds naturals, a second at least one tick, `Seeded` a
set of auctions, `None` neither a bid nor an auction.  Nothing is assumed of the
number of requests, users, auctions, amounts, deliveries or crashes.

The invariant is `BidServiceInv!IInv`, in five parts:

* `TypeOK`.  Among the types: a request in flight holds a bid under its own id.
* `LedgerInv`.  Results + results owed + open documents never exceed the
  deliveries of `AuctionCreated`.  `AtMostOneResultPerDelivery` alone is not
  inductive: what forbids a second result is that the document is no longer open
  and nothing is owed.  The loop marks documents from a list that it read
  earlier, so a separate conjunct says that every auction in `batch` is open.
* `BookInv` and `RequestInv`.  `Sound(b)` is what the status of a stored bid
  promises; `Knows` is what a request knows of its bid at each place, above all
  that the bids stored before its arrival are lower once it has been priced as
  accepted.  `bids` only grows, so what is known stays true.
* `TimelyInv`.  A refusal as late is just because of what a request held when it
  was judged: its end is never earlier than the whole second of the auction's
  (`WholeSeconds` of the gRPC reply, or the end itself), and once the clock has
  passed that end it stays past it.  `BookInv` says nothing of refusals as late,
  so this is a part of its own.
* `ClosingInv`.  Sealed bids are accepted bids; results published are accepted
  bids or nobody; the winner that the loop holds beats the sealed bids *and every
  earlier result*, since an earlier winner is itself an accepted bid.

| theorem | module | property |
|---|---|---|
| `TypeCorrect` | `BidServiceProofs` | `TypeOK` |
| `LedgerBalances`, `AtMostOneResult` | `BidServiceProofs` | `AtMostOneResultPerDelivery` |
| `BidsDeserveTheirStatus` | `BidPromiseProofs` | the invariant of requests |
| `TooLow`, `RealTimeOrder`, `NothingInvented` | `BidPromiseProofs` | `TooLowIsOutbid`, `AcceptedBeatsEarlier`, `PublishedAreStored` |
| `NobodyTurnedAwayEarly` | `BidPromiseProofs` | `NotTurnedAwayEarly` |
| `ClosingKeepsPromises`, `ResultsOnlyImprove`, `WinnersAreEligible` | `BidPromiseProofs` | the invariant of the loop, `ResultsImprove`, `EligibleWinner` |
| `Implementation` | `BidPromiseProofs` | `ImplementsAuctionHouse` |

Every proof that a step preserves an invariant has one step per action.  The
refinement shows that `Init` implies the abstract `Init`, that `SaveBid` enters a
bid, `MarkFinished` closes, `PublishFinished` announces, `Crash` forgets, and
that every other action stutters.

### Auction service

The assumptions are those of `AuctionService`: amounts and reserve prices are
integers, a result has a winner exactly when it has an amount, `None` (null) is
none of the rows, items, requests, handlers, values, amounts or users, and the
requests are finitely many (each of those in flight counts against `MaxEvents`,
the bound on events).  Nothing is assumed of how many auctions, columns,
requests, handlers, messages or deliveries there are; in particular an auction
may have several distinct results here.

The invariant is `AuctionServiceInv!IInv`:

* `TypeOK`.  A save writes one column of the row that is stored, over whatever
  others wrote: `UpdateWrites`, `HighBidWrites` and `ResultWrites` say which, and
  the rest of the argument rests on them.
* `LifeInv`.  `RowIffAnnounced` and `EventsFormALife` hold each other up: a
  deletion needs a row, which was created or seeded after the last one.  A creation
  must not meet anything about its auction, hence `KnownInv`: events, requests and
  handlers are about auctions that were created or seeded; `SeedInv` places the
  seedings in the log.
* `BidJobInv`.  A handler holds a bid because it raises what was loaded.  If what
  was loaded is still there, the save raises it.
* `SoldInv`.  No sold auction is live.  The save of a result may leave the status
  out, because it equals the status that was loaded; so the invariant also says
  that whatever a handler has loaded as concluded is concluded still.
* `ItemWasAnnounced` is inductive, because an update writes only the columns that
  it tells of: a column that two requests wrote has the value of one of them,
  and both have committed an event (`Tells`).  That needs `RoomInv`: a request in
  flight always has room in the log for its event.

| theorem | module | property |
|---|---|---|
| `AuctionTypeCorrect` | `AuctionServiceProofs` | `TypeOK` |
| `RowsAreAnnounced`, `EventsAreLives` | `AuctionPromiseProofs` | `RowIffAnnounced`, `EventsFormALife` |
| `ItemsWereAnnounced` | `AuctionPromiseProofs` | `ItemWasAnnounced` |
| `HighBidIsRaised` | `AuctionPromiseProofs` | `HighBidFallsOnlyWhenOvertaken` |
| `SalesAreKept` | `AuctionPromiseProofs` | `SaleIsKept` |
| `AuctionInvariant` | `AuctionPromiseProofs` | `IInv` as a whole |

### Auction service and bid service

`SalesAreService` and `SalesAreHouse` show that `AuctionSales` is a behaviour of
either part, so the theorems about each of them hold of the composition.  The
assumptions are those of both parts, and that the messages are what the house can
publish (`UniverseAssumption`).  The invariant is `AuctionSalesInv!SalesInv`, on top of
the auction service's:

* `HouseInv`.  Whatever is announced is an accepted bid of the book, and accepted
  bids exceed the reserve price; so a sale is `Finished`, never `ReserveNotMet`.
* `MessageInv`.  A delivered message had been published, and what a handler holds
  had been delivered.
* `AmountInv`.  `SaleWasAnnounced` excuses auctions with a mishap, but a handler that
  meets no mishap compares with what it loaded, mishaps or not.  Every amount in
  a row or in a handler is therefore one that was announced.
* `HandledInv`.  An accepted bid that was delivered is in a handler, or covered by
  the current high bid, unless there was a mishap.  `HighBidCoversSale` follows: the
  winner's bid is one of those that were delivered.

| theorem | module | property |
|---|---|---|
| `SalesAreService`, `SalesAreHouse` | `AuctionSalesProofs` | the composition is a behaviour of its parts |
| `SalesInvariant` | `AuctionSalesProofs` | `SalesInv` as a whole |
| `SalesWereAnnounced` | `AuctionSalesProofs` | `SaleWasAnnounced` |
| `HighBidCovers` | `AuctionSalesProofs` | `HighBidCoversSale` |

### Auction service and search service

The theorems about the auction service are cited through an instance of their
module (`Proved`), after `CarIsAuction` has shown that its assumptions and its
specification hold in `CarAuction`.  The assumptions are those of both services
(`AuctionAssumption` repeats the first one's, because an instance inherits none).
The invariant is `CarAuctionInv!CarInv`:

* `SearchInv`.  Types; what the events look like to their consumer; refused
  creations (`Waiting`) are creations of Saabs that were taken; documents belong to
  auctions that were created or seeded.  `WorkInv`: what a handler will save
  extends what it loaded, so a save that takes something back has been overtaken.
* `ToldInv`.  What a row, a document, a synchronised row or a handler's document
  says of bids and sales was told by a message.  `ShowsWhatWasAnnounced` speaks of
  documents alone, and they are copied from all the others.
* `CalmInv`.  `SearchMirrors` speaks of auctions whose events were all taken; the
  invariant says what is true of an undisturbed auction while they are being
  taken.  Events take effect in order (`InOrder`), a creation that was refused
  included: it is in one place, and nothing later is taken before its Volvo.  The
  row is the last event's item and requests hold that item (`RowIsLast`); its
  seeding, if it has one, came before its events (`SeededFirst`).  The
  document exists from the effect of the creation to the deletion (`ShownIsTaken`),
  with the item of the last event taken (`ItemIsLastTaken`).  No handler holds a
  document that was changed since (`Overtaken`).

| theorem | module | property |
|---|---|---|
| `CarIsAuction` | `CarAuctionProofs` | the composition is a behaviour of the auction service |
| `SearchTypeCorrect` | `CarAuctionProofs` | `SearchTypeOK` |
| `NothingTakenBack`, `DeletedStays` | `CarAuctionProofs` | `NothingIsTakenBack`, `DeletedStaysDeleted` |
| `ShownWasAnnounced` | `CarAuctionProofs` | `ShowsWhatWasAnnounced` |
| `MirrorsRows` | `CarAuctionProofs` | `SearchMirrors` |
| `CarInvariant` | `CarAuctionProofs` | `CarInv` as a whole |

### Web client

The assumptions are those of the web modules: auctions, users, fields and values
are any sets; listed rows have their types, ends, reserve prices and page sizes
are naturals (page sizes not 0); `None` (null and undefined) is none of the users,
auctions, rows or numbers, nor an answer; every order that can be chosen is a
sequence of auctions.  A found text is any set of auctions, and a session any user and
validity.  Nothing is assumed of the budgets, so the theorems are about any
number of clicks, requests, failures and notifications.

The invariant is `WebClientInv!WebInv`:

* `Types`.  Every call in the queue has arguments and an answer of its own kind.
  That is what the handlers rely on, and it holds because an answer is made
  by the service from rows and bids, while the call waits (`ReadOutcome`,
  `PlaceOutcome`, `CreateOutcome`, `ChangeOutcome`).
* `QueueInv`.  Only the call that is in flight has an answer; searches and updates
  that are waited for are those of the page that is shown.  `Journeys` says of
  every step where the calls in the queue come from: they are new, or were in it,
  at most left behind or failed since; and those that were left behind are never
  waited for again.
* `ListedInv`, `NotedInv`.  Listed bids are stored bids, each once, and hold whatever
  was notified while the page listened.  The page takes over whole answers, so
  the same is said of answers that have come and not been received.
* `SentInv`, `FormInv`.  A request that succeeded was granted.  The update form holds
  what its page was rendered with, but for the fields that were typed into, and a
  call that was sent holds what its form held then.
* `PricesInv`.  Prices in the search, in the list and in answers are those of bids that
  may be shown (`PricedBids`): stored bids and `synced` only grow, so an answer does
  not become wrong by waiting.
* `SearchesInv`.  `ListIsOfTheseParams` speaks of the moment when all is answered; until
  then it is the *last* search waited for that has the parameters of now
  (`LastWaits`), and every answer before it is overwritten.  This is where the
  order of the queue matters.
* `ShownInv`, `PagesInv`.  A list is shown only if there is one.  As long as the
  page number is fresh, the number of pages in the list, or in the answer on its
  way, is at most what it would be now: a tick of the clock or the deletion of an
  auction ends `fresh`, and everything else lets the number grow (`PagesGrow`).

| theorem | module | property |
|---|---|---|
| `TypesAlways`, `WebTypeCorrect` | `WebClientProofs`, `WebPromiseProofs` | `Types`, `WebTypeOK` |
| `WebInvariant` | `WebPromiseProofs` | `WebInv` as a whole |
| `ListsAreOfTheirParams`, `PagesExist` | `WebPromiseProofs` | `ListIsOfTheseParams`, `PageExists` |
| `PricesWereOffered` | `WebPromiseProofs` | `PriceWasOffered` |
| `NotedStay`, `ListedOnce` | `WebPromiseProofs` | `NotedBidsStay`, `NoDuplicateBids` |
| `HighBidIsTheHighest` | `WebPromiseProofs` | `HighBidIsHighest` |
| `LeftWhenDone`, `UpdatesAreShown`, `UpdatesKeepTheRest` | `WebPromiseProofs` | `SuccessMeansDone`, `UpdateIsShown`, `UpdateKeepsTheRest` |

`HighBidIsHighest` is about a fold over the list, as the code's `reduce` is.  The
library defines it as *some* function that satisfies the recursion, so the proof
shows that the highest accepted amount at each set of positions satisfies it, and that
no other function does: of the positions where another one differed, a smallest
set would have a smaller one (`HighBidHighest`).

### Only model-checked

The liveness properties: `EndedAuctionCloses`, `KnownAuctionIsAnnounced`, `BidAnswered`,
`CreatedIsShown`, `ClosesAtEnd` and `BidsLoadingEnds`.  Fairness and ENABLED are out of the
prover's reach.  Every other property of a passing run is a theorem: the
invariants, the action properties and the refinement.

## 5. What the checks found

Six comments say more than the code does.  Each has a run that ends in TLC's
counterexample.

* `BidsController.cs:71` "higher than current high bid": two requests read the
  same high bid, and both are stored as accepted, in the wrong order or with
  equal amounts (`AcceptedIsHigher`).  What does hold is `AcceptedBeatsEarlier`.
* `BidsController.cs:60` "no more bids are accepted": a request that passed the
  deadline check is stored as accepted after the loop has closed the auction
  (`NoBidAcceptedOnceFinished`).  What does hold: such a bid was made in time
  (`EligibleWinner`), and the result beats what was accepted at the closing.
* `CheckAuctionFinished.cs:67` "Publish the result": a stop after `Finished` was
  saved loses the result for good (`FinishedIsPublished`).  What does hold
  is `KnownAuctionIsAnnounced`, without a crash.
* `BidPlacedConsumer.cs:23` "if the amount is higher": two handlers load the same
  row, and the lower bid is saved last (`HighBidNeverFalls`).  What does hold is
  `HighBidFallsOnlyWhenOvertaken`.
* `AuctionCreatedConsumer.cs:30` "Saab is not allowed": the synchronisation saves
  a Saab without asking, and so does an update of the make (`NoSaabInSearch`).
  What does hold is `SearchMirrors`, with the Saab of a refused creation shown
  as a Volvo.
* `UserAction.tsx:24` "so user can see the winner cars": `setWinner` leaves the filter
  at "live", for which the search wants auctions that have not ended, and those
  have no winner.  The list of the auctions won is empty until the user chooses
  "Completed", too (`WonAuctionsAreShown`).

Seen in the model without a line that promises otherwise: bids of other auctions
are added to the list of the page; a page whose first search is rejected says
"loading..." for ever; an error instead of a list crashes the home page; a form
whose answer was lost creates a second auction when it is submitted again; a
tab whose first connection fails is never connected; a toast of an auction that
cannot be read links to `/undefined`; deleting does not empty the cache; the answer to a page
that was left replaces the bids of the page that is shown; a card may show a refused
bid, which the auction service took as its first and the search copied; a seeded
auction that was deleted comes back, unannounced, at a start that finds no row.

## 6. What is not modelled

* **Gateway**: a route table.  **Identity**: login, consent and registration
  pages over a library; their state is the library's.  Authorisation is the user
  that an action is given.
* **Of the web client**: the cancel button (`router.back`), the update form filled in
  by hand when its auction could not be loaded, the development page `/session`
  with the middleware and sign-in page before it, a page whose rendering on the
  server throws, images, formatting and layout.  The lifetime of the browser's
  cache is a choice (`Renderings`), not a time.
* **`GET` of all auctions** other than by the synchronisation.
* **Mapping profiles, DTOs, contracts**: field-by-field copies; the fields that
  any decision looks at are in the models.
* **The end of a seed that is inserted again**: it is reckoned from the start, so it is
  later than the one before.  The models have one end per auction.
* **The inside of MassTransit's outbox**: that it delivers what was
  committed, at least once, is taken as external.

## 7. Plan

Done: the bid service with its abstract specification and proofs; the auction
service with its proofs; its composition with the bid service, and that with the
search service, both with proofs; the web client with the services as it sees
them, with proofs.  Left:

1. All three services in one composition: sales shown by the search agree with
   the rows when nothing overlaps; then its theorem, by the parts' theorems.
2. `WebServices` stands for the insides of the services in one step each; that the
   bids it stores are a book as `AuctionHouse` promises is a refinement to be stated.

Runs and bounds: two handlers and two messages per race, as above.
