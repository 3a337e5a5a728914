--------------------------- MODULE AuctionService ---------------------------
(***************************************************************************)
(* The auction service: the controller that creates, updates and deletes   *)
(* auctions, and the consumers that fold BidPlaced and AuctionFinished     *)
(* events into the rows, all over one Postgres database through Entity     *)
(* Framework.                                                              *)
(*                                                                         *)
(* A handler loads an entity, changes it in memory, and SaveChanges writes *)
(* the columns that differ from what was loaded; there is no concurrency   *)
(* token, so between load and save others may write the same row.  What    *)
(* the controller publishes goes into the outbox table in the transaction  *)
(* of SaveChanges: log is the sequence of events committed that way.       *)
(*                                                                         *)
(* Each start of the service inserts the seeds, with no event, into a      *)
(* table that it finds empty.                                              *)
(***************************************************************************)
EXTENDS Integers, Sequences, FiniteSets

CONSTANTS AuctionId,      \* auctions
          User,           \* user names
          None,           \* null
          Listing,        \* auction -> [seller, reservePrice]: nothing changes them
          Seeded,         \* auctions DbInitializer inserts, under ids of its own
          SeedItem,       \* seeded auction -> its item
          SeedStatus,     \* seeded auction -> its status
          Field, Value,   \* columns of the item and what they may hold
          Request,        \* concurrent requests to the controller
          Consumer,       \* concurrent message handlers
          BidPlaced,      \* BidPlaced messages: [auctionId, amount, accepted]
          AuctionFinished,\* AuctionFinished messages: [auctionId, winner, amount]
          MaxEvents,      \* bound: committed events
          MaxDeliveries   \* bound: deliveries of each message

Item == [Field -> Value]
Patch == [Field -> Value \union {None}]
Status == {"Live", "Finished", "ReserveNotMet"}
Money == Int \union {None}

\* What an AuctionFinished message may change of a row.
Sale == [winner : User \union {None}, soldAmount : Money, status : Status]

\* updatedAt is set when a row is made, and never again.
Row == [item : Item, currentHighBid : Money, sale : Sale, updatedAt : Int]

Event == [kind : {"AuctionCreated", "AuctionUpdated", "AuctionDeleted"},
          auctionId : AuctionId, item : Item \union {None}]

\* What a request, and a handler of either message, holds between load and save.
Req == [op : {"update", "delete"}, patch : Patch, auctionId : AuctionId, loaded : Item]
BidJob == [kind : {"bid"}, msg : BidPlaced, loaded : Money]
ResultJob == [kind : {"result"}, msg : AuctionFinished, loaded : Sale]

ASSUME ListingAssumption == Listing \in [AuctionId -> [seller : User, reservePrice : Int]]
ASSUME SeededAssumption ==
  /\ Seeded \subseteq AuctionId
  /\ SeedItem \in [Seeded -> Item]
  /\ SeedStatus \in [Seeded -> {"Live", "ReserveNotMet"}]
ASSUME MessageAssumption ==
  /\ BidPlaced \subseteq [auctionId : AuctionId, amount : Int, accepted : BOOLEAN]
  /\ AuctionFinished \subseteq
       [auctionId : AuctionId, winner : User \union {None}, amount : Money]
  /\ \A m \in AuctionFinished : m.winner = None <=> m.amount = None
ASSUME NoneAssumption ==
  None \notin Row \union Item \union Req \union BidJob \union ResultJob
               \union Value \union Int \union User
ASSUME BoundAssumption ==
  /\ IsFiniteSet(Request)
  /\ MaxEvents \in Nat /\ MaxDeliveries \in [BidPlaced \union AuctionFinished -> Nat]

VARIABLES rows,       \* Auctions joined with Items, None where there is no row
          log,        \* events committed to the outbox, in commit order
          seedings,   \* history: for each auction, how many events each seeding of it followed
          req,        \* controller requests between load and save, None when idle
          job,        \* message handlers between load and save, None when idle
          deliveries  \* how often each message was delivered

vars == <<rows, log, seedings, req, job, deliveries>>

Messages == BidPlaced \union AuctionFinished

\* Mutant of NoSale: the status is left unset.
NoSaleUnset == [winner |-> None, soldAmount |-> None, status |-> None]

NoSale == [winner |-> None, soldAmount |-> None, status |-> "Live"]

\* Times are places in the log: event i at 2 * i, a seeding between two events.
NewRow(item, time) ==
  [item |-> item, currentHighBid |-> None, sale |-> NoSale, updatedAt |-> time]

SeedRow(a, time) == [NewRow(SeedItem[a], time) EXCEPT !.sale.status = SeedStatus[a]]

NoRows == [a \in AuctionId |-> None]

SeededRows(time) == [a \in AuctionId |-> IF a \in Seeded THEN SeedRow(a, time) ELSE None]

\* After the first start.
Init ==
  /\ log = << >>
  /\ \/ /\ rows = SeededRows(1)
        /\ seedings = [a \in AuctionId |-> IF a \in Seeded THEN {0} ELSE {}]
     \/ /\ rows = NoRows  \* the seeding threw, which is captured
        /\ seedings = [a \in AuctionId |-> {}]
  /\ req = [r \in Request |-> None]
  /\ job = [c \in Consumer |-> None]
  /\ deliveries = [m \in Messages |-> 0]
-----------------------------------------------------------------------------
(* DbInitializer *)

\* Insert the seeds, in one transaction, into a table without a row.
SeedData ==
  /\ rows = NoRows
  /\ rows' = SeededRows(2 * Len(log) + 1)
  /\ seedings' = [a \in AuctionId |-> IF a \in Seeded THEN seedings[a] \union {Len(log)} ELSE {}]

\* The process stops, which ends every request and handler, and starts again.
\* Without a row to be seen it seeds, unless that throws, which is captured.
Restart ==
  /\ req' = [r \in Request |-> None]
  /\ job' = [c \in Consumer |-> None]
  /\ SeedData \/ UNCHANGED <<rows, seedings>>
  /\ UNCHANGED <<log, deliveries>>
-----------------------------------------------------------------------------
(* AuctionsController *)

Emit(kind, a, item) ==
  log' = Append(log, [kind |-> kind, auctionId |-> a, item |-> item])

\* Room in the log for what is in flight and one more (a bound).
InFlight == {r \in Request : req[r] # None}

Room == Len(log) + Cardinality(InFlight) < MaxEvents

WasCreated(a) == \E i \in 1..Len(log) : log[i].auctionId = a /\ log[i].kind = "AuctionCreated"

\* The auction has, or had, a row.
Known(a) == seedings[a] # {} \/ WasCreated(a)

\* A new row, under an id that was never used, and its event.
CreateAuction(a, item) ==
  /\ Room
  /\ a \notin Seeded /\ ~ WasCreated(a)
  /\ rows' = [rows EXCEPT ![a] = NewRow(item, 2 * (Len(log) + 1))]
  /\ Emit("AuctionCreated", a, item)
  /\ UNCHANGED <<seedings, req, job, deliveries>>

\* Load the auction for an update or a delete.  NotFound and Forbid answer at
\* once and change nothing.
Load(r, u, a, op, patch) ==
  /\ Room
  /\ req[r] = None
  /\ rows[a] # None
  /\ u = Listing[a].seller
  /\ req' = [req EXCEPT ![r] = [op |-> op, patch |-> patch, auctionId |-> a,
                                  loaded |-> rows[a].item]]
  /\ UNCHANGED <<rows, log, seedings, job, deliveries>>

UpdateAuction(r, u, a, patch) == Load(r, u, a, "update", patch)

NoPatch == [f \in Field |-> None]

DeleteAuction(r, u, a) == Load(r, u, a, "delete", NoPatch)

Patched(item, patch) == [f \in Field |-> IF patch[f] = None THEN item[f] ELSE patch[f]]

\* The columns that EF finds modified.
Modified(old, new) == {f \in DOMAIN old : old[f] # new[f]}

\* Mutant of CommitUpdate: the event is mapped before the changes are applied.
CommitUpdateMappedEarly(r) ==
  /\ req[r] # None /\ req[r].op = "update"
  /\ rows[req[r].auctionId] # None
  /\ rows' = [rows EXCEPT ![req[r].auctionId].item = Patched(@, req[r].patch)]
  /\ Emit("AuctionUpdated", req[r].auctionId, req[r].loaded)
  /\ req' = [req EXCEPT ![r] = None]
  /\ UNCHANGED <<seedings, job, deliveries>>

\* SaveChanges of UpdateAuction: write the modified columns, commit the event
\* with the item as this request sees it.
CommitUpdate(r) ==
  /\ req[r] # None /\ req[r].op = "update"
  /\ LET a == req[r].auctionId
         item == Patched(req[r].loaded, req[r].patch)
         modified == Modified(req[r].loaded, item)
     IN /\ rows[a] # None \/ modified = {}
        /\ rows' = IF modified = {} THEN rows
                   ELSE [rows EXCEPT ![a].item =
                           [f \in Field |-> IF f \in modified THEN item[f] ELSE @[f]]]
        /\ Emit("AuctionUpdated", a, item)
  /\ req' = [req EXCEPT ![r] = None]
  /\ UNCHANGED <<seedings, job, deliveries>>

\* Mutants of CommitDelete: the event is published after the commit and never
\* leaves; the delete does not mind that the row is gone.
CommitDeleteUnannounced(r) ==
  /\ req[r] # None /\ req[r].op = "delete"
  /\ rows' = [rows EXCEPT ![req[r].auctionId] = None]
  /\ req' = [req EXCEPT ![r] = None]
  /\ UNCHANGED <<log, seedings, job, deliveries>>

CommitDeleteTwice(r) ==
  /\ req[r] # None /\ req[r].op = "delete"
  /\ rows' = [rows EXCEPT ![req[r].auctionId] = None]
  /\ Emit("AuctionDeleted", req[r].auctionId, None)
  /\ req' = [req EXCEPT ![r] = None]
  /\ UNCHANGED <<seedings, job, deliveries>>

CommitDelete(r) ==
  /\ req[r] # None /\ req[r].op = "delete"
  /\ rows[req[r].auctionId] # None
  /\ rows' = [rows EXCEPT ![req[r].auctionId] = None]
  /\ Emit("AuctionDeleted", req[r].auctionId, None)
  /\ req' = [req EXCEPT ![r] = None]
  /\ UNCHANGED <<seedings, job, deliveries>>

\* The save throws, because the row is gone (DbUpdateConcurrencyException) or
\* the database is: the transaction leaves neither row nor event.
FailRequest(r) ==
  /\ req[r] # None
  /\ req' = [req EXCEPT ![r] = None]
  /\ UNCHANGED <<rows, log, seedings, job, deliveries>>
-----------------------------------------------------------------------------
(* BidPlacedConsumer and AuctionFinishedConsumer *)

\* A message is delivered to an idle handler; it speaks of an auction that the
\* bid service has learned of.  Without a row (it was deleted) the handler throws
\* a NullReferenceException, and the message goes to the error queue.
Deliver(c, m) ==
  /\ job[c] = None
  /\ Known(m.auctionId)
  /\ deliveries[m] < MaxDeliveries[m]
  /\ deliveries' = [deliveries EXCEPT ![m] = @ + 1]
  /\ UNCHANGED <<rows, log, seedings, req>>

DeliverToNoRow(c, m) ==
  /\ rows[m.auctionId] = None
  /\ Deliver(c, m)
  /\ UNCHANGED job

\* Mutants of Raises: any accepted bid replaces the high bid; only the first does.
RaisesAlways(m, high) == high = None \/ m.accepted

RaisesFromNothing(m, high) == high = None

\* Whether a bid is to become the current high bid of a row that shows high.
Raises(m, high) == high = None \/ (m.accepted /\ m.amount > high)

LoadForBid(c, m) ==
  /\ rows[m.auctionId] # None
  /\ Deliver(c, m)
  /\ LET high == rows[m.auctionId].currentHighBid
     IN job' = IF Raises(m, high)
               THEN [job EXCEPT ![c] = [kind |-> "bid", msg |-> m, loaded |-> high]]
               ELSE job

\* Mutant of SaveHighBid: the save replaces the whole row.
SaveHighBidReplacing(c) ==
  /\ job[c] # None /\ job[c].kind = "bid"
  /\ LET a == job[c].msg.auctionId
     IN /\ rows[a] # None
        /\ rows' = [rows EXCEPT ![a] =
                      [NewRow(@.item, @.updatedAt) EXCEPT !.currentHighBid = job[c].msg.amount]]
  /\ job' = [job EXCEPT ![c] = None]
  /\ UNCHANGED <<log, seedings, req, deliveries>>

SaveHighBid(c) ==
  /\ job[c] # None /\ job[c].kind = "bid"
  /\ rows[job[c].msg.auctionId] # None
  /\ rows' = [rows EXCEPT ![job[c].msg.auctionId].currentHighBid = job[c].msg.amount]
  /\ job' = [job EXCEPT ![c] = None]
  /\ UNCHANGED <<log, seedings, req, deliveries>>

LoadForResult(c, m) ==
  /\ rows[m.auctionId] # None
  /\ Deliver(c, m)
  /\ job' = [job EXCEPT ![c] = [kind |-> "result", msg |-> m,
                                loaded |-> rows[m.auctionId].sale]]

\* Mutant of Concluded: the status is decided by the amount before the message.
ConcludedEarly(m, sale) ==
  [winner |-> IF m.winner # None THEN m.winner ELSE sale.winner,
   soldAmount |-> IF m.winner # None THEN m.amount ELSE sale.soldAmount,
   status |-> IF sale.soldAmount # None /\ sale.soldAmount > Listing[m.auctionId].reservePrice
              THEN "Finished" ELSE "ReserveNotMet"]

\* The entity after the handler has applied message m to what it loaded.
Concluded(m, sale) ==
  LET winner == IF m.winner # None THEN m.winner ELSE sale.winner
      sold   == IF m.winner # None THEN m.amount ELSE sale.soldAmount
      met    == sold # None /\ sold > Listing[m.auctionId].reservePrice
  IN [winner |-> winner, soldAmount |-> sold,
      status |-> IF met THEN "Finished" ELSE "ReserveNotMet"]

\* Write the columns that differ; with none, nothing is sent to the database.
SaveResult(c) ==
  /\ job[c] # None /\ job[c].kind = "result"
  /\ LET a == job[c].msg.auctionId
         sale == Concluded(job[c].msg, job[c].loaded)
         modified == Modified(job[c].loaded, sale)
     IN \/ modified = {} /\ UNCHANGED rows
        \/ /\ modified # {} /\ rows[a] # None
           /\ rows' = [rows EXCEPT ![a].sale =
                         [f \in DOMAIN sale |-> IF f \in modified THEN sale[f] ELSE @[f]]]
  /\ job' = [job EXCEPT ![c] = None]
  /\ UNCHANGED <<log, seedings, req, deliveries>>

\* The save throws: the row was deleted, or the database is out of reach.
FailJob(c) ==
  /\ job[c] # None
  /\ job' = [job EXCEPT ![c] = None]
  /\ UNCHANGED <<rows, log, seedings, req, deliveries>>
-----------------------------------------------------------------------------
RequestStep(r) ==
  \/ \E u \in User, a \in AuctionId :
       DeleteAuction(r, u, a) \/ \E p \in Patch : UpdateAuction(r, u, a, p)
  \/ CommitUpdate(r) \/ CommitDelete(r) \/ FailRequest(r)

ConsumerStep(c) ==
  \/ \E m \in Messages : DeliverToNoRow(c, m)
  \/ \E m \in BidPlaced : LoadForBid(c, m)
  \/ \E m \in AuctionFinished : LoadForResult(c, m)
  \/ SaveHighBid(c) \/ SaveResult(c) \/ FailJob(c)

Next ==
  \/ \E a \in AuctionId, i \in Item : CreateAuction(a, i)
  \/ \E r \in Request : RequestStep(r)
  \/ \E c \in Consumer : ConsumerStep(c)
  \/ Restart

Spec == Init /\ [][Next]_vars
-----------------------------------------------------------------------------
(* Properties *)

\* Every variable has its type.
TypeOK ==
  /\ rows \in [AuctionId -> Row \union {None}]
  /\ log \in Seq(Event)
  /\ seedings \in [AuctionId -> SUBSET Nat]
  /\ req \in [Request -> Req \union {None}]
  /\ job \in [Consumer -> BidJob \union ResultJob \union {None}]
  /\ deliveries \in [Messages -> Nat]

\* Where in the log a row of a began, by its creation or a seeding, and ended.
Begins(a) ==
  seedings[a] \union
    {i \in 1..Len(log) : log[i].auctionId = a /\ log[i].kind = "AuctionCreated"}

Ends(a) == {i \in 1..Len(log) : log[i].auctionId = a /\ log[i].kind = "AuctionDeleted"}

\* The outbox tells the truth about existence, but for the seeds: a row is there
\* exactly when a creation or a seeding of it was committed and no deletion of it
\* since, whatever requests overlap, fail or end with the process.
RowIffAnnounced ==
  \A a \in AuctionId : rows[a] # None <=> \E n \in Begins(a) : \A d \in Ends(a) : d <= n

\* The events of an auction form a life: it is created once, before anything
\* else; it is deleted at most once, or once per seeding; and what is committed
\* after a deletion can only be an update (one that had loaded the row before and
\* modified nothing, so that its save had no row to miss), until a restart that
\* found the table empty has seeded the auction again, which no event tells.
EventsFormALife ==
  \A i, j \in 1..Len(log) : i < j /\ log[i].auctionId = log[j].auctionId =>
    /\ log[j].kind # "AuctionCreated"
    /\ log[i].kind = "AuctionDeleted" =>
         \/ log[j].kind = "AuctionUpdated"
         \/ \E n \in seedings[log[i].auctionId] : i <= n /\ n < j

\* Nothing is in a row's item but what a seed or some event has told.
ItemWasAnnounced ==
  \A a \in AuctionId : rows[a] # None =>
    \A f \in Field :
      \/ a \in Seeded /\ rows[a].item[f] = SeedItem[a][f]
      \/ \E i \in 1..Len(log) : /\ log[i].auctionId = a /\ log[i].item # None
                                /\ log[i].item[f] = rows[a].item[f]

\* A sale, once saved, is kept for as long as the row: no later handler or
\* request, and no save of an older load, takes it back.
SaleIsKept ==
  [][\A a \in AuctionId :
       rows[a] # None /\ rows'[a] # None /\ rows[a].sale.winner # None =>
         rows'[a].sale.winner # None /\ rows'[a].sale.status # "Live"]_vars

\* Some handler holds a high bid that is no longer the row's.
Overtaken(a) ==
  \E c \in Consumer : /\ job[c] # None /\ job[c].kind = "bid" /\ job[c].msg.auctionId = a
                      /\ job[c].loaded # rows[a].currentHighBid

\* The current high bid is lowered only by a handler that another one has
\* overtaken between its load and its save.
HighBidFallsOnlyWhenOvertaken ==
  [][\A a \in AuctionId :
       /\ rows[a] # None /\ rows'[a] # None /\ rows[a].currentHighBid # None
       /\ ~ Overtaken(a)
       => rows'[a].currentHighBid # None
          /\ rows'[a].currentHighBid >= rows[a].currentHighBid]_vars

\* BidPlacedConsumer.cs:23 "If there is no bid OR if the bid is accepted and
\* the amount is higher than the current high bid / then update the current
\* high bid": the current high bid is replaced only by a higher one.
HighBidNeverFalls ==
  [][\A a \in AuctionId :
       rows[a] # None /\ rows'[a] # None /\ rows[a].currentHighBid # None =>
         rows'[a].currentHighBid # None
         /\ rows'[a].currentHighBid >= rows[a].currentHighBid]_vars
=============================================================================
