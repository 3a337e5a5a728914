--------------------------- MODULE SearchService ---------------------------
(***************************************************************************)
(* The search service: a Mongo copy of the auctions, kept by five          *)
(* consumers and by a synchronisation at start-up.                         *)
(*                                                                         *)
(* rows, log and seedings belong to the auction service: what its GET      *)
(* answers, the events that its outbox delivers, in the order they were    *)
(* committed, and what it has seeded.  No step of this module changes      *)
(* them.  Messages are handled in any order; the handlers of bids and      *)
(* results load a document, change it, and save the whole of it back.      *)
(***************************************************************************)
EXTENDS Integers, Sequences, FiniteSets

CONSTANTS AuctionId,      \* auctions
          User,           \* user names
          None,           \* null
          Field, Value,   \* the columns AuctionUpdated carries, what they may hold
          Make,           \* one of the columns
          Saab, Volvo,    \* two makes
          Handler,        \* concurrent message handlers
          BidPlaced,      \* BidPlaced messages: [auctionId, amount, accepted]
          AuctionFinished,\* AuctionFinished messages: [auctionId, winner, amount]
          MaxEvents,      \* bound: committed events
          MaxTakes,       \* bound: deliveries of each event
          MaxReceived,    \* bound: deliveries of each message
          MaxRestarts     \* bound: restarts of the process

Item == [Field -> Value]
Messages == BidPlaced \union AuctionFinished

\* A document.  An amount that is absent is 0; times are as in AuctionService.
Doc == [item : Item, currentHighBid : Int, winner : User \union {None},
        soldAmount : Int, status : {"Live", "Finished", "ReserveNotMet"},
        updatedAt : Int]

ASSUME MakeAssumption == Make \in Field /\ {Saab, Volvo} \subseteq Value /\ Saab # Volvo
ASSUME MessageAssumption ==
  /\ BidPlaced \subseteq [auctionId : AuctionId, amount : Int, accepted : BOOLEAN]
  /\ AuctionFinished \subseteq
       [auctionId : AuctionId, winner : User \union {None}, amount : Int \union {None}]
  /\ \A m \in AuctionFinished : m.winner = None <=> m.amount = None
ASSUME NoneAssumption == None \notin Doc \union User \union Int
ASSUME BoundAssumption == {MaxEvents, MaxTakes, MaxReceived, MaxRestarts} \subseteq Nat

VARIABLES rows,     \* the auction service's rows
          log,      \* the auction service's events
          seedings, \* the auction service's seedings
          items,    \* Item documents, None where there is none
          work,     \* message handlers between load and save, None when idle
          sync,     \* where the synchronisation stands: [at, cut, docs]
          faults,   \* events whose Fault<AuctionCreated> awaits its consumer
          reissued, \* events published again, as Volvos
          lost,     \* events of which a consumption ended in an error queue
          taken,    \* how often each event was delivered
          received, \* how often each message was delivered
          restarts  \* restarts so far

searchVars == <<items, work, sync, faults, reissued, lost, taken, received, restarts>>

NoDocs == [a \in AuctionId |-> None]

Start == [at |-> "start", cut |-> -1, docs |-> NoDocs]
Done  == [at |-> "done", cut |-> -1, docs |-> NoDocs]

Init ==
  /\ items = NoDocs
  /\ work = [h \in Handler |-> None]
  /\ sync = Start
  /\ faults = {} /\ reissued = {} /\ lost = {}
  /\ taken = [i \in 1..MaxEvents |-> 0]
  /\ received = [m \in Messages |-> 0]
  /\ restarts = 0
-----------------------------------------------------------------------------
(* AuctionCreated, AuctionUpdated and AuctionDeleted: one call each *)

\* Event i, of this kind, is delivered, for the first time or again.  A retry of a
\* consumption that has failed is part of it, and another one if it had its effect.
Take(i, kind) ==
  /\ i \in 1..Len(log)
  /\ log[i].kind = kind
  /\ taken[i] < MaxTakes
  /\ taken' = [taken EXCEPT ![i] = @ + 1]

\* The document of a new auction, which event i creates.
NewDoc(i, item) == [item |-> item, currentHighBid |-> 0, winner |-> None,
                    soldAmount |-> 0, status |-> "Live", updatedAt |-> 2 * i]

\* Save the new document, over whatever is stored under its id.
ConsumeAuctionCreated(i) ==
  /\ Take(i, "AuctionCreated")
  /\ log[i].item[Make] # Saab
  /\ items' = [items EXCEPT ![log[i].auctionId] = NewDoc(i, log[i].item)]
  /\ UNCHANGED <<work, sync, faults, reissued, lost, received, restarts>>

\* The consumer throws an ArgumentException, before it has called anything; after
\* the retries a Fault is published.
RefuseSaab(i) ==
  /\ Take(i, "AuctionCreated")
  /\ log[i].item[Make] = Saab
  /\ faults' = faults \union {i}
  /\ UNCHANGED <<items, work, sync, reissued, lost, received, restarts>>

\* Mutant of Republish: the fault falls into the default branch.
RepublishNothing(i) ==
  /\ i \in faults
  /\ faults' = faults \ {i}
  /\ UNCHANGED <<items, work, sync, reissued, lost, taken, received, restarts>>

\* AuctionCreatedErrorConsumer of the auction service: publish it as a Volvo.
Republish(i) ==
  /\ i \in faults
  /\ faults' = faults \ {i}
  /\ reissued' = reissued \union {i}
  /\ UNCHANGED <<items, work, sync, lost, taken, received, restarts>>

AsVolvo(item) == [item EXCEPT ![Make] = Volvo]

\* The event that was published again is delivered, and may be delivered again.
ConsumeReissued(i) ==
  /\ i \in reissued
  /\ \/ /\ reissued' = reissued \ {i}
        /\ UNCHANGED taken
     \/ /\ Take(i, "AuctionCreated")
        /\ UNCHANGED reissued
  /\ items' = [items EXCEPT ![log[i].auctionId] = NewDoc(i, AsVolvo(log[i].item))]
  /\ UNCHANGED <<work, sync, faults, lost, received, restarts>>

\* Mutants of ConsumeAuctionUpdated: the update inserts what it does not find;
\* the columns are left as they are.
ConsumeAuctionUpdatedUpsert(i) ==
  /\ Take(i, "AuctionUpdated")
  /\ LET a == log[i].auctionId
     IN items' = IF items[a] = None THEN [items EXCEPT ![a] = NewDoc(i, log[i].item)]
                 ELSE [items EXCEPT ![a].item = log[i].item]
  /\ UNCHANGED <<work, sync, faults, reissued, lost, received, restarts>>

ConsumeAuctionUpdatedUnmodified(i) ==
  /\ Take(i, "AuctionUpdated")
  /\ UNCHANGED <<items, work, sync, faults, reissued, lost, received, restarts>>

\* Modify the columns of the document that matches; none may match.
ConsumeAuctionUpdated(i) ==
  /\ Take(i, "AuctionUpdated")
  /\ \/ /\ items[log[i].auctionId] # None
        /\ items' = [items EXCEPT ![log[i].auctionId].item = log[i].item]
     \/ /\ items[log[i].auctionId] = None
        /\ UNCHANGED items
  /\ UNCHANGED <<work, sync, faults, reissued, lost, received, restarts>>

ConsumeAuctionDeleted(i) ==
  /\ Take(i, "AuctionDeleted")
  /\ items' = [items EXCEPT ![log[i].auctionId] = None]
  /\ UNCHANGED <<work, sync, faults, reissued, lost, received, restarts>>

Refused(i) == log[i].kind = "AuctionCreated" /\ log[i].item[Make] = Saab

\* A consumption that keeps failing (there is no connection yet, a call throws, a
\* write is not acknowledged) is retried five times, 5 ms apart, and ends in the
\* error queue.  The fault that is published then is only logged.  The event that
\* was published again may end so too, and so may the fault of a refused Saab.
LoseEvent(i) ==
  /\ \/ /\ i \in 1..Len(log) /\ ~ Refused(i)
        /\ Take(i, log[i].kind)
        /\ UNCHANGED <<faults, reissued>>
     \/ i \in faults /\ faults' = faults \ {i} /\ UNCHANGED <<reissued, taken>>
     \/ i \in reissued /\ reissued' = reissued \ {i} /\ UNCHANGED <<faults, taken>>
  /\ lost' = lost \union {i}
  /\ UNCHANGED <<items, work, sync, received, restarts>>
-----------------------------------------------------------------------------
(* BidPlaced and AuctionFinished: load, then save *)

WasCreated(a) == \E i \in 1..Len(log) : log[i].auctionId = a /\ log[i].kind = "AuctionCreated"

\* The auction service has, or had, a row of it.
Known(a) == seedings[a] # {} \/ WasCreated(a)

\* A message about an auction that the bid service has learned of is delivered.
Receive(m) ==
  /\ received[m] < MaxReceived
  /\ Known(m.auctionId)
  /\ received' = [received EXCEPT ![m] = @ + 1]
  /\ UNCHANGED <<items, sync, faults, reissued, lost, taken, restarts>>

\* The handler returns without a save: the message counts for nothing, or it
\* dereferences a document that is not there and ends in the error queue.
Ignore(m) == Receive(m) /\ UNCHANGED work

\* Handler h has loaded the document, and will save it in this form.
Hold(h, m, doc) ==
  /\ work[h] = None
  /\ Receive(m)
  /\ work' = [work EXCEPT ![h] = [auctionId |-> m.auctionId,
                                  loaded |-> items[m.auctionId], doc |-> doc]]

\* Mutant of Raises: the amount is not compared.
RaisesAlways(m, doc) == m.accepted

Raises(m, doc) == m.accepted /\ m.amount > doc.currentHighBid

ConsumeBidPlaced(h, m) ==
  LET doc == items[m.auctionId]
  IN \/ doc = None /\ Ignore(m)
     \/ doc # None /\ ~ Raises(m, doc) /\ Ignore(m)
     \/ doc # None /\ Raises(m, doc) /\ Hold(h, m, [doc EXCEPT !.currentHighBid = m.amount])

\* Mutant of Sold: the amount is the current high bid's.
SoldAtHighBid(m, doc) ==
  [doc EXCEPT !.winner = m.winner, !.soldAmount = doc.currentHighBid]

Sold(m, doc) == [doc EXCEPT !.winner = m.winner, !.soldAmount = m.amount]

ConsumeAuctionFinished(h, m) ==
  LET doc == items[m.auctionId]
      new == IF m.winner # None THEN Sold(m, doc) ELSE doc
  IN \/ doc = None /\ Ignore(m)
     \/ doc # None /\ Hold(h, m, [new EXCEPT !.status = "Finished"])

\* Replace the stored document, or insert it when it is gone.
SaveDocument(h) ==
  /\ work[h] # None
  /\ items' = [items EXCEPT ![work[h].auctionId] = work[h].doc]
  /\ work' = [work EXCEPT ![h] = None]
  /\ UNCHANGED <<sync, faults, reissued, lost, taken, received, restarts>>

\* The save throws, and the message ends in the error queue.
FailSave(h) ==
  /\ work[h] # None
  /\ work' = [work EXCEPT ![h] = None]
  /\ UNCHANGED <<items, sync, faults, reissued, lost, taken, received, restarts>>
-----------------------------------------------------------------------------
(* The synchronisation at start-up *)

Stored == {a \in AuctionId : items[a] # None}

\* Look up the latest UpdatedAt.  On its way to the auction service its fraction
\* is cut off, unless it has none: cut is where the list is to begin, after.
FindLastUpdated ==
  /\ sync.at = "start"
  /\ \/ Stored = {} /\ sync' = [sync EXCEPT !.at = "asked", !.cut = -1]
     \/ \E a \in Stored :
          /\ \A b \in Stored : items[b].updatedAt <= items[a].updatedAt
          /\ \E fraction \in {0, 1} :
               sync' = [sync EXCEPT !.at = "asked", !.cut = items[a].updatedAt - fraction]
  /\ UNCHANGED <<items, work, faults, reissued, lost, taken, received, restarts>>

\* Mutant of OrZero: the absent amount stays absent.
OrNull(n) == n

OrZero(n) == IF n = None THEN 0 ELSE n

\* A row as AuctionDTO carries it and the search service stores it.
DocOf(row) ==
  [item |-> row.item, currentHighBid |-> OrZero(row.currentHighBid),
   winner |-> row.sale.winner, soldAmount |-> OrZero(row.sale.soldAmount),
   status |-> row.sale.status, updatedAt |-> row.updatedAt]

\* The rows that the auction service finds updated after the cut.
UpdatedSince(cut) == {a \in AuctionId : rows[a] # None /\ rows[a].updatedAt > cut}

\* The GET of the auction service.
GetItems ==
  /\ sync.at = "asked"
  /\ LET docs == [a \in AuctionId |-> IF a \in UpdatedSince(sync.cut)
                                      THEN DocOf(rows[a]) ELSE None]
     IN sync' = IF docs = NoDocs THEN Done ELSE [sync EXCEPT !.at = "saving", !.docs = docs]
  /\ UNCHANGED <<items, work, faults, reissued, lost, taken, received, restarts>>

\* The bulk write saves one document after the other, in no matter what order.
SaveItem(a) ==
  /\ sync.at = "saving"
  /\ sync.docs[a] # None
  /\ items' = [items EXCEPT ![a] = sync.docs[a]]
  /\ LET docs == [sync.docs EXCEPT ![a] = None]
     IN sync' = IF docs = NoDocs THEN Done ELSE [sync EXCEPT !.docs = docs]
  /\ UNCHANGED <<work, faults, reissued, lost, taken, received, restarts>>

\* A call throws: a TimeoutException starts the synchronisation again, any other
\* exception is captured and ends it.
FailSync ==
  /\ sync.at # "done"
  /\ sync' \in {Start, Done}
  /\ UNCHANGED <<items, work, faults, reissued, lost, taken, received, restarts>>

\* The process stops and is started again.
Restart ==
  /\ restarts < MaxRestarts
  /\ restarts' = restarts + 1
  /\ work' = [h \in Handler |-> None]
  /\ sync' = Start
  /\ UNCHANGED <<items, faults, reissued, lost, taken, received>>
-----------------------------------------------------------------------------
EventStep(i) ==
  \/ ConsumeAuctionCreated(i) \/ RefuseSaab(i) \/ Republish(i) \/ ConsumeReissued(i)
  \/ ConsumeAuctionUpdated(i) \/ ConsumeAuctionDeleted(i) \/ LoseEvent(i)

HandlerStep(h) ==
  \/ \E m \in BidPlaced : ConsumeBidPlaced(h, m)
  \/ \E m \in AuctionFinished : ConsumeAuctionFinished(h, m)
  \/ SaveDocument(h) \/ FailSave(h)

SyncStep == FindLastUpdated \/ GetItems \/ (\E a \in AuctionId : SaveItem(a)) \/ FailSync

Next ==
  \/ \E i \in 1..MaxEvents : EventStep(i)
  \/ \E h \in Handler : HandlerStep(h)
  \/ SyncStep
  \/ Restart
-----------------------------------------------------------------------------
(* Properties *)

\* Every variable of the search service has its type.
SearchTypeOK ==
  /\ items \in [AuctionId -> Doc \union {None}]
  /\ work \in [Handler -> [auctionId : AuctionId, loaded : Doc, doc : Doc] \union {None}]
  /\ sync \in [at : {"start", "asked", "saving", "done"}, cut : Int,
               docs : [AuctionId -> Doc \union {None}]]
  /\ {faults, reissued, lost} \subseteq SUBSET (1..Len(log))
  /\ taken \in [1..MaxEvents -> Nat]
  /\ received \in [Messages -> Nat]
  /\ restarts \in Nat

\* Some handler will save an older form of a's document over a newer one.
Overtaken(a) ==
  \E h \in Handler : /\ work[h] # None /\ work[h].auctionId = a
                     /\ work[h].loaded # items[a]

\* The step delivers a creation of a, or saves the row that was synchronised.
Replaces(a) ==
  \/ \E i \in 1..Len(log) :
       /\ log[i].auctionId = a /\ log[i].kind = "AuctionCreated"
       /\ taken'[i] # taken[i] \/ i \in reissued \ reissued'
  \/ items'[a] = sync.docs[a]

\* Bids and results already shown are taken back only by a creation delivered
\* late or again, by the synchronisation, or by an overtaken handler.
NothingIsTakenBack ==
  [][\A a \in AuctionId :
       items[a] # None /\ items'[a] # None /\ ~ Replaces(a) /\ ~ Overtaken(a) =>
         /\ items'[a].currentHighBid >= items[a].currentHighBid
         /\ items[a].winner # None => items'[a].winner # None
         /\ items[a].status = "Finished" => items'[a].status = "Finished"]_searchVars

\* An auction that is not shown, deleted ones above all, comes into the search
\* by its creation, by the synchronisation, or by an overtaken handler.
DeletedStaysDeleted ==
  [][\A a \in AuctionId :
       items[a] = None /\ ~ Overtaken(a) => items'[a] = None \/ Replaces(a)]_searchVars

\* AuctionCreatedConsumer.cs:30 "Saab is not allowed": the search shows no Saab.
NoSaabInSearch ==
  \A a \in AuctionId : items[a] # None => items[a].item[Make] # Saab
=============================================================================
