---------------------------- MODULE WebServices ----------------------------
(***************************************************************************)
(* The services as the web client sees them through the gateway: what they *)
(* hold, how they answer a request, and what others do to them meanwhile.  *)
(* Their inside, with its races, is in BidService, AuctionService and      *)
(* SearchService; here a request is handled in one step, and the search is *)
(* behind in the prices only.                                              *)
(***************************************************************************)
EXTENDS Integers, Sequences, FiniteSets, FiniteSetsExt, SequencesExt

CONSTANTS AuctionId,    \* auctions, those still to be created included
          User,         \* user names
          None,         \* null, undefined
          Field, Value, \* the fields of the car, what they may hold
          Listing,      \* auction -> its row at the start, None if there is none
          AuctionEnd,   \* auction -> when it ends
          ReservePrice, \* auction -> its reserve price
          Soon,         \* the clock ticks of six hours
          Order,        \* orderBy -> the auctions in that order
          Found,        \* searchTerm -> the auctions whose text matches
          Activity      \* what users, other clients and faults do

Row == [seller : User, winner : User \union {None}, item : [Field -> Value], deleted : BOOLEAN]

BidStatus == {"Accepted", "AcceptedBelowReserve", "TooLow", "Finished"}

Bid == [id : Nat, auctionId : AuctionId, amount : Nat, bidStatus : BidStatus]

ASSUME ListingAssumption ==
  /\ Listing \in [AuctionId -> Row \union {None}]
  /\ AuctionEnd \in [AuctionId -> Nat] /\ ReservePrice \in [AuctionId -> Nat]
ASSUME NoneAssumption == None \notin User \union AuctionId \union Row \union Nat
ASSUME SoonAssumption == Soon \in Nat

VARIABLES clock,   \* the time, of the services and of the browser
          rows,    \* the auction service's rows, None before creation
          bids,    \* the bid service's bids in the order they were stored
          prices,  \* the high bids of the search service's documents, 0 for none
          synced,  \* history: auctions whose document was copied from the row
          budget   \* bound: how often each activity may still happen

serviceVars == <<clock, rows, bids, prices, synced>>

Exists(a) == a # None /\ rows[a] # None /\ ~ rows[a].deleted
Live(a) == a # None /\ AuctionEnd[a] > clock
IsAccepted(b) == b.bidStatus \in {"Accepted", "AcceptedBelowReserve"}
Amounts(bs) == {b.amount : b \in bs}
Stored == Range(bids)
BidsOn(a) == {b \in Stored : b.auctionId = a}

\* The elements of s at the positions in at, in order.
InOrder(at) ==
  [k \in 1..Cardinality(at) |-> CHOOSE i \in at : Cardinality({j \in at : j < i}) = k - 1]

Pick(s, at) == [k \in 1..Cardinality(at) |-> s[InOrder(at)[k]]]

Spend(activity) ==
  budget[activity] > 0 /\ budget' = [budget EXCEPT ![activity] = @ - 1]

ServicesInit ==
  /\ clock = 0
  /\ rows = Listing
  /\ bids = <<>>
  /\ prices = [a \in AuctionId |-> 0]
  /\ synced = {}
-----------------------------------------------------------------------------
(* Responses *)

Ok(data) == [ok |-> TRUE, data |-> data]
Refused == [ok |-> FALSE, data |-> None]

\* An auction that ends just now is in none of the three.
Filtered(filterBy, a) ==
  CASE filterBy = "finished"   -> AuctionEnd[a] < clock
    [] filterBy = "endingSoon" -> AuctionEnd[a] < clock + Soon /\ AuctionEnd[a] > clock
    [] OTHER                   -> AuctionEnd[a] > clock

Matches(query, a) ==
  /\ Exists(a)
  /\ a \in Found[query.searchTerm]
  /\ Filtered(query.filterBy, a)
  /\ query.seller \in {None, rows[a].seller}
  /\ query.winner \in {None, rows[a].winner}

\* The auctions that are found, in the order asked for.
Hits(query) ==
  LET all == Order[query.orderBy]
  IN  Pick(all, {i \in DOMAIN all : Matches(query, all[i])})

\* One page of them.  (hits is Hits(query), a parameter so that TLC finds it once.)
SearchItems(query, hits) ==
  LET skip == (query.pageNumber - 1) * query.pageSize
      page == SubSeq(hits, skip + 1, Min({skip + query.pageSize, Len(hits)}))
  IN  [results    |-> [i \in DOMAIN page |->
                         [id |-> page[i], currentHighBid |-> prices[page[i]]]],
       totalCount |-> Len(hits),
       pageCount  |-> (Len(hits) + query.pageSize - 1) \div query.pageSize]

GetAuctionById(a) == IF Exists(a) THEN Ok(rows[a]) ELSE Refused

\* The newest first.
GetBidsForAuction(a) == Ok(Reverse(Pick(bids, {i \in DOMAIN bids : bids[i].auctionId = a})))

\* Bids of every status count as the high bid.
StatusOf(a, amount) ==
  IF AuctionEnd[a] < clock THEN "Finished"
  ELSE IF \E b \in Stored : b.auctionId = a /\ amount <= b.amount THEN "TooLow"
  ELSE IF amount > ReservePrice[a] THEN "Accepted" ELSE "AcceptedBelowReserve"

NewBid(a, amount) ==
  [id |-> Len(bids) + 1, auctionId |-> a, amount |-> amount, bidStatus |-> StatusOf(a, amount)]

\* What a request leads to.  who is the user of its token, None without a valid one.
Outcome(response, newRows, newBids) ==
  [response |-> response, rows |-> newRows, bids |-> newBids]

Unchanged(response) == Outcome(response, rows, bids)

\* The bid service keeps the auctions that were deleted.
PlaceBid(a, amount, who) ==
  {IF who = None \/ who = rows[a].seller
   THEN Unchanged(Refused)
   ELSE Outcome(Ok(NewBid(a, amount)), rows, Append(bids, NewBid(a, amount)))}

NewRow(item, who) == [seller |-> who, winner |-> None, item |-> item, deleted |-> FALSE]

CreateAuction(item, who) ==
  IF who = None THEN {Unchanged(Refused)}
  ELSE {Outcome(Ok(a), [rows EXCEPT ![a] = NewRow(item, who)], bids) :
          a \in {x \in AuctionId : rows[x] = None}}

\* Update and delete: not found, forbidden, or done.
ChangeAuction(a, new, who, done) ==
  {IF who # None /\ Exists(a) /\ rows[a].seller = who
   THEN Outcome(Ok(done), [rows EXCEPT ![a] = new], bids)
   ELSE Unchanged(Refused)}
-----------------------------------------------------------------------------
(* What goes on elsewhere *)

Tick ==
  /\ Spend("tick")
  /\ clock' = clock + 1
  /\ UNCHANGED <<rows, bids, prices, synced>>

\* The search service consumes the message of a bid, for the first time or again,
\* in whatever order.
SearchTakesBid(b) ==
  /\ Exists(b.auctionId)
  /\ IsAccepted(b) /\ b.amount > prices[b.auctionId]
  /\ prices' = [prices EXCEPT ![b.auctionId] = b.amount]
  /\ UNCHANGED <<clock, rows, bids, synced, budget>>

\* The search service starts, and copies a row.  The row's high bid is 0 (null) or
\* that of a bid that the auction service has consumed, of any status: the first
\* that it consumes it takes as it is.
SearchSyncs(a) ==
  /\ Spend("sync")
  /\ Exists(a)
  /\ \E highBid \in {0} \union Amounts(BidsOn(a)) : prices' = [prices EXCEPT ![a] = highBid]
  /\ synced' = synced \union {a}
  /\ UNCHANGED <<clock, rows, bids>>

OthersBid(a, amount) ==
  /\ Spend("others")
  /\ rows[a] # None
  /\ bids' = Append(bids, NewBid(a, amount))
  /\ UNCHANGED <<clock, rows, prices, synced>>

\* In another tab, or on another machine.
EditElsewhere(a, f, v) ==
  /\ Spend("elsewhere")
  /\ Exists(a) /\ rows[a].item[f] # v
  /\ rows' = [rows EXCEPT ![a].item[f] = v]
  /\ UNCHANGED <<clock, bids, prices, synced>>

DeleteElsewhere(a) ==
  /\ Spend("elsewhere")
  /\ Exists(a)
  /\ rows' = [rows EXCEPT ![a].deleted = TRUE]
  /\ UNCHANGED <<clock, bids, prices, synced>>
=============================================================================
