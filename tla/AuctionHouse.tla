---------------------------- MODULE AuctionHouse ----------------------------
(***************************************************************************)
(* What the bid service promises to the rest of the system, without its    *)
(* requests, its clock or its database: bids are entered in a book that    *)
(* only grows, an auction is closed, which seals the accepted bids it must *)
(* take into account, and a closed auction owes one result, the highest    *)
(* accepted bid.  A crash may make it forget what it owes, never announce  *)
(* twice or announce less than the sealed bids.                            *)
(***************************************************************************)
EXTENDS Integers, Sequences

CONSTANTS AuctionId, Bid, None, Listing

VARIABLES book,     \* bids entered
          sealed,   \* accepted bids that the next result must beat, per auction
          owed,     \* whether a result is owed, per auction
          outcomes  \* results announced, per auction

Init ==
  /\ book = {}
  /\ sealed = [a \in AuctionId |-> {}]
  /\ owed = [a \in AuctionId |-> FALSE]
  /\ outcomes = [a \in AuctionId |-> << >>]

On(a) == {b \in book : b.auctionId = a}
Accepted(a) == {b \in On(a) : b.bidStatus = "Accepted"}

\* A bid the house may enter: new, not the seller's own, and with a status it
\* deserves.  (Two accepted bids need not be in order: nothing promises that.)
Admissible(b) ==
  LET lot == Listing[b.auctionId]
  IN /\ \A c \in book : c.id # b.id
     /\ b.bidder # lot.seller
     /\ \/ /\ b.bidStatus = "Accepted"
           /\ b.amount > lot.reservePrice
           /\ b.bidTime <= lot.auctionEnd
        \/ /\ b.bidStatus = "AcceptedBelowReserve"
           /\ b.amount <= lot.reservePrice
           /\ b.bidTime <= lot.auctionEnd
        \/ /\ b.bidStatus = "TooLow"
           /\ \E c \in On(b.auctionId) : c.amount >= b.amount
        \/ b.bidStatus = "Finished"

\* Enter one bid.  (The bid is found among the new ones, so that TLC need not
\* enumerate Bid to recognise the step.)
Enter ==
  /\ \E b \in (book' \ book) \intersect Bid :
       Admissible(b) /\ book' = book \union {b}
  /\ UNCHANGED <<sealed, owed, outcomes>>

Close(a) ==
  /\ ~ owed[a]
  /\ owed' = [owed EXCEPT ![a] = TRUE]
  /\ sealed' = [sealed EXCEPT ![a] = Accepted(a)]
  /\ UNCHANGED <<book, outcomes>>

\* An accepted bid that no sealed bid beats, or nobody when none was sealed.
Deserves(w, a) ==
  \/ w \in Accepted(a) /\ \A b \in sealed[a] : b.amount <= w.amount
  \/ w = None /\ sealed[a] = {}

Announce(a) ==
  /\ owed[a]
  /\ \E w \in Accepted(a) \union {None} :
       Deserves(w, a) /\ outcomes' = [outcomes EXCEPT ![a] = Append(@, w)]
  /\ owed' = [owed EXCEPT ![a] = FALSE]
  /\ UNCHANGED <<book, sealed>>

Forget ==
  /\ owed' = [a \in AuctionId |-> FALSE]
  /\ UNCHANGED <<book, sealed, outcomes>>

Next ==
  \/ Enter
  \/ \E a \in AuctionId : Close(a) \/ Announce(a)
  \/ Forget

Spec == Init /\ [][Next]_<<book, sealed, owed, outcomes>>
=============================================================================
