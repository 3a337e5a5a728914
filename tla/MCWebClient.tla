---------------------------- MODULE MCWebClient ----------------------------
(* Instances of WebClient, one scenario for each part of the client. *)
EXTENDS WebClientInv

CONSTANTS a1, a2, a3, a4, u1, u2, f1, f2, v1, v2

Car == [f \in {f1, f2} |-> v1]

\* u1 sells a1; a3 is live at the start, too; a2 has ended, and u1 has won it.
MCListing ==
  (a1 :> [seller |-> u1, winner |-> None, item |-> Car, deleted |-> FALSE]) @@
  (a2 :> [seller |-> u2, winner |-> u1, item |-> Car, deleted |-> FALSE]) @@
  (a3 :> [seller |-> u2, winner |-> None, item |-> Car, deleted |-> FALSE]) @@
  (a4 :> None)
MCAuctionEnd == a1 :> 1 @@ a2 :> 0 @@ a3 :> 3 @@ a4 :> 3
MCReservePrice == a1 :> 1 @@ a2 :> 0 @@ a3 :> 1 @@ a4 :> 0
MCOrder == "make" :> <<a1, a2, a3, a4>> @@ "new" :> <<a4, a3, a2, a1>>
MCFound == "" :> {a1, a2, a3, a4} @@ "text" :> {a3}
MCNewItem == {Car}

MCActivity == {"click", "visit", "load", "bid", "others", "submit", "elsewhere", "session",
               "fail", "tick", "drop", "repeat", "announce", "sync"}

With(happens) == [x \in MCActivity |-> IF x \in DOMAIN happens THEN happens[x] ELSE 0]

Browsing == With([click |-> 2, visit |-> 1, tick |-> 1, fail |-> 1])
Clicking == With([click |-> 3])
Bidding == With([visit |-> 1, bid |-> 1, others |-> 2])
Closing == With([visit |-> 1, bid |-> 1, others |-> 1, tick |-> 1, repeat |-> 1, drop |-> 1])
Syncing == With([others |-> 2, sync |-> 1])
Failing == With([click |-> 1, visit |-> 1, others |-> 1, fail |-> 1])
Returning == With([click |-> 1, visit |-> 2, bid |-> 1, others |-> 1])
Announcing == With([visit |-> 2, elsewhere |-> 1, announce |-> 1, fail |-> 1])
Selling == With([visit |-> 2, submit |-> 2, elsewhere |-> 1, fail |-> 1])
Typing == With([visit |-> 2, submit |-> 1, click |-> 1])
Expiring == With([visit |-> 2, submit |-> 1, session |-> 2, load |-> 2])
Leaving == With([visit |-> 2, submit |-> 1, elsewhere |-> 1, load |-> 1])
Locked == With([visit |-> 1, bid |-> 1, session |-> 1])

MCBudgets == {Browsing, Clicking, Bidding, Closing, Syncing, Failing, Returning, Announcing,
              Selling, Typing, Expiring, Leaving, Locked}
MCSessions == {[user |-> u1, valid |-> TRUE]}
=============================================================================
