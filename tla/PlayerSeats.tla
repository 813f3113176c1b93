---------------------------- MODULE PlayerSeats ----------------------------
(* What drop-in play promises to the match: a seat is empty, being chosen   *)
(* for, or played.  A late joiner chooses before it plays, nobody is sent   *)
(* back from the fight to the choice, and a match that starts seats its     *)
(* fighters only where nobody is choosing.                                  *)
CONSTANT Seats
VARIABLE seat

Init == seat = [s \in Seats |-> "empty"]

To(s, from, to) == seat[s] = from /\ seat' = [seat EXCEPT ![s] = to]

\* A joiner opens its choice, locks it in, gives it up, or leaves the fight.
Open == \E s \in Seats : To(s, "empty", "choosing")
LockIn == \E s \in Seats : To(s, "choosing", "playing")
Abandon == \E s \in Seats : To(s, "choosing", "empty")
Leave == \E s \in Seats : To(s, "playing", "empty")

\* The game starts a match for some seats, and ends it for all that play.
StartMatch ==
  \E S \in SUBSET Seats :
     /\ \A s \in Seats : seat[s] = "empty"
     /\ seat' = [s \in Seats |-> IF s \in S THEN "playing" ELSE seat[s]]
EndMatch ==
  seat' = [s \in Seats |-> IF seat[s] = "playing" THEN "empty" ELSE seat[s]]

Next == Open \/ LockIn \/ Abandon \/ Leave \/ StartMatch \/ EndMatch
Spec == Init /\ [][Next]_seat
=============================================================================
