-------------------------------- MODULE Outbox --------------------------------
(***************************************************************************)
(* What the notification queue promises for one person, without saying how *)
(* (notify/queue.go, notify/timing.go): a message accepted for a channel   *)
(* waits until it was told there or given up for a reason, it does not     *)
(* disappear, it is not accepted twice, and once it is over it is over.    *)
(*                                                                         *)
(* A message is a pair of an event and a channel.                          *)
(***************************************************************************)
CONSTANT Messages

VARIABLES
  waiting,   \* accepted and not over
  told,      \* delivered, perhaps more than once
  dropped    \* given up: refused, out of tries, or the channel is gone

box == <<waiting, told, dropped>>

Init == waiting = {} /\ told = {} /\ dropped = {}

Accept ==
  /\ \E m \in Messages \ (waiting \cup told \cup dropped) : waiting' = waiting \cup {m}
  /\ UNCHANGED <<told, dropped>>

\* Several held messages go out as one.
Tell ==
  /\ \E S \in (SUBSET waiting) \ {{}} : told' = told \cup S
  /\ UNCHANGED <<waiting, dropped>>

Finish ==
  /\ \E S \in SUBSET (waiting \cap told) : waiting' = waiting \ S
  /\ UNCHANGED <<told, dropped>>

\* Another copy of some of them may still be waiting.
GiveUp ==
  /\ \E S \in (SUBSET waiting) \ {{}} :
       /\ dropped' = dropped \cup S
       /\ \E T \in SUBSET S : waiting' = waiting \ T
  /\ told' = told

Next == Accept \/ Tell \/ Finish \/ GiveUp

Spec == Init /\ [][Next]_box
=============================================================================
