------------------------------ MODULE Lifecycle ------------------------------
(***************************************************************************)
(* What class Connection promises the event loop: between two poll() calls *)
(* a connection ages, and an iteration of the loop leaves it in one of the *)
(* outcomes of LifecycleOutcomes, in one step.                             *)
(***************************************************************************)
EXTENDS LifecycleOutcomes

VARIABLES
  life,     \* phase and time left, 0 once the deadline has passed
  reported  \* poll() has reported events for the connection

vars == <<life, reported>>

Init == life = Fresh /\ reported = FALSE

PollReturns ==
  /\ life.phase # "Closed"
  /\ reported' \in BOOLEAN
  /\ UNCHANGED life

Handle ==
  /\ life.phase # "Closed"
  /\ life' \in Handled(life, reported)
  /\ reported' = FALSE

\* Time passes in poll().
Elapse ==
  /\ life.phase # "Closed"
  /\ \E t \in 0 .. life.left : life' = [life EXCEPT !.left = t]
  /\ UNCHANGED reported

\* close(), when the server stops
Close ==
  /\ life' = Ended
  /\ reported' = FALSE

Next == PollReturns \/ Handle \/ Elapse \/ Close

Spec == Init /\ [][Next]_vars

=============================================================================
