-------------------------- MODULE LifecycleOutcomes --------------------------
(***************************************************************************)
(* What one iteration of Server::run may make of a connection, as far as   *)
(* the loop can tell: its phase (Connection::State) and the time left to   *)
(* its deadline().  Server is built on these sets; Lifecycle turns them    *)
(* into a specification that Connection implements.                        *)
(***************************************************************************)
EXTENDS Integers

CONSTANTS IdleTimeout, LingerTimeout

Life(phase, left) == [phase |-> phase, left |-> left]

Fresh == Life("Active", IdleTimeout)

Drained == Life("Draining", LingerTimeout)

Ended == Life("Closed", 0)

\* on_poll_events: receiving or sending renews the idle deadline, the lingering
\* close starts its own, which nothing renews, and no phase is ever left for an
\* earlier one.
OnPollEvents(l) ==
  CASE l.phase = "Active" ->
         {Life(p, t) : p \in {"Active", "Closing"}, t \in {l.left, IdleTimeout}}
         \cup {Drained, Ended}
    [] l.phase = "Closing"  -> {l, Life("Closing", IdleTimeout), Drained, Ended}
    [] l.phase = "Draining" -> {l, Ended}

\* Mutant: a lingering close has no end.
OnDeadlineSparesDraining(l) == IF l.phase = "Draining" THEN {l} ELSE {Ended}

\* on_deadline: a 408 gives an active connection time to write it.
OnDeadline(l) ==
  {Ended} \cup (IF l.phase = "Active" THEN {Life("Closing", IdleTimeout), Drained} ELSE {})

\* One turn of the loop over connections_ in Server::run.
Handled(l, hasEvents) ==
  UNION {IF d.phase # "Closed" /\ d.left <= 0 THEN OnDeadline(d) ELSE {d} :
           d \in IF hasEvents THEN OnPollEvents(l) ELSE {l}}

=============================================================================
