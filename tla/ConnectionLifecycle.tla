------------------------- MODULE ConnectionLifecycle -------------------------
(***************************************************************************)
(* Connection implements Lifecycle.  The detailed specification takes many *)
(* steps to handle what one poll() reported; two history variables keep    *)
(* the view the event loop has meanwhile, so that the last of these steps  *)
(* is the single step Handle of the abstract specification.                *)
(***************************************************************************)
EXTENDS Connection

VARIABLES
  seen,     \* phase and time left, when the loop last looked
  reported  \* poll() reported events in this iteration

\* state_ and deadline() - now
LifeOf ==
  [phase |-> state,
   left  |-> CASE state = "Draining" -> LingerTimeout - linger
               [] state = "Closed"   -> 0
               [] OTHER              -> IdleTimeout - idle]

HistoryInit == Init /\ seen = LifeOf /\ reported = FALSE

HistoryNext ==
  /\ Next
  /\ seen' = IF pc' \in {"poll", "woken", "done"} THEN LifeOf' ELSE seen
  /\ reported' = CASE pc' = "woken"           -> revents' # {}
                   [] pc' \in {"poll", "done"} -> FALSE
                   [] OTHER                    -> reported

HistorySpec == HistoryInit /\ [][HistoryNext]_<<vars, seen, reported>>

L == INSTANCE Lifecycle WITH life <- seen

\* Whatever the client and the kernel do between the system calls of a handler,
\* the handlers of class Connection leave it in a phase, and with a deadline,
\* that the loop in Server::run is specified with: a deadline is renewed only
\* by activity, never while lingering, and one that has passed is acted on.
ImplementsLifecycle == L!Spec

=============================================================================
