------------------------------- MODULE Server -------------------------------
(***************************************************************************)
(* class Server (include/calc/server.hpp, src/server.cpp): the listening   *)
(* socket, the table of connections and the poll() loop that drives them,  *)
(* with the signal that stops it (src/main.cpp) and the clients that       *)
(* connect.                                                                *)
(*                                                                         *)
(* A connection is abstracted to its lifecycle: its phase and the time     *)
(* left to its deadline.  What a handler may do to these is in             *)
(* LifecycleOutcomes; module ConnectionLifecycle shows that Connection     *)
(* does nothing else.  A descriptor number is reused as soon as it is      *)
(* closed, as the kernel does.                                             *)
(*                                                                         *)
(* Time is counted in ticks, TicksPerMs of them to the millisecond that is *)
(* poll()'s unit, and passes only while the loop is inside poll(): the     *)
(* non-blocking calls between two poll() calls are taken to need none.     *)
(***************************************************************************)
EXTENDS LifecycleOutcomes, Sequences

CONSTANTS
  Clients,         \* each connects at most once
  MaxConnections,  \* ServerConfig::max_connections
  Descriptors,     \* how many descriptors the process may have open
  MaxPollWait, AcceptPause,    \* kMaxPollWait, kAcceptPause, in ticks
  TicksPerMs,
  MaxEvents        \* how often poll() reports events for one connection

ASSUME ServerAssumption ==
  /\ MaxConnections \in Nat \ {0}
  /\ Descriptors \in Nat \ {0}
  /\ TicksPerMs \in Nat \ {0}
  /\ \A t \in {IdleTimeout, LingerTimeout, MaxPollWait, AcceptPause} :
       t \in Nat \ {0} /\ t % TicksPerMs = 0   \* std::chrono::milliseconds
  /\ MaxEvents \in Nat

VARIABLES
  pc,           \* the next step of run()
  connections,  \* connections_
  nextId,       \* next_connection_id_
  pause,        \* accept_paused_until_ - now
  polled,       \* poll_set[1..]: the descriptor and the connection it was for
  listening,    \* poll_set[0].events has POLLIN
  wait,         \* what is left of poll()'s timeout
  reported,     \* the places in polled that have events
  incoming,     \* poll_set[0].revents has POLLIN
  pos,          \* the loop variable i + 1
  open,         \* the open descriptors
  backlog,      \* the kernel's queue of completed connections
  waiting,      \* the clients that have not connected yet
  stop,         \* g_stop_requested
  stopAge       \* time since the signal

vars == <<pc, connections, nextId, pause, polled, listening, wait, reported, incoming, pos,
          open, backlog, waiting, stop, stopAge>>

table   == <<connections, nextId, open>>
polling == <<polled, listening, wait, reported, incoming, pos>>
outside == <<backlog, waiting, stop, stopAge>>

Listener == 1

Least(S) == CHOOSE x \in S : \A y \in S : x <= y

\* Mutant: the id is taken after it has been incremented.
AcceptedPreIncrement(id, fd) ==
  [id |-> id + 1, fd |-> fd, phase |-> "Active", left |-> IdleTimeout, events |-> 0]

\* A connection in the table; closed() is phase = "Closed".
Accepted(id, fd) ==
  [id |-> id, fd |-> fd, phase |-> "Active", left |-> IdleTimeout, events |-> 0]

Init ==
  /\ pc = "check"
  /\ connections = <<>>
  /\ nextId = 1
  /\ pause = 0
  /\ polled = <<>>
  /\ listening = FALSE
  /\ wait = 0
  /\ reported = {}
  /\ incoming = FALSE
  /\ pos = 1
  /\ open = {Listener}
  /\ backlog = <<>>
  /\ waiting = Clients
  /\ stop = FALSE
  /\ stopAge = 0

-----------------------------------------------------------------------------
(* run(): building the poll set *)

\* Mutant: the deadlines of connections are not looked at.
WakeIgnoringDeadlines == Least({MaxPollWait} \cup {p \in {pause} : p > 0})

\* Mutant: no upper bound on the wait.
WakeUncapped == Least({2 * MaxPollWait} \cup {connections[i].left : i \in DOMAIN connections}
                                        \cup {p \in {pause} : p > 0})

\* When poll_timeout_ms has the loop wake, from now.
Wake == Least({MaxPollWait} \cup {connections[i].left : i \in DOMAIN connections}
                            \cup {p \in {pause} : p > 0})

\* Mutant: the timeout is rounded down.
PollTimeoutRoundedDown == IF Wake <= 0 THEN 0 ELSE (Wake \div TicksPerMs) * TicksPerMs

\* Mutant: with nothing to wait for, poll() has no timeout.
PollTimeoutNone ==
  IF connections = <<>> THEN -1 ELSE ((Wake + TicksPerMs - 1) \div TicksPerMs) * TicksPerMs

\* Milliseconds, rounded up.
PollTimeout ==
  IF Wake <= 0 THEN 0 ELSE ((Wake + TicksPerMs - 1) \div TicksPerMs) * TicksPerMs

\* Mutant: the listener is polled during a pause.
AcceptingRegardless == Len(connections) < MaxConnections

Accepting == Len(connections) < MaxConnections /\ pause = 0

BuildPollSet ==
  /\ pc = "check"
  /\ ~ stop
  /\ listening' = Accepting
  /\ polled' = [i \in DOMAIN connections |-> [fd |-> connections[i].fd, id |-> connections[i].id]]
  /\ wait' = PollTimeout
  /\ pc' = "built"
  /\ UNCHANGED <<pause, reported, incoming, pos, table, outside>>

EnterPoll ==
  /\ pc = "built"
  /\ pc' = "poll"
  /\ UNCHANGED <<pause, table, polling, outside>>

\* The places whose sockets may have events; POLLIN of the listener is
\* reported only if it was asked for.
PollReturns ==
  /\ pc = "poll"
  /\ incoming' = (listening /\ backlog # <<>>)
  /\ \E ready \in SUBSET {i \in DOMAIN connections : connections[i].events < MaxEvents} :
       /\ ready # {} \/ incoming' \/ wait = 0
       /\ reported' = ready
  /\ pos' = 1
  /\ wait' = 0
  /\ pc' = "handle"
  /\ UNCHANGED <<pause, polled, listening, table, outside>>

\* poll() fails for good: run() throws, and the destructors close everything.
PollFails ==
  /\ pc = "poll"
  /\ connections' = <<>>
  /\ open' = {}
  /\ pc' = "done"
  /\ UNCHANGED <<nextId, pause, polling, outside>>

-----------------------------------------------------------------------------
(* run(): the connections, then the new ones *)

\* One turn of the loop over connections_: what it may make of connection c.
Turn(c, hasEvents) ==
  {[c EXCEPT !.phase = l.phase, !.left = l.left, !.events = IF hasEvents THEN @ + 1 ELSE @] :
     l \in Handled(Life(c.phase, c.left), hasEvents)}

\* Mutant: a connection that closed is erased inside the loop.
KeepErasing(d) ==
  IF d.phase = "Closed"
  THEN connections' = SubSeq(connections, 1, pos - 1) \o SubSeq(connections, pos + 1, Len(connections))
  ELSE connections' = [connections EXCEPT ![pos] = d]

Keep(d) == connections' = [connections EXCEPT ![pos] = d]

HandleConnection ==
  /\ pc = "handle"
  /\ pos <= Len(connections)
  /\ \E d \in Turn(connections[pos], pos \in reported) :
       /\ Keep(d)
       /\ open' = IF d.phase = "Closed" THEN open \ {d.fd} ELSE open
  /\ pos' = pos + 1
  /\ UNCHANGED <<pc, nextId, pause, polled, listening, wait, reported, incoming, outside>>

IsOpen(c) == c.phase # "Closed"

OpenConnections == {i \in DOMAIN connections : IsOpen(connections[i])}

\* remove_if and erase: what is left is as it was and in the same order;
\* from[k] is the place the k-th one had.
EraseClosed ==
  /\ pc = "handle"
  /\ pos > Len(connections)
  /\ \E n \in 0 .. Len(connections) : \E from \in [1 .. n -> OpenConnections] :
       /\ \A j, k \in 1 .. n : j < k => from[j] < from[k]
       /\ \A i \in OpenConnections : \E k \in 1 .. n : from[k] = i
       /\ connections' = [k \in 1 .. n |-> connections[from[k]]]
  /\ pc' = IF incoming THEN "accept" ELSE "check"
  /\ polled' = <<>> /\ reported' = {} /\ pos' = 1   \* not used again before they are rebuilt
  /\ UNCHANGED <<nextId, pause, listening, wait, incoming, open, outside>>

-----------------------------------------------------------------------------
(* accept_new_connections, one accept() at a time *)

\* Mutant: the queue is emptied whatever the limit.
HasSlotAlways == TRUE

HasSlot == Len(connections) < MaxConnections

Free == (1 .. Descriptors) \ open

\* A client that reset in the queue may be handed over all the same.
AcceptSucceeds ==
  /\ pc = "accept" /\ HasSlot
  /\ backlog # <<>> /\ Free # {}
  /\ connections' = Append(connections, Accepted(nextId, Least(Free)))
  /\ open' = open \cup {Least(Free)}
  /\ nextId' = nextId + 1
  /\ backlog' = Tail(backlog)
  /\ UNCHANGED <<pc, pause, waiting, stop, stopAge, polling>>

\* Mutant: a socket that cannot be made non-blocking is not closed.
AcceptSkipsLeaking ==
  /\ pc = "accept" /\ HasSlot
  /\ backlog # <<>> /\ Free # {}
  /\ backlog' = Tail(backlog)
  /\ open' = open \cup {Least(Free)}
  /\ UNCHANGED <<pc, connections, nextId, pause, waiting, stop, stopAge, polling>>

\* A queued client that reset (ECONNABORTED), or a socket that cannot be made
\* non-blocking and is closed again, is skipped.
AcceptSkips ==
  /\ pc = "accept" /\ HasSlot
  /\ backlog # <<>> /\ (Head(backlog).aborted \/ Free # {})
  /\ backlog' = Tail(backlog)
  /\ UNCHANGED <<pc, pause, waiting, stop, stopAge, table, polling>>

\* EMFILE: the queue is left as it is.  Linux reports it for an empty queue too.
AcceptFails ==
  /\ pc = "accept" /\ HasSlot
  /\ Free = {}
  /\ pause' = AcceptPause
  /\ pc' = "check"
  /\ UNCHANGED <<table, polling, outside>>

\* EAGAIN, or no slot is left
AcceptEnds ==
  /\ pc = "accept"
  /\ backlog = <<>> \/ ~ HasSlot
  /\ pc' = "check"
  /\ UNCHANGED <<pause, table, polling, outside>>

\* run() after the loop: every connection, then the listener, is closed.
CloseAll ==
  /\ pc = "check"
  /\ stop
  /\ connections' = <<>>
  /\ open' = open \ ({connections[i].fd : i \in DOMAIN connections} \cup {Listener})
  /\ pc' = "done"
  /\ UNCHANGED <<nextId, pause, polling, outside>>

-----------------------------------------------------------------------------
(* The signal, the clock and the clients *)

\* request_stop: the flag is set, and a poll() that is blocked returns EINTR.
Signal ==
  /\ pc # "done"
  /\ ~ stop
  /\ stop' = TRUE
  /\ pc' = IF pc = "poll" THEN "check" ELSE pc
  /\ UNCHANGED <<pause, backlog, waiting, stopAge, table, polling>>

Tick ==
  /\ pc = "poll"
  /\ wait > 0
  /\ wait' = wait - 1
  /\ pause' = IF pause > 0 THEN pause - 1 ELSE 0
  /\ connections' = [i \in DOMAIN connections |-> [connections[i] EXCEPT !.left = @ - 1]]
  /\ stopAge' = IF stop THEN stopAge + 1 ELSE stopAge
  /\ UNCHANGED <<pc, nextId, polled, listening, reported, incoming, pos, open, backlog,
                 waiting, stop>>

ClientConnects ==
  /\ pc # "done"
  /\ \E c \in waiting :
       /\ waiting' = waiting \ {c}
       /\ backlog' = Append(backlog, [client |-> c, aborted |-> FALSE])
  /\ UNCHANGED <<pc, pause, stop, stopAge, table, polling>>

ClientAborts ==
  /\ pc # "done"
  /\ \E i \in DOMAIN backlog :
       ~ backlog[i].aborted /\ backlog' = [backlog EXCEPT ![i].aborted = TRUE]
  /\ UNCHANGED <<pc, pause, waiting, stop, stopAge, table, polling>>

\* The process has ended.
Finished == pc = "done" /\ UNCHANGED vars

-----------------------------------------------------------------------------
Loop ==
  \/ BuildPollSet \/ EnterPoll
  \/ HandleConnection \/ EraseClosed
  \/ AcceptSucceeds \/ AcceptSkips \/ AcceptFails \/ AcceptEnds
  \/ CloseAll

Next ==
  \/ Loop \/ PollReturns \/ PollFails
  \/ Signal \/ Tick \/ ClientConnects \/ ClientAborts
  \/ Finished

Spec == Init /\ [][Next]_vars

\* The loop runs, time passes, and poll() returns once it may.  Nothing is
\* asked of the clients.
FairSpec == Spec /\ WF_vars(Loop) /\ WF_vars(PollReturns) /\ WF_vars(Tick)

-----------------------------------------------------------------------------
ConnectionType ==
  [id : Nat \ {0}, fd : 1 .. Descriptors, phase : {"Active", "Closing", "Draining", "Closed"},
   left : Int, events : 0 .. MaxEvents]

\* Types; ids below nextId, so that no id is given twice.
TypeOK ==
  /\ pc \in {"check", "built", "poll", "handle", "accept", "done"}
  /\ connections \in Seq(ConnectionType)
  /\ nextId \in Nat \ {0} /\ \A i \in DOMAIN connections : connections[i].id < nextId
  /\ pause \in 0 .. AcceptPause
  /\ polled \in Seq([fd : 1 .. Descriptors, id : Nat])
  /\ listening \in BOOLEAN /\ incoming \in BOOLEAN /\ stop \in BOOLEAN
  /\ wait \in Nat /\ pos \in Nat \ {0} /\ stopAge \in Nat
  /\ reported \subseteq Nat
  /\ open \subseteq 1 .. Descriptors
  /\ backlog \in Seq([client : Clients, aborted : BOOLEAN])
  /\ waiting \subseteq Clients

\* poll_set[i + 1] is still connections_[i] when its events are handed over,
\* whatever closed earlier in the same loop and whichever descriptor numbers
\* have been reused ("the indices into poll_set stay valid here").
EventsReachTheirConnection ==
  pc = "handle" =>
    /\ Len(polled) = Len(connections)
    /\ \A i \in DOMAIN connections :
         polled[i] = [fd |-> connections[i].fd, id |-> connections[i].id]

\* The accept loop, which takes several clients after one poll(), never
\* exceeds max_connections.
ConnectionLimit == Len(connections) <= MaxConnections

\* The open descriptors are the listener and one for each connection that is
\* not closed, on every path of accept_new_connections, close_now and run();
\* none is left when run() has ended or thrown.
NoDescriptorLeak ==
  /\ open = {connections[i].fd : i \in OpenConnections}
            \cup (IF pc = "done" THEN {} ELSE {Listener})
  /\ \A i, j \in OpenConnections : connections[i].fd = connections[j].fd => i = j
  /\ \A i \in OpenConnections : connections[i].fd # Listener

\* Slots and descriptors are accounted for on every path that accepts, refuses
\* or closes a connection.
ResourcesAccounted == ConnectionLimit /\ NoDescriptorLeak

\* poll() never sleeps past a deadline by a whole millisecond, whichever
\* connections were added, refreshed or closed since the last timeout.
DeadlinesHonoured ==
  \A i \in OpenConnections : connections[i].left > -TicksPerMs

\* No iteration calls poll() with a zero timeout: a wake-up for a deadline
\* comes when it has passed, and is dealt with in that iteration ("Rounding
\* down would wake just before the deadline and then spin").
PollNeverSpins == pc = "built" => wait > 0

\* After accept() failed for want of descriptors it is not called again until
\* kAcceptPause is over, although the listener stays readable.
AcceptRespectsPause == [][AcceptFails \/ AcceptSucceeds \/ AcceptSkips => pause = 0]_vars

\* A signal that arrives after the check of stop_requested and before poll()
\* interrupts nothing, and still stops the loop within kMaxPollWait.
StopLatency == stopAge <= MaxPollWait

\* poll_timeout_ms makes poll() return in time for whatever the loop has to do:
\* deadlines, and a stop request that did not interrupt poll().
PollReturnsInTime == DeadlinesHonoured /\ StopLatency

\* A stop request ends run(), whatever clients do and whenever it arrives.
StopEndsRun == stop ~> pc = "done"

Queued(c) == \E i \in DOMAIN backlog : backlog[i].client = c

\* No client waits in the backlog for ever, through the connection limit and
\* pauses for want of descriptors, if every connection in turn falls silent.
EveryClientLeavesBacklog == \A c \in Clients : Queued(c) ~> (~ Queued(c) \/ pc = "done")

=============================================================================
