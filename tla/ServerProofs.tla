---------------------------- MODULE ServerProofs ----------------------------
(***************************************************************************)
(* The safety properties of the event loop, for every number of clients,   *)
(* connections and descriptors and for all timeouts.                       *)
(*                                                                         *)
(* None of them is inductive.  IInv adds what run() relies on from one     *)
(* statement to the next: between two iterations no connection is closed   *)
(* or due, the poll set describes the table until closed connections are   *)
(* erased, and poll()'s timeout ends within a millisecond of the earliest  *)
(* deadline and within kMaxPollWait of a stop request.                     *)
(***************************************************************************)
EXTENDS Server, Startup, SequenceTheorems, WellFoundedInduction, TLAPS

\* The poll set matches the table from the moment it is built.
PollSetMatches ==
  pc \in {"built", "poll", "handle"} =>
    /\ Len(polled) = Len(connections)
    /\ \A i \in DOMAIN connections :
         polled[i] = [fd |-> connections[i].fd, id |-> connections[i].id]

\* A connection closes in the loop that handles it, at or before its turn.
ClosedOnlyBehindPos ==
  /\ pc \in {"check", "built", "poll", "accept"} =>
       \A i \in DOMAIN connections : IsOpen(connections[i])
  /\ pc = "handle" => \A i \in DOMAIN connections : i >= pos => IsOpen(connections[i])
  /\ pc = "done" => connections = <<>>

\* Whoever has had their turn is not due, and poll() ends soon enough for all.
DeadlinesAhead ==
  /\ pc = "accept" \/ (pc = "check" /\ ~ stop) =>
       \A i \in DOMAIN connections : connections[i].left > 0
  /\ pc \in {"built", "poll"} =>
       \A i \in DOMAIN connections : connections[i].left > wait - TicksPerMs
  /\ pc = "handle" =>
       \A i \in DOMAIN connections : i < pos /\ IsOpen(connections[i]) => connections[i].left > 0

\* What is left of the timeout, with the age of a stop request it began before.
WaitBounded ==
  /\ pc \in {"built", "poll"} => wait + stopAge <= MaxPollWait
  /\ stop \/ stopAge = 0

\* The listener is polled, and accept() called, only outside a pause.
PausedListener ==
  (pc \in {"built", "poll"} /\ listening) \/ (pc = "handle" /\ incoming) \/ pc = "accept"
    => pause = 0

\* Events are reported for connections in the table.
ReportedInTable ==
  pc = "handle" =>
    \A i \in reported : i \in DOMAIN connections
                        /\ (i >= pos => connections[i].events < MaxEvents)

IInv ==
  /\ TypeOK
  /\ ResourcesAccounted
  /\ PollSetMatches
  /\ ClosedOnlyBehindPos
  /\ PollReturnsInTime
  /\ DeadlinesAhead
  /\ WaitBounded
  /\ PollNeverSpins
  /\ PausedListener
  /\ ReportedInTable

-----------------------------------------------------------------------------
(* The operators of the model *)

\* std::min over deadlines, and the lowest free descriptor, are well defined:
\* a nonempty set of naturals has a least element.
LEMMA LeastIsLeast ==
  ASSUME NEW S \in SUBSET Nat, S # {}
  PROVE  Least(S) \in S /\ \A y \in S : Least(S) <= y
<1>1. PICK x \in S : \A y \in S : ~ (<<y, x>> \in OpToRel(<, Nat))
  BY Zenon, NatLessThanWellFounded, WFMin
<1>2. \A y \in S : ~ (y < x)
  BY Zenon, <1>1 DEF OpToRel
<1>3. \A y \in S : x <= y
  BY <1>2
<1> QED
  BY Zenon, <1>3 DEF Least

\* poll_timeout_ms rounds up to milliseconds: not below, by less than one, and
\* never past a whole number of them.
LEMMA RoundUp ==
  ASSUME NEW w \in Nat \ {0}, NEW t \in Nat \ {0}, NEW m \in Nat, m % t = 0, w <= m,
         NEW r, r = ((w + t - 1) \div t) * t
  PROVE  r \in Nat /\ w <= r /\ r < w + t /\ r <= m
<1> DEFINE q == (w + t - 1) \div t
<1>1. q \in Int /\ t * q <= w + t - 1 /\ w + t - 1 < t * q + t
  OBVIOUS
<1>2. r = t * q
  BY <1>1
<1> HIDE DEF q
<1>3. r \in Int /\ w <= r /\ r < w + t
  BY <1>1, <1>2
<1>4. r <= m
  <2> DEFINE k == m \div t
  <2>1. k \in Int /\ m = t * k
    OBVIOUS
  <2> HIDE DEF k
  <2>2. t * q < t * (k + 1)
    BY <1>1, <2>1
  <2>3. q < k + 1
    BY <1>1, <2>1, <2>2
  <2>4. t * q <= t * k
    BY <1>1, <2>1, <2>3
  <2> QED
    BY <1>2, <2>1, <2>4
<1> QED
  BY <1>3, <1>4

-----------------------------------------------------------------------------
(* Each action keeps IInv *)

LEMMA ConstantTypes ==
  /\ MaxConnections \in Nat \ {0} /\ Descriptors \in Nat \ {0} /\ TicksPerMs \in Nat \ {0}
  /\ IdleTimeout \in Nat \ {0} /\ LingerTimeout \in Nat \ {0}
  /\ MaxPollWait \in Nat \ {0} /\ AcceptPause \in Nat \ {0}
  /\ MaxEvents \in Nat
BY Zenon, ServerAssumption DEF ServerAssumption

\* A table is a function on 1 .. Len, each of its entries a record.
LEMMA TableTypes ==
  ASSUME NEW s \in Seq(ConnectionType)
  PROVE  /\ Len(s) \in Nat /\ DOMAIN s = 1 .. Len(s)
         /\ s = [i \in 1 .. Len(s) |-> s[i]]
         /\ \A i \in DOMAIN s :
              /\ s[i] \in ConnectionType
              /\ s[i].id \in Nat \ {0} /\ s[i].fd \in 1 .. Descriptors
              /\ s[i].phase \in {"Active", "Closing", "Draining", "Closed"}
              /\ s[i].left \in Int /\ s[i].events \in 0 .. MaxEvents
<1>1. Len(s) \in Nat /\ DOMAIN s = 1 .. Len(s) /\ s = [i \in 1 .. Len(s) |-> s[i]]
  BY LenProperties
<1>2. \A i \in DOMAIN s : s[i] \in ConnectionType
  BY <1>1, ElementOfSeq
<1> QED
  BY SMTT(30), Z3T(30), <1>1, <1>2 DEF ConnectionType

LEMMA InitIInv == Init => IInv
<1> SUFFICES ASSUME Init PROVE IInv
  OBVIOUS
<1> USE ServerAssumption DEF ServerAssumption
<1>1. TypeOK
  <2>1. stop \in BOOLEAN /\ listening \in BOOLEAN /\ incoming \in BOOLEAN
    BY Zenon DEF Init
  <2> QED
    BY <2>1 DEF Init, TypeOK, Listener
<1>2. ResourcesAccounted
  BY DEF Init, ResourcesAccounted, ConnectionLimit, NoDescriptorLeak, OpenConnections
<1>3. PollReturnsInTime
  BY DEF Init, PollReturnsInTime, DeadlinesHonoured, StopLatency, OpenConnections
<1>4. PollSetMatches /\ ClosedOnlyBehindPos /\ DeadlinesAhead /\ WaitBounded /\ PollNeverSpins
      /\ PausedListener /\ ReportedInTable
  BY DEF Init, PollSetMatches, ClosedOnlyBehindPos, DeadlinesAhead, WaitBounded,
         PollNeverSpins, PausedListener, ReportedInTable
<1> QED
  BY <1>1, <1>2, <1>3, <1>4 DEF IInv

\* The deadlines in the table, and with them the wake-up time, are positive.
LEMMA WakeIsAhead ==
  ASSUME IInv, pc = "check", ~ stop
  PROVE  /\ Wake \in Nat \ {0} /\ Wake <= MaxPollWait
         /\ \A i \in DOMAIN connections : Wake <= connections[i].left
<1> DEFINE S == {MaxPollWait} \cup {connections[i].left : i \in DOMAIN connections}
                              \cup {p \in {pause} : p > 0}
<1>1. MaxPollWait \in Nat \ {0}
  BY ConstantTypes
<1>2. \A i \in DOMAIN connections : connections[i].left \in Nat \ {0}
  <2>1. connections \in Seq(ConnectionType)
    BY DEF IInv, TypeOK
  <2> QED
    BY <2>1, TableTypes DEF IInv, DeadlinesAhead
<1>3. pause \in Nat
  BY ServerAssumption DEF IInv, TypeOK, ServerAssumption
<1>4. S \in SUBSET (Nat \ {0})
  BY <1>1, <1>2, <1>3
<1>5. Least(S) \in S /\ \A y \in S : Least(S) <= y
  BY Zenon, <1>4, LeastIsLeast
<1> QED
  BY <1>4, <1>5, Zenon DEF Wake

LEMMA BuildPollSetKeeps == IInv /\ BuildPollSet => IInv'
<1> SUFFICES ASSUME IInv, BuildPollSet PROVE IInv'
  OBVIOUS
<1>0. connections \in Seq(ConnectionType)
  BY DEF IInv, TypeOK
<1>1. pc = "check" /\ ~ stop /\ pc' = "built"
  BY DEF BuildPollSet
<1>2. UNCHANGED <<connections, nextId, open, pause, reported, incoming, pos, backlog, waiting,
                  stop, stopAge>>
  BY DEF BuildPollSet, table, outside
<1>3. /\ Wake \in Nat \ {0} /\ Wake <= MaxPollWait
      /\ \A i \in DOMAIN connections : Wake <= connections[i].left
  BY <1>1, WakeIsAhead
<1>4. wait' = ((Wake + TicksPerMs - 1) \div TicksPerMs) * TicksPerMs
  BY <1>3 DEF BuildPollSet, PollTimeout
<1>5. wait' \in Nat \ {0} /\ wait' < Wake + TicksPerMs /\ wait' <= MaxPollWait
  <2>1. /\ Wake \in Nat \ {0} /\ Wake <= MaxPollWait
        /\ TicksPerMs \in Nat \ {0} /\ MaxPollWait \in Nat /\ MaxPollWait % TicksPerMs = 0
    BY <1>3, ServerAssumption DEF ServerAssumption
  <2>2. wait' \in Nat /\ Wake <= wait' /\ wait' < Wake + TicksPerMs /\ wait' <= MaxPollWait
    BY <1>4, <2>1, RoundUp, Zenon
  <2> QED
    BY <2>1, <2>2
<1>6. polled' \in Seq([fd : 1 .. Descriptors, id : Nat]) /\ PollSetMatches'
  <2>1. polled' = [i \in 1 .. Len(connections) |-> [fd |-> connections[i].fd, id |-> connections[i].id]]
    BY <1>0, TableTypes DEF BuildPollSet
  <2>2. polled' \in Seq([fd : 1 .. Descriptors, id : Nat]) /\ Len(polled') = Len(connections)
    BY <1>0, <2>1, TableTypes
  <2> QED
    BY <1>0, <1>2, <2>1, <2>2, TableTypes DEF PollSetMatches
<1>7. listening' \in BOOLEAN /\ (listening' => pause = 0)
  BY Zenon DEF BuildPollSet, Accepting
<1>8. TypeOK'
  BY <1>1, <1>2, <1>5, <1>6, <1>7 DEF IInv, TypeOK
<1>9. ResourcesAccounted'
  BY <1>1, <1>2
     DEF IInv, ResourcesAccounted, ConnectionLimit, NoDescriptorLeak, OpenConnections, IsOpen
<1>10. ClosedOnlyBehindPos' /\ PollReturnsInTime'
  BY <1>1, <1>2 DEF IInv, ClosedOnlyBehindPos, PollReturnsInTime, DeadlinesHonoured,
                    StopLatency, OpenConnections, IsOpen
<1>11. DeadlinesAhead'
  <2>1. \A i \in DOMAIN connections : connections[i].left \in Int
    BY <1>0, TableTypes
  <2> QED
    BY <1>1, <1>2, <1>3, <1>5, <2>1, ConstantTypes DEF DeadlinesAhead
<1>12. WaitBounded' /\ PollNeverSpins' /\ PausedListener' /\ ReportedInTable'
  BY <1>1, <1>2, <1>5, <1>7
     DEF IInv, WaitBounded, PollNeverSpins, PausedListener, ReportedInTable
<1> QED
  BY <1>6, <1>8, <1>9, <1>10, <1>11, <1>12 DEF IInv

\* What holds of the table carries over when the table and the running loop do.
LEMMA SameTable ==
  ASSUME IInv, UNCHANGED <<connections, open>>, pc # "done", pc' # "done"
  PROVE  ResourcesAccounted' /\ DeadlinesHonoured'
BY DEF IInv, ResourcesAccounted, ConnectionLimit, NoDescriptorLeak, PollReturnsInTime,
       DeadlinesHonoured, OpenConnections, IsOpen

LEMMA EnterPollKeeps == IInv /\ EnterPoll => IInv'
<1> SUFFICES ASSUME IInv, EnterPoll PROVE IInv'
  OBVIOUS
<1>1. pc = "built" /\ pc' = "poll"
  BY DEF EnterPoll
<1>2. UNCHANGED <<connections, nextId, open, pause, polled, listening, wait, reported, incoming,
                  pos, backlog, waiting, stop, stopAge>>
  BY DEF EnterPoll, table, polling, outside
<1>3. TypeOK'
  BY <1>1, <1>2 DEF IInv, TypeOK
<1>4. ResourcesAccounted' /\ PollReturnsInTime'
  BY <1>1, <1>2, SameTable DEF IInv, PollReturnsInTime, StopLatency
<1>5. PollSetMatches' /\ ClosedOnlyBehindPos' /\ DeadlinesAhead'
  BY <1>1, <1>2 DEF IInv, PollSetMatches, ClosedOnlyBehindPos, DeadlinesAhead, IsOpen
<1>6. WaitBounded' /\ PollNeverSpins' /\ PausedListener' /\ ReportedInTable'
  BY <1>1, <1>2 DEF IInv, WaitBounded, PollNeverSpins, PausedListener, ReportedInTable
<1> QED
  BY <1>3, <1>4, <1>5, <1>6 DEF IInv

LEMMA PollReturnsKeeps == IInv /\ PollReturns => IInv'
<1> SUFFICES ASSUME IInv, PollReturns PROVE IInv'
  OBVIOUS
<1>0. connections \in Seq(ConnectionType)
  BY DEF IInv, TypeOK
<1>1. pc = "poll" /\ pc' = "handle" /\ pos' = 1 /\ wait' = 0
  BY DEF PollReturns
<1>2. UNCHANGED <<connections, nextId, open, pause, polled, listening, backlog, waiting, stop,
                  stopAge>>
  BY DEF PollReturns, table, outside
<1>3. incoming' \in BOOLEAN /\ (incoming' => listening)
  BY Zenon DEF PollReturns
<1>4. reported' \subseteq {i \in DOMAIN connections : connections[i].events < MaxEvents}
  BY Zenon DEF PollReturns
<1>5. TypeOK'
  <2>1. reported' \subseteq Nat
    BY <1>0, <1>4, TableTypes
  <2> QED
    BY <1>1, <1>2, <1>3, <2>1 DEF IInv, TypeOK
<1>6. ResourcesAccounted' /\ PollReturnsInTime'
  BY <1>1, <1>2, SameTable DEF IInv, PollReturnsInTime, StopLatency
<1>7. PollSetMatches' /\ ClosedOnlyBehindPos'
  BY <1>1, <1>2 DEF IInv, PollSetMatches, ClosedOnlyBehindPos, IsOpen
<1>8. DeadlinesAhead'
  BY <1>0, <1>1, <1>2, TableTypes DEF DeadlinesAhead
<1>9. WaitBounded' /\ PollNeverSpins' /\ ReportedInTable'
  BY <1>1, <1>2, <1>4 DEF IInv, WaitBounded, PollNeverSpins, ReportedInTable
<1>10. PausedListener'
  BY <1>1, <1>2, <1>3 DEF IInv, PausedListener
<1> QED
  BY <1>5, <1>6, <1>7, <1>8, <1>9, <1>10 DEF IInv

\* After the end of run() nothing is left to speak of but the types.
LEMMA DoneKeeps ==
  ASSUME IInv, pc' = "done", connections' = <<>>, open' = {},
         UNCHANGED <<nextId, pause, polled, listening, wait, reported, incoming, pos, backlog,
                     waiting, stop, stopAge>>
  PROVE  IInv'
<1>1. TypeOK'
  BY DEF IInv, TypeOK
<1>2. ResourcesAccounted'
  BY ConstantTypes DEF ResourcesAccounted, ConnectionLimit, NoDescriptorLeak, OpenConnections
<1>3. PollReturnsInTime'
  BY DEF IInv, PollReturnsInTime, DeadlinesHonoured, StopLatency, OpenConnections
<1>4. PollSetMatches' /\ ClosedOnlyBehindPos' /\ DeadlinesAhead' /\ WaitBounded'
      /\ PollNeverSpins' /\ PausedListener' /\ ReportedInTable'
  BY DEF IInv, PollSetMatches, ClosedOnlyBehindPos, DeadlinesAhead, WaitBounded,
         PollNeverSpins, PausedListener, ReportedInTable
<1> QED
  BY <1>1, <1>2, <1>3, <1>4 DEF IInv

LEMMA PollFailsKeeps == IInv /\ PollFails => IInv'
BY DoneKeeps DEF PollFails, polling, outside

\* run() ends with every descriptor closed: no connection in the table is
\* closed when the loop condition is evaluated.
LEMMA CloseAllKeeps == IInv /\ CloseAll => IInv'
<1> SUFFICES ASSUME IInv, CloseAll PROVE IInv'
  OBVIOUS
<1>1. OpenConnections = DOMAIN connections
  BY Zenon DEF IInv, CloseAll, ClosedOnlyBehindPos, OpenConnections
<1>2. open' = {}
  BY <1>1 DEF IInv, CloseAll, ResourcesAccounted, NoDescriptorLeak
<1> QED
  BY <1>2, DoneKeeps DEF CloseAll, polling, outside

Lives == [phase : {"Active", "Closing", "Draining", "Closed"}, left : Int]

\* A turn of the loop leaves no open connection past its deadline: the deadline
\* is looked at after the events, and whatever on_deadline starts has time.
LEMMA HandledIsAhead ==
  ASSUME NEW l \in Lives, l.phase # "Closed", NEW h \in BOOLEAN, NEW e \in Handled(l, h)
  PROVE  e \in Lives /\ (e.phase # "Closed" => e.left > 0)
<1> DEFINE D == IF h THEN OnPollEvents(l) ELSE {l}
<1>1. D \subseteq Lives
  <2>1. OnPollEvents(l) \subseteq Lives
    <3>1. CASE l.phase = "Active"
      BY <3>1, ConstantTypes DEF OnPollEvents, Life, Drained, Ended, Lives
    <3>2. CASE l.phase = "Closing"
      BY <3>2, ConstantTypes DEF OnPollEvents, Life, Drained, Ended, Lives
    <3>3. CASE l.phase = "Draining"
      BY <3>3 DEF OnPollEvents, Life, Ended, Lives
    <3> QED
      BY <3>1, <3>2, <3>3 DEF Lives
  <2> QED
    BY <2>1
<1>2. PICK d \in D : e \in IF d.phase # "Closed" /\ d.left <= 0 THEN OnDeadline(d) ELSE {d}
  BY Zenon DEF Handled
<1>3. d \in Lives
  BY <1>1
<1>4. CASE d.phase # "Closed" /\ d.left <= 0
  <2>1. e \in OnDeadline(d)
    BY <1>2, <1>4
  <2> QED
    BY <2>1, ConstantTypes DEF OnDeadline, Life, Drained, Ended, Lives
<1>5. CASE ~ (d.phase # "Closed" /\ d.left <= 0)
  BY <1>2, <1>3, <1>5 DEF Lives
<1> QED
  BY <1>4, <1>5

LEMMA TurnIsAhead ==
  ASSUME NEW c \in ConnectionType, IsOpen(c), NEW h \in BOOLEAN, h => c.events < MaxEvents,
         NEW d \in Turn(c, h)
  PROVE  /\ d \in ConnectionType /\ d.id = c.id /\ d.fd = c.fd
         /\ IsOpen(d) => d.left > 0
<1>1. PICK l \in Handled(Life(c.phase, c.left), h) :
        d = [c EXCEPT !.phase = l.phase, !.left = l.left, !.events = IF h THEN @ + 1 ELSE @]
  BY Zenon DEF Turn
<1>2. Life(c.phase, c.left) \in Lives /\ Life(c.phase, c.left).phase # "Closed"
  BY DEF Life, Lives, ConnectionType, IsOpen
<1>3. l \in Lives /\ (l.phase # "Closed" => l.left > 0)
  BY <1>2, HandledIsAhead
<1>4. (IF h THEN c.events + 1 ELSE c.events) \in 0 .. MaxEvents
  BY ConstantTypes DEF ConnectionType
<1>5. /\ d.id = c.id /\ d.fd = c.fd /\ d.phase = l.phase /\ d.left = l.left
      /\ d.events = IF h THEN c.events + 1 ELSE c.events
  BY <1>1 DEF ConnectionType
<1>6. d \in ConnectionType
  BY Zenon, <1>1, <1>3, <1>4 DEF ConnectionType, Lives
<1> QED
  BY <1>3, <1>5, <1>6 DEF IsOpen

LEMMA HandleConnectionKeeps == IInv /\ HandleConnection => IInv'
<1> SUFFICES ASSUME IInv, HandleConnection PROVE IInv'
  OBVIOUS
<1>0. connections \in Seq(ConnectionType) /\ pos \in Nat \ {0} /\ pos <= Len(connections)
  BY DEF IInv, TypeOK, HandleConnection
<1> DEFINE c == connections[pos]
<1>1. pos \in DOMAIN connections /\ c \in ConnectionType /\ IsOpen(c)
  BY <1>0, TableTypes DEF IInv, HandleConnection, ClosedOnlyBehindPos
<1>2. PICK d \in Turn(c, pos \in reported) :
        /\ Keep(d)
        /\ open' = IF d.phase = "Closed" THEN open \ {d.fd} ELSE open
  BY Zenon DEF HandleConnection
<1>3. /\ d \in ConnectionType /\ d.id = c.id /\ d.fd = c.fd
      /\ IsOpen(d) => d.left > 0
  <2>1. pos \in reported => c.events < MaxEvents
    BY <1>0 DEF IInv, HandleConnection, ReportedInTable
  <2> DEFINE h == pos \in reported
  <2>2. h \in BOOLEAN /\ d \in Turn(c, h) /\ (h => c.events < MaxEvents)
    BY <1>2, <2>1
  <2> HIDE DEF c, h
  <2> QED
    BY <1>1, <2>2, TurnIsAhead
<1>4. pc = "handle" /\ pc' = "handle" /\ pos' = pos + 1
  BY DEF HandleConnection
<1>5. UNCHANGED <<nextId, pause, polled, listening, wait, reported, incoming, backlog, waiting,
                  stop, stopAge>>
  BY DEF HandleConnection, outside
<1>6. /\ connections' \in Seq(ConnectionType)
      /\ Len(connections') = Len(connections) /\ DOMAIN connections' = DOMAIN connections
      /\ connections'[pos] = d
      /\ \A i \in DOMAIN connections : i # pos => connections'[i] = connections[i]
  BY <1>0, <1>1, <1>2, <1>3, TableTypes DEF Keep
<1> HIDE DEF c
<1>dom. \A i \in DOMAIN connections : i \in Nat
  BY SMTT(30), Z3T(30), <1>0, TableTypes
<1>7. \A i \in DOMAIN connections : /\ connections'[i].id = connections[i].id
                                    /\ connections'[i].fd = connections[i].fd
  BY SMTT(30), Z3T(30), <1>3, <1>6 DEF c
<1>8. TypeOK'
  <2>1. open' \subseteq 1 .. Descriptors
    BY Zenon, <1>2 DEF IInv, TypeOK
  <2>2. \A i \in DOMAIN connections' : connections'[i].id < nextId'
    BY Zenon, <1>5, <1>6, <1>7 DEF IInv, TypeOK
  <2> QED
    BY <1>0, <1>4, <1>5, <1>6, <2>1, <2>2 DEF IInv, TypeOK
<1>9. ResourcesAccounted'
  <2>1. ConnectionLimit'
    BY <1>6 DEF IInv, ResourcesAccounted, ConnectionLimit
  <2>2. OpenConnections' = IF IsOpen(d) THEN OpenConnections ELSE OpenConnections \ {pos}
    BY <1>1, <1>6 DEF OpenConnections, IsOpen, c
  <2>3. pos \in OpenConnections
    BY <1>1 DEF OpenConnections, c
  <2>4. open' = {connections'[i].fd : i \in OpenConnections'} \cup {Listener}
    <3>1. open = {connections[i].fd : i \in OpenConnections} \cup {Listener}
      BY <1>4 DEF IInv, ResourcesAccounted, NoDescriptorLeak
    <3>2. \A i \in OpenConnections : connections[i].fd = d.fd => i = pos
      BY <1>3, <2>3 DEF IInv, ResourcesAccounted, NoDescriptorLeak, c
    <3>3. d.fd # Listener
      BY <1>3, <2>3 DEF IInv, ResourcesAccounted, NoDescriptorLeak, c
    <3>4. \A i \in OpenConnections : connections'[i].fd = connections[i].fd
      BY <1>7 DEF OpenConnections
    <3>5. CASE IsOpen(d)
      BY SMTT(30), Z3T(30), <1>2, <2>2, <3>1, <3>4, <3>5 DEF IsOpen
    <3>6. CASE ~ IsOpen(d)
      BY SMTT(30), Z3T(30), <1>2, <1>3, <2>2, <2>3, <3>1, <3>2, <3>3, <3>4, <3>6 DEF IsOpen, c
    <3> QED
      BY <3>5, <3>6
  <2>5. OpenConnections' \subseteq OpenConnections /\ OpenConnections \subseteq DOMAIN connections
    BY <2>2 DEF OpenConnections
  <2>6. /\ \A i, j \in OpenConnections' : connections'[i].fd = connections'[j].fd => i = j
        /\ \A i \in OpenConnections' : connections'[i].fd # Listener
    BY <1>7, <2>5 DEF IInv, ResourcesAccounted, NoDescriptorLeak
  <2> QED
    BY SMTT(30), Z3T(30), <1>4, <2>1, <2>4, <2>6 DEF ResourcesAccounted, NoDescriptorLeak, Listener
<1>10. PollSetMatches' /\ ClosedOnlyBehindPos'
  <2>1. PollSetMatches'
    BY <1>4, <1>5, <1>6, <1>7 DEF IInv, PollSetMatches
  <2>2. ClosedOnlyBehindPos'
    <3>1. \A i \in DOMAIN connections : i >= pos + 1 => i # pos /\ i >= pos
      BY <1>0, <1>dom
    <3>2. \A i \in DOMAIN connections : i >= pos => IsOpen(connections[i])
      BY <1>4 DEF IInv, ClosedOnlyBehindPos
    <3>3. \A i \in DOMAIN connections' : i >= pos' => IsOpen(connections'[i])
      BY <1>4, <1>6, <3>1, <3>2
    <3> QED
      BY <1>4, <3>3 DEF ClosedOnlyBehindPos
  <2> QED
    BY SMTT(30), Z3T(30), <2>1, <2>2
<1>11. DeadlinesAhead'
  <2>1. \A i \in DOMAIN connections : i < pos + 1 /\ i # pos => i < pos
    BY <1>0, <1>dom
  <2>2. \A i \in DOMAIN connections : i < pos /\ IsOpen(connections[i]) => connections[i].left > 0
    BY <1>4 DEF IInv, DeadlinesAhead
  <2>3. \A i \in DOMAIN connections' :
          i < pos' /\ IsOpen(connections'[i]) => connections'[i].left > 0
    BY <1>3, <1>4, <1>6, <2>1, <2>2
  <2> QED
    BY <1>4, <2>3 DEF DeadlinesAhead
<1>12. PollReturnsInTime'
  <2>1. \A i \in OpenConnections' : connections'[i].left > -TicksPerMs
    <3>1. \A i \in DOMAIN connections : IsOpen(connections[i]) => connections[i].left > -TicksPerMs
      BY DEF IInv, PollReturnsInTime, DeadlinesHonoured, OpenConnections
    <3>2. IsOpen(d) => d.left > -TicksPerMs
      BY <1>3, ConstantTypes DEF ConnectionType
    <3>3. \A i \in DOMAIN connections' : IsOpen(connections'[i]) => connections'[i].left > -TicksPerMs
      BY <1>6, <3>1, <3>2
    <3> QED
      BY <3>3 DEF OpenConnections
  <2> QED
    BY <1>5, <2>1 DEF IInv, PollReturnsInTime, DeadlinesHonoured, StopLatency
<1>13. WaitBounded' /\ PollNeverSpins' /\ PausedListener'
  BY <1>4, <1>5 DEF IInv, WaitBounded, PollNeverSpins, PausedListener
<1>14. ReportedInTable'
  <2>1. \A i \in DOMAIN connections : i >= pos + 1 => i # pos /\ i >= pos
    BY <1>0, <1>dom
  <2>2. \A i \in reported : i \in DOMAIN connections
                            /\ (i >= pos => connections[i].events < MaxEvents)
    BY <1>4 DEF IInv, ReportedInTable
  <2>3. \A i \in reported' : i \in DOMAIN connections'
                             /\ (i >= pos' => connections'[i].events < MaxEvents)
    BY SMTT(30), Z3T(30), <1>4, <1>5, <1>6, <2>1, <2>2
  <2> QED
    BY <2>3 DEF ReportedInTable
<1> QED
  BY <1>8, <1>9, <1>10, <1>11, <1>12, <1>13, <1>14 DEF IInv

LEMMA EraseClosedKeeps == IInv /\ EraseClosed => IInv'
<1> SUFFICES ASSUME IInv, EraseClosed PROVE IInv'
  OBVIOUS
<1>0. connections \in Seq(ConnectionType) /\ pos \in Nat /\ pos > Len(connections)
  BY DEF IInv, TypeOK, EraseClosed
<1>n. PICK n \in 0 .. Len(connections) : \E from \in [1 .. n -> OpenConnections] :
        /\ \A j, k \in 1 .. n : j < k => from[j] < from[k]
        /\ \A i \in OpenConnections : \E k \in 1 .. n : from[k] = i
        /\ connections' = [k \in 1 .. n |-> connections[from[k]]]
  BY SMTT(30), Z3T(30) DEF EraseClosed
<1>1. PICK from \in [1 .. n -> OpenConnections] :
        /\ \A j, k \in 1 .. n : j < k => from[j] < from[k]
        /\ \A i \in OpenConnections : \E k \in 1 .. n : from[k] = i
        /\ connections' = [k \in 1 .. n |-> connections[from[k]]]
  BY Zenon, <1>n
<1>2. /\ pc = "handle" /\ pc' \in {"accept", "check"} /\ (pc' = "accept" => incoming)
      /\ polled' = <<>> /\ reported' = {} /\ pos' = 1
  <2>1. pc' = IF incoming THEN "accept" ELSE "check"
    BY DEF EraseClosed
  <2> QED
    BY <2>1 DEF EraseClosed
<1>3. UNCHANGED <<nextId, pause, listening, wait, incoming, open, backlog, waiting, stop, stopAge>>
  BY DEF EraseClosed, outside
<1>4. n \in Nat /\ n <= Len(connections)
  BY <1>0, TableTypes
<1>5. \A k \in 1 .. n : /\ from[k] \in OpenConnections /\ from[k] \in DOMAIN connections
                        /\ connections[from[k]] \in ConnectionType
                        /\ IsOpen(connections[from[k]])
                        /\ connections'[k] = connections[from[k]]
  BY <1>0, <1>1, TableTypes DEF OpenConnections
<1>6. /\ connections' \in Seq(ConnectionType) /\ Len(connections') = n
      /\ DOMAIN connections' = 1 .. n
  BY SMTT(30), Z3T(30), <1>1, <1>4, <1>5
<1>7. TypeOK'
  <2>1. \A i \in DOMAIN connections' : connections'[i].id < nextId'
    BY SMTT(30), Z3T(30), <1>3, <1>5, <1>6 DEF IInv, TypeOK
  <2> QED
    BY SMTT(30), Z3T(30), <1>2, <1>3, <1>6, <2>1 DEF IInv, TypeOK
<1>8. ResourcesAccounted'
  <2>1. ConnectionLimit'
    BY SMTT(30), Z3T(30), <1>0, <1>4, <1>6, TableTypes, ConstantTypes
       DEF IInv, ResourcesAccounted, ConnectionLimit
  <2>2. OpenConnections' = 1 .. n
    BY <1>5, <1>6 DEF OpenConnections
  <2>3. {connections'[k].fd : k \in 1 .. n} = {connections[i].fd : i \in OpenConnections}
    BY <1>1, <1>5
  <2>4. open' = {connections'[k].fd : k \in OpenConnections'} \cup {Listener}
    BY Zenon, <1>2, <1>3, <2>2, <2>3 DEF IInv, ResourcesAccounted, NoDescriptorLeak
  <2>5. ASSUME NEW j \in 1 .. n, NEW k \in 1 .. n, connections'[j].fd = connections'[k].fd
        PROVE  j = k
    <3>1. from[j] = from[k]
      BY <1>5, <2>5 DEF IInv, ResourcesAccounted, NoDescriptorLeak
    <3>2. from[j] \in Nat /\ from[k] \in Nat
      BY <1>0, <1>5, TableTypes
    <3> QED
      BY SMTT(30), Z3T(30), <1>1, <1>4, <3>1, <3>2
  <2>6. \A k \in 1 .. n : connections'[k].fd # Listener
    BY <1>5 DEF IInv, ResourcesAccounted, NoDescriptorLeak
  <2> QED
    BY <1>2, <2>1, <2>2, <2>4, <2>5, <2>6 DEF ResourcesAccounted, NoDescriptorLeak, Listener
<1>9. PollSetMatches' /\ ClosedOnlyBehindPos'
  BY <1>2, <1>5, <1>6 DEF PollSetMatches, ClosedOnlyBehindPos
<1>10. \A k \in 1 .. n : connections'[k].left > 0
  <2>1. \A i \in DOMAIN connections : i < pos
    BY <1>0, TableTypes
  <2> QED
    BY <1>2, <1>5, <2>1 DEF IInv, DeadlinesAhead
<1>11. DeadlinesAhead'
  BY <1>2, <1>6, <1>10 DEF DeadlinesAhead
<1>12. PollReturnsInTime'
  <2>1. \A k \in 1 .. n : connections'[k].left > -TicksPerMs
    <3>1. \A k \in 1 .. n : connections'[k].left \in Int
      BY SMTT(30), Z3T(30), <1>6, TableTypes
    <3> QED
      BY <1>10, <3>1, ConstantTypes
  <2> QED
    <3>1. DeadlinesHonoured'
      BY <1>6, <2>1 DEF DeadlinesHonoured, OpenConnections
    <3> QED
      BY <1>3, <3>1 DEF IInv, PollReturnsInTime, StopLatency
<1>13. WaitBounded' /\ PollNeverSpins' /\ PausedListener' /\ ReportedInTable'
  BY <1>2, <1>3 DEF IInv, WaitBounded, PollNeverSpins, PausedListener, ReportedInTable
<1> QED
  BY SMTT(30), Z3T(30), <1>7, <1>8, <1>9, <1>11, <1>12, <1>13 DEF IInv

\* accept() hands out a descriptor no connection holds.
LEMMA AcceptSucceedsKeeps == IInv /\ AcceptSucceeds => IInv'
<1> SUFFICES ASSUME IInv, AcceptSucceeds PROVE IInv'
  OBVIOUS
<1> DEFINE fd == Least(Free)
           c  == Accepted(nextId, fd)
           n  == Len(connections)
<1>0. connections \in Seq(ConnectionType) /\ nextId \in Nat \ {0}
  BY DEF IInv, TypeOK
<1>1. fd \in 1 .. Descriptors /\ fd \notin open
  <2>1. Free \in SUBSET Nat /\ Free # {}
    BY ConstantTypes DEF Free, AcceptSucceeds
  <2>2. fd \in Free
    BY <2>1, LeastIsLeast
  <2> QED
    BY <2>2 DEF Free
<1>2. pc = "accept" /\ pc' = "accept" /\ n < MaxConnections /\ backlog # <<>>
  BY DEF AcceptSucceeds, HasSlot
<1>3. connections' = Append(connections, c) /\ open' = open \cup {fd} /\ nextId' = nextId + 1
      /\ backlog' = Tail(backlog)
  BY DEF AcceptSucceeds
<1>4. UNCHANGED <<pause, polled, listening, wait, reported, incoming, pos, waiting, stop, stopAge>>
  BY DEF AcceptSucceeds, polling
<1>5. n \in Nat /\ DOMAIN connections = 1 .. n
  BY <1>0, TableTypes
<1> HIDE DEF fd, n
<1>7. c \in ConnectionType /\ c.fd = fd /\ c.id = nextId /\ IsOpen(c) /\ c.left = IdleTimeout
  BY SMTT(30), Z3T(30), <1>0, <1>1, ConstantTypes DEF Accepted, ConnectionType, IsOpen
<1> HIDE DEF c
<1>8. /\ connections' \in Seq(ConnectionType) /\ Len(connections') = n + 1
      /\ DOMAIN connections' = 1 .. n + 1
      /\ connections'[n + 1] = c
      /\ \A i \in DOMAIN connections : connections'[i] = connections[i]
  BY SMTT(30), Z3T(30), <1>0, <1>3, <1>5, <1>7, AppendProperties DEF n
<1>9. \A i \in DOMAIN connections' : i \in DOMAIN connections \/ i = n + 1
  BY <1>5, <1>8
<1>10. n + 1 \notin DOMAIN connections /\ n + 1 \in DOMAIN connections'
  BY <1>5, <1>8
<1>11. TypeOK'
  <2>1. \A i \in DOMAIN connections' : connections'[i].id < nextId'
    <3>1. \A i \in DOMAIN connections : connections[i].id < nextId /\ connections[i].id \in Nat
      BY <1>0, TableTypes DEF IInv, TypeOK
    <3> QED
      BY <1>0, <1>3, <1>7, <1>8, <1>9, <3>1
  <2>2. backlog' \in Seq([client : Clients, aborted : BOOLEAN])
    <3>1. backlog \in Seq([client : Clients, aborted : BOOLEAN])
      BY DEF IInv, TypeOK
    <3> QED
      BY <1>2, <1>3, <3>1, HeadTailProperties
  <2>3. nextId' \in Nat \ {0} /\ open' \subseteq 1 .. Descriptors
    BY <1>0, <1>1, <1>3 DEF IInv, TypeOK
  <2> QED
    BY SMTT(30), Z3T(30), <1>2, <1>4, <1>8, <2>1, <2>2, <2>3 DEF IInv, TypeOK
<1>12. ResourcesAccounted'
  <2>1. ConnectionLimit'
    BY <1>2, <1>5, <1>8, ConstantTypes DEF ConnectionLimit
  <2>2. OpenConnections = DOMAIN connections /\ OpenConnections' = DOMAIN connections'
    BY Zenon, <1>2, <1>7, <1>8, <1>9 DEF IInv, ClosedOnlyBehindPos, OpenConnections
  <2>3. open = {connections[i].fd : i \in DOMAIN connections} \cup {Listener}
    BY SMTT(30), Z3T(30), <1>2, <2>2 DEF IInv, ResourcesAccounted, NoDescriptorLeak
  <2>4. {connections'[i].fd : i \in DOMAIN connections'}
          = {connections[i].fd : i \in DOMAIN connections} \cup {fd}
    BY <1>5, <1>7, <1>8, <1>9, <1>10
  <2>5. open' = {connections'[i].fd : i \in OpenConnections'} \cup {Listener}
    BY Zenon, <1>3, <2>2, <2>3, <2>4
  <2>6. fd # Listener /\ \A i \in DOMAIN connections : connections[i].fd # fd
    BY SMTT(30), Z3T(30), <1>1, <2>3
  <2>7. \A i \in OpenConnections' : connections'[i].fd # Listener
    BY SMTT(30), Z3T(30), <1>7, <1>8, <1>9, <2>2, <2>6
       DEF IInv, ResourcesAccounted, NoDescriptorLeak
  <2>8. ASSUME NEW i \in OpenConnections', NEW j \in OpenConnections',
               connections'[i].fd = connections'[j].fd
        PROVE  i = j
    <3>1. \A k, l \in DOMAIN connections : connections[k].fd = connections[l].fd => k = l
      BY <2>2 DEF IInv, ResourcesAccounted, NoDescriptorLeak
    <3> QED
      BY SMTT(30), Z3T(30), <1>7, <1>8, <1>9, <2>2, <2>6, <2>8, <3>1
  <2> QED
    BY <1>2, <2>1, <2>5, <2>7, <2>8 DEF ResourcesAccounted, NoDescriptorLeak, Listener
<1>13. ClosedOnlyBehindPos' /\ PollSetMatches'
  BY SMTT(30), Z3T(30), <1>2, <1>7, <1>8, <1>9 DEF IInv, ClosedOnlyBehindPos, PollSetMatches
<1>14. DeadlinesAhead'
  BY SMTT(30), Z3T(30), <1>2, <1>7, <1>8, <1>9, ConstantTypes DEF IInv, DeadlinesAhead
<1>15. PollReturnsInTime'
  <2>1. \A i \in DOMAIN connections' : connections'[i].left > -TicksPerMs
    <3>1. \A i \in DOMAIN connections : connections[i].left > 0 /\ connections[i].left \in Int
      BY <1>0, <1>2, TableTypes DEF IInv, DeadlinesAhead
    <3> QED
      BY <1>7, <1>8, <1>9, <3>1, ConstantTypes
  <2> QED
    BY <1>4, <2>1 DEF IInv, PollReturnsInTime, DeadlinesHonoured, StopLatency, OpenConnections
<1>16. WaitBounded' /\ PollNeverSpins' /\ PausedListener' /\ ReportedInTable'
  BY <1>2, <1>4 DEF IInv, WaitBounded, PollNeverSpins, PausedListener, ReportedInTable
<1> QED
  BY SMTT(30), Z3T(30), <1>11, <1>12, <1>13, <1>14, <1>15, <1>16 DEF IInv

\* The steps of the accept loop that leave the table as it is.
LEMMA AcceptOtherKeeps == IInv /\ (AcceptSkips \/ AcceptFails \/ AcceptEnds) => IInv'
<1> SUFFICES ASSUME IInv, AcceptSkips \/ AcceptFails \/ AcceptEnds PROVE IInv'
  OBVIOUS
<1>1. /\ pc = "accept" /\ pc' \in {"accept", "check"}
      /\ pc' = "accept" => pause' = pause
  BY DEF AcceptSkips, AcceptFails, AcceptEnds
<1>2. UNCHANGED <<connections, nextId, open, polled, listening, wait, reported, incoming, pos,
                  waiting, stop, stopAge>>
  BY DEF AcceptSkips, AcceptFails, AcceptEnds, table, polling, outside
<1>3. pause' \in 0 .. AcceptPause
  BY ConstantTypes DEF IInv, TypeOK, AcceptSkips, AcceptFails, AcceptEnds
<1>4. backlog' \in Seq([client : Clients, aborted : BOOLEAN])
  <2>1. backlog' = backlog \/ (backlog # <<>> /\ backlog' = Tail(backlog))
    BY DEF AcceptSkips, AcceptFails, AcceptEnds, outside
  <2>2. backlog \in Seq([client : Clients, aborted : BOOLEAN])
    BY DEF IInv, TypeOK
  <2> QED
    BY Zenon, <2>1, <2>2, HeadTailProperties
<1>5. TypeOK'
  BY <1>1, <1>2, <1>3, <1>4 DEF IInv, TypeOK
<1>6. ResourcesAccounted' /\ PollReturnsInTime'
  BY SMTT(30), Z3T(30), <1>1, <1>2, SameTable DEF IInv, PollReturnsInTime, StopLatency
<1>7. PollSetMatches' /\ ClosedOnlyBehindPos' /\ DeadlinesAhead'
  BY SMTT(30), Z3T(30), <1>1, <1>2
     DEF IInv, PollSetMatches, ClosedOnlyBehindPos, DeadlinesAhead, IsOpen
<1>8. WaitBounded' /\ PollNeverSpins' /\ PausedListener' /\ ReportedInTable'
  BY SMTT(30), Z3T(30), <1>1, <1>2
     DEF IInv, WaitBounded, PollNeverSpins, PausedListener, ReportedInTable
<1> QED
  BY <1>5, <1>6, <1>7, <1>8 DEF IInv

\* A signal is harmless wherever it arrives.
LEMMA SignalKeeps == IInv /\ Signal => IInv'
<1> SUFFICES ASSUME IInv, Signal PROVE IInv'
  OBVIOUS
<1>1. /\ pc # "done" /\ stop'
      /\ pc' = IF pc = "poll" THEN "check" ELSE pc
  BY DEF Signal
<1>2. UNCHANGED <<connections, nextId, open, pause, polled, listening, wait, reported, incoming,
                  pos, backlog, waiting, stopAge>>
  BY SMTT(30), Z3T(30) DEF Signal, table, polling
<1>3. TypeOK'
  <2>1. stop' \in BOOLEAN
    BY DEF Signal
  <2> QED
    BY <1>1, <1>2, <2>1 DEF IInv, TypeOK
<1>4. ResourcesAccounted' /\ PollReturnsInTime'
  BY SMTT(30), Z3T(30), <1>1, <1>2, SameTable DEF IInv, PollReturnsInTime, StopLatency
<1>5. PollSetMatches' /\ ClosedOnlyBehindPos' /\ DeadlinesAhead'
  BY SMTT(30), Z3T(30), <1>1, <1>2
     DEF IInv, PollSetMatches, ClosedOnlyBehindPos, DeadlinesAhead, IsOpen
<1>6. WaitBounded' /\ PollNeverSpins' /\ PausedListener' /\ ReportedInTable'
  BY <1>1, <1>2 DEF IInv, WaitBounded, PollNeverSpins, PausedListener, ReportedInTable
<1> QED
  BY <1>3, <1>4, <1>5, <1>6 DEF IInv

\* A tick brings every deadline and the end of poll() nearer alike.
LEMMA TickKeeps == IInv /\ Tick => IInv'
<1> SUFFICES ASSUME IInv, Tick PROVE IInv'
  OBVIOUS
<1>0. connections \in Seq(ConnectionType) /\ wait \in Nat /\ stopAge \in Nat
  BY DEF IInv, TypeOK
<1>1. pc = "poll" /\ pc' = "poll" /\ wait > 0 /\ wait' = wait - 1
      /\ pause' = (IF pause > 0 THEN pause - 1 ELSE 0)
      /\ stopAge' = (IF stop THEN stopAge + 1 ELSE stopAge)
  BY DEF Tick
<1>2. UNCHANGED <<nextId, polled, listening, reported, incoming, pos, open, backlog, waiting, stop>>
  BY DEF Tick
<1>3. Len(connections) \in Nat /\ DOMAIN connections = 1 .. Len(connections)
  BY <1>0, TableTypes
<1>4. connections' = [i \in 1 .. Len(connections) |-> [connections[i] EXCEPT !.left = @ - 1]]
  BY <1>3 DEF Tick
<1>5. ASSUME NEW i \in DOMAIN connections
      PROVE  /\ connections'[i] \in ConnectionType
             /\ connections'[i].fd = connections[i].fd /\ connections'[i].id = connections[i].id
             /\ connections'[i].phase = connections[i].phase
             /\ connections[i].left \in Int /\ connections'[i].left = connections[i].left - 1
  <2>1. connections[i] \in ConnectionType
    BY <1>0, TableTypes
  <2>2. connections'[i] = [connections[i] EXCEPT !.left = @ - 1]
    BY <1>3, <1>4
  <2> QED
    BY <2>1, <2>2 DEF ConnectionType
<1>6. /\ connections' \in Seq(ConnectionType) /\ Len(connections') = Len(connections)
      /\ DOMAIN connections' = DOMAIN connections
  <2> DEFINE f(i) == [connections[i] EXCEPT !.left = @ - 1]
  <2>1. \A i \in 1 .. Len(connections) : f(i) \in ConnectionType
    BY Zenon, <1>3, <1>4, <1>5
  <2>2. connections' = [i \in 1 .. Len(connections) |-> f(i)]
    BY SMTT(30), Z3T(30), <1>4
  <2> HIDE DEF f
  <2> QED
    BY <1>3, <2>1, <2>2
<1>7. TypeOK'
  <2>1. pause' \in 0 .. AcceptPause
    BY <1>1, ConstantTypes DEF IInv, TypeOK
  <2>2. \A i \in DOMAIN connections' : connections'[i].id < nextId'
    BY Zenon, <1>2, <1>5, <1>6 DEF IInv, TypeOK
  <2>3. wait' \in Nat /\ stopAge' \in Nat
    BY <1>0, <1>1
  <2> QED
    BY SMTT(30), Z3T(30), <1>1, <1>2, <1>6, <2>1, <2>2, <2>3 DEF IInv, TypeOK
<1>8. OpenConnections' = OpenConnections /\ OpenConnections \subseteq DOMAIN connections
  BY <1>5, <1>6 DEF OpenConnections, IsOpen
<1>9. ResourcesAccounted'
  <2>1. ConnectionLimit'
    BY <1>6 DEF IInv, ResourcesAccounted, ConnectionLimit
  <2>2. {connections'[i].fd : i \in OpenConnections} = {connections[i].fd : i \in OpenConnections}
    BY <1>5, <1>8
  <2>3. open' = {connections'[i].fd : i \in OpenConnections'} \cup {Listener}
    BY Zenon, <1>1, <1>2, <1>8, <2>2 DEF IInv, ResourcesAccounted, NoDescriptorLeak
  <2>4. /\ \A i, j \in OpenConnections' : connections'[i].fd = connections'[j].fd => i = j
        /\ \A i \in OpenConnections' : connections'[i].fd # Listener
    <3>1. \A i \in OpenConnections : connections'[i].fd = connections[i].fd
      BY SMTT(30), Z3T(30), <1>5, <1>8
    <3> QED
      BY <1>8, <3>1 DEF IInv, ResourcesAccounted, NoDescriptorLeak
  <2> QED
    BY <1>1, <2>1, <2>3, <2>4 DEF ResourcesAccounted, NoDescriptorLeak, Listener
<1>10. PollSetMatches' /\ ClosedOnlyBehindPos'
  BY <1>1, <1>2, <1>5, <1>6 DEF IInv, PollSetMatches, ClosedOnlyBehindPos, IsOpen
<1>11. \A i \in DOMAIN connections' : connections'[i].left > wait' - TicksPerMs
  <2>1. \A i \in DOMAIN connections : connections[i].left > wait - TicksPerMs
    BY SMTT(30), Z3T(30), <1>1 DEF IInv, DeadlinesAhead
  <2> QED
    <3>1. ASSUME NEW i \in DOMAIN connections PROVE connections'[i].left > wait' - TicksPerMs
      BY SMTT(30), Z3T(30), <1>0, <1>1, <1>5, <2>1, ConstantTypes
    <3> QED
      BY SMTT(30), Z3T(30), <1>6, <3>1
<1>12. DeadlinesAhead'
  BY SMTT(30), Z3T(30), <1>1, <1>11 DEF DeadlinesAhead
<1>13. WaitBounded'
  BY <1>0, <1>1, <1>2, ConstantTypes DEF IInv, WaitBounded
<1>14. PollReturnsInTime'
  <2>1. DeadlinesHonoured'
    <3>1. \A i \in DOMAIN connections' : connections'[i].left > -TicksPerMs
      <4>1. \A i \in DOMAIN connections' : connections'[i].left \in Int
        BY <1>5, <1>6
      <4>2. wait' \in Nat
        BY <1>0, <1>1
      <4> QED
        BY <1>11, <4>1, <4>2, ConstantTypes
    <3> QED
      BY <3>1 DEF DeadlinesHonoured, OpenConnections
  <2>2. StopLatency'
    BY SMTT(30), Z3T(30), <1>0, <1>1, <1>13, ConstantTypes DEF StopLatency, WaitBounded
  <2> QED
    BY <2>1, <2>2 DEF PollReturnsInTime
<1>15. PollNeverSpins' /\ PausedListener' /\ ReportedInTable'
  BY SMTT(30), Z3T(30), <1>1, <1>2 DEF IInv, PollNeverSpins, PausedListener, ReportedInTable
<1> QED
  BY SMTT(30), Z3T(30), <1>7, <1>9, <1>10, <1>12, <1>13, <1>14, <1>15 DEF IInv

LEMMA ClientsKeep == IInv /\ (ClientConnects \/ ClientAborts) => IInv'
<1> SUFFICES ASSUME IInv, ClientConnects \/ ClientAborts PROVE IInv'
  OBVIOUS
<1>1. pc # "done"
  BY DEF ClientConnects, ClientAborts
<1>2. UNCHANGED <<pc, connections, nextId, open, pause, polled, listening, wait, reported, incoming,
                  pos, stop, stopAge>>
  BY DEF ClientConnects, ClientAborts, table, polling
<1>3. waiting' \subseteq Clients /\ backlog' \in Seq([client : Clients, aborted : BOOLEAN])
  <2>1. backlog \in Seq([client : Clients, aborted : BOOLEAN]) /\ waiting \subseteq Clients
    BY DEF IInv, TypeOK
  <2>2. CASE ClientConnects
    <3>1. PICK c \in waiting : /\ waiting' = waiting \ {c}
                               /\ backlog' = Append(backlog, [client |-> c, aborted |-> FALSE])
      BY Zenon, <2>2 DEF ClientConnects
    <3> QED
      BY <2>1, <3>1, AppendProperties
  <2>3. CASE ClientAborts
    <3>1. PICK i \in DOMAIN backlog : backlog' = [backlog EXCEPT ![i].aborted = TRUE]
      BY Zenon, <2>3 DEF ClientAborts
    <3>2. backlog[i] \in [client : Clients, aborted : BOOLEAN]
      BY Zenon, <2>1, <3>1, ElementOfSeq, LenProperties
    <3> DEFINE R == [client : Clients, aborted : BOOLEAN]
               b == [backlog[i] EXCEPT !.aborted = TRUE]
    <3>3. b \in [client : Clients, aborted : BOOLEAN]
      BY Zenon, <3>2
    <3>4. backlog' = [backlog EXCEPT ![i] = b]
      BY <3>1
    <3>5. waiting' = waiting
      BY <2>3 DEF ClientAborts
    <3>6. backlog \in Seq(R) /\ i \in 1 .. Len(backlog) /\ b \in R
      BY <2>1, <3>1, <3>3, LenProperties
    <3> HIDE DEF b, R
    <3>7. backlog' \in Seq(R)
      BY <3>4, <3>6, ExceptSeq, Zenon
    <3> QED
      BY <2>1, <3>5, <3>7 DEF R
  <2> QED
    BY <2>2, <2>3
<1>4. TypeOK'
  BY <1>2, <1>3 DEF IInv, TypeOK
<1>5. ResourcesAccounted' /\ PollReturnsInTime'
  BY SMTT(30), Z3T(30), <1>1, <1>2, SameTable DEF IInv, PollReturnsInTime, StopLatency
<1>6. PollSetMatches' /\ ClosedOnlyBehindPos' /\ DeadlinesAhead'
  BY SMTT(30), Z3T(30), <1>2 DEF IInv, PollSetMatches, ClosedOnlyBehindPos, DeadlinesAhead, IsOpen
<1>7. WaitBounded' /\ PollNeverSpins' /\ PausedListener' /\ ReportedInTable'
  BY <1>2 DEF IInv, WaitBounded, PollNeverSpins, PausedListener, ReportedInTable
<1> QED
  BY <1>4, <1>5, <1>6, <1>7 DEF IInv

LEMMA StepKeepsIInv == IInv /\ [Next]_vars => IInv'
<1> SUFFICES ASSUME IInv, [Next]_vars PROVE IInv'
  OBVIOUS
<1>1. CASE UNCHANGED vars
  <2>1. TypeOK'
    BY <1>1, Zenon DEF vars, IInv, TypeOK
  <2>4. ResourcesAccounted'
    BY <1>1, Zenon DEF vars, IInv, ResourcesAccounted, ConnectionLimit, NoDescriptorLeak,
                       OpenConnections
  <2>5. PollReturnsInTime'
    BY <1>1, Zenon DEF vars, IInv, PollReturnsInTime, DeadlinesHonoured, StopLatency,
                       OpenConnections
  <2>2. PollSetMatches' /\ ClosedOnlyBehindPos' /\ DeadlinesAhead'
    BY SMTT(30), Z3T(30), <1>1 DEF vars, IInv, PollSetMatches, ClosedOnlyBehindPos, DeadlinesAhead
  <2>3. WaitBounded' /\ PollNeverSpins' /\ PausedListener' /\ ReportedInTable'
    BY <1>1 DEF vars, IInv, WaitBounded, PollNeverSpins, PausedListener, ReportedInTable
  <2> QED
    BY <2>1, <2>2, <2>3, <2>4, <2>5, Zenon DEF IInv
<1>2. CASE Loop
  BY SMTT(30), Z3T(30), <1>2, BuildPollSetKeeps, EnterPollKeeps, HandleConnectionKeeps,
     EraseClosedKeeps, AcceptSucceedsKeeps, AcceptOtherKeeps, CloseAllKeeps DEF Loop
<1>3. CASE PollReturns \/ PollFails \/ Signal \/ Tick \/ ClientConnects \/ ClientAborts
  BY <1>3, PollReturnsKeeps, PollFailsKeeps, SignalKeeps, TickKeeps, ClientsKeep
<1> QED
  BY <1>1, <1>2, <1>3 DEF Next, Finished

-----------------------------------------------------------------------------
(* The theorems *)

LEMMA Invariance == Spec => []IInv
BY InitIInv, StepKeepsIInv, PTL DEF Spec

\* The state of Server has its types, and no connection id is given twice.
THEOREM TypeCorrect == Spec => []TypeOK
<1>1. IInv => TypeOK
  BY SMTT(30), Z3T(30) DEF IInv
<1> QED
  BY <1>1, Invariance, PTL

\* Server::run hands every event to the connection it was polled for, however
\* many connections there are, close or are accepted.
THEOREM EventsAreDelivered == Spec => []EventsReachTheirConnection
<1>1. IInv => EventsReachTheirConnection
  BY DEF IInv, PollSetMatches, EventsReachTheirConnection
<1> QED
  BY <1>1, Invariance, PTL

\* max_connections is never exceeded, and every open descriptor belongs to the
\* listener or to one connection, on every path of run(),
\* accept_new_connections and close_now.
THEOREM NothingLeaks == Spec => []ResourcesAccounted
<1>1. IInv => ResourcesAccounted
  BY DEF IInv
<1> QED
  BY <1>1, Invariance, PTL

\* poll_timeout_ms: no deadline is missed by a millisecond and no stop request
\* waits longer than kMaxPollWait, whatever the timeouts are.
THEOREM WakesInTime == Spec => []PollReturnsInTime
<1>1. IInv => PollReturnsInTime
  BY DEF IInv
<1> QED
  BY <1>1, Invariance, PTL

\* poll_timeout_ms never returns zero: the loop does not spin.
THEOREM LoopNeverSpins == Spec => []PollNeverSpins
<1>1. IInv => PollNeverSpins
  BY DEF IInv
<1> QED
  BY <1>1, Invariance, PTL

\* accept_new_connections is never entered during a pause.
THEOREM PauseIsRespected == Spec => AcceptRespectsPause
<1>1. IInv /\ [Next]_vars => [AcceptFails \/ AcceptSucceeds \/ AcceptSkips => pause = 0]_vars
  BY DEF IInv, PausedListener, AcceptFails, AcceptSucceeds, AcceptSkips
<1> QED
  BY <1>1, Invariance, PTL DEF Spec, AcceptRespectsPause

-----------------------------------------------------------------------------
(***************************************************************************)
(* Before the loop: main() and create_listening_socket, for every command  *)
(* line, number of addresses, failing system call and moment of a signal.  *)
(*                                                                         *)
(* The invariant says for each step of main() exactly what has been done   *)
(* to the socket being made, and that the configuration is in range from   *)
(* the defaults on, whichever options have replaced which part of it.      *)
(***************************************************************************)

Configs == [idle : 1 .. MaxSeconds * 1000, connections : 1 .. MaxSlots, port : 0 .. MaxPort]

\* What has been done to the socket at each step of main().
SocketSoFar ==
  /\ mainStep \in {"parse", "resolve", "socket"} => socket = {}
  /\ mainStep = "bind" => socket = {"opened"}
  /\ mainStep = "listen" => socket = {"opened", "bind"}
  /\ mainStep = "nonblock" => socket = {"opened", "bind", "listen"}
  /\ mainStep \in {"enter", "run"} => socket = {"opened", "bind", "listen", "nonblock"}

Steps == {"parse", "resolve", "socket", "bind", "listen", "nonblock", "enter", "run", "done"}

StartupInv ==
  /\ mainStep \in Steps
  /\ argv \in Seq(Arguments)
  /\ config \in Configs
  /\ SocketSoFar
  /\ descriptors = IF mainStep \in {"bind", "listen", "nonblock", "enter", "run"} THEN 1 ELSE 0

LEMMA Limits ==
  /\ MaxPort \in Nat /\ 8080 <= MaxPort
  /\ MaxSeconds \in Nat /\ 30000 <= MaxSeconds * 1000
  /\ MaxSlots \in Nat /\ 64 <= MaxSlots
BY SMT DEF MaxPort, MaxSeconds, MaxSlots

\* A number within the limits of its option is, truncated, a value the event
\* loop can work with.
LEMMA ConfiguredInRange ==
  ASSUME config \in Configs, NEW option, NEW n \in Int, InRange(option, n)
  PROVE  Configured(option, n) \in Configs
<1>1. CASE option = "--port"
  <2>1. n \div Scale \in 0 .. MaxPort
    BY SMT, Limits, <1>1 DEF InRange, Between, Scale
  <2> QED
    BY SMT, <1>1, <2>1 DEF Configured, Configs
<1>2. CASE option = "--idle-timeout"
  <2>1. n \div (Scale \div 1000) \in 1 .. MaxSeconds * 1000
    BY SMT, Limits, <1>2 DEF InRange, Between, Scale
  <2> QED
    BY SMT, <1>2, <2>1 DEF Configured, Configs
<1>3. CASE option = "--max-connections"
  <2>1. n \div Scale \in 1 .. MaxSlots
    BY SMT, Limits, <1>3 DEF InRange, Between, Scale
  <2> QED
    BY SMT, <1>3, <2>1 DEF Configured, Configs
<1> QED
  BY SMT, <1>1, <1>2, <1>3 DEF InRange

LEMMA StartupInitInv == StartupInit => StartupInv
<1> SUFFICES ASSUME StartupInit PROVE StartupInv
  OBVIOUS
<1>1. argv \in Seq(Arguments)
  BY StartupAssumption DEF StartupInit, StartupAssumption
<1>2. config \in Configs
  BY SMT, Limits DEF StartupInit, DefaultConfig, Configs
<1> QED
  BY <1>1, <1>2 DEF StartupInit, StartupInv, Steps, SocketSoFar

LEMMA ParseArgumentKeeps == StartupInv /\ ParseArgument => StartupInv'
<1> SUFFICES ASSUME StartupInv, ParseArgument PROVE StartupInv'
  OBVIOUS
<1>1. mainStep = "parse" /\ argv # <<>> /\ argv \in Seq(Arguments) /\ config \in Configs
      /\ UNCHANGED <<socket, descriptors>>
  BY DEF StartupInv, ParseArgument
<1>2. mainStep' \in {"parse", "done"}
  BY <1>1 DEF ParseArgument
<1>3. argv' \in Seq(Arguments)
  <2>1. argv' = argv \/ argv' = Tail(argv) \/ argv' = SubSeq(argv, 3, Len(argv))
    BY DEF ParseArgument
  <2>2. Tail(argv) \in Seq(Arguments)
    BY <1>1, HeadTailProperties
  <2>3. SubSeq(argv, 3, Len(argv)) \in Seq(Arguments)
    BY <1>1
  <2> QED
    BY <1>1, <2>1, <2>2, <2>3
<1>4. config' \in Configs
  <2> DEFINE n == argv[2].number
             option == Head(argv).text
  <2>1. config' = config
          \/ (Len(argv) > 1 /\ InRange(option, n) /\ config' = Configured(option, n))
    BY DEF ParseArgument
  <2>2. Len(argv) > 1 => n \in Int
    <3>1. SUFFICES ASSUME Len(argv) > 1 PROVE n \in Int
      OBVIOUS
    <3>2. argv[2] \in Arguments
      BY <1>1, <3>1
    <3> QED
      BY <3>2, StartupAssumption DEF StartupAssumption, NoNumber
  <2> HIDE DEF n, option
  <2> QED
    BY <1>1, <2>1, <2>2, ConfiguredInRange
<1> QED
  BY <1>1, <1>2, <1>3, <1>4 DEF StartupInv, Steps, SocketSoFar

\* The FileDescriptor of a candidate closes what socket() opened.
LEMMA NextCandidateCloses ==
  ASSUME StartupInv, NextCandidate, mainStep \in {"socket", "bind", "listen", "nonblock"}
  PROVE  descriptors' = 0 /\ socket' = {} /\ mainStep' = "socket"
BY DEF StartupInv, NextCandidate, SocketSoFar

LEMMA MakingSocketKeeps ==
  StartupInv /\ (MakeSocket \/ Prepare("bind", "listen") \/ Prepare("listen", "nonblock")
           \/ Prepare("nonblock", "enter")) => StartupInv'
<1> SUFFICES ASSUME StartupInv, MakeSocket \/ Prepare("bind", "listen") \/ Prepare("listen", "nonblock")
                          \/ Prepare("nonblock", "enter")
             PROVE  StartupInv'
  OBVIOUS
<1>1. mainStep \in {"socket", "bind", "listen", "nonblock"} /\ UNCHANGED <<argv, config>>
  BY DEF MakeSocket, Prepare
<1>2. CASE NextCandidate
  BY <1>1, <1>2, NextCandidateCloses DEF StartupInv, Steps, SocketSoFar
<1>3. CASE MakeSocket
  BY <1>1, <1>2, <1>3 DEF StartupInv, MakeSocket, Steps, SocketSoFar
<1>4. CASE Prepare("bind", "listen")
  BY <1>1, <1>2, <1>4 DEF StartupInv, Prepare, Steps, SocketSoFar
<1>5. CASE Prepare("listen", "nonblock")
  BY <1>1, <1>2, <1>5 DEF StartupInv, Prepare, Steps, SocketSoFar
<1>6. CASE Prepare("nonblock", "enter")
  BY <1>1, <1>2, <1>6 DEF StartupInv, Prepare, Steps, SocketSoFar
<1> QED
  BY <1>3, <1>4, <1>5, <1>6

LEMMA StartupKeepsInv == StartupInv /\ [StartupNext]_startupVars => StartupInv'
<1> SUFFICES ASSUME StartupInv, [StartupNext]_startupVars PROVE StartupInv'
  OBVIOUS
<1>1. CASE InstallSignalHandlers
  BY <1>1 DEF StartupInv, InstallSignalHandlers, Steps, SocketSoFar
<1>2. CASE Resolve
  BY <1>2 DEF StartupInv, Resolve, Steps, SocketSoFar
<1>3. CASE NoListener
  BY <1>3 DEF StartupInv, NoListener, Steps, SocketSoFar
<1>4. CASE StartRun
  BY <1>4 DEF StartupInv, StartRun, EnterRun, Steps, SocketSoFar
<1>5. CASE RunEnds \/ RunThrows
  BY <1>5 DEF StartupInv, RunEnds, RunThrows, Steps, SocketSoFar
<1>6. CASE SignalArrives
  BY <1>6 DEF StartupInv, SignalArrives, Steps, SocketSoFar
<1>7. CASE UNCHANGED startupVars
  BY <1>7 DEF StartupInv, SocketSoFar, startupVars
<1> QED
  BY <1>1, <1>2, <1>3, <1>4, <1>5, <1>6, <1>7, ParseArgumentKeeps, MakingSocketKeeps
     DEF StartupNext, Main, Exited

LEMMA StartupInvariance == StartupSpec => []StartupInv
BY StartupInitInv, StartupKeepsInv, PTL DEF StartupSpec

\* Server::run is entered only with a usable configuration and one listening,
\* non-blocking socket, whatever the command line and whichever calls failed.
THEOREM LoopStartsReady == StartupSpec => []ReadyToServe
<1>1. StartupInv => ReadyToServe
  BY SMT DEF StartupInv, ReadyToServe, Configs, SocketSoFar
<1> QED
  BY <1>1, StartupInvariance, PTL

\* create_listening_socket closes the socket of every candidate it gives up,
\* for any number of addresses.
THEOREM SocketsAreClosed == StartupSpec => []NoSocketLeftBehind
<1>1. StartupInv => NoSocketLeftBehind
  BY DEF StartupInv, NoSocketLeftBehind
<1> QED
  BY <1>1, StartupInvariance, PTL

=============================================================================
