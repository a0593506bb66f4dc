------------------------------- MODULE Startup -------------------------------
(***************************************************************************)
(* src/main.cpp and create_listening_socket (src/socket_utils.cpp): from   *)
(* the command line to the event loop, any system call failing, a signal   *)
(* arriving at any moment.  The loop itself is module Server; here it is   *)
(* what Server shows of it: it ends once the stop flag is set.             *)
(*                                                                         *)
(* An argument is [text, number]: an option, or another text with the      *)
(* number strtod() finds in it, in units of 1/Scale, or NoNumber.          *)
(***************************************************************************)
EXTENDS Integers, Sequences

CONSTANTS
  Arguments,   \* possible elements of argv
  MaxArguments,
  Candidates   \* how many addresses getaddrinfo finds at most

Scale == 10000      \* a tenth of a millisecond
NoNumber == -1      \* no number, or one below zero

\* The largest numbers the options take.
MaxPort == 65535
MaxSeconds == 86400
MaxSlots == 10000

ASSUME StartupAssumption ==
  /\ Arguments \subseteq [text : STRING, number : {NoNumber} \cup Nat]
  /\ MaxArguments \in Nat /\ Candidates \in Nat \ {0}

VARIABLES
  mainStep,       \* the next step of main()
  argv,           \* the arguments not parsed yet
  config,         \* idle_timeout in ms, max_connections, port
  handlers,       \* install_signal_handlers has run
  stopRequested,  \* g_stop_requested
  candidates,     \* addresses left to try
  socket,         \* what has been done to the socket being made: a set
  descriptors,    \* how many descriptors are open
  exit            \* "none", or how the process ended

startupVars ==
  <<mainStep, argv, config, handlers, stopRequested, candidates, socket, descriptors, exit>>

\* What ServerConfig holds before any option is read.
DefaultConfig == [idle |-> 30000, connections |-> 64, port |-> 8080]

StartupInit ==
  /\ mainStep = "parse"
  /\ argv \in UNION {[1 .. n -> Arguments] : n \in 0 .. MaxArguments}
  /\ config = DefaultConfig
  /\ handlers = FALSE
  /\ stopRequested = FALSE
  /\ candidates = 0
  /\ socket = {}
  /\ descriptors = 0
  /\ exit = "none"

-----------------------------------------------------------------------------
(* parse_arguments *)

Between(low, high, n) == low <= n /\ n <= high

\* Mutant: any timeout that is not negative.
InRangeFromZero(option, n) ==
  \/ option = "--port" /\ Between(0, MaxPort * Scale, n)
  \/ option = "--idle-timeout" /\ Between(0, MaxSeconds * Scale, n)
  \/ option = "--max-connections" /\ Between(Scale, MaxSlots * Scale, n)

\* parse_number with the limits of the option
InRange(option, n) ==
  \/ option = "--port" /\ Between(0, MaxPort * Scale, n)
  \/ option = "--idle-timeout" /\ Between(Scale \div 1000, MaxSeconds * Scale, n)
  \/ option = "--max-connections" /\ Between(Scale, MaxSlots * Scale, n)

\* static_cast truncates.
Configured(option, n) ==
  [port        |-> IF option = "--port" THEN n \div Scale ELSE config.port,
   idle        |-> IF option = "--idle-timeout" THEN n \div (Scale \div 1000) ELSE config.idle,
   connections |-> IF option = "--max-connections" THEN n \div Scale ELSE config.connections]

ParseArgument ==
  /\ mainStep = "parse" /\ argv # <<>>
  /\ LET arg == Head(argv).text
         hasValue == Len(argv) > 1
     IN  \/ /\ arg \in {"--help", "-h"}
            /\ exit' = "0" /\ mainStep' = "done"
            /\ UNCHANGED <<argv, config>>
         \/ /\ arg \in {"--quiet", "--verbose"}
            /\ argv' = Tail(argv)
            /\ UNCHANGED <<mainStep, config, exit>>
         \/ /\ arg = "--host" /\ hasValue
            /\ argv' = SubSeq(argv, 3, Len(argv))
            /\ UNCHANGED <<mainStep, config, exit>>
         \/ /\ hasValue /\ InRange(arg, argv[2].number)
            /\ config' = Configured(arg, argv[2].number)
            /\ argv' = SubSeq(argv, 3, Len(argv))
            /\ UNCHANGED <<mainStep, exit>>
         \/ /\ arg \notin {"--help", "-h", "--quiet", "--verbose"}
            /\ ~ (hasValue /\ (arg = "--host" \/ InRange(arg, argv[2].number)))
            /\ exit' = "2" /\ mainStep' = "done"
            /\ UNCHANGED <<argv, config>>
  /\ UNCHANGED <<handlers, stopRequested, candidates, socket, descriptors>>

InstallSignalHandlers ==
  /\ mainStep = "parse" /\ argv = <<>>
  /\ handlers' = TRUE
  /\ mainStep' = "resolve"
  /\ UNCHANGED <<argv, config, stopRequested, candidates, socket, descriptors, exit>>

-----------------------------------------------------------------------------
(* create_listening_socket *)

Resolve ==
  /\ mainStep = "resolve"
  /\ \/ candidates' \in 1 .. Candidates /\ mainStep' = "socket" /\ UNCHANGED exit
     \/ exit' = "1" /\ mainStep' = "done" /\ UNCHANGED candidates   \* getaddrinfo fails
  /\ UNCHANGED <<argv, config, handlers, stopRequested, socket, descriptors>>

\* Mutant: `continue` leaves the descriptor open.
NextCandidateLeaking ==
  /\ candidates' = candidates - 1
  /\ mainStep' = "socket"
  /\ socket' = {}
  /\ UNCHANGED descriptors

\* `continue`: the FileDescriptor of this candidate closes it, if it was opened.
NextCandidate ==
  /\ candidates' = candidates - 1
  /\ mainStep' = "socket"
  /\ descriptors' = IF "opened" \in socket THEN descriptors - 1 ELSE descriptors
  /\ socket' = {}

MakeSocket ==
  /\ mainStep = "socket" /\ candidates > 0
  /\ \/ /\ descriptors' = descriptors + 1 /\ socket' = {"opened"} /\ mainStep' = "bind"
        /\ UNCHANGED candidates
     \/ NextCandidate
  /\ UNCHANGED <<argv, config, handlers, stopRequested, exit>>

\* bind(), listen() and set_nonblocking(), each of which may fail
Prepare(call, next) ==
  /\ mainStep = call
  /\ \/ socket' = socket \cup {call} /\ mainStep' = next /\ UNCHANGED <<candidates, descriptors>>
     \/ NextCandidate
  /\ UNCHANGED <<argv, config, handlers, stopRequested, exit>>

NoListener ==
  /\ mainStep = "socket" /\ candidates = 0
  /\ exit' = "1" /\ mainStep' = "done"
  /\ UNCHANGED <<argv, config, handlers, stopRequested, candidates, socket, descriptors>>

-----------------------------------------------------------------------------
(* Server::run, signals *)

\* Mutant: the flag is cleared before the loop.
EnterRunClearing == mainStep = "enter" /\ mainStep' = "run" /\ stopRequested' = FALSE

EnterRun == mainStep = "enter" /\ mainStep' = "run" /\ UNCHANGED stopRequested

StartRun ==
  /\ EnterRun
  /\ UNCHANGED <<argv, config, handlers, candidates, socket, descriptors, exit>>

\* The loop closes all sockets when it ends; it may throw.
RunEnds ==
  /\ mainStep = "run"
  /\ stopRequested
  /\ descriptors' = descriptors - 1
  /\ exit' = "0" /\ mainStep' = "done"
  /\ UNCHANGED <<argv, config, handlers, stopRequested, candidates, socket>>

RunThrows ==
  /\ mainStep = "run"
  /\ descriptors' = descriptors - 1
  /\ exit' = "1" /\ mainStep' = "done"
  /\ UNCHANGED <<argv, config, handlers, stopRequested, candidates, socket>>

\* Before the handlers are installed a signal kills the process.
SignalArrives ==
  /\ mainStep # "done"
  /\ IF handlers
     THEN ~ stopRequested /\ stopRequested' = TRUE /\ UNCHANGED <<mainStep, descriptors, exit>>
     ELSE descriptors' = 0 /\ exit' = "killed" /\ mainStep' = "done" /\ UNCHANGED stopRequested
  /\ UNCHANGED <<argv, config, handlers, candidates, socket>>

Exited == mainStep = "done" /\ UNCHANGED startupVars

Main ==
  \/ ParseArgument \/ InstallSignalHandlers \/ Resolve
  \/ MakeSocket \/ Prepare("bind", "listen") \/ Prepare("listen", "nonblock")
  \/ Prepare("nonblock", "enter") \/ NoListener
  \/ StartRun \/ RunEnds

StartupNext == Main \/ RunThrows \/ SignalArrives \/ Exited

StartupSpec == StartupInit /\ [][StartupNext]_startupVars /\ WF_startupVars(Main)

-----------------------------------------------------------------------------
\* The event loop starts only with a configuration it can work with (a timeout
\* of no milliseconds would close every connection at once, and no connection
\* slot would leave every client waiting) and with one socket open that is
\* bound, listening and never blocks, whatever was tried before.
ReadyToServe ==
  mainStep \in {"enter", "run"} =>
    /\ config.idle \in 1 .. MaxSeconds * 1000
    /\ config.connections \in 1 .. MaxSlots
    /\ config.port \in 0 .. MaxPort
    /\ socket = {"opened", "bind", "listen", "nonblock"}
    /\ descriptors = 1

\* No candidate that failed at any step leaves its descriptor open, on the way
\* to the next candidate or to the exception.
NoSocketLeftBehind ==
  /\ mainStep \in {"resolve", "socket", "done"} => descriptors = 0
  /\ descriptors <= 1

\* A stop request that arrives while the listener is being made, before the
\* loop first looks at the flag, is not lost.
StopDuringStartup == stopRequested ~> exit # "none"

=============================================================================
