---------------------------- MODULE PureFunctions ----------------------------
(***************************************************************************)
(* The functions of the server that keep no state, each against its        *)
(* reference: one behaviour examines one of them (its subject), on inputs  *)
(* that are built up or chosen as the module named for it says.            *)
(***************************************************************************)
EXTENDS ContentLength, Calculations

CONSTANTS
  MaxPieces,      \* of a line of a head
  MaxQuery,       \* characters of a query
  MaxConnection,  \* characters of all Connection headers
  MaxHost,        \* characters of a Host header
  MaxParameters   \* of a query given to the router

VARIABLES
  subject,
  line,                                       \* HeadGrammar
  query, parameters, part, escape, refused,   \* QueryGrammar
  request, response                           \* Headers, Routing

grammar == <<query, parameters, part, escape, refused>>
routing == <<request, response>>

-----------------------------------------------------------------------------
(* Inputs *)

\* blank  /  A  DEL  HTTP/1.0  HTTP/1.2  HTTP/1.
RequestLinePieces ==
  {<<32>>, <<47>>, <<65>>, <<127>>,
   <<72, 84, 84, 80, 47, 49, 46, 48>>, <<72, 84, 84, 80, 47, 49, 46, 50>>,
   <<72, 84, 84, 80, 47, 49, 46>>}

\* blank  :  A  a control character  DEL
HeaderLinePieces == {<<32>>, <<58>>, <<65>>, <<1>>, <<127>>}

HostLists == {<<>>, << <<97>> >>, << <<47>> >>, << <<97>>, <<97>> >>}  \* of a  /
Paths == {<<47, 97, 100, 100>>, <<47, 115, 117, 98>>, <<47, 109, 117, 108>>,
          <<47, 100, 105, 118>>, <<47>>}           \* the four operations  /
Names == {<<97>>, <<98>>, <<99>>}                  \* a  b  c
Values == {<<45, 49>>, ToDecimal(MinInt), <<120>>}  \* -1  the least word  x

RL == INSTANCE HeadGrammar WITH Pieces <- RequestLinePieces
HL == INSTANCE HeadGrammar WITH Pieces <- HeaderLinePieces
\* % & 3 = D g
Q  == INSTANCE QueryGrammar WITH Characters <- {37, 38, 51, 61, 68, 103}, MaxLength <- MaxQuery
\* blank , close keep-alive and another word
HC == INSTANCE Headers WITH HeaderNames <- {"Connection", "other"}, MaxHeaders <- 3,
                            Characters <- {32, 44, 1001, 1002, 1003}, MaxLength <- MaxConnection
\* - 1 : [ ] a g
HH == INSTANCE Headers WITH HeaderNames <- {"Host"}, MaxHeaders <- 1,
                            Characters <- {45, 49, 58, 91, 93, 97, 103}, MaxLength <- MaxHost
R  == INSTANCE Routing WITH Methods <- {"GET", "POST"}

-----------------------------------------------------------------------------
NotExamined == <<>>

FunctionsInit ==
  /\ subject \in {"request line", "header line", "content length", "query", "connection",
                  "host", "routing", "calculator"}
  /\ Init
  /\ RL!Init
  /\ Q!Init
  /\ CallInit
  /\ CASE subject \in {"connection", "host"} -> HC!Init /\ response = NotExamined
       [] subject = "routing" -> R!Init
       [] OTHER -> request = NotExamined /\ response = NotExamined

FunctionsNext ==
  \/ /\ subject = "request line" /\ RL!Next
     /\ UNCHANGED <<subject, vars, grammar, routing, calling>>
  \/ /\ subject = "header line" /\ HL!Next
     /\ UNCHANGED <<subject, vars, grammar, routing, calling>>
  \/ /\ subject = "content length" /\ Next
     /\ UNCHANGED <<subject, line, grammar, routing, calling>>
  \/ /\ subject = "query" /\ Q!Next
     /\ UNCHANGED <<subject, vars, line, routing, calling>>
  \/ /\ subject = "connection" /\ HC!Next
     /\ UNCHANGED <<subject, vars, line, grammar, response, calling>>
  \/ /\ subject = "host" /\ HH!Next
     /\ UNCHANGED <<subject, vars, line, grammar, response, calling>>
  \/ /\ subject = "routing" /\ R!Next
     /\ UNCHANGED <<subject, vars, line, grammar, calling>>
  \/ /\ subject = "calculator" /\ CallNext
     /\ UNCHANGED <<subject, vars, line, grammar, routing>>

FunctionsSpec ==
  FunctionsInit /\ [][FunctionsNext]_<<subject, vars, line, grammar, routing, calling>>

-----------------------------------------------------------------------------
\* parse_request_line and parse_header_line accept exactly the lines of their
\* grammar, and read them in the only way there is (HeadGrammar).
LinesFollowGrammar ==
  /\ subject = "request line" => RL!RequestLineFollowsGrammar
  /\ subject = "header line" => HL!HeaderLineFollowsGrammar

\* parse_query, which splits before it decodes, reads what one pass over the
\* query reads, and refuses what that pass refuses (QueryGrammar); parse_int64
\* accepts exactly the decimal texts of words, and reads back the text the
\* server writes for each (Calculations).
ParametersReadAsWritten ==
  /\ subject = "query" => Q!ParseQueryReadsGrammar
  /\ subject = "calculator" => ParseInvertsToString

\* wants_keep_alive decides by the list that all Connection headers form
\* together, and is_valid_host accepts exactly the simplified uri-host
\* [":" port] of its comment (Headers).
HeadersFollowGrammar ==
  /\ subject = "connection" => HC!KeepAliveFollowsList
  /\ subject = "host" => HH!HostFollowsGrammar

\* The first check of handle_request that fails decides the status, and exactly
\* the parameters a and b are calculated with, exactly (Routing).
FirstFailureDecides == subject = "routing" => R!FirstFailureDecides

=============================================================================
