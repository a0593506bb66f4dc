----------------------------- MODULE DemoClient -----------------------------
(***************************************************************************)
(* tools/demo_client.cpp: one connection, a list of requests sent one by   *)
(* one or all at once, responses framed by Content-Length, and a probe at  *)
(* the end.  Its sockets block.                                            *)
(*                                                                         *)
(* The server is any program that answers each request once and in order:  *)
(* it may answer wrongly, and close or reset the connection at any moment. *)
(* It reads only while less than OutputHighWater of its output waits, as   *)
(* Connection does.  Response bytes are their place in the response, the   *)
(* blank line being the last byte of its head.                             *)
(***************************************************************************)
EXTENDS Integers, Sequences

CONSTANTS
  Exchanges,        \* how many requests precede the probe
  Candidates,       \* how many addresses getaddrinfo returned
  RequestBytes, HeadBytes, BodyBytes,  \* lengths of requests and responses
  ToServer, ToClient,  \* capacity of the kernel's buffers
  OutputHighWater

\* The whole batch fits the buffer toward the server, as the few hundred bytes
\* of the seven requests do: the client reads nothing while it sends.
ASSUME DemoAssumption ==
  /\ {Exchanges, RequestBytes, HeadBytes, ToServer, ToClient, OutputHighWater} \subseteq Nat \ {0}
  /\ {Candidates, BodyBytes} \subseteq Nat
  /\ Exchanges * RequestBytes <= ToServer

VARIABLES
  pipeline,   \* options.pipeline
  pc,         \* "connect", "send", "receive", "check" or "exit"
  candidate,  \* addresses tried
  asked,      \* requests given to send_all
  toSend,     \* bytes of them not accepted by send()
  buffer,     \* ResponseReader::buffer_
  responses,  \* what read_one returned
  exit,       \* the exit status, -1 while the client runs
  up, down,   \* bytes on the way to the server (their number) and to the client
  received,   \* how many bytes the server has read
  answers,    \* the responses it has made
  output,     \* bytes of them it has not sent
  ending      \* "none", or how the server ended the connection: "fin", "rst"

vars == <<pipeline, pc, candidate, asked, toSend, buffer, responses, exit, up, down, received, answers,
          output, ending>>

client == <<pipeline, pc, candidate, asked, toSend, buffer, responses, exit>>
server == <<received, answers, output>>

Init ==
  /\ pipeline \in BOOLEAN
  /\ pc = "connect"
  /\ candidate = 0 /\ asked = 0 /\ toSend = 0
  /\ buffer = <<>> /\ responses = <<>>
  /\ exit = -1
  /\ up = 0 /\ down = <<>>
  /\ received = 0
  /\ answers = <<>> /\ output = <<>>
  /\ ending = "none"

Lesser(a, b) == IF a <= b THEN a ELSE b

Bytes(a) == [n \in 1 .. HeadBytes + BodyBytes |-> [of |-> a, n |-> n]]

Body(a) == SubSeq(Bytes(a), HeadBytes + 1, HeadBytes + BodyBytes)

Exit(status) == pc' = "exit" /\ exit' = status

\* send_all is called with the next n requests.
Ask(n) ==
  /\ asked' = asked + n
  /\ toSend' = n * RequestBytes
  /\ pc' = "send"

-----------------------------------------------------------------------------
(* connect_once *)

ConnectFails ==
  /\ pc = "connect"
  /\ candidate < Candidates
  /\ candidate' = candidate + 1
  /\ UNCHANGED <<pipeline, pc, asked, toSend, buffer, responses, exit, up, down, server, ending>>

ConnectSucceeds ==
  /\ pc = "connect"
  /\ candidate < Candidates
  /\ candidate' = candidate + 1
  /\ Ask(IF pipeline THEN Exchanges ELSE 1)
  /\ UNCHANGED <<pipeline, buffer, responses, exit, up, down, server, ending>>

NoCandidateLeft ==
  /\ pc = "connect"
  /\ candidate = Candidates
  /\ Exit(1)
  /\ UNCHANGED <<pipeline, candidate, asked, toSend, buffer, responses, up, down, server, ending>>

-----------------------------------------------------------------------------
(* send_all and ResponseReader *)

\* What arrives at a closed socket is answered with an RST, sooner or later.
SendSome ==
  /\ pc = "send"
  /\ toSend > 0
  /\ up < ToServer
  /\ LET n == Lesser(toSend, ToServer - up)
     IN  /\ toSend' = toSend - n
         /\ up' = IF ending = "none" THEN up + n ELSE up
  /\ \/ UNCHANGED <<down, ending>>
     \/ ending = "fin" /\ ending' = "rst" /\ down' \in {down, <<>>}
  /\ UNCHANGED <<pipeline, pc, candidate, asked, buffer, responses, exit, server>>

SendFails ==
  /\ pc = "send"
  /\ toSend > 0
  /\ ending # "none"
  /\ Exit(1)
  /\ UNCHANGED <<pipeline, candidate, asked, toSend, buffer, responses, up, down, server, ending>>

SendEnds ==
  /\ pc = "send"
  /\ toSend = 0
  /\ pc' = "receive"
  /\ UNCHANGED <<pipeline, candidate, asked, toSend, buffer, responses, exit, up, down, server, ending>>

\* The blank line that ends the first head, 0 if it is not there yet.
HeadEnd ==
  LET ends == {i \in 1 .. Len(buffer) : buffer[i].n = HeadBytes}
  IN  IF ends = {} THEN 0 ELSE CHOOSE i \in ends : \A j \in ends : i <= j

\* Content-Length says where it ends.
ResponseEnd == HeadEnd + BodyBytes

ResponseComplete == HeadEnd > 0 /\ Len(buffer) >= ResponseEnd

Fill ==
  /\ pc = "receive"
  /\ ~ ResponseComplete
  /\ \E n \in 1 .. Len(down) :
       /\ buffer' = buffer \o SubSeq(down, 1, n)
       /\ down' = SubSeq(down, n + 1, Len(down))
  /\ UNCHANGED <<pipeline, pc, candidate, asked, toSend, responses, exit, up, server, ending>>

\* Mutant: recv() returning 0 is tried again.
FillFailsOnReset ==
  /\ pc = "receive"
  /\ ~ ResponseComplete
  /\ \/ ending = "rst" /\ Exit(1)
     \/ ending = "fin" /\ down = <<>> /\ UNCHANGED <<pc, exit>>
  /\ UNCHANGED <<pipeline, candidate, asked, toSend, buffer, responses, up, down, server, ending>>

\* "server closed the connection unexpectedly", or recv() fails
FillFails ==
  /\ pc = "receive"
  /\ ~ ResponseComplete
  /\ ending = "rst" \/ (ending = "fin" /\ down = <<>>)
  /\ Exit(1)
  /\ UNCHANGED <<pipeline, candidate, asked, toSend, buffer, responses, up, down, server, ending>>

\* Mutant: what follows the response in the buffer is dropped.
KeepNothing == <<>>

\* Mutant: the last byte of the response stays, too.
KeepLastByte == SubSeq(buffer, ResponseEnd, Len(buffer))

\* buffer_.erase: the start of the next response stays.
Keep == SubSeq(buffer, ResponseEnd + 1, Len(buffer))

\* Where main() goes once a response has been read.
AfterRead ==
  IF Len(responses') > Exchanges THEN "done"
  ELSE IF Len(responses') = Exchanges THEN "check"
  ELSE IF Len(responses') < asked THEN "receive" ELSE "ask"

\* The expected status, and the expected body where one is given.
Passes(r) == r.of.right

\* Mutant: the numbers the server gives its responses are not looked at.
SameConnectionById(rs) == \A i \in DOMAIN rs : rs[i].of.conn = rs[1].of.conn

\* X-Connection-Id and X-Request-Number
SameConnection(rs) ==
  \A i \in DOMAIN rs : rs[i].of.conn = rs[1].of.conn /\ rs[i].of.num = i

\* The result, once the probe is answered.
Verdict(rs) ==
  LET batch == SubSeq(rs, 1, Exchanges)
  IN  /\ \A i \in DOMAIN rs : Passes(rs[i])
      /\ SameConnection(batch)
      /\ rs[Len(rs)].of.conn = rs[1].of.conn

\* read_one, once the response is complete; a status line that is not one throws.
ReadOne ==
  /\ pc = "receive"
  /\ ResponseComplete
  /\ IF buffer[1].n # 1
     THEN Exit(1) /\ UNCHANGED <<asked, toSend, buffer, responses>>
     ELSE /\ responses' = Append(responses, [of |-> buffer[1].of,
                                             body |-> SubSeq(buffer, HeadEnd + 1, ResponseEnd)])
          /\ buffer' = Keep
          /\ CASE AfterRead = "done" -> Exit(IF Verdict(responses') THEN 0 ELSE 1)
                                        /\ UNCHANGED <<asked, toSend>>
               [] AfterRead = "ask"  -> Ask(1) /\ UNCHANGED exit
               [] OTHER -> pc' = AfterRead /\ UNCHANGED <<asked, toSend, exit>>
  /\ UNCHANGED <<pipeline, candidate, up, down, server, ending>>

-----------------------------------------------------------------------------
(* The evidence: socket_is_open, then the probe *)

\* Data that is pending hides a FIN behind it.
SocketIsOpen == ending = "none" \/ (ending = "fin" /\ down # <<>>)

Check ==
  /\ pc = "check"
  /\ IF SocketIsOpen THEN Ask(1) /\ UNCHANGED exit
                     ELSE Exit(1) /\ UNCHANGED <<asked, toSend>>
  /\ UNCHANGED <<pipeline, candidate, buffer, responses, up, down, server, ending>>

Finished == pc = "exit" /\ UNCHANGED vars

-----------------------------------------------------------------------------
(* The server and the kernel *)

ServerReads ==
  /\ ending = "none"
  /\ up > 0
  /\ Len(output) < OutputHighWater
  /\ up' = up - 1
  /\ received' = received + 1
  /\ UNCHANGED <<client, down, answers, output, ending>>

Answer(num, conn, right) == [num |-> num, conn |-> conn, right |-> right]

Answers(num) ==
  {Answer(num, 1, TRUE), Answer(num, 1, FALSE), Answer(num, 2, TRUE), Answer(1, 1, TRUE)}

ServerAnswers ==
  /\ ending = "none"
  /\ received >= (Len(answers) + 1) * RequestBytes
  /\ Len(output) < OutputHighWater
  /\ \E a \in Answers(Len(answers) + 1) :
       answers' = Append(answers, a) /\ output' = output \o Bytes(a)
  /\ UNCHANGED <<client, up, down, received, ending>>

ServerSends ==
  /\ ending = "none"
  /\ output # <<>> /\ Len(down) < ToClient
  /\ LET n == Lesser(Len(output), ToClient - Len(down))
     IN  /\ down' = down \o SubSeq(output, 1, n)
         /\ output' = SubSeq(output, n + 1, Len(output))
  /\ UNCHANGED <<client, up, received, answers, ending>>

\* An RST may erase what the client has not read.
ServerEnds ==
  /\ pc \notin {"connect", "exit"}
  /\ ending = "none"
  /\ \/ ending' = "fin" /\ down' = down
     \/ ending' = "rst" /\ down' \in {down, <<>>}
  /\ UNCHANGED <<client, up, server>>

-----------------------------------------------------------------------------
ClientStep ==
  \/ NoCandidateLeft \/ ConnectSucceeds
  \/ SendSome \/ SendFails \/ SendEnds
  \/ Fill \/ FillFails \/ ReadOne \/ Check

ServerStep == ServerReads \/ ServerAnswers \/ ServerSends

Next == ClientStep \/ ConnectFails \/ ServerStep \/ ServerEnds \/ Finished

\* The client runs, and the server does what it can.
Spec == Init /\ [][Next]_vars /\ WF_vars(ClientStep) /\ WF_vars(ServerStep)

-----------------------------------------------------------------------------
\* ResponseReader returns the responses the server made, whole and in order,
\* however recv() cuts or joins them.
ResponsesAsMade ==
  /\ Len(responses) <= Len(answers)
  /\ \A i \in DOMAIN responses :
       responses[i] = [of |-> answers[i], body |-> Body(answers[i])]

\* "Exit status 0 means every response matched and the connection survived"
\* (demo_client.cpp:11): whatever the server did, it answered every request and
\* the probe, rightly, and counted the requests on one connection.
ExitZeroMeansMatched ==
  exit = 0 =>
    /\ Len(answers) = Exchanges + 1
    /\ \A i \in DOMAIN answers : answers[i].right /\ answers[i].conn = answers[1].conn
    /\ \A i \in 1 .. Exchanges : answers[i].num = i

Misbehaved ==
  ending # "none" \/ \E i \in DOMAIN answers : answers[i] # Answer(i, 1, TRUE)

\* Unless the server does something wrong the client ends with status 0, in both
\* modes, although with --pipeline it sends the whole batch before it reads and
\* the server stops reading meanwhile: neither waits for the other for ever.
HonestServerPasses == asked > 0 ~> (exit = 0 \/ Misbehaved)

\* A connection the server has closed or reset, wherever in the exchange, ends
\* the client, which waits without a timeout.
ClosedConnectionEndsClient == ending # "none" ~> pc = "exit"

=============================================================================
