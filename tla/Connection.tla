----------------------------- MODULE Connection -----------------------------
(***************************************************************************)
(* class Connection (include/calc/connection.hpp, src/connection.cpp): one *)
(* accepted TCP connection, driven by the server's poll() loop, together   *)
(* with the kernel's socket buffers and a client that may send, read,      *)
(* half-close or reset at any moment.                                      *)
(*                                                                         *)
(* Every system call of the server is a step of its own, so the client and *)
(* the kernel act between the readiness poll() reported and the recv() or  *)
(* send() that relies on it, and between two send() calls.  pc says which  *)
(* call the server makes next.                                             *)
(*                                                                         *)
(* Bytes are abstracted to their place in a request or response.  What     *)
(* RequestParser makes of them is given by its specification (module       *)
(* Framing): a request is framed by its head and body lengths.             *)
(*                                                                         *)
(* Time is counted since last_activity_ and since the start of the linger  *)
(* period, up to the timeouts.  A handler uses one reading of the clock,   *)
(* taken when poll() returns, so time passes only while the server waits   *)
(* and before it takes that reading.                                       *)
(***************************************************************************)
EXTENDS Integers, Sequences

CONSTANTS
  Requests,           \* what a client may send: see RequestType
  MaxHeaderBytes, MaxBodyBytes,  \* Limits
  OutputHighWater,    \* ServerConfig::output_high_water
  IdleTimeout, LingerTimeout,    \* ServerConfig, in ticks
  MaxLingerBytes,     \* ServerConfig::max_linger_bytes
  RecvChunk,          \* kRecvChunkBytes
  ResponseHeadBytes, ResponseBodyBytes,  \* length of a serialized response
  HupOnHalfClose,     \* poll() reports POLLHUP, not POLLOUT, after a FIN (macOS)
  ReceiveBuffer, SendBuffer,     \* capacity of the kernel's buffers
  MaxRequests         \* how many requests the client sends at most

\* A request is framed by head + body bytes; valid is FALSE when its head is
\* refused (400, 413, 501, 505); throws is TRUE when the handler throws.
RequestType ==
  [head : Nat \ {0}, body : Nat, valid : BOOLEAN, keepAlive : BOOLEAN,
   method : {"GET", "HEAD"}, throws : BOOLEAN]

ASSUME ConnectionAssumption ==
  /\ MaxHeaderBytes \in Nat \ {0}
  /\ MaxBodyBytes \in Nat \ {0}
  /\ OutputHighWater \in Nat \ {0}
  /\ IdleTimeout \in Nat \ {0}
  /\ LingerTimeout \in Nat \ {0}
  /\ MaxLingerBytes \in Nat
  /\ RecvChunk \in Nat \ {0}
  /\ ResponseHeadBytes \in Nat \ {0}
  /\ ResponseBodyBytes \in Nat
  /\ HupOnHalfClose \in BOOLEAN
  /\ ReceiveBuffer \in Nat \ {0}
  /\ SendBuffer \in Nat \ {0}
  /\ MaxRequests \in Nat
  /\ Requests \subseteq RequestType
  /\ \A r \in Requests : r.valid => r.body <= MaxBodyBytes

VARIABLES
  \* the server: class Connection and the loop in Server::run
  pc,            \* the next step of the loop
  revents,       \* what poll() reported
  state,         \* state_
  parserState,   \* RequestParser::state_
  buffer,        \* the unconsumed bytes of RequestParser::buffer_
  pending,       \* RequestParser::pending_: the request whose body is awaited
  output,        \* output_
  outputSent,    \* output_sent_
  requests,      \* stats_.requests
  peerFinished,  \* peer_finished_sending_
  lingered,      \* lingered_bytes_
  progress,      \* `progress` in advance()
  idle,          \* time since last_activity_
  linger,        \* time since begin_lingering_close
  closeReason,   \* the argument of close_now()
  \* the kernel
  unread,        \* received bytes that recv() has not returned
  wire,          \* bytes send() accepted that the client has not read
  ending,        \* what the kernel sends after wire: "none", "fin" or "rst"
  \* the client
  client,        \* "open", "fin" (it half-closed) or "reset"
  sent,          \* the requests it has begun to send
  sentBytes,     \* how many bytes of the last of them it has sent
  got,           \* the bytes it has read
  lost           \* an RST erased bytes it had not read

parserVars == <<parserState, buffer, pending>>
outputVars == <<output, outputSent, requests>>
lifeVars   == <<state, peerFinished, lingered, closeReason>>
timers     == <<idle, linger>>
clientVars == <<client, sent, sentBytes, got, lost>>
serverVars == <<pc, revents, progress, parserVars, outputVars, lifeVars>>

vars == <<pc, revents, state, parserState, buffer, pending, output, outputSent,
          requests, peerFinished, lingered, progress, idle, linger, closeReason,
          unread, wire, ending, client, sent, sentBytes, got, lost>>

-----------------------------------------------------------------------------
Smaller(a, b) == IF a <= b THEN a ELSE b

MaxRequestBytes == MaxHeaderBytes + MaxBodyBytes

NoRequest == [head |-> 1, body |-> 0, valid |-> FALSE, keepAlive |-> FALSE,
              method |-> "GET", throws |-> FALSE]

Size(r) == r.head + r.body

\* The first n elements of s, and what follows them.
Take(s, n) == SubSeq(s, 1, n)
Drop(s, n) == SubSeq(s, n + 1, Len(s))

PendingBytes == Len(output) - outputSent

\* RequestParser::has_partial_request
HasPartialRequest == parserState = "Body" \/ buffer # <<>>

\* Mutant: reading stops when a head, not a request, is buffered.
WantsToReadHead ==
  /\ state = "Active"
  /\ ~ peerFinished
  /\ PendingBytes < OutputHighWater
  /\ Len(buffer) < MaxHeaderBytes

WantsToRead ==
  /\ state = "Active"
  /\ ~ peerFinished
  /\ PendingBytes < OutputHighWater
  /\ Len(buffer) < MaxRequestBytes

\* Mutant: an active connection does not ask for POLLOUT.
PollEventsReadOnly ==
  CASE state = "Active"   -> IF WantsToRead THEN {"IN"} ELSE {}
    [] state = "Closing"  -> IF PendingBytes > 0 THEN {"OUT"} ELSE {}
    [] state = "Draining" -> {"IN"}
    [] state = "Closed"   -> {}

PollEvents ==
  CASE state = "Active"   -> (IF WantsToRead THEN {"IN"} ELSE {})
                             \cup (IF PendingBytes > 0 THEN {"OUT"} ELSE {})
    [] state = "Closing"  -> IF PendingBytes > 0 THEN {"OUT"} ELSE {}
    [] state = "Draining" -> {"IN"}
    [] state = "Closed"   -> {}

\* The kernel: what poll() reports for this socket, asked for PollEvents.
HungUp == client = "reset" \/ (client = "fin" /\ (HupOnHalfClose \/ ending = "fin"))

Ready ==
  (IF unread # <<>> \/ client # "open" THEN {"IN"} ELSE {})
  \cup (IF Len(wire) < SendBuffer /\ ~ (HupOnHalfClose /\ HungUp) THEN {"OUT"} ELSE {})

Reported ==
  (PollEvents \cap Ready)
  \cup (IF HungUp THEN {"HUP"} ELSE {})
  \cup (IF client = "reset" /\ ~ HupOnHalfClose THEN {"ERR"} ELSE {})

-----------------------------------------------------------------------------
(* Responses *)

Response(num, status, close, bytes) ==
  [num |-> num, status |-> status, close |-> close, bytes |-> bytes]

FullLength == ResponseHeadBytes + ResponseBodyBytes

\* Mutant: a body is sent after the head of a response to HEAD.
ResponseToWithBody(r, num) ==
  Response(num, IF r.throws THEN "500" ELSE "handled", r.throws \/ ~ r.keepAlive, FullLength)

\* run_handler, then keep-alive and HEAD: the num-th response, to request r.
ResponseTo(r, num) ==
  Response(num, IF r.throws THEN "500" ELSE "handled",
           r.throws \/ ~ r.keepAlive,
           IF r.method = "HEAD" THEN ResponseHeadBytes ELSE FullLength)

Refusal(num) == Response(num, "refused", TRUE, FullLength)

Timeout408(num) == Response(num, "408", TRUE, FullLength)

Serialize(resp) == [i \in 1 .. resp.bytes |-> [of |-> resp, n |-> i]]

\* Mutant: a closing response leaves the connection Active.
QueueResponseStaysActive(resp) ==
  /\ requests' = requests + 1
  /\ output' = output \o Serialize(resp)
  /\ UNCHANGED <<state, outputSent, peerFinished, lingered, closeReason>>

QueueResponse(resp) ==
  /\ requests' = requests + 1
  /\ output' = output \o Serialize(resp)
  /\ state' = IF resp.close THEN "Closing" ELSE state
  /\ UNCHANGED <<outputSent, peerFinished, lingered, closeReason>>

\* close_now: closing a socket with unread input makes the kernel send an RST.
CloseNow(reason) ==
  /\ state' = "Closed"
  /\ closeReason' = reason
  /\ ending' = IF unread # <<>> \/ client = "reset" THEN "rst" ELSE "fin"
  /\ pc' = "done"
  /\ revents' = {}
  /\ progress' = FALSE

-----------------------------------------------------------------------------
(* RequestParser::next(), on the bytes buffered *)

\* The request whose bytes come next, once its head is begun or parsed.
Current == IF parserState = "Body" THEN pending ELSE buffer[1].req

HeadRefused == Current.head > MaxHeaderBytes \/ ~ Current.valid

NextResult ==
  CASE parserState = "Failed" -> "Error"
    [] parserState = "Body" ->
         IF Len(buffer) < pending.body THEN "Incomplete" ELSE "Complete"
    [] parserState = "Head" ->
         IF buffer = <<>> THEN "Incomplete"
         ELSE IF Len(buffer) < Current.head
              THEN IF Len(buffer) > MaxHeaderBytes THEN "Error" ELSE "Incomplete"
         ELSE IF HeadRefused THEN "Error"
         ELSE IF Len(buffer) < Size(Current) THEN "Incomplete" ELSE "Complete"

\* An incomplete request: its head is consumed if it is all there.
ParserAwaits ==
  IF parserState = "Head" /\ buffer # <<>> /\ Len(buffer) >= Current.head
  THEN /\ parserState' = "Body"
       /\ pending' = Current
       /\ buffer' = Drop(buffer, Current.head)
  ELSE UNCHANGED parserVars

ParserCompletes ==
  /\ buffer' = Drop(buffer, IF parserState = "Body" THEN pending.body ELSE Size(Current))
  /\ parserState' = "Head"
  /\ pending' = NoRequest

ParserFails ==
  /\ buffer' = <<>>
  /\ parserState' = "Failed"
  /\ pending' = pending

-----------------------------------------------------------------------------
(* Server::run for this connection: poll(), then the handler *)

Poll ==
  /\ pc = "poll"
  /\ revents' = Reported
  /\ pc' = "woken"
  /\ UNCHANGED <<progress, parserVars, outputVars, lifeVars, timers, unread, wire, ending,
                 clientVars>>

\* Mutant: POLLHUP means that the client is gone.
FatalEventsWithHup == {"ERR", "HUP"}

\* The events on which on_poll_events closes at once.  POLLNVAL is reported for
\* no open descriptor.
FatalEvents == {"ERR"}

\* on_poll_events, up to its first system call.  poll() also returns for other
\* connections and for deadlines, with nothing reported for this one.
OnPollEvents ==
  /\ pc = "woken"
  /\ IF revents \cap FatalEvents # {}
     THEN CloseNow("socket error") /\ UNCHANGED <<peerFinished, lingered>>
     ELSE /\ pc' = IF revents = {} THEN "deadline"
                   ELSE IF state = "Draining"
                        THEN IF revents \cap {"IN", "HUP"} # {} THEN "discard" ELSE "deadline"
                   ELSE IF revents \cap {"IN", "HUP"} # {} /\ WantsToRead THEN "recv"
                   ELSE "respond"
          /\ revents' = {}
          /\ UNCHANGED <<progress, lifeVars, ending>>
  /\ UNCHANGED <<parserVars, outputVars, timers, unread, wire, clientVars>>

\* Mutant: recv() is asked for a chunk whatever room there is.
RecvBytesUnchecked == Smaller(RecvChunk, Len(unread))

\* read_from_socket: one recv(), of what fits.
RecvBytes == Smaller(Smaller(RecvChunk, MaxRequestBytes - Len(buffer)), Len(unread))

RecvData ==
  /\ pc = "recv"
  /\ unread # <<>>
  /\ buffer' = buffer \o Take(unread, RecvBytes)
  /\ unread' = Drop(unread, RecvBytes)
  /\ idle' = 0
  /\ pc' = "respond"
  /\ UNCHANGED <<revents, progress, parserState, pending, outputVars, lifeVars, linger, wire,
                 ending, clientVars>>

\* Mutant: a FIN is read and forgotten.
RecvFinIgnored ==
  /\ pc = "recv"
  /\ unread = <<>>
  /\ client = "fin"
  /\ idle' = 0
  /\ pc' = "respond"
  /\ UNCHANGED <<revents, progress, parserVars, outputVars, lifeVars, linger, unread, wire,
                 ending, clientVars>>

RecvFin ==
  /\ pc = "recv"
  /\ unread = <<>>
  /\ client = "fin"
  /\ peerFinished' = TRUE
  /\ idle' = 0
  /\ pc' = "respond"
  /\ UNCHANGED <<revents, progress, parserVars, outputVars, state, lingered, closeReason,
                 linger, unread, wire, ending, clientVars>>

\* EAGAIN after poll() reported the socket readable
RecvNothing ==
  /\ pc = "recv"
  /\ client # "reset"
  /\ pc' = "respond"
  /\ UNCHANGED <<revents, progress, parserVars, outputVars, lifeVars, timers, unread, wire,
                 ending, clientVars>>

RecvFails ==
  /\ pc = "recv"
  /\ client = "reset"
  /\ CloseNow("recv failed")
  /\ UNCHANGED <<parserVars, outputVars, peerFinished, lingered, timers, unread, wire,
                 clientVars>>

-----------------------------------------------------------------------------
(* advance(): respond_to_buffered_requests and flush_output in turn *)

\* Mutant: no backpressure.
MayRespondAlways == state = "Active"

MayRespond == state = "Active" /\ PendingBytes < OutputHighWater

RespondToRequest ==
  /\ pc = "respond"
  /\ MayRespond
  /\ NextResult = "Complete"
  /\ QueueResponse(ResponseTo(Current, requests + 1))
  /\ ParserCompletes
  /\ progress' = TRUE
  /\ UNCHANGED <<pc, revents, timers, unread, wire, ending, clientVars>>

RespondToError ==
  /\ pc = "respond"
  /\ MayRespond
  /\ NextResult = "Error"
  /\ QueueResponse(Refusal(requests + 1))
  /\ ParserFails
  /\ progress' = TRUE
  /\ pc' = "flush"
  /\ UNCHANGED <<revents, timers, unread, wire, ending, clientVars>>

\* Nothing (more) to answer, or the high-water mark pauses parsing.
RespondNoMore ==
  /\ pc = "respond"
  /\ \/ MayRespond /\ NextResult = "Incomplete" /\ ParserAwaits
     \/ ~ MayRespond /\ UNCHANGED parserVars
  /\ pc' = "flush"
  /\ UNCHANGED <<revents, progress, outputVars, lifeVars, timers, unread, wire, ending,
                 clientVars>>

\* One send(), which accepts what fits in the send buffer.
SendSome ==
  /\ pc = "flush"
  /\ PendingBytes > 0
  /\ client # "reset"
  /\ Len(wire) < SendBuffer
  /\ LET n == Smaller(SendBuffer - Len(wire), PendingBytes)
     IN  /\ wire' = wire \o SubSeq(output, outputSent + 1, outputSent + n)
         /\ outputSent' = outputSent + n
  /\ progress' = TRUE
  /\ idle' = 0
  /\ UNCHANGED <<pc, revents, parserVars, output, requests, lifeVars, linger, unread, ending,
                 clientVars>>

SendFails ==
  /\ pc = "flush"
  /\ PendingBytes > 0
  /\ client = "reset"
  /\ CloseNow("send failed")
  /\ UNCHANGED <<parserVars, outputVars, peerFinished, lingered, timers, unread, wire,
                 clientVars>>

\* Mutant: the prefix is dropped but output_sent_ is kept.
CompactOutputKeepingSent ==
  output' = (IF outputSent >= Len(output) \div 2 THEN Drop(output, outputSent) ELSE output)
  /\ UNCHANGED outputSent

\* Mutant: the unsent tail of a short write is dropped too.
CompactOutputLosingTail ==
  IF outputSent >= Len(output) \div 2
  THEN output' = <<>> /\ outputSent' = 0
  ELSE UNCHANGED <<output, outputSent>>

\* The sent prefix is dropped when it is at least half of output_.
CompactOutput ==
  IF outputSent >= Len(output) \div 2
  THEN output' = Drop(output, outputSent) /\ outputSent' = 0
  ELSE UNCHANGED <<output, outputSent>>

\* Mutant: advance() makes a single pass.
AfterFlushOnce == "settle"

\* advance() goes round again if this pass made progress.
AfterFlush == IF progress THEN "respond" ELSE "settle"

\* All sent, or EAGAIN
FlushEnds ==
  /\ pc = "flush"
  /\ PendingBytes = 0 \/ (client # "reset" /\ Len(wire) >= SendBuffer)
  /\ CompactOutput
  /\ pc' = AfterFlush
  /\ progress' = FALSE
  /\ UNCHANGED <<revents, parserVars, requests, lifeVars, timers, unread, wire, ending,
                 clientVars>>

\* Mutant: the final response is followed by close() at once.
LingersNever == FALSE

\* Closing goes through begin_lingering_close unless the client has finished
\* too; shutdown() fails on a connection that was reset.
Lingers == ~ peerFinished /\ client # "reset"

\* The lifecycle checks that end advance()
Settle ==
  /\ pc = "settle"
  /\ \/ /\ PendingBytes = 0
        /\ state = "Active" /\ peerFinished
        /\ CloseNow("client closed")
        /\ UNCHANGED <<peerFinished, lingered, linger>>
     \/ /\ PendingBytes = 0
        /\ state = "Closing" /\ ~ Lingers
        /\ CloseNow("final response sent")
        /\ UNCHANGED <<peerFinished, lingered, linger>>
     \/ /\ PendingBytes = 0
        /\ state = "Closing" /\ Lingers
        /\ state' = "Draining"
        /\ linger' = 0
        /\ ending' = "fin"
        /\ pc' = "deadline"
        /\ UNCHANGED <<revents, progress, peerFinished, lingered, closeReason>>
     \/ /\ PendingBytes > 0 \/ (state = "Active" /\ ~ peerFinished)
        /\ pc' = "deadline"
        /\ UNCHANGED <<revents, progress, lifeVars, linger, ending>>
  /\ UNCHANGED <<parserVars, outputVars, idle, unread, wire, clientVars>>

-----------------------------------------------------------------------------
(* The lingering close: discard_lingering_input *)

\* Mutant: discarded input renews the linger deadline.
DiscardDataRenewing ==
  /\ pc = "discard"
  /\ unread # <<>>
  /\ LET n == Smaller(RecvChunk, Len(unread))
     IN  /\ lingered' = lingered + n
         /\ unread' = Drop(unread, n)
  /\ IF lingered' > MaxLingerBytes
     THEN /\ state' = "Closed"
          /\ closeReason' = "discard limit"
          /\ ending' = IF unread' # <<>> \/ client = "reset" THEN "rst" ELSE "fin"
          /\ pc' = "done"
     ELSE pc' = "deadline" /\ UNCHANGED <<state, closeReason, ending>>
  /\ UNCHANGED <<revents, progress, parserVars, outputVars, peerFinished, idle, wire,
                 clientVars>>
  /\ linger' = 0

DiscardData ==
  /\ pc = "discard"
  /\ unread # <<>>
  /\ LET n == Smaller(RecvChunk, Len(unread))
     IN  /\ lingered' = lingered + n
         /\ unread' = Drop(unread, n)
  /\ IF lingered' > MaxLingerBytes
     THEN /\ state' = "Closed"
          /\ closeReason' = "discard limit"
          /\ ending' = IF unread' # <<>> \/ client = "reset" THEN "rst" ELSE "fin"
          /\ pc' = "done"
     ELSE pc' = "deadline" /\ UNCHANGED <<state, closeReason, ending>>
  /\ UNCHANGED <<revents, progress, parserVars, outputVars, peerFinished, timers, wire,
                 clientVars>>

DiscardNothing ==
  /\ pc = "discard"
  /\ client # "reset"
  /\ pc' = "deadline"
  /\ UNCHANGED <<revents, progress, parserVars, outputVars, lifeVars, timers, unread, wire,
                 ending, clientVars>>

DiscardEnds ==
  /\ pc = "discard"
  /\ (unread = <<>> /\ client = "fin") \/ client = "reset"
  /\ CloseNow("final response sent")
  /\ UNCHANGED <<parserVars, outputVars, peerFinished, lingered, timers, unread, wire,
                 clientVars>>

-----------------------------------------------------------------------------
(* deadline() and on_deadline() *)

\* Mutant: no deadline while the final response is written.
DeadlinePassedNotClosing ==
  IF state = "Draining" THEN linger >= LingerTimeout
  ELSE state = "Active" /\ idle >= IdleTimeout

DeadlinePassed ==
  IF state = "Draining" THEN linger >= LingerTimeout ELSE idle >= IdleTimeout

BeforeDeadline ==
  /\ pc = "deadline"
  /\ ~ DeadlinePassed
  /\ pc' = "poll"
  /\ UNCHANGED <<revents, progress, parserVars, outputVars, lifeVars, timers, unread, wire,
                 ending, clientVars>>

\* Mutant: a 408 even while earlier responses wait to be read.
Awaits408WhileWriting == state = "Active" /\ HasPartialRequest

\* The client is told that its request took too long.
Awaits408 == state = "Active" /\ PendingBytes = 0 /\ HasPartialRequest

RequestTimesOut ==
  /\ pc = "deadline"
  /\ DeadlinePassed
  /\ Awaits408
  /\ QueueResponse(Timeout408(requests + 1))
  /\ idle' = 0
  /\ pc' = "respond"
  /\ UNCHANGED <<revents, progress, parserVars, linger, unread, wire, ending, clientVars>>

ConnectionTimesOut ==
  /\ pc = "deadline"
  /\ DeadlinePassed
  /\ ~ Awaits408
  /\ CloseNow(CASE state = "Active"   -> "idle timeout"
                [] state = "Closing"  -> "write timeout"
                [] state = "Draining" -> "linger timeout")
  /\ UNCHANGED <<parserVars, outputVars, peerFinished, lingered, timers, unread, wire,
                 clientVars>>

\* Server::run after stop_requested: close() on every connection
Shutdown ==
  /\ pc = "poll"
  /\ CloseNow("shutdown")
  /\ UNCHANGED <<parserVars, outputVars, peerFinished, lingered, timers, unread, wire,
                 clientVars>>

Tick ==
  /\ pc \in {"poll", "woken"}
  /\ idle' = Smaller(idle + 1, IdleTimeout)
  /\ linger' = IF state = "Draining" THEN Smaller(linger + 1, LingerTimeout) ELSE linger
  /\ <<idle, linger>>' # <<idle, linger>>
  /\ UNCHANGED <<serverVars, unread, wire, ending, clientVars>>

-----------------------------------------------------------------------------
(* The client, and the kernel on its behalf *)

Last(s) == s[Len(s)]

RequestUnfinished == sent # <<>> /\ sentBytes < Size(Last(sent))

\* One byte: the next of the request begun, or the first of another one.  A
\* byte that meets a closed socket is answered with an RST.
ClientSends ==
  /\ client = "open"
  /\ ending # "rst"
  /\ IF RequestUnfinished
     THEN sentBytes' = sentBytes + 1 /\ sent' = sent
     ELSE /\ Len(sent) < MaxRequests
          /\ \E r \in Requests : sent' = Append(sent, r)
          /\ sentBytes' = 1
  /\ IF state = "Closed"
     THEN ending' = "rst" /\ unread' = unread
     ELSE /\ Len(unread) < ReceiveBuffer
          /\ unread' = Append(unread, [req |-> Last(sent'), n |-> sentBytes'])
          /\ ending' = ending
  /\ UNCHANGED <<serverVars, timers, wire, client, got, lost>>

ClientHalfCloses ==
  /\ client = "open"
  /\ client' = "fin"
  /\ UNCHANGED <<serverVars, timers, unread, wire, ending, sent, sentBytes, got, lost>>

ClientResets ==
  /\ client # "reset"
  /\ client' = "reset"
  /\ UNCHANGED <<serverVars, timers, unread, wire, ending, sent, sentBytes, got, lost>>

ClientReads ==
  /\ client # "reset"
  /\ wire # <<>>
  /\ got' = Append(got, Head(wire))
  /\ wire' = Tail(wire)
  /\ UNCHANGED <<serverVars, timers, unread, ending, client, sent, sentBytes, lost>>

\* An RST may erase what the client has received and not read.
ResetErases ==
  /\ ending = "rst"
  /\ wire # <<>>
  /\ wire' = <<>>
  /\ lost' = TRUE
  /\ UNCHANGED <<serverVars, timers, unread, ending, client, sent, sentBytes, got>>

\* A closed connection stays closed.
Finished == pc = "done" /\ UNCHANGED vars

-----------------------------------------------------------------------------
Init ==
  /\ pc = "poll"
  /\ revents = {}
  /\ state = "Active"
  /\ parserState = "Head"
  /\ buffer = <<>>
  /\ pending = NoRequest
  /\ output = <<>>
  /\ outputSent = 0
  /\ requests = 0
  /\ peerFinished = FALSE
  /\ lingered = 0
  /\ progress = FALSE
  /\ idle = 0
  /\ linger = 0
  /\ closeReason = "open"
  /\ unread = <<>>
  /\ wire = <<>>
  /\ ending = "none"
  /\ client = "open"
  /\ sent = <<>>
  /\ sentBytes = 0
  /\ got = <<>>
  /\ lost = FALSE

Receive == RecvData \/ RecvFin \/ RecvFails \/ DiscardData \/ DiscardEnds

ReceiveNothing == RecvNothing \/ DiscardNothing

Proceed ==
  \/ Poll \/ OnPollEvents
  \/ RespondToRequest \/ RespondToError \/ RespondNoMore
  \/ SendSome \/ SendFails \/ FlushEnds \/ Settle
  \/ BeforeDeadline \/ RequestTimesOut \/ ConnectionTimesOut

ClientWorks == ClientSends \/ ClientHalfCloses \/ ClientReads

Next ==
  \/ Receive \/ ReceiveNothing \/ Proceed
  \/ Shutdown \/ Tick
  \/ ClientWorks \/ ClientResets \/ ResetErases
  \/ Finished

Spec == Init /\ [][Next]_vars

-----------------------------------------------------------------------------
(* What the client is owed *)

Refused(r) == r.head > MaxHeaderBytes \/ ~ r.valid

ClosesConnection(r) == Refused(r) \/ r.throws \/ ~ r.keepAlive

\* The client has sent enough of its j-th request to have it answered, and no
\* earlier answer closes the connection.
Owed(j) ==
  /\ \/ j < Len(sent)
     \/ sentBytes >= Size(sent[j])
     \/ Refused(sent[j]) /\ (sentBytes >= sent[j].head \/ sentBytes > MaxHeaderBytes)
  /\ \A i \in 1 .. j - 1 : ~ ClosesConnection(sent[i])

\* The client has read the whole j-th response.
Answered(j) == \E i \in 1 .. Len(got) : got[i].of.num = j /\ got[i].n = got[i].of.bytes

\* Every response byte the client has read or, unless an RST intervenes, will.
Outgoing == got \o (IF lost THEN <<>> ELSE wire \o Drop(output, outputSent))

\* Byte c may follow byte b: the same response goes on or the next one begins.
Follows(b, c) ==
  IF b.n < b.of.bytes THEN c = [of |-> b.of, n |-> b.n + 1]
  ELSE c.of.num = b.of.num + 1 /\ c.n = 1

-----------------------------------------------------------------------------
ByteOf == [req : Requests, n : Nat \ {0}]

ResponseType ==
  [num : Nat \ {0}, status : {"handled", "500", "refused", "408"}, close : BOOLEAN,
   bytes : {ResponseHeadBytes, FullLength}]

ResponseByte == [of : ResponseType, n : Nat \ {0}]

\* The arguments of close_now.
CloseReasons ==
  {"client closed", "final response sent", "discard limit", "socket error", "recv failed",
   "send failed", "idle timeout", "write timeout", "linger timeout", "shutdown"}

\* Types, and the timers within their bounds.
TypeOK ==
  /\ pc \in {"poll", "woken", "recv", "respond", "flush", "settle", "discard",
             "deadline", "done"}
  /\ revents \subseteq {"IN", "OUT", "HUP", "ERR"}
  /\ state \in {"Active", "Closing", "Draining", "Closed"}
  /\ parserState \in {"Head", "Body", "Failed"}
  /\ buffer \in Seq(ByteOf)
  /\ pending \in Requests \cup {NoRequest}
  /\ output \in Seq(ResponseByte)
  /\ outputSent \in 0 .. Len(output)
  /\ requests \in Nat
  /\ peerFinished \in BOOLEAN
  /\ lingered \in Nat
  /\ progress \in BOOLEAN
  /\ idle \in 0 .. IdleTimeout
  /\ linger \in 0 .. LingerTimeout
  /\ closeReason \in {"open"} \cup CloseReasons
  /\ unread \in Seq(ByteOf)
  /\ wire \in Seq(ResponseByte)
  /\ ending \in {"none", "fin", "rst"}
  /\ client \in {"open", "fin", "reset"}
  /\ sent \in Seq(Requests)
  /\ sentBytes \in Nat
  /\ got \in Seq(ResponseByte)
  /\ lost \in BOOLEAN

\* Responses leave whole, in request order and exactly once through short
\* writes, blocked sends and compaction of output_: the bytes for the client
\* are response 1, response 2, ... response stats_.requests.
ResponsesInOrder ==
  /\ Outgoing # <<>> => Outgoing[1].of.num = 1 /\ Outgoing[1].n = 1
  /\ \A i \in 1 .. Len(Outgoing) - 1 : Follows(Outgoing[i], Outgoing[i + 1])
  /\ (requests > 0 /\ ~ lost) =>
       Outgoing # <<>> /\ Last(Outgoing).of.num = requests
                       /\ Last(Outgoing).n = Last(Outgoing).of.bytes

\* The num-th response answers the num-th request of the client: a refusal for
\* a request whose framing is refused, the handler's answer (without a body for
\* HEAD) for any other, or the 408 that ends a connection.
ResponsesMatchRequests ==
  \A i \in 1 .. Len(Outgoing) :
    LET resp == Outgoing[i].of
        req  == sent[resp.num]
    IN  /\ resp.num <= Len(sent)
        /\ \/ resp.status = "408" /\ resp.close
           \/ /\ resp.status = "refused" <=> Refused(req)
              /\ resp.close <=> ClosesConnection(req)
              /\ resp.bytes = IF ~ Refused(req) /\ req.method = "HEAD"
                              THEN ResponseHeadBytes ELSE FullLength

\* A response with "Connection: close" is the last one: no later request is
\* answered, and the FIN of begin_lingering_close is behind all its bytes.
NothingFollowsFinalResponse ==
  /\ \A i \in 1 .. Len(Outgoing) : Outgoing[i].of.close =>
       Outgoing[i].of.num = requests /\ state # "Active"
  /\ (state = "Draining" => PendingBytes = 0)

\* What the client is sent is one response for each request, whole, in order and
\* of the right kind, and ends with the first that closes the connection.
ResponsesAnswerRequests ==
  ResponsesInOrder /\ ResponsesMatchRequests /\ NothingFollowsFinalResponse

\* Whenever the loop enters poll() an open connection waits for some event: it
\* can never deadlock waiting for bytes it refuses to read (wants_to_read).
NeverDeaf == pc = "poll" => PollEvents # {}

\* No lost wake-up: whenever the loop enters poll(), a request that is complete
\* in the buffer (or an error found in it) waits only for the high-water mark,
\* and then POLLOUT is asked for.
NoRequestStranded ==
  (pc = "poll" /\ state = "Active" /\ NextResult # "Incomplete") =>
    PendingBytes >= OutputHighWater /\ "OUT" \in PollEvents

\* A connection that enters poll() can be woken by what it needs: progress on
\* the requests it holds, or bytes it has room for.
NeverStuck == NeverDeaf /\ NoRequestStranded

\* Backpressure bounds the output: less than the high-water mark and one
\* response wait to be sent, and output_ holds at most as much again in sent
\* bytes it has not dropped.
OutputBound ==
  /\ PendingBytes < OutputHighWater + FullLength
  /\ Len(output) < 2 * (OutputHighWater + FullLength)

\* The connection never holds more unparsed input than a maximum-size request,
\* and once the loop waits it has room for the rest of the request it holds.
InputBound ==
  /\ Len(buffer) <= MaxRequestBytes
  /\ (pc = "poll" /\ state = "Active" /\ PendingBytes < OutputHighWater) =>
       Len(buffer) < MaxRequestBytes

\* Neither buffer outgrows its limit, whatever is pipelined and however slowly
\* it is read, and a bound on the input never keeps out the rest of a request.
BuffersBounded == OutputBound /\ InputBound

\* The closes of a finished exchange (the client's FIN after every answer, or
\* its FIN in the lingering close) find no unread input and no unsent output:
\* the client sees a clean end of stream, never an RST that erases responses.
OrderlyCloseNeverResets ==
  (closeReason \in {"client closed", "final response sent"} /\ client # "reset") =>
    ending = "fin" /\ PendingBytes = 0 /\ ~ lost

\* When the server closes because the client sent FIN, every complete request
\* the client sent has been answered (advance(), connection.cpp:161).  A client
\* that only half-closes is never taken for one that is gone.
FinCloseAnswersAll ==
  (closeReason \in {"client closed", "socket error", "recv failed", "send failed"}
     /\ client # "reset") =>
    \A j \in 1 .. Len(sent) : Owed(j) => j <= requests

\* A client that ends the exchange in order, with FIN, loses nothing: all it
\* completed is answered, and no RST follows the answers.
OrderlyClose == FinCloseAnswersAll /\ OrderlyCloseNeverResets

\* 408 goes only to a client that left a request unfinished: at that moment no
\* request is complete in the buffer and no response waits to be written.
Timeout408OnlyForPartialRequest ==
  [][(Len(output') > Len(output) /\ Last(output').of.status = "408") =>
       NextResult = "Incomplete" /\ HasPartialRequest /\ PendingBytes = 0]_vars

-----------------------------------------------------------------------------
(* Liveness.  The loop never blocks, so its steps are weakly fair; recv() may *)
(* report EAGAIN spuriously, but not for ever, so receiving is strongly fair. *)

ServerFairness ==
  WF_vars(Proceed) /\ SF_vars(Receive) /\ WF_vars(ReceiveNothing)

\* The client stops at any point, for ever; time goes on.
TimedSpec == Spec /\ ServerFairness /\ SF_vars(Tick)

\* Wherever in the exchange the client stops sending or reading, the connection
\* is closed in the end: the idle and linger timeouts free its slot.
EventuallyClosed == <>(state = "Closed")

\* A client that does not reset and reads what it is sent, within the timeouts.
PromptNext == Receive \/ ReceiveNothing \/ Proceed \/ ClientWorks \/ Finished

PromptSpec == Init /\ [][PromptNext]_vars /\ ServerFairness /\ WF_vars(ClientReads)

\* Every request the client has sent is answered, through backpressure,
\* pipelining and half-close, if the client reads.
EveryRequestAnswered ==
  \A j \in 1 .. MaxRequests : (j <= Len(sent) /\ Owed(j)) ~> Answered(j)

\* A client that half-closes and goes on reading gets every answer it is owed
\* and then a clean end of stream.
HalfCloseEndsCleanly ==
  client = "fin" ~> /\ ending = "fin" /\ wire = <<>>
                    /\ \A j \in 1 .. Len(sent) : Owed(j) => Answered(j)

-----------------------------------------------------------------------------
\* README.md:56: the lingering close, "so that closing the connection never puts
\* the last response at risk": no RST while the client has yet to read bytes of
\* a closing response (a server that is shut down apart).
FinalResponseNeverAtRisk ==
  (ending = "rst" /\ client # "reset" /\ closeReason # "shutdown") =>
    \A i \in 1 .. Len(wire) : ~ wire[i].of.close

=============================================================================
