-------------------------- MODULE ConnectionProofs --------------------------
(***************************************************************************)
(* The properties of class Connection that do not depend on which          *)
(* requests the bytes belong to, for all limits, buffer sizes, timeouts,   *)
(* requests and clients.                                                   *)
(*                                                                         *)
(* IInv says what advance() and the loop rely on between two system calls: *)
(* what a pass that made no progress has established (Awaiting), what the  *)
(* lifecycle checks leave behind (Settled), that output_ is compact except *)
(* while it is being written, and what each way of closing implies.        *)
(*                                                                         *)
(* At the end, Connection implements Lifecycle, the specification Server   *)
(* is built on: the initial states map to initial states, and every step   *)
(* maps to a step or to a stutter.  OnTheWay says how far the handlers     *)
(* have come since the loop last looked (seen): within on_poll_events, or  *)
(* after a 408 of on_deadline.  It is what makes the last step of an       *)
(* iteration the abstract step Handle.                                     *)
(***************************************************************************)
EXTENDS ConnectionLifecycle, SequenceTheorems, TLAPS

\* next() has returned Incomplete and consumed what it could.
Awaiting ==
  \/ /\ parserState = "Head"
     /\ buffer # <<>> => Len(buffer) < buffer[1].req.head /\ Len(buffer) <= MaxHeaderBytes
  \/ parserState = "Body" /\ Len(buffer) < pending.body

\* A pass of advance() without progress has parsed all that may be answered.
ParserIsDone ==
  (pc \in {"settle", "deadline", "poll", "woken"} \/ (pc = "flush" /\ ~ progress)) /\ MayRespond
    => Awaiting

\* What the lifecycle checks at the end of advance() leave behind.
Settled ==
  pc \in {"poll", "woken", "deadline"} =>
    /\ state = "Active" /\ PendingBytes = 0 => ~ peerFinished
    /\ state = "Closing" => PendingBytes > 0

\* The phases of a connection, and where the server is in its loop.
PhaseAndStep ==
  /\ state = "Closed" <=> pc = "done"
  /\ pc = "discard" => state = "Draining"
  /\ state = "Draining" => PendingBytes = 0
  /\ parserState = "Failed" => state # "Active"
  /\ parserState = "Body" => pending \in Requests /\ ~ Refused(pending)

\* output_ is compacted at the end of every flush_output.
OutputCompact == pc \notin {"flush", "done"} => outputSent <= PendingBytes

\* How a connection may end, and what the client sees of it.
Endings ==
  /\ peerFinished => unread = <<>> /\ client # "open"
  /\ "ERR" \in revents => client = "reset"
  /\ ending = "rst" => state = "Closed"
  /\ lost => ending = "rst"
  /\ state # "Closed" => closeReason = "open"
  /\ closeReason \in {"socket error", "recv failed", "send failed"} => client = "reset"
  /\ closeReason \in {"client closed", "final response sent"} /\ client # "reset" =>
       client = "fin" /\ ending = "fin" /\ PendingBytes = 0

IInv ==
  /\ TypeOK
  /\ OutputBound
  /\ Len(buffer) <= MaxRequestBytes
  /\ ParserIsDone
  /\ Settled
  /\ PhaseAndStep
  /\ OutputCompact
  /\ Endings

-----------------------------------------------------------------------------
(* Constants, sequences and types *)

\* The limits are numbers, and a request has a head and a body length.
LEMMA ConstantTypes ==
  /\ MaxHeaderBytes \in Nat \ {0} /\ MaxBodyBytes \in Nat \ {0}
  /\ OutputHighWater \in Nat \ {0} /\ RecvChunk \in Nat \ {0}
  /\ IdleTimeout \in Nat \ {0} /\ LingerTimeout \in Nat \ {0} /\ MaxLingerBytes \in Nat
  /\ ResponseHeadBytes \in Nat \ {0} /\ FullLength \in Nat \ {0}
  /\ ResponseHeadBytes <= FullLength
  /\ MaxRequestBytes \in Nat /\ MaxRequestBytes = MaxHeaderBytes + MaxBodyBytes
  /\ ReceiveBuffer \in Nat \ {0} /\ SendBuffer \in Nat \ {0}
  BY ConnectionAssumption DEF FullLength, MaxRequestBytes

\* What is known of a request, sent or not.
LEMMA RequestFields ==
  ASSUME NEW r \in Requests \cup {NoRequest}
  PROVE  /\ r.head \in Nat \ {0} /\ r.body \in Nat
         /\ r.valid \in BOOLEAN /\ r.keepAlive \in BOOLEAN /\ r.throws \in BOOLEAN
         /\ Size(r) \in Nat \ {0} /\ r.head <= Size(r)
         /\ r \in Requests /\ ~ Refused(r) =>
              r.head <= MaxHeaderBytes /\ r.body <= MaxBodyBytes
<1>1. CASE r \in Requests
  <2>1. r \in RequestType
    BY <1>1, ConnectionAssumption
  <2>2. r.valid => r.body <= MaxBodyBytes
    BY <1>1, ConnectionAssumption
  <2> QED
    BY <2>1, <2>2, ConstantTypes DEF RequestType, Size, Refused
<1>2. CASE r = NoRequest
  BY <1>2, ConstantTypes DEF NoRequest, Size, Refused
<1> QED
  BY <1>1, <1>2

\* The first n elements of a sequence and the rest (Take, Drop).
LEMMA TakeDrop ==
  ASSUME NEW S, NEW s \in Seq(S), NEW n \in 0 .. Len(s)
  PROVE  /\ Take(s, n) \in Seq(S) /\ Len(Take(s, n)) = n
         /\ \A i \in 1 .. n : Take(s, n)[i] = s[i]
         /\ Drop(s, n) \in Seq(S) /\ Len(Drop(s, n)) = Len(s) - n
         /\ \A i \in 1 .. Len(s) - n : Drop(s, n)[i] = s[n + i]
<1>1. Len(s) \in Nat /\ \A i \in 1 .. Len(s) : s[i] \in S
  BY ElementOfSeq, LenProperties
<1> QED
  BY SMTT(30), Z3T(30), <1>1, SubSeqProperties DEF Take, Drop

\* A concatenation, element by element.
LEMMA Concatenation ==
  ASSUME NEW S, NEW s \in Seq(S), NEW t \in Seq(S)
  PROVE  /\ s \o t \in Seq(S) /\ Len(s \o t) = Len(s) + Len(t)
         /\ \A i \in 1 .. Len(s) : (s \o t)[i] = s[i]
         /\ \A i \in 1 .. Len(t) : (s \o t)[Len(s) + i] = t[i]
<1>1. Len(s) \in Nat /\ Len(t) \in Nat
  BY LenProperties
<1>2. /\ s \o t \in Seq(S) /\ Len(s \o t) = Len(s) + Len(t)
      /\ \A i \in 1 .. Len(s) + Len(t) :
           (s \o t)[i] = IF i <= Len(s) THEN s[i] ELSE t[i - Len(s)]
  BY ConcatProperties
<1>3. \A i \in 1 .. Len(t) : Len(s) + i \in 1 .. Len(s) + Len(t) /\ ~ (Len(s) + i <= Len(s))
                              /\ Len(s) + i - Len(s) = i
  BY <1>1
<1>4. \A i \in 1 .. Len(s) : i \in 1 .. Len(s) + Len(t) /\ i <= Len(s)
  BY <1>1
<1> QED
  BY <1>2, <1>3, <1>4

\* The same for bytes of responses.
LEMMA OutputConcatenation ==
  ASSUME NEW s \in Seq(ResponseByte), NEW t \in Seq(ResponseByte)
  PROVE  /\ s \o t \in Seq(ResponseByte) /\ Len(s \o t) = Len(s) + Len(t)
         /\ \A i \in 1 .. Len(s) : (s \o t)[i] = s[i]
         /\ \A i \in 1 .. Len(t) : (s \o t)[Len(s) + i] = t[i]
  BY Concatenation

\* Dropping bytes of the input leaves bytes of the input.
LEMMA DropBytes ==
  ASSUME NEW s \in Seq(ByteOf), NEW n \in 0 .. Len(s)
  PROVE  Drop(s, n) \in Seq(ByteOf) /\ Len(Drop(s, n)) = Len(s) - n
  BY TakeDrop

\* A byte of the input belongs to a request.
LEMMA FirstByte ==
  ASSUME NEW s \in Seq(ByteOf), s # <<>>
  PROVE  s[1].req \in Requests
<1>1. Len(s) \in Nat \ {0} /\ s[1] \in ByteOf
  BY LenProperties, ElementOfSeq, EmptySeq
<1> QED
  BY <1>1 DEF ByteOf

\* Current is a request whenever next() has bytes to look at.
LEMMA CurrentIsRequest ==
  ASSUME TypeOK, PhaseAndStep, parserState = "Body" \/ buffer # <<>>
  PROVE  Current \in Requests
  BY FirstByte DEF TypeOK, PhaseAndStep, Current

\* RequestParser::next, case by case.
LEMMA NextResultIs ==
  /\ parserState = "Failed" => NextResult = "Error"
  /\ parserState = "Body" =>
       NextResult = IF Len(buffer) < pending.body THEN "Incomplete" ELSE "Complete"
  /\ parserState = "Head" =>
       NextResult = IF buffer = <<>> THEN "Incomplete"
                    ELSE IF Len(buffer) < Current.head
                         THEN IF Len(buffer) > MaxHeaderBytes THEN "Error" ELSE "Incomplete"
                    ELSE IF HeadRefused THEN "Error"
                    ELSE IF Len(buffer) < Size(Current) THEN "Incomplete" ELSE "Complete"
<1>1. CASE parserState = "Failed"
  BY <1>1, Zenon DEF NextResult
<1>2. CASE parserState = "Body"
  BY <1>2, Zenon DEF NextResult
<1>3. CASE parserState = "Head"
  BY <1>3, Zenon DEF NextResult
<1> QED
  BY <1>1, <1>2, <1>3

\* poll_events, phase by phase.
LEMMA PollEventsIs ==
  /\ state = "Active" => PollEvents = (IF WantsToRead THEN {"IN"} ELSE {})
                                      \cup (IF PendingBytes > 0 THEN {"OUT"} ELSE {})
  /\ state = "Closing" => PollEvents = IF PendingBytes > 0 THEN {"OUT"} ELSE {}
  /\ state = "Draining" => PollEvents = {"IN"}
  /\ state = "Closed" => PollEvents = {}
<1>1. CASE state = "Active"
  BY <1>1, Zenon DEF PollEvents
<1>2. CASE state = "Closing"
  BY <1>2, Zenon DEF PollEvents
<1>3. CASE state = "Draining"
  BY <1>3, Zenon DEF PollEvents
<1>4. CASE state = "Closed"
  BY <1>4, Zenon DEF PollEvents
<1> QED
  BY <1>1, <1>2, <1>3, <1>4

\* A response is serialized to its length, as bytes of that response.
LEMMA SerializeBytes ==
  ASSUME NEW resp \in ResponseType
  PROVE  /\ resp.bytes \in Nat \ {0} /\ resp.bytes <= FullLength
         /\ Serialize(resp) \in Seq(ResponseByte) /\ Len(Serialize(resp)) = resp.bytes
         /\ \A i \in 1 .. resp.bytes : Serialize(resp)[i] = [of |-> resp, n |-> i]
<1>1. resp.bytes \in Nat \ {0} /\ resp.bytes <= FullLength
  BY ConstantTypes DEF ResponseType
<1>2. \A i \in 1 .. resp.bytes : [of |-> resp, n |-> i] \in ResponseByte
  BY <1>1 DEF ResponseByte
<1>3. Serialize(resp) \in [1 .. resp.bytes -> ResponseByte]
  BY <1>2 DEF Serialize
<1> QED
  BY <1>1, <1>3, IsASeq, LenProperties DEF Serialize

\* close_now keeps the types.
LEMMA CloseNowTypes ==
  ASSUME TypeOK, NEW reason \in CloseReasons, CloseNow(reason),
         UNCHANGED <<parserVars, outputVars, peerFinished, lingered, linger, wire, clientVars>>,
         unread' \in Seq(ByteOf), idle' \in 0 .. IdleTimeout
  PROVE  TypeOK'
<1>1. /\ pc' = "done" /\ revents' = {} /\ state' = "Closed" /\ closeReason' = reason
      /\ progress' \in BOOLEAN
  BY Zenon DEF CloseNow
<1>2. ending' \in {"none", "fin", "rst"}
  BY Zenon DEF CloseNow
<1> QED
  BY <1>1, <1>2 DEF TypeOK, parserVars, outputVars, clientVars

\* close_now keeps IInv, if the reason given is the right one.
LEMMA CloseNowKeeps ==
  ASSUME IInv, pc # "done", CloseNow(closeReason'), closeReason' \in CloseReasons,
         UNCHANGED <<parserVars, outputVars, peerFinished, lingered, timers, unread, wire,
                     clientVars>>,
         closeReason' \in {"socket error", "recv failed", "send failed"} => client = "reset",
         closeReason' \in {"client closed", "final response sent"} /\ client # "reset" =>
           client = "fin" /\ unread = <<>> /\ PendingBytes = 0
  PROVE  IInv'
<1> USE ConstantTypes
<1>a. /\ pc' = "done" /\ revents' = {} /\ state' = "Closed"
      /\ progress' = FALSE /\ PendingBytes' = PendingBytes
      /\ ending' = IF unread # <<>> \/ client = "reset" THEN "rst" ELSE "fin"
  BY Zenon DEF CloseNow, PendingBytes, outputVars
<1>b. TypeOK /\ OutputBound /\ Len(buffer) <= MaxRequestBytes /\ PhaseAndStep /\ Endings
  BY Zenon DEF IInv
<1>1. TypeOK'
  BY Zenon, <1>b, CloseNowTypes DEF TypeOK, timers
<1>2. OutputBound' /\ Len(buffer') <= MaxRequestBytes
  BY Zenon, <1>a, <1>b DEF OutputBound, outputVars, parserVars
<1>3. ParserIsDone' /\ Settled' /\ OutputCompact'
  BY Zenon, <1>a DEF ParserIsDone, Settled, OutputCompact
<1>4. PhaseAndStep'
  BY Zenon, <1>a, <1>b DEF PhaseAndStep, parserVars, Refused
<1>5. Endings'
  BY Zenon, <1>a, <1>b DEF Endings, PhaseAndStep, clientVars, TypeOK
<1> QED
  BY Zenon, <1>1, <1>2, <1>3, <1>4, <1>5 DEF IInv

\* Each kind of response is a response.
LEMMA ResponseTypes ==
  ASSUME NEW num \in Nat \ {0}
  PROVE  /\ Refusal(num) \in ResponseType /\ Timeout408(num) \in ResponseType
         /\ \A r \in Requests : ResponseTo(r, num) \in ResponseType
<1>1. \A r \in Requests : r.throws \in BOOLEAN /\ r.keepAlive \in BOOLEAN
  BY RequestFields
<1> QED
  BY <1>1 DEF Refusal, Timeout408, ResponseTo, Response, ResponseType

\* queue_response below the high-water mark keeps output_ within its bound.
LEMMA QueueResponseBounds ==
  ASSUME IInv, NEW resp \in ResponseType, QueueResponse(resp),
         PendingBytes < OutputHighWater, pc \in {"respond", "deadline"}
  PROVE  /\ output' \in Seq(ResponseByte) /\ Len(output') = Len(output) + resp.bytes
         /\ outputSent' = outputSent /\ outputSent' \in 0 .. Len(output')
         /\ requests' = requests + 1 /\ requests' \in Nat
         /\ PendingBytes' = PendingBytes + resp.bytes /\ PendingBytes' > 0
         /\ outputSent' <= PendingBytes'
         /\ OutputBound'
<1> USE ConstantTypes
<1> DEFINE more == Serialize(resp)
<1>1. /\ more \in Seq(ResponseByte) /\ Len(more) = resp.bytes
      /\ resp.bytes \in Nat \ {0} /\ resp.bytes <= FullLength
  BY SerializeBytes
<1>2. output \in Seq(ResponseByte) /\ outputSent \in 0 .. Len(output) /\ requests \in Nat
  BY DEF IInv, TypeOK
<1>3. output' = output \o more /\ outputSent' = outputSent /\ requests' = requests + 1
  BY DEF QueueResponse
<1> HIDE DEF more
<1>4. output' \in Seq(ResponseByte) /\ Len(output') = Len(output) + resp.bytes
  BY Zenon, <1>1, <1>2, <1>3, ConcatProperties
<1>5. outputSent <= PendingBytes /\ Len(output) \in Nat
  BY <1>2, LenProperties DEF IInv, OutputCompact
<1> QED
  BY SMTT(30), Z3T(30), <1>1, <1>2, <1>3, <1>4, <1>5 DEF PendingBytes, OutputBound

\* A complete request is in the buffer, and its framing is not refused.
LEMMA CompleteRequest ==
  ASSUME TypeOK, PhaseAndStep, state = "Active", NextResult = "Complete"
  PROVE  /\ Current \in Requests /\ ~ Refused(Current)
         /\ (IF parserState = "Body" THEN pending.body ELSE Size(Current)) \in 0 .. Len(buffer)
<1> USE ConstantTypes
<1>1. parserState \in {"Head", "Body"} /\ Len(buffer) \in Nat
  BY LenProperties DEF TypeOK, PhaseAndStep
<1>2. CASE parserState = "Body"
  <2>1. Current = pending /\ pending \in Requests /\ ~ Refused(pending)
    BY <1>2 DEF PhaseAndStep, Current
  <2>2. pending.body \in Nat /\ ~ (Len(buffer) < pending.body)
    BY <1>2, <2>1, NextResultIs, RequestFields
  <2> QED
    BY <1>1, <1>2, <2>1, <2>2
<1>3. CASE parserState = "Head"
  <2>1. buffer # <<>> /\ ~ HeadRefused /\ ~ (Len(buffer) < Size(Current))
    BY <1>3, NextResultIs
  <2>2. Current \in Requests
    BY <2>1, CurrentIsRequest
  <2>3. Size(Current) \in Nat
    BY <2>2, RequestFields
  <2> QED
    BY <1>1, <1>3, <2>1, <2>2, <2>3 DEF HeadRefused, Refused
<1> QED
  BY <1>1, <1>2, <1>3

\* An incomplete request: next() consumes its head if it is all there.
LEMMA IncompleteRequest ==
  ASSUME TypeOK, PhaseAndStep, state = "Active", NextResult = "Incomplete", ParserAwaits
  PROVE  /\ Awaiting'
         /\ parserState' \in {"Head", "Body"}
         /\ pending' \in Requests \cup {NoRequest}
         /\ parserState' = "Body" => pending' \in Requests /\ ~ Refused(pending')
         /\ buffer' \in Seq(ByteOf) /\ Len(buffer') <= Len(buffer)
<1> USE ConstantTypes
<1>1. parserState \in {"Head", "Body"} /\ Len(buffer) \in Nat /\ buffer \in Seq(ByteOf)
  BY LenProperties DEF TypeOK, PhaseAndStep
<1>2. CASE parserState = "Head" /\ buffer # <<>> /\ Len(buffer) >= Current.head
  <2>1. Current \in Requests /\ Current.head \in Nat \ {0} /\ Current.body \in Nat
    BY <1>2, CurrentIsRequest, RequestFields
  <2>2. ~ HeadRefused /\ Len(buffer) < Size(Current)
    BY <1>1, <1>2, <2>1, NextResultIs
  <2>3. parserState' = "Body" /\ pending' = Current /\ buffer' = Drop(buffer, Current.head)
    BY <1>2 DEF ParserAwaits
  <2>4. buffer' \in Seq(ByteOf) /\ Len(buffer') = Len(buffer) - Current.head
    <3>1. Current.head \in 0 .. Len(buffer)
      BY <1>1, <1>2, <2>1
    <3>2. /\ Drop(buffer, Current.head) \in Seq(ByteOf)
          /\ Len(Drop(buffer, Current.head)) = Len(buffer) - Current.head
      BY SMTT(30), Z3T(30), <1>1, <3>1, DropBytes
    <3> QED
      BY <2>3, <3>2
  <2> QED
    BY <1>1, <2>1, <2>2, <2>3, <2>4 DEF Awaiting, HeadRefused, Refused, Size
<1>3. CASE ~ (parserState = "Head" /\ buffer # <<>> /\ Len(buffer) >= Current.head)
  <2>1. UNCHANGED <<parserState, buffer, pending>>
    BY <1>3 DEF ParserAwaits, parserVars
  <2>2. CASE parserState = "Body"
    <3>1. Len(buffer) < pending.body
      BY <2>2, NextResultIs
    <3> QED
      BY <1>1, <2>1, <2>2, <3>1 DEF Awaiting, TypeOK, PhaseAndStep, Refused
  <2>3. CASE parserState = "Head"
    <3>1. buffer # <<>> => Current \in Requests /\ Current.head \in Nat /\ Current = buffer[1].req
      BY <2>3, CurrentIsRequest, RequestFields DEF Current
    <3>2. buffer # <<>> => Len(buffer) < Current.head /\ Len(buffer) <= MaxHeaderBytes
      BY <1>1, <1>3, <2>3, <3>1, NextResultIs
    <3> QED
      BY <1>1, <2>1, <2>3, <3>1, <3>2 DEF Awaiting, TypeOK, PhaseAndStep
  <2> QED
    BY <1>1, <2>2, <2>3
<1> QED
  BY <1>2, <1>3

\* A parser that awaits bytes has no request to answer, and room for more.
LEMMA AwaitingMeansIncomplete ==
  ASSUME TypeOK, PhaseAndStep, Awaiting
  PROVE  NextResult = "Incomplete" /\ Len(buffer) < MaxRequestBytes
<1> USE ConstantTypes
<1>1. Len(buffer) \in Nat /\ buffer \in Seq(ByteOf)
  BY LenProperties DEF TypeOK
<1>2. CASE parserState = "Head" /\ buffer = <<>>
  BY <1>2, NextResultIs
<1>3. CASE parserState = "Head" /\ buffer # <<>>
  <2>1. Len(buffer) < Current.head /\ Len(buffer) <= MaxHeaderBytes
    BY <1>3 DEF Awaiting, Current
  <2>2. ~ (Len(buffer) > MaxHeaderBytes)
    BY <1>1, <2>1
  <2> QED
    BY <1>1, <1>3, <2>1, <2>2, NextResultIs
<1>4. CASE parserState = "Body" /\ Len(buffer) < pending.body
  <2>1. pending.body \in Nat /\ pending.body <= MaxBodyBytes
    BY <1>4, RequestFields DEF PhaseAndStep
  <2> QED
    BY <1>1, <1>4, <2>1, NextResultIs
<1> QED
  BY <1>2, <1>3, <1>4 DEF Awaiting

-----------------------------------------------------------------------------
(* Every step keeps IInv *)

\* A step that touches neither the parser, the output nor the phase: what it may
\* do to the rest.
Quiet ==
  /\ UNCHANGED <<parserVars, outputVars, state, lingered, closeReason, progress, unread, ending>>
  /\ \/ pc' = pc
     \/ pc = "poll" /\ pc' = "woken"
     \/ pc = "recv" /\ pc' = "respond"
     \/ pc = "discard" /\ pc' = "deadline"
     \/ pc = "deadline" /\ pc' = "poll"
  /\ peerFinished' = peerFinished \/ (pc = "recv" /\ unread = <<>> /\ client # "open")
  /\ revents' = revents \/ ("ERR" \in revents' => client = "reset")
  /\ client' = client \/ client' = "reset" \/ (client = "open" /\ client' = "fin")
  /\ lost' = lost \/ ending = "rst"

\* Such a step keeps IInv.
LEMMA QuietKeeps ==
  ASSUME IInv, Quiet, TypeOK'
  PROVE  IInv'
<1> USE ConstantTypes
<1>1. OutputBound' /\ Len(buffer') <= MaxRequestBytes /\ OutputCompact'
  BY Zenon DEF IInv, TypeOK, OutputBound, OutputCompact, PendingBytes, Quiet, parserVars, outputVars
<1>2. PendingBytes' = PendingBytes /\ UNCHANGED <<parserState, buffer, pending, state, progress>>
  BY DEF PendingBytes, Quiet, parserVars, outputVars
<1>3. ParserIsDone'
  BY <1>2 DEF IInv, ParserIsDone, PhaseAndStep, MayRespond, Awaiting, Quiet
<1>4. Settled' /\ PhaseAndStep'
  BY <1>2 DEF IInv, Settled, PhaseAndStep, Refused, Quiet
<1>5. Endings'
  <2>1. peerFinished' => unread' = <<>> /\ client' # "open"
    <3>1. unread' = unread /\ (client # "open" => client' # "open")
      BY Zenon DEF Quiet
    <3>2. peerFinished' => unread = <<>> /\ client # "open"
      BY Zenon DEF IInv, Endings, Quiet
    <3> QED
      BY Zenon, <3>1, <3>2
  <2>2. "ERR" \in revents' => client' = "reset"
    <3>1. client = "reset" => client' = "reset"
      BY DEF Quiet
    <3> QED
      BY Zenon, <3>1 DEF IInv, Endings, Quiet
  <2>3. lost' => ending' = "rst"
    BY Zenon DEF IInv, Endings, Quiet
  <2>4. /\ UNCHANGED <<state, closeReason, ending>>
        /\ client' = client \/ client' = "reset" \/ client = "open"
    BY Zenon DEF Quiet
  <2>5. closeReason \in {"client closed", "final response sent"} /\ client # "reset" =>
          client = "fin" /\ ending = "fin" /\ PendingBytes = 0
    BY Zenon DEF IInv, Endings
  <2>6. closeReason' \in {"client closed", "final response sent"} /\ client' # "reset" =>
          client' = "fin" /\ ending' = "fin" /\ PendingBytes' = 0
    BY Zenon, <1>2, <2>4, <2>5
  <2> QED
    BY Zenon, <2>1, <2>2, <2>3, <2>4, <2>6 DEF IInv, Endings
<1> QED
  BY <1>1, <1>3, <1>4, <1>5 DEF IInv

\* poll() returns; recv() reports EAGAIN or reads the client's FIN; the deadline
\* has not passed; time passes.
LEMMA WaitingKeeps ==
  IInv /\ (Poll \/ RecvNothing \/ RecvFin \/ DiscardNothing \/ BeforeDeadline \/ Tick) => IInv'
<1> SUFFICES ASSUME IInv, Poll \/ RecvNothing \/ RecvFin \/ DiscardNothing \/ BeforeDeadline \/ Tick
             PROVE  IInv'
  OBVIOUS
<1>1. CASE Poll
  <2>1. revents' \subseteq {"IN", "OUT", "HUP", "ERR"} /\ ("ERR" \in revents' => client = "reset")
    BY <1>1 DEF Poll, Reported, Ready
  <2>2. TypeOK'
    BY <1>1, <2>1 DEF IInv, TypeOK, Poll, parserVars, outputVars, lifeVars, timers, clientVars
  <2>3. Quiet
    BY Zenon, <1>1, <2>1 DEF Quiet, Poll, lifeVars, clientVars
  <2> QED
    BY <2>2, <2>3, QuietKeeps
<1>2. CASE RecvNothing \/ DiscardNothing \/ BeforeDeadline
  <2>1. /\ pc' \in {"respond", "deadline", "poll"}
        /\ UNCHANGED <<revents, progress, parserVars, outputVars, lifeVars, timers, unread, wire,
                       ending, clientVars>>
    BY Zenon, <1>2 DEF RecvNothing, DiscardNothing, BeforeDeadline
  <2>2. TypeOK'
    BY <2>1 DEF IInv, TypeOK, parserVars, outputVars, lifeVars, timers, clientVars
  <2>3. Quiet
    BY Zenon, <1>2 DEF Quiet, RecvNothing, DiscardNothing, BeforeDeadline, lifeVars, clientVars
  <2> QED
    BY <2>2, <2>3, QuietKeeps
<1>3. CASE RecvFin
  <2>1. TypeOK'
    BY <1>3, ConstantTypes DEF IInv, TypeOK, RecvFin, parserVars, outputVars, clientVars
  <2>2. Quiet
    BY Zenon, <1>3 DEF Quiet, RecvFin, clientVars
  <2> QED
    BY <2>1, <2>2, QuietKeeps
<1>4. CASE Tick
  <2>1. TypeOK'
    BY <1>4, ConstantTypes DEF IInv, TypeOK, Tick, Smaller, serverVars, parserVars, outputVars,
                               lifeVars, clientVars
  <2>2. Quiet
    BY Zenon, <1>4 DEF Quiet, Tick, serverVars, lifeVars, clientVars
  <2> QED
    BY <2>1, <2>2, QuietKeeps
<1> QED
  BY <1>1, <1>2, <1>3, <1>4

\* The client closes, resets or reads, an RST erases what it has not read, or
\* nothing happens.
LEMMA ClientKeeps ==
  IInv /\ (ClientHalfCloses \/ ClientResets \/ ResetErases \/ ClientReads \/ UNCHANGED vars) => IInv'
<1> SUFFICES ASSUME IInv,
                    ClientHalfCloses \/ ClientResets \/ ResetErases \/ ClientReads \/ UNCHANGED vars
             PROVE  IInv'
  OBVIOUS
<1>1. CASE ClientHalfCloses \/ ClientResets
  <2>1. /\ client' \in {"fin", "reset"}
        /\ UNCHANGED <<serverVars, timers, unread, wire, ending, sent, sentBytes, got, lost>>
    BY Zenon, <1>1 DEF ClientHalfCloses, ClientResets
  <2>2. TypeOK'
    BY SMTT(30), Z3T(30), <2>1
       DEF IInv, TypeOK, serverVars, parserVars, outputVars, lifeVars, timers
  <2>3. Quiet
    BY Zenon, <1>1 DEF Quiet, ClientHalfCloses, ClientResets, serverVars, lifeVars
  <2> QED
    BY <2>2, <2>3, QuietKeeps
<1>2. CASE ResetErases
  <2>1. TypeOK'
    BY <1>2 DEF IInv, TypeOK, ResetErases, serverVars, parserVars, outputVars, lifeVars, timers
  <2>2. Quiet
    BY Zenon, <1>2 DEF Quiet, ResetErases, serverVars, lifeVars
  <2> QED
    BY <2>1, <2>2, QuietKeeps
<1>3. CASE ClientReads
  <2>1. wire \in Seq(ResponseByte) /\ wire # <<>> /\ got \in Seq(ResponseByte)
    BY <1>3 DEF IInv, TypeOK, ClientReads
  <2>2. Head(wire) \in ResponseByte /\ Tail(wire) \in Seq(ResponseByte)
    BY SMTT(30), Z3T(30), <2>1, HeadTailProperties
  <2>3. got' \in Seq(ResponseByte) /\ wire' \in Seq(ResponseByte)
    BY SMTT(30), Z3T(30), <1>3, <2>1, <2>2, AppendProperties DEF ClientReads
  <2>4. TypeOK'
    BY SMTT(30), Z3T(30), <1>3, <2>3
       DEF IInv, TypeOK, ClientReads, serverVars, parserVars, outputVars,
                                lifeVars, timers
  <2>5. Quiet
    BY Zenon, <1>3 DEF Quiet, ClientReads, serverVars, lifeVars
  <2> QED
    BY <2>4, <2>5, QuietKeeps
<1>4. CASE UNCHANGED vars
  <2>1. TypeOK'
    BY <1>4 DEF IInv, TypeOK, vars
  <2>2. Quiet
    BY Zenon, <1>4 DEF Quiet, vars, parserVars, outputVars
  <2> QED
    BY <2>1, <2>2, QuietKeeps
<1> QED
  BY <1>1, <1>2, <1>3, <1>4

\* recv() fails on a reset connection.
LEMMA RecvFailsKeeps == IInv /\ RecvFails => IInv'
  BY Zenon, CloseNowKeeps DEF RecvFails, CloseNow, CloseReasons

\* send() fails on a reset connection.
LEMMA SendFailsKeeps == IInv /\ SendFails => IInv'
  BY Zenon, CloseNowKeeps DEF SendFails, CloseNow, CloseReasons

\* The server shuts down.
LEMMA ShutdownKeeps == IInv /\ Shutdown => IInv'
  BY Zenon, CloseNowKeeps DEF Shutdown, CloseNow, CloseReasons

\* The client's FIN, or its reset, ends the lingering close: all was sent before.
LEMMA DiscardEndsKeeps == IInv /\ DiscardEnds => IInv'
  BY Zenon, CloseNowKeeps DEF DiscardEnds, CloseNow, CloseReasons, IInv, PhaseAndStep

\* on_poll_events, up to its first system call.
LEMMA OnPollEventsKeeps == IInv /\ OnPollEvents => IInv'
<1> SUFFICES ASSUME IInv, OnPollEvents PROVE IInv'
  OBVIOUS
<1> USE ConstantTypes
<1>a. CASE revents \cap FatalEvents # {}
  <2>1. client = "reset"
    BY Zenon, <1>a DEF FatalEvents, IInv, Endings
  <2>2. CloseNow("socket error") /\ UNCHANGED <<peerFinished, lingered>> /\ pc = "woken"
    BY Zenon, <1>a DEF OnPollEvents
  <2> QED
    BY Zenon, <2>1, <2>2, CloseNowKeeps DEF OnPollEvents, CloseNow, CloseReasons
<1>b. CASE ~ (revents \cap FatalEvents # {})
  <2>1. /\ pc = "woken"
        /\ pc' \in {"deadline", "discard", "recv", "respond"}
        /\ pc' = "discard" => state = "Draining"
        /\ revents' = {}
        /\ UNCHANGED <<progress, lifeVars, ending, parserVars, outputVars, timers, unread,
                       wire, clientVars>>
    BY <1>b DEF OnPollEvents
  <2>2. TypeOK'
    BY <2>1 DEF IInv, TypeOK, parserVars, outputVars, lifeVars, timers, clientVars
  <2>3. OutputBound' /\ Len(buffer') <= MaxRequestBytes /\ OutputCompact'
    BY <2>1 DEF IInv, OutputBound, OutputCompact, PendingBytes, outputVars, parserVars
  <2>4. ParserIsDone' /\ Settled'
    BY <2>1 DEF IInv, ParserIsDone, Settled, MayRespond, PendingBytes, Awaiting, outputVars,
                parserVars, lifeVars
  <2>5. PhaseAndStep'
    BY <2>1 DEF IInv, PhaseAndStep, PendingBytes, Refused, outputVars, parserVars, lifeVars
  <2>6. Endings'
    BY Zenon, <2>1 DEF IInv, TypeOK, Endings, PendingBytes, outputVars, lifeVars, clientVars
  <2> QED
    BY <2>2, <2>3, <2>4, <2>5, <2>6 DEF IInv
<1> QED
  BY <1>a, <1>b

\* recv() returns bytes, no more than fit.
LEMMA RecvDataKeeps == IInv /\ RecvData => IInv'
<1> SUFFICES ASSUME IInv, RecvData PROVE IInv'
  OBVIOUS
<1> USE ConstantTypes
<1>a. /\ RecvBytes \in 0 .. Len(unread) /\ Len(buffer) + RecvBytes <= MaxRequestBytes
      /\ buffer \in Seq(ByteOf) /\ unread \in Seq(ByteOf)
  BY SMTT(30), Z3T(30), LenProperties DEF IInv, TypeOK, RecvBytes, Smaller
<1>b. /\ Take(unread, RecvBytes) \in Seq(ByteOf) /\ Len(Take(unread, RecvBytes)) = RecvBytes
      /\ Drop(unread, RecvBytes) \in Seq(ByteOf)
  BY <1>a, TakeDrop
<1>c. buffer' \in Seq(ByteOf) /\ Len(buffer') <= MaxRequestBytes /\ unread' \in Seq(ByteOf)
  BY <1>a, <1>b, ConcatProperties DEF RecvData
<1>d. unread # <<>> /\ ~ peerFinished
  BY Zenon DEF RecvData, IInv, Endings
<1>1. TypeOK'
  BY <1>c DEF IInv, TypeOK, RecvData, outputVars, lifeVars, clientVars
<1>2. OutputBound' /\ Len(buffer') <= MaxRequestBytes /\ OutputCompact'
  BY <1>c DEF IInv, OutputBound, OutputCompact, PendingBytes, RecvData, outputVars, lifeVars
<1>3. ParserIsDone' /\ Settled'
  BY SMTT(30), Z3T(30) DEF ParserIsDone, Settled, RecvData
<1>4. PhaseAndStep'
  BY DEF IInv, TypeOK, PhaseAndStep, PendingBytes, Refused, RecvData, parserVars, outputVars,
         lifeVars, timers, clientVars, serverVars
<1>5. Endings'
  BY Zenon, <1>d DEF IInv, Endings, PendingBytes, RecvData, outputVars, lifeVars, clientVars
<1> QED
  BY <1>1, <1>2, <1>3, <1>4, <1>5 DEF IInv

\* A complete request is answered.
LEMMA RespondToRequestKeeps == IInv /\ RespondToRequest => IInv'
<1> SUFFICES ASSUME IInv, RespondToRequest PROVE IInv'
  OBVIOUS
<1> USE ConstantTypes
<1>a. pc = "respond" /\ state = "Active" /\ PendingBytes < OutputHighWater
      /\ QueueResponse(ResponseTo(Current, requests + 1))
  BY DEF RespondToRequest, MayRespond
<1>b. ResponseTo(Current, requests + 1) \in ResponseType
  <2>1. Current \in Requests
    BY <1>a, CompleteRequest DEF RespondToRequest, IInv
  <2> QED
    BY <2>1, ResponseTypes DEF IInv, TypeOK
<1>c. /\ output' \in Seq(ResponseByte) /\ outputSent' \in 0 .. Len(output') /\ requests' \in Nat
      /\ PendingBytes' > 0 /\ outputSent' <= PendingBytes' /\ OutputBound'
  BY <1>a, <1>b, QueueResponseBounds
<1>d. /\ state' \in {"Active", "Closing"}
      /\ UNCHANGED <<peerFinished, lingered, closeReason>>
  BY <1>a DEF QueueResponse

<1>e. buffer' \in Seq(ByteOf) /\ Len(buffer') <= Len(buffer)
  <2> DEFINE c == IF parserState = "Body" THEN pending.body ELSE Size(Current)
  <2>1. c \in 0 .. Len(buffer) /\ buffer \in Seq(ByteOf)
    BY <1>a, CompleteRequest DEF RespondToRequest, IInv, TypeOK
  <2>2. buffer' = Drop(buffer, c)
    BY DEF RespondToRequest, ParserCompletes
  <2> HIDE DEF c
  <2> QED
    BY SMTT(30), Z3T(30), <2>1, <2>2, DropBytes, LenProperties
<1>f. parserState' = "Head" /\ pending' = NoRequest /\ pc' = "respond" /\ progress' = TRUE
  BY SMTT(30), Z3T(30), <1>a DEF RespondToRequest, ParserCompletes
<1>1. TypeOK'
  BY SMTT(30), Z3T(30), <1>c, <1>d, <1>e, <1>f
     DEF IInv, TypeOK, RespondToRequest, timers, clientVars
<1>2. OutputBound' /\ Len(buffer') <= MaxRequestBytes /\ OutputCompact'
  <2>1. Len(buffer) \in Nat /\ Len(buffer') \in Nat /\ Len(buffer) <= MaxRequestBytes
    BY <1>e, LenProperties DEF IInv, TypeOK
  <2> QED
    BY SMTT(30), Z3T(30), <1>c, <1>e, <2>1 DEF OutputCompact
<1>3. ParserIsDone' /\ Settled'
  BY <1>f DEF ParserIsDone, Settled
<1>4. PhaseAndStep'
  BY <1>d, <1>f DEF PhaseAndStep
<1>5. Endings'
  BY <1>a, <1>d DEF IInv, Endings, RespondToRequest, clientVars
<1> QED
  BY <1>1, <1>2, <1>3, <1>4, <1>5 DEF IInv

\* A refused request is answered, and the connection closes.
LEMMA RespondToErrorKeeps == IInv /\ RespondToError => IInv'
<1> SUFFICES ASSUME IInv, RespondToError PROVE IInv'
  OBVIOUS
<1> USE ConstantTypes
<1>a. pc = "respond" /\ state = "Active" /\ PendingBytes < OutputHighWater
      /\ QueueResponse(Refusal(requests + 1))
  BY DEF RespondToError, MayRespond
<1>b. Refusal(requests + 1) \in ResponseType
  BY ResponseTypes DEF IInv, TypeOK
<1>c. /\ output' \in Seq(ResponseByte) /\ outputSent' \in 0 .. Len(output') /\ requests' \in Nat
      /\ PendingBytes' > 0 /\ outputSent' <= PendingBytes' /\ OutputBound'
  BY <1>a, <1>b, QueueResponseBounds
<1>d. /\ state' \in {"Active", "Closing"}
      /\ UNCHANGED <<peerFinished, lingered, closeReason>>
  BY <1>a DEF QueueResponse

<1>e. state' = "Closing"
  BY <1>a DEF QueueResponse, Refusal, Response
<1>f. /\ parserState' = "Failed" /\ pending' = pending /\ pc' = "flush" /\ progress' = TRUE
      /\ buffer' = <<>>
  BY SMTT(30), Z3T(30), <1>a DEF RespondToError, ParserFails
<1>1. TypeOK'
  BY SMTT(30), Z3T(30), <1>c, <1>d, <1>f DEF IInv, TypeOK, RespondToError, timers, clientVars
<1>2. OutputBound' /\ Len(buffer') <= MaxRequestBytes /\ OutputCompact'
  BY <1>c, <1>f DEF OutputCompact
<1>3. ParserIsDone' /\ Settled'
  BY <1>f DEF ParserIsDone, Settled
<1>4. PhaseAndStep'
  BY SMTT(30), Z3T(30), <1>e, <1>f DEF PhaseAndStep
<1>5. Endings'
  BY <1>a, <1>d DEF IInv, Endings, RespondToError, clientVars
<1> QED
  BY <1>1, <1>2, <1>3, <1>4, <1>5 DEF IInv

\* Nothing more to answer: the parser awaits bytes, or parsing is paused.
LEMMA RespondNoMoreKeeps == IInv /\ RespondNoMore => IInv'
<1> SUFFICES ASSUME IInv, RespondNoMore PROVE IInv'
  OBVIOUS
<1> USE ConstantTypes
<1>a. /\ pc = "respond" /\ pc' = "flush"
      /\ UNCHANGED <<revents, progress, outputVars, lifeVars, timers, unread, wire, ending,
                     clientVars>>
  BY DEF RespondNoMore
<1>b. /\ MayRespond' => Awaiting'
      /\ parserState' \in {"Head", "Body", "Failed"}
      /\ parserState' = "Failed" => state # "Active"
      /\ pending' \in Requests \cup {NoRequest}
      /\ parserState' = "Body" => pending' \in Requests /\ ~ Refused(pending')
      /\ buffer' \in Seq(ByteOf) /\ Len(buffer') <= Len(buffer)
  <2>1. CASE MayRespond /\ NextResult = "Incomplete" /\ ParserAwaits
    <3>1. state = "Active" /\ TypeOK /\ PhaseAndStep
      BY SMTT(30), Z3T(30), <2>1 DEF MayRespond, IInv
    <3> QED
      BY SMTT(30), Z3T(30), <2>1, <3>1, IncompleteRequest
  <2>2. CASE ~ MayRespond /\ UNCHANGED parserVars
    <3>1. ~ MayRespond'
      BY <1>a, <2>2 DEF MayRespond, PendingBytes, outputVars, lifeVars
    <3>2. Len(buffer) \in Nat
      BY SMTT(30), Z3T(30), LenProperties DEF IInv, TypeOK
    <3> QED
      BY <2>2, <3>1, <3>2 DEF IInv, TypeOK, PhaseAndStep, parserVars, Refused
  <2> QED
    BY <2>1, <2>2 DEF RespondNoMore
<1>1. TypeOK'
  BY SMTT(30), Z3T(30), <1>a, <1>b DEF IInv, TypeOK, outputVars, lifeVars, timers, clientVars
<1>2. OutputBound' /\ Len(buffer') <= MaxRequestBytes /\ OutputCompact'
  <2>1. Len(buffer) \in Nat /\ Len(buffer') \in Nat /\ Len(buffer) <= MaxRequestBytes
    BY <1>b, LenProperties DEF IInv, TypeOK
  <2> QED
    BY SMTT(30), Z3T(30), <1>a, <1>b, <2>1
       DEF IInv, OutputBound, OutputCompact, PendingBytes, outputVars
<1>3. ParserIsDone' /\ Settled'
  BY SMTT(30), Z3T(30), <1>a, <1>b DEF ParserIsDone, Settled
<1>4. PhaseAndStep'
  BY <1>a, <1>b DEF IInv, PhaseAndStep, PendingBytes, Refused, outputVars, lifeVars
<1>5. Endings'
  BY Zenon, <1>a DEF IInv, Endings, PendingBytes, outputVars, lifeVars, clientVars
<1> QED
  BY <1>1, <1>2, <1>3, <1>4, <1>5 DEF IInv

\* send() accepts some bytes.
LEMMA SendSomeKeeps == IInv /\ SendSome => IInv'
<1> SUFFICES ASSUME IInv, SendSome PROVE IInv'
  OBVIOUS
<1> USE ConstantTypes
<1> DEFINE n == Smaller(SendBuffer - Len(wire), PendingBytes)
<1>a. /\ pc = "flush" /\ PendingBytes > 0 /\ client # "reset" /\ Len(wire) < SendBuffer
      /\ wire' = wire \o SubSeq(output, outputSent + 1, outputSent + n)
      /\ outputSent' = outputSent + n /\ progress' = TRUE /\ idle' = 0
      /\ UNCHANGED <<pc, revents, parserVars, output, requests, lifeVars, linger, unread, ending,
                     clientVars>>
  BY DEF SendSome
<1>b. /\ wire \in Seq(ResponseByte) /\ output \in Seq(ResponseByte)
      /\ Len(wire) \in Nat /\ Len(output) \in Nat /\ outputSent \in 0 .. Len(output)
  BY SMTT(30), Z3T(30), LenProperties DEF IInv, TypeOK
<1>c. n \in Nat /\ outputSent + n <= Len(output) /\ n >= 1
  BY SMTT(30), Z3T(30), <1>a, <1>b DEF Smaller, PendingBytes
<1> HIDE DEF n
<1>d. wire' \in Seq(ResponseByte)
  <2>1. \A i \in outputSent + 1 .. outputSent + n : output[i] \in ResponseByte
    BY <1>b, <1>c, ElementOfSeq
  <2>2. SubSeq(output, outputSent + 1, outputSent + n) \in Seq(ResponseByte)
    BY SMTT(30), Z3T(30), <1>b, <1>c, <2>1, SubSeqProperties
  <2> QED
    BY <1>a, <1>b, <2>2, ConcatProperties
<1>e. PendingBytes' = PendingBytes - n /\ PendingBytes' \in Nat
  BY SMTT(30), Z3T(30), <1>a, <1>b, <1>c DEF PendingBytes
<1>f. PendingBytes > 0 /\ state # "Draining" /\ closeReason = "open"
  BY SMTT(30), Z3T(30), <1>a DEF IInv, PhaseAndStep, Endings
<1>1. TypeOK'
  BY SMTT(30), Z3T(30), <1>a, <1>b, <1>c, <1>d DEF IInv, TypeOK, parserVars, lifeVars, clientVars
<1>2. OutputBound' /\ Len(buffer') <= MaxRequestBytes /\ OutputCompact'
  BY SMTT(30), Z3T(30), <1>a, <1>b, <1>c, <1>e
     DEF IInv, OutputBound, OutputCompact, PendingBytes, parserVars
<1>3. ParserIsDone' /\ Settled'
  BY SMTT(30), Z3T(30), <1>a DEF ParserIsDone, Settled
<1>4. PhaseAndStep'
  BY SMTT(30), Z3T(30), <1>a, <1>f DEF IInv, PhaseAndStep, Refused, parserVars, lifeVars
<1>5. Endings'
  BY SMTT(30), Z3T(30), <1>a, <1>f DEF IInv, Endings, lifeVars, clientVars
<1> QED
  BY <1>1, <1>2, <1>3, <1>4, <1>5 DEF IInv

\* All is sent, or send() would block: output_ is compacted.
LEMMA FlushEndsKeeps == IInv /\ FlushEnds => IInv'
<1> SUFFICES ASSUME IInv, FlushEnds PROVE IInv'
  OBVIOUS
<1> USE ConstantTypes
<1>a. /\ pc = "flush" /\ CompactOutput
      /\ progress' = FALSE
      /\ UNCHANGED <<revents, parserVars, requests, lifeVars, timers, unread, wire, ending,
                     clientVars>>
  BY SMTT(30), Z3T(30) DEF FlushEnds
<1>b. output \in Seq(ResponseByte) /\ Len(output) \in Nat /\ outputSent \in 0 .. Len(output)
  BY LenProperties DEF IInv, TypeOK
<1>c. /\ output' \in Seq(ResponseByte) /\ outputSent' \in 0 .. Len(output')
      /\ PendingBytes' = PendingBytes /\ Len(output') <= Len(output)
      /\ outputSent' <= PendingBytes'
  <2>1. CASE outputSent >= Len(output) \div 2
    <3>1. /\ Drop(output, outputSent) \in Seq(ResponseByte)
          /\ Len(Drop(output, outputSent)) = Len(output) - outputSent
      BY SMTT(30), Z3T(30), <1>b, TakeDrop
    <3>2. output' = Drop(output, outputSent) /\ outputSent' = 0
      BY <1>a, <2>1 DEF CompactOutput
    <3> QED
      BY SMTT(30), Z3T(30), <1>b, <3>1, <3>2 DEF PendingBytes
  <2>2. CASE ~ (outputSent >= Len(output) \div 2)
    <3>1. outputSent <= Len(output) - outputSent
      BY <1>b, <2>2
    <3>2. UNCHANGED <<output, outputSent>>
      BY <1>a, <2>2 DEF CompactOutput
    <3> QED
      BY <1>b, <3>1, <3>2 DEF PendingBytes
  <2> QED
    BY <2>1, <2>2
<1>d. pc' \in {"respond", "settle"} /\ (pc' = "settle" => ~ progress)
  BY Zenon DEF FlushEnds, AfterFlush
<1>1. TypeOK'
  <2>1. TypeOK /\ output' \in Seq(ResponseByte) /\ outputSent' \in 0 .. Len(output')
    BY <1>c DEF IInv
  <2>2. /\ progress' \in BOOLEAN /\ pc' \in {"respond", "settle"}
        /\ UNCHANGED <<revents, parserVars, requests, lifeVars, timers, unread, wire, ending,
                       clientVars>>
    BY Zenon, <1>a, <1>d
  <2> QED
    BY <2>1, <2>2 DEF TypeOK, parserVars, lifeVars, timers, clientVars
<1>2. OutputBound' /\ Len(buffer') <= MaxRequestBytes /\ OutputCompact'
  <2>1. Len(output') \in Nat
    BY SMTT(30), Z3T(30), <1>c, LenProperties
  <2> QED
    BY SMTT(30), Z3T(30), <1>a, <1>b, <1>c, <2>1 DEF IInv, OutputBound, OutputCompact, parserVars
<1>3. ParserIsDone' /\ Settled'
  BY SMTT(30), Z3T(30), <1>a, <1>c, <1>d
     DEF IInv, ParserIsDone, Settled, MayRespond, Awaiting, parserVars, lifeVars
<1>4. PhaseAndStep'
  BY <1>a, <1>c, <1>d DEF IInv, PhaseAndStep, Refused, parserVars, lifeVars
<1>5. Endings'
  BY Zenon, <1>a, <1>c DEF IInv, Endings, lifeVars, clientVars
<1> QED
  BY <1>1, <1>2, <1>3, <1>4, <1>5 DEF IInv

\* The lifecycle checks that end advance().
LEMMA SettleKeeps == IInv /\ Settle => IInv'
<1> SUFFICES ASSUME IInv, Settle PROVE IInv'
  OBVIOUS
<1> USE ConstantTypes
<1>a. pc = "settle" /\ UNCHANGED <<parserVars, outputVars, idle, unread, wire, clientVars>>
  BY Zenon DEF Settle
<1>b. client \in {"open", "fin", "reset"} /\ (peerFinished => unread = <<>> /\ client # "open")
  BY Zenon DEF IInv, TypeOK, Endings
<1>c. CASE /\ PendingBytes = 0
           /\ state = "Active" /\ peerFinished
           /\ CloseNow("client closed")
           /\ UNCHANGED <<peerFinished, lingered, linger>>
  BY Zenon, <1>a, <1>b, <1>c, CloseNowKeeps DEF CloseNow, CloseReasons, timers
<1>d. CASE /\ PendingBytes = 0
           /\ state = "Closing" /\ ~ Lingers
           /\ CloseNow("final response sent")
           /\ UNCHANGED <<peerFinished, lingered, linger>>
  BY Zenon, <1>a, <1>b, <1>d, CloseNowKeeps DEF CloseNow, CloseReasons, timers, Lingers
<1>e. CASE \/ /\ PendingBytes = 0
              /\ state = "Closing" /\ Lingers
              /\ state' = "Draining"
              /\ linger' = 0
              /\ ending' = "fin"
              /\ pc' = "deadline"
              /\ UNCHANGED <<revents, progress, peerFinished, lingered, closeReason>>
           \/ /\ PendingBytes > 0 \/ (state = "Active" /\ ~ peerFinished)
              /\ pc' = "deadline"
              /\ UNCHANGED <<revents, progress, lifeVars, linger, ending>>
  <2>1. /\ pc' = "deadline" /\ linger' \in 0 .. LingerTimeout
        /\ UNCHANGED <<revents, progress, peerFinished, lingered, closeReason>>
        /\ \/ state' = "Draining" /\ ending' = "fin" /\ PendingBytes = 0 /\ state = "Closing"
           \/ /\ UNCHANGED <<state, ending>>
              /\ PendingBytes > 0 \/ (state = "Active" /\ ~ peerFinished)
    BY SMTT(30), Z3T(30), <1>e DEF lifeVars, IInv, TypeOK
  <2>2. PendingBytes' = PendingBytes
    BY <1>a DEF PendingBytes, outputVars
  <2>3. TypeOK'
    BY SMTT(30), Z3T(30), <1>a, <2>1 DEF IInv, TypeOK, parserVars, outputVars, clientVars
  <2>4. OutputBound' /\ Len(buffer') <= MaxRequestBytes /\ OutputCompact'
    BY SMTT(30), Z3T(30), <1>a, <2>1, <2>2
       DEF IInv, OutputBound, OutputCompact, outputVars, parserVars
  <2>5. ParserIsDone' /\ Settled'
    BY SMTT(30), Z3T(30), <1>a, <2>1, <2>2
       DEF IInv, ParserIsDone, Settled, MayRespond, Awaiting, parserVars
  <2>6. PhaseAndStep'
    BY SMTT(30), Z3T(30), <1>a, <2>1, <2>2 DEF IInv, PhaseAndStep, Refused, parserVars
  <2>7. Endings'
    BY <1>a, <2>1, <2>2 DEF IInv, Endings, PhaseAndStep, clientVars
  <2> QED
    BY <2>3, <2>4, <2>5, <2>6, <2>7 DEF IInv
<1> QED
  BY Zenon, <1>c, <1>d, <1>e DEF Settle

\* Input is read and discarded in the lingering close.
LEMMA DiscardDataKeeps == IInv /\ DiscardData => IInv'
<1> SUFFICES ASSUME IInv, DiscardData PROVE IInv'
  OBVIOUS
<1> USE ConstantTypes
<1> DEFINE n == Smaller(RecvChunk, Len(unread))
<1>a. /\ pc = "discard" /\ unread # <<>>
      /\ lingered' = lingered + n /\ unread' = Drop(unread, n)
      /\ UNCHANGED <<revents, progress, parserVars, outputVars, peerFinished, timers, wire,
                     clientVars>>
  BY Zenon DEF DiscardData
<1>b. \/ /\ state' = "Closed" /\ closeReason' = "discard limit" /\ pc' = "done"
         /\ ending' \in {"rst", "fin"}
      \/ pc' = "deadline" /\ UNCHANGED <<state, closeReason, ending>>
  BY Zenon DEF DiscardData
<1>c. n \in 0 .. Len(unread) /\ unread \in Seq(ByteOf) /\ n \in Nat
  BY SMTT(30), Z3T(30), LenProperties DEF IInv, TypeOK, Smaller
<1> HIDE DEF n
<1>d. unread' \in Seq(ByteOf) /\ lingered' \in Nat
  BY SMTT(30), Z3T(30), <1>a, <1>c, DropBytes DEF IInv, TypeOK
<1>e. /\ state = "Draining" /\ ~ peerFinished /\ ending # "rst" /\ ~ lost
      /\ closeReason = "open" /\ PendingBytes = 0 /\ PendingBytes' = PendingBytes
  BY SMTT(30), Z3T(30), <1>a DEF IInv, PhaseAndStep, Endings, PendingBytes, outputVars
<1>1. TypeOK'
  <2>1. /\ pc' \in {"done", "deadline"} /\ state' \in {"Closed", "Draining"}
        /\ closeReason' \in {"open"} \cup CloseReasons /\ ending' \in {"none", "fin", "rst"}
    BY Zenon, <1>b, <1>e DEF CloseReasons, IInv, TypeOK
  <2> QED
    BY SMTT(30), Z3T(30), <1>a, <1>d, <2>1
       DEF IInv, TypeOK, parserVars, outputVars, timers, clientVars
<1>2. OutputBound' /\ Len(buffer') <= MaxRequestBytes /\ OutputCompact'
  BY Zenon, <1>a, <1>b, <1>e DEF IInv, OutputBound, OutputCompact, outputVars, parserVars
<1>3. ParserIsDone' /\ Settled'
  BY Zenon, <1>b, <1>e DEF ParserIsDone, Settled, MayRespond
<1>4. PhaseAndStep'
  BY Zenon, <1>a, <1>b, <1>e DEF IInv, PhaseAndStep, Refused, parserVars
<1>5. Endings'
  BY Zenon, <1>a, <1>b, <1>e DEF IInv, Endings, clientVars
<1> QED
  BY <1>1, <1>2, <1>3, <1>4, <1>5 DEF IInv

\* A request that takes too long is answered with 408.
LEMMA RequestTimesOutKeeps == IInv /\ RequestTimesOut => IInv'
<1> SUFFICES ASSUME IInv, RequestTimesOut PROVE IInv'
  OBVIOUS
<1> USE ConstantTypes
<1>a. /\ pc = "deadline" /\ state = "Active" /\ PendingBytes = 0
      /\ QueueResponse(Timeout408(requests + 1)) /\ idle' = 0 /\ pc' = "respond"
      /\ UNCHANGED <<revents, progress, parserVars, linger, unread, wire, ending, clientVars>>
  BY SMTT(30), Z3T(30) DEF RequestTimesOut, Awaits408
<1>b. Timeout408(requests + 1) \in ResponseType
  BY SMTT(30), Z3T(30), ResponseTypes DEF IInv, TypeOK
<1>c. /\ output' \in Seq(ResponseByte) /\ outputSent' \in 0 .. Len(output') /\ requests' \in Nat
      /\ PendingBytes' > 0 /\ outputSent' <= PendingBytes' /\ OutputBound'
  BY SMTT(30), Z3T(30), <1>a, <1>b, QueueResponseBounds
<1>d. state' = "Closing" /\ UNCHANGED <<peerFinished, lingered, closeReason>>
  BY SMTT(30), Z3T(30), <1>a DEF QueueResponse, Timeout408, Response
<1>1. TypeOK'
  BY SMTT(30), Z3T(30), <1>a, <1>c, <1>d DEF IInv, TypeOK, parserVars, clientVars
<1>2. OutputBound' /\ Len(buffer') <= MaxRequestBytes /\ OutputCompact'
  BY <1>a, <1>c DEF IInv, OutputCompact, parserVars
<1>3. ParserIsDone' /\ Settled'
  BY SMTT(30), Z3T(30), <1>a DEF ParserIsDone, Settled
<1>4. PhaseAndStep'
  BY SMTT(30), Z3T(30), <1>a, <1>d DEF IInv, PhaseAndStep, Refused, parserVars
<1>5. Endings'
  BY <1>a, <1>d DEF IInv, Endings, clientVars
<1> QED
  BY <1>1, <1>2, <1>3, <1>4, <1>5 DEF IInv

\* Any other deadline closes the connection.
LEMMA ConnectionTimesOutKeeps == IInv /\ ConnectionTimesOut => IInv'
<1> SUFFICES ASSUME IInv, ConnectionTimesOut PROVE IInv'
  OBVIOUS
<1> DEFINE reason == CASE state = "Active"   -> "idle timeout"
                       [] state = "Closing"  -> "write timeout"
                       [] state = "Draining" -> "linger timeout"
<1>1. pc = "deadline" /\ state \in {"Active", "Closing", "Draining"}
  BY Zenon DEF IInv, TypeOK, PhaseAndStep, ConnectionTimesOut
<1>2. reason \in {"idle timeout", "write timeout", "linger timeout"}
  <2>1. CASE state = "Active"
    BY <2>1, Zenon
  <2>2. CASE state = "Closing"
    BY <2>2, Zenon
  <2>3. CASE state = "Draining"
    BY <2>3, Zenon
  <2> QED
    BY Zenon, <1>1, <2>1, <2>2, <2>3
<1>3. /\ CloseNow(reason)
      /\ UNCHANGED <<parserVars, outputVars, peerFinished, lingered, timers, unread, wire,
                     clientVars>>
  BY Zenon DEF ConnectionTimesOut
<1> HIDE DEF reason
<1> QED
  BY Zenon, <1>1, <1>2, <1>3, CloseNowKeeps DEF CloseNow, CloseReasons

\* The client sends a byte.
LEMMA ClientSendsKeeps == IInv /\ ClientSends => IInv'
<1> SUFFICES ASSUME IInv, ClientSends PROVE IInv'
  OBVIOUS
<1> USE ConstantTypes
<1>a. /\ client = "open" /\ ending # "rst"
      /\ UNCHANGED <<serverVars, timers, wire, client, got, lost>>
  BY SMTT(30), Z3T(30) DEF ClientSends
<1>b. sent' \in Seq(Requests) /\ sent' # <<>> /\ sentBytes' \in Nat \ {0}
  <2>1. sent \in Seq(Requests) /\ sentBytes \in Nat
    BY DEF IInv, TypeOK
  <2>2. CASE RequestUnfinished /\ sentBytes' = sentBytes + 1 /\ sent' = sent
    BY SMTT(30), Z3T(30), <2>1, <2>2 DEF RequestUnfinished
  <2>3. CASE (\E r \in Requests : sent' = Append(sent, r)) /\ sentBytes' = 1
    BY <2>1, <2>3, AppendProperties
  <2> QED
    BY SMTT(30), Z3T(30), <2>2, <2>3 DEF ClientSends
<1>c. Last(sent') \in Requests
  BY <1>b, LenProperties, ElementOfSeq, EmptySeq DEF Last
<1> DEFINE byte == [req |-> Last(sent'), n |-> sentBytes']
<1>d. byte \in ByteOf
  BY SMTT(30), Z3T(30), <1>b, <1>c DEF ByteOf
<1>e. \/ ending' = "rst" /\ unread' = unread /\ state = "Closed"
      \/ unread' = Append(unread, byte) /\ ending' = ending
  BY DEF ClientSends
<1> HIDE DEF byte
<1>f. unread' \in Seq(ByteOf)
  <2>1. unread \in Seq(ByteOf)
    BY DEF IInv, TypeOK
  <2>2. Append(unread, byte) \in Seq(ByteOf)
    BY SMTT(30), Z3T(30), <1>d, <2>1, AppendProperties
  <2> QED
    BY SMTT(30), Z3T(30), <1>e, <2>1, <2>2
<1>1. TypeOK'
  BY SMTT(30), Z3T(30), <1>a, <1>b, <1>e, <1>f DEF IInv, TypeOK, serverVars, parserVars, outputVars,
                                              lifeVars, timers
<1>2. OutputBound' /\ Len(buffer') <= MaxRequestBytes /\ OutputCompact'
  BY SMTT(30), Z3T(30), <1>a
     DEF IInv, OutputBound, OutputCompact, PendingBytes, serverVars, parserVars,
            outputVars
<1>3. ParserIsDone' /\ Settled'
  BY SMTT(30), Z3T(30), <1>a
     DEF IInv, ParserIsDone, Settled, MayRespond, PendingBytes, Awaiting, serverVars,
            parserVars, outputVars, lifeVars
<1>4. PhaseAndStep'
  BY <1>a
     DEF IInv, PhaseAndStep, PendingBytes, Refused, serverVars, parserVars, outputVars, lifeVars
<1>5. Endings'
  BY ZenonT(40), <1>a, <1>e DEF IInv, Endings, PendingBytes, serverVars, outputVars, lifeVars
<1> QED
  BY <1>1, <1>2, <1>3, <1>4, <1>5 DEF IInv

\* The new connection of Server::accept_connections satisfies IInv.
LEMMA InitEstablishesIInv == Init => IInv
<1> SUFFICES ASSUME Init PROVE IInv
  BY SMTT(30), Z3T(30)
<1> USE ConstantTypes
<1>1. TypeOK
  <2>1. buffer \in Seq(ByteOf) /\ unread \in Seq(ByteOf) /\ sent \in Seq(Requests)
    BY EmptySeq DEF Init
  <2>2. output \in Seq(ResponseByte) /\ wire \in Seq(ResponseByte) /\ got \in Seq(ResponseByte)
    BY SMTT(30), Z3T(30), EmptySeq DEF Init
  <2>3. outputSent \in 0 .. Len(output)
    BY EmptySeq DEF Init
  <2>4. /\ peerFinished \in BOOLEAN /\ progress \in BOOLEAN /\ lost \in BOOLEAN
        /\ pending \in Requests \cup {NoRequest}
    BY Zenon DEF Init
  <2>5. /\ idle \in 0 .. IdleTimeout /\ linger \in 0 .. LingerTimeout
        /\ requests \in Nat /\ lingered \in Nat /\ sentBytes \in Nat
    BY SMTT(30), Z3T(30) DEF Init
  <2>6. /\ pc = "poll" /\ revents = {} /\ state = "Active" /\ parserState = "Head"
        /\ closeReason = "open" /\ ending = "none" /\ client = "open"
    BY DEF Init
  <2> QED
    BY SMTT(30), Z3T(30), <2>1, <2>2, <2>3, <2>4, <2>5, <2>6 DEF TypeOK
<1>2. Len(output) = 0 /\ Len(buffer) = 0
  BY EmptySeq DEF Init
<1>3. OutputBound /\ Len(buffer) <= MaxRequestBytes /\ OutputCompact
  BY SMTT(30), Z3T(30), <1>2 DEF Init, OutputBound, OutputCompact, PendingBytes
<1>4. ParserIsDone /\ Settled
  BY SMTT(30), Z3T(30), <1>2 DEF Init, ParserIsDone, Settled, Awaiting
<1>5. PhaseAndStep /\ Endings
  BY DEF Init, PhaseAndStep, Endings
<1> QED
  BY <1>1, <1>3, <1>4, <1>5 DEF IInv

\* Every step of the server, the kernel and the client keeps IInv.
LEMMA StepKeepsIInv == IInv /\ [Next]_vars => IInv'
<1> SUFFICES ASSUME IInv, [Next]_vars PROVE IInv'
  OBVIOUS
<1>1. CASE Receive \/ ReceiveNothing
  BY SMTT(30), Z3T(30), <1>1, RecvDataKeeps, RecvFailsKeeps, DiscardDataKeeps, DiscardEndsKeeps,
     WaitingKeeps
     DEF Receive, ReceiveNothing
<1>2. CASE Proceed
  BY <1>2, WaitingKeeps, OnPollEventsKeeps, RespondToRequestKeeps, RespondToErrorKeeps,
     RespondNoMoreKeeps, SendSomeKeeps, SendFailsKeeps, FlushEndsKeeps, SettleKeeps,
     RequestTimesOutKeeps, ConnectionTimesOutKeeps DEF Proceed
<1>3. CASE Shutdown \/ Tick
  BY <1>3, ShutdownKeeps, WaitingKeeps
<1>4. CASE ClientWorks \/ ClientResets \/ ResetErases \/ Finished \/ UNCHANGED vars
  BY <1>4, ClientSendsKeeps, ClientKeeps DEF ClientWorks, Finished
<1> QED
  BY <1>1, <1>2, <1>3, <1>4 DEF Next

\* IInv holds throughout.
LEMMA Invariance == Spec => []IInv
  BY InitEstablishesIInv, StepKeepsIInv, PTL DEF Spec

-----------------------------------------------------------------------------
(* The properties *)

\* Every variable keeps its type and the timers stay within their bounds, for
\* all limits, requests and clients.
THEOREM TypeCorrect == Spec => []TypeOK
<1>1. IInv => TypeOK
  BY DEF IInv
<1> QED
  BY <1>1, Invariance, PTL

\* Backpressure and the limits of wants_to_read bound what a connection holds,
\* in both directions, for every client and every limit.
THEOREM BuffersStayBounded == Spec => []BuffersBounded
<1>1. IInv => BuffersBounded
  <2> SUFFICES ASSUME IInv PROVE BuffersBounded
    OBVIOUS
  <2>1. CASE pc = "poll" /\ state = "Active" /\ PendingBytes < OutputHighWater
    <3>1. Awaiting
      BY <2>1 DEF IInv, ParserIsDone, MayRespond
    <3> QED
      BY <3>1, AwaitingMeansIncomplete DEF IInv, BuffersBounded, InputBound
  <2> QED
    BY <2>1 DEF IInv, BuffersBounded, InputBound
<1> QED
  BY <1>1, Invariance, PTL

\* An open connection never enters poll() without an event to wait for, and
\* never with a request it could answer: no wake-up is lost.
THEOREM NeverGetsStuck == Spec => []NeverStuck
<1>1. IInv => NeverStuck
  <2> SUFFICES ASSUME IInv, pc = "poll" PROVE NeverStuck
    BY SMTT(30), Z3T(30) DEF NeverStuck, NeverDeaf, NoRequestStranded
  <2> USE ConstantTypes
  <2>1. /\ state \in {"Active", "Closing", "Draining"} /\ PendingBytes \in Nat
        /\ state = "Active" /\ PendingBytes = 0 => ~ peerFinished
        /\ state = "Closing" => PendingBytes > 0
    BY LenProperties DEF IInv, TypeOK, PhaseAndStep, Settled, PendingBytes
  <2>2. CASE state = "Active" /\ PendingBytes < OutputHighWater
    <3>1. NextResult = "Incomplete" /\ Len(buffer) < MaxRequestBytes
      BY <2>2, AwaitingMeansIncomplete DEF IInv, ParserIsDone, MayRespond
    <3>2. PendingBytes = 0 => WantsToRead
      BY <2>1, <2>2, <3>1 DEF WantsToRead
    <3>3. PollEvents # {}
      BY <2>1, <2>2, <3>2, PollEventsIs
    <3> QED
      BY <3>1, <3>3 DEF NeverStuck, NeverDeaf, NoRequestStranded
  <2>3. CASE state = "Active" /\ ~ (PendingBytes < OutputHighWater)
    <3>1. PendingBytes > 0 /\ PendingBytes >= OutputHighWater
      BY <2>1, <2>3
    <3>2. "OUT" \in PollEvents
      BY SMTT(30), Z3T(30), <2>3, <3>1, PollEventsIs
    <3> QED
      BY <3>1, <3>2 DEF NeverStuck, NeverDeaf, NoRequestStranded
  <2>4. CASE state # "Active"
    BY <2>1, <2>4, PollEventsIs DEF NeverStuck, NeverDeaf, NoRequestStranded
  <2> QED
    BY <2>2, <2>3, <2>4
<1> QED
  BY <1>1, Invariance, PTL

\* A connection closed after the client's FIN or after the lingering close has
\* no unread input and no unsent output: the client sees no RST.
THEOREM OrderlyClosesSendFin == Spec => []OrderlyCloseNeverResets
<1>1. IInv => OrderlyCloseNeverResets
  BY Zenon DEF IInv, Endings, OrderlyCloseNeverResets
<1> QED
  BY <1>1, Invariance, PTL

\* The last byte in output_ after queue_response belongs to the response queued.
LEMMA LastQueued ==
  ASSUME TypeOK, NEW resp \in ResponseType, output' = output \o Serialize(resp)
  PROVE  Last(output').of = resp
<1> DEFINE more == Serialize(resp)
<1>1. /\ more \in Seq(ResponseByte) /\ Len(more) = resp.bytes /\ resp.bytes \in Nat \ {0}
      /\ more[resp.bytes] = [of |-> resp, n |-> resp.bytes]
  BY SMTT(30), Z3T(30), SerializeBytes
<1>2. output \in Seq(ResponseByte) /\ Len(output) \in Nat /\ output' = output \o more
  BY SMTT(30), Z3T(30), LenProperties DEF TypeOK
<1> HIDE DEF more
<1>3. /\ Len(output') = Len(output) + resp.bytes
      /\ output'[Len(output) + resp.bytes] = more[resp.bytes]
  <2>1. resp.bytes \in 1 .. Len(more)
    BY <1>1
  <2>2. /\ Len(output \o more) = Len(output) + Len(more)
        /\ \A i \in 1 .. Len(more) : (output \o more)[Len(output) + i] = more[i]
    BY <1>1, <1>2, OutputConcatenation, Zenon
  <2> QED
    BY SMTT(30), Z3T(30), <1>1, <1>2, <2>1, <2>2
<1> QED
  BY SMTT(30), Z3T(30), <1>1, <1>2, <1>3 DEF Last

\* A step that appends a 408 to output_ is the timeout of a partial request.
LEMMA OnlyTimeoutQueues408 ==
  ASSUME IInv, Next, Len(output') > Len(output), Last(output').of.status = "408"
  PROVE  RequestTimesOut
<1>1. output # output' /\ TypeOK /\ Len(output) \in Nat /\ requests + 1 \in Nat \ {0}
  BY LenProperties DEF IInv, TypeOK
<1>2. ~ FlushEnds
  <2>1. SUFFICES ASSUME FlushEnds PROVE FALSE
    BY SMTT(30), Z3T(30)
  <2>2. output \in Seq(ResponseByte) /\ outputSent \in 0 .. Len(output)
    BY SMTT(30), Z3T(30) DEF IInv, TypeOK
  <2>3. /\ Drop(output, outputSent) \in Seq(ResponseByte)
        /\ Len(Drop(output, outputSent)) = Len(output) - outputSent
    BY <2>2, TakeDrop
  <2>4. output' = Drop(output, outputSent)
    BY Zenon, <1>1, <2>1 DEF FlushEnds, CompactOutput
  <2> QED
    BY SMTT(30), Z3T(30), <1>1, <2>2, <2>3, <2>4
<1>3. ~ RespondToRequest
  <2>1. SUFFICES ASSUME RespondToRequest PROVE FALSE
    OBVIOUS
  <2> DEFINE resp == ResponseTo(Current, requests + 1)
  <2>2. Current \in Requests
    BY Zenon, <2>1, CompleteRequest DEF RespondToRequest, MayRespond, IInv
  <2>3. resp \in ResponseType /\ output' = output \o Serialize(resp)
    BY Zenon, <1>1, <2>1, <2>2, ResponseTypes DEF RespondToRequest, QueueResponse
  <2>4. resp.status # "408"
    BY Zenon DEF ResponseTo, Response
  <2> HIDE DEF resp
  <2> QED
    BY SMTT(30), Z3T(30), <1>1, <2>3, <2>4, LastQueued
<1>4. ~ RespondToError
  <2>1. SUFFICES ASSUME RespondToError PROVE FALSE
    OBVIOUS
  <2> DEFINE resp == Refusal(requests + 1)
  <2>2. resp \in ResponseType /\ output' = output \o Serialize(resp)
    BY ZenonT(40), <1>1, <2>1, ResponseTypes DEF RespondToError, QueueResponse
  <2>3. resp.status # "408"
    BY DEF Refusal, Response
  <2> HIDE DEF resp
  <2> QED
    BY <1>1, <2>2, <2>3, LastQueued
<1>5. ~ Receive /\ ~ ReceiveNothing
  BY Zenon, <1>1
     DEF Receive, ReceiveNothing, RecvData, RecvFin, RecvFails, DiscardData, DiscardEnds,
              RecvNothing, DiscardNothing, outputVars
<1>6. ~ (Shutdown \/ Tick \/ ClientWorks \/ ClientResets \/ ResetErases \/ Finished)
  BY Zenon, <1>1 DEF Shutdown, Tick, ClientWorks, ClientSends, ClientHalfCloses, ClientReads,
              ClientResets, ResetErases, Finished, outputVars, serverVars, vars
<1>7. ~ (Poll \/ OnPollEvents \/ RespondNoMore \/ SendSome \/ SendFails \/ Settle)
  BY Zenon, <1>1 DEF Poll, OnPollEvents, RespondNoMore, SendSome, SendFails, Settle, outputVars
<1>8. ~ (BeforeDeadline \/ ConnectionTimesOut)
  BY <1>1, Zenon DEF BeforeDeadline, ConnectionTimesOut, outputVars
<1> QED
  BY SMTT(30), Z3T(30), <1>2, <1>3, <1>4, <1>5, <1>6, <1>7, <1>8 DEF Next, Proceed

\* on_deadline queues a 408 only when a request is partial, none is complete and
\* no response waits to be written.
THEOREM TimeoutsAreForPartialRequests == Spec => Timeout408OnlyForPartialRequest
<1>1. IInv /\ [Next]_vars =>
        [(Len(output') > Len(output) /\ Last(output').of.status = "408") =>
           NextResult = "Incomplete" /\ HasPartialRequest /\ PendingBytes = 0]_vars
  <2> SUFFICES ASSUME IInv, Next, Len(output') > Len(output), Last(output').of.status = "408"
               PROVE  NextResult = "Incomplete" /\ HasPartialRequest /\ PendingBytes = 0
    BY SMTT(30), Z3T(30)
  <2>1. pc = "deadline" /\ state = "Active" /\ PendingBytes = 0 /\ HasPartialRequest
    BY Zenon, OnlyTimeoutQueues408 DEF RequestTimesOut, Awaits408
  <2>2. Awaiting
    BY SMTT(30), Z3T(30), <2>1, ConstantTypes DEF IInv, ParserIsDone, MayRespond
  <2> QED
    BY SMTT(30), Z3T(30), <2>1, <2>2, AwaitingMeansIncomplete DEF IInv
<1> QED
  BY <1>1, Invariance, PTL DEF Spec, Timeout408OnlyForPartialRequest

-----------------------------------------------------------------------------
(* The refinement of Lifecycle: the state the handlers pass through *)

hvars == <<vars, seen, reported>>

Handling == pc \in {"recv", "respond", "flush", "settle", "discard", "deadline"}

\* What on_poll_events may have made of the connection so far.
Dispatched == IF reported THEN L!OnPollEvents(seen) ELSE {seen}

\* on_deadline has queued a 408 in this iteration.
After408 ==
  /\ LifeOf \in {L!Life("Closing", IdleTimeout), L!Drained}
  /\ pc \in {"respond", "flush", "settle", "deadline"}
  /\ \E d \in Dispatched : d.phase = "Active" /\ d.left <= 0

OnTheWay ==
  /\ reported \in BOOLEAN
  /\ pc \in {"poll", "woken", "done"} => seen = LifeOf
  /\ pc \in {"poll", "done"} => reported = FALSE
  /\ pc = "woken" => reported = (revents # {})
  /\ pc = "recv" => state = "Active"
  /\ Handling =>
       /\ seen.phase \in {"Active", "Closing", "Draining"}
       /\ \/ LifeOf \in Dispatched /\ (~ reported => pc = "deadline")
          \/ After408

-----------------------------------------------------------------------------
(* The abstract outcomes, case by case *)

\* LifeOf, phase by phase.
LEMMA LifeOfIs ==
  /\ LifeOf.phase = state
  /\ state \in {"Active", "Closing"} => LifeOf = L!Life(state, IdleTimeout - idle)
  /\ state = "Draining" => LifeOf = L!Life("Draining", LingerTimeout - linger)
  /\ state = "Closed" => LifeOf = L!Ended
<1>1. LifeOf.phase = state
  BY DEF LifeOf
<1>2. CASE state \in {"Active", "Closing"}
  BY <1>1, <1>2, Zenon DEF LifeOf, L!Life
<1>3. CASE state = "Draining"
  BY <1>1, <1>3, Zenon DEF LifeOf, L!Life
<1>4. CASE state = "Closed"
  BY <1>1, <1>4, Zenon DEF LifeOf, L!Life, L!Ended
<1> QED
  BY <1>1, <1>2, <1>3, <1>4

\* The same after a step.
LEMMA NewLifeOfIs ==
  /\ LifeOf'.phase = state'
  /\ state' \in {"Active", "Closing"} => LifeOf' = L!Life(state', IdleTimeout - idle')
  /\ state' = "Draining" => LifeOf' = L!Life("Draining", LingerTimeout - linger')
  /\ state' = "Closed" => LifeOf' = L!Ended
<1>1. LifeOf'.phase = state'
  BY DEF LifeOf
<1>2. CASE state' \in {"Active", "Closing"}
  BY <1>1, <1>2, Zenon DEF LifeOf, L!Life
<1>3. CASE state' = "Draining"
  BY <1>1, <1>3, Zenon DEF LifeOf, L!Life
<1>4. CASE state' = "Closed"
  BY <1>1, <1>4, ZenonT(40) DEF LifeOf, L!Life, L!Ended
<1> QED
  BY <1>1, <1>2, <1>3, <1>4

\* What OnPollEvents of Lifecycle allows, phase by phase.
LEMMA Outcomes ==
  ASSUME NEW l, l.phase \in {"Active", "Closing", "Draining"}
  PROVE  /\ L!Ended \in L!OnPollEvents(l)
         /\ l.phase # "Draining" => L!Drained \in L!OnPollEvents(l)
         /\ l.phase = "Active" =>
              /\ L!Life("Active", l.left) \in L!OnPollEvents(l)
              /\ L!Life("Active", IdleTimeout) \in L!OnPollEvents(l)
              /\ L!Life("Closing", l.left) \in L!OnPollEvents(l)
              /\ L!Life("Closing", IdleTimeout) \in L!OnPollEvents(l)
         /\ l.phase = "Closing" =>
              l \in L!OnPollEvents(l) /\ L!Life("Closing", IdleTimeout) \in L!OnPollEvents(l)
         /\ l.phase = "Draining" => l \in L!OnPollEvents(l)
<1>1. CASE l.phase = "Active"
  BY <1>1 DEF L!OnPollEvents
<1>2. CASE l.phase = "Closing"
  BY <1>2 DEF L!OnPollEvents
<1>3. CASE l.phase = "Draining"
  BY SMTT(30), Z3T(30), <1>3 DEF L!OnPollEvents
<1> QED
  BY Zenon, <1>1, <1>2, <1>3

\* And what it does not allow: a phase is not left for an earlier one.
LEMMA OutcomesAreLater ==
  ASSUME NEW l, l.phase \in {"Active", "Closing", "Draining"}, NEW e \in L!OnPollEvents(l)
  PROVE  /\ e.phase = "Active" => l.phase = "Active" /\ e.left \in {l.left, IdleTimeout}
         /\ e.phase = "Closing" => l.phase \in {"Active", "Closing"}
                                   /\ e.left \in {l.left, IdleTimeout}
<1>1. CASE l.phase = "Active"
  BY <1>1 DEF L!OnPollEvents, L!Life, L!Drained, L!Ended
<1>2. CASE l.phase = "Closing"
  BY <1>2 DEF L!OnPollEvents, L!Life, L!Drained, L!Ended
<1>3. CASE l.phase = "Draining"
  BY <1>3 DEF L!OnPollEvents, L!Life, L!Drained, L!Ended
<1> QED
  BY Zenon, <1>1, <1>2, <1>3

\* What an iteration may leave behind, by the steps it takes.
LEMMA HandledIs ==
  ASSUME NEW d \in Dispatched
  PROVE  /\ d.phase = "Closed" \/ ~ (d.left <= 0) => d \in L!Handled(seen, reported)
         /\ d.phase # "Closed" /\ d.left <= 0 => L!OnDeadline(d) \subseteq L!Handled(seen, reported)
  BY Zenon DEF Dispatched, L!Handled

-----------------------------------------------------------------------------
(* The history variables *)

\* What HistoryNext records, by where the step leads.
LEMMA Recorded ==
  ASSUME HistoryNext
  PROVE  /\ Next
         /\ pc' \in {"poll", "woken", "done"} => seen' = LifeOf'
         /\ pc' \notin {"poll", "woken", "done"} => seen' = seen /\ reported' = reported
         /\ pc' = "woken" => reported' = (revents' # {})
         /\ pc' \in {"poll", "done"} => reported' = FALSE
<1>1. CASE pc' = "woken"
  BY <1>1, Zenon DEF HistoryNext
<1>2. CASE pc' \in {"poll", "done"}
  BY <1>2, Zenon DEF HistoryNext
<1>3. CASE pc' \notin {"poll", "woken", "done"}
  BY <1>3, Zenon DEF HistoryNext
<1> QED
  BY Zenon, <1>1, <1>2, <1>3

\* The loop's view changes only with the phase and the timers.
LEMMA SameLife ==
  ASSUME UNCHANGED <<state, idle, linger>>
  PROVE  LifeOf' = LifeOf
  BY Zenon DEF LifeOf

\* A step within the handlers is a stutter.
LEMMA WithinHandler ==
  ASSUME OnTheWay, HistoryNext, Handling, Handling', pc' = "recv" => state' = "Active",
         \/ LifeOf' \in Dispatched /\ (~ reported => pc' = "deadline")
         \/ /\ LifeOf' \in {L!Life("Closing", IdleTimeout), L!Drained}
            /\ pc' \in {"respond", "flush", "settle", "deadline"}
            /\ \E d \in Dispatched : d.phase = "Active" /\ d.left <= 0
  PROVE  OnTheWay' /\ UNCHANGED L!vars
<1>1. seen' = seen /\ reported' = reported /\ pc' \notin {"poll", "woken", "done"}
  BY Recorded DEF Handling
<1>2. Dispatched' = Dispatched
  BY <1>1, Zenon DEF Dispatched
<1>3. reported \in BOOLEAN /\ seen.phase \in {"Active", "Closing", "Draining"}
  BY DEF OnTheWay
<1>4. (/\ seen.phase \in {"Active", "Closing", "Draining"}
       /\ \/ LifeOf \in Dispatched /\ (~ reported => pc = "deadline")
          \/ After408)'
  BY <1>1, <1>2, <1>3, Zenon DEF After408, L!Life, L!Drained
<1> QED
  BY <1>1, <1>3, <1>4, Zenon DEF OnTheWay, L!vars

\* An iteration that closes the connection.
LEMMA ClosesInHandler ==
  ASSUME OnTheWay, HistoryNext, Handling, pc' = "done", state' = "Closed",
         pc = "deadline" /\ LifeOf \in Dispatched => LifeOf.phase # "Closed" /\ LifeOf.left <= 0
  PROVE  OnTheWay' /\ L!Next
<1>1. seen' = L!Ended /\ reported' = FALSE /\ LifeOf' = L!Ended
  BY Recorded, NewLifeOfIs, Zenon
<1>2. seen.phase \in {"Active", "Closing", "Draining"} /\ reported \in BOOLEAN
  BY DEF OnTheWay
<1>3. L!Ended \in L!Handled(seen, reported)
  <2>1. CASE After408
    <3>1. PICK d \in Dispatched : d.phase = "Active" /\ d.left <= 0
      BY <2>1 DEF After408
    <3>2. L!Ended \in L!OnDeadline(d)
      BY Zenon DEF L!OnDeadline
    <3> QED
      BY <3>1, <3>2, HandledIs
  <2>2. CASE reported
    <3>0. L!Ended \in L!OnPollEvents(seen)
      BY <1>2, Outcomes
    <3>1. L!Ended \in Dispatched
      BY <2>2, <3>0, Zenon DEF Dispatched
    <3>2. L!Ended.phase = "Closed"
      BY DEF L!Ended, L!Life
    <3> QED
      BY SMTT(30), Z3T(30), <3>1, <3>2, HandledIs
  <2>3. CASE ~ After408 /\ ~ reported
    <3>1. LifeOf \in Dispatched /\ pc = "deadline"
      BY <2>3 DEF OnTheWay
    <3>2. L!Ended \in L!OnDeadline(LifeOf)
      BY Zenon DEF L!OnDeadline
    <3> QED
      BY <3>1, <3>2, HandledIs
  <2> QED
    BY SMTT(30), Z3T(30), <2>1, <2>2, <2>3
<1>4. L!Handle
  BY <1>1, <1>2, <1>3 DEF L!Handle
<1>5. OnTheWay'
  BY <1>1, Zenon DEF OnTheWay, Handling
<1> QED
  BY <1>4, <1>5 DEF L!Next

\* A step that leaves the server, the phase and the timers alone.
LEMMA ElsewhereIsStutter ==
  ASSUME OnTheWay, HistoryNext, UNCHANGED <<pc, revents, state, idle, linger>>,
         pc \in {"poll", "woken", "done"} \/ Handling
  PROVE  OnTheWay' /\ UNCHANGED L!vars
<1>1. LifeOf' = LifeOf
  BY SameLife
<1>2. CASE pc \in {"poll", "woken", "done"}
  <2>1. seen' = seen /\ reported' = reported
    BY <1>1, <1>2, Recorded, Zenon DEF OnTheWay
  <2> QED
    BY <1>1, <1>2, <2>1, Zenon DEF OnTheWay, Handling, L!vars
<1>3. CASE Handling
  <2>1. Handling' /\ (pc' = "recv" => state' = "Active")
    BY <1>3 DEF Handling, OnTheWay
  <2>2. \/ LifeOf' \in Dispatched /\ (~ reported => pc' = "deadline")
        \/ /\ LifeOf' \in {L!Life("Closing", IdleTimeout), L!Drained}
           /\ pc' \in {"respond", "flush", "settle", "deadline"}
           /\ \E d \in Dispatched : d.phase = "Active" /\ d.left <= 0
    BY <1>1, <1>3, Zenon DEF OnTheWay, After408
  <2> QED
    BY SMTT(30), Z3T(30), <1>3, <2>1, <2>2, WithinHandler
<1> QED
  BY <1>2, <1>3

-----------------------------------------------------------------------------
(* Every step of Connection is a step of Lifecycle or a stutter *)

\* Time left is what the timers leave.
LEMMA TimeLeft ==
  ASSUME IInv, state # "Closed"
  PROVE  /\ LifeOf.phase = state
         /\ LifeOf.left = IF state = "Draining" THEN LingerTimeout - linger ELSE IdleTimeout - idle
         /\ LifeOf.left \in Nat
         /\ DeadlinePassed <=> LifeOf.left <= 0
<1>1. /\ idle \in 0 .. IdleTimeout /\ linger \in 0 .. LingerTimeout
      /\ state \in {"Active", "Closing", "Draining"}
  BY DEF IInv, TypeOK
<1>2. LifeOf.left = IF state = "Draining" THEN LingerTimeout - linger ELSE IdleTimeout - idle
  BY <1>1, LifeOfIs DEF L!Life
<1> QED
  BY SMTT(30), Z3T(30), <1>1, <1>2, LifeOfIs, ConstantTypes DEF DeadlinePassed

\* While there are events to handle, the connection has not been dispatched
\* beyond its phase: this is what a renewed deadline may be.
LEMMA Renews ==
  ASSUME IInv, OnTheWay, Handling, state \in {"Active", "Closing"}, LifeOf \in Dispatched, reported
  PROVE  /\ L!Life(state, IdleTimeout) \in Dispatched
         /\ L!Life("Closing", IdleTimeout) \in Dispatched
         /\ L!Life("Closing", LifeOf.left) \in Dispatched
         /\ L!Drained \in Dispatched
<1>1. seen.phase \in {"Active", "Closing", "Draining"}
  BY DEF OnTheWay
<1>2. LifeOf \in L!OnPollEvents(seen) /\ Dispatched = L!OnPollEvents(seen)
  BY Zenon DEF Dispatched
<1>3. LifeOf.phase = state
  BY SMTT(30), Z3T(30), LifeOfIs
<1>4. /\ state = "Active" => seen.phase = "Active"
      /\ seen.phase \in {"Active", "Closing"}
      /\ LifeOf.left \in {seen.left, IdleTimeout}
  <2>1. /\ LifeOf.phase = "Active" => seen.phase = "Active"
                                       /\ LifeOf.left \in {seen.left, IdleTimeout}
        /\ LifeOf.phase = "Closing" => seen.phase \in {"Active", "Closing"}
                                       /\ LifeOf.left \in {seen.left, IdleTimeout}
    BY SMTT(30), Z3T(30), <1>1, <1>2, OutcomesAreLater
  <2> QED
    BY ZenonT(40), <1>3, <2>1
<1>5. state = "Closing" => LifeOf = L!Life("Closing", LifeOf.left)
  BY SMTT(30), Z3T(30), LifeOfIs DEF L!Life
<1>6. /\ L!Drained \in L!OnPollEvents(seen)
      /\ L!Life("Closing", IdleTimeout) \in L!OnPollEvents(seen)
      /\ seen.phase = "Active" => /\ L!Life("Active", IdleTimeout) \in L!OnPollEvents(seen)
                                  /\ L!Life("Closing", seen.left) \in L!OnPollEvents(seen)
  BY <1>1, <1>4, Outcomes
<1>7. L!Life("Closing", LifeOf.left) \in L!OnPollEvents(seen)
  BY <1>2, <1>4, <1>5, <1>6, Zenon
<1> QED
  BY <1>2, <1>4, <1>6, <1>7, Zenon

\* recv() and discarding: in the middle of on_poll_events.
LEMMA ReceivesIsStep ==
  ASSUME IInv, OnTheWay, HistoryNext, Receive \/ ReceiveNothing
  PROVE  OnTheWay' /\ [L!Next]_L!vars
<1> USE DEF parserVars, outputVars, lifeVars, timers, clientVars, serverVars
<1>1. pc \in {"recv", "discard"} /\ Handling
  BY Zenon DEF Receive, ReceiveNothing, RecvData, RecvFin, RecvFails, DiscardData, DiscardEnds,
         RecvNothing, DiscardNothing, Handling
<1>2. LifeOf \in Dispatched /\ reported
  BY <1>1 DEF OnTheWay, After408
<1>3. CASE RecvData \/ RecvFin
  <2>1. /\ state = "Active" /\ state' = "Active" /\ idle' = 0 /\ pc' = "respond"
    BY <1>1, <1>3 DEF RecvData, RecvFin, OnTheWay
  <2>2. LifeOf' = L!Life(state, IdleTimeout)
    <3>1. IdleTimeout - idle' = IdleTimeout
      BY <2>1, ConstantTypes
    <3> QED
      BY <2>1, <3>1, NewLifeOfIs
  <2>3. LifeOf' \in Dispatched
    BY SMTT(30), Z3T(30), <1>1, <1>2, <2>1, <2>2, Renews
  <2> QED
    BY SMTT(30), Z3T(30), <1>1, <1>2, <2>1, <2>3, WithinHandler DEF Handling
<1>4. CASE RecvNothing \/ DiscardNothing \/ (DiscardData /\ pc' = "deadline")
  <2>1. UNCHANGED <<state, idle, linger>> /\ pc' \in {"respond", "deadline"}
    BY Zenon, <1>4 DEF RecvNothing, DiscardNothing, DiscardData
  <2>2. LifeOf' \in Dispatched
    BY <1>2, <2>1, SameLife
  <2> QED
    BY SMTT(30), Z3T(30), <1>1, <1>2, <2>1, <2>2, WithinHandler DEF Handling
<1>5. CASE RecvFails \/ DiscardEnds \/ (DiscardData /\ pc' # "deadline")
  <2>1. pc' = "done" /\ state' = "Closed"
    BY Zenon, <1>5 DEF RecvFails, DiscardEnds, DiscardData, CloseNow
  <2> QED
    BY SMTT(30), Z3T(30), <1>1, <2>1, ClosesInHandler
<1> QED
  BY SMTT(30), Z3T(30), <1>3, <1>4, <1>5 DEF Receive, ReceiveNothing

\* Responding and flushing: the idle deadline is renewed by what is sent.
LEMMA AdvanceIsStep ==
  ASSUME IInv, OnTheWay, HistoryNext,
         RespondToRequest \/ RespondToError \/ RespondNoMore \/ SendSome \/ FlushEnds \/ SendFails
  PROVE  OnTheWay' /\ [L!Next]_L!vars
<1> USE DEF parserVars, outputVars, lifeVars, timers, clientVars, serverVars
<1>1. pc \in {"respond", "flush"} /\ Handling
  BY Zenon
     DEF RespondToRequest, RespondToError, RespondNoMore, SendSome, FlushEnds, SendFails, Handling
<1>2. (LifeOf \in Dispatched /\ reported) \/ After408
  BY <1>1 DEF OnTheWay
<1>3. CASE SendFails
  <2>1. pc' = "done" /\ state' = "Closed"
    BY Zenon, <1>3 DEF SendFails, CloseNow
  <2> QED
    BY SMTT(30), Z3T(30), <1>1, <2>1, ClosesInHandler
<1>4. CASE RespondNoMore \/ FlushEnds
  <2>1. UNCHANGED <<state, idle, linger>> /\ pc' \in {"respond", "flush", "settle"}
    BY <1>4 DEF RespondNoMore, FlushEnds, AfterFlush
  <2>2. LifeOf' = LifeOf
    BY <2>1, SameLife
  <2> QED
    BY SMTT(30), Z3T(30), <1>1, <1>2, <2>1, <2>2, WithinHandler DEF Handling, After408
<1>5. CASE RespondToRequest \/ RespondToError
  <2>1. /\ state = "Active" /\ UNCHANGED <<idle, linger>> /\ pc' \in {"respond", "flush"}
        /\ state' \in {"Active", "Closing"}
    BY Zenon, <1>5 DEF RespondToRequest, RespondToError, MayRespond, QueueResponse
  <2>2. LifeOf.phase = "Active" /\ LifeOf = L!Life("Active", LifeOf.left)
    BY <2>1, LifeOfIs DEF L!Life
  <2>3. LifeOf \in Dispatched /\ reported
    BY SMTT(30), Z3T(30), <1>2, <2>2 DEF After408, L!Life, L!Drained
  <2>4. LifeOf' = L!Life(state', LifeOf.left)
    BY <2>1, LifeOfIs, NewLifeOfIs DEF L!Life
  <2>5. LifeOf' \in Dispatched
    <3>1. L!Life("Closing", LifeOf.left) \in Dispatched
      BY <1>1, <2>1, <2>3, Renews
    <3> QED
      BY <2>1, <2>2, <2>3, <2>4, <3>1, Zenon
  <2> QED
    BY SMTT(30), Z3T(30), <1>1, <2>1, <2>3, <2>5, WithinHandler DEF Handling
<1>6. CASE SendSome
  <2>1. /\ state \in {"Active", "Closing"} /\ state' = state /\ idle' = 0 /\ pc' = "flush"
    <3>1. /\ state' = state /\ idle' = 0 /\ pc = "flush" /\ pc' = "flush" /\ PendingBytes > 0
      BY Zenon, <1>6 DEF SendSome
    <3>2. state # "Draining"
      BY <3>1 DEF IInv, PhaseAndStep
    <3>3. state # "Closed"
      BY Zenon, <3>1 DEF IInv, PhaseAndStep
    <3> QED
      BY Zenon, <3>1, <3>2, <3>3 DEF IInv, TypeOK
  <2>2. LifeOf' = L!Life(state, IdleTimeout)
    <3>1. IdleTimeout - idle' = IdleTimeout
      BY <2>1, ConstantTypes
    <3> QED
      BY <2>1, <3>1, NewLifeOfIs
  <2>3. CASE LifeOf \in Dispatched /\ reported
    <3>1. LifeOf' \in Dispatched
      BY SMTT(30), Z3T(30), <1>1, <2>1, <2>2, <2>3, Renews
    <3> QED
      BY <1>1, <2>1, <2>3, <3>1, WithinHandler DEF Handling
  <2>4. CASE After408
    <3>1. LifeOf' = L!Life("Closing", IdleTimeout)
      BY SMTT(30), Z3T(30), <2>1, <2>2, <2>4, LifeOfIs DEF After408, L!Life, L!Drained
    <3> QED
      BY SMTT(30), Z3T(30), <1>1, <2>1, <2>4, <3>1, WithinHandler DEF Handling, After408
  <2> QED
    BY SMTT(30), Z3T(30), <1>2, <2>3, <2>4
<1> QED
  BY SMTT(30), Z3T(30), <1>3, <1>4, <1>5, <1>6

\* The lifecycle checks: the lingering close starts its own deadline.
LEMMA SettleIsStep ==
  ASSUME IInv, OnTheWay, HistoryNext, Settle
  PROVE  OnTheWay' /\ [L!Next]_L!vars
<1> USE DEF parserVars, outputVars, lifeVars, timers, clientVars, serverVars
<1>1. pc = "settle" /\ Handling
  BY Zenon DEF Settle, Handling
<1>2. (LifeOf \in Dispatched /\ reported) \/ After408
  BY <1>1 DEF OnTheWay
<1>3. CASE pc' = "done"
  <2>1. state' = "Closed"
    BY Zenon, <1>1, <1>3 DEF Settle, CloseNow
  <2> QED
    BY SMTT(30), Z3T(30), <1>1, <1>3, <2>1, ClosesInHandler
<1>4. CASE pc' # "done" /\ state' = state
  <2>1. UNCHANGED <<state, idle, linger>> /\ pc' = "deadline"
    BY Zenon, <1>4 DEF Settle, CloseNow
  <2>2. LifeOf' = LifeOf
    BY <2>1, SameLife
  <2> QED
    BY SMTT(30), Z3T(30), <1>1, <1>2, <2>1, <2>2, WithinHandler DEF Handling, After408
<1>5. CASE pc' # "done" /\ state' # state
  <2>1. state = "Closing" /\ state' = "Draining" /\ linger' = 0 /\ pc' = "deadline"
    BY Zenon, <1>5 DEF Settle, CloseNow
  <2>2. LifeOf' = L!Drained
    <3>1. LingerTimeout - linger' = LingerTimeout
      BY <2>1, ConstantTypes
    <3> QED
      BY SMTT(30), Z3T(30), <2>1, <3>1, NewLifeOfIs DEF L!Drained
  <2>3. CASE LifeOf \in Dispatched /\ reported
    <3>1. LifeOf' \in Dispatched
      BY SMTT(30), Z3T(30), <1>1, <2>1, <2>2, <2>3, Renews
    <3> QED
      BY SMTT(30), Z3T(30), <1>1, <2>1, <2>3, <3>1, WithinHandler DEF Handling
  <2>4. CASE After408
    BY SMTT(30), Z3T(30), <1>1, <2>1, <2>2, <2>4, WithinHandler DEF Handling, After408
  <2> QED
    BY SMTT(30), Z3T(30), <1>2, <2>3, <2>4
<1> QED
  BY SMTT(30), Z3T(30), <1>3, <1>4, <1>5

\* on_deadline, or none due: the end of an iteration.
LEMMA DeadlineIsStep ==
  ASSUME IInv, OnTheWay, HistoryNext, BeforeDeadline \/ RequestTimesOut \/ ConnectionTimesOut
  PROVE  OnTheWay' /\ [L!Next]_L!vars
<1> USE DEF parserVars, outputVars, lifeVars, timers, clientVars, serverVars
<1>1. pc = "deadline" /\ Handling /\ state # "Closed"
  BY Zenon DEF BeforeDeadline, RequestTimesOut, ConnectionTimesOut, Handling, IInv, PhaseAndStep
<1>2. LifeOf \in Dispatched \/ After408
  BY <1>1 DEF OnTheWay
<1>3. LifeOf.phase = state /\ (DeadlinePassed <=> LifeOf.left <= 0)
  BY <1>1, TimeLeft
<1>4. seen.phase \in {"Active", "Closing", "Draining"}
  BY <1>1 DEF OnTheWay
<1>5. CASE BeforeDeadline
  <2>1. pc' = "poll" /\ UNCHANGED <<state, idle, linger>> /\ ~ DeadlinePassed
    BY <1>5 DEF BeforeDeadline
  <2>2. seen' = LifeOf /\ reported' = FALSE /\ LifeOf' = LifeOf
    BY <2>1, Recorded, SameLife, Zenon
  <2>3. LifeOf \in L!Handled(seen, reported)
    <3>1. CASE LifeOf \in Dispatched
      BY SMTT(30), Z3T(30), <1>3, <2>1, <3>1, HandledIs
    <3>2. CASE After408
      <4>1. PICK d \in Dispatched : d.phase = "Active" /\ d.left <= 0
        BY SMTT(30), Z3T(30), <3>2 DEF After408
      <4>2. LifeOf \in L!OnDeadline(d)
        BY <3>2, <4>1 DEF After408, L!OnDeadline
      <4> QED
        BY <4>1, <4>2, HandledIs
    <3> QED
      BY SMTT(30), Z3T(30), <1>2, <3>1, <3>2
  <2>4. L!Handle
    BY <1>4, <2>2, <2>3 DEF L!Handle
  <2>5. OnTheWay'
    BY <2>1, <2>2, Zenon DEF OnTheWay, Handling
  <2> QED
    BY SMTT(30), Z3T(30), <2>4, <2>5 DEF L!Next
<1>6. CASE RequestTimesOut
  <2>1. /\ state = "Active" /\ state' = "Closing" /\ idle' = 0 /\ pc' = "respond"
        /\ DeadlinePassed
    BY <1>6 DEF RequestTimesOut, Awaits408, QueueResponse, Timeout408, Response
  <2>2. LifeOf' = L!Life("Closing", IdleTimeout)
    <3>1. IdleTimeout - idle' = IdleTimeout
      BY SMTT(30), Z3T(30), <2>1, ConstantTypes
    <3> QED
      BY SMTT(30), Z3T(30), <2>1, <3>1, NewLifeOfIs
  <2>3. ~ After408
    <3>1. L!Life("Closing", IdleTimeout).phase = "Closing" /\ L!Drained.phase = "Draining"
      BY DEF L!Life, L!Drained
    <3>2. LifeOf.phase = "Active"
      BY <1>3, <2>1
    <3> HIDE DEF L!Life, L!Drained, LifeOf
    <3> QED
      BY Zenon, <3>1, <3>2 DEF After408
  <2>4. LifeOf \in Dispatched /\ LifeOf.phase = "Active" /\ LifeOf.left <= 0
    BY SMTT(30), Z3T(30), <1>2, <1>3, <2>1, <2>3
  <2> QED
    BY SMTT(30), Z3T(30), <1>1, <2>1, <2>2, <2>4, WithinHandler DEF Handling
<1>7. CASE ConnectionTimesOut
  <2>1. pc' = "done" /\ state' = "Closed" /\ DeadlinePassed
    BY <1>7, Zenon DEF ConnectionTimesOut, CloseNow
  <2>2. LifeOf.phase # "Closed" /\ LifeOf.left <= 0
    BY <1>1, <1>3, <2>1
  <2> QED
    BY <1>1, <2>1, <2>2, ClosesInHandler
<1> QED
  BY <1>5, <1>6, <1>7

\* poll(), the start of an iteration, and the server's stop.
LEMMA PollIsStep ==
  ASSUME IInv, OnTheWay, HistoryNext, Poll \/ OnPollEvents \/ Shutdown
  PROVE  OnTheWay' /\ [L!Next]_L!vars
<1> USE DEF parserVars, outputVars, lifeVars, timers, clientVars, serverVars
<1>1. pc \in {"poll", "woken"} /\ state # "Closed" /\ seen = LifeOf /\ seen.phase = state
  BY Zenon, LifeOfIs DEF Poll, OnPollEvents, Shutdown, IInv, PhaseAndStep, OnTheWay
<1>2. CASE Poll
  <2>1. pc' = "woken" /\ UNCHANGED <<state, idle, linger>>
    BY <1>2 DEF Poll
  <2>2. seen' = seen /\ LifeOf' = LifeOf /\ reported' = (revents' # {})
    BY <1>1, <2>1, Recorded, SameLife, Zenon
  <2>3. L!PollReturns
    BY <1>1, <2>2, Zenon DEF L!PollReturns
  <2>4. OnTheWay'
    BY <1>1, <2>1, <2>2, Zenon DEF OnTheWay, Handling
  <2> QED
    BY SMTT(30), Z3T(30), <2>3, <2>4 DEF L!Next
<1>3. CASE Shutdown
  <2>1. pc' = "done" /\ state' = "Closed"
    BY <1>3 DEF Shutdown, CloseNow
  <2>2. seen' = L!Ended /\ reported' = FALSE /\ LifeOf' = L!Ended
    BY <2>1, Recorded, NewLifeOfIs, Zenon
  <2>3. L!Close
    BY <2>2 DEF L!Close
  <2>4. OnTheWay'
    BY <2>1, <2>2, Zenon DEF OnTheWay, Handling
  <2> QED
    BY SMTT(30), Z3T(30), <2>3, <2>4 DEF L!Next
<1>4. CASE OnPollEvents /\ pc' = "done"
  <2>1. state' = "Closed" /\ revents # {} /\ pc = "woken"
    BY Zenon, <1>4 DEF OnPollEvents, CloseNow
  <2>2. seen' = L!Ended /\ reported' = FALSE /\ LifeOf' = L!Ended
    BY <1>4, <2>1, Recorded, NewLifeOfIs, Zenon
  <2>3. reported = TRUE
    BY <2>1, Zenon DEF OnTheWay
  <2>4. L!Ended \in L!OnPollEvents(seen)
    BY <1>1, Outcomes DEF IInv, TypeOK
  <2>5. L!Ended \in Dispatched /\ L!Ended.phase = "Closed"
    <3>1. L!Ended.phase = "Closed"
      BY SMTT(30), Z3T(30) DEF L!Ended, L!Life
    <3> QED
      BY <2>3, <2>4, <3>1, Zenon DEF Dispatched
  <2>6. L!Handle
    BY <1>1, <2>2, <2>5, HandledIs DEF L!Handle
  <2>7. OnTheWay'
    BY <1>4, <2>2, Zenon DEF OnTheWay, Handling
  <2> QED
    BY <2>6, <2>7 DEF L!Next
<1>5. CASE OnPollEvents /\ pc' # "done"
  <2>1. /\ pc = "woken" /\ UNCHANGED <<state, idle, linger>>
        /\ pc' \in {"deadline", "discard", "recv", "respond"}
        /\ pc' = "recv" => state = "Active"
        /\ revents = {} => pc' = "deadline"
    BY Zenon, <1>5 DEF OnPollEvents, CloseNow, WantsToRead
  <2>2. seen' = seen /\ reported' = reported /\ LifeOf' = LifeOf
    BY SMTT(30), Z3T(30), <2>1, Recorded, SameLife
  <2>3. reported \in BOOLEAN /\ reported = (revents # {})
    BY SMTT(30), Z3T(30), <2>1 DEF OnTheWay
  <2>4. seen.phase \in {"Active", "Closing", "Draining"}
    BY <1>1 DEF IInv, TypeOK
  <2>5. seen \in L!OnPollEvents(seen)
    <3>1. CASE state = "Active"
      <4>1. seen = L!Life("Active", seen.left)
        BY SMTT(30), Z3T(30), <1>1, <3>1, LifeOfIs DEF L!Life
      <4>2. L!Life("Active", seen.left) \in L!OnPollEvents(seen)
        BY SMTT(30), Z3T(30), <1>1, <3>1, Outcomes
      <4> QED
        BY <4>1, <4>2, Zenon
    <3>2. CASE state # "Active"
      BY <1>1, <2>4, <3>2, Outcomes
    <3> QED
      BY <3>1, <3>2
  <2>6. LifeOf \in Dispatched
    BY <1>1, <2>5, Zenon DEF Dispatched
  <2>7. Dispatched' = Dispatched
    BY <2>2, Zenon DEF Dispatched
  <2>8. LifeOf' \in Dispatched' /\ (~ reported' => pc' = "deadline")
    BY <2>1, <2>2, <2>3, <2>6, <2>7, Zenon
  <2>9. OnTheWay'
    BY <2>1, <2>2, <2>3, <2>4, <2>8, Zenon DEF OnTheWay
  <2> QED
    BY SMTT(30), Z3T(30), <2>2, <2>9 DEF L!vars
<1> QED
  BY SMTT(30), Z3T(30), <1>2, <1>3, <1>4, <1>5

\* Time passes while the loop waits, and only then.
LEMMA TickIsStep ==
  ASSUME IInv, OnTheWay, HistoryNext, Tick
  PROVE  OnTheWay' /\ [L!Next]_L!vars
<1>1. /\ pc \in {"poll", "woken"} /\ UNCHANGED <<pc, revents, state>>
      /\ idle' = Smaller(idle + 1, IdleTimeout)
      /\ linger' = IF state = "Draining" THEN Smaller(linger + 1, LingerTimeout) ELSE linger
  BY SMTT(30), Z3T(30) DEF Tick, serverVars, lifeVars
<1>2. state # "Closed" /\ seen = LifeOf /\ seen.phase = state
  BY SMTT(30), Z3T(30), <1>1, LifeOfIs DEF IInv, PhaseAndStep, OnTheWay
<1>3. /\ idle \in 0 .. IdleTimeout /\ linger \in 0 .. LingerTimeout
      /\ state \in {"Active", "Closing", "Draining"}
  BY SMTT(30), Z3T(30), <1>2 DEF IInv, TypeOK
<1>4. /\ IdleTimeout - idle' \in 0 .. IdleTimeout - idle
      /\ state = "Draining" => LingerTimeout - linger' \in 0 .. LingerTimeout - linger
  BY <1>1, <1>3, ConstantTypes DEF Smaller
<1>5. seen' = LifeOf' /\ reported' = reported
  BY <1>1, Recorded, Zenon DEF OnTheWay
<1>6. \E t \in 0 .. seen.left : LifeOf' = [seen EXCEPT !.left = t]
  <2>1. CASE state = "Draining"
    <3>1. seen = [phase |-> "Draining", left |-> LingerTimeout - linger]
      BY SMTT(30), Z3T(30), <1>2, <2>1, LifeOfIs DEF L!Life
    <3>2. LifeOf' = [phase |-> "Draining", left |-> LingerTimeout - linger']
      BY <1>1, <2>1, NewLifeOfIs DEF L!Life
    <3> QED
      BY SMTT(30), Z3T(30), <1>4, <2>1, <3>1, <3>2
  <2>2. CASE state \in {"Active", "Closing"}
    <3>1. seen = [phase |-> state, left |-> IdleTimeout - idle]
      BY SMTT(30), Z3T(30), <1>2, <2>2, LifeOfIs DEF L!Life
    <3>2. LifeOf' = [phase |-> state, left |-> IdleTimeout - idle']
      BY <1>1, <2>2, NewLifeOfIs DEF L!Life
    <3> QED
      BY SMTT(30), Z3T(30), <1>4, <3>1, <3>2
  <2> QED
    BY <1>3, <2>1, <2>2
<1>7. L!Elapse
  BY <1>2, <1>5, <1>6, Zenon DEF L!Elapse
<1>8. OnTheWay'
  BY <1>1, <1>5, Zenon DEF OnTheWay, Handling
<1> QED
  BY SMTT(30), Z3T(30), <1>7, <1>8 DEF L!Next

\* Every step.
LEMMA EveryStepRefines ==
  IInv /\ OnTheWay /\ [HistoryNext]_hvars => OnTheWay' /\ [L!Next]_L!vars
<1> SUFFICES ASSUME IInv, OnTheWay, [HistoryNext]_hvars PROVE OnTheWay' /\ [L!Next]_L!vars
  OBVIOUS
<1>1. CASE UNCHANGED hvars
  <2>1. UNCHANGED <<pc, revents, state, idle, linger, seen, reported>>
    BY <1>1 DEF hvars, vars
  <2>2. LifeOf' = LifeOf
    BY <2>1, SameLife
  <2>3. Dispatched' = Dispatched
    BY <2>1, Zenon DEF Dispatched
  <2> QED
    BY <2>1, <2>2, <2>3, ZenonT(40) DEF OnTheWay, Handling, After408, L!vars
<1>2. CASE HistoryNext
  <2>1. Next
    BY <1>2, Recorded
  <2>2. CASE ClientWorks \/ ClientResets \/ ResetErases \/ Finished
    <3>1. UNCHANGED <<pc, revents, state, idle, linger>>
      BY Zenon, <2>2 DEF ClientWorks, ClientSends, ClientHalfCloses, ClientReads, ClientResets,
                  ResetErases, Finished, serverVars, lifeVars, timers, vars
    <3>2. pc \in {"poll", "woken", "done"} \/ Handling
      BY DEF IInv, TypeOK, Handling
    <3> QED
      BY SMTT(30), Z3T(30), <1>2, <3>1, <3>2, ElsewhereIsStutter
  <2> QED
    BY SMTT(30), Z3T(30), <1>2, <2>1, <2>2, ReceivesIsStep, AdvanceIsStep, SettleIsStep,
       DeadlineIsStep,
       PollIsStep, TickIsStep DEF Next, Proceed
<1> QED
  BY <1>1, <1>2

\* The initial states map to initial states.
LEMMA InitRefines == HistoryInit => OnTheWay /\ L!Init
<1> SUFFICES ASSUME HistoryInit PROVE OnTheWay /\ L!Init
  OBVIOUS
<1>1. pc = "poll" /\ seen = LifeOf /\ reported = FALSE /\ state = "Active" /\ idle = 0
  BY DEF HistoryInit, Init
<1>2. LifeOf = L!Fresh
  <2>1. IdleTimeout - idle = IdleTimeout
    BY <1>1, ConstantTypes
  <2> QED
    BY SMTT(30), Z3T(30), <1>1, <2>1, LifeOfIs DEF L!Fresh
<1> QED
  BY <1>1, <1>2, Zenon DEF OnTheWay, Handling, L!Init

\* Whatever happens between the system calls of a handler, Connection is to the
\* event loop what Lifecycle says, on which Server is built.
THEOREM ConnectionImplementsLifecycle == HistorySpec => ImplementsLifecycle
<1>1. HistoryInit => IInv /\ OnTheWay /\ L!Init
  BY InitEstablishesIInv, InitRefines DEF HistoryInit
<1>2. IInv /\ OnTheWay /\ [HistoryNext]_hvars => IInv' /\ OnTheWay' /\ [L!Next]_L!vars
  <2>1. [HistoryNext]_hvars => [Next]_vars
    BY Zenon DEF HistoryNext, hvars
  <2> QED
    BY <2>1, StepKeepsIInv, EveryStepRefines
<1> QED
  BY <1>1, <1>2, PTL DEF HistorySpec, ImplementsLifecycle, L!Spec, hvars

=============================================================================
