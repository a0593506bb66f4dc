--------------------------- MODULE RequestParser ---------------------------
(***************************************************************************)
(* class RequestParser (include/calc/request_parser.hpp and                *)
(* src/request_parser.cpp): the incremental parser that turns the bytes of *)
(* one connection back into requests.  feed() and next() are the actions;  *)
(* the bytes come from a stream chosen in Init, in chunks of any size, and *)
(* next() may be called any number of times between two chunks.            *)
(***************************************************************************)
EXTENDS RequestHead

CONSTANT Streams  \* the byte streams a client may send

ASSUME StreamsAssumption == Streams \subseteq Seq(Byte)

VARIABLES
  stream,        \* every byte the client will ever send
  fed,           \* how many of them have been passed to feed()
  buffer,        \* buffer_
  start,         \* start_: the first unconsumed byte in buffer
  scanFrom,      \* scan_from_: where the search for the blank line resumes
  streamOffset,  \* stream_offset_: stream position of buffer[start]
  state,         \* state_
  pending,       \* pending_: the request whose body is awaited
  bodyLength,    \* body_length_
  error,         \* error_
  out,           \* the requests next() has returned
  result         \* the last value next() returned

vars == <<stream, fed, buffer, start, scanFrom, streamOffset, state, pending,
          bodyLength, error, out, result>>

F == INSTANCE Framing

Larger(a, b) == IF a >= b THEN a ELSE b

BufferedBytes == Len(buffer) - start

HasPartialRequest == state = "Body" \/ BufferedBytes > 0

NoRequest == [begin |-> 0, headBytes |-> 0]

Init ==
  /\ stream \in Streams
  /\ fed = 0
  /\ buffer = <<>>
  /\ start = 0
  /\ scanFrom = 0
  /\ streamOffset = 0
  /\ state = "Head"
  /\ pending = NoRequest
  /\ bodyLength = 0
  /\ error = NoError
  /\ out = <<>>
  /\ result = F!Incomplete

-----------------------------------------------------------------------------
(* feed(bytes) *)

\* Mutant: the prefix is dropped only when nothing else is left.
CompactsOnlyWhenEmpty == start = Len(buffer)

\* The consumed prefix is dropped only when it is at least half the buffer.
Compacts == start = Len(buffer) \/ (start > 0 /\ start >= Len(buffer) \div 2)

\* Mutant: compaction forgets scan_from_ -= start_.
FeedBufferKeepingScan(bytes) ==
  /\ buffer' = IF Compacts THEN SubSeq(buffer, start + 1, Len(buffer)) \o bytes
                          ELSE buffer \o bytes
  /\ start' = IF Compacts THEN 0 ELSE start
  /\ scanFrom' = IF start = Len(buffer) THEN 0 ELSE scanFrom

\* Mutant: erase() takes one byte too many.
FeedBufferDroppingByte(bytes) ==
  IF Compacts
  THEN /\ buffer' = SubSeq(buffer, start + 2, Len(buffer)) \o bytes
       /\ scanFrom' = 0
       /\ start' = 0
  ELSE /\ buffer' = buffer \o bytes
       /\ UNCHANGED <<scanFrom, start>>

FeedBuffer(bytes) ==
  IF Compacts
  THEN /\ buffer' = SubSeq(buffer, start + 1, Len(buffer)) \o bytes
       /\ scanFrom' = IF start = Len(buffer) THEN 0 ELSE scanFrom - start
       /\ start' = 0
  ELSE /\ buffer' = buffer \o bytes
       /\ UNCHANGED <<scanFrom, start>>

\* Connection never asks recv() for more bytes than leave max_request_bytes
\* buffered (Connection::read_from_socket).
HasRoomFor(n) == BufferedBytes + n <= MaxRequestBytes

Feed(n) ==
  /\ HasRoomFor(n)
  /\ fed' = fed + n
  /\ IF state = "Failed"
     THEN UNCHANGED <<buffer, start, scanFrom>>
     ELSE FeedBuffer(SubSeq(stream, fed + 1, fed + n))
  /\ UNCHANGED <<stream, streamOffset, state, pending, bodyLength, error, out, result>>

-----------------------------------------------------------------------------
(* next() *)

\* Mutant: consume() leaves scan_from_ behind.
ConsumeToKeepingScan(to) ==
  /\ start' = to
  /\ streamOffset' = streamOffset + (to - start)
  /\ scanFrom' = scanFrom

\* consume() up to offset `to` of the buffer
ConsumeTo(to) ==
  /\ start' = to
  /\ streamOffset' = streamOffset + (to - start)
  /\ scanFrom' = Larger(scanFrom, to)

\* fail(), after the bytes before offset `skipped` of the buffer were consumed
Fail(status, skipped) ==
  /\ state' = "Failed"
  /\ error' = status
  /\ buffer' = <<>>
  /\ start' = 0
  /\ scanFrom' = 0
  /\ streamOffset' = streamOffset + (skipped - start)
  /\ result' = F!Error(status)
  /\ UNCHANGED <<pending, bodyLength, out>>

\* Mutant: an undecided line end is not looked at again.
AwaitHeadNoReexamine(skipped, scan) ==
  IF Len(buffer) - skipped > MaxHeaderBytes
  THEN Fail(431, skipped)
  ELSE /\ start' = skipped
       /\ streamOffset' = streamOffset + (skipped - start)
       /\ scanFrom' = Len(buffer)
       /\ result' = F!Incomplete
       /\ UNCHANGED <<buffer, state, pending, bodyLength, error, out>>

\* Mutant: the limit is off by one.
AwaitHeadOffByOne(skipped, scan) ==
  IF Len(buffer) - skipped >= MaxHeaderBytes
  THEN Fail(431, skipped)
  ELSE /\ start' = skipped
       /\ streamOffset' = streamOffset + (skipped - start)
       /\ scanFrom' = scan
       /\ result' = F!Incomplete
       /\ UNCHANGED <<buffer, state, pending, bodyLength, error, out>>

\* Mutant: an endless head is never refused.
AwaitHeadUnlimited(skipped, scan) ==
  IF FALSE
  THEN Fail(431, skipped)
  ELSE /\ start' = skipped
       /\ streamOffset' = streamOffset + (skipped - start)
       /\ scanFrom' = scan
       /\ result' = F!Incomplete
       /\ UNCHANGED <<buffer, state, pending, bodyLength, error, out>>

\* The head is not complete; the next search resumes at scan.
AwaitHead(skipped, scan) ==
  IF Len(buffer) - skipped > MaxHeaderBytes
  THEN Fail(431, skipped)
  ELSE /\ start' = skipped
       /\ streamOffset' = streamOffset + (skipped - start)
       /\ scanFrom' = scan
       /\ result' = F!Incomplete
       /\ UNCHANGED <<buffer, state, pending, bodyLength, error, out>>

\* Mutant: a body is taken with the bytes that are there.
TakeBodyShort(req, bodyStart, length) ==
  LET end == IF Len(buffer) - bodyStart < length THEN Len(buffer) ELSE bodyStart + length
  IN  /\ bodyLength' = length
      /\ ConsumeTo(end)
      /\ state' = "Head"
      /\ pending' = NoRequest
      /\ result' = F!Complete(F!Frame(req.begin, req.headBytes, streamOffset'))
      /\ out' = Append(out, result'.frame)
      /\ UNCHANGED <<buffer, error>>

\* The request req is complete once its body, of length bytes from offset
\* bodyStart of the buffer, is there; until then the parser stays in Body.
TakeBody(req, bodyStart, length) ==
  /\ bodyLength' = length
  /\ IF Len(buffer) - bodyStart < length
     THEN /\ ConsumeTo(bodyStart)
          /\ state' = "Body"
          /\ pending' = req
          /\ result' = F!Incomplete
          /\ out' = out
     ELSE /\ ConsumeTo(bodyStart + length)
          /\ state' = "Head"
          /\ pending' = NoRequest
          /\ result' = F!Complete(F!Frame(req.begin, req.headBytes, streamOffset'))
          /\ out' = Append(out, result'.frame)
  /\ UNCHANGED <<buffer, error>>

\* The head is [skipped, e) of the buffer.
TakeHead(skipped, e) ==
  LET head == ParseHead(SubSeq(buffer, skipped + 1, e))
      req  == [begin |-> streamOffset + (skipped - start), headBytes |-> e - skipped]
  IN  IF e - skipped > MaxHeaderBytes THEN Fail(431, skipped)
      ELSE IF head.status # NoError THEN Fail(head.status, skipped)
      ELSE TakeBody(req, e, head.bodyLength)

\* find_end_of_head, searching from pos, then the rest of next()
FindEndOfHead(skipped, pos) ==
  IF \A n \in pos .. Len(buffer) - 1 : ~ StopsAt(buffer, pos, n)
  THEN AwaitHead(skipped, Len(buffer))
  ELSE \E n \in pos .. Len(buffer) - 1 :
         /\ StopsAt(buffer, pos, n)
         /\ IF EndsHead(buffer, n)
            THEN TakeHead(skipped, HeadEnd(buffer, n))
            ELSE AwaitHead(skipped, n)

NextInHead ==
  /\ state = "Head"
  /\ \E skipped \in start .. Len(buffer) :
       /\ SkipsTo(buffer, start, skipped)
       /\ FindEndOfHead(skipped, Larger(scanFrom, skipped))
  /\ UNCHANGED <<stream, fed>>

NextInBody ==
  /\ state = "Body"
  /\ TakeBody(pending, start, bodyLength)
  /\ UNCHANGED <<stream, fed>>

NextFailed ==
  /\ state = "Failed"
  /\ result' = F!Error(error)
  /\ UNCHANGED <<stream, fed, buffer, start, scanFrom, streamOffset, state, pending,
                 bodyLength, error, out>>

Next ==
  \/ \E n \in 1 .. Len(stream) - fed : Feed(n)
  \/ NextInHead
  \/ NextInBody
  \/ NextFailed

Spec == Init /\ [][Next]_vars

-----------------------------------------------------------------------------
\* Types.  size_t indices never go below zero (scan_from_ -= start_ in feed(),
\* buffer_.size() - start_ in buffered_bytes()): that is IndicesInBounds.
TypeOK ==
  /\ stream \in Seq(Byte)
  /\ fed \in 0 .. Len(stream)
  /\ buffer \in Seq(Byte)
  /\ start \in Nat
  /\ scanFrom \in Nat
  /\ streamOffset \in Nat
  /\ state \in {"Head", "Body", "Failed"}
  /\ pending \in [begin : Nat, headBytes : Nat]
  /\ bodyLength \in 0 .. MaxBodyBytes
  /\ error \in {NoError, 400, 413, 431, 501, 505}
  /\ out \in Seq([begin : Nat, headBytes : Nat, end : Nat])

\* start_ and scan_from_ stay inside buffer_ in this order through every
\* compaction, consume() and fail(), so none of the size_t subtractions of
\* feed(), next() and buffered_bytes() wraps around.
IndicesInBounds == start <= scanFrom /\ scanFrom <= Len(buffer)

\* Dropping consumed prefixes loses and repeats no byte: while the parser has
\* not failed, the unconsumed bytes of buffer_ are the bytes of the stream from
\* stream_offset_ up to the last one fed.
BufferIsStreamSuffix ==
  state # "Failed" =>
    SubSeq(buffer, start + 1, Len(buffer)) = SubSeq(stream, streamOffset + 1, fed)

\* find_end_of_head may resume at scan_from_ because no line end before it can
\* still turn out to end the head, whatever bytes are fed next.
ResumeLosesNoHeadEnd ==
  state = "Head" =>
    \A n \in start .. scanFrom - 1 : ~ EndsHead(buffer, n) /\ ~ Undecided(buffer, n)

\* The requests returned by next() are those of the whole stream: a request cut
\* off the bytes that had arrived is never framed differently by later bytes.
RequestsIndependentOfChunking ==
  \A i \in 1 .. Len(out) :
    F!FrameAt(stream, IF i = 1 THEN 0 ELSE out[i - 1].end) = F!Complete(out[i])

\* The framing error answered is the one the whole stream has at that place.
ErrorIndependentOfChunking ==
  state = "Failed" => F!FrameAt(stream, F!Position) = F!Error(error)

\* How the bytes are cut into reads changes neither the requests nor the error
\* that next() returns.
OutcomeIndependentOfChunking ==
  RequestsIndependentOfChunking /\ ErrorIndependentOfChunking

\* buffer_ keeps at most one max_request_bytes of consumed bytes besides the
\* unconsumed ones: dropping the prefix only when it is half the buffer still
\* bounds the memory a client can make the parser hold.
BufferBound == Len(buffer) < 2 * MaxRequestBytes

\* An Incomplete answer always leaves room to read, so Connection::wants_to_read
\* never refuses the bytes the parser is waiting for.
IncompleteLeavesRoom ==
  [][(fed' = fed /\ result' = F!Incomplete) => Len(buffer') - start' < MaxRequestBytes]_vars

\* The incremental parser implements Framing: feed() and next() return what
\* framing the stream from the end of the last request returns.
ImplementsFraming == F!Spec

-----------------------------------------------------------------------------
\* config.hpp:57-58: 72 KiB (max_request_bytes) of input per connection "in the
\* worst case".
InputMemoryIsMaxRequestBytes == Len(buffer) <= MaxRequestBytes

=============================================================================
