------------------------ MODULE RequestParserProofs ------------------------
(* Proofs about RequestParser, for every stream, every way of cutting it    *)
(* into chunks and every value of the limits.                               *)
EXTENDS RequestParser, SequenceTheorems, WellFoundedInduction, TLAPS

Statuses == {NoError, 400, 413, 431, 501, 505}

\* parse_head either fails with one of five statuses or announces a body that
\* is within the limit (determine_body_length, request_parser.cpp:153-158).
LEMMA ParseHeadType ==
  ASSUME NEW h
  PROVE  ParseHead(h) \in [status : Statuses, bodyLength : 0 .. MaxBodyBytes]
<1> USE LimitsAssumption
<1>1. ASSUME NEW fields
      PROVE  DetermineBodyLength(h, fields) \in [status : Statuses, bodyLength : 0 .. MaxBodyBytes]
  <2> DEFINE lengths == {e \in fields : LineText(h, e)[1] \in DOMAIN LengthLine \cup {"clx"}}
             text == LineText(h, CHOOSE e \in lengths : TRUE)[1]
  <2>1. lengths # {} => text \in DOMAIN LengthLine \cup {"clx"}
    OBVIOUS
  <2>2. lengths # {} /\ text # "clx" => LengthLine[text] \in Nat
    BY <2>1
  <2> QED
    BY <2>2 DEF DetermineBodyLength, Verdict, NoError, Statuses
<1>2. \A t : RequestLineStatus(t) \in Statuses
  BY DEF RequestLineStatus, Statuses, NoError
<1> QED
  BY SMTT(30), Z3T(30), <1>1, <1>2 DEF ParseHead, Verdict, Statuses, NoError

\* What the proofs use of the limits; max_request_bytes() exceeds both.
LEMMA Limits ==
  /\ MaxHeaderBytes \in Nat /\ MaxBodyBytes \in Nat /\ MaxRequestBytes \in Nat
  /\ MaxHeaderBytes < MaxRequestBytes /\ MaxBodyBytes < MaxRequestBytes
  BY LimitsAssumption DEF MaxRequestBytes

-----------------------------------------------------------------------------
\* The inductive invariant: the indices stay in order inside the buffer, and
\* the size of the buffer is bounded because the caller leaves at most
\* max_request_bytes unconsumed.
Inv ==
  /\ TypeOK
  /\ IndicesInBounds
  /\ BufferedBytes <= MaxRequestBytes
  /\ BufferBound

LEMMA InitInv == Init => Inv
  BY LimitsAssumption, StreamsAssumption
  DEF Init, Inv, TypeOK, IndicesInBounds, BufferedBytes, BufferBound, MaxRequestBytes,
      NoRequest, NoError

\* feed(): dropping a prefix that is at least half of the buffer keeps the
\* indices in order and the buffer within twice max_request_bytes.
LEMMA FeedInv ==
  ASSUME Inv, NEW n \in 1 .. Len(stream) - fed, Feed(n)
  PROVE  Inv'
<1> DEFINE bytes == SubSeq(stream, fed + 1, fed + n)
           rest == SubSeq(buffer, start + 1, Len(buffer))
<1> USE Limits
<1>a. /\ stream \in Seq(Byte) /\ buffer \in Seq(Byte)
      /\ fed \in 0 .. Len(stream) /\ start \in Nat /\ scanFrom \in Nat
      /\ Len(buffer) \in Nat /\ Len(stream) \in Nat
  BY DEF Inv, TypeOK
<1>b. /\ start <= scanFrom /\ scanFrom <= Len(buffer)
      /\ Len(buffer) < 2 * MaxRequestBytes
  BY DEF Inv, IndicesInBounds, BufferBound
<1>c. Len(buffer) - start + n <= MaxRequestBytes
  BY DEF Feed, HasRoomFor, BufferedBytes
<1>1. fed' = fed + n /\ fed' \in 0 .. Len(stream)
  BY <1>a DEF Feed
<1>2. bytes \in Seq(Byte) /\ Len(bytes) = n
  <2>1. \A i \in fed + 1 .. fed + n : stream[i] \in Byte
    BY <1>a, <1>b, ElementOfSeq
  <2> QED
    BY <1>a, <1>b, <2>1, SubSeqProperties
<1>3. rest \in Seq(Byte) /\ Len(rest) = Len(buffer) - start
  <2>1. \A i \in start + 1 .. Len(buffer) : buffer[i] \in Byte
    BY <1>a, <1>b, ElementOfSeq
  <2> QED
    BY <1>a, <1>b, <2>1, SubSeqProperties
<1> DEFINE Goal == /\ buffer' \in Seq(Byte) /\ start' \in Nat /\ scanFrom' \in Nat
                   /\ start' <= scanFrom' /\ scanFrom' <= Len(buffer')
                   /\ Len(buffer') - start' <= MaxRequestBytes
                   /\ Len(buffer') < 2 * MaxRequestBytes
<1>4. CASE state = "Failed"
  <2>1. Goal
    BY SMTT(30), Z3T(30), <1>a, <1>b, <1>c, <1>4 DEF Feed
  <2> QED
    BY <2>1, <1>1, <1>4 DEF Feed, Inv, TypeOK, IndicesInBounds, BufferedBytes, BufferBound
<1>5. CASE state # "Failed" /\ Compacts
  <2>1. /\ buffer' = rest \o bytes
        /\ scanFrom' = IF start = Len(buffer) THEN 0 ELSE scanFrom - start
        /\ start' = 0
    BY Zenon, <1>5 DEF Feed, FeedBuffer
  <2>2. buffer' \in Seq(Byte) /\ Len(buffer') = Len(buffer) - start + n
    BY SMTT(30), Z3T(30), <1>2, <1>3, <2>1, ConcatProperties
  <2>4. /\ start' \in Nat /\ scanFrom' \in Nat
        /\ start' <= scanFrom' /\ scanFrom' <= Len(buffer')
    BY SMTT(30), Z3T(30), <1>a, <1>b, <2>1, <2>2
  <2>5. /\ Len(buffer') - start' <= MaxRequestBytes
        /\ Len(buffer') < 2 * MaxRequestBytes
    BY SMTT(30), Z3T(30), <1>a, <1>b, <1>c, <2>1, <2>2
  <2>3. Goal
    BY <2>2, <2>4, <2>5
  <2> QED
    BY SMTT(30), Z3T(30), <2>3, <1>1, <1>5
       DEF Feed, Inv, TypeOK, IndicesInBounds, BufferedBytes, BufferBound
<1>6. CASE state # "Failed" /\ ~ Compacts
  <2>1. buffer' = buffer \o bytes /\ scanFrom' = scanFrom /\ start' = start
    BY Zenon, <1>6 DEF Feed, FeedBuffer
  <2>2. buffer' \in Seq(Byte) /\ Len(buffer') = Len(buffer) + n
    BY <1>a, <1>2, <2>1, ConcatProperties
  <2>3. start = 0 \/ start < Len(buffer) - start
    BY <1>a, <1>b, <1>6 DEF Compacts
  <2>4. Goal
    BY SMTT(30), Z3T(30), <1>a, <1>b, <1>c, <2>1, <2>2, <2>3
  <2> QED
    BY <2>4, <1>1, <1>6 DEF Feed, Inv, TypeOK, IndicesInBounds, BufferedBytes, BufferBound
<1> QED
  BY <1>4, <1>5, <1>6

-----------------------------------------------------------------------------
(* next() *)

\* The head found by find_end_of_head is inside the buffer.
LEMMA HeadEndInBuffer ==
  ASSUME NEW b \in Seq(Byte), NEW n \in Nat, EndsHead(b, n)
  PROVE  HeadEnd(b, n) \in n + 2 .. Len(b)
  BY DEF EndsHead, HeadEnd, IsLF, IsCRLF

LEMMA FailInv ==
  ASSUME Inv, NEW status \in Statuses, NEW skipped \in start .. Len(buffer),
         Fail(status, skipped), UNCHANGED <<stream, fed>>
  PROVE  Inv'
<1> USE Limits
<1>1. buffer' = <<>> /\ buffer' \in Seq(Byte) /\ Len(buffer') = 0 /\ start' = 0 /\ scanFrom' = 0
  BY EmptySeq DEF Fail
<1>2. streamOffset' \in Nat
  BY DEF Fail, Inv, TypeOK
<1>3. /\ stream' \in Seq(Byte) /\ fed' \in 0 .. Len(stream')
      /\ state' \in {"Head", "Body", "Failed"} /\ error' \in Statuses
      /\ pending' \in [begin : Nat, headBytes : Nat] /\ bodyLength' \in 0 .. MaxBodyBytes
      /\ out' \in Seq([begin : Nat, headBytes : Nat, end : Nat])
  BY DEF Fail, Inv, TypeOK
<1> QED
  BY <1>1, <1>2, <1>3
  DEF Inv, TypeOK, IndicesInBounds, BufferedBytes, BufferBound, Statuses

LEMMA AwaitHeadInv ==
  ASSUME Inv, NEW skipped \in start .. Len(buffer), NEW scan \in skipped .. Len(buffer),
         AwaitHead(skipped, scan), UNCHANGED <<stream, fed>>
  PROVE  Inv'
<1> USE Limits
<1>1. CASE Len(buffer) - skipped > MaxHeaderBytes
  BY <1>1, FailInv DEF AwaitHead, Statuses
<1>2. CASE ~ (Len(buffer) - skipped > MaxHeaderBytes)
  <2>1. start' = skipped /\ scanFrom' = scan /\ buffer' = buffer
    BY <1>2 DEF AwaitHead
  <2>2. streamOffset' \in Nat /\ start \in Nat /\ Len(buffer) \in Nat
    BY SMTT(30), Z3T(30), <1>2 DEF AwaitHead, Inv, TypeOK
  <2>3. IndicesInBounds' /\ (BufferedBytes <= MaxRequestBytes)' /\ BufferBound'
    BY <2>1, <2>2 DEF Inv, IndicesInBounds, BufferedBytes, BufferBound
  <2>4. TypeOK'
    BY <1>2, <2>1, <2>2 DEF AwaitHead, Inv, TypeOK
  <2> QED
    BY <2>3, <2>4 DEF Inv
<1> QED
  BY SMTT(30), Z3T(30), <1>1, <1>2

LEMMA TakeBodyInv ==
  ASSUME Inv, NEW req \in [begin : Nat, headBytes : Nat],
         NEW bodyStart \in start .. Len(buffer), NEW length \in 0 .. MaxBodyBytes,
         TakeBody(req, bodyStart, length), UNCHANGED <<stream, fed>>
  PROVE  Inv'
<1> USE Limits
<1>1. start \in Nat /\ scanFrom \in Nat /\ streamOffset \in Nat /\ Len(buffer) \in Nat
      /\ start <= scanFrom /\ scanFrom <= Len(buffer) /\ buffer' = buffer
  BY DEF Inv, TypeOK, IndicesInBounds, TakeBody
<1>2. ASSUME NEW to \in start .. Len(buffer), ConsumeTo(to)
      PROVE  /\ IndicesInBounds' /\ (BufferedBytes <= MaxRequestBytes)' /\ BufferBound'
             /\ start' \in Nat /\ scanFrom' \in Nat /\ streamOffset' \in Nat
  BY <1>1, <1>2 DEF ConsumeTo, Larger, Inv, IndicesInBounds, BufferedBytes, BufferBound
<1>3. CASE Len(buffer) - bodyStart < length
  <2>1. ConsumeTo(bodyStart)
    BY <1>3 DEF TakeBody
  <2>2. TypeOK'
    <3>1. /\ state' = "Body" /\ pending' = req /\ out' = out /\ bodyLength' = length
          /\ buffer' = buffer /\ error' = error
      BY <1>3 DEF TakeBody
    <3> QED
      BY <1>2, <2>1, <3>1 DEF Inv, TypeOK
  <2> QED
    BY <1>2, <2>1, <2>2 DEF Inv
<1>4. CASE ~ (Len(buffer) - bodyStart < length)
  <2>1. ConsumeTo(bodyStart + length) /\ bodyStart + length \in start .. Len(buffer)
    BY <1>1, <1>4 DEF TakeBody
  <2>2. out' = Append(out, F!Frame(req.begin, req.headBytes, streamOffset'))
    BY <1>4 DEF TakeBody, F!Complete
  <2>3. F!Frame(req.begin, req.headBytes, streamOffset') \in [begin : Nat, headBytes : Nat, end : Nat]
    BY <1>2, <2>1 DEF F!Frame
  <2>4. out' \in Seq([begin : Nat, headBytes : Nat, end : Nat])
    BY SMTT(30), Z3T(30), <2>2, <2>3, AppendProperties DEF Inv, TypeOK
  <2>5. TypeOK'
    <3>1. /\ state' = "Head" /\ pending' = NoRequest /\ bodyLength' = length
          /\ buffer' = buffer /\ error' = error
      BY SMTT(30), Z3T(30), <1>4 DEF TakeBody
    <3> QED
      BY SMTT(30), Z3T(30), <1>2, <2>1, <2>4, <3>1 DEF Inv, TypeOK, NoRequest
  <2> QED
    BY <1>2, <2>1, <2>5 DEF Inv
<1> QED
  BY <1>3, <1>4

LEMMA NextInHeadInv ==
  ASSUME Inv, NextInHead
  PROVE  Inv'
<1> USE Limits
<1>1. PICK skipped \in start .. Len(buffer) :
        /\ SkipsTo(buffer, start, skipped)
        /\ FindEndOfHead(skipped, Larger(scanFrom, skipped))
  BY DEF NextInHead
<1> DEFINE pos == Larger(scanFrom, skipped)
<1>2. /\ buffer \in Seq(Byte) /\ start \in Nat /\ Len(buffer) \in Nat /\ streamOffset \in Nat
      /\ skipped \in Nat /\ pos \in skipped .. Len(buffer)
  BY DEF Inv, TypeOK, IndicesInBounds, Larger
<1>3. UNCHANGED <<stream, fed>>
  BY DEF NextInHead
<1>4. CASE \A n \in pos .. Len(buffer) - 1 : ~ StopsAt(buffer, pos, n)
  BY SMTT(30), Z3T(30), <1>1, <1>2, <1>3, <1>4, AwaitHeadInv DEF FindEndOfHead
<1>5. ASSUME NEW n \in pos .. Len(buffer) - 1, StopsAt(buffer, pos, n),
             IF EndsHead(buffer, n) THEN TakeHead(skipped, HeadEnd(buffer, n))
                                    ELSE AwaitHead(skipped, n)
      PROVE  Inv'
  <2>1. CASE ~ EndsHead(buffer, n)
    BY SMTT(30), Z3T(30), <1>2, <1>3, <1>5, <2>1, AwaitHeadInv
  <2>2. CASE EndsHead(buffer, n)
    <3> DEFINE e == HeadEnd(buffer, n)
               head == ParseHead(SubSeq(buffer, skipped + 1, e))
               req == [begin |-> streamOffset + (skipped - start), headBytes |-> e - skipped]
    <3>1. e \in skipped .. Len(buffer)
      BY <1>2, <2>2, HeadEndInBuffer
    <3>2. head.status \in Statuses /\ head.bodyLength \in 0 .. MaxBodyBytes
      BY ParseHeadType
    <3>3. req \in [begin : Nat, headBytes : Nat]
      BY <1>2, <3>1
    <3>4. TakeHead(skipped, e)
      BY <1>5, <2>2
    <3>5. CASE e - skipped > MaxHeaderBytes
      BY SMTT(30), Z3T(30), <1>3, <3>4, <3>5, FailInv DEF TakeHead, Statuses
    <3>6. CASE ~ (e - skipped > MaxHeaderBytes) /\ head.status # NoError
      BY SMTT(30), Z3T(30), <1>3, <3>2, <3>4, <3>6, FailInv DEF TakeHead
    <3>7. CASE ~ (e - skipped > MaxHeaderBytes) /\ head.status = NoError
      <4>1. TakeBody(req, e, head.bodyLength)
        BY <3>4, <3>7 DEF TakeHead
      <4> HIDE DEF head, req, e
      <4>2. e \in start .. Len(buffer)
        BY <1>2, <3>1
      <4> QED
        BY SMTT(30), Z3T(30), <1>3, <3>2, <3>3, <4>1, <4>2, TakeBodyInv
    <3> QED
      BY <3>5, <3>6, <3>7
  <2> QED
    BY <2>1, <2>2
<1> QED
  BY SMTT(30), Z3T(30), <1>1, <1>4, <1>5 DEF FindEndOfHead

\* The invariant is preserved by every step.
LEMMA NextInv == Inv /\ [Next]_vars => Inv'
<1> SUFFICES ASSUME Inv, [Next]_vars PROVE Inv'
  OBVIOUS
<1>1. ASSUME NEW n \in 1 .. Len(stream) - fed, Feed(n) PROVE Inv'
  BY <1>1, FeedInv
<1>2. CASE NextInHead
  BY <1>2, NextInHeadInv
<1>3. CASE NextInBody
  <2>1. /\ pending \in [begin : Nat, headBytes : Nat] /\ bodyLength \in 0 .. MaxBodyBytes
        /\ start \in start .. Len(buffer)
    BY DEF Inv, TypeOK, IndicesInBounds
  <2> QED
    BY <1>3, <2>1, TakeBodyInv DEF NextInBody
<1>4. CASE NextFailed
  BY <1>4 DEF NextFailed, Inv, TypeOK, IndicesInBounds, BufferedBytes, BufferBound
<1>5. CASE UNCHANGED vars
  BY <1>5 DEF vars, Inv, TypeOK, IndicesInBounds, BufferedBytes, BufferBound
<1> QED
  BY SMTT(30), Z3T(30), <1>1, <1>2, <1>3, <1>4, <1>5 DEF Next

\* Type correctness of RequestParser, for all limits and streams.
THEOREM TypeCorrect == Spec => []TypeOK
<1>1. Inv => TypeOK
  BY DEF Inv
<1> QED
  BY InitInv, NextInv, <1>1, PTL DEF Spec

\* No size_t subtraction in feed(), next() or buffered_bytes() wraps around:
\* start_ <= scan_from_ <= buffer_.size() always.
THEOREM IndicesStayInBounds == Spec => []IndicesInBounds
<1>1. Inv => IndicesInBounds
  BY DEF Inv
<1> QED
  BY InitInv, NextInv, <1>1, PTL DEF Spec

\* However a client's bytes arrive, buffer_ stays below twice max_request_bytes
\* (lazy compaction in feed(), request_parser.cpp:168-178).
THEOREM BufferIsBounded == Spec => []BufferBound
<1>1. Inv => BufferBound
  BY DEF Inv
<1> QED
  BY InitInv, NextInv, <1>1, PTL DEF Spec

-----------------------------------------------------------------------------
(* An Incomplete answer leaves room to read *)

LEMMA TakeBodyLeavesRoom ==
  ASSUME Inv, NEW req, NEW bodyStart \in start .. Len(buffer), NEW length \in 0 .. MaxBodyBytes,
         TakeBody(req, bodyStart, length), result' = F!Incomplete
  PROVE  Len(buffer') - start' < MaxRequestBytes
<1> USE Limits
<1>1. Len(buffer) \in Nat /\ start \in Nat
  BY DEF Inv, TypeOK
<1>2. CASE Len(buffer) - bodyStart < length
  <2>1. buffer' = buffer /\ start' = bodyStart
    BY <1>2 DEF TakeBody, ConsumeTo
  <2> QED
    BY SMTT(30), Z3T(30), <1>1, <1>2, <2>1
<1>3. CASE ~ (Len(buffer) - bodyStart < length)
  <2>1. result' = F!Complete(F!Frame(req.begin, req.headBytes, streamOffset'))
    BY <1>3 DEF TakeBody
  <2> QED
    BY <2>1 DEF F!Complete, F!Incomplete
<1> QED
  BY <1>2, <1>3

LEMMA AwaitHeadLeavesRoom ==
  ASSUME Inv, NEW skipped \in start .. Len(buffer), NEW scan, AwaitHead(skipped, scan),
         result' = F!Incomplete
  PROVE  Len(buffer') - start' < MaxRequestBytes
<1>1. Len(buffer) \in Nat /\ start \in Nat
  BY DEF Inv, TypeOK
<1>2. ~ (Len(buffer) - skipped > MaxHeaderBytes)
  BY DEF AwaitHead, Fail, F!Error, F!Incomplete
<1>3. buffer' = buffer /\ start' = skipped
  BY <1>2 DEF AwaitHead
<1> QED
  BY SMTT(30), Z3T(30), <1>1, <1>2, <1>3, Limits

LEMMA NextInHeadLeavesRoom ==
  ASSUME Inv, NextInHead, result' = F!Incomplete
  PROVE  Len(buffer') - start' < MaxRequestBytes
<1> DEFINE Room == Len(buffer') - start' < MaxRequestBytes
<1>1. PICK skipped \in start .. Len(buffer) :
        FindEndOfHead(skipped, Larger(scanFrom, skipped))
  BY DEF NextInHead
<1> DEFINE pos == Larger(scanFrom, skipped)
<1>2. /\ buffer \in Seq(Byte) /\ start \in Nat /\ Len(buffer) \in Nat
      /\ skipped \in Nat /\ pos \in skipped .. Len(buffer)
  BY DEF Inv, TypeOK, IndicesInBounds, Larger
<1>3. CASE \A n \in pos .. Len(buffer) - 1 : ~ StopsAt(buffer, pos, n)
  BY <1>1, <1>3, AwaitHeadLeavesRoom DEF FindEndOfHead
<1>4. ASSUME NEW n \in pos .. Len(buffer) - 1,
             IF EndsHead(buffer, n) THEN TakeHead(skipped, HeadEnd(buffer, n))
                                    ELSE AwaitHead(skipped, n)
      PROVE  Room
  <2>1. CASE ~ EndsHead(buffer, n)
    BY <1>4, <2>1, AwaitHeadLeavesRoom
  <2>2. CASE EndsHead(buffer, n)
    <3> DEFINE e == HeadEnd(buffer, n)
               head == ParseHead(SubSeq(buffer, skipped + 1, e))
               req == [begin |-> streamOffset + (skipped - start), headBytes |-> e - skipped]
    <3>1. e \in start .. Len(buffer)
      BY SMTT(30), Z3T(30), <1>2, <2>2, HeadEndInBuffer
    <3>2. head.bodyLength \in 0 .. MaxBodyBytes
      BY ParseHeadType
    <3>3. TakeBody(req, e, head.bodyLength)
      BY <1>4, <2>2 DEF TakeHead, Fail, F!Error, F!Incomplete
    <3> HIDE DEF e, head, req
    <3> QED
      BY SMTT(30), Z3T(30), <3>1, <3>2, <3>3, TakeBodyLeavesRoom
  <2> QED
    BY <2>1, <2>2
<1> QED
  BY <1>1, <1>3, <1>4 DEF FindEndOfHead

\* next() never answers Incomplete with a full buffer, so the caller that stops
\* reading at max_request_bytes (Connection::wants_to_read) is never stuck.
THEOREM IncompleteAlwaysLeavesRoom == Spec => IncompleteLeavesRoom
<1> DEFINE A == (fed' = fed /\ result' = F!Incomplete) => Len(buffer') - start' < MaxRequestBytes
<1>1. Inv /\ [Next]_vars => [A]_vars
  <2> SUFFICES ASSUME Inv, Next, fed' = fed, result' = F!Incomplete
               PROVE  Len(buffer') - start' < MaxRequestBytes
    OBVIOUS
  <2>1. ASSUME NEW n \in 1 .. Len(stream) - fed, Feed(n) PROVE FALSE
    BY <2>1 DEF Feed, Inv, TypeOK
  <2>2. CASE NextInHead
    BY <2>2, NextInHeadLeavesRoom
  <2>3. CASE NextInBody
    <3>1. start \in start .. Len(buffer) /\ bodyLength \in 0 .. MaxBodyBytes
      BY DEF Inv, TypeOK, IndicesInBounds
    <3> QED
      BY <2>3, <3>1, TakeBodyLeavesRoom DEF NextInBody
  <2>4. CASE NextFailed
    BY <2>4 DEF NextFailed, F!Error, F!Incomplete
  <2> QED
    BY <2>1, <2>2, <2>3, <2>4 DEF Next
<1> QED
  BY InitInv, NextInv, <1>1, PTL DEF Spec, IncompleteLeavesRoom

-----------------------------------------------------------------------------
(* The buffer holds the stream, and the resumed search misses nothing *)

\* BufferIsStreamSuffix byte by byte.
SameBytes ==
  /\ fed - streamOffset = Len(buffer) - start
  /\ \A i \in 1 .. Len(buffer) - start : buffer[start + i] = stream[streamOffset + i]

\* Inv with what the search for the head relies on.  While a body is awaited
\* nothing behind start_ has been searched.
ScanInv ==
  /\ Inv
  /\ state # "Failed" => SameBytes
  /\ ResumeLosesNoHeadEnd
  /\ state = "Body" => scanFrom = start

LEMMA InitScanInv == Init => ScanInv
<1> SUFFICES ASSUME Init PROVE ScanInv
  OBVIOUS
<1>1. Len(buffer) = 0 /\ start = 0 /\ scanFrom = 0 /\ fed = 0 /\ streamOffset = 0 /\ state = "Head"
  BY DEF Init
<1> QED
  BY <1>1, InitInv DEF ScanInv, SameBytes, ResumeLosesNoHeadEnd

\* A line end that is decided stays decided when bytes are appended, and bytes
\* dropped in front of it do not matter: b2 is b1 without its first k bytes,
\* and longer.
LEMMA DecidedStaysDecided ==
  ASSUME NEW b1 \in Seq(Byte), NEW b2 \in Seq(Byte), NEW k \in Nat, NEW n \in Nat,
         k + n < Len(b1), Len(b1) - k <= Len(b2),
         \A i \in 1 .. Len(b1) - k : b2[i] = b1[k + i],
         ~ EndsHead(b1, k + n), ~ Undecided(b1, k + n)
  PROVE  ~ EndsHead(b2, n) /\ ~ Undecided(b2, n)
<1>1. Len(b1) \in Nat /\ Len(b2) \in Nat
  OBVIOUS
<1>2. b2[n + 1] = b1[k + n + 1]
  <2>1. n + 1 \in 1 .. Len(b1) - k /\ k + (n + 1) = k + n + 1
    BY <1>1
  <2> QED
    BY <2>1
<1>3. ASSUME k + n + 1 < Len(b1) PROVE b2[n + 2] = b1[k + n + 2]
  <2>1. n + 2 \in 1 .. Len(b1) - k /\ k + (n + 2) = k + n + 2
    BY <1>1, <1>3
  <2> QED
    BY <2>1
<1>4. ASSUME k + n + 2 < Len(b1) PROVE b2[n + 3] = b1[k + n + 3]
  <2>1. n + 3 \in 1 .. Len(b1) - k /\ k + (n + 3) = k + n + 3
    BY <1>1, <1>4
  <2> QED
    BY <2>1
<1>5. CASE b1[k + n + 1] # "lf"
  BY SMTT(30), Z3T(30), <1>1, <1>2, <1>5 DEF EndsHead, Undecided, IsLF
<1>6. CASE b1[k + n + 1] = "lf"
  <2>1. k + n + 1 < Len(b1) /\ b1[k + n + 2] # "lf"
    BY SMTT(30), Z3T(30), <1>1, <1>6 DEF EndsHead, Undecided, IsLF
  <2>2. CASE b1[k + n + 2] # "cr"
    BY SMTT(30), Z3T(30), <1>1, <1>3, <2>1, <2>2 DEF EndsHead, Undecided, IsLF, IsCRLF
  <2>3. CASE b1[k + n + 2] = "cr"
    <3>1. k + n + 2 < Len(b1) /\ b1[k + n + 3] # "lf"
      BY SMTT(30), Z3T(30), <1>1, <1>6, <2>1, <2>3 DEF EndsHead, Undecided, IsLF, IsCRLF
    <3> QED
      BY SMTT(30), Z3T(30), <1>1, <1>3, <1>4, <2>1, <2>3, <3>1 DEF EndsHead, Undecided, IsLF, IsCRLF
  <2> QED
    BY <2>2, <2>3
<1> QED
  BY <1>5, <1>6

LEMMA Concatenated ==
  ASSUME NEW s \in Seq(Byte), NEW t \in Seq(Byte)
  PROVE  /\ Len(s \o t) = Len(s) + Len(t)
         /\ \A i \in 1 .. Len(s) : (s \o t)[i] = s[i]
         /\ \A i \in 1 .. Len(t) : (s \o t)[Len(s) + i] = t[i]
  OBVIOUS

LEMMA Slice ==
  ASSUME NEW s \in Seq(Byte), NEW m \in Nat, NEW n \in Nat, m <= n, n <= Len(s)
  PROVE  /\ SubSeq(s, m + 1, n) \in Seq(Byte)
         /\ Len(SubSeq(s, m + 1, n)) = n - m
         /\ \A i \in 1 .. n - m : SubSeq(s, m + 1, n)[i] = s[m + i]
<1>1. \A i \in m + 1 .. n : s[i] \in Byte
  BY ElementOfSeq
<1> QED
  BY <1>1, SubSeqProperties

\* feed() shifts the buffer by the k bytes it drops and appends n of the stream.
LEMMA FeedShifts ==
  ASSUME Inv, state # "Failed", NEW n \in 1 .. Len(stream) - fed, Feed(n)
  PROVE  \E k \in 0 .. start :
           /\ start' = start - k
           /\ scanFrom' = scanFrom - k
           /\ Len(buffer') = Len(buffer) - k + n
           /\ \A i \in 1 .. Len(buffer) - k : buffer'[i] = buffer[k + i]
           /\ \A i \in 1 .. n : buffer'[Len(buffer) - k + i] = stream[fed + i]
<1> DEFINE bytes == SubSeq(stream, fed + 1, fed + n)
           rest == SubSeq(buffer, start + 1, Len(buffer))
<1>1. /\ stream \in Seq(Byte) /\ buffer \in Seq(Byte) /\ fed \in Nat /\ start \in Nat
      /\ scanFrom \in Nat /\ Len(buffer) \in Nat /\ Len(stream) \in Nat
      /\ fed + n <= Len(stream) /\ start <= scanFrom /\ scanFrom <= Len(buffer)
      /\ n \in Nat
  BY DEF Inv, TypeOK, IndicesInBounds
<1>2. bytes \in Seq(Byte) /\ Len(bytes) = n /\ \A i \in 1 .. n : bytes[i] = stream[fed + i]
  BY <1>1, Slice
<1>3. /\ rest \in Seq(Byte) /\ Len(rest) = Len(buffer) - start
      /\ \A i \in 1 .. Len(buffer) - start : rest[i] = buffer[start + i]
  BY <1>1, Slice
<1>4. CASE Compacts
  <2>0. /\ buffer' = rest \o bytes /\ start' = 0
        /\ scanFrom' = IF start = Len(buffer) THEN 0 ELSE scanFrom - start
    BY Zenon, <1>4 DEF Feed, FeedBuffer
  <2> HIDE DEF rest, bytes
  <2>1. buffer' = rest \o bytes /\ start' = 0 /\ scanFrom' = scanFrom - start
    BY <1>1, <2>0
  <2>2. /\ Len(rest \o bytes) = Len(rest) + n
        /\ \A i \in 1 .. Len(rest) : (rest \o bytes)[i] = rest[i]
        /\ \A i \in 1 .. n : (rest \o bytes)[Len(rest) + i] = bytes[i]
    BY Zenon, <1>2, <1>3, Concatenated
  <2>3. \A i \in 1 .. Len(buffer) - start : buffer'[i] = buffer[start + i]
    BY SMTT(30), Z3T(30), <1>3, <2>1, <2>2
  <2>4. \A i \in 1 .. n : buffer'[Len(buffer) - start + i] = stream[fed + i]
    BY Zenon, <1>2, <1>3, <2>1, <2>2
  <2>5. start \in 0 .. start /\ start' = start - start
    BY <1>1, <2>1
  <2>6. Len(buffer') = Len(buffer) - start + n
    BY <1>3, <2>1, <2>2
  <2> QED
    BY Zenon, <2>1, <2>3, <2>4, <2>5, <2>6
<1>5. CASE ~ Compacts
  <2>1. buffer' = buffer \o bytes /\ start' = start /\ scanFrom' = scanFrom
    BY Zenon, <1>5 DEF Feed, FeedBuffer
  <2>2. /\ Len(buffer \o bytes) = Len(buffer) + n
        /\ \A i \in 1 .. Len(buffer) : (buffer \o bytes)[i] = buffer[i]
        /\ \A i \in 1 .. n : (buffer \o bytes)[Len(buffer) + i] = bytes[i]
    BY <1>1, <1>2, Concatenated
  <2> HIDE DEF bytes
  <2>3. \A i \in 1 .. Len(buffer) - 0 : buffer'[i] = buffer[0 + i]
    BY SMTT(30), Z3T(30), <1>1, <2>1, <2>2
  <2>4. \A i \in 1 .. n : buffer'[Len(buffer) - 0 + i] = stream[fed + i]
    BY SMTT(30), Z3T(30), <1>1, <1>2, <2>1, <2>2
  <2>5. 0 \in 0 .. start /\ start' = start - 0 /\ scanFrom' = scanFrom - 0
    BY <1>1, <2>1
  <2>6. Len(buffer') = Len(buffer) - 0 + n
    BY <1>1, <2>1, <2>2
  <2> QED
    BY Zenon, <2>3, <2>4, <2>5, <2>6
<1> QED
  BY Zenon, <1>4, <1>5

LEMMA FeedScanInv ==
  ASSUME ScanInv, NEW n \in 1 .. Len(stream) - fed, Feed(n)
  PROVE  ScanInv'
<1>1. Inv /\ Inv'
  BY FeedInv DEF ScanInv
<1>2. /\ buffer \in Seq(Byte) /\ fed \in Nat /\ start \in Nat
      /\ scanFrom \in Nat /\ streamOffset \in Nat /\ Len(buffer) \in Nat
      /\ start <= scanFrom /\ scanFrom <= Len(buffer) /\ n \in Nat
  BY DEF ScanInv, Inv, TypeOK, IndicesInBounds
<1>3. buffer' \in Seq(Byte) /\ start' \in Nat /\ scanFrom' \in Nat
  BY <1>1 DEF Inv, TypeOK
<1>4. fed' = fed + n /\ stream' = stream /\ streamOffset' = streamOffset /\ state' = state
  BY DEF Feed
<1>5. CASE state = "Failed"
  BY SMTT(30), Z3T(30), <1>1, <1>4, <1>5 DEF ScanInv, ResumeLosesNoHeadEnd
<1>6. CASE state # "Failed"
  <2>1. PICK k \in 0 .. start :
           /\ start' = start - k
           /\ scanFrom' = scanFrom - k
           /\ Len(buffer') = Len(buffer) - k + n
           /\ \A i \in 1 .. Len(buffer) - k : buffer'[i] = buffer[k + i]
           /\ \A i \in 1 .. n : buffer'[Len(buffer) - k + i] = stream[fed + i]
    BY SMTT(30), Z3T(30), <1>1, <1>6, FeedShifts
  <2>2. k \in Nat /\ k <= start
    BY <1>2
  <2>3. /\ fed - streamOffset = Len(buffer) - start
        /\ \A i \in 1 .. Len(buffer) - start : buffer[start + i] = stream[streamOffset + i]
    BY <1>6 DEF ScanInv, SameBytes
  <2>4. SameBytes'
    <3>0. Len(buffer') = Len(buffer) - k + n /\ start' = start - k
      BY <2>1
    <3>1. fed' - streamOffset' = Len(buffer') - start'
      BY SMTT(30), Z3T(30), <1>2, <1>4, <2>2, <2>3, <3>0
    <3>2. ASSUME NEW i \in 1 .. Len(buffer') - start'
          PROVE  buffer'[start' + i] = stream'[streamOffset' + i]
      <4>0. i \in Nat /\ 1 <= i /\ i <= Len(buffer) + n - start
        BY SMTT(30), Z3T(30), <1>2, <2>1, <2>2
      <4>1. CASE i <= Len(buffer) - start
        <5>1. start' + i \in 1 .. Len(buffer) - k /\ k + (start' + i) = start + i
          BY SMTT(30), Z3T(30), <1>2, <2>1, <2>2, <4>0, <4>1
        <5>2. buffer'[start' + i] = buffer[start + i]
          BY Zenon, <2>1, <5>1
        <5>3. i \in 1 .. Len(buffer) - start
          BY SMTT(30), Z3T(30), <1>2, <4>0, <4>1
        <5> QED
          BY SMTT(30), Z3T(30), <1>4, <2>3, <5>2, <5>3
      <4>2. CASE ~ (i <= Len(buffer) - start)
        <5> DEFINE j == i - (Len(buffer) - start)
        <5>1. j \in 1 .. n
          BY <1>2, <4>0, <4>2
        <5>2. start' + i = Len(buffer) - k + j
          BY SMTT(30), Z3T(30), <1>2, <2>1, <2>2, <4>0
        <5>3. fed + j = streamOffset + i
          BY SMTT(30), Z3T(30), <1>2, <2>3, <4>0
        <5> HIDE DEF j
        <5> QED
          BY SMTT(30), Z3T(30), <1>4, <2>1, <5>1, <5>2, <5>3
      <4> QED
        BY <4>1, <4>2
    <3> QED
      BY <3>1, <3>2 DEF SameBytes
  <2>5. ResumeLosesNoHeadEnd'
    <3> SUFFICES ASSUME state = "Head", NEW m \in start' .. scanFrom' - 1
                 PROVE  ~ EndsHead(buffer', m) /\ ~ Undecided(buffer', m)
      BY <1>4 DEF ResumeLosesNoHeadEnd
    <3>1. m \in Nat /\ k + m \in start .. scanFrom - 1
      BY SMTT(30), Z3T(30), <1>2, <1>3, <2>1, <2>2
    <3>2. ~ EndsHead(buffer, k + m) /\ ~ Undecided(buffer, k + m)
      BY <3>1 DEF ScanInv, ResumeLosesNoHeadEnd
    <3>3. k + m < Len(buffer) /\ Len(buffer) - k <= Len(buffer')
      BY SMTT(30), Z3T(30), <1>2, <2>1, <2>2, <3>1
    <3> QED
      BY SMTT(30), Z3T(30), <1>2, <1>3, <2>1, <2>2, <3>1, <3>2, <3>3, DecidedStaysDecided
  <2>6. state' = "Body" => scanFrom' = start'
    BY <1>2, <1>4, <2>1, <2>2 DEF ScanInv
  <2> QED
    BY SMTT(30), Z3T(30), <1>1, <2>4, <2>5, <2>6 DEF ScanInv
<1> QED
  BY <1>5, <1>6

\* The state after the bytes up to offset `to` of the buffer were consumed.
LEMMA ConsumedSameBytes ==
  ASSUME Inv, SameBytes, NEW to \in start .. Len(buffer),
         start' = to, streamOffset' = streamOffset + (to - start),
         buffer' = buffer, UNCHANGED <<stream, fed>>
  PROVE  SameBytes'
<1>1. /\ fed \in Nat /\ start \in Nat /\ streamOffset \in Nat /\ Len(buffer) \in Nat
      /\ to \in Nat /\ start <= to /\ to <= Len(buffer)
  BY DEF Inv, TypeOK
<1>2. fed' - streamOffset' = Len(buffer') - start'
  BY <1>1 DEF SameBytes
<1>3. ASSUME NEW i \in 1 .. Len(buffer') - start'
      PROVE  buffer'[start' + i] = stream'[streamOffset' + i]
  <2> DEFINE j == i + (to - start)
  <2>1. j \in 1 .. Len(buffer) - start /\ start' + i = start + j
        /\ streamOffset' + i = streamOffset + j
    BY <1>1
  <2> HIDE DEF j
  <2> QED
    BY <2>1 DEF SameBytes
<1> QED
  BY Zenon, <1>2, <1>3 DEF SameBytes

\* After fail() the buffer is empty and nothing is promised about it.
LEMMA FailScanInv ==
  ASSUME Inv', NEW status, NEW skipped, Fail(status, skipped)
  PROVE  ScanInv'
  BY DEF Fail, ScanInv, ResumeLosesNoHeadEnd

\* Parking scan_from_ at the first undecided line end, or at the end of the
\* buffer when there is none, skips no line end that could still end the head.
LEMMA AwaitHeadScanInv ==
  ASSUME ScanInv, Inv', state = "Head", NEW skipped \in start .. Len(buffer),
         NEW scan \in skipped .. Len(buffer), AwaitHead(skipped, scan),
         \A m \in Larger(scanFrom, skipped) .. scan - 1 :
            ~ EndsHead(buffer, m) /\ ~ Undecided(buffer, m),
         UNCHANGED <<stream, fed>>
  PROVE  ScanInv'
<1>1. CASE Len(buffer) - skipped > MaxHeaderBytes
  BY SMTT(30), Z3T(30), <1>1, FailScanInv DEF AwaitHead
<1>2. CASE ~ (Len(buffer) - skipped > MaxHeaderBytes)
  <2>1. /\ start' = skipped /\ streamOffset' = streamOffset + (skipped - start)
        /\ scanFrom' = scan /\ buffer' = buffer /\ state' = state
    BY SMTT(30), Z3T(30), <1>2 DEF AwaitHead
  <2>2. SameBytes'
    BY <2>1, ConsumedSameBytes DEF ScanInv
  <2>3. ASSUME NEW m \in skipped .. scan - 1
        PROVE  ~ EndsHead(buffer, m) /\ ~ Undecided(buffer, m)
    <3>1. scanFrom \in Nat /\ start \in Nat /\ skipped \in Nat /\ scan \in Nat /\ m \in Nat
      BY SMTT(30), Z3T(30) DEF ScanInv, Inv, TypeOK
    <3>2. CASE m < scanFrom
      BY <3>1, <3>2 DEF ScanInv, ResumeLosesNoHeadEnd
    <3>3. CASE m >= scanFrom
      BY <3>1, <3>3 DEF Larger
    <3> QED
      BY SMTT(30), Z3T(30), <3>1, <3>2, <3>3
  <2> QED
    BY SMTT(30), Z3T(30), <2>1, <2>2, <2>3 DEF ScanInv, ResumeLosesNoHeadEnd
<1> QED
  BY <1>1, <1>2

\* Taking a body leaves nothing searched behind start_, provided the search has
\* not run past the end of the head.
LEMMA TakeBodyScanInv ==
  ASSUME ScanInv, Inv', state # "Failed", NEW req,
         NEW bodyStart \in start .. Len(buffer), scanFrom <= bodyStart,
         NEW length \in 0 .. MaxBodyBytes, TakeBody(req, bodyStart, length),
         UNCHANGED <<stream, fed>>
  PROVE  ScanInv'
<1>1. /\ start \in Nat /\ scanFrom \in Nat /\ Len(buffer) \in Nat /\ bodyStart \in Nat
      /\ length \in Nat /\ buffer' = buffer
  BY Limits DEF ScanInv, Inv, TypeOK, TakeBody
<1>2. ASSUME NEW to \in bodyStart .. Len(buffer), ConsumeTo(to), state' \in {"Head", "Body"}
      PROVE  ScanInv'
  <2>1. start' = to /\ streamOffset' = streamOffset + (to - start) /\ to \in start .. Len(buffer)
    BY <1>1, <1>2 DEF ConsumeTo
  <2>2. scanFrom' = to
    BY <1>1, <1>2 DEF ConsumeTo, Larger
  <2>3. SameBytes'
    BY SMTT(30), Z3T(30), <1>1, <2>1, ConsumedSameBytes DEF ScanInv
  <2>4. ResumeLosesNoHeadEnd'
    BY <1>1, <2>1, <2>2 DEF ResumeLosesNoHeadEnd
  <2> QED
    BY SMTT(30), Z3T(30), <2>1, <2>2, <2>3, <2>4 DEF ScanInv
<1>3. CASE Len(buffer) - bodyStart < length
  BY <1>1, <1>2, <1>3 DEF TakeBody
<1>4. CASE ~ (Len(buffer) - bodyStart < length)
  <2>1. bodyStart + length \in bodyStart .. Len(buffer)
    BY <1>1, <1>4
  <2> QED
    BY SMTT(30), Z3T(30), <1>2, <1>4, <2>1 DEF TakeBody
<1> QED
  BY SMTT(30), Z3T(30), <1>3, <1>4

\* A nonempty set of naturals has a least element.
LEMMA LeastElement ==
  ASSUME NEW T \in SUBSET Nat, T # {}
  PROVE  \E x \in T : \A y \in T : x <= y
<1>1. PICK x \in T : \A y \in T : ~ (<<y, x>> \in OpToRel(<, Nat))
  BY Zenon, NatLessThanWellFounded, WFMin
<1>2. \A y \in T : ~ (y < x)
  BY Zenon, <1>1 DEF OpToRel
<1> QED
  BY <1>2

\* The scan of find_end_of_head stops if there is anywhere to stop.
LEMMA ScanStops ==
  ASSUME NEW b \in Seq(Byte), NEW pos \in Nat, NEW m \in pos .. Len(b) - 1,
         EndsHead(b, m) \/ Undecided(b, m)
  PROVE  \E n \in pos .. Len(b) - 1 : StopsAt(b, pos, n)
<1> DEFINE T == {n \in pos .. Len(b) - 1 : EndsHead(b, n) \/ Undecided(b, n)}
<1>1. Len(b) \in Nat
  OBVIOUS
<1>2. T \in SUBSET Nat /\ m \in T
  BY <1>1
<1>3. PICK x \in T : \A y \in T : x <= y
  BY Zenon, <1>2, LeastElement
<1>4. ASSUME NEW y \in pos .. x - 1 PROVE ~ EndsHead(b, y) /\ ~ Undecided(b, y)
  <2>1. y \in pos .. Len(b) - 1 /\ ~ (x <= y)
    BY <1>1, <1>3
  <2> QED
    BY SMTT(30), Z3T(30), <1>3, <2>1
<1> QED
  BY <1>3, <1>4 DEF StopsAt

LEMMA NextInHeadScanInv ==
  ASSUME ScanInv, NextInHead
  PROVE  ScanInv'
<1>1. PICK skipped \in start .. Len(buffer) :
        FindEndOfHead(skipped, Larger(scanFrom, skipped))
  BY DEF NextInHead
<1> DEFINE pos == Larger(scanFrom, skipped)
<1>2. /\ buffer \in Seq(Byte) /\ start \in Nat /\ scanFrom \in Nat /\ Len(buffer) \in Nat
      /\ skipped \in Nat
  BY DEF ScanInv, Inv, TypeOK
<1>3. pos \in Nat /\ pos \in skipped .. Len(buffer) /\ scanFrom <= pos
  BY <1>2 DEF ScanInv, Inv, IndicesInBounds, Larger
<1>4. Inv' /\ UNCHANGED <<stream, fed>> /\ state = "Head"
  BY NextInHeadInv DEF ScanInv, NextInHead
<1>5. CASE \A n \in pos .. Len(buffer) - 1 : ~ StopsAt(buffer, pos, n)
  <2>1. AwaitHead(skipped, Len(buffer))
    BY <1>1, <1>5 DEF FindEndOfHead
  <2>2. \A m \in pos .. Len(buffer) - 1 : ~ EndsHead(buffer, m) /\ ~ Undecided(buffer, m)
    BY SMTT(30), Z3T(30), <1>2, <1>3, <1>5, ScanStops
  <2>3. Len(buffer) \in skipped .. Len(buffer)
    BY <1>2
  <2> QED
    BY SMTT(30), Z3T(30), <1>4, <2>1, <2>2, <2>3, AwaitHeadScanInv
<1>6. ASSUME NEW n \in pos .. Len(buffer) - 1, StopsAt(buffer, pos, n),
             IF EndsHead(buffer, n) THEN TakeHead(skipped, HeadEnd(buffer, n))
                                    ELSE AwaitHead(skipped, n)
      PROVE  ScanInv'
  <2>1. n \in Nat /\ n \in skipped .. Len(buffer)
    BY SMTT(30), Z3T(30), <1>2, <1>3
  <2>2. CASE ~ EndsHead(buffer, n)
    <3>1. \A m \in pos .. n - 1 : ~ EndsHead(buffer, m) /\ ~ Undecided(buffer, m)
      BY SMTT(30), Z3T(30), <1>6 DEF StopsAt
    <3> QED
      BY SMTT(30), Z3T(30), <1>4, <1>6, <2>1, <2>2, <3>1, AwaitHeadScanInv
  <2>3. CASE EndsHead(buffer, n)
    <3> DEFINE e == HeadEnd(buffer, n)
               head == ParseHead(SubSeq(buffer, skipped + 1, e))
               req == [begin |-> streamOffset + (skipped - start), headBytes |-> e - skipped]
    <3>1. e \in start .. Len(buffer) /\ scanFrom <= e
      BY SMTT(30), Z3T(30), <1>2, <1>3, <2>1, <2>3, HeadEndInBuffer
    <3>2. TakeHead(skipped, e)
      BY SMTT(30), Z3T(30), <1>6, <2>3
    <3>3. head.bodyLength \in 0 .. MaxBodyBytes
      BY SMTT(30), Z3T(30), ParseHeadType
    <3>4. \/ \E status : Fail(status, skipped)
          \/ TakeBody(req, e, head.bodyLength)
      BY SMTT(30), Z3T(30), <3>2 DEF TakeHead
    <3> HIDE DEF e, head, req
    <3> QED
      BY SMTT(30), Z3T(30), <1>4, <3>1, <3>3, <3>4, FailScanInv, TakeBodyScanInv
  <2> QED
    BY SMTT(30), Z3T(30), <2>2, <2>3
<1> QED
  BY SMTT(30), Z3T(30), <1>1, <1>5, <1>6 DEF FindEndOfHead

LEMMA NextScanInv == ScanInv /\ [Next]_vars => ScanInv'
<1> SUFFICES ASSUME ScanInv, [Next]_vars PROVE ScanInv'
  OBVIOUS
<1>1. Inv'
  BY SMTT(30), Z3T(30), NextInv DEF ScanInv
<1>2. ASSUME NEW n \in 1 .. Len(stream) - fed, Feed(n) PROVE ScanInv'
  BY <1>2, FeedScanInv
<1>3. CASE NextInHead
  BY <1>3, NextInHeadScanInv
<1>4. CASE NextInBody
  <2>1. /\ start \in start .. Len(buffer) /\ bodyLength \in 0 .. MaxBodyBytes
        /\ TakeBody(pending, start, bodyLength) /\ UNCHANGED <<stream, fed>>
        /\ state = "Body"
    BY SMTT(30), Z3T(30), <1>4 DEF NextInBody, ScanInv, Inv, TypeOK, IndicesInBounds
  <2>2. scanFrom <= start
    BY <2>1 DEF ScanInv, Inv, TypeOK
  <2>3. state # "Failed"
    BY <2>1
  <2> QED
    BY SMTT(30), Z3T(30), <1>1, <2>1, <2>2, <2>3, TakeBodyScanInv
<1>5. CASE NextFailed
  BY SMTT(30), Z3T(30), <1>1, <1>5 DEF NextFailed, ScanInv, ResumeLosesNoHeadEnd
<1>6. CASE UNCHANGED vars
  BY SMTT(30), Z3T(30), <1>1, <1>6 DEF vars, ScanInv, SameBytes, ResumeLosesNoHeadEnd
<1> QED
  BY <1>2, <1>3, <1>4, <1>5, <1>6 DEF Next

\* However the stream is cut into chunks, and however often the buffer is
\* compacted, no byte is lost or repeated (feed() and consume()).
THEOREM BufferHoldsTheStream == Spec => []BufferIsStreamSuffix
<1>1. ScanInv => BufferIsStreamSuffix
  <2> SUFFICES ASSUME ScanInv, state # "Failed"
               PROVE  SubSeq(buffer, start + 1, Len(buffer)) = SubSeq(stream, streamOffset + 1, fed)
    BY Zenon DEF BufferIsStreamSuffix
  <2> DEFINE s == SubSeq(buffer, start + 1, Len(buffer))
             t == SubSeq(stream, streamOffset + 1, fed)
  <2>1. /\ buffer \in Seq(Byte) /\ stream \in Seq(Byte) /\ start \in Nat /\ streamOffset \in Nat
        /\ fed \in Nat /\ fed <= Len(stream) /\ Len(buffer) \in Nat /\ start <= Len(buffer)
    BY DEF ScanInv, Inv, TypeOK, IndicesInBounds
  <2>2. fed - streamOffset = Len(buffer) - start
    BY SMTT(30), Z3T(30) DEF ScanInv, SameBytes
  <2>3. /\ s \in Seq(Byte) /\ Len(s) = Len(buffer) - start
        /\ \A i \in 1 .. Len(buffer) - start : s[i] = buffer[start + i]
    BY SMTT(30), Z3T(30), <2>1, Slice
  <2>4. streamOffset <= fed
    BY <2>1, <2>2
  <2>5. /\ t \in Seq(Byte) /\ Len(t) = fed - streamOffset
        /\ \A i \in 1 .. fed - streamOffset : t[i] = stream[streamOffset + i]
    BY SMTT(30), Z3T(30), <2>1, <2>4, Slice
  <2> HIDE DEF s, t
  <2>6. \A i \in 1 .. Len(s) : s[i] = t[i]
    BY SMTT(30), Z3T(30), <2>2, <2>3, <2>5 DEF ScanInv, SameBytes
  <2>7. s = t
    BY SMTT(30), Z3T(30), <2>2, <2>3, <2>5, <2>6, SeqEqual
  <2> QED
    BY Zenon, <2>7 DEF s, t
<1> QED
  BY InitScanInv, NextScanInv, <1>1, PTL DEF Spec

\* find_end_of_head may resume at scan_from_: no line end before it can end the
\* head, whatever arrives (request_parser.cpp:257-278).
THEOREM ResumeIsSafe == Spec => []ResumeLosesNoHeadEnd
<1>1. ScanInv => ResumeLosesNoHeadEnd
  BY DEF ScanInv
<1> QED
  BY InitScanInv, NextScanInv, <1>1, PTL DEF Spec

=============================================================================
