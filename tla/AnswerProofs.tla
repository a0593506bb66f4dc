---------------------------- MODULE AnswerProofs ----------------------------
(***************************************************************************)
(* That a connection answers the requests of its client: one response for  *)
(* each, whole, in order and of the right kind, and all of them before an  *)
(* orderly close, for all requests, limits, buffer sizes and clients.      *)
(*                                                                         *)
(* The argument follows a byte through the connection.  On the way in,     *)
(* InputProofs shows that next() consumes exactly one request.  On the way *)
(* out, queueing is the only step that changes Outgoing, by one whole      *)
(* response.                                                               *)
(***************************************************************************)
EXTENDS InputProofs

\* What has been queued is one response for each request answered.
OutputOrdered ==
  /\ ResponsesAnswerRequests
  /\ requests = 0 => Outgoing = <<>>
  /\ lost => wire = <<>>

-----------------------------------------------------------------------------
\* What is dropped from the front of a concatenation comes from its first part.
LEMMA DropOfConcat ==
  ASSUME NEW S, NEW s \in Seq(S), NEW t \in Seq(S), NEW n \in 0 .. Len(s)
  PROVE  Drop(s \o t, n) = Drop(s, n) \o t
<1> DEFINE a == Take(s, n)
           b == Drop(s, n)
<1>1. a \in Seq(S) /\ b \in Seq(S) /\ Len(a) = n /\ a \o b = s /\ Len(b) \in Nat /\ Len(t) \in Nat
  BY Zenon, TakeDrop, TakeThenDrop, LenProperties
<1> HIDE DEF a, b
<1>2. s \o t = a \o (b \o t)
  <2>1. a \in Seq(S) /\ b \in Seq(S)
    BY <1>1
  <2>2. (a \o b) \o t = a \o (b \o t)
    BY SMTT(30), Z3T(30), <2>1, Associativity
  <2> QED
    BY <1>1, <2>2
<1>3. b \o t \in Seq(S)
  BY <1>1, Concatenation
<1>4. \A v \in Seq(S) : SubSeq(a \o v, n + 1, Len(a \o v)) = v
  BY <1>1, SMT
<1> QED
  BY Zenon, <1>2, <1>3, <1>4 DEF b, Drop

\* The parts of Outgoing are sequences of response bytes.
LEMMA OutgoingIs ==
  ASSUME TypeOK
  PROVE  /\ got \in Seq(ResponseByte) /\ wire \in Seq(ResponseByte)
         /\ Drop(output, outputSent) \in Seq(ResponseByte)
         /\ Outgoing \in Seq(ResponseByte) /\ Len(Outgoing) \in Nat
         /\ \A i \in 1 .. Len(Outgoing) : Outgoing[i] \in ResponseByte
         /\ ~ lost => Outgoing = got \o (wire \o Drop(output, outputSent))
         /\ lost => Outgoing = got
<1>1. /\ got \in Seq(ResponseByte) /\ wire \in Seq(ResponseByte)
      /\ output \in Seq(ResponseByte) /\ outputSent \in 0 .. Len(output) /\ lost \in BOOLEAN
  BY DEF TypeOK
<1>2. Drop(output, outputSent) \in Seq(ResponseByte)
  BY <1>1, TakeDrop
<1>3. wire \o Drop(output, outputSent) \in Seq(ResponseByte)
  BY <1>1, <1>2, OutputConcatenation
<1>4. ~ lost => Outgoing = got \o (wire \o Drop(output, outputSent))
  BY Zenon DEF Outgoing
<1>5. got \o (wire \o Drop(output, outputSent)) \in Seq(ResponseByte)
  BY <1>1, <1>3, OutputConcatenation
<1>6. lost => Outgoing = got
  BY <1>1, ConcatEmptySeq DEF Outgoing
<1>7. Outgoing \in Seq(ResponseByte)
  BY Zenon, <1>1, <1>4, <1>5, <1>6
<1>8. Len(Outgoing) \in Nat /\ \A i \in 1 .. Len(Outgoing) : Outgoing[i] \in ResponseByte
  BY <1>7, LenProperties, ElementOfSeq
<1> QED
  BY SMTT(30), Z3T(30), <1>1, <1>2, <1>4, <1>6, <1>7, <1>8

\* send() moves bytes from output_ to the kernel.
LEMMA SendKeepsOutgoing ==
  ASSUME TypeOK, SendSome
  PROVE  Outgoing' = Outgoing
<1> DEFINE n == Smaller(SendBuffer - Len(wire), PendingBytes)
           part == SubSeq(output, outputSent + 1, outputSent + n)
           rest == SubSeq(output, outputSent + n + 1, Len(output))
<1>1. /\ wire' = wire \o part /\ outputSent' = outputSent + n
      /\ UNCHANGED <<output, got, lost>>
  BY DEF SendSome, clientVars
<1>2. /\ wire \in Seq(ResponseByte) /\ output \in Seq(ResponseByte)
      /\ Len(wire) \in Nat /\ Len(output) \in Nat /\ outputSent \in 0 .. Len(output)
  BY LenProperties DEF TypeOK
<1>3. n \in Nat /\ outputSent + n <= Len(output)
  BY <1>2, ConstantTypes DEF SendSome, Smaller, PendingBytes
<1> HIDE DEF n
<1>4. part \o rest = SubSeq(output, outputSent + 1, Len(output))
  <2>1. /\ outputSent + 1 \in 1 .. Len(output) + 1
        /\ outputSent + n \in (outputSent + 1) - 1 .. Len(output)
        /\ Len(output) \in outputSent + n .. Len(output)
    BY <1>2, <1>3
  <2> QED
    BY Zenon, <1>2, <2>1, ConcatAdjacentSubSeq
<1>5. part \in Seq(ResponseByte) /\ rest \in Seq(ResponseByte)
  <2>1. \A i \in 1 .. Len(output) : output[i] \in ResponseByte
    BY <1>2, ElementOfSeq
  <2>2. \A i \in outputSent + 1 .. outputSent + n : output[i] \in ResponseByte
    BY <1>2, <1>3, <2>1
  <2>3. \A i \in outputSent + n + 1 .. Len(output) : output[i] \in ResponseByte
    BY <1>2, <1>3, <2>1
  <2> QED
    BY SMTT(30), Z3T(30), <1>2, <1>3, <2>2, <2>3, SubSeqProperties
<1>6. Drop(output, outputSent) = part \o rest /\ Drop(output', outputSent') = rest
  BY <1>1, <1>4, Zenon DEF Drop
<1> HIDE DEF part, rest
<1>7. (wire \o part) \o rest = wire \o (part \o rest)
  BY Zenon, <1>2, <1>5, OutputAssociativity
<1>8. wire' \o Drop(output', outputSent') = wire \o Drop(output, outputSent)
  BY <1>1, <1>6, <1>7
<1> QED
  BY Zenon, <1>1, <1>8 DEF Outgoing

\* Compaction drops only bytes that were sent.
LEMMA CompactionKeepsOutgoing ==
  ASSUME TypeOK, FlushEnds
  PROVE  Outgoing' = Outgoing
<1>1. UNCHANGED <<wire, got, lost>> /\ CompactOutput
  BY DEF FlushEnds, clientVars
<1>2. CASE UNCHANGED <<output, outputSent>>
  BY <1>1, <1>2 DEF Outgoing, Drop
<1>3. CASE output' = Drop(output, outputSent) /\ outputSent' = 0
  <2>1. output' \in Seq(ResponseByte)
    BY <1>3, OutgoingIs
  <2>2. SubSeq(output', 1, Len(output')) = output'
    BY <2>1, SubSeqFull
  <2>3. Drop(output', outputSent') = Drop(output, outputSent)
    BY <1>3, <2>2, 0 + 1 = 1, Zenon DEF Drop
  <2> QED
    BY <1>1, <2>3 DEF Outgoing
<1> QED
  BY <1>1, <1>2, <1>3 DEF CompactOutput

\* The client reads the first byte of what is on its way.
LEMMA ReadingKeepsOutgoing ==
  ASSUME TypeOK, ClientReads, lost => wire = <<>>
  PROVE  Outgoing' = Outgoing
<1> DEFINE h == <<Head(wire)>>
           t == Tail(wire)
           d == Drop(output, outputSent)
<1>1. /\ ~ lost /\ lost' = lost /\ got' = Append(got, Head(wire)) /\ wire' = t
      /\ UNCHANGED <<output, outputSent>> /\ wire # <<>>
  BY DEF ClientReads, serverVars, outputVars
<1>2. got \in Seq(ResponseByte) /\ wire \in Seq(ResponseByte) /\ d \in Seq(ResponseByte)
  BY OutgoingIs
<1>3. Head(wire) \in ResponseByte /\ t \in Seq(ResponseByte) /\ h \o t = wire
  BY <1>1, <1>2, HeadTailProperties
<1>4. got' = got \o h /\ h \in Seq(ResponseByte)
  BY <1>1, <1>2, <1>3, AppendIsConcat
<1>5. Outgoing = got \o (wire \o d)
  BY SMTT(30), Z3T(30), <1>1, OutgoingIs
<1>6. Outgoing' = got' \o (t \o d)
  BY <1>1, Zenon DEF Outgoing, Drop
<1> HIDE DEF h, t, d
<1> DEFINE td == t \o d
<1>7. td \in Seq(ResponseByte)
  BY <1>2, <1>3, OutputConcatenation
<1>8. (h \o t) \o d = h \o td
  BY ZenonT(40), <1>2, <1>3, <1>4, OutputAssociativity
<1> HIDE DEF td
<1>9. (got \o h) \o td = got \o (h \o td)
  <2>1. got \in Seq(ResponseByte) /\ h \in Seq(ResponseByte) /\ td \in Seq(ResponseByte)
    BY <1>2, <1>4, <1>7
  <2> QED
    BY <2>1, OutputAssociativity
<1> QED
  BY <1>3, <1>4, <1>5, <1>6, <1>8, <1>9 DEF td

\* queue_response appends one serialized response to what the client will read.
LEMMA QueueAppends ==
  ASSUME TypeOK, NEW resp \in ResponseType, QueueResponse(resp), ~ lost,
         UNCHANGED <<got, wire, lost>>
  PROVE  Outgoing' = Outgoing \o Serialize(resp)
<1> DEFINE d == Drop(output, outputSent)
           more == Serialize(resp)
<1>1. output' = output \o more /\ outputSent' = outputSent
  BY DEF QueueResponse
<1>2. /\ output \in Seq(ResponseByte) /\ outputSent \in 0 .. Len(output)
      /\ got \in Seq(ResponseByte) /\ wire \in Seq(ResponseByte) /\ d \in Seq(ResponseByte)
  BY OutgoingIs DEF TypeOK
<1>3. more \in Seq(ResponseByte)
  BY SerializeBytes
<1>4. Outgoing = got \o (wire \o d)
  BY SMTT(30), Z3T(30), OutgoingIs
<1>5. Outgoing' = got \o (wire \o Drop(output', outputSent'))
  BY Zenon DEF Outgoing, Drop
<1> HIDE DEF more
<1>6. Drop(output', outputSent') = d \o more
  BY SMTT(30), Z3T(30), <1>1, <1>2, <1>3, DropOfConcat
<1> HIDE DEF d
<1> DEFINE wd == wire \o d
<1>7. wd \in Seq(ResponseByte)
  BY <1>2, OutputConcatenation
<1>8. wd \o more = wire \o (d \o more)
  <2>1. wire \in Seq(ResponseByte) /\ d \in Seq(ResponseByte) /\ more \in Seq(ResponseByte)
    BY <1>2, <1>3
  <2> QED
    BY SMTT(30), Z3T(30), <2>1, OutputAssociativity
<1>9. Outgoing = got \o wd
  BY <1>4
<1> HIDE DEF wd
<1>10. (got \o wd) \o more = got \o (wd \o more)
  <2>1. got \in Seq(ResponseByte) /\ wd \in Seq(ResponseByte) /\ more \in Seq(ResponseByte)
    BY <1>2, <1>3, <1>7
  <2> QED
    BY SMTT(30), Z3T(30), <2>1, OutputAssociativity
<1>11. Outgoing' = got \o (wd \o more)
  BY <1>5, <1>6, <1>8
<1> QED
  BY <1>9, <1>10, <1>11 DEF more

\* The j-th response is what the client's j-th request calls for.
Matches(resp) ==
  /\ resp.num <= Len(sent)
  /\ \/ resp.status = "408" /\ resp.close
     \/ /\ resp.status = "refused" <=> Refused(sent[resp.num])
        /\ resp.close <=> ClosesConnection(sent[resp.num])
        /\ resp.bytes = IF ~ Refused(sent[resp.num]) /\ sent[resp.num].method = "HEAD"
                        THEN ResponseHeadBytes ELSE FullLength

\* ResponsesMatchRequests, response by response.
LEMMA MatchesIs ==
  /\ ResponsesMatchRequests <=> \A i \in 1 .. Len(Outgoing) : Matches(Outgoing[i].of)
  /\ ResponsesMatchRequests' <=> (\A i \in 1 .. Len(Outgoing) : Matches(Outgoing[i].of))'
  BY Zenon DEF ResponsesMatchRequests, Matches

\* A response goes on matching its request when the client sends more.
LEMMA MatchesStays ==
  ASSUME TypeOK, NEW resp \in ResponseType, Matches(resp),
         Len(sent') >= Len(sent), Len(sent') \in Nat,
         \A k \in 1 .. Len(sent) : sent'[k] = sent[k]
  PROVE  Matches(resp)'
<1>1. resp.num \in 1 .. Len(sent) /\ Len(sent) \in Nat
  BY SentRequests DEF ResponseType, Matches
<1>2. sent'[resp.num] = sent[resp.num] /\ resp.num <= Len(sent')
  BY <1>1 DEF ResponseType
<1> QED
  BY Zenon, <1>2 DEF Matches, Refused, ClosesConnection

\* Steps that leave the bytes for the client alone, or erase a suffix of them,
\* keep them in order.
LEMMA SameOutgoing ==
  ASSUME TypeOK, TypeOK', OutputOrdered, requests' = requests, lost => lost',
         Len(Outgoing') <= Len(Outgoing), ~ lost' => Len(Outgoing') = Len(Outgoing),
         \A i \in 1 .. Len(Outgoing') : Outgoing'[i] = Outgoing[i],
         lost' => wire' = <<>>, state # "Active" => state' # "Active",
         PhaseAndStep',
         Len(sent') >= Len(sent), \A k \in 1 .. Len(sent) : sent'[k] = sent[k]
  PROVE  OutputOrdered'
<1>1. /\ Outgoing \in Seq(ResponseByte) /\ Len(Outgoing) \in Nat
      /\ \A i \in 1 .. Len(Outgoing) : Outgoing[i] \in ResponseByte
  BY OutgoingIs
<1>2. Outgoing' \in Seq(ResponseByte) /\ Len(Outgoing') \in Nat
  <2>1. got' \in Seq(ResponseByte) /\ wire' \in Seq(ResponseByte) /\ lost' \in BOOLEAN
        /\ output' \in Seq(ResponseByte) /\ outputSent' \in 0 .. Len(output')
    BY DEF TypeOK
  <2>2. Drop(output', outputSent') \in Seq(ResponseByte)
    BY <2>1, TakeDrop
  <2>3. wire' \o Drop(output', outputSent') \in Seq(ResponseByte)
    BY Zenon, <2>1, <2>2, OutputConcatenation
  <2>4. got' \o (wire' \o Drop(output', outputSent')) \in Seq(ResponseByte)
        /\ got' \o <<>> \in Seq(ResponseByte)
    BY <2>1, <2>3, OutputConcatenation
  <2>5. Outgoing' \in Seq(ResponseByte)
    BY <2>1, <2>4, Zenon DEF Outgoing
  <2> QED
    BY <2>5, LenProperties
<1>3. /\ Outgoing = <<>> <=> Len(Outgoing) = 0
      /\ Outgoing' = <<>> <=> Len(Outgoing') = 0
  BY <1>1, <1>2, EmptySeq
<1>4. \A i \in 1 .. Len(Outgoing') : i \in 1 .. Len(Outgoing) /\ Outgoing'[i] = Outgoing[i]
  BY <1>1, <1>2
<1>5. ResponsesInOrder'
  <2>1. Outgoing' # <<>> => Outgoing'[1].of.num = 1 /\ Outgoing'[1].n = 1
    BY <1>1, <1>2, <1>3 DEF OutputOrdered, ResponsesAnswerRequests, ResponsesInOrder
  <2>2. \A i \in 1 .. Len(Outgoing') - 1 : Follows(Outgoing'[i], Outgoing'[i + 1])
    <3> SUFFICES ASSUME NEW i \in 1 .. Len(Outgoing') - 1
                 PROVE  Follows(Outgoing'[i], Outgoing'[i + 1])
      OBVIOUS
    <3>1. /\ i \in 1 .. Len(Outgoing) - 1
          /\ i \in 1 .. Len(Outgoing') /\ i + 1 \in 1 .. Len(Outgoing')
      BY <1>1, <1>2
    <3>2. Follows(Outgoing[i], Outgoing[i + 1])
      BY <3>1 DEF OutputOrdered, ResponsesAnswerRequests, ResponsesInOrder
    <3> QED
      BY SMTT(30), Z3T(30), <1>4, <3>1, <3>2
  <2>3. requests' > 0 /\ ~ lost' =>
          Outgoing' # <<>> /\ Last(Outgoing').of.num = requests'
                           /\ Last(Outgoing').n = Last(Outgoing').of.bytes
    <3> SUFFICES ASSUME requests > 0, ~ lost'
                 PROVE  Outgoing' # <<>> /\ Last(Outgoing').of.num = requests
                                         /\ Last(Outgoing').n = Last(Outgoing').of.bytes
      OBVIOUS
    <3>1. /\ Outgoing # <<>> /\ Last(Outgoing).of.num = requests
          /\ Last(Outgoing).n = Last(Outgoing).of.bytes
      BY DEF OutputOrdered, ResponsesAnswerRequests, ResponsesInOrder
    <3>2. Len(Outgoing') = Len(Outgoing) /\ Len(Outgoing') \in 1 .. Len(Outgoing')
      BY SMTT(30), Z3T(30), <1>1, <1>3, <3>1
    <3>3. Outgoing'[Len(Outgoing')] = Outgoing[Len(Outgoing)]
      BY <1>4, <3>2
    <3> QED
      BY SMTT(30), Z3T(30), <1>3, <3>1, <3>2, <3>3 DEF Last
  <2> QED
    BY <2>1, <2>2, <2>3, Zenon DEF ResponsesInOrder, Follows, Last
<1>6. ResponsesMatchRequests'
  <2> SUFFICES ASSUME NEW i \in 1 .. Len(Outgoing') PROVE Matches(Outgoing[i].of)'
    BY MatchesIs
  <2>1. Outgoing'[i].of = Outgoing[i].of /\ Outgoing[i] \in ResponseByte
    BY <1>1, <1>4
  <2>2. PICK resp \in ResponseType : resp = Outgoing[i].of
    BY <2>1 DEF ResponseByte
  <2>3. Matches(resp)
    BY SMTT(30), Z3T(30), <1>4, <2>2, MatchesIs DEF OutputOrdered, ResponsesAnswerRequests
  <2>4. Len(sent') \in Nat
    BY LenProperties DEF TypeOK
  <2>5. Matches(resp)'
    BY SMTT(30), Z3T(30), <2>3, <2>4, MatchesStays
  <2> QED
    BY <2>1, <2>2, <2>5, Zenon DEF Matches
<1>7. NothingFollowsFinalResponse'
  BY <1>4 DEF OutputOrdered, ResponsesAnswerRequests, NothingFollowsFinalResponse, PhaseAndStep
<1>8. (requests = 0 => Outgoing = <<>>)'
  BY <1>1, <1>2, <1>3 DEF OutputOrdered
<1> QED
  BY <1>5, <1>6, <1>7, <1>8 DEF OutputOrdered, ResponsesAnswerRequests

\* A response queued follows the ones before it and answers its request.
LEMMA QueueOrdered ==
  ASSUME TypeOK, OutputOrdered, NEW resp \in ResponseType, QueueResponse(resp),
         state = "Active", ~ lost, UNCHANGED <<got, wire, lost, sent>>,
         resp.num = requests + 1, Matches(resp), PhaseAndStep'
  PROVE  OutputOrdered'
<1> DEFINE m == Len(Outgoing)
           b == resp.bytes
           more == Serialize(resp)
<1>1. /\ Outgoing \in Seq(ResponseByte) /\ m \in Nat /\ (Outgoing = <<>> <=> m = 0)
      /\ \A i \in 1 .. m : Outgoing[i] \in ResponseByte
  BY OutgoingIs, EmptySeq
<1>2. /\ more \in Seq(ResponseByte) /\ Len(more) = b /\ b \in Nat \ {0}
      /\ \A i \in 1 .. b : more[i] = [of |-> resp, n |-> i]
  BY SerializeBytes
<1>3. Outgoing' = Outgoing \o more
  BY QueueAppends
<1>a. requests \in Nat /\ requests' = requests + 1
  BY DEF QueueResponse, TypeOK
<1> HIDE DEF more, m, b
<1>4. /\ Outgoing' \in Seq(ResponseByte) /\ Len(Outgoing') = m + b
      /\ \A i \in 1 .. m : Outgoing'[i] = Outgoing[i]
      /\ \A i \in 1 .. b : Outgoing'[m + i] = [of |-> resp, n |-> i]
  <2>1. /\ Outgoing \o more \in Seq(ResponseByte)
        /\ Len(Outgoing \o more) = Len(Outgoing) + Len(more)
        /\ \A i \in 1 .. Len(Outgoing) : (Outgoing \o more)[i] = Outgoing[i]
        /\ \A i \in 1 .. Len(more) : (Outgoing \o more)[Len(Outgoing) + i] = more[i]
    BY ZenonT(40), <1>1, <1>2, OutputConcatenation
  <2>2. m = Len(Outgoing)
    BY DEF m
  <2> QED
    BY <1>2, <1>3, <2>1, <2>2, Zenon
<1>5. Outgoing' # <<>> /\ Len(Outgoing') \in Nat
  BY <1>1, <1>2, <1>4, EmptySeq
<1>6. \A i \in 1 .. Len(Outgoing') :
        \/ i \in 1 .. m /\ Outgoing'[i] = Outgoing[i]
        \/ i - m \in 1 .. b /\ Outgoing'[i] = [of |-> resp, n |-> i - m]
  <2> SUFFICES ASSUME NEW i \in 1 .. Len(Outgoing'), i \notin 1 .. m
               PROVE  i - m \in 1 .. b /\ Outgoing'[i] = [of |-> resp, n |-> i - m]
    BY <1>4
  <2>1. i - m \in 1 .. b /\ m + (i - m) = i
    BY <1>1, <1>2, <1>4
  <2>2. Outgoing'[m + (i - m)] = [of |-> resp, n |-> i - m]
    BY <1>4, <2>1, Zenon
  <2> QED
    BY <2>1, <2>2, Zenon
<1>7. requests > 0 =>
        m > 0 /\ Outgoing[m].of.num = requests /\ Outgoing[m].n = Outgoing[m].of.bytes
  BY <1>1 DEF OutputOrdered, ResponsesAnswerRequests, ResponsesInOrder, Last, m
<1>8. requests = 0 => m = 0
  BY <1>1 DEF OutputOrdered
<1>9. Outgoing'[1].of.num = 1 /\ Outgoing'[1].n = 1
  <2>1. CASE m = 0
    <3>1. 1 \in 1 .. b /\ m + 1 = 1 /\ requests = 0
      BY <1>a, <1>2, <1>7, <2>1
    <3>2. Outgoing'[m + 1] = [of |-> resp, n |-> 1]
      BY <1>4, <3>1, Zenon
    <3> QED
      BY SMTT(30), Z3T(30), <3>1, <3>2
  <2>2. CASE m # 0
    <3>1. 1 \in 1 .. m
      BY <1>1, <2>2
    <3>2. Outgoing'[1] = Outgoing[1] /\ Outgoing # <<>>
      BY <1>1, <1>4, <2>2, <3>1, Zenon
    <3> QED
      BY Zenon, <3>2 DEF OutputOrdered, ResponsesAnswerRequests, ResponsesInOrder
  <2> QED
    BY SMTT(30), Z3T(30), <2>1, <2>2
<1>10. \A i \in 1 .. Len(Outgoing') - 1 : Follows(Outgoing'[i], Outgoing'[i + 1])
  <2> SUFFICES ASSUME NEW i \in 1 .. Len(Outgoing') - 1
               PROVE  Follows(Outgoing'[i], Outgoing'[i + 1])
    OBVIOUS
  <2>1. CASE i < m
    <3>1. i \in 1 .. m /\ i + 1 \in 1 .. m /\ i \in 1 .. Len(Outgoing) - 1
      BY SMTT(30), Z3T(30), <1>1, <2>1 DEF m
    <3>2. Follows(Outgoing[i], Outgoing[i + 1])
      BY SMTT(30), Z3T(30), <3>1 DEF OutputOrdered, ResponsesAnswerRequests, ResponsesInOrder
    <3> QED
      BY <1>4, <3>1, <3>2, Zenon
  <2>2. CASE i = m
    <3>1. 1 \in 1 .. b /\ m \in 1 .. m /\ requests > 0
      BY SMTT(30), Z3T(30), <1>a, <1>1, <1>2, <1>8, <2>2
    <3>2. Outgoing'[i + 1] = [of |-> resp, n |-> 1] /\ Outgoing'[i] = Outgoing[m]
      BY <1>4, <2>2, <3>1, Zenon
    <3>3. Outgoing[m].of.num = requests /\ Outgoing[m].n = Outgoing[m].of.bytes
      BY SMTT(30), Z3T(30), <1>7, <3>1
    <3>4. Outgoing[m].of.bytes \in Nat
      BY SMTT(30), Z3T(30), <1>1, <3>1, ConstantTypes DEF ResponseByte, ResponseType
    <3> QED
      BY SMTT(30), Z3T(30), <3>2, <3>3, <3>4 DEF Follows
  <2>3. CASE i > m
    <3> DEFINE j == i - m
    <3>1. j \in 1 .. b /\ j + 1 \in 1 .. b /\ j < b /\ m + j = i /\ m + (j + 1) = i + 1
      BY SMTT(30), Z3T(30), <1>1, <1>2, <1>4, <2>3
    <3> HIDE DEF j
    <3>2. Outgoing'[m + j] = [of |-> resp, n |-> j]
          /\ Outgoing'[m + (j + 1)] = [of |-> resp, n |-> j + 1]
      BY <1>4, <3>1, Zenon
    <3>3. Outgoing'[i] = [of |-> resp, n |-> j] /\ Outgoing'[i + 1] = [of |-> resp, n |-> j + 1]
      BY <3>1, <3>2, Zenon
    <3>4. j < resp.bytes
      BY <3>1 DEF b
    <3> QED
      BY <3>3, <3>4 DEF Follows
  <2> QED
    BY SMTT(30), Z3T(30), <1>1, <1>2, <1>4, <2>1, <2>2, <2>3
<1>11. /\ Last(Outgoing').of.num = requests'
       /\ Last(Outgoing').n = Last(Outgoing').of.bytes
  <2>1. b \in 1 .. b
    BY <1>2
  <2>2. Outgoing'[m + b] = [of |-> resp, n |-> b]
    BY <1>4, <2>1, Zenon
  <2>3. Last(Outgoing') = [of |-> resp, n |-> b]
    BY <1>4, <2>2, Zenon DEF Last
  <2> QED
    BY <1>a, <2>3 DEF b
<1>12. ResponsesInOrder'
  BY <1>5, <1>9, <1>10, <1>11, Zenon DEF ResponsesInOrder, Follows, Last
<1>13. ResponsesMatchRequests'
  <2> SUFFICES ASSUME NEW i \in 1 .. Len(Outgoing') PROVE Matches(Outgoing[i].of)'
    BY Zenon, MatchesIs
  <2>1. CASE i \in 1 .. m /\ Outgoing'[i] = Outgoing[i]
    <3>1. Matches(Outgoing[i].of) /\ Outgoing'[i].of = Outgoing[i].of
      BY <2>1, MatchesIs DEF OutputOrdered, ResponsesAnswerRequests, m
    <3> QED
      BY <3>1, Zenon DEF Matches, Refused, ClosesConnection
  <2>2. CASE Outgoing'[i] = [of |-> resp, n |-> i - m]
    <3>1. Outgoing'[i].of = resp
      BY <2>2
    <3> QED
      BY <3>1, Zenon DEF Matches, Refused, ClosesConnection
  <2> QED
    BY Zenon, <1>6, <2>1, <2>2
<1>14. NothingFollowsFinalResponse'
  <2>1. \A i \in 1 .. m : ~ Outgoing[i].of.close
    BY DEF OutputOrdered, ResponsesAnswerRequests, NothingFollowsFinalResponse, m
  <2>2. resp.close => state' # "Active"
    BY DEF QueueResponse
  <2>3. \A i \in 1 .. Len(Outgoing') : Outgoing'[i].of.close =>
          Outgoing'[i].of.num = requests' /\ state' # "Active"
    <3> SUFFICES ASSUME NEW i \in 1 .. Len(Outgoing'), Outgoing'[i].of.close
                 PROVE  Outgoing'[i].of.num = requests' /\ state' # "Active"
      OBVIOUS
    <3>1. Outgoing'[i] = [of |-> resp, n |-> i - m]
      BY <1>6, <2>1, Zenon
    <3>2. Outgoing'[i].of = resp
      BY <3>1
    <3> QED
      BY <1>a, <2>2, <3>2
  <2> QED
    BY <2>3 DEF NothingFollowsFinalResponse, PhaseAndStep
<1> QED
  BY <1>a, <1>12, <1>13, <1>14 DEF OutputOrdered, ResponsesAnswerRequests

\* The answer to a complete request is the answer to the first one not answered.
LEMMA RespondToRequestOrdered ==
  IInv /\ InputFramed /\ OutputOrdered /\ RespondToRequest => OutputOrdered'
<1> SUFFICES ASSUME IInv, InputFramed, OutputOrdered, RespondToRequest PROVE OutputOrdered'
  OBVIOUS
<1> DEFINE num == requests + 1
           resp == ResponseTo(Current, num)
<1>1. /\ state = "Active" /\ NextResult = "Complete" /\ QueueResponse(resp)
      /\ UNCHANGED <<got, wire, lost, sent>>
  BY DEF RespondToRequest, MayRespond, clientVars
<1>2. TypeOK /\ PhaseAndStep /\ ~ lost /\ PhaseAndStep'
  BY Zenon, <1>1, RespondToRequestKeeps DEF IInv, Endings
<1>3. Current \in Requests /\ ~ Refused(Current)
  BY SMTT(30), Z3T(30), <1>1, <1>2, CompleteRequest
<1>4. parserState = "Body" \/ buffer # <<>>
  BY SMTT(30), Z3T(30), <1>1, <1>2, NextResultIs DEF TypeOK, PhaseAndStep
<1>5. num <= Len(sent) /\ Current = sent[num] /\ num \in Nat \ {0}
  <2>1. requests \in Nat /\ Len(sent) \in Nat
    BY <1>2, SentRequests
  <2> QED
    BY <1>1, <1>4, <2>1, CurrentIsFirst
<1>6. resp \in ResponseType /\ resp.num = num
  BY Zenon, <1>3, <1>5, ResponseTypes DEF ResponseTo, Response
<1>7. Matches(resp)
  <2>1. /\ resp.status # "refused" /\ resp.close = (Current.throws \/ ~ Current.keepAlive)
        /\ resp.bytes = IF Current.method = "HEAD" THEN ResponseHeadBytes ELSE FullLength
    BY DEF ResponseTo, Response
  <2> HIDE DEF resp, num
  <2>2. Refused(sent[num]) <=> FALSE
    BY <1>3, <1>5
  <2> QED
    BY <1>5, <1>6, <2>1, <2>2, Zenon DEF Matches, ClosesConnection
<1> HIDE DEF resp
<1> QED
  BY SMTT(30), Z3T(30), <1>1, <1>2, <1>6, <1>7, QueueOrdered

\* A refusal answers a request whose framing is refused.
LEMMA RespondToErrorOrdered ==
  IInv /\ InputFramed /\ OutputOrdered /\ RespondToError => OutputOrdered'
<1> SUFFICES ASSUME IInv, InputFramed, OutputOrdered, RespondToError PROVE OutputOrdered'
  OBVIOUS
<1> DEFINE num == requests + 1
           resp == Refusal(num)
<1>1. /\ state = "Active" /\ NextResult = "Error" /\ QueueResponse(resp)
      /\ UNCHANGED <<got, wire, lost, sent>>
  BY DEF RespondToError, MayRespond, clientVars
<1>2. TypeOK /\ PhaseAndStep /\ ~ lost /\ PhaseAndStep'
  BY Zenon, <1>1, RespondToErrorKeeps DEF IInv, Endings
<1>3. parserState = "Head" /\ buffer # <<>>
  BY SMTT(30), Z3T(30), <1>1, <1>2, NextResultIs DEF TypeOK, PhaseAndStep
<1>4. num <= Len(sent) /\ Current = sent[num] /\ num \in Nat \ {0}
  <2>1. requests \in Nat /\ Len(sent) \in Nat
    BY <1>2, SentRequests
  <2> QED
    BY SMTT(30), Z3T(30), <1>1, <1>3, <2>1, CurrentIsFirst
<1>5. Refused(Current)
  <2>1. Current \in Requests /\ Len(buffer) \in Nat
    BY <1>2, <1>3, CurrentIsRequest, InputIs
  <2>2. Current.head \in Nat
    BY <2>1, RequestFields
  <2>3. (Len(buffer) < Current.head /\ Len(buffer) > MaxHeaderBytes) \/ HeadRefused
    BY <1>1, <1>3, NextResultIs
  <2> QED
    BY SMTT(30), Z3T(30), <2>1, <2>2, <2>3, ConstantTypes DEF HeadRefused, Refused
<1>6. resp \in ResponseType /\ resp.num = num
  BY <1>4, ResponseTypes DEF Refusal, Response
<1>7. Matches(resp)
  <2>1. resp.status = "refused" /\ resp.close = TRUE /\ resp.bytes = FullLength
    BY DEF Refusal, Response
  <2> HIDE DEF resp, num
  <2>2. Refused(sent[num]) <=> TRUE
    BY SMTT(30), Z3T(30), <1>4, <1>5
  <2> QED
    BY <1>4, <1>6, <2>1, <2>2, Zenon DEF Matches, ClosesConnection
<1> HIDE DEF resp
<1> QED
  BY <1>1, <1>2, <1>6, <1>7, QueueOrdered

\* A 408 stands for the request that was not finished.
LEMMA RequestTimesOutOrdered ==
  IInv /\ InputFramed /\ OutputOrdered /\ RequestTimesOut => OutputOrdered'
<1> SUFFICES ASSUME IInv, InputFramed, OutputOrdered, RequestTimesOut PROVE OutputOrdered'
  OBVIOUS
<1> DEFINE num == requests + 1
           resp == Timeout408(num)
<1>1. /\ state = "Active" /\ HasPartialRequest /\ QueueResponse(resp)
      /\ UNCHANGED <<got, wire, lost, sent>>
  BY DEF RequestTimesOut, Awaits408, clientVars
<1>2. TypeOK /\ ~ lost /\ PhaseAndStep'
  BY Zenon, <1>1, RequestTimesOutKeeps DEF IInv, Endings
<1>3. num <= Len(sent) /\ num \in Nat \ {0}
  <2>1. requests \in Nat /\ Len(sent) \in Nat
    BY SMTT(30), Z3T(30), <1>2, SentRequests
  <2> QED
    BY <1>1, <2>1, CurrentIsFirst DEF HasPartialRequest
<1>4. resp \in ResponseType /\ resp.num = num
  BY <1>3, ResponseTypes DEF Timeout408, Response
<1>5. Matches(resp)
  BY Zenon, <1>3 DEF Matches, Timeout408, Response
<1> HIDE DEF resp
<1> QED
  BY SMTT(30), Z3T(30), <1>1, <1>2, <1>4, <1>5, QueueOrdered

\* An RST erases what the client has not read: a suffix.
LEMMA ResetErasesOrdered ==
  IInv /\ OutputOrdered /\ ResetErases => OutputOrdered'
<1> SUFFICES ASSUME IInv, OutputOrdered, ResetErases PROVE OutputOrdered'
  OBVIOUS
<1>1. /\ lost' /\ wire' = <<>> /\ wire # <<>> /\ ~ lost
      /\ UNCHANGED <<got, output, outputSent, requests, state, sent>>
  BY DEF ResetErases, serverVars, outputVars, lifeVars, OutputOrdered
<1>2. TypeOK /\ TypeOK' /\ PhaseAndStep'
  <2>1. IInv'
    BY Zenon, ClientKeeps
  <2> QED
    BY Zenon, <2>1 DEF IInv
<1> DEFINE rest == wire \o Drop(output, outputSent)
<1>3. got \in Seq(ResponseByte) /\ rest \in Seq(ResponseByte) /\ Outgoing = got \o rest
  BY SMTT(30), Z3T(30), <1>1, <1>2, OutgoingIs, OutputConcatenation
<1>4. Outgoing' = got
  <2>1. Outgoing' = got \o <<>>
    BY <1>1, Zenon DEF Outgoing
  <2> QED
    BY <1>3, <2>1, ConcatEmptySeq
<1> HIDE DEF rest
<1>5. /\ Len(got) \in Nat /\ Len(rest) \in Nat /\ Len(Outgoing) = Len(got) + Len(rest)
      /\ \A i \in 1 .. Len(got) : Outgoing[i] = got[i]
  BY SMTT(30), Z3T(30), <1>3, OutputConcatenation, LenProperties
<1>6. /\ Len(Outgoing') <= Len(Outgoing) /\ (lost => lost') /\ (~ lost' => FALSE)
      /\ \A i \in 1 .. Len(Outgoing') : Outgoing'[i] = Outgoing[i]
  BY SMTT(30), Z3T(30), <1>1, <1>4, <1>5
<1>7. Len(sent) \in Nat
  BY SMTT(30), Z3T(30), <1>2, SentRequests
<1>8. Len(sent') >= Len(sent) /\ \A k \in 1 .. Len(sent) : sent'[k] = sent[k]
  BY SMTT(30), Z3T(30), <1>1, <1>7
<1> QED
  BY Zenon, <1>1, <1>2, <1>6, <1>8, SameOutgoing

\* What other steps do to the bytes for the client: nothing.
LEMMA OthersOrdered ==
  ASSUME IInv, IInv', OutputOrdered,
         \/ Receive \/ ReceiveNothing \/ Poll \/ OnPollEvents \/ RespondNoMore \/ SendSome
         \/ SendFails \/ FlushEnds \/ Settle \/ BeforeDeadline \/ ConnectionTimesOut
         \/ Shutdown \/ Tick \/ ClientWorks \/ ClientResets \/ UNCHANGED vars
  PROVE  OutputOrdered'
<1>1. TypeOK /\ TypeOK' /\ PhaseAndStep' /\ Len(sent) \in Nat /\ Len(Outgoing) \in Nat
  BY SMTT(30), Z3T(30), SentRequests, OutgoingIs DEF IInv
<1> USE DEF parserVars, outputVars, lifeVars, timers, clientVars, serverVars
<1>2. Outgoing' = Outgoing /\ (lost' => wire' = <<>>)
  <2>1. CASE UNCHANGED <<got, lost, wire, output, outputSent>>
    BY <2>1 DEF Outgoing, Drop, OutputOrdered
  <2>2. CASE SendSome
    <3>1. ~ lost /\ lost' = lost
      BY Zenon, <2>2 DEF IInv, Endings, PhaseAndStep, SendSome
    <3> QED
      BY SMTT(30), Z3T(30), <1>1, <2>2, <3>1, SendKeepsOutgoing
  <2>3. CASE FlushEnds
    BY Zenon, <1>1, <2>3, CompactionKeepsOutgoing DEF FlushEnds, OutputOrdered
  <2>4. CASE ClientReads
    BY Zenon, <1>1, <2>4, ReadingKeepsOutgoing DEF ClientReads, OutputOrdered
  <2>5. CASE Receive \/ ReceiveNothing
    BY Zenon, <2>1, <2>5 DEF Receive, ReceiveNothing, RecvData, RecvFin, RecvFails, DiscardData,
                      DiscardEnds, RecvNothing, DiscardNothing
  <2>6. CASE Poll \/ OnPollEvents \/ RespondNoMore \/ SendFails \/ Settle
    BY Zenon, <2>1, <2>6 DEF Poll, OnPollEvents, RespondNoMore, SendFails, Settle
  <2>7. CASE BeforeDeadline \/ ConnectionTimesOut
    BY <2>1, <2>7, Zenon DEF BeforeDeadline, ConnectionTimesOut
  <2>8. CASE Shutdown \/ Tick \/ ClientSends \/ ClientHalfCloses \/ ClientResets
             \/ UNCHANGED vars
    BY Zenon, <2>1, <2>8 DEF Shutdown, Tick, ClientSends, ClientHalfCloses, ClientResets, vars
  <2> QED
    BY SMTT(30), Z3T(30), <2>2, <2>3, <2>4, <2>5, <2>6, <2>7, <2>8 DEF ClientWorks
<1>3. requests' = requests /\ lost' = lost /\ (state # "Active" => state' # "Active")
  <2>1. CASE Receive \/ ReceiveNothing
    BY Zenon, <2>1 DEF Receive, ReceiveNothing, RecvData, RecvFin, RecvFails, DiscardData,
                DiscardEnds, RecvNothing, DiscardNothing, CloseNow
  <2>2. CASE Poll \/ OnPollEvents \/ RespondNoMore \/ SendSome \/ SendFails \/ FlushEnds
             \/ Settle
    BY Zenon, <2>2 DEF Poll, OnPollEvents, RespondNoMore, SendSome, SendFails, FlushEnds, Settle,
                CloseNow
  <2>3. CASE BeforeDeadline \/ ConnectionTimesOut
    BY <2>3, Zenon DEF BeforeDeadline, ConnectionTimesOut, CloseNow
  <2>4. CASE Shutdown \/ Tick \/ ClientWorks \/ ClientResets \/ UNCHANGED vars
    BY Zenon, <2>4 DEF Shutdown, Tick, ClientWorks, ClientSends, ClientHalfCloses, ClientReads,
                ClientResets, vars, CloseNow
  <2> QED
    BY SMTT(30), Z3T(30), <2>1, <2>2, <2>3, <2>4
<1>4. Len(sent') >= Len(sent) /\ \A k \in 1 .. Len(sent) : sent'[k] = sent[k]
  <2>1. CASE sent' = sent
    BY SMTT(30), Z3T(30), <1>1, <2>1
  <2>2. CASE ClientSends /\ sent' # sent
    <3>1. PICK r \in Requests : sent' = Append(sent, r)
      BY SMTT(30), Z3T(30), <2>2 DEF ClientSends
    <3>2. sent \in Seq(Requests)
      BY <1>1 DEF TypeOK
    <3> QED
      BY SMTT(30), Z3T(30), <1>1, <3>1, <3>2, AppendProperties
  <2>3. CASE Receive \/ ReceiveNothing
    BY Zenon, <2>1, <2>3 DEF Receive, ReceiveNothing, RecvData, RecvFin, RecvFails, DiscardData,
                      DiscardEnds, RecvNothing, DiscardNothing
  <2>4. CASE Poll \/ OnPollEvents \/ RespondNoMore \/ SendSome \/ SendFails \/ FlushEnds
             \/ Settle
    BY Zenon, <2>1, <2>4
       DEF Poll, OnPollEvents, RespondNoMore, SendSome, SendFails, FlushEnds, Settle
  <2>5. CASE BeforeDeadline \/ ConnectionTimesOut
    BY <2>1, <2>5, Zenon DEF BeforeDeadline, ConnectionTimesOut
  <2>6. CASE Shutdown \/ Tick \/ ClientHalfCloses \/ ClientReads \/ ClientResets
             \/ UNCHANGED vars
    BY Zenon, <2>1, <2>6 DEF Shutdown, Tick, ClientHalfCloses, ClientReads, ClientResets, vars
  <2> QED
    BY SMTT(30), Z3T(30), <2>1, <2>2, <2>3, <2>4, <2>5, <2>6 DEF ClientWorks
<1> QED
  BY SMTT(30), Z3T(30), <1>1, <1>2, <1>3, <1>4, SameOutgoing

\* Every step keeps the output ordered.
LEMMA StepKeepsOrdered ==
  IInv /\ InputFramed /\ OutputOrdered /\ IInv' /\ [Next]_vars => OutputOrdered'
<1> SUFFICES ASSUME IInv, InputFramed, OutputOrdered, IInv', [Next]_vars PROVE OutputOrdered'
  OBVIOUS
<1>1. CASE RespondToRequest
  BY <1>1, RespondToRequestOrdered
<1>2. CASE RespondToError
  BY <1>2, RespondToErrorOrdered
<1>3. CASE RequestTimesOut
  BY <1>3, RequestTimesOutOrdered
<1>4. CASE ResetErases
  BY <1>4, ResetErasesOrdered
<1> QED
  BY SMTT(30), Z3T(30), <1>1, <1>2, <1>3, <1>4, OthersOrdered DEF Next, Proceed, Finished

\* At first there are no responses.
LEMMA InitOrdered == Init => OutputOrdered
<1> SUFFICES ASSUME Init PROVE OutputOrdered
  OBVIOUS
<1>1. TypeOK /\ PhaseAndStep /\ lost = FALSE /\ wire = <<>> /\ requests = 0
  BY InitEstablishesIInv DEF IInv, Init
<1>2. Outgoing = <<>> /\ Len(Outgoing) = 0
  <2>1. SubSeq(<<>>, 1, 0) = <<>>
    OBVIOUS
  <2>2. Drop(output, outputSent) = <<>>
    BY <2>1, 0 + 1 = 1, Zenon, Len(<<>>) = 0 DEF Drop, Init
  <2>3. Outgoing = <<>> \o (<<>> \o <<>>)
    BY <2>2, Zenon DEF Outgoing, Init
  <2> QED
    BY <2>3
<1>3. ResponsesInOrder
  BY <1>1, <1>2 DEF ResponsesInOrder
<1>4. ResponsesMatchRequests
  BY SMTT(30), Z3T(30), <1>2 DEF ResponsesMatchRequests
<1>5. NothingFollowsFinalResponse
  BY <1>1, <1>2 DEF NothingFollowsFinalResponse, PhaseAndStep
<1> QED
  BY <1>1, <1>2, <1>3, <1>4, <1>5, Zenon DEF OutputOrdered, ResponsesAnswerRequests

\* What a connection consumes and what it queues, in every reachable state.
LEMMA AnswerInvariance == Spec => [](IInv /\ InputFramed /\ OutputOrdered)
<1>1. Init => IInv /\ InputFramed /\ OutputOrdered
  BY InitEstablishesIInv, InitFramed, InitOrdered
<1>2. IInv /\ InputFramed /\ OutputOrdered /\ [Next]_vars => (IInv /\ InputFramed /\ OutputOrdered)'
  BY StepKeepsIInv, StepKeepsFramed, StepKeepsOrdered
<1> QED
  BY <1>1, <1>2, PTL DEF Spec

\* Responses leave whole, in order and once, each answers its request, and the
\* one that closes the connection is the last.
THEOREM EveryResponseAnswersItsRequest == Spec => []ResponsesAnswerRequests
<1>1. OutputOrdered => ResponsesAnswerRequests
  BY DEF OutputOrdered
<1> QED
  BY <1>1, AnswerInvariance, PTL

-----------------------------------------------------------------------------
(* The orderly close *)

\* A parser that awaits bytes, with none left in the kernel, owes no answer.
LEMMA NothingOwedWhenAwaiting ==
  ASSUME IInv, InputFramed, state = "Active", unread = <<>>, Awaiting,
         NEW j \in 1 .. Len(sent), Owed(j)
  PROVE  j <= requests
<1> SUFFICES ASSUME requests < j PROVE FALSE
  BY SentRequests DEF IInv
<1> DEFINE r == sent[requests + 1]
<1>1. PICK at \in [Unanswered -> Int] : Framed(at)
  BY SMTT(30), Z3T(30) DEF InputFramed
<1>2. TypeOK /\ PhaseAndStep /\ parserState \in {"Head", "Body"}
  BY DEF IInv, TypeOK, PhaseAndStep
<1>3. /\ Len(sent) \in Nat /\ requests \in Nat /\ requests < Len(sent)
      /\ requests + 1 \in 1 .. Len(sent) /\ sent # <<>>
  BY <1>2, SentRequests
<1>4. r \in Requests /\ r.head \in Nat \ {0} /\ r.body \in Nat /\ Size(r) = r.head + r.body
  BY Zenon, <1>2, <1>3, SentRequests
<1>5. /\ requests + 1 \in Unanswered /\ Len(sent) \in Unanswered
      /\ at[requests + 1] = IF parserState = "Body" THEN - r.head ELSE 0
      /\ Len(Input) = at[Len(sent)] + sentBytes
  BY Zenon, <1>1, <1>2, <1>3, FramedParts
<1>6. Len(Input) = Len(buffer) /\ Len(buffer) \in Nat
  <2>1. Len(unread) = 0
    BY SMTT(30), Z3T(30)
  <2> QED
    BY <1>2, <2>1, InputIs
<1>7. sentBytes \in Nat /\ sentBytes >= 1 /\ at[Len(sent)] \in Int /\ at[requests + 1] \in Int
  <2>1. sentBytes \in 1 .. Size(Last(sent))
    BY <1>3 DEF InputFramed
  <2>2. at[Len(sent)] \in Int /\ at[requests + 1] \in Int
    BY SMTT(30), Z3T(30), <1>1, <1>5
  <2>3. Len(sent) \in 1 .. Len(sent)
    BY <1>3
  <2>4. Size(Last(sent)) \in Nat
    BY Zenon, <1>2, <2>3, SentRequests DEF Last
  <2> QED
    BY <2>1, <2>2, <2>4
<1>8. requests + 1 < Len(sent) => at[requests + 1] + Size(r) <= at[Len(sent)]
  BY SMTT(30), Z3T(30), <1>1, <1>2, <1>5, FramedParts
<1>9. parserState = "Body" => pending = r /\ ~ Refused(r)
  BY SMTT(30), Z3T(30), <1>2 DEF InputFramed, PhaseAndStep
<1>10. parserState = "Head" /\ buffer # <<>> => buffer[1].req = r
  BY CurrentIsFirst DEF Current
<1>11. buffer = <<>> <=> Len(buffer) = 0
  BY SMTT(30), Z3T(30), <1>2, EmptySeq DEF TypeOK
<1>12. /\ parserState = "Body" => Len(buffer) < r.body
       /\ parserState = "Head" => Len(buffer) = 0
                                  \/ (Len(buffer) < r.head /\ Len(buffer) <= MaxHeaderBytes)
  BY <1>2, <1>9, <1>10, <1>11 DEF Awaiting
<1>13. requests + 1 = Len(sent) =>
         sentBytes >= Size(r) \/ (Refused(r) /\ (sentBytes >= r.head \/ sentBytes > MaxHeaderBytes))
  <2> SUFFICES ASSUME requests + 1 = Len(sent)
               PROVE  sentBytes >= Size(r)
                      \/ (Refused(r) /\ (sentBytes >= r.head \/ sentBytes > MaxHeaderBytes))
    OBVIOUS
  <2>1. j = requests + 1 /\ ~ (j < Len(sent))
    BY <1>3
  <2> QED
    BY <2>1, Zenon DEF Owed
<1> HIDE DEF r
<1>14. CASE parserState = "Body"
  <2>1. at[requests + 1] = - r.head /\ Len(buffer) < r.body /\ ~ Refused(r)
    BY SMTT(30), Z3T(30), <1>5, <1>9, <1>12, <1>14
  <2>2. CASE requests + 1 = Len(sent)
    <3>1. sentBytes >= Size(r)
      BY <1>13, <2>1, <2>2
    <3>2. Len(buffer) = at[requests + 1] + sentBytes
      BY <1>5, <1>6, <2>2, Zenon
    <3> QED
      BY SMTT(30), Z3T(30), <1>4, <1>6, <1>7, <2>1, <3>1, <3>2
  <2>3. CASE requests + 1 < Len(sent)
    BY SMTT(30), Z3T(30), <1>4, <1>5, <1>6, <1>7, <1>8, <2>1, <2>3
  <2> QED
    BY SMTT(30), Z3T(30), <1>3, <2>2, <2>3
<1>15. CASE parserState = "Head"
  <2>1. at[requests + 1] = 0
    BY SMTT(30), Z3T(30), <1>5, <1>15
  <2>2. CASE requests + 1 = Len(sent)
    <3>1. Len(buffer) = at[requests + 1] + sentBytes
      BY <1>5, <1>6, <2>2, Zenon
    <3>2. Len(buffer) = sentBytes
      BY SMTT(30), Z3T(30), <1>7, <2>1, <3>1
    <3> QED
      BY SMTT(30), Z3T(30), <1>4, <1>7, <1>12, <1>13, <1>15, <2>2, <3>2, ConstantTypes
  <2>3. CASE requests + 1 < Len(sent)
    BY SMTT(30), Z3T(30), <1>4, <1>5, <1>6, <1>7, <1>8, <1>12, <1>15, <2>1, <2>3
  <2> QED
    BY <1>3, <2>2, <2>3
<1> QED
  BY SMTT(30), Z3T(30), <1>2, <1>14, <1>15

\* Nothing pauses parsing when no output is pending.
LEMMA NoBacklogNoPause == state = "Active" /\ PendingBytes = 0 => MayRespond
  BY ConstantTypes DEF MayRespond

\* The server closes on the client's FIN when it has answered all it owes.
LEMMA FinCloseIsSettled ==
  ASSUME IInv, InputFramed, Settle, closeReason' = "client closed", closeReason = "open"
  PROVE  \A j \in 1 .. Len(sent) : Owed(j) => j <= requests
<1>1. pc = "settle" /\ PendingBytes = 0 /\ state = "Active" /\ peerFinished
  BY Zenon DEF Settle, CloseNow, lifeVars
<1>2. unread = <<>>
  BY <1>1, Zenon DEF IInv, Endings
<1>3. MayRespond
  BY <1>1, NoBacklogNoPause, Zenon
<1>4. Awaiting
  BY <1>1, <1>3, Zenon DEF IInv, ParserIsDone
<1> QED
  BY Zenon, <1>1, <1>2, <1>4, NothingOwedWhenAwaiting

\* No other step gives that reason, and none changes it.
LEMMA OnlySettleClosesOnFin ==
  ASSUME IInv, [Next]_vars, closeReason' = "client closed"
  PROVE  Settle \/ closeReason = "client closed"
<1> USE DEF CloseNow, parserVars, outputVars, lifeVars, timers, clientVars, serverVars
<1>1. CASE Receive \/ ReceiveNothing
  BY Zenon, <1>1 DEF Receive, ReceiveNothing, RecvData, RecvFin, RecvFails, DiscardData,
              DiscardEnds, RecvNothing, DiscardNothing
<1>2. CASE Poll \/ OnPollEvents \/ RespondNoMore \/ SendSome \/ SendFails \/ FlushEnds
  BY Zenon, <1>2 DEF Poll, OnPollEvents, RespondNoMore, SendSome, SendFails, FlushEnds
<1>3. CASE RespondToRequest \/ RespondToError \/ RequestTimesOut
  BY Zenon, <1>3 DEF RespondToRequest, RespondToError, RequestTimesOut, QueueResponse
<1>4. CASE BeforeDeadline
  BY Zenon, <1>4 DEF BeforeDeadline
<1>5. CASE ConnectionTimesOut
  <2>1. state \in {"Active", "Closing", "Draining"}
    BY Zenon, <1>5 DEF ConnectionTimesOut, IInv, TypeOK, PhaseAndStep
  <2>2. closeReason' \in {"idle timeout", "write timeout", "linger timeout"}
    <3>1. CASE state = "Active"
      BY <1>5, <3>1, Zenon DEF ConnectionTimesOut
    <3>2. CASE state = "Closing"
      BY <1>5, <3>2, Zenon DEF ConnectionTimesOut
    <3>3. CASE state = "Draining"
      BY <1>5, <3>3, Zenon DEF ConnectionTimesOut
    <3> QED
      BY Zenon, <2>1, <3>1, <3>2, <3>3
  <2> QED
    BY Zenon, <2>2
<1>6. CASE Shutdown \/ Tick \/ ClientWorks \/ ClientResets \/ ResetErases \/ Finished
           \/ UNCHANGED vars
  BY Zenon, <1>6 DEF Shutdown, Tick, ClientWorks, ClientSends, ClientHalfCloses, ClientReads,
              ClientResets, ResetErases, Finished, vars
<1> QED
  BY Zenon, <1>1, <1>2, <1>3, <1>4, <1>5, <1>6 DEF Next, Proceed

\* A client that has half-closed sends no more, and a closed connection answers
\* no more.
LEMMA ClosedStays ==
  ASSUME IInv, [Next]_vars, state = "Closed", client # "open"
  PROVE  UNCHANGED <<sent, sentBytes, requests>> /\ (client' # "reset" => client # "reset")
<1>1. pc = "done"
  BY DEF IInv, PhaseAndStep
<1> USE <1>1 DEF parserVars, outputVars, lifeVars, timers, clientVars, serverVars
<1>2. CASE Receive \/ ReceiveNothing
  BY Zenon, <1>2 DEF Receive, ReceiveNothing, RecvData, RecvFin, RecvFails, DiscardData,
              DiscardEnds, RecvNothing, DiscardNothing
<1>3. CASE Proceed
  BY Zenon, <1>3 DEF Proceed, Poll, OnPollEvents, RespondToRequest, RespondToError, RespondNoMore,
              SendSome, SendFails, FlushEnds, Settle, BeforeDeadline, RequestTimesOut,
              ConnectionTimesOut
<1>4. CASE Shutdown \/ Tick \/ ClientWorks \/ ClientResets \/ ResetErases \/ Finished
           \/ UNCHANGED vars
  BY Zenon, <1>4 DEF Shutdown, Tick, ClientWorks, ClientSends, ClientHalfCloses, ClientReads,
              ClientResets, ResetErases, Finished, vars
<1> QED
  BY <1>2, <1>3, <1>4 DEF Next

\* Every step keeps the answers owed given when the client's FIN closes.
LEMMA StepKeepsFinClose ==
  IInv /\ InputFramed /\ FinCloseAnswersAll /\ IInv' /\ [Next]_vars => FinCloseAnswersAll'
<1> SUFFICES ASSUME IInv, InputFramed, FinCloseAnswersAll, IInv', [Next]_vars,
                    closeReason' \in {"client closed", "socket error", "recv failed",
                                      "send failed"},
                    client' # "reset"
             PROVE  (\A j \in 1 .. Len(sent) : Owed(j) => j <= requests)'
  BY Zenon DEF FinCloseAnswersAll
<1>1. closeReason' = "client closed"
  BY Zenon DEF IInv, Endings
<1>2. UNCHANGED <<sent, sentBytes, requests>>
      /\ \A j \in 1 .. Len(sent) : Owed(j) => j <= requests
  <2>1. CASE closeReason = "client closed"
    <3>1. state = "Closed"
      BY Zenon, <2>1 DEF IInv, Endings
    <3>2. client # "open"
      BY Zenon, <2>1 DEF IInv, Endings
    <3> QED
      BY Zenon, <2>1, <3>1, <3>2, ClosedStays DEF FinCloseAnswersAll
  <2>2. CASE closeReason # "client closed" /\ Settle
    <3>1. closeReason = "open"
      BY Zenon, <2>2 DEF IInv, Endings, PhaseAndStep, Settle
    <3>2. UNCHANGED <<sent, sentBytes, requests>>
      BY Zenon, <2>2 DEF Settle, clientVars, outputVars
    <3> QED
      BY Zenon, <1>1, <2>2, <3>1, <3>2, FinCloseIsSettled
  <2> QED
    BY Zenon, <1>1, <2>1, <2>2, OnlySettleClosesOnFin
<1> QED
  BY <1>2, Zenon DEF Owed, Size, Refused, ClosesConnection

\* A client that ends the exchange with FIN has all its complete requests
\* answered, and no RST follows the answers.
THEOREM OrderlyClosesLoseNothing == Spec => []OrderlyClose
<1>1. Init => FinCloseAnswersAll
  BY DEF Init, FinCloseAnswersAll
<1>2. IInv /\ InputFramed /\ FinCloseAnswersAll /\ IInv' /\ [Next]_vars => FinCloseAnswersAll'
  BY StepKeepsFinClose
<1>3. FinCloseAnswersAll /\ OrderlyCloseNeverResets => OrderlyClose
  BY DEF OrderlyClose
<1> QED
  BY <1>1, <1>2, <1>3, AnswerInvariance, OrderlyClosesSendFin, PTL DEF Spec

=============================================================================
