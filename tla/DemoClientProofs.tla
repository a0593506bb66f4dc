-------------------------- MODULE DemoClientProofs --------------------------
(***************************************************************************)
(* tools/demo_client.cpp: ResponseReader cuts the byte stream into the     *)
(* responses the server made, and exit status 0 means what the comment at  *)
(* its top says, for every number and size of requests and responses, size *)
(* of the kernel's buffers and server.                                     *)
(*                                                                         *)
(* The invariant follows a byte of a response by its place in the stream   *)
(* of all bytes the server has made: the bytes the client has taken, those *)
(* in its buffer, those in the kernel and those the server still has lie   *)
(* behind each other in it.                                                *)
(***************************************************************************)
EXTENDS DemoClient, SequenceTheorems, TLAPS

ResponseBytes == HeadBytes + BodyBytes

\* How many bytes precede those of the j-th response.
Start(j) == (j - 1) * ResponseBytes

\* What precedes the bytes in the client's buffer.
Taken == Start(Len(responses) + 1)

\* s is what the stream of these responses has behind its first `before` bytes.
InStream(made, s, before) ==
  \A i \in 1 .. Len(s), j \in 1 .. Len(made), n \in 1 .. ResponseBytes :
    before + i = Start(j) + n => s[i] = [of |-> made[j], n |-> n]

UnderWay ==
  /\ InStream(answers, buffer, Taken)
  /\ InStream(answers, down, Taken + Len(buffer))
  /\ Taken + Len(buffer) + Len(down) <= Start(Len(answers) + 1)
  /\ ending = "none" =>
       /\ InStream(answers, output, Taken + Len(buffer) + Len(down))
       /\ Taken + Len(buffer) + Len(down) + Len(output) = Start(Len(answers) + 1)

\* The server has not seen more than has been sent, and answers only that.
Asked ==
  /\ asked <= Exchanges + 1
  /\ received + up + toSend <= asked * RequestBytes
  /\ Len(answers) * RequestBytes <= received

\* How far main() is, by what has been asked and read.
Progress ==
  /\ pc \in {"connect", "receive", "check"} => toSend = 0
  /\ pc = "connect" => asked = 0 /\ Len(responses) = 0
  /\ pc \in {"send", "receive"} =>
       Len(responses) < asked /\ (asked > Exchanges => Len(responses) = Exchanges)
  /\ pc = "check" => asked = Exchanges /\ Len(responses) = Exchanges
  /\ exit = 0 => pc = "exit" /\ Len(responses) = Exchanges + 1 /\ Verdict(responses)

Answered == [num : Nat, conn : Nat, right : BOOLEAN]
Byte == [of : Answered, n : Nat]

Types ==
  /\ pc \in {"connect", "send", "receive", "check", "exit"}
  /\ asked \in Nat /\ toSend \in Nat /\ up \in Nat /\ received \in Nat
  /\ buffer \in Seq(Byte) /\ down \in Seq(Byte) /\ output \in Seq(Byte)
  /\ responses \in Seq([of : Answered, body : Seq(Byte)])
  /\ answers \in Seq(Answered)

IInv == Types /\ Asked /\ Progress /\ UnderWay /\ ResponsesAsMade

-----------------------------------------------------------------------------
(* Sizes and places *)

\* The sizes, as numbers.
LEMMA Sizes ==
  /\ HeadBytes \in Nat \ {0} /\ BodyBytes \in Nat /\ RequestBytes \in Nat \ {0}
  /\ ResponseBytes \in Nat /\ 1 <= HeadBytes /\ HeadBytes <= ResponseBytes
  /\ ResponseBytes = HeadBytes + BodyBytes
  /\ Exchanges \in Nat /\ 1 <= Exchanges
BY DemoAssumption DEF DemoAssumption, ResponseBytes

\* Multiples of a size increase by it.
LEMMA Multiples ==
  ASSUME NEW c \in Nat, NEW m \in Nat, NEW n \in Nat
  PROVE  /\ m * c \in Nat /\ n * c \in Nat
         /\ (m + 1) * c = m * c + c
         /\ m < n => m * c + c <= n * c
<1>1. m * c \in Nat /\ n * c \in Nat /\ (m + 1) * c = m * c + c
  OBVIOUS
<1>2. ASSUME m < n PROVE m * c + c <= n * c
  <2>1. n - m - 1 \in Nat
    BY <1>2
  <2>2. (n - m - 1) * c \in Nat
    BY <2>1
  <2>3. (n - m - 1) * c = n * c - m * c - c
    BY <2>1
  <2> QED
    BY <1>1, <2>2, <2>3
<1> QED
  BY <1>1, <1>2

\* The bytes of the j-th response end where those of the next start.
LEMMA Starts ==
  ASSUME NEW j \in Nat, NEW k \in Nat
  PROVE  /\ Start(j + 1) \in Nat /\ Start(k + 1) \in Nat /\ Start(1) = 0
         /\ Start(j + 2) = Start(j + 1) + ResponseBytes
         /\ j < k => Start(j + 1) + ResponseBytes <= Start(k + 1)
<1>1. Start(1) = 0
  BY Sizes DEF Start
<1>2. Start(j + 1) = j * ResponseBytes /\ Start(k + 1) = k * ResponseBytes
  BY DEF Start
<1>3. Start(j + 2) = (j + 1) * ResponseBytes
  BY DEF Start
<1> QED
  BY <1>1, <1>2, <1>3, Sizes, Multiples

\* What send() takes: no more than there is, nor than there is room for.
LEMMA LesserIs ==
  ASSUME NEW a \in Nat, NEW b \in Nat, NEW d \in Nat, b < d
  PROVE  Lesser(a, d - b) \in Nat /\ Lesser(a, d - b) <= a
BY DEF Lesser

\* A part of a sequence, by its elements.
LEMMA Slice ==
  ASSUME NEW S, NEW s \in Seq(S), NEW m \in Nat, NEW n \in Nat, m <= n, n <= Len(s)
  PROVE  /\ SubSeq(s, m + 1, n) \in Seq(S) /\ Len(SubSeq(s, m + 1, n)) = n - m
         /\ \A i \in 1 .. n - m : SubSeq(s, m + 1, n)[i] = s[m + i]
<1>1. CASE m = n
  <2>1. SubSeq(s, m + 1, n) = <<>>
    BY <1>1, SubSeqProperties
  <2> QED
    BY <1>1, <2>1
<1>2. CASE m < n
  BY <1>2, SubSeqProperties
<1> QED
  BY <1>1, <1>2

\* One sequence behind another, by its elements.
LEMMA Joined ==
  ASSUME NEW S, NEW s \in Seq(S), NEW t \in Seq(S)
  PROVE  /\ s \o t \in Seq(S) /\ Len(s \o t) = Len(s) + Len(t)
         /\ \A i \in 1 .. Len(s) : (s \o t)[i] = s[i]
         /\ \A i \in 1 .. Len(t) : (s \o t)[Len(s) + i] = t[i]
         /\ \A i \in 1 .. Len(s) + Len(t) :
              i \in 1 .. Len(s) \/ (i - Len(s) \in 1 .. Len(t) /\ (s \o t)[i] = t[i - Len(s)])
  BY ConcatProperties, LenProperties

-----------------------------------------------------------------------------
(* Parts of the stream *)

\* A part of the stream can be cut in two anywhere.
LEMMA StreamCut ==
  ASSUME NEW made, NEW s \in Seq(Byte), NEW before \in Nat, InStream(made, s, before),
         NEW n \in 0 .. Len(s)
  PROVE  /\ InStream(made, SubSeq(s, 1, n), before)
         /\ InStream(made, SubSeq(s, n + 1, Len(s)), before + n)
<1>1. Len(s) \in Nat /\ n \in Nat
  BY LenProperties
<1>2. /\ Len(SubSeq(s, 0 + 1, n)) = n - 0
      /\ \A i \in 1 .. n - 0 : SubSeq(s, 0 + 1, n)[i] = s[0 + i]
  BY <1>1, Slice
<1>3. /\ Len(SubSeq(s, n + 1, Len(s))) = Len(s) - n
      /\ \A i \in 1 .. Len(s) - n : SubSeq(s, n + 1, Len(s))[i] = s[n + i]
  BY <1>1, Slice
<1>4. InStream(made, SubSeq(s, 1, n), before)
  BY <1>1, <1>2 DEF InStream
<1>5. \A i \in 1 .. Len(s) - n : n + i \in 1 .. Len(s) /\ before + n + i = before + (n + i)
  BY <1>1
<1>6. InStream(made, SubSeq(s, n + 1, Len(s)), before + n)
  BY <1>3, <1>5 DEF InStream
<1> QED
  BY <1>4, <1>6

\* Two parts of which one starts where the other ends are one part.
LEMMA StreamJoin ==
  ASSUME NEW made, NEW s \in Seq(Byte), NEW t \in Seq(Byte), NEW before \in Nat,
         InStream(made, s, before), InStream(made, t, before + Len(s))
  PROVE  InStream(made, s \o t, before)
<1>1. Len(s) \in Nat /\ Len(t) \in Nat
  BY LenProperties
<1> SUFFICES ASSUME NEW i \in 1 .. Len(s \o t), NEW j \in 1 .. Len(made), NEW n \in 1 .. ResponseBytes,
                    before + i = Start(j) + n
             PROVE  (s \o t)[i] = [of |-> made[j], n |-> n]
  BY DEF InStream
<1>2. CASE i \in 1 .. Len(s)
  BY <1>2, Joined DEF InStream
<1>3. CASE i \notin 1 .. Len(s)
  <2>1. i - Len(s) \in 1 .. Len(t) /\ (s \o t)[i] = t[i - Len(s)]
    BY <1>3, Joined
  <2>2. before + Len(s) + (i - Len(s)) = Start(j) + n
    BY <1>1, <2>1
  <2> QED
    BY <2>1, <2>2 DEF InStream
<1> QED
  BY <1>2, <1>3

\* The bytes of a new response continue the stream.
LEMMA StreamGrows ==
  ASSUME NEW made \in Seq(Answered), NEW a \in Answered
  PROVE  /\ Bytes(a) \in Seq(Byte) /\ Len(Bytes(a)) = ResponseBytes
         /\ InStream(Append(made, a), Bytes(a), Start(Len(made) + 1))
<1>1. Len(made) \in Nat /\ Len(Append(made, a)) = Len(made) + 1 /\ Append(made, a)[Len(made) + 1] = a
  BY LenProperties, AppendProperties
<1>2. Bytes(a) \in Seq(Byte) /\ Len(Bytes(a)) = ResponseBytes
  BY Sizes DEF Bytes, Byte, ResponseBytes
<1>3. \A i \in 1 .. ResponseBytes : Bytes(a)[i] = [of |-> a, n |-> i]
  BY DEF Bytes, ResponseBytes
<1> SUFFICES ASSUME NEW i \in 1 .. ResponseBytes, NEW j \in 1 .. Len(made) + 1,
                    NEW n \in 1 .. ResponseBytes, Start(Len(made) + 1) + i = Start(j) + n
             PROVE  Bytes(a)[i] = [of |-> Append(made, a)[j], n |-> n]
  BY <1>1, <1>2 DEF InStream
<1>4. ASSUME j <= Len(made) PROVE FALSE
  <2>1. j - 1 \in Nat /\ j - 1 < Len(made) /\ (j - 1) + 1 = j
    BY <1>1, <1>4
  <2>2. Start((j - 1) + 1) + ResponseBytes <= Start(Len(made) + 1) /\ Start((j - 1) + 1) \in Nat
        /\ Start(Len(made) + 1) \in Nat
    BY <1>1, <2>1, Starts
  <2>3. Start(j) + ResponseBytes <= Start(Len(made) + 1) /\ Start(j) \in Nat
    BY <2>1, <2>2, Zenon
  <2> QED
    BY <2>2, <2>3, Sizes
<1>5. j = Len(made) + 1 /\ Start(Len(made) + 1) \in Nat
  BY <1>1, <1>4, Starts
<1>6. n = i
  BY <1>5
<1> QED
  BY <1>1, <1>3, <1>5, <1>6

\* What was in the stream still is when a response has been added to it.
LEMMA StreamKept ==
  ASSUME NEW made \in Seq(Answered), NEW a \in Answered, NEW s \in Seq(Byte), NEW before \in Nat,
         InStream(made, s, before), before + Len(s) <= Start(Len(made) + 1)
  PROVE  InStream(Append(made, a), s, before)
<1>1. /\ Len(made) \in Nat /\ Len(Append(made, a)) = Len(made) + 1
      /\ \A j \in 1 .. Len(made) : Append(made, a)[j] = made[j]
      /\ Len(s) \in Nat
  BY LenProperties, AppendProperties
<1>2. Start(Len(made) + 1) \in Nat
  BY <1>1, Starts
<1> SUFFICES ASSUME NEW i \in 1 .. Len(s), NEW j \in 1 .. Len(made) + 1,
                    NEW n \in 1 .. ResponseBytes, before + i = Start(j) + n
             PROVE  s[i] = [of |-> Append(made, a)[j], n |-> n]
  BY <1>1 DEF InStream
<1>3. j # Len(made) + 1
  BY <1>1, <1>2, Sizes
<1>4. j \in 1 .. Len(made)
  BY <1>1, <1>3
<1>5. s[i] = [of |-> made[j], n |-> n]
  BY <1>4 DEF InStream
<1> QED
  BY <1>1, <1>4, <1>5

-----------------------------------------------------------------------------
(* What steps do to the stream *)

\* The lengths, and that what the client has taken is a number of bytes.
LEMMA Lengths ==
  ASSUME Types
  PROVE  /\ Len(buffer) \in Nat /\ Len(down) \in Nat /\ Len(output) \in Nat
         /\ Len(responses) \in Nat /\ Len(answers) \in Nat
         /\ Taken \in Nat /\ Start(Len(answers) + 1) \in Nat
<1>1. /\ Len(buffer) \in Nat /\ Len(down) \in Nat /\ Len(output) \in Nat
      /\ Len(responses) \in Nat /\ Len(answers) \in Nat
  BY LenProperties DEF Types
<1> QED
  BY <1>1, Starts DEF Taken

\* A step that moves no byte, unless the kernel erases what it has received.
StreamStays ==
  /\ UNCHANGED <<buffer, responses, answers, output>>
  /\ down' \in {down, <<>>}
  /\ ending' = "none" => ending = "none" /\ down' = down

LEMMA StayingKeepsStream ==
  ASSUME Types, UnderWay, ResponsesAsMade, StreamStays
  PROVE  UnderWay' /\ ResponsesAsMade'
<1>1. ResponsesAsMade' /\ Taken' = Taken
  BY DEF StreamStays, ResponsesAsMade, Taken
<1>2. CASE down' = down
  BY <1>1, <1>2 DEF StreamStays, UnderWay
<1>3. CASE down' = <<>> /\ ending' # "none"
  <2>1. Len(down') = 0 /\ InStream(answers, down', Taken + Len(buffer))
    BY <1>3 DEF InStream
  <2>2. Taken + Len(buffer) + Len(down') <= Start(Len(answers) + 1)
    BY <2>1, Lengths DEF UnderWay
  <2> QED
    BY <1>1, <1>3, <2>1, <2>2 DEF StreamStays, UnderWay
<1> QED
  BY <1>2, <1>3 DEF StreamStays

\* recv(): bytes move from the kernel to buffer_.
LEMMA FillKeepsStream ==
  ASSUME Types, UnderWay, ResponsesAsMade, Fill
  PROVE  UnderWay' /\ ResponsesAsMade' /\ buffer' \in Seq(Byte) /\ down' \in Seq(Byte)
<1>1. PICK n \in 1 .. Len(down) : /\ buffer' = buffer \o SubSeq(down, 1, n)
                                 /\ down' = SubSeq(down, n + 1, Len(down))
  BY DEF Fill
<1>2. UNCHANGED <<responses, answers, output, ending>> /\ Taken' = Taken
  BY DEF Fill, server, Taken
<1>3. n \in Nat /\ n <= Len(down) /\ Len(down) \in Nat /\ Len(buffer) \in Nat /\ Taken \in Nat
  BY Lengths
<1> DEFINE head == SubSeq(down, 0 + 1, n)
<1>4. head \in Seq(Byte) /\ Len(head) = n /\ down' \in Seq(Byte) /\ Len(down') = Len(down) - n
  <2>1. head \in Seq(Byte) /\ Len(head) = n - 0
    BY <1>3, Slice DEF Types
  <2>2. SubSeq(down, n + 1, Len(down)) \in Seq(Byte) /\ Len(SubSeq(down, n + 1, Len(down))) = Len(down) - n
    BY <1>3, Slice DEF Types
  <2> QED
    BY <1>1, <1>3, <2>1, <2>2
<1>5. InStream(answers, head, Taken + Len(buffer)) /\ InStream(answers, down', Taken + Len(buffer) + n)
  <2>1. /\ InStream(answers, down, Taken + Len(buffer)) /\ down \in Seq(Byte)
        /\ Taken + Len(buffer) \in Nat /\ n \in 0 .. Len(down)
    BY <1>3 DEF UnderWay, Types
  <2>2. /\ InStream(answers, SubSeq(down, 1, n), Taken + Len(buffer))
        /\ InStream(answers, SubSeq(down, n + 1, Len(down)), Taken + Len(buffer) + n)
    BY <2>1, StreamCut, Zenon
  <2> QED
    BY <1>1, <2>2
<1>6. buffer' = buffer \o head
  BY <1>1
<1> HIDE DEF head
<1>7. InStream(answers, buffer', Taken)
  BY <1>3, <1>4, <1>5, <1>6, StreamJoin DEF UnderWay, Types
<1>8. buffer' \in Seq(Byte) /\ Len(buffer') = Len(buffer) + n
  BY <1>4, <1>6, Joined DEF Types
<1>9. /\ Taken + Len(buffer') = Taken + Len(buffer) + n
      /\ Taken + Len(buffer') + Len(down') = Taken + Len(buffer) + Len(down)
  BY <1>3, <1>4, <1>8
<1>10. UnderWay'
  BY <1>2, <1>5, <1>7, <1>9 DEF UnderWay
<1> QED
  BY <1>2, <1>4, <1>8, <1>10 DEF ResponsesAsMade

\* The server sends: bytes move from its output to the kernel.
LEMMA SendKeepsStream ==
  ASSUME Types, UnderWay, ResponsesAsMade, ServerSends
  PROVE  UnderWay' /\ ResponsesAsMade' /\ output' \in Seq(Byte) /\ down' \in Seq(Byte)
<1> DEFINE n == Lesser(Len(output), ToClient - Len(down))
<1> DEFINE head == SubSeq(output, 0 + 1, n)
<1>1. /\ ending = "none" /\ down' = down \o head /\ output' = SubSeq(output, n + 1, Len(output))
      /\ UNCHANGED <<responses, answers, buffer, ending>> /\ Taken' = Taken
  BY DEF ServerSends, client, Taken
<1>2. /\ Len(output) \in Nat /\ Len(down) \in Nat /\ Len(buffer) \in Nat /\ Taken \in Nat
  BY Lengths
<1>3. n \in Nat /\ n <= Len(output)
  <2>1. ToClient \in Nat /\ Len(down) < ToClient
    BY DemoAssumption DEF DemoAssumption, ServerSends
  <2> QED
    BY <1>2, <2>1, LesserIs
<1> HIDE DEF n
<1>4. head \in Seq(Byte) /\ Len(head) = n /\ output' \in Seq(Byte) /\ Len(output') = Len(output) - n
  <2>1. head \in Seq(Byte) /\ Len(head) = n - 0
    BY <1>2, <1>3, Slice DEF Types
  <2>2. output' \in Seq(Byte) /\ Len(output') = Len(output) - n
    BY <1>1, <1>2, <1>3, Slice DEF Types
  <2> QED
    BY <1>3, <2>1, <2>2
<1>5. /\ InStream(answers, head, Taken + Len(buffer) + Len(down))
      /\ InStream(answers, output', Taken + Len(buffer) + Len(down) + n)
  <2>1. /\ InStream(answers, output, Taken + Len(buffer) + Len(down)) /\ output \in Seq(Byte)
        /\ Taken + Len(buffer) + Len(down) \in Nat /\ n \in 0 .. Len(output)
    BY <1>1, <1>2, <1>3 DEF UnderWay, Types
  <2>2. /\ InStream(answers, SubSeq(output, 1, n), Taken + Len(buffer) + Len(down))
        /\ InStream(answers, SubSeq(output, n + 1, Len(output)), Taken + Len(buffer) + Len(down) + n)
    BY <2>1, StreamCut, Zenon
  <2> QED
    BY <1>1, <2>2
<1> HIDE DEF head
<1>6. InStream(answers, down', Taken + Len(buffer))
  BY <1>1, <1>2, <1>4, <1>5, StreamJoin DEF UnderWay, Types
<1>7. down' \in Seq(Byte) /\ Len(down') = Len(down) + n
  BY <1>1, <1>4, Joined DEF Types
<1>8. /\ Taken + Len(buffer) + Len(down') = Taken + Len(buffer) + Len(down) + n
      /\ Taken + Len(buffer) + Len(down') + Len(output') = Taken + Len(buffer) + Len(down) + Len(output)
      /\ Taken + Len(buffer) + Len(down') <= Taken + Len(buffer) + Len(down) + Len(output)
  BY <1>2, <1>3, <1>4, <1>7
<1>9. UnderWay'
  BY <1>1, <1>5, <1>6, <1>8 DEF UnderWay
<1> QED
  BY <1>1, <1>4, <1>7, <1>9 DEF ResponsesAsMade

\* The server makes a response: its bytes go to the end of the output.
LEMMA AnswerKeepsStream ==
  ASSUME Types, UnderWay, ResponsesAsMade, ServerAnswers
  PROVE  /\ UnderWay' /\ ResponsesAsMade' /\ output' \in Seq(Byte) /\ answers' \in Seq(Answered)
         /\ Len(answers') = Len(answers) + 1
<1>1. PICK a \in Answers(Len(answers) + 1) : answers' = Append(answers, a) /\ output' = output \o Bytes(a)
  BY DEF ServerAnswers
<1>2. ending = "none" /\ UNCHANGED <<responses, buffer, down, ending>> /\ Taken' = Taken
  BY DEF ServerAnswers, client, Taken
<1>3. /\ Len(output) \in Nat /\ Len(down) \in Nat /\ Len(buffer) \in Nat /\ Taken \in Nat
      /\ Len(answers) \in Nat /\ Len(responses) \in Nat /\ Start(Len(answers) + 1) \in Nat
  BY Lengths
<1>4. a \in Answered
  <2>1. \A n \in Nat, conn \in Nat, right \in BOOLEAN : Answer(n, conn, right) \in Answered
    BY Zenon DEF Answer, Answered
  <2>2. Len(answers) + 1 \in Nat /\ 1 \in Nat /\ 2 \in Nat
    BY <1>3
  <2> QED
    BY <2>1, <2>2, Zenon DEF Answers
<1>5. /\ answers' \in Seq(Answered) /\ Len(answers') = Len(answers) + 1
      /\ \A j \in 1 .. Len(answers) : answers'[j] = answers[j]
  <2>1. answers \in Seq(Answered)
    BY DEF Types
  <2>2. /\ Append(answers, a) \in Seq(Answered) /\ Len(Append(answers, a)) = Len(answers) + 1
        /\ \A j \in 1 .. Len(answers) : Append(answers, a)[j] = answers[j]
    BY <1>4, <2>1, AppendProperties
  <2> QED
    BY <1>1, <2>2
<1>6. /\ Bytes(a) \in Seq(Byte) /\ Len(Bytes(a)) = ResponseBytes
      /\ InStream(answers', Bytes(a), Start(Len(answers) + 1))
  BY <1>1, <1>4, StreamGrows DEF Types
<1> DEFINE place == Taken + Len(buffer) + Len(down)
<1>7. place \in Nat /\ place + Len(output) = Start(Len(answers) + 1)
  BY <1>2, <1>3 DEF UnderWay
<1>8. InStream(answers', buffer, Taken)
  <2>1. buffer \in Seq(Byte) /\ InStream(answers, buffer, Taken)
        /\ Taken + Len(buffer) <= Start(Len(answers) + 1)
    BY <1>3, <1>7 DEF Types, UnderWay
  <2> QED
    BY <1>1, <1>3, <1>4, <2>1, StreamKept DEF Types
<1>9. InStream(answers', down, Taken + Len(buffer))
  <2>1. down \in Seq(Byte) /\ InStream(answers, down, Taken + Len(buffer))
        /\ Taken + Len(buffer) + Len(down) <= Start(Len(answers) + 1) /\ Taken + Len(buffer) \in Nat
    BY <1>3, <1>7 DEF Types, UnderWay
  <2> QED
    BY <1>1, <1>4, <2>1, StreamKept DEF Types
<1>10. InStream(answers', output, place)
  <2>1. output \in Seq(Byte) /\ InStream(answers, output, place)
        /\ place + Len(output) <= Start(Len(answers) + 1)
    BY <1>2, <1>3, <1>7 DEF Types, UnderWay
  <2> HIDE DEF place
  <2> QED
    BY <1>1, <1>4, <1>7, <2>1, StreamKept DEF Types
<1>11. output' \in Seq(Byte) /\ Len(output') = Len(output) + ResponseBytes
  BY <1>1, <1>6, Joined DEF Types
<1>12. InStream(answers', output', place)
  <2> HIDE DEF place
  <2>1. InStream(answers', Bytes(a), place + Len(output)) /\ output \in Seq(Byte)
    BY <1>6, <1>7 DEF Types
  <2> QED
    BY <1>1, <1>6, <1>7, <1>10, <2>1, StreamJoin
<1>13. Start(Len(answers') + 1) = Start(Len(answers) + 1) + ResponseBytes
  <2>1. Start(Len(answers) + 2) = Start(Len(answers) + 1) + ResponseBytes
    BY <1>3, Starts
  <2>2. Len(answers') + 1 = Len(answers) + 2
    BY <1>3, <1>5
  <2> QED
    BY <2>1, <2>2
<1>14. /\ place <= Start(Len(answers') + 1)
       /\ place + Len(output') = Start(Len(answers') + 1)
  <2> DEFINE T == Start(Len(answers) + 1)
  <2>1. place <= T + ResponseBytes /\ place + (Len(output) + ResponseBytes) = T + ResponseBytes
    <3>1. T \in Nat
      BY <1>3, Starts
    <3> HIDE DEF place, T
    <3> QED
      BY <1>3, <1>7, <3>1, Sizes DEF T
  <2> HIDE DEF place
  <2> QED
    BY <1>11, <1>13, <2>1, Zenon
<1>15. UnderWay'
  BY <1>2, <1>8, <1>9, <1>12, <1>14 DEF UnderWay
<1>16. ResponsesAsMade'
  <2>1. DOMAIN responses = 1 .. Len(responses) /\ Len(responses) <= Len(answers)
    BY LenProperties DEF Types, ResponsesAsMade
  <2>2. \A i \in DOMAIN responses : answers'[i] = answers[i]
    BY <1>3, <1>5, <2>1
  <2>3. Len(responses) <= Len(answers')
    BY <1>3, <1>5, <2>1
  <2> QED
    BY <1>2, <2>2, <2>3 DEF ResponsesAsMade
<1> QED
  BY <1>5, <1>11, <1>15, <1>16

\* The blank line of the first response is found where it is.
LEMMA HeadEnds ==
  ASSUME Types, \A i \in 1 .. Len(buffer) : i <= ResponseBytes => buffer[i].n = i
  PROVE  HeadEnd = IF HeadBytes <= Len(buffer) THEN HeadBytes ELSE 0
<1> DEFINE I == {i \in 1 .. Len(buffer) : buffer[i].n = HeadBytes}
<1>1. Len(buffer) \in Nat /\ HeadBytes \in Nat /\ 1 <= HeadBytes /\ HeadBytes <= ResponseBytes
      /\ ResponseBytes \in Nat
  BY Lengths, Sizes
<1> DEFINE first == CHOOSE i \in I : \A j \in I : i <= j
<1>2. HeadEnd = IF I = {} THEN 0 ELSE first
  BY DEF HeadEnd
<1>3. \A i \in I : HeadBytes <= i
  BY <1>1
<1>4. CASE HeadBytes <= Len(buffer)
  <2>1. HeadBytes \in I
    BY <1>1, <1>4
  <2>2. I \subseteq Int
    OBVIOUS
  <2> HIDE DEF I
  <2>3. \A m \in I : (\A y \in I : m <= y) => m = HeadBytes
    BY <1>1, <1>3, <2>1, <2>2
  <2>4. first = HeadBytes
    BY <1>3, <2>1, <2>3
  <2> QED
    BY <1>2, <1>4, <2>1, <2>4
<1>5. CASE ~ (HeadBytes <= Len(buffer))
  <2>1. I = {}
    BY <1>1, <1>3, <1>5
  <2> QED
    BY <1>2, <1>5, <2>1
<1> QED
  BY <1>4, <1>5

\* What read_one finds once the response is complete: the whole of the next one.
LEMMA FirstInBuffer ==
  ASSUME Types, UnderWay, ResponsesAsMade, ResponseComplete
  PROVE  /\ HeadEnd = HeadBytes /\ ResponseEnd = ResponseBytes /\ ResponseBytes <= Len(buffer)
         /\ Len(responses) < Len(answers)
         /\ \A i \in 1 .. ResponseBytes : buffer[i] = [of |-> answers[Len(responses) + 1], n |-> i]
<1>1. /\ Len(buffer) \in Nat /\ Len(down) \in Nat /\ Len(responses) \in Nat /\ Len(answers) \in Nat
      /\ Taken \in Nat /\ Start(Len(answers) + 1) \in Nat
  BY Lengths
<1>2. ASSUME Len(buffer) = 0 PROVE FALSE
  <2>1. HeadEnd = 0
    BY <1>2, HeadEnds, Sizes
  <2> QED
    BY <2>1 DEF ResponseComplete
<1>3. Len(responses) < Len(answers)
  <2>1. Taken + Len(buffer) + Len(down) <= Start(Len(answers) + 1)
    BY DEF UnderWay
  <2>2. Start(Len(responses) + 1) # Start(Len(answers) + 1)
    BY <1>1, <1>2, <2>1 DEF Taken
  <2> QED
    BY <1>1, <2>2 DEF ResponsesAsMade
<1>4. \A i \in 1 .. Len(buffer) :
        i <= ResponseBytes => buffer[i] = [of |-> answers[Len(responses) + 1], n |-> i]
  <2> SUFFICES ASSUME NEW i \in 1 .. Len(buffer), i <= ResponseBytes
               PROVE  buffer[i] = [of |-> answers[Len(responses) + 1], n |-> i]
    OBVIOUS
  <2>1. Len(responses) + 1 \in 1 .. Len(answers) /\ i \in 1 .. ResponseBytes
    BY <1>1, <1>3, Sizes
  <2>2. Taken + i = Start(Len(responses) + 1) + i
    BY DEF Taken
  <2> QED
    BY <2>1, <2>2 DEF UnderWay, InStream
<1>5. HeadEnd = IF HeadBytes <= Len(buffer) THEN HeadBytes ELSE 0
  <2>1. ASSUME NEW i \in 1 .. Len(buffer), i <= ResponseBytes PROVE buffer[i].n = i
    <3>1. buffer[i] = [of |-> answers[Len(responses) + 1], n |-> i]
      BY <1>4, <2>1
    <3> QED
      BY <3>1
  <2> QED
    BY <2>1, HeadEnds
<1>6. HeadEnd = HeadBytes /\ ResponseEnd = ResponseBytes /\ ResponseBytes <= Len(buffer)
  <2>1. HeadEnd > 0 /\ Len(buffer) >= HeadEnd + BodyBytes
    BY DEF ResponseComplete, ResponseEnd
  <2>2. HeadEnd = HeadBytes
    BY <1>5, <2>1
  <2> QED
    BY <1>1, <2>1, <2>2, Sizes DEF ResponseEnd
<1>7. \A i \in 1 .. ResponseBytes : i \in 1 .. Len(buffer) /\ i <= ResponseBytes
  BY <1>1, <1>6, Sizes
<1> QED
  BY <1>3, <1>4, <1>6, <1>7

\* read_one takes the next response out of the buffer, and only that.
LEMMA ReadKeepsStream ==
  ASSUME Types, UnderWay, ResponsesAsMade, ReadOne
  PROVE  /\ UnderWay' /\ ResponsesAsMade' /\ buffer' \in Seq(Byte)
         /\ responses' \in Seq([of : Answered, body : Seq(Byte)])
         /\ Len(responses') = Len(responses) + 1 /\ buffer[1].n = 1
<1> DEFINE k == Len(responses)
<1> DEFINE a == answers[k + 1]
<1> DEFINE body == SubSeq(buffer, HeadBytes + 1, ResponseBytes)
<1>1. /\ Len(buffer) \in Nat /\ Len(down) \in Nat /\ k \in Nat /\ Len(answers) \in Nat
      /\ Taken \in Nat
  BY Lengths
<1>2. ResponseComplete /\ UNCHANGED <<down, answers, output, ending>>
  BY DEF ReadOne, server
<1>3. /\ HeadEnd = HeadBytes /\ ResponseEnd = ResponseBytes /\ ResponseBytes <= Len(buffer)
      /\ k < Len(answers)
      /\ \A i \in 1 .. ResponseBytes : buffer[i] = [of |-> a, n |-> i]
  BY <1>2, FirstInBuffer
<1>4. 1 \in 1 .. ResponseBytes /\ buffer[1] = [of |-> a, n |-> 1]
  BY <1>3, Sizes
<1>5. buffer[1].n = 1 /\ buffer[1].of = a
  BY <1>4
<1>6. /\ responses' = Append(responses, [of |-> a, body |-> body])
      /\ buffer' = SubSeq(buffer, ResponseBytes + 1, Len(buffer))
  BY <1>3, <1>5 DEF ReadOne, Keep
<1>7. a \in Answered /\ Bytes(a) \in Seq(Byte) /\ Len(Bytes(a)) = ResponseBytes
  <2>1. answers \in Seq(Answered) /\ k + 1 \in 1 .. Len(answers)
    BY <1>1, <1>3 DEF Types
  <2>2. a \in Answered
    BY <2>1, ElementOfSeq
  <2> QED
    BY <2>1, <2>2, StreamGrows
<1>8. body \in Seq(Byte) /\ body = Body(a)
  <2>1. /\ body \in Seq(Byte) /\ Len(body) = ResponseBytes - HeadBytes
        /\ \A i \in 1 .. ResponseBytes - HeadBytes : body[i] = buffer[HeadBytes + i]
    BY <1>1, <1>3, Slice, Sizes DEF Types
  <2>2. Body(a) = SubSeq(Bytes(a), HeadBytes + 1, ResponseBytes)
    BY DEF Body, ResponseBytes
  <2>3. /\ Body(a) \in Seq(Byte) /\ Len(Body(a)) = ResponseBytes - HeadBytes
        /\ \A i \in 1 .. ResponseBytes - HeadBytes : Body(a)[i] = Bytes(a)[HeadBytes + i]
    <3> HIDE DEF a
    <3>1. LET s == SubSeq(Bytes(a), HeadBytes + 1, ResponseBytes)
          IN  /\ s \in Seq(Byte) /\ Len(s) = ResponseBytes - HeadBytes
              /\ \A i \in 1 .. ResponseBytes - HeadBytes : s[i] = Bytes(a)[HeadBytes + i]
      BY <1>7, Slice, Sizes
    <3> QED
      BY <2>2, <3>1
  <2>4. \A i \in 1 .. ResponseBytes - HeadBytes : buffer[HeadBytes + i] = Bytes(a)[HeadBytes + i]
    <3> SUFFICES ASSUME NEW i \in 1 .. ResponseBytes - HeadBytes
                 PROVE  buffer[HeadBytes + i] = Bytes(a)[HeadBytes + i]
      OBVIOUS
    <3>1. HeadBytes + i \in 1 .. ResponseBytes
      BY Sizes
    <3> QED
      BY <1>3, <3>1 DEF Bytes, ResponseBytes
  <2> HIDE DEF a, body
  <2>5. \A i \in 1 .. Len(body) : body[i] = Body(a)[i]
    BY <2>1, <2>3, <2>4
  <2>6. body = Body(a)
    BY <2>1, <2>3, <2>5, SeqEqual
  <2> QED
    BY <2>1, <2>6
<1> HIDE DEF a, body
<1>9. /\ responses' \in Seq([of : Answered, body : Seq(Byte)]) /\ Len(responses') = k + 1
      /\ \A i \in 1 .. k : responses'[i] = responses[i]
      /\ responses'[k + 1] = [of |-> a, body |-> Body(a)]
  <2>1. [of |-> a, body |-> body] \in [of : Answered, body : Seq(Byte)]
        /\ responses \in Seq([of : Answered, body : Seq(Byte)])
    BY <1>7, <1>8 DEF Types
  <2>2. LET new == Append(responses, [of |-> a, body |-> body])
        IN  /\ new \in Seq([of : Answered, body : Seq(Byte)]) /\ Len(new) = k + 1
            /\ \A i \in 1 .. k : new[i] = responses[i]
            /\ new[k + 1] = [of |-> a, body |-> body]
    BY <2>1, AppendProperties
  <2> QED
    BY <1>6, <1>8, <2>2
<1>10. ResponsesAsMade'
  <2>1. DOMAIN responses' = 1 .. k + 1 /\ DOMAIN responses = 1 .. k
    BY <1>9, LenProperties DEF Types
  <2>2. Len(responses') <= Len(answers')
    BY <1>1, <1>2, <1>3, <1>9
  <2>3. ASSUME NEW i \in 1 .. k + 1
        PROVE  responses'[i] = [of |-> answers[i], body |-> Body(answers[i])]
    <3>1. CASE i \in 1 .. k
      BY <1>9, <2>1, <3>1 DEF ResponsesAsMade
    <3>2. CASE i = k + 1
      BY <1>9, <3>2 DEF a
    <3> QED
      BY <1>1, <3>1, <3>2
  <2> QED
    BY <1>2, <2>1, <2>2, <2>3 DEF ResponsesAsMade
<1>11. Taken' = Taken + ResponseBytes
  <2>1. Start(k + 2) = Start(k + 1) + ResponseBytes
    BY <1>1, Starts
  <2>2. Len(responses') + 1 = k + 2
    BY <1>1, <1>9
  <2> QED
    BY <2>1, <2>2 DEF Taken
<1>12. /\ buffer' \in Seq(Byte) /\ Len(buffer') = Len(buffer) - ResponseBytes
       /\ InStream(answers, buffer', Taken + ResponseBytes)
  <2>1. buffer \in Seq(Byte) /\ InStream(answers, buffer, Taken) /\ ResponseBytes \in 0 .. Len(buffer)
    BY <1>1, <1>3, Sizes DEF Types, UnderWay
  <2>2. InStream(answers, SubSeq(buffer, ResponseBytes + 1, Len(buffer)), Taken + ResponseBytes)
    BY <1>1, <2>1, StreamCut
  <2>3. LET s == SubSeq(buffer, ResponseBytes + 1, Len(buffer))
        IN  s \in Seq(Byte) /\ Len(s) = Len(buffer) - ResponseBytes
    <3>1. PICK R : R = Byte
      OBVIOUS
    <3>2. buffer \in Seq(R) /\ Len(buffer) \in Nat /\ ResponseBytes \in Nat /\ ResponseBytes <= Len(buffer)
      BY <1>1, <2>1, <3>1, Sizes
    <3>3. LET s == SubSeq(buffer, ResponseBytes + 1, Len(buffer))
          IN  s \in Seq(R) /\ Len(s) = Len(buffer) - ResponseBytes
      BY <3>2, Slice
    <3> QED
      BY <3>1, <3>3
  <2> QED
    BY <1>6, <2>2, <2>3
<1>13. Taken' + Len(buffer') = Taken + Len(buffer)
  BY <1>1, <1>11, <1>12, Sizes
<1>14. UnderWay'
  BY <1>2, <1>11, <1>12, <1>13 DEF UnderWay
<1> QED
  BY <1>5, <1>9, <1>10, <1>12, <1>14

-----------------------------------------------------------------------------
(* What steps do to the counts *)

\* Every step keeps the stream, and the types of what it moves.
LEMMA StepKeepsStream ==
  ASSUME IInv, [Next]_vars
  PROVE  /\ UnderWay' /\ ResponsesAsMade'
         /\ buffer' \in Seq(Byte) /\ down' \in Seq(Byte) /\ output' \in Seq(Byte)
         /\ responses' \in Seq([of : Answered, body : Seq(Byte)])
         /\ answers' \in Seq(Answered)
<1>1. Types /\ UnderWay /\ ResponsesAsMade
  BY DEF IInv
<1>2. ASSUME StreamStays
      PROVE  /\ UnderWay' /\ ResponsesAsMade'
             /\ buffer' \in Seq(Byte) /\ down' \in Seq(Byte) /\ output' \in Seq(Byte)
             /\ responses' \in Seq([of : Answered, body : Seq(Byte)])
             /\ answers' \in Seq(Answered)
  <2>1. UnderWay' /\ ResponsesAsMade'
    BY <1>1, <1>2, StayingKeepsStream
  <2>2. down \in Seq(Byte) /\ <<>> \in Seq(Byte)
    BY <1>1 DEF Types
  <2> QED
    BY <1>1, <1>2, <2>1, <2>2, Zenon DEF StreamStays, Types
<1>3. CASE NoCandidateLeft \/ ConnectSucceeds \/ ConnectFails
  BY <1>2, <1>3, Zenon DEF NoCandidateLeft, ConnectSucceeds, ConnectFails, StreamStays, server
<1>4. CASE SendSome \/ SendFails \/ SendEnds
  <2>1. StreamStays
    BY <1>4 DEF SendSome, SendFails, SendEnds, StreamStays, server
  <2> QED
    BY <1>2, <2>1, Zenon
<1>5. CASE FillFails \/ Check \/ Finished \/ UNCHANGED vars
  BY <1>2, <1>5, Zenon DEF FillFails, Check, Finished, vars, StreamStays, server
<1>6. CASE ServerReads \/ ServerEnds
  <2>1. StreamStays
    BY <1>6 DEF ServerReads, ServerEnds, StreamStays, server, client
  <2> QED
    BY <1>2, <2>1, Zenon
<1>7. CASE Fill
  BY <1>1, <1>7, FillKeepsStream DEF Fill, Types, server
<1>8. CASE ReadOne
  BY <1>1, <1>8, ReadKeepsStream DEF ReadOne, Types, server
<1>9. CASE ServerAnswers
  BY <1>1, <1>9, AnswerKeepsStream DEF ServerAnswers, Types, client
<1>10. CASE ServerSends
  BY <1>1, <1>10, SendKeepsStream DEF ServerSends, Types, client
<1> QED
  BY <1>3, <1>4, <1>5, <1>6, <1>7, <1>8, <1>9, <1>10, Zenon DEF Next, ClientStep, ServerStep

\* How many bytes are asked for when n more requests are.
LEMMA AskedBytes ==
  ASSUME IInv, NEW n \in Nat, asked' = asked + n
  PROVE  /\ asked' \in Nat /\ n * RequestBytes \in Nat /\ asked * RequestBytes \in Nat
         /\ asked' * RequestBytes = asked * RequestBytes + n * RequestBytes
<1>1. asked \in Nat /\ RequestBytes \in Nat
  BY Sizes DEF IInv, Types
<1>2. n * RequestBytes \in Nat /\ asked * RequestBytes \in Nat
  BY <1>1, Multiples
<1>3. (asked + n) * RequestBytes = asked * RequestBytes + n * RequestBytes
  BY <1>1
<1> QED
  BY <1>1, <1>2, <1>3

\* A call of send_all when all that was asked has been sent.
LEMMA AskKeeps ==
  ASSUME IInv, NEW n \in Nat, Ask(n), toSend = 0, asked + n <= Exchanges + 1,
         UNCHANGED <<up, received, answers>>
  PROVE  Asked' /\ asked' \in Nat /\ toSend' \in Nat /\ pc' = "send"
<1>1. asked' = asked + n /\ toSend' = n * RequestBytes /\ pc' = "send"
  BY DEF Ask
<1>2. /\ asked' \in Nat /\ n * RequestBytes \in Nat /\ asked * RequestBytes \in Nat
      /\ asked' * RequestBytes = asked * RequestBytes + n * RequestBytes
  BY <1>1, AskedBytes
<1>3. up \in Nat /\ received \in Nat
  BY DEF IInv, Types
<1>4. received + up <= asked * RequestBytes /\ Len(answers) * RequestBytes <= received
  BY <1>3 DEF IInv, Asked
<1>5. received' + up' + toSend' <= asked' * RequestBytes
  BY <1>1, <1>2, <1>3, <1>4
<1> QED
  BY <1>1, <1>2, <1>4, <1>5 DEF Asked

\* The part of the invariant that is about counts and about the client's step.
Counted ==
  /\ pc \in {"connect", "send", "receive", "check", "exit"}
  /\ asked \in Nat /\ toSend \in Nat /\ up \in Nat /\ received \in Nat
  /\ Asked /\ Progress

\* What the counts of the current state are, as numbers.
LEMMA CountsAre ==
  ASSUME IInv
  PROVE  /\ Counted /\ Len(responses) \in Nat /\ Len(answers) \in Nat
         /\ Exchanges \in Nat /\ 1 <= Exchanges /\ asked * RequestBytes \in Nat
         /\ exit = 0 => pc = "exit"
<1>1. Len(responses) \in Nat /\ Len(answers) \in Nat
  BY Lengths DEF IInv
<1>2. asked * RequestBytes \in Nat
  <2>1. asked \in Nat /\ RequestBytes \in Nat
    BY Sizes DEF IInv, Types
  <2> QED
    BY <2>1, Multiples
<1>3. Counted /\ (exit = 0 => pc = "exit")
  BY Zenon DEF IInv, Types, Counted, Progress
<1> QED
  BY <1>1, <1>2, <1>3, Sizes

\* Connecting: the first request, or with --pipeline the whole batch, is asked.
LEMMA ConnectingCounts ==
  ASSUME IInv, NoCandidateLeft \/ ConnectSucceeds \/ ConnectFails
  PROVE  Counted'
<1>1. /\ pc = "connect" /\ toSend = 0 /\ asked = 0 /\ Len(responses) = 0 /\ exit # 0
      /\ UNCHANGED <<up, received, answers, responses>>
  BY CountsAre DEF Counted, Progress, NoCandidateLeft, ConnectSucceeds, ConnectFails, server
<1>2. CASE ConnectFails
  BY <1>2, CountsAre DEF ConnectFails, Counted, Asked, Progress, server
<1>3. CASE NoCandidateLeft
  <2>1. pc' = "exit" /\ exit' = 1 /\ UNCHANGED <<asked, toSend>>
    BY <1>3 DEF NoCandidateLeft, Exit
  <2> QED
    BY <1>1, <2>1, CountsAre DEF Counted, Asked, Progress
<1>4. CASE ConnectSucceeds
  <2> DEFINE n == IF pipeline THEN Exchanges ELSE 1
  <2>1. n \in Nat /\ 1 <= n /\ n <= Exchanges
    BY Sizes
  <2>2. Ask(n) /\ exit' = exit
    BY <1>4 DEF ConnectSucceeds
  <2> HIDE DEF n
  <2>3. asked + n <= Exchanges + 1 /\ asked' = n
    BY <1>1, <2>1, <2>2, Sizes DEF Ask
  <2>4. Asked' /\ asked' \in Nat /\ toSend' \in Nat /\ pc' = "send"
    BY <1>1, <2>1, <2>2, <2>3, AskKeeps
  <2>5. Progress'
    BY <1>1, <2>1, <2>2, <2>3, <2>4, Sizes DEF Progress
  <2> QED
    BY <1>1, <2>4, <2>5, CountsAre DEF Counted
<1> QED
  BY <1>2, <1>3, <1>4

\* Of t bytes n leave, and arrive or are lost.
LEMMA Moved ==
  ASSUME NEW r \in Nat, NEW u \in Nat, NEW t \in Nat, NEW all \in Nat, r + u + t <= all,
         NEW n \in Nat, n <= t, NEW u2 \in {u + n, u}, NEW t2, t2 = t - n
  PROVE  t2 \in Nat /\ u2 \in Nat /\ r + u2 + t2 <= all
  OBVIOUS

\* Sending, and receiving bytes: what was asked goes to the server.
LEMMA SendingCounts ==
  ASSUME IInv, SendSome \/ SendFails \/ SendEnds \/ Fill \/ FillFails
  PROVE  Counted'
<1>1. Counted /\ exit # 0 /\ UNCHANGED <<asked, received, answers, responses>>
  BY CountsAre DEF SendSome, SendFails, SendEnds, Fill, FillFails, server
<1>2. CASE SendSome
  <2> DEFINE n == Lesser(toSend, ToServer - up)
  <2>1. n \in Nat /\ n <= toSend
    <3>1. ToServer \in Nat /\ up < ToServer
      BY <1>2, DemoAssumption DEF DemoAssumption, SendSome
    <3>2. toSend \in Nat /\ up \in Nat
      BY <1>1 DEF Counted
    <3> QED
      BY <3>1, <3>2, LesserIs
  <2>2. toSend' = toSend - n /\ up' \in {up + n, up} /\ UNCHANGED <<pc, exit>> /\ pc = "send"
    BY <1>2 DEF SendSome
  <2> HIDE DEF n
  <2>3. toSend' \in Nat /\ up' \in Nat /\ received + up' + toSend' <= asked * RequestBytes
    <3>1. toSend \in Nat /\ up \in Nat /\ received \in Nat
      BY <1>1 DEF Counted
    <3>2. received + up + toSend <= asked * RequestBytes /\ asked * RequestBytes \in Nat
      BY <1>1, CountsAre DEF Counted, Asked
    <3>3. PICK u2, t2 : u2 = up' /\ t2 = toSend'
      OBVIOUS
    <3>4. u2 \in {up + n, up} /\ t2 = toSend - n
      BY <2>2, <3>3, Zenon
    <3>5. t2 \in Nat /\ u2 \in Nat /\ received + u2 + t2 <= asked * RequestBytes
      BY <2>1, <3>1, <3>2, <3>4, Moved
    <3> QED
      BY <3>3, <3>5, Zenon
  <2>4. Asked'
    BY <1>1, <2>3 DEF Counted, Asked
  <2>5. Progress'
    BY <1>1, <2>2 DEF Counted, Progress
  <2> QED
    BY <1>1, <2>2, <2>3, <2>4, <2>5 DEF Counted
<1>3. CASE SendFails \/ FillFails
  <2>1. pc' = "exit" /\ exit' = 1 /\ UNCHANGED <<toSend, up>>
    BY <1>3 DEF SendFails, FillFails, Exit
  <2> QED
    BY <1>1, <2>1 DEF Counted, Asked, Progress
<1>4. CASE SendEnds
  <2>1. pc = "send" /\ toSend = 0 /\ pc' = "receive" /\ UNCHANGED <<toSend, up, exit>>
    BY <1>4 DEF SendEnds
  <2> QED
    BY <1>1, <2>1 DEF Counted, Asked, Progress
<1>5. CASE Fill
  <2>1. UNCHANGED <<toSend, up, exit, pc>>
    BY <1>5 DEF Fill
  <2> QED
    BY <1>1, <2>1 DEF Counted, Asked, Progress
<1> QED
  BY <1>2, <1>3, <1>4, <1>5

\* A response has been read: main() receives on, asks, checks, or is done.
LEMMA ReadingCounts ==
  ASSUME IInv, ReadOne
  PROVE  Counted'
<1>1. /\ Counted /\ exit # 0 /\ pc = "receive" /\ UNCHANGED <<up, received, answers>>
  BY CountsAre DEF ReadOne, server
<1>2. /\ Len(responses) \in Nat /\ Exchanges \in Nat /\ asked \in Nat /\ asked <= Exchanges + 1
      /\ toSend = 0 /\ Len(responses) < asked
      /\ asked > Exchanges => Len(responses) = Exchanges
  BY <1>1, CountsAre DEF Counted, Asked, Progress
<1>3. Len(responses') = Len(responses) + 1 /\ buffer[1].n = 1
  BY ReadKeepsStream DEF IInv
<1>4. PICK read : read = Len(responses')
  OBVIOUS
<1>5. read \in Nat /\ read = Len(responses) + 1 /\ read <= Exchanges + 1
  BY <1>2, <1>3, <1>4
<1>6. CASE read > Exchanges
  <2>1. AfterRead = "done"
    BY <1>4, <1>6 DEF AfterRead
  <2>2. exit' = (IF Verdict(responses') THEN 0 ELSE 1) /\ pc' = "exit" /\ UNCHANGED <<asked, toSend>>
    BY <1>3, <2>1, Zenon DEF ReadOne, Exit
  <2>3. read = Exchanges + 1
    BY <1>2, <1>5, <1>6
  <2>4. exit' = 0 => Verdict(responses')
    BY <2>2
  <2>5. Progress'
    BY <1>4, <2>2, <2>3, <2>4 DEF Progress
  <2> QED
    BY <1>1, <2>2, <2>5 DEF Counted, Asked
<1>7. CASE read = Exchanges
  <2>1. AfterRead = "check"
    BY <1>4, <1>5, <1>7 DEF AfterRead
  <2>2. pc' = "check" /\ UNCHANGED <<asked, toSend, exit>>
    BY <1>3, <2>1, Zenon DEF ReadOne
  <2>3. asked = Exchanges
    BY <1>2, <1>5, <1>7
  <2>4. Progress'
    BY <1>1, <1>2, <1>4, <1>7, <2>2, <2>3 DEF Progress
  <2> QED
    BY <1>1, <2>2, <2>4 DEF Counted, Asked
<1>8. CASE read < Exchanges /\ read < asked
  <2>1. AfterRead = "receive"
    BY <1>2, <1>4, <1>5, <1>8 DEF AfterRead
  <2>2. pc' = "receive" /\ UNCHANGED <<asked, toSend, exit>>
    BY <1>3, <2>1, Zenon DEF ReadOne
  <2>3. ~ asked > Exchanges
    BY <1>2, <1>5, <1>8
  <2>4. Progress'
    BY <1>1, <1>2, <1>4, <1>8, <2>2, <2>3 DEF Progress
  <2> QED
    BY <1>1, <2>2, <2>4 DEF Counted, Asked
<1>9. CASE read < Exchanges /\ ~ read < asked
  <2>1. AfterRead = "ask"
    BY <1>2, <1>4, <1>5, <1>9 DEF AfterRead
  <2>2. Ask(1) /\ exit' = exit
    BY <1>3, <2>1, Zenon DEF ReadOne
  <2>3. asked' = asked + 1 /\ read < asked + 1 /\ asked + 1 <= Exchanges /\ asked + 1 <= Exchanges + 1
    BY <1>2, <1>5, <1>9, <2>2 DEF Ask
  <2>4. Asked' /\ asked' \in Nat /\ toSend' \in Nat /\ pc' = "send"
    BY <1>1, <1>2, <2>2, <2>3, AskKeeps
  <2>5. read < asked' /\ ~ asked' > Exchanges
    BY <1>2, <2>3
  <2>6. Progress'
    BY <1>1, <1>4, <2>2, <2>4, <2>5 DEF Progress
  <2> QED
    BY <1>1, <2>4, <2>6 DEF Counted
<1> QED
  BY <1>2, <1>5, <1>6, <1>7, <1>8, <1>9

\* The check of the socket, after which the probe is asked; and the end.
LEMMA CheckingCounts ==
  ASSUME IInv, Check \/ Finished \/ UNCHANGED vars
  PROVE  Counted'
<1>1. Counted /\ Exchanges \in Nat
  BY CountsAre
<1>2. CASE Finished \/ UNCHANGED vars
  BY <1>1, <1>2 DEF Finished, vars, Counted, Asked, Progress
<1>3. CASE Check
  <2>1. /\ pc = "check" /\ exit # 0 /\ toSend = 0 /\ asked = Exchanges /\ Len(responses) = Exchanges
        /\ UNCHANGED <<up, received, answers, responses>>
    BY <1>1, <1>3, CountsAre DEF Check, server, Counted, Progress
  <2>2. CASE Ask(1) /\ UNCHANGED exit
    <3>1. asked' = asked + 1 /\ asked + 1 <= Exchanges + 1
      BY <1>1, <2>1, <2>2 DEF Ask
    <3>2. Asked' /\ asked' \in Nat /\ toSend' \in Nat /\ pc' = "send"
      BY <2>1, <2>2, <3>1, AskKeeps
    <3>3. Progress'
      BY <1>1, <2>1, <2>2, <3>1, <3>2 DEF Progress
    <3> QED
      BY <1>1, <2>1, <3>2, <3>3 DEF Counted
  <2>3. CASE Exit(1) /\ UNCHANGED <<asked, toSend>>
    BY <1>1, <2>1, <2>3 DEF Exit, Counted, Asked, Progress
  <2> QED
    BY <1>3, <2>2, <2>3 DEF Check
<1> QED
  BY <1>2, <1>3

\* The server reads, answers what it has read, sends, and ends the connection.
LEMMA ServingCounts ==
  ASSUME IInv, ServerStep \/ ServerEnds
  PROVE  Counted'
<1>1. Counted /\ UNCHANGED <<pc, asked, toSend, responses, exit>>
  BY CountsAre DEF ServerStep, ServerReads, ServerAnswers, ServerSends, ServerEnds, client
<1>2. Progress'
  BY <1>1 DEF Counted, Progress
<1>3. up \in Nat /\ received \in Nat /\ toSend \in Nat /\ asked * RequestBytes \in Nat
      /\ received + up + toSend <= asked * RequestBytes /\ Len(answers) * RequestBytes <= received
      /\ Len(answers) \in Nat /\ RequestBytes \in Nat
  BY <1>1, CountsAre, Sizes DEF Counted, Asked
<1>4. CASE ServerReads
  <2>1. up > 0 /\ up' = up - 1 /\ received' = received + 1 /\ answers' = answers
    BY <1>4 DEF ServerReads
  <2>2. PICK u2, r2 : u2 = up' /\ r2 = received'
    OBVIOUS
  <2>3. u2 = up - 1 /\ r2 = received + 1
    BY <2>1, <2>2
  <2>4. Len(answers) * RequestBytes \in Nat
    BY <1>3, Multiples
  <2>5. /\ u2 \in Nat /\ r2 \in Nat /\ r2 + u2 + toSend <= asked * RequestBytes
        /\ Len(answers) * RequestBytes <= r2
    BY <1>3, <2>1, <2>3, <2>4
  <2>6. /\ up' \in Nat /\ received' \in Nat /\ received' + up' + toSend <= asked * RequestBytes
        /\ Len(answers) * RequestBytes <= received'
    BY <2>2, <2>5, Zenon
  <2>7. Asked'
    BY <1>1, <2>1, <2>6, Zenon DEF Counted, Asked
  <2> QED
    BY <1>1, <1>2, <2>6, <2>7, Zenon DEF Counted
<1>5. CASE ServerAnswers
  <2>1. Len(answers') = Len(answers) + 1 /\ UNCHANGED <<up, received>>
    BY <1>5, AnswerKeepsStream DEF IInv, ServerAnswers
  <2>2. (Len(answers) + 1) * RequestBytes <= received
    BY <1>3, <1>5, Multiples DEF ServerAnswers
  <2>3. Len(answers') * RequestBytes <= received
    BY <2>1, <2>2, Zenon
  <2> QED
    BY <1>1, <1>2, <2>1, <2>3, Zenon DEF Counted, Asked
<1>6. CASE ServerSends \/ ServerEnds
  <2>1. UNCHANGED <<up, received, answers>>
    BY <1>6 DEF ServerSends, ServerEnds, server
  <2> QED
    BY <1>1, <1>2, <2>1, Zenon DEF Counted, Asked
<1> QED
  BY <1>4, <1>5, <1>6 DEF ServerStep

-----------------------------------------------------------------------------
(* The invariant, and what follows from it *)

LEMMA InitIsInvariant == Init => IInv
<1> SUFFICES ASSUME Init PROVE IInv
  OBVIOUS
<1>1. Len(buffer) = 0 /\ Len(down) = 0 /\ Len(output) = 0 /\ Len(responses) = 0 /\ Len(answers) = 0
  BY DEF Init
<1>2. Types
  BY DEF Init, Types
<1>3. Asked
  BY <1>1, Sizes DEF Init, Asked
<1>4. Progress
  BY <1>1, Sizes DEF Init, Progress
<1>5. UnderWay
  <2>1. Taken = 0 /\ Start(Len(answers) + 1) = 0
    BY <1>1, Starts DEF Taken
  <2> QED
    BY <1>1, <2>1 DEF Init, UnderWay, InStream
<1>6. ResponsesAsMade
  BY <1>1 DEF Init, ResponsesAsMade
<1> QED
  BY <1>2, <1>3, <1>4, <1>5, <1>6 DEF IInv

LEMMA StepKeepsInvariant == IInv /\ [Next]_vars => IInv'
<1> SUFFICES ASSUME IInv, [Next]_vars PROVE IInv'
  OBVIOUS
<1>1. Counted'
  BY ConnectingCounts, SendingCounts, ReadingCounts, CheckingCounts, ServingCounts, Zenon
     DEF Next, ClientStep
<1> QED
  BY <1>1, StepKeepsStream, Zenon DEF IInv, Types, Counted

LEMMA Invariance == Spec => []IInv
<1> QED
  BY InitIsInvariant, StepKeepsInvariant, PTL DEF Spec

\* ResponseReader returns the responses the server made, whole and in order,
\* wherever recv() cuts the stream (fill, read_one), for responses of every size.
THEOREM ReaderReturnsResponses == Spec => []ResponsesAsMade
<1>1. IInv => ResponsesAsMade
  BY DEF IInv
<1> QED
  BY <1>1, Invariance, PTL

\* The server cannot have answered more than was asked.
LEMMA AnswersWereAsked ==
  ASSUME IInv
  PROVE  Len(answers) <= Exchanges + 1
<1>1. /\ asked \in Nat /\ up \in Nat /\ received \in Nat /\ toSend \in Nat /\ Len(answers) \in Nat
      /\ Exchanges \in Nat /\ asked <= Exchanges + 1 /\ asked * RequestBytes \in Nat
      /\ received + up + toSend <= asked * RequestBytes /\ Len(answers) * RequestBytes <= received
  BY CountsAre DEF Counted, Asked
<1>2. asked < Len(answers) => asked * RequestBytes + RequestBytes <= Len(answers) * RequestBytes
  BY <1>1, Sizes, Multiples
<1>3. Len(answers) * RequestBytes \in Nat /\ RequestBytes \in Nat \ {0}
  BY <1>1, Sizes, Multiples
<1>4. ~ asked < Len(answers)
  BY <1>1, <1>2, <1>3
<1> QED
  BY <1>1, <1>4

\* main() returns 0 only if every request and the probe was answered, rightly
\* and in order, by one connection: the comment at the top of the program.
THEOREM ExitStatusIsTrue == Spec => []ExitZeroMeansMatched
<1>1. IInv => ExitZeroMeansMatched
  <2> SUFFICES ASSUME IInv, exit = 0
               PROVE  /\ Len(answers) = Exchanges + 1
                      /\ \A i \in DOMAIN answers : answers[i].right /\ answers[i].conn = answers[1].conn
                      /\ \A i \in 1 .. Exchanges : answers[i].num = i
    BY DEF ExitZeroMeansMatched
  <2>1. Len(responses) = Exchanges + 1 /\ Verdict(responses)
    BY CountsAre DEF Counted, Progress
  <2>2. Exchanges \in Nat /\ 1 <= Exchanges /\ Len(answers) \in Nat
    BY CountsAre
  <2>3. Len(answers) = Exchanges + 1
    BY <2>1, <2>2, AnswersWereAsked DEF IInv, ResponsesAsMade
  <2>4. DOMAIN responses = 1 .. Exchanges + 1 /\ DOMAIN answers = 1 .. Exchanges + 1
    BY <2>1, <2>3, LenProperties DEF IInv, Types
  <2>5. \A i \in 1 .. Exchanges + 1 : responses[i].of = answers[i]
    BY <2>4 DEF IInv, ResponsesAsMade
  <2>6. \A i \in 1 .. Exchanges + 1 : answers[i].right
    BY <2>1, <2>4, <2>5, Zenon DEF Verdict, Passes
  <2> DEFINE batch == SubSeq(responses, 0 + 1, Exchanges)
  <2>7. /\ DOMAIN batch = 1 .. Exchanges
        /\ \A i \in 1 .. Exchanges : batch[i] = responses[i]
    <3>1. PICK R : responses \in Seq(R)
      BY DEF IInv, Types
    <3>3. 0 \in Nat /\ 0 <= Exchanges /\ Exchanges <= Len(responses)
      BY <2>1, <2>2
    <3>2. /\ batch \in Seq(R) /\ Len(batch) = Exchanges - 0
          /\ \A i \in 1 .. Exchanges - 0 : batch[i] = responses[0 + i]
      BY <2>2, <3>1, <3>3, Slice
    <3> QED
      BY <2>2, <3>2, LenProperties
  <2>8. /\ SameConnection(batch)
        /\ responses[Exchanges + 1].of.conn = responses[1].of.conn
    BY <2>1 DEF Verdict
  <2> HIDE DEF batch
  <2>9. /\ 1 \in 1 .. Exchanges /\ 1 \in 1 .. Exchanges + 1 /\ Exchanges + 1 \in 1 .. Exchanges + 1
        /\ \A i \in 1 .. Exchanges : i \in 1 .. Exchanges + 1
        /\ \A i \in 1 .. Exchanges + 1 : i \in 1 .. Exchanges \/ i = Exchanges + 1
    BY <2>2
  <2>10. \A i \in 1 .. Exchanges : batch[i].of = answers[i]
    BY <2>5, <2>7, <2>9, Zenon
  <2>11. ASSUME NEW i \in 1 .. Exchanges
         PROVE  answers[i].conn = answers[1].conn /\ answers[i].num = i
    <3>1. batch[i].of.conn = batch[1].of.conn /\ batch[i].of.num = i
      BY <2>7, <2>8, Zenon DEF SameConnection
    <3>2. batch[i].of = answers[i] /\ batch[1].of = answers[1]
      BY <2>9, <2>10, Zenon
    <3> QED
      BY <3>1, <3>2, Zenon
  <2>12. answers[Exchanges + 1].conn = answers[1].conn
    BY <2>5, <2>8, <2>9, Zenon
  <2> QED
    BY <2>3, <2>4, <2>6, <2>9, <2>11, <2>12, Zenon
<1> QED
  BY <1>1, Invariance, PTL

=============================================================================
