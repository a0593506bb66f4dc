---------------------------- MODULE InputProofs ----------------------------
(***************************************************************************)
(* Where the requests are in the input of a connection.  Framed says where *)
(* in the bytes not yet consumed (in the parser's buffer or in the kernel) *)
(* the requests not yet answered begin, so that the bytes next() consumes  *)
(* are exactly one request.  AnswerProofs builds on it.                    *)
(***************************************************************************)
EXTENDS ConnectionProofs

\* The bytes of the client that next() has not consumed.
Input == buffer \o unread

Unanswered == requests + 1 .. Len(sent)

\* Request k begins after byte at[k] of the input; the first one begins before
\* it when its head has been consumed.
Framed(at) ==
  /\ \A k \in Unanswered : at[k] \in Int
  /\ requests < Len(sent) =>
       /\ at[requests + 1] = IF parserState = "Body" THEN - sent[requests + 1].head ELSE 0
       /\ Len(Input) = at[Len(sent)] + sentBytes
  /\ \A k \in Unanswered : k + 1 <= Len(sent) => at[k + 1] = at[k] + Size(sent[k])
  /\ \A j, k \in Unanswered : j < k => at[j] + Size(sent[j]) <= at[k]
  /\ \A i \in 1 .. Len(Input) : \E k \in Unanswered :
       at[k] < i /\ i <= at[k] + Size(sent[k]) /\ Input[i].req = sent[k]

\* While the connection is Active its input is the requests not yet answered.
InputFramed ==
  /\ sent # <<>> => sentBytes \in 1 .. Size(Last(sent))
  /\ state = "Active" =>
       /\ requests <= Len(sent)
       /\ requests = Len(sent) =>
            Len(Input) = 0 /\ parserState = "Head" /\ ~ RequestUnfinished
       /\ parserState = "Body" => pending = sent[requests + 1]
       /\ \E at \in [Unanswered -> Int] : Framed(at)

-----------------------------------------------------------------------------
\* The input is what the parser holds, and then what the kernel holds.
LEMMA InputIs ==
  ASSUME TypeOK
  PROVE  /\ Input \in Seq(ByteOf) /\ Len(buffer) \in Nat /\ Len(unread) \in Nat
         /\ Len(Input) = Len(buffer) + Len(unread) /\ Len(Input) \in Nat
         /\ \A i \in 1 .. Len(buffer) : Input[i] = buffer[i]
         /\ \A i \in 1 .. Len(unread) : Input[Len(buffer) + i] = unread[i]
<1>1. buffer \in Seq(ByteOf) /\ unread \in Seq(ByteOf)
  BY DEF TypeOK
<1> QED
  BY <1>1, Concatenation, LenProperties DEF Input

\* The requests sent have a head and a length.
LEMMA SentRequests ==
  ASSUME TypeOK
  PROVE  /\ Len(sent) \in Nat /\ requests \in Nat /\ sentBytes \in Nat
         /\ sent # <<>> <=> Len(sent) > 0
         /\ \A k \in 1 .. Len(sent) :
              /\ sent[k] \in Requests
              /\ Size(sent[k]) \in Nat \ {0} /\ sent[k].head \in Nat \ {0}
              /\ sent[k].body \in Nat /\ Size(sent[k]) = sent[k].head + sent[k].body
<1>1. sent \in Seq(Requests) /\ requests \in Nat /\ sentBytes \in Nat
  BY DEF TypeOK
<1>2. Len(sent) \in Nat /\ (sent # <<>> <=> Len(sent) > 0)
  BY <1>1, LenProperties, EmptySeq
<1>3. \A k \in 1 .. Len(sent) : sent[k] \in Requests
  BY <1>1, ElementOfSeq
<1>4. \A r \in Requests : /\ Size(r) \in Nat \ {0} /\ r.head \in Nat \ {0}
                          /\ r.body \in Nat /\ Size(r) = r.head + r.body
  BY RequestFields DEF Size
<1> QED
  BY <1>1, <1>2, <1>3, <1>4

\* The byte next() looks at first belongs to the first request not answered.
LEMMA CurrentIsFirst ==
  ASSUME IInv, InputFramed, state = "Active", parserState = "Body" \/ buffer # <<>>
  PROVE  requests < Len(sent) /\ Current = sent[requests + 1]
<1>1. PICK at \in [Unanswered -> Int] : Framed(at)
  BY DEF InputFramed
<1>2. TypeOK /\ parserState \in {"Head", "Body"}
  BY DEF IInv, TypeOK, PhaseAndStep
<1>3. /\ Len(sent) \in Nat /\ requests \in Nat
      /\ \A k \in Unanswered : k \in Nat /\ Size(sent[k]) \in Nat \ {0}
  BY <1>2, SentRequests DEF Unanswered
<1>4. requests <= Len(sent) /\ requests = Len(sent) => Len(Input) = 0 /\ parserState = "Head"
  BY DEF InputFramed
<1>5. CASE parserState = "Body"
  BY <1>3, <1>4, <1>5 DEF InputFramed, Current
<1>6. CASE parserState = "Head" /\ buffer # <<>>
  <2>1. Len(Input) \in Nat /\ 1 \in 1 .. Len(Input) /\ Input[1] = buffer[1]
    <3>1. Len(buffer) \in Nat \ {0}
      BY SMTT(30), Z3T(30), <1>2, <1>6, LenProperties, EmptySeq DEF TypeOK
    <3> QED
      BY <1>2, <3>1, InputIs
  <2>2. requests < Len(sent)
    BY <1>3, <1>4, <2>1 DEF InputFramed
  <2>3. PICK k \in Unanswered : at[k] < 1 /\ Input[1].req = sent[k]
    BY <1>1, <2>1 DEF Framed
  <2>4. requests + 1 \in Unanswered /\ at[requests + 1] = 0
    BY SMTT(30), Z3T(30), <1>1, <1>3, <1>6, <2>2 DEF Framed, Unanswered
  <2>5. k = requests + 1
    <3>1. SUFFICES ASSUME requests + 1 < k PROVE FALSE
      BY <1>3 DEF Unanswered
    <3>2. at[requests + 1] + Size(sent[requests + 1]) <= at[k]
      BY <1>1, <2>4, <3>1 DEF Framed
    <3> QED
      BY SMTT(30), Z3T(30), <1>1, <1>3, <2>3, <2>4, <3>2
  <2> QED
    BY <1>6, <2>1, <2>2, <2>3, <2>5 DEF Current
<1> QED
  BY <1>2, <1>5, <1>6

\* Steps that consume no input and send none keep it framed.
LEMMA SameInput ==
  ASSUME InputFramed, UNCHANGED <<sent, sentBytes>>,
         state' = "Active" =>
           /\ state = "Active" /\ UNCHANGED <<requests, parserState, pending>>
           /\ Len(Input') = Len(Input)
           /\ \A i \in 1 .. Len(Input) : Input'[i] = Input[i]
  PROVE  InputFramed'
<1>1. (sent # <<>> => sentBytes \in 1 .. Size(Last(sent)))'
  BY DEF InputFramed, Size, Last
<1>2. CASE state' = "Active"
  <2>1. PICK at \in [Unanswered -> Int] : Framed(at)
    BY <1>2 DEF InputFramed
  <2>2. Unanswered' = Unanswered
    BY <1>2 DEF Unanswered
  <2>3. Framed(at)'
    BY SMTT(30), Z3T(30), <1>2, <2>1, <2>2 DEF Framed, Size
  <2> QED
    BY <1>1, <1>2, <2>2, <2>3 DEF InputFramed, RequestUnfinished, Size, Last
<1> QED
  BY <1>1, <1>2 DEF InputFramed

\* Framed, conjunct by conjunct, with the numbers it is about.
LEMMA FramedParts ==
  ASSUME TypeOK, NEW at \in [Unanswered -> Int], Framed(at)
  PROVE  /\ \A k \in Unanswered : k \in Nat /\ at[k] \in Int /\ Size(sent[k]) \in Nat \ {0}
         /\ requests < Len(sent) =>
              /\ requests + 1 \in Unanswered /\ Len(sent) \in Unanswered
              /\ at[requests + 1] = IF parserState = "Body" THEN - sent[requests + 1].head ELSE 0
              /\ Len(Input) = at[Len(sent)] + sentBytes
         /\ \A k \in Unanswered : k + 1 <= Len(sent) =>
              k + 1 \in Unanswered /\ at[k + 1] = at[k] + Size(sent[k])
         /\ \A j, k \in Unanswered : j < k => at[j] + Size(sent[j]) <= at[k]
         /\ \A i \in 1 .. Len(Input) : \E k \in Unanswered :
              at[k] < i /\ i <= at[k] + Size(sent[k]) /\ Input[i].req = sent[k]
<1>1. /\ Len(sent) \in Nat /\ requests \in Nat
      /\ \A k \in Unanswered : k \in Nat /\ Size(sent[k]) \in Nat \ {0}
  BY SentRequests DEF Unanswered
<1>2. requests < Len(sent) => requests + 1 \in Unanswered /\ Len(sent) \in Unanswered
  BY <1>1 DEF Unanswered
<1>3. \A k \in Unanswered : k + 1 <= Len(sent) => k + 1 \in Unanswered
  BY <1>1 DEF Unanswered
<1> QED
  BY <1>1, <1>2, <1>3 DEF Framed

\* next() consumes the head of the first request and awaits its body.
LEMMA HeadConsumed ==
  ASSUME TypeOK, InputFramed, state = "Active", requests < Len(sent),
         parserState = "Head", parserState' = "Body", pending' = sent[requests + 1],
         UNCHANGED <<state, requests, sent, sentBytes>>,
         Len(Input') = Len(Input) - sent[requests + 1].head, Len(Input') \in Nat,
         \A i \in 1 .. Len(Input') : Input'[i] = Input[i + sent[requests + 1].head]
  PROVE  InputFramed'
<1> DEFINE c == sent[requests + 1].head
<1>1. PICK at \in [Unanswered -> Int] : Framed(at)
  BY SMTT(30), Z3T(30) DEF InputFramed
<1>2. /\ Len(sent) \in Nat /\ requests \in Nat /\ sentBytes \in Nat /\ c \in Nat
      /\ Len(Input) \in Nat
  <2>1. requests + 1 \in 1 .. Len(sent)
    BY SentRequests
  <2> QED
    BY SMTT(30), Z3T(30), <2>1, SentRequests, InputIs
<1>3. \A k \in Unanswered : k \in Nat /\ at[k] \in Int /\ Size(sent[k]) \in Nat \ {0}
  BY <1>1, FramedParts
<1>4. /\ requests + 1 \in Unanswered /\ Len(sent) \in Unanswered
      /\ at[requests + 1] = 0 /\ Len(Input) = at[Len(sent)] + sentBytes
  BY <1>1, FramedParts
<1>5. PICK at2 \in [Unanswered -> Int] : \A k \in Unanswered : at2[k] = at[k] - c
  <2>1. [k \in Unanswered |-> at[k] - c] \in [Unanswered -> Int]
    BY SMTT(30), Z3T(30), <1>2, <1>3
  <2> QED
    BY Zenon, <2>1
<1>6. /\ Unanswered' = Unanswered /\ Len(Input') = Len(Input) - c
      /\ \A i \in 1 .. Len(Input') : Input'[i] = Input[i + c]
  BY DEF Unanswered
<1>a. c = sent[requests + 1].head
  OBVIOUS
<1> HIDE DEF c
<1>7. \A i \in 1 .. Len(Input') : i + c \in 1 .. Len(Input) /\ Input'[i] = Input[i + c]
  BY SMTT(30), Z3T(30), <1>2, <1>6
<1>8. at2[requests + 1] = - sent[requests + 1].head /\ Len(Input') = at2[Len(sent)] + sentBytes
  <2>1. at2[requests + 1] = at[requests + 1] - c /\ at2[Len(sent)] = at[Len(sent)] - c
    BY <1>4, <1>5, Zenon
  <2>2. at[Len(sent)] \in Int
    BY SMTT(30), Z3T(30), <1>3, <1>4
  <2>3. at2[requests + 1] = - c
    BY SMTT(30), Z3T(30), <1>2, <1>4, <2>1
  <2>4. Len(Input') = at2[Len(sent)] + sentBytes
    BY SMTT(30), Z3T(30), <1>2, <1>4, <1>6, <2>1, <2>2
  <2> QED
    BY <1>a, <2>3, <2>4, Zenon
<1>9. \A i \in 1 .. Len(Input') : \E k \in Unanswered :
        at2[k] < i /\ i <= at2[k] + Size(sent[k]) /\ Input'[i].req = sent[k]
  <2> SUFFICES ASSUME NEW i \in 1 .. Len(Input')
               PROVE  \E k \in Unanswered : at2[k] < i /\ i <= at2[k] + Size(sent[k])
                                            /\ Input'[i].req = sent[k]
    OBVIOUS
  <2>1. i + c \in 1 .. Len(Input) /\ Input'[i] = Input[i + c]
    BY <1>7
  <2>2. PICK k \in Unanswered :
          at[k] < i + c /\ i + c <= at[k] + Size(sent[k]) /\ Input[i + c].req = sent[k]
    BY Zenon, <1>1, <2>1, FramedParts
  <2>3. at2[k] = at[k] - c /\ at[k] \in Int /\ Size(sent[k]) \in Nat
    BY <1>3, <1>5
  <2>4. at2[k] < i /\ i <= at2[k] + Size(sent[k])
    BY SMTT(30), Z3T(30), <1>2, <2>2, <2>3
  <2> QED
    BY <2>1, <2>2, <2>4
<1>10. \A k \in Unanswered : k + 1 <= Len(sent) => at2[k + 1] = at2[k] + Size(sent[k])
  <2> SUFFICES ASSUME NEW k \in Unanswered, k + 1 <= Len(sent)
               PROVE  at2[k + 1] = at2[k] + Size(sent[k])
    OBVIOUS
  <2>1. k + 1 \in Unanswered /\ at[k + 1] = at[k] + Size(sent[k])
    BY Zenon, <1>1, FramedParts
  <2>2. /\ at2[k] = at[k] - c /\ at2[k + 1] = at[k + 1] - c
        /\ at[k] \in Int /\ Size(sent[k]) \in Nat
    BY SMTT(30), Z3T(30), <1>3, <1>5, <2>1
  <2> QED
    BY <1>2, <2>1, <2>2
<1>11. \A j, k \in Unanswered : j < k => at2[j] + Size(sent[j]) <= at2[k]
  <2> SUFFICES ASSUME NEW j \in Unanswered, NEW k \in Unanswered, j < k
               PROVE  at2[j] + Size(sent[j]) <= at2[k]
    BY SMTT(30), Z3T(30)
  <2>1. at[j] + Size(sent[j]) <= at[k]
    BY Zenon, <1>1, FramedParts
  <2>2. /\ at2[j] = at[j] - c /\ at2[k] = at[k] - c
        /\ at[j] \in Int /\ at[k] \in Int /\ Size(sent[j]) \in Nat
    BY SMTT(30), Z3T(30), <1>3, <1>5
  <2> QED
    BY SMTT(30), Z3T(30), <1>2, <2>1, <2>2
<1>12. Framed(at2)'
  BY SMTT(30), Z3T(30), <1>5, <1>6, <1>8, <1>9, <1>10, <1>11 DEF Framed, Size
<1> QED
  BY SMTT(30), Z3T(30), <1>2, <1>6, <1>12 DEF InputFramed, RequestUnfinished, Size, Last

\* What is left to consume of the first request not answered.
FirstLength ==
  IF parserState = "Body" THEN sent[requests + 1].body ELSE Size(sent[requests + 1])

\* Places in the input move together when bytes are consumed.
LEMMA ShiftedBy ==
  ASSUME NEW x \in Int, NEW y \in Int, NEW z \in Int, NEW c \in Nat, x + z <= y
  PROVE  (x - c) + z <= y - c
  OBVIOUS

\* next() consumes the rest of the first request, which is answered.
LEMMA RequestConsumed ==
  ASSUME TypeOK, InputFramed, state = "Active", requests < Len(sent),
         parserState \in {"Head", "Body"}, parserState' = "Head", requests' = requests + 1,
         UNCHANGED <<sent, sentBytes>>, FirstLength \in 0 .. Len(Input),
         Len(Input') = Len(Input) - FirstLength,
         \A i \in 1 .. Len(Input') : Input'[i] = Input[i + FirstLength]
  PROVE  InputFramed'
<1>1. PICK at \in [Unanswered -> Int] : Framed(at)
  BY DEF InputFramed
<1>2. /\ Len(sent) \in Nat /\ requests \in Nat /\ sentBytes \in Nat /\ Len(Input) \in Nat
      /\ FirstLength \in Nat /\ sent # <<>>
  BY SMTT(30), Z3T(30), SentRequests, InputIs
<1>3. \A k \in Unanswered : k \in Nat /\ at[k] \in Int /\ Size(sent[k]) \in Nat \ {0}
  BY SMTT(30), Z3T(30), <1>1, FramedParts
<1>4. /\ requests + 1 \in Unanswered /\ Len(sent) \in Unanswered
      /\ at[requests + 1] = IF parserState = "Body" THEN - sent[requests + 1].head ELSE 0
      /\ Len(Input) = at[Len(sent)] + sentBytes
  BY <1>1, FramedParts
<1>5. FirstLength = at[requests + 1] + Size(sent[requests + 1])
  <2>1. requests + 1 \in 1 .. Len(sent)
    BY SMTT(30), Z3T(30), <1>2
  <2>2. /\ sent[requests + 1].head \in Nat /\ sent[requests + 1].body \in Nat
        /\ Size(sent[requests + 1]) \in Nat
        /\ Size(sent[requests + 1]) = sent[requests + 1].head + sent[requests + 1].body
    BY SMTT(30), Z3T(30), <2>1, SentRequests
  <2>3. CASE parserState = "Body"
    <3> DEFINE h == sent[requests + 1].head
               b == sent[requests + 1].body
               z == Size(sent[requests + 1])
    <3>1. at[requests + 1] = - h /\ FirstLength = b
      BY <1>4, <2>3, Zenon DEF FirstLength
    <3>2. h \in Nat /\ b \in Nat /\ z = h + b
      BY SMTT(30), Z3T(30), <2>2
    <3> HIDE DEF h, b
    <3> QED
      BY <3>1, <3>2
  <2>4. CASE parserState = "Head"
    BY <1>4, <2>2, <2>4 DEF FirstLength
  <2> QED
    BY <2>3, <2>4
<1>6. /\ Unanswered' = requests + 2 .. Len(sent) /\ Unanswered' \subseteq Unanswered
      /\ \A k \in Unanswered : k # requests + 1 => k \in Unanswered'
  BY SMTT(30), Z3T(30), <1>2 DEF Unanswered
<1>7. PICK at2 \in [Unanswered' -> Int] : \A k \in Unanswered' : at2[k] = at[k] - FirstLength
  <2>1. [k \in Unanswered' |-> at[k] - FirstLength] \in [Unanswered' -> Int]
    BY <1>2, <1>3, <1>6
  <2> QED
    BY Zenon, <2>1
<1>8. at[requests + 1] \in Int /\ Size(sent[requests + 1]) \in Nat
  BY SMTT(30), Z3T(30), <1>3, <1>4
<1>9. requests + 1 = Len(sent) => Len(Input') = 0 /\ ~ RequestUnfinished'
  <2> SUFFICES ASSUME requests + 1 = Len(sent) PROVE Len(Input') = 0 /\ ~ RequestUnfinished'
    OBVIOUS
  <2>1. sentBytes <= Size(sent[requests + 1])
    BY SMTT(30), Z3T(30), <1>2, <1>8 DEF InputFramed, Last
  <2>2. Len(Input) = at[requests + 1] + sentBytes
    BY <1>4
  <2>3. sentBytes = Size(sent[requests + 1]) /\ Len(Input') = 0
    BY SMTT(30), Z3T(30), <1>2, <1>5, <1>8, <2>1, <2>2
  <2> QED
    BY <1>2, <2>3 DEF RequestUnfinished, Last, Size
<1>10. requests' < Len(sent) =>
         /\ at2[requests' + 1] = 0
         /\ Len(Input') = at2[Len(sent)] + sentBytes
  <2> SUFFICES ASSUME requests + 1 < Len(sent)
               PROVE  at2[requests + 2] = 0 /\ Len(Input') = at2[Len(sent)] + sentBytes
    BY <1>2
  <2>1. /\ requests + 2 \in Unanswered' /\ Len(sent) \in Unanswered'
        /\ requests + 1 + 1 = requests + 2 /\ requests + 1 + 1 <= Len(sent)
    BY <1>2, <1>6
  <2>2. at[requests + 2] = at[requests + 1] + Size(sent[requests + 1])
    <3>1. at[requests + 1 + 1] = at[requests + 1] + Size(sent[requests + 1])
      BY Zenon, <1>1, <1>4, <2>1, FramedParts
    <3> QED
      BY SMTT(30), Z3T(30), <2>1, <3>1
  <2>3. /\ at2[requests + 2] = at[requests + 2] - FirstLength
        /\ at2[Len(sent)] = at[Len(sent)] - FirstLength
        /\ at[Len(sent)] \in Int
    BY <1>3, <1>6, <1>7, <2>1, Zenon
  <2>4. at2[requests + 2] = 0
    BY SMTT(30), Z3T(30), <1>2, <1>5, <1>8, <2>2, <2>3
  <2> QED
    BY SMTT(30), Z3T(30), <1>2, <1>4, <2>3, <2>4
<1>11. \A i \in 1 .. Len(Input') : \E k \in Unanswered' :
         at2[k] < i /\ i <= at2[k] + Size(sent[k]) /\ Input'[i].req = sent[k]
  <2> SUFFICES ASSUME NEW i \in 1 .. Len(Input')
               PROVE  \E k \in Unanswered' : at2[k] < i /\ i <= at2[k] + Size(sent[k])
                                             /\ Input'[i].req = sent[k]
    BY Zenon
  <2>1. i + FirstLength \in 1 .. Len(Input) /\ Input'[i] = Input[i + FirstLength]
    BY SMTT(30), Z3T(30), <1>2
  <2>2. PICK k \in Unanswered :
          /\ at[k] < i + FirstLength /\ i + FirstLength <= at[k] + Size(sent[k])
          /\ Input[i + FirstLength].req = sent[k]
    BY Zenon, <1>1, <2>1, FramedParts
  <2>3. k # requests + 1
    BY SMTT(30), Z3T(30), <1>2, <1>5, <1>8, <2>2
  <2>4. k \in Unanswered'
    BY <1>6, <2>3
  <2>5. at2[k] = at[k] - FirstLength /\ at[k] \in Int /\ Size(sent[k]) \in Nat
    BY SMTT(30), Z3T(30), <1>3, <1>7, <2>4
  <2>6. at2[k] < i /\ i <= at2[k] + Size(sent[k])
    BY SMTT(30), Z3T(30), <1>2, <2>2, <2>5
  <2> QED
    BY <2>1, <2>2, <2>4, <2>6
<1>12. \A k \in Unanswered' : k + 1 <= Len(sent) => at2[k + 1] = at2[k] + Size(sent[k])
  <2> SUFFICES ASSUME NEW k \in Unanswered', k + 1 <= Len(sent)
               PROVE  at2[k + 1] = at2[k] + Size(sent[k])
    OBVIOUS
  <2>1. k \in Unanswered /\ k + 1 \in Unanswered'
    BY SMTT(30), Z3T(30), <1>2, <1>6
  <2>2. at[k + 1] = at[k] + Size(sent[k])
    BY SMTT(30), Z3T(30), <1>1, <2>1, FramedParts
  <2>3. /\ at2[k] = at[k] - FirstLength /\ at2[k + 1] = at[k + 1] - FirstLength
        /\ at[k] \in Int /\ Size(sent[k]) \in Nat
    BY SMTT(30), Z3T(30), <1>3, <1>7, <2>1
  <2> QED
    BY <1>2, <2>2, <2>3
<1>13. \A j, k \in Unanswered' : j < k => at2[j] + Size(sent[j]) <= at2[k]
  <2> SUFFICES ASSUME NEW j \in Unanswered', NEW k \in Unanswered', j < k
               PROVE  at2[j] + Size(sent[j]) <= at2[k]
    OBVIOUS
  <2>1. j \in Unanswered /\ k \in Unanswered
    BY <1>6
  <2>2. at[j] + Size(sent[j]) <= at[k]
    BY Zenon, <1>1, <2>1, FramedParts
  <2>3. at2[j] = at[j] - FirstLength /\ at2[k] = at[k] - FirstLength
    BY <1>7
  <2>4. (at[j] - FirstLength) + Size(sent[j]) <= at[k] - FirstLength
    <3>1. at[j] \in Int /\ at[k] \in Int /\ Size(sent[j]) \in Int /\ FirstLength \in Nat
      BY <1>2, <1>3, <2>1
    <3> QED
      BY <2>2, <3>1, ShiftedBy, Zenon
  <2> QED
    BY <2>3, <2>4, Zenon
<1>14. Framed(at2)'
  <2>1. \A k : Size(sent[k])' = Size(sent[k])
    BY DEF Size
  <2>2. \A k \in Unanswered' : at2[k] \in Int
    BY SMTT(30), Z3T(30), <1>7
  <2>3. (requests < Len(sent) =>
          /\ at2[requests + 1] = IF parserState = "Body" THEN - sent[requests + 1].head ELSE 0
          /\ Len(Input) = at2[Len(sent)] + sentBytes)'
    BY <1>10
  <2> QED
    BY <1>11, <1>12, <1>13, <2>1, <2>2, <2>3, Zenon DEF Framed
<1> QED
  BY SMTT(30), Z3T(30), <1>2, <1>9, <1>14 DEF InputFramed, Size, Last

\* The same after a step.
LEMMA NewInputIs ==
  ASSUME TypeOK'
  PROVE  /\ Input' \in Seq(ByteOf) /\ Len(buffer') \in Nat /\ Len(unread') \in Nat
         /\ Len(Input') = Len(buffer') + Len(unread') /\ Len(Input') \in Nat
         /\ \A i \in 1 .. Len(buffer') : Input'[i] = buffer'[i]
         /\ \A i \in 1 .. Len(unread') : Input'[Len(buffer') + i] = unread'[i]
<1>1. buffer' \in Seq(ByteOf) /\ unread' \in Seq(ByteOf)
  BY DEF TypeOK
<1> QED
  BY SMTT(30), Z3T(30), <1>1, Concatenation, LenProperties DEF Input

\* What ClientSends does to the requests and to an open connection's input.
LEMMA InputGrows ==
  ASSUME IInv, ClientSends, state = "Active"
  PROVE  /\ UNCHANGED <<state, requests, parserState, pending>>
         /\ Len(Input') = Len(Input) + 1
         /\ \A i \in 1 .. Len(Input) : Input'[i] = Input[i]
         /\ Input'[Len(Input) + 1].req = sent'[Len(sent')]
<1>1. UNCHANGED <<state, requests, parserState, pending, buffer>>
  BY DEF ClientSends, serverVars, parserVars, outputVars, lifeVars
<1> DEFINE byte == [req |-> Last(sent'), n |-> sentBytes']
<1>2. unread' = Append(unread, byte) /\ byte.req = sent'[Len(sent')]
  BY DEF ClientSends, Last
<1> HIDE DEF byte
<1>3. TypeOK /\ TypeOK'
  BY SMTT(30), Z3T(30), ClientSendsKeeps DEF IInv
<1>4. /\ Len(buffer) \in Nat /\ Len(unread) \in Nat /\ Len(Input) = Len(buffer) + Len(unread)
      /\ \A i \in 1 .. Len(buffer) : Input[i] = buffer[i]
      /\ \A i \in 1 .. Len(unread) : Input[Len(buffer) + i] = unread[i]
  BY SMTT(30), Z3T(30), <1>3, InputIs
<1>5. /\ Len(Input') = Len(buffer) + Len(unread')
      /\ \A i \in 1 .. Len(buffer) : Input'[i] = buffer[i]
      /\ \A i \in 1 .. Len(unread') : Input'[Len(buffer) + i] = unread'[i]
  BY <1>1, <1>3, NewInputIs
<1>6. /\ Len(unread') = Len(unread) + 1 /\ unread'[Len(unread) + 1] = byte
      /\ \A i \in 1 .. Len(unread) : unread'[i] = unread[i]
  <2>1. unread \in Seq(ByteOf)
    BY SMTT(30), Z3T(30), <1>3 DEF TypeOK
  <2> QED
    BY SMTT(30), Z3T(30), <1>2, <1>4, <2>1
<1>7. Len(Input') = Len(Input) + 1
  BY SMTT(30), Z3T(30), <1>4, <1>5, <1>6
<1>8. ASSUME NEW i \in 1 .. Len(Input) PROVE Input'[i] = Input[i]
  <2>1. CASE i <= Len(buffer)
    BY <1>4, <1>5, <2>1
  <2>2. CASE i > Len(buffer)
    <3>1. /\ i - Len(buffer) \in 1 .. Len(unread) /\ i - Len(buffer) \in 1 .. Len(unread')
          /\ Len(buffer) + (i - Len(buffer)) = i
      BY <1>4, <1>6, <2>2
    <3>2. Input'[Len(buffer) + (i - Len(buffer))] = Input[Len(buffer) + (i - Len(buffer))]
      BY <1>4, <1>5, <1>6, <3>1, Zenon
    <3> QED
      BY <3>1, <3>2
  <2> QED
    BY SMTT(30), Z3T(30), <1>4, <2>1, <2>2
<1>9. Input'[Len(Input) + 1] = byte
  <2>1. /\ Len(unread) + 1 \in 1 .. Len(unread')
        /\ Len(buffer) + (Len(unread) + 1) = Len(Input) + 1
    BY <1>4, <1>6
  <2>2. Input'[Len(buffer) + (Len(unread) + 1)] = byte
    BY <1>5, <1>6, <2>1, Zenon
  <2> QED
    BY SMTT(30), Z3T(30), <2>1, <2>2
<1> QED
  BY SMTT(30), Z3T(30), <1>1, <1>2, <1>7, <1>8, <1>9

\* The client sends the next byte of the request it has begun.
LEMMA RequestGoesOn ==
  ASSUME IInv, InputFramed, ClientSends, RequestUnfinished, state = "Active"
  PROVE  \E at \in [Unanswered' -> Int] : Framed(at)'
<1>1. PICK at \in [Unanswered -> Int] : Framed(at)
  BY DEF InputFramed
<1>2. TypeOK /\ Len(sent) \in Nat /\ requests \in Nat /\ sentBytes \in Nat
  BY SentRequests DEF IInv
<1>3. requests < Len(sent) /\ sentBytes < Size(sent[Len(sent)])
  BY <1>2 DEF InputFramed, RequestUnfinished, Last
<1>4. sent' = sent /\ sentBytes' = sentBytes + 1
  BY DEF ClientSends
<1>5. /\ UNCHANGED <<requests, parserState>> /\ Len(Input') = Len(Input) + 1
      /\ \A i \in 1 .. Len(Input) : Input'[i] = Input[i]
      /\ Input'[Len(Input) + 1].req = sent[Len(sent)]
  BY <1>4, InputGrows
<1>6. Unanswered' = Unanswered
  BY SMTT(30), Z3T(30), <1>4, <1>5 DEF Unanswered
<1>7. /\ \A k \in Unanswered : k \in Nat /\ at[k] \in Int /\ Size(sent[k]) \in Nat \ {0}
      /\ Len(sent) \in Unanswered /\ Len(Input) = at[Len(sent)] + sentBytes
      /\ at[requests + 1] = IF parserState = "Body" THEN - sent[requests + 1].head ELSE 0
  BY SMTT(30), Z3T(30), <1>1, <1>2, <1>3, FramedParts
<1>8. Len(Input) \in Nat /\ Len(Input') = at[Len(sent)] + (sentBytes + 1)
  BY SMTT(30), Z3T(30), <1>2, <1>5, <1>7, InputIs
<1>9. \A i \in 1 .. Len(Input') : \E k \in Unanswered :
        at[k] < i /\ i <= at[k] + Size(sent[k]) /\ Input'[i].req = sent[k]
  <2> SUFFICES ASSUME NEW i \in 1 .. Len(Input')
               PROVE  \E k \in Unanswered : at[k] < i /\ i <= at[k] + Size(sent[k])
                                            /\ Input'[i].req = sent[k]
    BY SMTT(30), Z3T(30)
  <2>1. CASE i \in 1 .. Len(Input)
    <3>1. PICK k \in Unanswered :
            at[k] < i /\ i <= at[k] + Size(sent[k]) /\ Input[i].req = sent[k]
      BY SMTT(30), Z3T(30), <1>1, <1>2, <2>1, FramedParts
    <3> QED
      BY SMTT(30), Z3T(30), <1>5, <2>1, <3>1
  <2>2. CASE i = Len(Input) + 1
    <3>1. at[Len(sent)] \in Int /\ Size(sent[Len(sent)]) \in Nat
      BY SMTT(30), Z3T(30), <1>7
    <3>2. at[Len(sent)] < i /\ i <= at[Len(sent)] + Size(sent[Len(sent)])
      BY SMTT(30), Z3T(30), <1>2, <1>3, <1>7, <2>2, <3>1
    <3> QED
      BY SMTT(30), Z3T(30), <1>5, <1>7, <2>2, <3>2
  <2> QED
    BY <1>5, <1>8, <2>1, <2>2
<1>10. Framed(at)'
  <2>1. \A k : Size(sent[k])' = Size(sent[k])
    BY <1>4 DEF Size
  <2>2. (requests < Len(sent) =>
          /\ at[requests + 1] = IF parserState = "Body" THEN - sent[requests + 1].head ELSE 0
          /\ Len(Input) = at[Len(sent)] + sentBytes)'
    BY <1>4, <1>5, <1>7, <1>8
  <2> QED
    BY <1>1, <1>4, <1>6, <1>9, <2>1, <2>2, Zenon DEF Framed
<1> QED
  BY SMTT(30), Z3T(30), <1>6, <1>10

\* The client begins another request: it starts where the input ended.
LEMMA RequestBegins ==
  ASSUME IInv, InputFramed, ClientSends, ~ RequestUnfinished, state = "Active"
  PROVE  \E at \in [Unanswered' -> Int] : Framed(at)'
<1>1. PICK at \in [Unanswered -> Int] : Framed(at)
  BY DEF InputFramed
<1> DEFINE new == Len(sent) + 1
<1>2. /\ TypeOK /\ Len(sent) \in Nat /\ requests \in Nat /\ sentBytes \in Nat
      /\ Len(Input) \in Nat /\ new \in Nat
  BY SentRequests, InputIs DEF IInv
<1>3. /\ Len(sent') = new /\ sentBytes' = 1 /\ sent'[new] \in Requests
      /\ \A k \in 1 .. Len(sent) : sent'[k] = sent[k]
  <2>1. PICK r \in Requests : sent' = Append(sent, r) /\ sentBytes' = 1
    BY DEF ClientSends
  <2>2. sent \in Seq(Requests)
    BY DEF IInv, TypeOK
  <2> QED
    BY SMTT(30), Z3T(30), <1>2, <2>1, <2>2, AppendProperties
<1>4. Size(sent'[new]) \in Nat \ {0}
  BY <1>3, RequestFields
<1> HIDE DEF new
<1>5. /\ UNCHANGED <<requests, parserState>> /\ Len(Input') = Len(Input) + 1
      /\ \A i \in 1 .. Len(Input) : Input'[i] = Input[i]
      /\ Input'[Len(Input) + 1].req = sent'[new]
  BY <1>3, InputGrows
<1>6. /\ requests <= Len(sent)
      /\ requests = Len(sent) => Len(Input) = 0 /\ parserState = "Head"
  BY SMTT(30), Z3T(30) DEF InputFramed
<1>7. /\ Unanswered' = requests + 1 .. new /\ new \in Unanswered' /\ new \notin Unanswered
      /\ \A k \in Unanswered' : k = new \/ k \in Unanswered
      /\ \A k \in Unanswered : /\ k \in Unanswered' /\ k # new /\ k < new
                               /\ sent'[k] = sent[k] /\ Size(sent'[k]) = Size(sent[k])
  BY SMTT(30), Z3T(30), <1>2, <1>3, <1>5, <1>6 DEF Unanswered, new
<1>8. \A k \in Unanswered : k \in Nat /\ at[k] \in Int /\ Size(sent[k]) \in Nat \ {0}
  BY <1>1, <1>2, FramedParts
<1>9. PICK at2 \in [Unanswered' -> Int] :
        at2[new] = Len(Input) /\ \A k \in Unanswered : at2[k] = at[k]
  <2> DEFINE f == [k \in Unanswered' |-> IF k = new THEN Len(Input) ELSE at[k]]
  <2>1. f \in [Unanswered' -> Int]
    BY SMTT(30), Z3T(30), <1>2, <1>7, <1>8
  <2>2. f[new] = Len(Input) /\ \A k \in Unanswered : f[k] = at[k]
    BY <1>7
  <2> HIDE DEF f
  <2> QED
    BY SMTT(30), Z3T(30), <2>1, <2>2
<1>10. requests < Len(sent) =>
         /\ Len(sent) \in Unanswered
         /\ Len(Input) = at[Len(sent)] + Size(sent[Len(sent)])
  <2> SUFFICES ASSUME requests < Len(sent)
               PROVE  Len(sent) \in Unanswered
                      /\ Len(Input) = at[Len(sent)] + Size(sent[Len(sent)])
    BY SMTT(30), Z3T(30)
  <2>1. Len(sent) \in Unanswered /\ Len(Input) = at[Len(sent)] + sentBytes
    BY SMTT(30), Z3T(30), <1>1, <1>2, FramedParts
  <2>2. Size(sent[Len(sent)]) \in Nat /\ sent # <<>>
    BY SMTT(30), Z3T(30), <1>2, <1>8, <2>1, SentRequests
  <2>3. sentBytes = Size(sent[Len(sent)])
    BY SMTT(30), Z3T(30), <1>2, <2>2 DEF InputFramed, RequestUnfinished, Last
  <2> QED
    BY <2>1, <2>3
<1>11. at2[requests + 1] = IF parserState = "Body" THEN - sent'[requests + 1].head ELSE 0
  <2>1. CASE requests = Len(sent)
    BY <1>6, <1>9, <2>1 DEF new
  <2>2. CASE requests < Len(sent)
    <3>1. /\ requests + 1 \in Unanswered
          /\ at[requests + 1] = IF parserState = "Body" THEN - sent[requests + 1].head ELSE 0
      BY SMTT(30), Z3T(30), <1>1, <1>2, <2>2, FramedParts
    <3>2. at2[requests + 1] = at[requests + 1] /\ sent'[requests + 1] = sent[requests + 1]
      BY SMTT(30), Z3T(30), <1>7, <1>9, <3>1
    <3> QED
      BY <3>1, <3>2, Zenon
  <2> QED
    BY SMTT(30), Z3T(30), <1>2, <1>6, <2>1, <2>2
<1>12. \A k \in Unanswered' : k + 1 <= new => at2[k + 1] = at2[k] + Size(sent'[k])
  <2> SUFFICES ASSUME NEW k \in Unanswered', k + 1 <= new
               PROVE  at2[k + 1] = at2[k] + Size(sent'[k])
    OBVIOUS
  <2>1. k \in Unanswered /\ k \in Nat /\ (k = Len(sent) \/ k + 1 <= Len(sent))
    BY SMTT(30), Z3T(30), <1>2, <1>7, <1>8 DEF new
  <2>2. at2[k] = at[k] /\ Size(sent'[k]) = Size(sent[k])
    BY SMTT(30), Z3T(30), <1>7, <1>9, <2>1
  <2>3. CASE k = Len(sent)
    <3>1. requests < Len(sent) /\ k + 1 = new
      BY SMTT(30), Z3T(30), <1>2, <2>1, <2>3 DEF Unanswered, new
    <3> QED
      BY SMTT(30), Z3T(30), <1>9, <1>10, <2>2, <2>3, <3>1
  <2>4. CASE k + 1 <= Len(sent)
    <3>1. k + 1 \in Unanswered /\ at[k + 1] = at[k] + Size(sent[k])
      BY SMTT(30), Z3T(30), <1>1, <1>2, <2>1, <2>4, FramedParts
    <3> QED
      BY SMTT(30), Z3T(30), <1>9, <2>2, <3>1
  <2> QED
    BY SMTT(30), Z3T(30), <2>1, <2>3, <2>4
<1>13. \A j, k \in Unanswered' : j < k => at2[j] + Size(sent'[j]) <= at2[k]
  <2> SUFFICES ASSUME NEW j \in Unanswered', NEW k \in Unanswered', j < k
               PROVE  at2[j] + Size(sent'[j]) <= at2[k]
    BY SMTT(30), Z3T(30)
  <2>1. j \in Unanswered /\ j \in Nat /\ j <= Len(sent)
    BY SMTT(30), Z3T(30), <1>2, <1>5, <1>7 DEF Unanswered, new
  <2>2. at2[j] = at[j] /\ Size(sent'[j]) = Size(sent[j])
    BY SMTT(30), Z3T(30), <1>7, <1>9, <2>1
  <2>3. CASE k \in Unanswered
    <3>1. at[j] + Size(sent[j]) <= at[k] /\ at2[k] = at[k]
      BY SMTT(30), Z3T(30), <1>1, <1>2, <1>9, <2>1, <2>3, FramedParts
    <3> QED
      BY SMTT(30), Z3T(30), <2>2, <3>1
  <2>4. CASE k = new
    <3>1. requests < Len(sent) /\ at2[k] = Len(Input)
      BY SMTT(30), Z3T(30), <1>2, <1>9, <2>1, <2>4 DEF Unanswered
    <3>2. CASE j = Len(sent)
      <4>1. at[j] + Size(sent[j]) = Len(Input)
        BY SMTT(30), Z3T(30), <1>10, <3>1, <3>2
      <4> QED
        BY SMTT(30), Z3T(30), <1>2, <2>2, <3>1, <4>1
    <3>3. CASE j < Len(sent)
      <4>1. at[j] + Size(sent[j]) <= at[Len(sent)]
        BY Zenon, <1>1, <1>2, <1>10, <2>1, <3>1, <3>3, FramedParts
      <4>2. /\ at[j] \in Int /\ Size(sent[j]) \in Nat
            /\ at[Len(sent)] \in Int /\ Size(sent[Len(sent)]) \in Nat
        BY SMTT(30), Z3T(30), <1>8, <1>10, <2>1, <3>1
      <4>3. at[j] + Size(sent[j]) <= Len(Input)
        BY SMTT(30), Z3T(30), <1>10, <3>1, <4>1, <4>2
      <4> QED
        BY <2>2, <3>1, <4>3
    <3> QED
      BY SMTT(30), Z3T(30), <1>2, <2>1, <3>2, <3>3
  <2> QED
    BY <1>7, <2>3, <2>4
<1>14. \A i \in 1 .. Len(Input') : \E k \in Unanswered' :
         at2[k] < i /\ i <= at2[k] + Size(sent'[k]) /\ Input'[i].req = sent'[k]
  <2> SUFFICES ASSUME NEW i \in 1 .. Len(Input')
               PROVE  \E k \in Unanswered' : at2[k] < i /\ i <= at2[k] + Size(sent'[k])
                                             /\ Input'[i].req = sent'[k]
    OBVIOUS
  <2>1. CASE i \in 1 .. Len(Input)
    <3>1. PICK k \in Unanswered :
            at[k] < i /\ i <= at[k] + Size(sent[k]) /\ Input[i].req = sent[k]
      BY Zenon, <1>1, <1>2, <2>1, FramedParts
    <3>2. at2[k] = at[k] /\ sent'[k] = sent[k] /\ k \in Unanswered'
      BY SMTT(30), Z3T(30), <1>7, <1>9
    <3> QED
      BY ZenonT(40), <1>5, <2>1, <3>1, <3>2
  <2>2. CASE i = Len(Input) + 1
    <3>1. at2[new] < i /\ i <= at2[new] + Size(sent'[new])
      BY <1>2, <1>4, <1>9, <2>2
    <3> QED
      BY SMTT(30), Z3T(30), <1>5, <1>7, <2>2, <3>1
  <2> QED
    BY SMTT(30), Z3T(30), <1>2, <1>5, <2>1, <2>2
<1>15. Framed(at2)'
  <2>1. (requests < Len(sent) =>
          /\ at2[requests + 1] = IF parserState = "Body" THEN - sent[requests + 1].head ELSE 0
          /\ Len(Input) = at2[Len(sent)] + sentBytes)'
    BY SMTT(30), Z3T(30), <1>3, <1>5, <1>9, <1>11
  <2>2. \A k \in Unanswered' : at2[k] \in Int
    BY <1>9
  <2> QED
    BY <1>3, <1>12, <1>13, <1>14, <2>1, <2>2, Zenon DEF Framed
<1> QED
  BY <1>15

\* Concatenation is associative.
LEMMA Associativity ==
  ASSUME NEW S, NEW s \in Seq(S), NEW t \in Seq(S), NEW u \in Seq(S)
  PROVE  (s \o t) \o u = s \o (t \o u)
  BY SMT

\* The same for bytes of responses.
LEMMA OutputAssociativity ==
  ASSUME NEW s \in Seq(ResponseByte), NEW t \in Seq(ResponseByte), NEW u \in Seq(ResponseByte)
  PROVE  (s \o t) \o u = s \o (t \o u)
  BY SMT

\* A sequence is split and put together again.
LEMMA TakeThenDrop ==
  ASSUME NEW S, NEW s \in Seq(S), NEW t \in Seq(S), NEW n \in 0 .. Len(t)
  PROVE  /\ Take(t, n) \o Drop(t, n) = t
         /\ (s \o Take(t, n)) \o Drop(t, n) = s \o t
<1>1. Len(t) \in Nat /\ n \in 1 - 1 .. Len(t) /\ Len(t) \in n .. Len(t) /\ 1 \in 1 .. Len(t) + 1
  BY LenProperties
<1>2. SubSeq(t, 1, n) \o SubSeq(t, n + 1, Len(t)) = SubSeq(t, 1, Len(t))
  BY Zenon, <1>1, ConcatAdjacentSubSeq
<1> DEFINE a == Take(t, n)
           b == Drop(t, n)
<1>3. a \o b = t
  <2>1. SubSeq(t, 1, Len(t)) = t
    BY SubSeqFull
  <2> QED
    BY <1>2, <2>1, Zenon DEF Take, Drop
<1>4. a \in Seq(S) /\ b \in Seq(S)
  BY TakeDrop
<1> HIDE DEF a, b
<1>5. (s \o a) \o b = s \o (a \o b)
  BY SMTT(30), Z3T(30), <1>4, Associativity
<1>6. (s \o a) \o b = s \o t
  BY <1>3, <1>5
<1> QED
  BY <1>3, <1>6 DEF a, b

\* recv() moves bytes from the kernel to the parser: the input is the same.
LEMMA RecvMovesInput ==
  ASSUME IInv, RecvData
  PROVE  Input' = Input
<1>1. buffer \in Seq(ByteOf) /\ unread \in Seq(ByteOf) /\ RecvBytes \in 0 .. Len(unread)
  BY SMTT(30), Z3T(30), ConstantTypes, LenProperties DEF IInv, TypeOK, RecvBytes, Smaller
<1>2. (buffer \o Take(unread, RecvBytes)) \o Drop(unread, RecvBytes) = buffer \o unread
  BY SMTT(30), Z3T(30), <1>1, TakeThenDrop
<1> QED
  BY SMTT(30), Z3T(30), <1>2 DEF RecvData, Input

\* Bytes dropped from the parser's buffer are dropped from the input.
LEMMA DropsInput ==
  ASSUME TypeOK, TypeOK', NEW c \in 0 .. Len(buffer), buffer' = Drop(buffer, c),
         unread' = unread
  PROVE  /\ Len(Input') = Len(Input) - c /\ Len(Input') \in Nat /\ c \in 0 .. Len(Input)
         /\ \A i \in 1 .. Len(Input') : Input'[i] = Input[i + c]
<1>1. buffer \in Seq(ByteOf)
  BY DEF TypeOK
<1>2. /\ Len(buffer') = Len(buffer) - c
      /\ \A i \in 1 .. Len(buffer) - c : buffer'[i] = buffer[c + i]
  BY Zenon, <1>1, TakeDrop
<1>3. /\ Len(buffer) \in Nat /\ Len(unread) \in Nat /\ Len(Input) = Len(buffer) + Len(unread)
      /\ \A i \in 1 .. Len(buffer) : Input[i] = buffer[i]
      /\ \A i \in 1 .. Len(unread) : Input[Len(buffer) + i] = unread[i]
  BY InputIs
<1>4. /\ Len(Input') = Len(buffer') + Len(unread)
      /\ \A i \in 1 .. Len(buffer') : Input'[i] = buffer'[i]
      /\ \A i \in 1 .. Len(unread) : Input'[Len(buffer') + i] = unread[i]
  BY SMTT(30), Z3T(30), NewInputIs
<1>5. ASSUME NEW i \in 1 .. Len(Input') PROVE Input'[i] = Input[i + c]
  <2>1. CASE i <= Len(buffer')
    <3>1. /\ i \in 1 .. Len(buffer') /\ i \in 1 .. Len(buffer) - c
          /\ c + i \in 1 .. Len(buffer) /\ c + i = i + c
      BY <1>2, <1>3, <2>1
    <3>2. Input'[i] = buffer[c + i] /\ Input[c + i] = buffer[c + i]
      BY <1>2, <1>3, <1>4, <3>1, Zenon
    <3> QED
      BY SMTT(30), Z3T(30), <3>1, <3>2
  <2>2. CASE i > Len(buffer')
    <3> DEFINE j == i - Len(buffer')
    <3>1. j \in 1 .. Len(unread) /\ Len(buffer') + j = i /\ Len(buffer) + j = i + c
      BY <1>2, <1>3, <1>4, <2>2
    <3> HIDE DEF j
    <3>2. Input'[Len(buffer') + j] = unread[j] /\ Input[Len(buffer) + j] = unread[j]
      BY <1>3, <1>4, <3>1, Zenon
    <3> QED
      BY <3>1, <3>2, Zenon
  <2> QED
    BY SMTT(30), Z3T(30), <1>2, <1>3, <2>1, <2>2
<1> QED
  BY <1>2, <1>3, <1>4, <1>5

\* The byte the client sends is framed.
LEMMA ClientSendsFramed == IInv /\ InputFramed /\ ClientSends => InputFramed'
<1> SUFFICES ASSUME IInv, InputFramed, ClientSends PROVE InputFramed'
  BY SMTT(30), Z3T(30)
<1>1. TypeOK /\ sent \in Seq(Requests) /\ sentBytes \in Nat /\ state' = state
  BY SMTT(30), Z3T(30) DEF IInv, TypeOK, ClientSends, serverVars, lifeVars
<1>2. CASE RequestUnfinished
  <2>1. sent' = sent /\ sentBytes' = sentBytes + 1 /\ sent # <<>> /\ sentBytes < Size(Last(sent))
    BY <1>2 DEF ClientSends, RequestUnfinished
  <2>2. sentBytes' \in 1 .. Size(Last(sent')) /\ Last(sent') = Last(sent)
    <3>1. Size(Last(sent)) \in Nat
      BY <1>1, <2>1, SentRequests DEF Last
    <3>2. Last(sent') = Last(sent)
      BY SMTT(30), Z3T(30), <2>1 DEF Last
    <3> QED
      BY SMTT(30), Z3T(30), <1>1, <2>1, <3>1, <3>2
  <2>3. CASE state = "Active"
    <3>1. UNCHANGED <<requests, parserState, pending>>
      BY SMTT(30), Z3T(30), <2>3, InputGrows
    <3>2. requests <= Len(sent) /\ requests # Len(sent)
      BY <1>2, <2>3 DEF InputFramed
    <3>3. parserState = "Body" => pending = sent[requests + 1]
      BY SMTT(30), Z3T(30), <2>3 DEF InputFramed
    <3> QED
      BY SMTT(30), Z3T(30), <1>2, <2>1, <2>2, <2>3, <3>1, <3>2, <3>3, RequestGoesOn
         DEF InputFramed, Last
  <2> QED
    BY SMTT(30), Z3T(30), <1>1, <2>2, <2>3 DEF InputFramed, Last, Size
<1>3. CASE ~ RequestUnfinished
  <2>1. PICK r \in Requests : sent' = Append(sent, r) /\ sentBytes' = 1
    BY SMTT(30), Z3T(30), <1>3 DEF ClientSends
  <2>2. /\ Len(sent') = Len(sent) + 1 /\ Len(sent) \in Nat
        /\ \A k \in 1 .. Len(sent) : sent'[k] = sent[k]
        /\ sent'[Len(sent')] = r
    BY SMTT(30), Z3T(30), <1>1, <2>1, AppendProperties, LenProperties
  <2>3. sentBytes' \in 1 .. Size(Last(sent'))
    BY SMTT(30), Z3T(30), <2>1, <2>2, RequestFields DEF Last
  <2>4. CASE state = "Active"
    <3>1. UNCHANGED <<requests, parserState, pending>> /\ requests \in Nat
      BY SMTT(30), Z3T(30), <1>1, <2>4, InputGrows, SentRequests
    <3>2. requests <= Len(sent) /\ (requests = Len(sent) => parserState = "Head")
      BY SMTT(30), Z3T(30), <2>4 DEF InputFramed
    <3>3. parserState = "Body" => pending = sent'[requests + 1]
      <4>1. SUFFICES ASSUME parserState = "Body" PROVE pending = sent'[requests + 1]
        OBVIOUS
      <4>2. pending = sent[requests + 1] /\ requests + 1 \in 1 .. Len(sent)
        BY SMTT(30), Z3T(30), <2>2, <2>4, <3>1, <3>2, <4>1 DEF InputFramed
      <4> QED
        BY <2>2, <4>2
    <3>4. requests' < Len(sent')
      BY <2>2, <3>1, <3>2
    <3>5. \E at \in [Unanswered' -> Int] : Framed(at)'
      BY SMTT(30), Z3T(30), <1>3, <2>4, RequestBegins
    <3>6. requests' # Len(sent') /\ requests' <= Len(sent')
      BY SMTT(30), Z3T(30), <2>2, <3>1, <3>2
    <3> QED
      BY <2>3, <3>1, <3>3, <3>5, <3>6, Zenon DEF InputFramed
  <2> QED
    BY SMTT(30), Z3T(30), <1>1, <2>3, <2>4 DEF InputFramed, Last, Size
<1> QED
  BY <1>2, <1>3

\* A request answered is consumed, all of it and nothing else.
LEMMA RespondToRequestFramed == IInv /\ InputFramed /\ RespondToRequest => InputFramed'
<1> SUFFICES ASSUME IInv, InputFramed, RespondToRequest PROVE InputFramed'
  OBVIOUS
<1> DEFINE c == IF parserState = "Body" THEN pending.body ELSE Size(Current)
<1>1. /\ state = "Active" /\ NextResult = "Complete" /\ requests' = requests + 1
      /\ buffer' = Drop(buffer, c) /\ parserState' = "Head"
      /\ UNCHANGED <<unread, sent, sentBytes>>
  BY DEF RespondToRequest, MayRespond, QueueResponse, ParserCompletes, clientVars
<1>2. TypeOK /\ PhaseAndStep /\ TypeOK'
  BY RespondToRequestKeeps DEF IInv
<1>3. Current \in Requests /\ c \in 0 .. Len(buffer)
  BY SMTT(30), Z3T(30), <1>1, <1>2, CompleteRequest
<1>4. parserState \in {"Head", "Body"} /\ (parserState = "Body" \/ buffer # <<>>)
  BY SMTT(30), Z3T(30), <1>1, <1>2, NextResultIs DEF TypeOK, PhaseAndStep
<1>5. requests < Len(sent) /\ Current = sent[requests + 1]
  BY SMTT(30), Z3T(30), <1>1, <1>4, CurrentIsFirst
<1>6. c = FirstLength
  BY <1>5 DEF FirstLength, Current
<1> HIDE DEF c
<1>7. /\ Len(Input') = Len(Input) - c /\ c \in 0 .. Len(Input)
      /\ \A i \in 1 .. Len(Input') : Input'[i] = Input[i + c]
  BY Zenon, <1>1, <1>2, <1>3, DropsInput
<1>8. /\ Len(Input') = Len(Input) - FirstLength /\ FirstLength \in 0 .. Len(Input)
      /\ \A i \in 1 .. Len(Input') : Input'[i] = Input[i + FirstLength]
  BY <1>6, <1>7, Zenon
<1> QED
  BY SMTT(30), Z3T(30), <1>1, <1>2, <1>4, <1>5, <1>8, RequestConsumed

\* A head consumed while the body is awaited is the first request's.
LEMMA RespondNoMoreFramed == IInv /\ InputFramed /\ RespondNoMore => InputFramed'
<1> SUFFICES ASSUME IInv, InputFramed, RespondNoMore PROVE InputFramed'
  OBVIOUS
<1>1. UNCHANGED <<state, requests, unread, sent, sentBytes>>
  BY DEF RespondNoMore, outputVars, lifeVars, clientVars
<1>2. TypeOK /\ TypeOK'
  BY RespondNoMoreKeeps DEF IInv
<1>3. CASE UNCHANGED parserVars
  <2>1. Input' = Input /\ UNCHANGED <<parserState, pending>>
    BY SMTT(30), Z3T(30), <1>1, <1>3 DEF Input, parserVars
  <2> QED
    BY SMTT(30), Z3T(30), <1>1, <2>1, SameInput
<1>4. CASE ~ UNCHANGED parserVars
  <2>1. /\ state = "Active" /\ parserState = "Head" /\ buffer # <<>>
        /\ Len(buffer) >= Current.head
        /\ parserState' = "Body" /\ pending' = Current /\ buffer' = Drop(buffer, Current.head)
    BY SMTT(30), Z3T(30), <1>4 DEF RespondNoMore, ParserAwaits, MayRespond
  <2>2. requests < Len(sent) /\ Current = sent[requests + 1]
    BY <2>1, CurrentIsFirst
  <2>3. Current.head \in 0 .. Len(buffer)
    <3>1. requests + 1 \in 1 .. Len(sent) /\ Len(buffer) \in Nat
      BY SMTT(30), Z3T(30), <1>2, <2>2, SentRequests, InputIs
    <3>2. Current.head \in Nat
      BY SMTT(30), Z3T(30), <1>2, <2>2, <3>1, SentRequests
    <3> QED
      BY SMTT(30), Z3T(30), <2>1, <3>1, <3>2
  <2>4. /\ Len(Input') = Len(Input) - Current.head /\ Len(Input') \in Nat
        /\ \A i \in 1 .. Len(Input') : Input'[i] = Input[i + Current.head]
    BY SMTT(30), Z3T(30), <1>1, <1>2, <2>1, <2>3, DropsInput
  <2>5. /\ Len(Input') = Len(Input) - sent[requests + 1].head
        /\ \A i \in 1 .. Len(Input') : Input'[i] = Input[i + sent[requests + 1].head]
        /\ pending' = sent[requests + 1]
    BY <2>1, <2>2, <2>4, Zenon
  <2> QED
    BY SMTT(30), Z3T(30), <1>1, <1>2, <2>1, <2>2, <2>4, <2>5, HeadConsumed
<1> QED
  BY <1>3, <1>4

\* At first nothing is sent and nothing is to be consumed.
LEMMA InitFramed == Init => InputFramed
<1> SUFFICES ASSUME Init PROVE InputFramed
  OBVIOUS
<1>1. sent = <<>> /\ requests = 0 /\ parserState = "Head" /\ Len(sent) = 0
  BY SMTT(30), Z3T(30) DEF Init
<1>2. Len(Input) = 0
  <2>1. TypeOK /\ Len(buffer) = 0 /\ Len(unread) = 0
    BY InitEstablishesIInv DEF IInv, Init
  <2> QED
    BY <2>1, InputIs
<1>3. Unanswered = {}
  BY <1>1 DEF Unanswered
<1>4. [k \in Unanswered |-> 0] \in [Unanswered -> Int]
  BY <1>3
<1>5. \A at \in [Unanswered -> Int] : Framed(at)
  BY <1>1, <1>2, <1>3 DEF Framed
<1>6. \E at \in [Unanswered -> Int] : Framed(at)
  BY <1>4, <1>5, Zenon
<1> QED
  BY <1>1, <1>2, <1>6 DEF InputFramed, RequestUnfinished

\* The steps that neither consume input nor send any, or end the Active phase.
LEMMA OthersFramed ==
  ASSUME IInv, InputFramed,
         \/ RecvFin \/ RecvFails \/ DiscardData \/ DiscardEnds \/ RecvNothing \/ DiscardNothing
         \/ Poll \/ OnPollEvents \/ RespondToError \/ SendSome \/ SendFails \/ FlushEnds
         \/ Settle \/ BeforeDeadline \/ RequestTimesOut \/ ConnectionTimesOut
         \/ Shutdown \/ Tick \/ ClientHalfCloses \/ ClientReads \/ ClientResets \/ ResetErases
         \/ Finished \/ UNCHANGED vars
  PROVE  InputFramed'
<1> USE DEF Input, CloseNow, parserVars, outputVars, lifeVars, timers, clientVars, serverVars
<1>1. CASE RecvFin \/ RecvNothing \/ Poll \/ SendSome \/ FlushEnds \/ BeforeDeadline
           \/ DiscardNothing
  <2>1. Input' = Input /\ UNCHANGED <<state, requests, parserState, pending, sent, sentBytes>>
    BY Zenon, <1>1
       DEF RecvFin, RecvNothing, Poll, SendSome, FlushEnds, BeforeDeadline, DiscardNothing
  <2> QED
    BY <2>1, SameInput
<1>2. CASE RecvFails \/ DiscardEnds \/ SendFails \/ ConnectionTimesOut \/ Shutdown
  BY Zenon, <1>2, SameInput DEF RecvFails, DiscardEnds, SendFails, ConnectionTimesOut, Shutdown
<1>3. CASE RespondToError \/ RequestTimesOut
  BY Zenon, <1>3, SameInput DEF RespondToError, RequestTimesOut, QueueResponse, Refusal, Timeout408,
                         Response
<1>4. CASE Tick \/ ClientHalfCloses \/ ClientReads \/ ClientResets \/ ResetErases \/ Finished
           \/ UNCHANGED vars
  BY Zenon, <1>4, SameInput DEF Tick, ClientHalfCloses, ClientReads, ClientResets, ResetErases,
                         Finished, vars
<1>5. CASE OnPollEvents
  BY Zenon, <1>5, SameInput DEF OnPollEvents
<1>6. CASE Settle
  BY Zenon, <1>6, SameInput DEF Settle
<1>7. CASE DiscardData
  <2>1. state = "Draining" /\ state' # "Active" /\ UNCHANGED <<sent, sentBytes>>
    BY Zenon, <1>7 DEF DiscardData, IInv, PhaseAndStep
  <2> QED
    BY <2>1, SameInput
<1> QED
  BY SMTT(30), Z3T(30), <1>1, <1>2, <1>3, <1>4, <1>5, <1>6, <1>7

\* Every step keeps the input framed.
LEMMA StepKeepsFramed == IInv /\ InputFramed /\ [Next]_vars => InputFramed'
<1> SUFFICES ASSUME IInv, InputFramed, [Next]_vars PROVE InputFramed'
  BY SMTT(30), Z3T(30)
<1>1. CASE RecvData
  BY SMTT(30), Z3T(30), <1>1, RecvMovesInput, SameInput
     DEF RecvData, outputVars, lifeVars, clientVars
<1>2. CASE RespondToRequest
  BY SMTT(30), Z3T(30), <1>2, RespondToRequestFramed
<1>3. CASE RespondNoMore
  BY <1>3, RespondNoMoreFramed
<1>4. CASE ClientSends
  BY <1>4, ClientSendsFramed
<1> QED
  BY SMTT(30), Z3T(30), <1>1, <1>2, <1>3, <1>4, OthersFramed
     DEF Next, Receive, ReceiveNothing, Proceed, ClientWorks

=============================================================================
