--------------------------- MODULE FramingProofs ---------------------------
(***************************************************************************)
(* The incremental parser implements Framing, which sees the whole input   *)
(* at once, and so its results do not depend on how recv() cut the input,  *)
(* for all limits, bytes and chunks.                                       *)
(*                                                                         *)
(* FrameInv places the parser within the request it is reading: the bytes  *)
(* it keeps are the input from the offset where the last request ended, or *)
(* from the body of the request whose head it has read.  Bytes that arrive *)
(* later change nothing Framing has answered (FrameStays), and where next  *)
(* answers, Framing answers the same (Answered).                           *)
(***************************************************************************)
EXTENDS RequestParserProofs

\* Framing reads the bytes with the functions of RequestHead, too.
LEMMA SameLineEnds ==
  /\ \A b, i : (F!IsLF(b, i) <=> IsLF(b, i)) /\ (F!IsCRLF(b, i) <=> IsCRLF(b, i))
  /\ \A b, n : (F!EndsHead(b, n) <=> EndsHead(b, n)) /\ F!HeadEnd(b, n) = HeadEnd(b, n)
  /\ \A b, p, q : F!SkipsTo(b, p, q) <=> SkipsTo(b, p, q)
  BY SMTT(30), Z3T(30) DEF F!IsLF, IsLF, F!IsCRLF, IsCRLF, F!EndsHead, EndsHead, F!HeadEnd, HeadEnd,
         F!SkipsTo, SkipsTo

\* So does its parse_head.
LEMMA SameParseHead == ASSUME NEW h PROVE F!ParseHead(h) = ParseHead(h)
  BY Zenon DEF F!ParseHead, ParseHead, F!Lines, Lines, F!LineEnds, LineEnds, F!LineText, LineText,
       F!LineStart, LineStart, F!IsLF, IsLF, F!RequestLineStatus, RequestLineStatus,
       F!HeaderLineStatus, HeaderLineStatus, F!LineBytes, LineBytes, F!DetermineBodyLength,
       DetermineBodyLength, F!Verdict, Verdict, F!NoError, NoError, F!Cardinality, Cardinality

\* The head of the first request in b from offset p on: its first byte is at q,
\* and the empty line that ends it follows the line end at n.
HeadAt(b, p, q, n) ==
  /\ q \in p .. Len(b) /\ n \in q .. Len(b) - 1
  /\ SkipsTo(b, p, q)
  /\ EndsHead(b, n)
  /\ \A m \in q .. n - 1 : ~ EndsHead(b, m)

\* No head has ended in b: only the empty lines before it, up to q, are certain.
NoHeadAt(b, p, q) ==
  /\ q \in p .. Len(b)
  /\ SkipsTo(b, p, q)
  /\ \A m \in q .. Len(b) - 1 : ~ EndsHead(b, m)

\* The first byte of a request is where skip_empty_lines_before_request stops.
LEMMA SkipIsUnique ==
  ASSUME NEW b, NEW p \in Nat, NEW q \in Nat, NEW r \in Nat, p <= q, p <= r,
         SkipsTo(b, p, q), SkipsTo(b, p, r)
  PROVE  q = r
  BY DEF SkipsTo

\* Framing begins where skip_empty_lines_before_request ends.
LEMMA FrameAtIs ==
  ASSUME NEW b \in Seq(Byte), NEW p \in Nat, NEW q \in p .. Len(b), SkipsTo(b, p, q)
  PROVE  F!FrameAt(b, p) = F!FrameFrom(b, q)
<1> DEFINE r == CHOOSE r \in p .. Len(b) : SkipsTo(b, p, r)
<1>1. r \in p .. Len(b) /\ SkipsTo(b, p, r)
  BY Zenon
<1>2. r = q
  <2> HIDE DEF r
  <2>1. Len(b) \in Nat
    OBVIOUS
  <2> QED
    BY <1>1, <2>1, SkipIsUnique
<1>3. (CHOOSE x \in p .. Len(b) : F!SkipsTo(b, p, x)) = r
  BY SameLineEnds
<1> QED
  BY Zenon, <1>2, <1>3 DEF F!FrameAt

\* What becomes of the head [q, e), which says `head` of its request, when the
\* bytes up to `length` are there.
FrameWith(length, q, e, head) ==
  IF e - q > MaxHeaderBytes THEN F!Error(431)
  ELSE IF head.status # NoError THEN F!Error(head.status)
  ELSE IF length < e + head.bodyLength THEN F!Incomplete
  ELSE F!Complete(F!Frame(q, e - q, e + head.bodyLength))

\* What Framing makes of a head that is complete.
LEMMA FrameOfHead ==
  ASSUME NEW b \in Seq(Byte), NEW p \in Nat, NEW q, NEW n, HeadAt(b, p, q, n)
  PROVE  F!FrameAt(b, p) =
           FrameWith(Len(b), q, HeadEnd(b, n), ParseHead(SubSeq(b, q + 1, HeadEnd(b, n))))
<1>1. q \in p .. Len(b) /\ n \in q .. Len(b) - 1 /\ Len(b) \in Nat /\ q \in Nat /\ n \in Nat
  BY DEF HeadAt
<1>2. F!FrameAt(b, p) = F!FrameFrom(b, q)
  BY <1>1, FrameAtIs DEF HeadAt
<1> DEFINE x == CHOOSE x \in q .. Len(b) - 1 : F!FirstEndsHead(b, q, x)
<1>3. F!FirstEndsHead(b, q, n)
  BY SameLineEnds DEF F!FirstEndsHead, HeadAt
<1>4. x \in q .. Len(b) - 1 /\ F!FirstEndsHead(b, q, x)
  BY Zenon, <1>1, <1>3
<1>5. x = n
  <2> HIDE DEF x
  <2> QED
    BY <1>1, <1>3, <1>4 DEF F!FirstEndsHead
<1>6. ~ \A m \in q .. Len(b) - 1 : ~ F!EndsHead(b, m)
  BY <1>1, <1>3 DEF F!FirstEndsHead
<1> QED
  BY ZenonT(40), <1>2, <1>5, <1>6, SameLineEnds, SameParseHead
  DEF F!FrameFrom, FrameWith, F!NoError, NoError

\* What Framing makes of a head that is not.
LEMMA FrameOfNoHead ==
  ASSUME NEW b \in Seq(Byte), NEW p \in Nat, NEW q, NoHeadAt(b, p, q)
  PROVE  F!FrameAt(b, p) = IF Len(b) - q > MaxHeaderBytes THEN F!Error(431) ELSE F!Incomplete
<1>1. q \in p .. Len(b)
  BY DEF NoHeadAt
<1>2. F!FrameAt(b, p) = F!FrameFrom(b, q)
  BY <1>1, FrameAtIs DEF NoHeadAt
<1>3. \A m \in q .. Len(b) - 1 : ~ F!EndsHead(b, m)
  BY SameLineEnds DEF NoHeadAt
<1> QED
  BY Zenon, <1>2, <1>3 DEF F!FrameFrom

\* Past the empty lines there is a head that ends, or none.
LEMMA HeadOrNone ==
  ASSUME NEW b \in Seq(Byte), NEW p \in Nat, NEW q \in p .. Len(b), SkipsTo(b, p, q)
  PROVE  NoHeadAt(b, p, q) \/ \E n : HeadAt(b, p, q, n)
<1>1. Len(b) \in Nat /\ q \in Nat
  OBVIOUS
<1>2. CASE \A m \in q .. Len(b) - 1 : ~ EndsHead(b, m)
  BY Zenon, <1>2 DEF NoHeadAt
<1>3. ASSUME NEW m \in q .. Len(b) - 1, EndsHead(b, m) PROVE \E n : HeadAt(b, p, q, n)
  <2> DEFINE T == {n \in q .. Len(b) - 1 : EndsHead(b, n)}
  <2>1. T \in SUBSET Nat /\ m \in T
    BY <1>1, <1>3
  <2>2. PICK n \in T : \A y \in T : n <= y
    BY Zenon, <2>1, LeastElement
  <2>3. n \in Nat /\ n \in q .. Len(b) - 1 /\ EndsHead(b, n)
    BY <1>1, <2>2
  <2>4. ASSUME NEW y \in q .. n - 1 PROVE ~ EndsHead(b, y)
    <3>1. y \in q .. Len(b) - 1 /\ ~ (n <= y)
      BY <1>1, <2>3
    <3> QED
      BY <2>2, <3>1
  <2>5. HeadAt(b, p, q, n)
    BY Zenon, <2>3, <2>4 DEF HeadAt
  <2> QED
    BY Zenon, <2>5
<1> QED
  BY Zenon, <1>2, <1>3

-----------------------------------------------------------------------------
(* What has been framed stays so when more bytes arrive *)

\* The bytes b2 begin with the bytes b1.
Begins(b1, b2) == Len(b1) <= Len(b2) /\ \A i \in 1 .. Len(b1) : b2[i] = b1[i]

\* A line end stays one, and what was decided to be none stays none.
LEMMA LineEndsStay ==
  ASSUME NEW b1 \in Seq(Byte), NEW b2 \in Seq(Byte), Begins(b1, b2), NEW i \in Nat
  PROVE  /\ i < Len(b1) => (IsLF(b2, i) <=> IsLF(b1, i))
         /\ i + 1 < Len(b1) => (IsCRLF(b2, i) <=> IsCRLF(b1, i))
         /\ IsLF(b1, i) => i < Len(b1) /\ IsLF(b2, i)
         /\ IsCRLF(b1, i) => i + 1 < Len(b1) /\ IsCRLF(b2, i)
  BY SMTT(30), Z3T(30) DEF Begins, IsLF, IsCRLF

\* The end of a head stays where it is; a new one lies beyond the old bytes.
LEMMA EndOfHeadStays ==
  ASSUME NEW b1 \in Seq(Byte), NEW b2 \in Seq(Byte), Begins(b1, b2), NEW n \in Nat
  PROVE  /\ EndsHead(b1, n) => EndsHead(b2, n) /\ HeadEnd(b2, n) = HeadEnd(b1, n)
         /\ EndsHead(b2, n) /\ ~ EndsHead(b1, n) => HeadEnd(b2, n) > Len(b1)
  BY SMTT(30), Z3T(30) DEF Begins, IsLF, IsCRLF, EndsHead, HeadEnd

\* The empty lines before a request end where they ended, if two bytes follow.
LEMMA SkipStays ==
  ASSUME NEW b1 \in Seq(Byte), NEW b2 \in Seq(Byte), Begins(b1, b2),
         NEW p \in Nat, NEW q \in Nat, SkipsTo(b1, p, q), q + 1 < Len(b1)
  PROVE  SkipsTo(b2, p, q)
<1>1. ASSUME NEW i \in p .. q - 1 PROVE IsLF(b2, i) \/ (IsCRLF(b2, i) /\ i + 1 < q)
  BY LineEndsStay DEF SkipsTo
<1>2. ~ IsLF(b2, q) /\ ~ IsCRLF(b2, q)
  BY LineEndsStay DEF SkipsTo
<1> QED
  BY <1>1, <1>2 DEF SkipsTo

\* A head that is complete is not changed by bytes that arrive later.
LEMMA HeadStays ==
  ASSUME NEW b1 \in Seq(Byte), NEW b2 \in Seq(Byte), Begins(b1, b2),
         NEW p \in Nat, NEW q, NEW n, HeadAt(b1, p, q, n)
  PROVE  /\ HeadAt(b2, p, q, n)
         /\ HeadEnd(b2, n) = HeadEnd(b1, n)
         /\ SubSeq(b2, q + 1, HeadEnd(b1, n)) = SubSeq(b1, q + 1, HeadEnd(b1, n))
<1>1. /\ Len(b1) \in Nat /\ Len(b2) \in Nat /\ q \in Nat /\ n \in Nat /\ p <= q /\ q <= n
      /\ n < Len(b1) /\ Len(b1) <= Len(b2)
  BY DEF HeadAt, Begins
<1> DEFINE e == HeadEnd(b1, n)
<1>2. e \in Nat /\ n + 2 <= e /\ e <= Len(b1)
  BY <1>1, HeadEndInBuffer DEF HeadAt
<1>3. SkipsTo(b2, p, q)
  BY <1>1, <1>2, SkipStays DEF HeadAt
<1>4. EndsHead(b2, n) /\ HeadEnd(b2, n) = e
  BY <1>1, EndOfHeadStays DEF HeadAt
<1>5. ASSUME NEW m \in q .. n - 1 PROVE ~ EndsHead(b2, m)
  <2>1. m \in Nat /\ m < n /\ ~ EndsHead(b1, m)
    BY <1>1 DEF HeadAt
  <2>2. CASE ~ EndsHead(b2, m)
    BY <2>2
  <2>3. CASE EndsHead(b2, m)
    BY SMTT(30), Z3T(30), <1>1, <1>2, <2>1, <2>3, EndOfHeadStays DEF HeadEnd
  <2> QED
    BY <2>2, <2>3
<1>6. SubSeq(b2, q + 1, e) = SubSeq(b1, q + 1, e)
  <2> HIDE DEF e
  <2>1. /\ SubSeq(b1, q + 1, e) \in Seq(Byte) /\ Len(SubSeq(b1, q + 1, e)) = e - q
        /\ \A i \in 1 .. e - q : SubSeq(b1, q + 1, e)[i] = b1[q + i]
    BY <1>1, <1>2, Slice
  <2>2. /\ SubSeq(b2, q + 1, e) \in Seq(Byte) /\ Len(SubSeq(b2, q + 1, e)) = e - q
        /\ \A i \in 1 .. e - q : SubSeq(b2, q + 1, e)[i] = b2[q + i]
    BY SMTT(30), Z3T(30), <1>1, <1>2, Slice
  <2>3. \A i \in 1 .. e - q : b2[q + i] = b1[q + i]
    BY SMTT(30), Z3T(30), <1>1, <1>2 DEF Begins
  <2> QED
    BY SMTT(30), Z3T(30), <2>1, <2>2, <2>3, SeqEqual
<1>7. q \in p .. Len(b2) /\ n \in q .. Len(b2) - 1
  BY <1>1
<1> QED
  BY Zenon, <1>3, <1>4, <1>5, <1>6, <1>7 DEF HeadAt

\* A head that has ended nowhere ends beyond the bytes that are there.
LEMMA HeadIsLong ==
  ASSUME NEW b1 \in Seq(Byte), NEW b2 \in Seq(Byte), Begins(b1, b2),
         NEW p \in Nat, NEW q, NoHeadAt(b1, p, q), Len(b1) - q > MaxHeaderBytes
  PROVE  F!FrameAt(b2, p) = F!Error(431)
<1>1. /\ Len(b1) \in Nat /\ Len(b2) \in Nat /\ q \in Nat /\ p <= q
      /\ q <= Len(b1) /\ Len(b1) <= Len(b2) /\ q + 1 < Len(b1)
  BY Limits, LimitsAssumption DEF NoHeadAt, Begins
<1>2. SkipsTo(b2, p, q) /\ q \in p .. Len(b2)
  BY SMTT(30), Z3T(30), <1>1, SkipStays DEF NoHeadAt
<1>3. CASE NoHeadAt(b2, p, q)
  <2>1. Len(b2) - q > MaxHeaderBytes
    BY <1>1, Limits
  <2> QED
    BY Zenon, <1>3, <2>1, FrameOfNoHead
<1>4. ASSUME NEW n, HeadAt(b2, p, q, n) PROVE F!FrameAt(b2, p) = F!Error(431)
  <2>1. n \in Nat /\ q <= n /\ EndsHead(b2, n)
    BY <1>1, <1>4 DEF HeadAt
  <2>2. ~ EndsHead(b1, n)
    BY <1>1, <2>1 DEF NoHeadAt, EndsHead, IsLF
  <2>3. HeadEnd(b2, n) > Len(b1) /\ HeadEnd(b2, n) \in Nat
    BY SMTT(30), Z3T(30), <2>1, <2>2, EndOfHeadStays DEF HeadEnd
  <2>4. HeadEnd(b2, n) - q > MaxHeaderBytes
    BY SMTT(30), Z3T(30), <1>1, <2>3, Limits
  <2> QED
    BY ZenonT(40), <1>4, <2>4, FrameOfHead DEF FrameWith
<1> QED
  BY Zenon, <1>2, <1>3, <1>4, HeadOrNone

\* Unless it awaits bytes, the framing of the bytes from p on is final.
LEMMA FrameStays ==
  ASSUME NEW b1 \in Seq(Byte), NEW b2 \in Seq(Byte), Begins(b1, b2), NEW p \in Nat, NEW q,
         NoHeadAt(b1, p, q) \/ \E n : HeadAt(b1, p, q, n),
         F!FrameAt(b1, p) # F!Incomplete
  PROVE  F!FrameAt(b2, p) = F!FrameAt(b1, p)
<1>1. CASE NoHeadAt(b1, p, q)
  <2>1. Len(b1) - q > MaxHeaderBytes /\ F!FrameAt(b1, p) = F!Error(431)
    BY ZenonT(40), <1>1, FrameOfNoHead
  <2> QED
    BY <1>1, <2>1, HeadIsLong
<1>2. ASSUME NEW n, HeadAt(b1, p, q, n) PROVE F!FrameAt(b2, p) = F!FrameAt(b1, p)
  <2> DEFINE e == HeadEnd(b1, n)
             head == ParseHead(SubSeq(b1, q + 1, e))
  <2>1. F!FrameAt(b1, p) = FrameWith(Len(b1), q, e, head)
    BY ZenonT(40), <1>2, FrameOfHead
  <2>2. HeadAt(b2, p, q, n) /\ HeadEnd(b2, n) = e /\ SubSeq(b2, q + 1, e) = SubSeq(b1, q + 1, e)
    BY ZenonT(40), <1>2, HeadStays
  <2>3. F!FrameAt(b2, p) = FrameWith(Len(b2), q, e, head)
    <3>1. F!FrameAt(b2, p) =
            FrameWith(Len(b2), q, HeadEnd(b2, n), ParseHead(SubSeq(b2, q + 1, HeadEnd(b2, n))))
      BY ZenonT(40), <2>2, FrameOfHead
    <3> QED
      BY Zenon, <3>1, <2>2
  <2>4. head.bodyLength \in Nat /\ e \in Nat
    BY ParseHeadType, Limits, <1>2 DEF HeadAt, HeadEnd
  <2> HIDE DEF e, head
  <2>5. Len(b2) < e + head.bodyLength => Len(b1) < e + head.bodyLength
    BY <2>4 DEF Begins
  <2> QED
    BY ZenonT(40), <2>1, <2>3, <2>5 DEF FrameWith
<1> QED
  BY <1>1, <1>2

-----------------------------------------------------------------------------
(* Where the parser stands in the stream *)

\* Nothing but empty lines: what was skipped before a request.
EmptyLines(b, from, to) == \A i \in from .. to - 1 : IsLF(b, i) \/ (IsCRLF(b, i) /\ i + 1 < to)

\* The bytes fed hold the head of req, up to offset `end`; a body of `length`
\* bytes is to follow.
HeadRead(req, n, end, length) ==
  /\ HeadAt(F!Fed, F!Position, req.begin, n)
  /\ HeadEnd(F!Fed, n) = end
  /\ req.headBytes = end - req.begin
  /\ req.headBytes <= MaxHeaderBytes
  /\ ParseHead(SubSeq(F!Fed, req.begin + 1, end)).status = NoError
  /\ ParseHead(SubSeq(F!Fed, req.begin + 1, end)).bodyLength = length

\* What connects the parser's state to Framing's, which has none: since the last
\* request returned, only empty lines and the head at pending were consumed.
Placed ==
  /\ F!Position \in Nat
  /\ state = "Head" => F!Position <= streamOffset /\ EmptyLines(F!Fed, F!Position, streamOffset)
  /\ state = "Body" => \E n : HeadRead(pending, n, streamOffset, bodyLength)
  /\ IF state = "Failed" THEN result = F!Error(error) ELSE result.kind # "Error"

\* The inductive invariant of this module.
FrameInv == ScanInv /\ Placed

\* What feed() has been given is a prefix of the stream.
LEMMA FedIs ==
  ASSUME Inv
  PROVE  /\ F!Fed \in Seq(Byte) /\ Len(F!Fed) = fed
         /\ \A i \in 1 .. fed : F!Fed[i] = stream[i]
<1>1. /\ stream \in Seq(Byte) /\ fed \in Nat /\ fed <= Len(stream)
  BY DEF Inv, TypeOK
<1>2. SubSeq(stream, 0 + 1, fed) = F!Fed
  BY DEF F!Fed
<1>3. /\ SubSeq(stream, 0 + 1, fed) \in Seq(Byte)
      /\ Len(SubSeq(stream, 0 + 1, fed)) = fed - 0
      /\ \A i \in 1 .. fed - 0 : SubSeq(stream, 0 + 1, fed)[i] = stream[0 + i]
  BY SMTT(30), Z3T(30), <1>1, Slice
<1> HIDE DEF F!Fed
<1> QED
  BY SMTT(30), Z3T(30), <1>1, <1>2, <1>3

\* b1 without its first d1 bytes is b2 without its first d2.
SameFrom(b1, d1, b2, d2) ==
  /\ Len(b1) - d1 = Len(b2) - d2
  /\ \A i \in 1 .. Len(b1) - d1 : b1[d1 + i] = b2[d2 + i]

\* Offsets in buffer_ and in the stream see the same line ends.
LEMMA SameSuffix ==
  ASSUME NEW b1 \in Seq(Byte), NEW b2 \in Seq(Byte), NEW d1 \in Nat, NEW d2 \in Nat,
         SameFrom(b1, d1, b2, d2), NEW j \in Nat
  PROVE  /\ IsLF(b1, d1 + j) <=> IsLF(b2, d2 + j)
         /\ IsCRLF(b1, d1 + j) <=> IsCRLF(b2, d2 + j)
         /\ EndsHead(b1, d1 + j) <=> EndsHead(b2, d2 + j)
         /\ Undecided(b1, d1 + j) <=> Undecided(b2, d2 + j)
         /\ HeadEnd(b1, d1 + j) - d1 = HeadEnd(b2, d2 + j) - d2
<1>1. Len(b1) \in Nat /\ Len(b2) \in Nat /\ Len(b1) - d1 = Len(b2) - d2
  BY DEF SameFrom
<1>2. ASSUME NEW k \in Nat, d1 + k < Len(b1)
      PROVE  d2 + k < Len(b2) /\ b1[d1 + k + 1] = b2[d2 + k + 1]
  <2>1. k + 1 \in 1 .. Len(b1) - d1
    BY SMTT(30), Z3T(30), <1>1, <1>2
  <2>2. b1[d1 + (k + 1)] = b2[d2 + (k + 1)]
    BY <2>1 DEF SameFrom
  <2>3. d1 + (k + 1) = d1 + k + 1 /\ d2 + (k + 1) = d2 + k + 1 /\ d2 + k < Len(b2)
    BY SMTT(30), Z3T(30), <1>1, <1>2
  <2> QED
    BY <2>2, <2>3
<1>3. ASSUME NEW k \in Nat PROVE IsLF(b1, d1 + k) <=> IsLF(b2, d2 + k)
  BY SMTT(30), Z3T(30), <1>1, <1>2, <1>3 DEF IsLF
<1>4. ASSUME NEW k \in Nat PROVE IsCRLF(b1, d1 + k) <=> IsCRLF(b2, d2 + k)
  <2>1. CASE ~ (d1 + k + 1 < Len(b1))
    BY SMTT(30), Z3T(30), <1>1, <2>1 DEF IsCRLF
  <2>2. CASE d1 + k + 1 < Len(b1)
    <3>1. b1[d1 + k + 1] = b2[d2 + k + 1] /\ d2 + k + 1 < Len(b2)
      BY SMTT(30), Z3T(30), <1>1, <1>2, <2>2
    <3>2. k + 1 \in Nat /\ d1 + (k + 1) < Len(b1)
      BY <2>2
    <3>3. b1[d1 + (k + 1) + 1] = b2[d2 + (k + 1) + 1]
      BY Zenon, <1>2, <3>2
    <3>4. d1 + (k + 1) + 1 = d1 + k + 2 /\ d2 + (k + 1) + 1 = d2 + k + 2
      OBVIOUS
    <3> QED
      BY SMTT(30), Z3T(30), <2>2, <3>1, <3>3, <3>4 DEF IsCRLF
  <2> QED
    BY SMTT(30), Z3T(30), <2>1, <2>2
<1>5. /\ IsLF(b1, d1 + j + 1) <=> IsLF(b2, d2 + j + 1)
      /\ IsCRLF(b1, d1 + j + 1) <=> IsCRLF(b2, d2 + j + 1)
  <2>1. j + 1 \in Nat /\ d1 + (j + 1) = d1 + j + 1 /\ d2 + (j + 1) = d2 + j + 1
    OBVIOUS
  <2> QED
    BY Zenon, <1>3, <1>4, <2>1
<1>6. IsLF(b1, d1 + j) <=> IsLF(b2, d2 + j)
  BY <1>3
<1>7. EndsHead(b1, d1 + j) <=> EndsHead(b2, d2 + j)
  BY SMTT(30), Z3T(30), <1>5, <1>6 DEF EndsHead
<1>8. Undecided(b1, d1 + j) <=> Undecided(b2, d2 + j)
  <2>1. (d1 + j + 1 = Len(b1)) <=> (d2 + j + 1 = Len(b2))
    BY <1>1
  <2>2. (d1 + j + 2 = Len(b1)) <=> (d2 + j + 2 = Len(b2))
    BY SMTT(30), Z3T(30), <1>1
  <2>3. ASSUME d1 + j + 2 = Len(b1) PROVE b1[d1 + j + 2] = b2[d2 + j + 2]
    <3>1. j + 1 \in Nat /\ d1 + (j + 1) < Len(b1)
      BY <2>3
    <3>2. b1[d1 + (j + 1) + 1] = b2[d2 + (j + 1) + 1]
      BY SMTT(30), Z3T(30), <1>2, <3>1
    <3>3. d1 + (j + 1) + 1 = d1 + j + 2 /\ d2 + (j + 1) + 1 = d2 + j + 2
      OBVIOUS
    <3> QED
      BY SMTT(30), Z3T(30), <3>2, <3>3
  <2> QED
    BY SMTT(30), Z3T(30), <1>6, <2>1, <2>2, <2>3 DEF Undecided
<1>9. HeadEnd(b1, d1 + j) - d1 = HeadEnd(b2, d2 + j) - d2
  BY <1>5 DEF HeadEnd
<1> QED
  BY SMTT(30), Z3T(30), <1>4, <1>6, <1>7, <1>8, <1>9

-----------------------------------------------------------------------------
(* Every call of next() returns what Framing returns *)

\* next() returns what framing the bytes fed from the last request's end gives.
Answered ==
  /\ result' = F!FrameAt(F!Fed, F!Position)
  /\ out' = IF result'.kind = "Complete" THEN Append(out, result'.frame) ELSE out

\* The three kinds of ParseResult are told apart.
LEMMA KindsDiffer ==
  /\ F!Incomplete.kind = "Incomplete"
  /\ \A s : F!Error(s).kind = "Error" /\ F!Error(s) # F!Incomplete
  /\ \A f : F!Complete(f).kind = "Complete" /\ F!Complete(f).frame = f
           /\ F!Complete(f) # F!Incomplete
<1>1. ASSUME NEW s PROVE F!Error(s).kind = "Error" /\ F!Incomplete.kind = "Incomplete"
  BY DEF F!Error, F!Incomplete
<1>2. ASSUME NEW f PROVE F!Complete(f).kind = "Complete" /\ F!Complete(f).frame = f
  BY DEF F!Complete
<1> QED
  BY SMTT(30), Z3T(30), <1>1, <1>2

\* Only fed, stream and out matter to Fed and Position.
LEMMA SamePlace ==
  ASSUME UNCHANGED <<stream, fed, out>>
  PROVE  F!Fed' = F!Fed /\ F!Position' = F!Position
  BY DEF F!Fed, F!Position

\* fail() answers as Framing does, if Framing finds the same error.
LEMMA FailAnswers ==
  ASSUME FrameInv, NEW status, NEW skipped, Fail(status, skipped), UNCHANGED <<stream, fed>>,
         F!FrameAt(F!Fed, F!Position) = F!Error(status)
  PROVE  Answered /\ Placed'
<1>1. state' = "Failed" /\ error' = status /\ result' = F!Error(status) /\ out' = out
  BY DEF Fail
<1>2. Answered
  BY Zenon, <1>1, KindsDiffer DEF Answered
<1>3. F!Position' \in Nat
  BY Zenon, <1>1, SamePlace DEF FrameInv, Placed
<1>4. Placed'
  BY Zenon, <1>1, <1>3 DEF Placed
<1> QED
  BY <1>2, <1>4

\* Without the end of a head in the buffer, both ask for more or answer 431.
LEMMA AwaitHeadAnswers ==
  ASSUME FrameInv, state = "Head", NEW skipped \in start .. Len(buffer), NEW scan,
         AwaitHead(skipped, scan), UNCHANGED <<stream, fed>>,
         NoHeadAt(F!Fed, F!Position, streamOffset + (skipped - start))
  PROVE  Answered /\ Placed'
<1> DEFINE q == streamOffset + (skipped - start)
<1>1. Inv /\ SameBytes
  BY DEF FrameInv, ScanInv
<1>2. F!Fed \in Seq(Byte) /\ Len(F!Fed) = fed /\ F!Position \in Nat
  BY SMTT(30), Z3T(30), <1>1, FedIs DEF FrameInv, Placed
<1>3. F!FrameAt(F!Fed, F!Position) = IF fed - q > MaxHeaderBytes THEN F!Error(431) ELSE F!Incomplete
  BY ZenonT(40), <1>2, FrameOfNoHead
<1>4. fed - q = Len(buffer) - skipped
  BY <1>1 DEF Inv, TypeOK, SameBytes
<1>5. CASE Len(buffer) - skipped > MaxHeaderBytes
  <2>1. Fail(431, skipped)
    BY <1>5 DEF AwaitHead
  <2>2. F!FrameAt(F!Fed, F!Position) = F!Error(431)
    BY Zenon, <1>3, <1>4, <1>5
  <2> QED
    BY ZenonT(40), <2>1, <2>2, FailAnswers
<1>6. CASE ~ (Len(buffer) - skipped > MaxHeaderBytes)
  <2>1. state' = state /\ streamOffset' = q /\ result' = F!Incomplete /\ out' = out
    BY <1>6 DEF AwaitHead
  <2>2. Answered
    BY Zenon, <1>3, <1>4, <1>6, <2>1, KindsDiffer DEF Answered
  <2>3. F!Fed' = F!Fed /\ F!Position' = F!Position
    BY Zenon, <2>1, SamePlace
  <2>4. F!Position <= q /\ EmptyLines(F!Fed, F!Position, q)
    BY <1>2 DEF NoHeadAt, SkipsTo, EmptyLines
  <2>5. result'.kind # "Error" /\ state' = "Head"
    BY <2>1, KindsDiffer
  <2>6. F!Position' <= streamOffset' /\ EmptyLines(F!Fed, F!Position, streamOffset)'
    BY SMTT(30), Z3T(30), <2>1, <2>3, <2>4 DEF EmptyLines
  <2>7. F!Position' \in Nat
    BY SMTT(30), Z3T(30), <1>2, <2>3
  <2> QED
    BY Zenon, <2>2, <2>5, <2>6, <2>7 DEF Placed
<1> QED
  BY SMTT(30), Z3T(30), <1>5, <1>6

\* With the head read, both wait for the same body or return the same request.
LEMMA TakeBodyAnswers ==
  ASSUME FrameInv, state # "Failed", NEW n, NEW bodyStart \in start .. Len(buffer),
         NEW length \in 0 .. MaxBodyBytes, NEW req \in [begin : Nat, headBytes : Nat],
         TakeBody(req, bodyStart, length), UNCHANGED <<stream, fed>>,
         HeadRead(req, n, streamOffset + (bodyStart - start), length)
  PROVE  Answered /\ Placed'
<1> DEFINE e == streamOffset + (bodyStart - start)
           head == ParseHead(SubSeq(F!Fed, req.begin + 1, e))
<1>0. /\ HeadAt(F!Fed, F!Position, req.begin, n)
      /\ HeadEnd(F!Fed, n) = e
      /\ req.headBytes = e - req.begin
      /\ req.headBytes <= MaxHeaderBytes
      /\ head.status = NoError
      /\ head.bodyLength = length
  BY Zenon DEF HeadRead
<1>1. Inv /\ SameBytes
  BY DEF FrameInv, ScanInv
<1>2. /\ F!Fed \in Seq(Byte) /\ Len(F!Fed) = fed /\ F!Position \in Nat
  BY SMTT(30), Z3T(30), <1>1, FedIs DEF FrameInv, Placed
<1>3. /\ start \in Nat /\ streamOffset \in Nat /\ Len(buffer) \in Nat /\ fed \in Nat
      /\ bodyStart \in Nat /\ start <= bodyStart /\ bodyStart <= Len(buffer) /\ length \in Nat
      /\ req.begin \in Nat /\ out \in Seq([begin : Nat, headBytes : Nat, end : Nat])
  BY SMTT(30), Z3T(30), <1>1, Limits DEF Inv, TypeOK
<1>4. F!FrameAt(F!Fed, F!Position) = FrameWith(fed, req.begin, e, head)
  <2>1. F!FrameAt(F!Fed, F!Position) =
          FrameWith(Len(F!Fed), req.begin, HeadEnd(F!Fed, n),
                    ParseHead(SubSeq(F!Fed, req.begin + 1, HeadEnd(F!Fed, n))))
    <3> HIDE DEF e, head
    <3> QED
      BY SMTT(30), Z3T(30), <1>0, <1>2, FrameOfHead
  <2> QED
    BY Zenon, <1>0, <1>2, <2>1
<1>5. e - req.begin = req.headBytes /\ ~ (e - req.begin > MaxHeaderBytes) /\ e \in Nat
  BY SMTT(30), Z3T(30), <1>0, <1>3, Limits
<1>6. F!FrameAt(F!Fed, F!Position) =
        IF fed < e + length THEN F!Incomplete
        ELSE F!Complete(F!Frame(req.begin, req.headBytes, e + length))
  BY Zenon, <1>0, <1>4, <1>5 DEF FrameWith
<1>7. (fed < e + length) <=> (Len(buffer) - bodyStart < length)
  <2>1. fed - streamOffset = Len(buffer) - start
    BY <1>1 DEF SameBytes
  <2> HIDE DEF head
  <2> QED
    BY SMTT(30), Z3T(30), <1>3, <2>1
<1>8. CASE Len(buffer) - bodyStart < length
  <2>1. /\ state' = "Body" /\ pending' = req /\ result' = F!Incomplete /\ out' = out
        /\ bodyLength' = length /\ streamOffset' = e
    BY <1>8 DEF TakeBody, ConsumeTo
  <2>2. Answered
    BY Zenon, <1>6, <1>7, <1>8, <2>1, KindsDiffer DEF Answered
  <2>3. F!Fed' = F!Fed /\ F!Position' = F!Position
    BY Zenon, <2>1, SamePlace
  <2>4. HeadRead(pending, n, streamOffset, bodyLength)'
    <3> HIDE DEF e, head
    <3>1. HeadRead(req, n, e, length)
      BY Zenon DEF e
    <3> QED
      BY Zenon, <2>1, <2>3, <3>1 DEF HeadRead
  <2>5. result'.kind # "Error" /\ F!Position' \in Nat
    BY SMTT(30), Z3T(30), <1>2, <2>1, <2>3, KindsDiffer
  <2> QED
    BY Zenon, <2>1, <2>2, <2>4, <2>5 DEF Placed
<1>9. CASE ~ (Len(buffer) - bodyStart < length)
  <2> DEFINE f == F!Frame(req.begin, req.headBytes, e + length)
  <2>1. streamOffset' = e + length
    BY SMTT(30), Z3T(30), <1>3, <1>9 DEF TakeBody, ConsumeTo
  <2>2. state' = "Head" /\ result' = F!Complete(f) /\ out' = Append(out, result'.frame)
    BY Zenon, <1>9, <2>1 DEF TakeBody
  <2>3. Answered
    BY Zenon, <1>6, <1>7, <1>9, <2>2, KindsDiffer DEF Answered
  <2>4. out' = Append(out, f) /\ result'.kind # "Error"
    BY Zenon, <2>2, KindsDiffer
  <2>5. f \in [begin : Nat, headBytes : Nat, end : Nat] /\ f.end = e + length
    BY SMTT(30), Z3T(30), <1>3, <1>5 DEF F!Frame
  <2> HIDE DEF f
  <2>6. out' # <<>> /\ out'[Len(out')] = f
    <3>1. Len(Append(out, f)) = Len(out) + 1 /\ Append(out, f)[Len(out) + 1] = f /\ Len(out) + 1 > 0
      BY SMTT(30), Z3T(30), <1>3, <2>5, AppendProperties
    <3> QED
      BY SMTT(30), Z3T(30), <2>4, <3>1
  <2>7. F!Position' = e + length
    BY Zenon, <2>5, <2>6 DEF F!Position
  <2>8. F!Position' \in Nat /\ F!Position' <= streamOffset'
    BY SMTT(30), Z3T(30), <1>3, <1>5, <2>1, <2>7
  <2>9. EmptyLines(F!Fed, F!Position, streamOffset)'
    BY SMTT(30), Z3T(30), <2>1, <2>7, <1>3, <1>5 DEF EmptyLines
  <2> QED
    BY Zenon, <2>2, <2>3, <2>4, <2>8, <2>9 DEF Placed
<1> QED
  BY <1>8, <1>9

\* The unread bytes of the buffer are those of the stream from stream_offset_.
LEMMA SameLines ==
  ASSUME Inv, SameBytes, NEW j \in Nat
  PROVE  /\ IsLF(buffer, start + j) <=> IsLF(F!Fed, streamOffset + j)
         /\ IsCRLF(buffer, start + j) <=> IsCRLF(F!Fed, streamOffset + j)
         /\ EndsHead(buffer, start + j) <=> EndsHead(F!Fed, streamOffset + j)
         /\ HeadEnd(buffer, start + j) - start = HeadEnd(F!Fed, streamOffset + j) - streamOffset
<1>1. /\ F!Fed \in Seq(Byte) /\ Len(F!Fed) = fed /\ \A i \in 1 .. fed : F!Fed[i] = stream[i]
  BY FedIs
<1>2. /\ buffer \in Seq(Byte) /\ start \in Nat /\ streamOffset \in Nat /\ fed \in Nat
      /\ Len(buffer) \in Nat /\ start <= Len(buffer) /\ fed - streamOffset = Len(buffer) - start
  BY SMTT(30), Z3T(30) DEF Inv, TypeOK, IndicesInBounds, SameBytes
<1>3. ASSUME NEW i \in 1 .. Len(buffer) - start PROVE buffer[start + i] = F!Fed[streamOffset + i]
  <2>1. streamOffset + i \in 1 .. fed
    BY <1>2
  <2> QED
    BY SMTT(30), Z3T(30), <1>1, <2>1 DEF SameBytes
<1>4. Len(buffer) - start = Len(F!Fed) - streamOffset
  BY <1>1, <1>2
<1>5. SameFrom(buffer, start, F!Fed, streamOffset)
  BY Zenon, <1>3, <1>4 DEF SameFrom
<1> QED
  BY SMTT(30), Z3T(30), <1>1, <1>2, <1>5, SameSuffix

\* skip_empty_lines_before_request goes on where the calls before it stopped.
LEMMA SkipGoesOn ==
  ASSUME FrameInv, state = "Head", NEW skipped \in start .. Len(buffer),
         SkipsTo(buffer, start, skipped)
  PROVE  /\ streamOffset + (skipped - start) \in F!Position .. Len(F!Fed)
         /\ SkipsTo(F!Fed, F!Position, streamOffset + (skipped - start))
<1> DEFINE b == F!Fed
           p == F!Position
           q == streamOffset + (skipped - start)
<1>1. Inv /\ SameBytes
  BY DEF FrameInv, ScanInv
<1>2. b \in Seq(Byte) /\ Len(b) = fed
  BY SMTT(30), Z3T(30), <1>1, FedIs
<1>3. /\ start \in Nat /\ streamOffset \in Nat /\ fed \in Nat /\ skipped \in Nat
      /\ Len(buffer) \in Nat /\ start <= skipped /\ skipped <= Len(buffer)
      /\ fed - streamOffset = Len(buffer) - start
  BY <1>1 DEF Inv, TypeOK, IndicesInBounds, SameBytes
<1>4. p \in Nat /\ p <= streamOffset /\ EmptyLines(b, p, streamOffset)
  BY Zenon DEF FrameInv, Placed
<1> HIDE DEF b, p
<1>5. ASSUME NEW i \in p .. q - 1 PROVE IsLF(b, i) \/ (IsCRLF(b, i) /\ i + 1 < q)
  <2>1. CASE i < streamOffset
    <3>1. i \in p .. streamOffset - 1 /\ i \in Nat
      BY SMTT(30), Z3T(30), <1>3, <1>4, <2>1
    <3> QED
      BY SMTT(30), Z3T(30), <1>3, <1>4, <3>1 DEF EmptyLines
  <2>2. CASE i >= streamOffset
    <3> DEFINE j == i - streamOffset
    <3>1. j \in Nat /\ start + j \in start .. skipped - 1 /\ i = streamOffset + j
      BY SMTT(30), Z3T(30), <1>3, <1>4, <2>2
    <3>2. start + j + 1 < skipped => i + 1 < q
      BY <1>3, <3>1
    <3> HIDE DEF j, q
    <3>3. IsLF(buffer, start + j) \/ (IsCRLF(buffer, start + j) /\ start + j + 1 < skipped)
      BY <3>1 DEF SkipsTo
    <3>4. /\ IsLF(buffer, start + j) <=> IsLF(b, streamOffset + j)
          /\ IsCRLF(buffer, start + j) <=> IsCRLF(b, streamOffset + j)
      BY SMTT(30), Z3T(30), <1>1, <3>1, SameLines DEF b
    <3> QED
      BY SMTT(30), Z3T(30), <3>1, <3>2, <3>3, <3>4
  <2> QED
    BY SMTT(30), Z3T(30), <1>3, <1>4, <2>1, <2>2
<1>6. ~ IsLF(b, q) /\ ~ IsCRLF(b, q)
  <2>1. skipped - start \in Nat /\ start + (skipped - start) = skipped
    BY SMTT(30), Z3T(30), <1>3
  <2>2. /\ IsLF(buffer, start + (skipped - start)) <=> IsLF(b, q)
        /\ IsCRLF(buffer, start + (skipped - start)) <=> IsCRLF(b, q)
    BY SMTT(30), Z3T(30), <1>1, <2>1, SameLines DEF b
  <2> QED
    BY SMTT(30), Z3T(30), <2>1, <2>2 DEF SkipsTo
<1>7. q \in p .. Len(b)
  BY SMTT(30), Z3T(30), <1>2, <1>3, <1>4
<1>8. SkipsTo(b, p, q)
  <2> HIDE DEF q
  <2> QED
    BY Zenon, <1>5, <1>6 DEF SkipsTo
<1> QED
  BY Zenon, <1>7, <1>8 DEF b, p

\* No head ends in the buffer: none ends in the bytes fed.
LEMMA NoHeadInBuffer ==
  ASSUME FrameInv, state = "Head", NEW skipped \in start .. Len(buffer),
         SkipsTo(buffer, start, skipped),
         \A m \in skipped .. Len(buffer) - 1 : ~ EndsHead(buffer, m)
  PROVE  NoHeadAt(F!Fed, F!Position, streamOffset + (skipped - start))
<1> DEFINE q == streamOffset + (skipped - start)
<1>1. Inv /\ SameBytes
  BY DEF FrameInv, ScanInv
<1>2. Len(F!Fed) = fed
  BY SMTT(30), Z3T(30), <1>1, FedIs
<1>3. /\ start \in Nat /\ streamOffset \in Nat /\ fed \in Nat /\ skipped \in Nat
      /\ Len(buffer) \in Nat /\ start <= skipped /\ fed - streamOffset = Len(buffer) - start
  BY SMTT(30), Z3T(30), <1>1 DEF Inv, TypeOK, IndicesInBounds, SameBytes
<1>4. ASSUME NEW m \in q .. Len(F!Fed) - 1 PROVE ~ EndsHead(F!Fed, m)
  <2> DEFINE j == m - streamOffset
  <2>1. j \in Nat /\ start + j \in skipped .. Len(buffer) - 1 /\ m = streamOffset + j
    BY SMTT(30), Z3T(30), <1>2, <1>3
  <2> HIDE DEF j
  <2>2. EndsHead(buffer, start + j) <=> EndsHead(F!Fed, streamOffset + j)
    BY SMTT(30), Z3T(30), <1>1, <2>1, SameLines
  <2> QED
    BY <2>1, <2>2
<1>5. q \in F!Position .. Len(F!Fed) /\ SkipsTo(F!Fed, F!Position, q)
  BY Zenon, SkipGoesOn
<1> HIDE DEF q
<1>6. NoHeadAt(F!Fed, F!Position, q)
  BY Zenon, <1>4, <1>5 DEF NoHeadAt
<1> QED
  BY Zenon, <1>6 DEF q

\* The first head end in the buffer is the first in the bytes fed.
LEMMA HeadInBuffer ==
  ASSUME FrameInv, state = "Head", NEW skipped \in start .. Len(buffer),
         SkipsTo(buffer, start, skipped),
         NEW n \in skipped .. Len(buffer) - 1, EndsHead(buffer, n),
         \A m \in skipped .. n - 1 : ~ EndsHead(buffer, m)
  PROVE  /\ HeadAt(F!Fed, F!Position, streamOffset + (skipped - start), streamOffset + (n - start))
         /\ HeadEnd(F!Fed, streamOffset + (n - start)) = streamOffset + (HeadEnd(buffer, n) - start)
<1> DEFINE q == streamOffset + (skipped - start)
           k == streamOffset + (n - start)
<1>1. Inv /\ SameBytes
  BY DEF FrameInv, ScanInv
<1>2. Len(F!Fed) = fed
  BY SMTT(30), Z3T(30), <1>1, FedIs
<1>3. /\ start \in Nat /\ streamOffset \in Nat /\ fed \in Nat /\ skipped \in Nat /\ n \in Nat
      /\ Len(buffer) \in Nat /\ start <= skipped /\ skipped <= n /\ n < Len(buffer)
      /\ fed - streamOffset = Len(buffer) - start
  BY SMTT(30), Z3T(30), <1>1 DEF Inv, TypeOK, IndicesInBounds, SameBytes
<1>4. ASSUME NEW m \in q .. k - 1 PROVE ~ EndsHead(F!Fed, m)
  <2> DEFINE j == m - streamOffset
  <2>1. j \in Nat /\ start + j \in skipped .. n - 1 /\ m = streamOffset + j
    BY <1>3
  <2> HIDE DEF j
  <2>2. EndsHead(buffer, start + j) <=> EndsHead(F!Fed, streamOffset + j)
    BY SMTT(30), Z3T(30), <1>1, <2>1, SameLines
  <2> QED
    BY <2>1, <2>2
<1>5. /\ EndsHead(F!Fed, k)
      /\ HeadEnd(F!Fed, k) = streamOffset + (HeadEnd(buffer, n) - start)
  <2>1. n - start \in Nat /\ start + (n - start) = n
    BY <1>3
  <2>2. /\ EndsHead(buffer, start + (n - start)) <=> EndsHead(F!Fed, k)
        /\ HeadEnd(buffer, start + (n - start)) - start = HeadEnd(F!Fed, k) - streamOffset
    BY SMTT(30), Z3T(30), <1>1, <2>1, SameLines
  <2>3. HeadEnd(buffer, n) \in Nat /\ HeadEnd(F!Fed, k) \in Int
    BY <1>3 DEF HeadEnd
  <2> HIDE DEF k
  <2> QED
    BY SMTT(30), Z3T(30), <1>3, <2>1, <2>2, <2>3
<1>6. q \in F!Position .. Len(F!Fed) /\ SkipsTo(F!Fed, F!Position, q)
  BY Zenon, SkipGoesOn
<1>7. k \in q .. Len(F!Fed) - 1
  BY <1>2, <1>3
<1> HIDE DEF q, k
<1>8. HeadAt(F!Fed, F!Position, q, k)
  BY Zenon, <1>4, <1>5, <1>6, <1>7 DEF HeadAt
<1> QED
  BY Zenon, <1>5, <1>8 DEF q, k

\* With the end of a head in the buffer, both judge the same head.
LEMMA TakeHeadAnswers ==
  ASSUME FrameInv, state = "Head", NEW skipped \in start .. Len(buffer),
         SkipsTo(buffer, start, skipped),
         NEW n \in skipped .. Len(buffer) - 1, EndsHead(buffer, n),
         \A m \in skipped .. n - 1 : ~ EndsHead(buffer, m),
         TakeHead(skipped, HeadEnd(buffer, n)), UNCHANGED <<stream, fed>>
  PROVE  Answered /\ Placed'
<1> DEFINE q == streamOffset + (skipped - start)
           k == streamOffset + (n - start)
           e == HeadEnd(buffer, n)
           end == streamOffset + (e - start)
           head == ParseHead(SubSeq(buffer, skipped + 1, e))
           req == [begin |-> q, headBytes |-> e - skipped]
<1>1. Inv /\ SameBytes
  BY DEF FrameInv, ScanInv
<1>2. /\ F!Fed \in Seq(Byte) /\ Len(F!Fed) = fed /\ \A i \in 1 .. fed : F!Fed[i] = stream[i]
  BY SMTT(30), Z3T(30), <1>1, FedIs
<1>3. /\ start \in Nat /\ streamOffset \in Nat /\ fed \in Nat /\ skipped \in Nat /\ n \in Nat
      /\ Len(buffer) \in Nat /\ start <= skipped /\ skipped <= n /\ n < Len(buffer)
      /\ fed - streamOffset = Len(buffer) - start /\ buffer \in Seq(Byte)
  BY SMTT(30), Z3T(30), <1>1 DEF Inv, TypeOK, IndicesInBounds, SameBytes
<1>4. HeadAt(F!Fed, F!Position, q, k) /\ HeadEnd(F!Fed, k) = end
  BY Zenon, HeadInBuffer
<1>5. e \in Nat /\ n + 2 <= e /\ e <= Len(buffer)
  BY SMTT(30), Z3T(30), <1>3, HeadEndInBuffer
<1>6. /\ q \in Nat /\ end \in Nat /\ q <= end /\ end <= fed /\ end - q = e - skipped
      /\ e \in start .. Len(buffer) /\ F!Position \in Nat /\ e - skipped \in Nat
  <2>1. F!Position \in Nat
    BY DEF FrameInv, Placed
  <2> HIDE DEF e
  <2> QED
    BY SMTT(30), Z3T(30), <1>3, <1>5, <2>1
<1> HIDE DEF e, q, end, k
<1>7. SubSeq(F!Fed, q + 1, end) = SubSeq(buffer, skipped + 1, e)
  <2> DEFINE s == SubSeq(F!Fed, q + 1, end)
             t == SubSeq(buffer, skipped + 1, e)
  <2>1. s \in Seq(Byte) /\ Len(s) = end - q /\ \A i \in 1 .. end - q : s[i] = F!Fed[q + i]
    <3>1. F!Fed \in Seq(Byte) /\ q \in Nat /\ end \in Nat /\ q <= end /\ end <= Len(F!Fed)
      BY Zenon, <1>2, <1>6
    <3> HIDE DEF F!Fed
    <3> QED
      BY ZenonT(40), <3>1, Slice
  <2>2. t \in Seq(Byte) /\ Len(t) = e - skipped
        /\ \A i \in 1 .. e - skipped : t[i] = buffer[skipped + i]
    <3>1. e \in Nat /\ skipped \in Nat /\ skipped <= e /\ e <= Len(buffer) /\ buffer \in Seq(Byte)
      BY SMTT(30), Z3T(30), <1>3, <1>5
    <3> QED
      BY ZenonT(40), <3>1, Slice
  <2>3. ASSUME NEW i \in 1 .. e - skipped PROVE F!Fed[q + i] = buffer[skipped + i]
    <3> DEFINE j == i + (skipped - start)
    <3>1. j \in 1 .. Len(buffer) - start /\ start + j = skipped + i /\ streamOffset + j = q + i
      BY SMTT(30), Z3T(30), <1>3, <1>5, <1>6 DEF q
    <3>2. q + i \in 1 .. fed
      BY SMTT(30), Z3T(30), <1>3, <1>5, <1>6
    <3> HIDE DEF j
    <3>3. buffer[start + j] = stream[streamOffset + j]
      BY SMTT(30), Z3T(30), <1>1, <3>1 DEF SameBytes
    <3> QED
      BY SMTT(30), Z3T(30), <1>2, <3>1, <3>2, <3>3
  <2> HIDE DEF s, t
  <2>4. \A i \in 1 .. Len(s) : s[i] = t[i]
    BY SMTT(30), Z3T(30), <1>6, <2>1, <2>2, <2>3
  <2>5. s = t
    BY SMTT(30), Z3T(30), <1>6, <2>1, <2>2, <2>4, SeqEqual
  <2> QED
    BY Zenon, <2>5 DEF s, t
<1>8. F!FrameAt(F!Fed, F!Position) = FrameWith(fed, q, end, head)
  <2>1. F!FrameAt(F!Fed, F!Position) =
          FrameWith(Len(F!Fed), q, HeadEnd(F!Fed, k),
                    ParseHead(SubSeq(F!Fed, q + 1, HeadEnd(F!Fed, k))))
    <3> HIDE DEF head
    <3> QED
      BY SMTT(30), Z3T(30), <1>2, <1>4, <1>6, FrameOfHead
  <2> QED
    BY Zenon, <1>2, <1>4, <1>7, <2>1
<1>9. head.status \in Statuses /\ head.bodyLength \in 0 .. MaxBodyBytes
  BY ParseHeadType
<1>10. ParseHead(SubSeq(F!Fed, q + 1, end)) = head
  BY Zenon, <1>7
<1>11. TakeHead(skipped, e)
  BY Zenon DEF e
<1>12. \/ e - skipped > MaxHeaderBytes /\ Fail(431, skipped)
       \/ ~ (e - skipped > MaxHeaderBytes) /\ head.status # NoError /\ Fail(head.status, skipped)
       \/ ~ (e - skipped > MaxHeaderBytes) /\ head.status = NoError
          /\ TakeBody(req, e, head.bodyLength)
  BY Zenon, <1>11 DEF TakeHead, q
<1> HIDE DEF head
<1>13. CASE e - skipped > MaxHeaderBytes /\ Fail(431, skipped)
  <2>1. F!FrameAt(F!Fed, F!Position) = F!Error(431)
    BY Zenon, <1>6, <1>8, <1>13 DEF FrameWith
  <2> QED
    BY Zenon, <1>13, <2>1, FailAnswers
<1>14. CASE ~ (e - skipped > MaxHeaderBytes) /\ head.status # NoError /\ Fail(head.status, skipped)
  <2>1. F!FrameAt(F!Fed, F!Position) = F!Error(head.status)
    BY Zenon, <1>6, <1>8, <1>14 DEF FrameWith
  <2> QED
    BY Zenon, <1>14, <2>1, FailAnswers
<1>15. CASE ~ (e - skipped > MaxHeaderBytes) /\ head.status = NoError
          /\ TakeBody(req, e, head.bodyLength)
  <2>1. /\ req \in [begin : Nat, headBytes : Nat] /\ req.begin = q /\ req.headBytes = end - req.begin
        /\ req.headBytes <= MaxHeaderBytes
    BY SMTT(30), Z3T(30), <1>6, <1>15, Limits
  <2> HIDE DEF req
  <2>2. HeadAt(F!Fed, F!Position, req.begin, k) /\ state # "Failed"
    BY Zenon, <1>4, <2>1
  <2>3. /\ ParseHead(SubSeq(F!Fed, req.begin + 1, end)).status = NoError
        /\ ParseHead(SubSeq(F!Fed, req.begin + 1, end)).bodyLength = head.bodyLength
    BY Zenon, <1>10, <1>15, <2>1
  <2>4. HeadRead(req, k, end, head.bodyLength)
    BY Zenon, <1>4, <2>1, <2>2, <2>3 DEF HeadRead
  <2>5. HeadRead(req, k, streamOffset + (e - start), head.bodyLength)
    BY Zenon, <2>4 DEF end
  <2> QED
    BY Zenon, <1>6, <1>9, <1>15, <2>1, <2>2, <2>5, TakeBodyAnswers
<1> QED
  BY Zenon, <1>12, <1>13, <1>14, <1>15

\* next() in state Head answers as Framing does for all bytes fed.
LEMMA NextInHeadAnswers ==
  ASSUME FrameInv, NextInHead
  PROVE  Answered /\ Placed'
<1>1. PICK skipped \in start .. Len(buffer) :
        SkipsTo(buffer, start, skipped) /\ FindEndOfHead(skipped, Larger(scanFrom, skipped))
  BY DEF NextInHead
<1> DEFINE pos == Larger(scanFrom, skipped)
<1>2. /\ buffer \in Seq(Byte) /\ start \in Nat /\ scanFrom \in Nat /\ Len(buffer) \in Nat
      /\ skipped \in Nat /\ start <= skipped
  BY DEF FrameInv, ScanInv, Inv, TypeOK
<1>3. pos \in Nat /\ pos \in skipped .. Len(buffer) /\ (pos = scanFrom \/ pos = skipped)
  BY <1>2 DEF FrameInv, ScanInv, Inv, IndicesInBounds, Larger
<1>4. UNCHANGED <<stream, fed>> /\ state = "Head"
  BY DEF NextInHead
<1>5. \A m \in start .. scanFrom - 1 : ~ EndsHead(buffer, m)
  BY <1>4 DEF FrameInv, ScanInv, ResumeLosesNoHeadEnd
<1>6. FindEndOfHead(skipped, pos)
  BY Zenon, <1>1
<1> HIDE DEF pos
<1>7. \A m \in skipped .. pos - 1 : ~ EndsHead(buffer, m)
  BY SMTT(30), Z3T(30), <1>2, <1>3, <1>5
<1>8. CASE \A n \in pos .. Len(buffer) - 1 : ~ StopsAt(buffer, pos, n)
  <2>1. AwaitHead(skipped, Len(buffer))
    BY SMTT(30), Z3T(30), <1>6, <1>8 DEF FindEndOfHead
  <2>2. \A m \in pos .. Len(buffer) - 1 : ~ EndsHead(buffer, m)
    BY SMTT(30), Z3T(30), <1>2, <1>3, <1>8, ScanStops
  <2>3. \A m \in skipped .. Len(buffer) - 1 : ~ EndsHead(buffer, m)
    BY SMTT(30), Z3T(30), <1>2, <1>3, <1>7, <2>2
  <2>4. NoHeadAt(F!Fed, F!Position, streamOffset + (skipped - start))
    BY Zenon, <1>1, <1>4, <2>3, NoHeadInBuffer
  <2> QED
    BY Zenon, <1>4, <2>1, <2>4, AwaitHeadAnswers
<1>9. ASSUME NEW n \in pos .. Len(buffer) - 1, StopsAt(buffer, pos, n),
             IF EndsHead(buffer, n) THEN TakeHead(skipped, HeadEnd(buffer, n))
                                    ELSE AwaitHead(skipped, n)
      PROVE  Answered /\ Placed'
  <2>1. n \in Nat /\ n \in skipped .. Len(buffer) - 1
    BY <1>2, <1>3
  <2>2. \A m \in pos .. n - 1 : ~ EndsHead(buffer, m)
    BY <1>9 DEF StopsAt
  <2>3. \A m \in skipped .. n - 1 : ~ EndsHead(buffer, m)
    BY SMTT(30), Z3T(30), <1>2, <1>3, <1>7, <2>1, <2>2
  <2>4. CASE EndsHead(buffer, n)
    <3>1. TakeHead(skipped, HeadEnd(buffer, n))
      BY <1>9, <2>4
    <3> QED
      BY Zenon, <1>1, <1>4, <2>1, <2>3, <2>4, <3>1, TakeHeadAnswers
  <2>5. CASE ~ EndsHead(buffer, n)
    <3>1. Undecided(buffer, n)
      BY SMTT(30), Z3T(30), <1>9, <2>5 DEF StopsAt
    <3>2. ASSUME NEW m \in skipped .. Len(buffer) - 1 PROVE ~ EndsHead(buffer, m)
      <4>1. CASE m < n
        BY SMTT(30), Z3T(30), <1>2, <2>1, <2>3, <4>1
      <4>2. CASE m = n
        BY SMTT(30), Z3T(30), <2>5, <4>2
      <4>3. CASE m > n
        BY SMTT(30), Z3T(30), <1>2, <2>1, <3>1, <4>3 DEF Undecided, EndsHead, IsLF, IsCRLF
      <4> QED
        BY SMTT(30), Z3T(30), <1>2, <2>1, <4>1, <4>2, <4>3
    <3>3. NoHeadAt(F!Fed, F!Position, streamOffset + (skipped - start))
      BY Zenon, <1>1, <1>4, <3>2, NoHeadInBuffer
    <3>4. AwaitHead(skipped, n)
      BY <1>9, <2>5
    <3> QED
      BY Zenon, <1>4, <3>3, <3>4, AwaitHeadAnswers
  <2> QED
    BY <2>4, <2>5
<1> QED
  BY Zenon, <1>6, <1>8, <1>9 DEF FindEndOfHead

\* A chunk changes neither what was framed nor where the last request ended.
LEMMA FeedPlaced ==
  ASSUME FrameInv, Inv', NEW n \in 1 .. Len(stream) - fed, Feed(n)
  PROVE  Placed'
<1>1. /\ fed' = fed + n /\ n \in Nat /\ fed \in Nat /\ stream \in Seq(Byte) /\ fed' <= Len(stream)
      /\ UNCHANGED <<stream, streamOffset, state, pending, bodyLength, error, out, result>>
  BY DEF Feed, FrameInv, ScanInv, Inv, TypeOK
<1>2. /\ F!Fed \in Seq(Byte) /\ Len(F!Fed) = fed /\ \A i \in 1 .. fed : F!Fed[i] = stream[i]
  BY FedIs DEF FrameInv, ScanInv
<1>3. /\ F!Fed' \in Seq(Byte) /\ Len(F!Fed') = fed' /\ \A i \in 1 .. fed' : F!Fed'[i] = stream[i]
  <2>1. SubSeq(stream, 0 + 1, fed') = F!Fed'
    BY SMTT(30), Z3T(30), <1>1 DEF F!Fed
  <2>2. /\ SubSeq(stream, 0 + 1, fed') \in Seq(Byte)
        /\ Len(SubSeq(stream, 0 + 1, fed')) = fed' - 0
        /\ \A i \in 1 .. fed' - 0 : SubSeq(stream, 0 + 1, fed')[i] = stream[0 + i]
    <3>1. fed' \in Nat
      BY <1>1
    <3> QED
      BY SMTT(30), Z3T(30), <1>1, <3>1, Slice
  <2> HIDE DEF F!Fed
  <2> QED
    BY SMTT(30), Z3T(30), <1>1, <2>1, <2>2
<1>4. Begins(F!Fed, F!Fed')
  BY SMTT(30), Z3T(30), <1>1, <1>2, <1>3 DEF Begins
<1>5. F!Position' = F!Position /\ F!Position \in Nat
  <2>1. F!Position' = F!Position
    BY <1>1 DEF F!Position
  <2> QED
    BY <2>1 DEF FrameInv, Placed
<1>6. ASSUME state' = "Head"
      PROVE  F!Position' <= streamOffset' /\ EmptyLines(F!Fed, F!Position, streamOffset)'
  <2> DEFINE b1 == F!Fed
             b2 == F!Fed'
             p == F!Position
  <2>1. F!Position <= streamOffset /\ EmptyLines(b1, p, streamOffset) /\ streamOffset \in Nat
    BY <1>1, <1>6 DEF FrameInv, Placed, ScanInv, Inv, TypeOK
  <2>2. Begins(b1, b2) /\ b1 \in Seq(Byte) /\ b2 \in Seq(Byte)
    BY SMTT(30), Z3T(30), <1>2, <1>3, <1>4
  <2> HIDE DEF b1, b2, p
  <2>3. ASSUME NEW i \in p .. streamOffset - 1
        PROVE  IsLF(b2, i) \/ (IsCRLF(b2, i) /\ i + 1 < streamOffset)
    <3>1. i \in Nat
      BY <1>5, <2>1 DEF p
    <3>2. IsLF(b1, i) \/ (IsCRLF(b1, i) /\ i + 1 < streamOffset)
      BY <2>1 DEF EmptyLines
    <3> QED
      BY SMTT(30), Z3T(30), <2>2, <3>1, <3>2, LineEndsStay
  <2>4. EmptyLines(b2, p, streamOffset)
    BY Zenon, <2>3 DEF EmptyLines
  <2> QED
    BY Zenon, <1>1, <1>5, <2>1, <2>4 DEF b2, p
<1>7. ASSUME state' = "Body" PROVE \E k : HeadRead(pending, k, streamOffset, bodyLength)'
  <2>1. PICK k : HeadRead(pending, k, streamOffset, bodyLength)
    BY Zenon, <1>1, <1>7 DEF FrameInv, Placed
  <2>2. HeadAt(F!Fed, F!Position, pending.begin, k) /\ HeadEnd(F!Fed, k) = streamOffset
    BY Zenon, <2>1 DEF HeadRead
  <2>3. /\ HeadAt(F!Fed', F!Position, pending.begin, k)
        /\ HeadEnd(F!Fed', k) = streamOffset
        /\ SubSeq(F!Fed', pending.begin + 1, streamOffset)
             = SubSeq(F!Fed, pending.begin + 1, streamOffset)
    <3> DEFINE q == pending.begin
               p == F!Position
    <3>1. HeadAt(F!Fed, p, q, k) /\ p \in Nat
      BY Zenon, <1>5, <2>2
    <3> HIDE DEF p, q
    <3>2. /\ HeadAt(F!Fed', p, q, k)
          /\ HeadEnd(F!Fed', k) = HeadEnd(F!Fed, k)
          /\ SubSeq(F!Fed', q + 1, HeadEnd(F!Fed, k)) = SubSeq(F!Fed, q + 1, HeadEnd(F!Fed, k))
      BY ZenonT(40), <1>2, <1>3, <1>4, <3>1, HeadStays
    <3> QED
      BY Zenon, <2>2, <3>2 DEF p, q
  <2>4. HeadRead(pending, k, streamOffset, bodyLength)'
    BY Zenon, <1>1, <1>5, <2>1, <2>3 DEF HeadRead
  <2> QED
    BY Zenon, <2>4
<1>8. IF state' = "Failed" THEN result' = F!Error(error') ELSE result'.kind # "Error"
  BY Zenon, <1>1 DEF FrameInv, Placed
<1>9. F!Position' \in Nat
  BY Zenon, <1>5
<1> QED
  BY Zenon, <1>6, <1>7, <1>8, <1>9 DEF Placed

\* A new parser stands at the beginning of the stream.
LEMMA InitPlaced == Init => Placed
<1> SUFFICES ASSUME Init PROVE Placed
  OBVIOUS
<1>1. out = <<>> /\ state = "Head" /\ streamOffset = 0 /\ result = F!Incomplete
  BY DEF Init
<1>2. F!Position = 0
  BY <1>1 DEF F!Position
<1>3. EmptyLines(F!Fed, F!Position, streamOffset)
  BY <1>1, <1>2 DEF EmptyLines
<1>4. result.kind # "Error" /\ F!Position \in Nat /\ F!Position <= streamOffset
  BY SMTT(30), Z3T(30), <1>1, <1>2, KindsDiffer
<1> QED
  BY Zenon, <1>1, <1>3, <1>4 DEF Placed

\* In each state, next() returns what Framing returns.
LEMMA NextAnswers ==
  ASSUME FrameInv, NextInHead \/ NextInBody
  PROVE  Answered /\ Placed' /\ result.kind # "Error" /\ UNCHANGED <<stream, fed>>
<1>1. CASE NextInHead
  <2>1. state = "Head" /\ UNCHANGED <<stream, fed>>
    BY <1>1 DEF NextInHead
  <2>2. result.kind # "Error"
    BY Zenon, <2>1 DEF FrameInv, Placed
  <2> QED
    BY Zenon, <1>1, <2>1, <2>2, NextInHeadAnswers
<1>2. CASE NextInBody
  <2>1. /\ state = "Body" /\ state # "Failed" /\ UNCHANGED <<stream, fed>>
        /\ TakeBody(pending, start, bodyLength)
    BY SMTT(30), Z3T(30), <1>2 DEF NextInBody
  <2>2. /\ start \in start .. Len(buffer) /\ bodyLength \in 0 .. MaxBodyBytes
        /\ pending \in [begin : Nat, headBytes : Nat] /\ streamOffset + (start - start) = streamOffset
    BY DEF FrameInv, ScanInv, Inv, TypeOK, IndicesInBounds
  <2>3. PICK n : HeadRead(pending, n, streamOffset, bodyLength)
    BY Zenon, <2>1 DEF FrameInv, Placed
  <2>4. HeadRead(pending, n, streamOffset + (start - start), bodyLength)
    BY Zenon, <2>2, <2>3
  <2>5. result.kind # "Error"
    BY Zenon, <2>1 DEF FrameInv, Placed
  <2> QED
    BY Zenon, <2>1, <2>2, <2>4, <2>5, TakeBodyAnswers
<1> QED
  BY Zenon, <1>1, <1>2

\* After an error next() returns it again.
LEMMA NextFailedIs ==
  ASSUME FrameInv, NextFailed
  PROVE  result' = result /\ result.kind = "Error" /\ UNCHANGED <<stream, fed, out>> /\ Placed'
<1>1. /\ state = "Failed" /\ result' = F!Error(error)
      /\ UNCHANGED <<stream, fed, out, state, error>>
  BY DEF NextFailed
<1>2. result = F!Error(error)
  BY Zenon, <1>1 DEF FrameInv, Placed
<1>3. F!Position' \in Nat
  BY Zenon, <1>1, SamePlace DEF FrameInv, Placed
<1>4. Placed'
  BY Zenon, <1>1, <1>3 DEF Placed
<1> QED
  BY Zenon, <1>1, <1>2, <1>4, KindsDiffer

\* feed() and next() keep the parser's place.
LEMMA NextFrameInv == FrameInv /\ [Next]_vars => FrameInv'
<1> SUFFICES ASSUME FrameInv, [Next]_vars PROVE FrameInv'
  OBVIOUS
<1>1. ScanInv' /\ Inv'
  BY Zenon, NextScanInv DEF FrameInv, ScanInv
<1>2. ASSUME NEW n \in 1 .. Len(stream) - fed, Feed(n) PROVE Placed'
  BY SMTT(30), Z3T(30), <1>1, <1>2, FeedPlaced
<1>3. ASSUME NextInHead \/ NextInBody PROVE Placed'
  BY Zenon, <1>3, NextAnswers
<1>4. ASSUME NextFailed PROVE Placed'
  BY Zenon, <1>4, NextFailedIs
<1>5. ASSUME UNCHANGED vars PROVE Placed'
  <2>1. UNCHANGED <<stream, fed, out, streamOffset, state, pending, bodyLength, error, result>>
    BY SMTT(30), Z3T(30), <1>5 DEF vars
  <2>2. F!Fed' = F!Fed /\ F!Position' = F!Position
    BY Zenon, <2>1, SamePlace
  <2> QED
    BY Zenon, <2>1, <2>2 DEF FrameInv, Placed, EmptyLines, HeadRead
<1>6. Placed'
  BY Zenon, <1>2, <1>3, <1>4, <1>5 DEF Next
<1> QED
  BY Zenon, <1>1, <1>6 DEF FrameInv

\* The parser refines Framing: whatever the grouping of the bytes into calls of
\* feed(), and however often it is called, next() returns what framing all the
\* bytes fed so far, from the end of the last request, returns.  Neither the
\* resume position nor the compaction of the buffer nor the Body state shows
\* (request_parser.cpp:219-345).
THEOREM ParserImplementsFraming == Spec => ImplementsFraming
<1>1. Init => F!Init
  <2> SUFFICES ASSUME Init PROVE F!Init
    OBVIOUS
  <2>1. stream \in Seq(Byte) /\ fed = 0 /\ out = <<>> /\ result = F!Incomplete
    BY SMTT(30), Z3T(30), StreamsAssumption DEF Init
  <2> QED
    BY <2>1 DEF F!Init, F!Byte, Byte, F!LineBytes, LineBytes
<1>2. FrameInv /\ [Next]_vars => [F!Next]_(F!vars)
  <2> SUFFICES ASSUME FrameInv, [Next]_vars PROVE F!Next \/ UNCHANGED F!vars
    OBVIOUS
  <2>1. ASSUME NEW n \in 1 .. Len(stream) - fed, Feed(n) PROVE F!Next
    BY <2>1 DEF Feed, F!Next, F!Feed
  <2>2. CASE NextInHead \/ NextInBody
    BY Zenon, <2>2, NextAnswers DEF Answered, F!Next, F!NextRequest
  <2>3. CASE NextFailed
    <3>1. result' = result /\ result.kind = "Error" /\ UNCHANGED <<stream, fed, out>>
      BY Zenon, <2>3, NextFailedIs
    <3>2. F!NextRequest
      BY SMTT(30), Z3T(30), <3>1 DEF F!NextRequest
    <3> QED
      BY Zenon, <3>2 DEF F!Next
  <2>4. CASE UNCHANGED vars
    BY Zenon, <2>4 DEF vars, F!vars
  <2> QED
    BY Zenon, <2>1, <2>2, <2>3, <2>4 DEF Next
<1> QED
  BY InitScanInv, InitPlaced, NextFrameInv, <1>1, <1>2, PTL
  DEF Spec, FrameInv, ImplementsFraming, F!Spec

-----------------------------------------------------------------------------
(* How the bytes are cut into reads does not matter *)

\* Where next() looks, there is a head or there is none.
LEMMA HeadOrNoneHere ==
  ASSUME FrameInv, NextInHead \/ NextInBody
  PROVE  \E q : NoHeadAt(F!Fed, F!Position, q) \/ \E n : HeadAt(F!Fed, F!Position, q, n)
<1>1. F!Fed \in Seq(Byte) /\ F!Position \in Nat
  BY Zenon, FedIs DEF FrameInv, Placed, ScanInv
<1>2. CASE NextInHead
  <2>1. PICK skipped \in start .. Len(buffer) : SkipsTo(buffer, start, skipped)
    BY <1>2 DEF NextInHead
  <2>2. state = "Head"
    BY <1>2 DEF NextInHead
  <2> DEFINE q == streamOffset + (skipped - start)
  <2>3. q \in F!Position .. Len(F!Fed) /\ SkipsTo(F!Fed, F!Position, q)
    BY Zenon, <2>1, <2>2, SkipGoesOn
  <2> HIDE DEF q
  <2> QED
    BY Zenon, <1>1, <2>3, HeadOrNone
<1>3. CASE NextInBody
  <2>1. state = "Body"
    BY <1>3 DEF NextInBody
  <2> QED
    BY Zenon, <2>1 DEF FrameInv, Placed, HeadRead
<1> QED
  BY Zenon, <1>2, <1>3

\* What next() returns, unless it waits, is what the whole stream has there.
LEMMA AnswerIsFinal ==
  ASSUME FrameInv, NextInHead \/ NextInBody, result' # F!Incomplete
  PROVE  F!FrameAt(stream, F!Position) = result'
<1>1. Inv /\ F!Position \in Nat /\ stream \in Seq(Byte) /\ fed \in Nat /\ fed <= Len(stream)
  BY DEF FrameInv, Placed, ScanInv, Inv, TypeOK
<1>2. /\ F!Fed \in Seq(Byte) /\ Len(F!Fed) = fed /\ \A i \in 1 .. fed : F!Fed[i] = stream[i]
  BY Zenon, <1>1, FedIs
<1>3. Begins(F!Fed, stream)
  BY <1>1, <1>2 DEF Begins
<1>4. result' = F!FrameAt(F!Fed, F!Position)
  BY Zenon, NextAnswers DEF Answered
<1> QED
  BY Zenon, <1>1, <1>2, <1>3, <1>4, HeadOrNoneHere, FrameStays

\* A frame that is complete is all that next() returns.
LEMMA CompleteIs ==
  ASSUME FrameInv, NextInHead \/ NextInBody, result'.kind = "Complete"
  PROVE  result' = F!Complete(result'.frame)
<1>1. F!Fed \in Seq(Byte) /\ F!Position \in Nat
  BY Zenon, FedIs DEF FrameInv, Placed, ScanInv
<1>2. result' = F!FrameAt(F!Fed, F!Position)
  BY Zenon, NextAnswers DEF Answered
<1>3. PICK q : NoHeadAt(F!Fed, F!Position, q) \/ \E n : HeadAt(F!Fed, F!Position, q, n)
  BY Zenon, HeadOrNoneHere
<1>4. /\ F!Incomplete.kind # "Complete"
      /\ \A s : F!Error(s).kind # "Complete"
      /\ \A f : F!Complete(f).frame = f
  BY KindsDiffer
<1>5. CASE NoHeadAt(F!Fed, F!Position, q)
  <2>1. result' = F!Error(431) \/ result' = F!Incomplete
    BY Zenon, <1>1, <1>2, <1>5, FrameOfNoHead
  <2> QED
    BY SMTT(30), Z3T(30), <1>4, <2>1
<1>6. ASSUME NEW n, HeadAt(F!Fed, F!Position, q, n) PROVE result' = F!Complete(result'.frame)
  <2> DEFINE e == HeadEnd(F!Fed, n)
             head == ParseHead(SubSeq(F!Fed, q + 1, e))
  <2>1. result' = FrameWith(Len(F!Fed), q, e, head)
    BY Zenon, <1>1, <1>2, <1>6, FrameOfHead
  <2> HIDE DEF e, head
  <2>2. \/ result' = F!Incomplete
        \/ \E s : result' = F!Error(s)
        \/ \E f : result' = F!Complete(f)
    BY ZenonT(40), <2>1 DEF FrameWith
  <2> QED
    BY <1>4, <2>2
<1> QED
  BY Zenon, <1>3, <1>5, <1>6

\* A request returned is appended to those before it.
LEMMA RequestsFinal ==
  ASSUME FrameInv, RequestsIndependentOfChunking, NextInHead \/ NextInBody
  PROVE  RequestsIndependentOfChunking'
<1>1. /\ stream' = stream /\ result' = F!FrameAt(F!Fed, F!Position)
      /\ out' = IF result'.kind = "Complete" THEN Append(out, result'.frame) ELSE out
  BY Zenon, NextAnswers DEF Answered
<1>2. CASE result'.kind # "Complete"
  BY Zenon, <1>1, <1>2 DEF RequestsIndependentOfChunking
<1>3. CASE result'.kind = "Complete"
  <2> DEFINE fr == result'.frame
  <2>1. out' = Append(out, fr)
    BY Zenon, <1>1, <1>3
  <2>2. out \in Seq([begin : Nat, headBytes : Nat, end : Nat]) /\ Len(out) \in Nat
    BY DEF FrameInv, ScanInv, Inv, TypeOK
  <2>3. /\ Len(out') = Len(out) + 1 /\ out'[Len(out) + 1] = fr
        /\ \A i \in 1 .. Len(out) : out'[i] = out[i]
    <3> HIDE DEF fr
    <3> QED
      BY SMTT(30), Z3T(30), <2>1, <2>2
  <2>4. F!FrameAt(stream, F!Position) = F!Complete(fr)
    BY Zenon, <1>3, KindsDiffer, AnswerIsFinal, CompleteIs
  <2> HIDE DEF fr
  <2> SUFFICES ASSUME NEW i \in 1 .. Len(out')
               PROVE  F!FrameAt(stream, IF i = 1 THEN 0 ELSE out'[i - 1].end) = F!Complete(out'[i])
    BY Zenon, <1>1 DEF RequestsIndependentOfChunking
  <2>5. i \in Nat /\ i - 1 \in 0 .. Len(out) /\ (i # 1 => i - 1 \in 1 .. Len(out))
    BY SMTT(30), Z3T(30), <2>2, <2>3
  <2>6. i # 1 => out'[i - 1] = out[i - 1]
    BY Zenon, <2>3, <2>5
  <2>7. CASE i \in 1 .. Len(out)
    <3>1. F!FrameAt(stream, IF i = 1 THEN 0 ELSE out[i - 1].end) = F!Complete(out[i])
      BY Zenon, <2>7 DEF RequestsIndependentOfChunking
    <3> QED
      BY Zenon, <2>3, <2>6, <2>7, <3>1
  <2>8. CASE i = Len(out) + 1
    <3>1. (i = 1 <=> out = <<>>) /\ i - 1 = Len(out)
      BY SMTT(30), Z3T(30), <2>2, <2>8
    <3>2. (IF i = 1 THEN 0 ELSE out'[i - 1].end) = F!Position
      BY Zenon, <2>6, <3>1 DEF F!Position
    <3> QED
      BY Zenon, <2>3, <2>4, <2>8, <3>2
  <2> QED
    BY SMTT(30), Z3T(30), <2>2, <2>3, <2>7, <2>8
<1> QED
  BY Zenon, <1>2, <1>3

\* The error is the last answer.
LEMMA ErrorFinal ==
  ASSUME FrameInv, FrameInv', NextInHead \/ NextInBody
  PROVE  ErrorIndependentOfChunking'
<1> SUFFICES ASSUME state' = "Failed" PROVE F!FrameAt(stream', F!Position') = F!Error(error')
  BY Zenon DEF ErrorIndependentOfChunking
<1>1. result' = F!Error(error')
  BY Zenon DEF FrameInv, Placed
<1>2. UNCHANGED <<stream, fed, out>>
  BY Zenon, <1>1, NextAnswers, KindsDiffer DEF Answered
<1>3. F!FrameAt(stream, F!Position) = result'
  BY Zenon, <1>1, KindsDiffer, AnswerIsFinal
<1>4. F!Position' = F!Position
  BY Zenon, <1>2, SamePlace
<1> QED
  BY Zenon, <1>1, <1>2, <1>3, <1>4

\* The requests and the error that next() returns are those of the whole stream,
\* however recv() cut it (request_parser.hpp:33-52): no request is framed, and
\* none refused, on the strength of where a chunk happened to end.
THEOREM ChunksDoNotMatter == Spec => []OutcomeIndependentOfChunking
<1> DEFINE J == FrameInv /\ OutcomeIndependentOfChunking
<1>1. Init => J
  <2> SUFFICES ASSUME Init PROVE J
    OBVIOUS
  <2>1. FrameInv
    BY Zenon, InitScanInv, InitPlaced DEF FrameInv
  <2>2. Len(out) = 0 /\ state # "Failed"
    BY DEF Init
  <2> QED
    BY <2>1, <2>2 DEF OutcomeIndependentOfChunking, RequestsIndependentOfChunking,
         ErrorIndependentOfChunking
<1>2. J /\ [Next]_vars => J'
  <2> SUFFICES ASSUME J, [Next]_vars PROVE J'
    OBVIOUS
  <2>1. FrameInv'
    BY Zenon, NextFrameInv
  <2>2. ASSUME UNCHANGED <<stream, out, state, error>> PROVE OutcomeIndependentOfChunking'
    BY Zenon, <2>2
    DEF OutcomeIndependentOfChunking, RequestsIndependentOfChunking,
         ErrorIndependentOfChunking, F!Position
  <2>3. ASSUME NEW n \in 1 .. Len(stream) - fed, Feed(n) PROVE OutcomeIndependentOfChunking'
    BY Zenon, <2>2, <2>3 DEF Feed
  <2>4. ASSUME NextInHead \/ NextInBody PROVE OutcomeIndependentOfChunking'
    BY Zenon, <2>1, <2>4, RequestsFinal, ErrorFinal DEF OutcomeIndependentOfChunking
  <2>5. ASSUME NextFailed PROVE OutcomeIndependentOfChunking'
    BY Zenon, <2>2, <2>5 DEF NextFailed
  <2>6. ASSUME UNCHANGED vars PROVE OutcomeIndependentOfChunking'
    BY Zenon, <2>2, <2>6 DEF vars
  <2> QED
    BY Zenon, <2>1, <2>3, <2>4, <2>5, <2>6 DEF Next
<1> QED
  BY <1>1, <1>2, PTL DEF Spec

=============================================================================
