---------------------------- MODULE RequestHead ----------------------------
(***************************************************************************)
(* The pure functions of src/src/request_parser.cpp: where a request head  *)
(* ends, and what its lines say about the body that follows.               *)
(*                                                                         *)
(* A byte is abstracted to what the parser can tell apart.  "cr" and "lf"  *)
(* are the two bytes that end lines.  Every other element of Byte stands   *)
(* for the text of one line (the parser looks inside a line only once the  *)
(* whole head is there) and counts as one byte:                            *)
(*   "req"    a well-formed request line       "req2"  one with HTTP/2.0   *)
(*   "field"  a header line that does not matter for framing               *)
(*   "te"     a Transfer-Encoding line         "clx"   a Content-Length    *)
(*            line whose value is not 1*DIGIT  "text"  anything else       *)
(*   DOMAIN LengthLine: a Content-Length line with a decimal value.        *)
(* A line made of anything but exactly one such element is malformed.  Any *)
(* element may occur in a body.  Offsets count from 0, as in the code.     *)
(***************************************************************************)
EXTENDS Integers, Sequences, FiniteSets

CONSTANTS
  MaxHeaderBytes,  \* Limits::max_header_bytes
  MaxHeaderCount,  \* Limits::max_header_count
  MaxBodyBytes,    \* Limits::max_body_bytes
  LengthLine       \* the value of each Content-Length line

ASSUME LimitsAssumption ==
  /\ MaxHeaderBytes \in Nat \ {0}
  /\ MaxHeaderCount \in Nat
  /\ MaxBodyBytes \in Nat \ {0}
  /\ LengthLine \in [DOMAIN LengthLine -> Nat]

\* Limits::max_request_bytes
MaxRequestBytes == MaxHeaderBytes + MaxBodyBytes

LineBytes == {"req", "req2", "field", "te", "clx"} \cup DOMAIN LengthLine

Byte == {"cr", "lf", "text"} \cup LineBytes

-----------------------------------------------------------------------------
(* Line ends *)

IsLF(b, i) == i < Len(b) /\ b[i + 1] = "lf"

IsCRLF(b, i) == i + 1 < Len(b) /\ b[i + 1] = "cr" /\ b[i + 2] = "lf"

\* skip_empty_lines_before_request moves the start of the unread bytes from
\* `from` to `to`: everything between is empty lines, and none begins at `to`.
SkipsTo(b, from, to) ==
  /\ \A i \in from .. to - 1 : IsLF(b, i) \/ (IsCRLF(b, i) /\ i + 1 < to)
  /\ ~ IsLF(b, to)
  /\ ~ IsCRLF(b, to)

\* The line end at n is followed by an empty line, so the head ends there.
EndsHead(b, n) == IsLF(b, n) /\ (IsLF(b, n + 1) \/ IsCRLF(b, n + 1))

\* One past the empty line that follows the line end at n.
HeadEnd(b, n) == IF IsLF(b, n + 1) THEN n + 2 ELSE n + 3

\* Mutant: a lone carriage return after the line end counts as decided.
UndecidedWithoutCR(b, n) == IsLF(b, n) /\ n + 1 = Len(b)

\* The bytes that would decide whether n ends the head are not there yet.
Undecided(b, n) ==
  /\ IsLF(b, n)
  /\ \/ n + 1 = Len(b)
     \/ n + 2 = Len(b) /\ b[n + 2] = "cr"

\* The scan of find_end_of_head, begun at pos, stops at the line end n.
StopsAt(b, pos, n) ==
  /\ EndsHead(b, n) \/ Undecided(b, n)
  /\ \A m \in pos .. n - 1 : ~ EndsHead(b, m) /\ ~ Undecided(b, m)

-----------------------------------------------------------------------------
(* The lines of a head h, each named by the offset of its line feed *)

LineEnds(h) == {e \in 0 .. Len(h) - 1 : IsLF(h, e)}

LineStart(h, e) ==
  CHOOSE s \in 0 .. e : /\ s = 0 \/ IsLF(h, s - 1)
                        /\ \A i \in s .. e - 1 : ~ IsLF(h, i)

\* The line without its line feed and without one carriage return before it.
LineText(h, e) ==
  LET s == LineStart(h, e)
      last == IF e > s /\ h[e] = "cr" THEN e - 1 ELSE e
  IN  SubSeq(h, s + 1, last)

\* parse_head collects lines up to the first empty one.
Lines(h) ==
  {e \in LineEnds(h) : \A f \in LineEnds(h) : f <= e => LineText(h, f) # <<>>}

NoError == 0

\* parse_request_line
RequestLineStatus(text) ==
  IF text = <<"req">> THEN NoError ELSE IF text = <<"req2">> THEN 505 ELSE 400

\* parse_header_line
HeaderLineStatus(text) ==
  IF \E line \in LineBytes \ {"req", "req2"} : text = <<line>> THEN NoError ELSE 400

Verdict(status, bodyLength) == [status |-> status, bodyLength |-> bodyLength]

\* determine_body_length, over the header lines `fields` of h
DetermineBodyLength(h, fields) ==
  LET lengths == {e \in fields : LineText(h, e)[1] \in DOMAIN LengthLine \cup {"clx"}}
      encoded == \E e \in fields : LineText(h, e) = <<"te">>
      text    == LineText(h, CHOOSE e \in lengths : TRUE)[1]
  IN  IF encoded THEN Verdict(IF lengths # {} THEN 400 ELSE 501, 0)
      ELSE IF Cardinality(lengths) > 1 THEN Verdict(400, 0)
      ELSE IF lengths = {} THEN Verdict(NoError, 0)
      ELSE IF text = "clx" THEN Verdict(400, 0)
      ELSE IF LengthLine[text] > MaxBodyBytes THEN Verdict(413, 0)
      ELSE Verdict(NoError, LengthLine[text])

\* RequestParser::parse_head: the first check that fails decides the status.
ParseHead(h) ==
  LET lines   == Lines(h)
      first   == CHOOSE e \in lines : \A f \in lines : e <= f
      fields  == lines \ {first}
      reqLine == RequestLineStatus(LineText(h, first))
  IN  IF lines = {} THEN Verdict(400, 0)
      ELSE IF Cardinality(fields) > MaxHeaderCount THEN Verdict(431, 0)
      ELSE IF reqLine # NoError THEN Verdict(reqLine, 0)
      ELSE IF \E e \in fields : HeaderLineStatus(LineText(h, e)) # NoError
           THEN Verdict(400, 0)
      ELSE DetermineBodyLength(h, fields)

=============================================================================
