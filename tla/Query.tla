-------------------------------- MODULE Query --------------------------------
(***************************************************************************)
(* src/query.cpp: the query string of a request target.                    *)
(***************************************************************************)
EXTENDS Text

Percent == 37
Ampersand == 38
Equals == 61

HexValue(c) ==
  CASE c \in 48 .. 57  -> c - 48
    [] c \in 97 .. 102 -> c - 97 + 10
    [] c \in 65 .. 70  -> c - 65 + 10
    [] OTHER           -> -1

\* std::nullopt; no text holds it.
Malformed == <<-1>>

\* From[i] is the text from its i-th character on, decoded.
PercentDecode(text) ==
  LET From[i \in 1 .. Len(text) + 1] ==
        IF i > Len(text) THEN <<>>
        ELSE IF text[i] # Percent
             THEN IF From[i + 1] = Malformed THEN Malformed ELSE <<text[i]>> \o From[i + 1]
        ELSE IF i + 2 > Len(text) \/ HexValue(text[i + 1]) < 0 \/ HexValue(text[i + 2]) < 0
             THEN Malformed
        ELSE IF From[i + 3] = Malformed THEN Malformed
             ELSE <<HexValue(text[i + 1]) * 16 + HexValue(text[i + 2])>> \o From[i + 3]
  IN  From[1]

Parameter(name, value) == <<name, value>>

\* What ParseQuery returns instead of parameters; the wording is not modelled.
QueryError == <<Malformed>>

\* Mutant: a segment is decoded before it is split at '='.
ParseSegmentDecodingFirst(segment) ==
  LET decoded == PercentDecode(segment)
      eq == Find(decoded, 1, Equals)
  IN  IF decoded = Malformed \/ eq > Len(decoded) THEN QueryError
      ELSE <<Parameter(SubSeq(decoded, 1, eq - 1), SubSeq(decoded, eq + 1, Len(decoded)))>>

\* name=value, each of them decoded after the split
ParseSegment(segment) ==
  LET eq    == Find(segment, 1, Equals)
      name  == PercentDecode(SubSeq(segment, 1, eq - 1))
      value == PercentDecode(SubSeq(segment, eq + 1, Len(segment)))
  IN  IF segment = <<>> \/ eq > Len(segment) \/ name = Malformed \/ value = Malformed
      THEN QueryError
      ELSE <<Parameter(name, value)>>

\* The parameters in order, or QueryError: the loop goes from one '&' to the
\* next and stops at the first segment that is in error.
ParseQuery(query) ==
  LET Segments[i \in 1 .. Len(query) + 1] ==
        LET amp   == Find(query, i, Ampersand)
            first == ParseSegment(SubSeq(query, i, amp - 1))
        IN  IF first = QueryError \/ amp > Len(query) THEN first
            ELSE IF Segments[amp + 1] = QueryError THEN QueryError
            ELSE first \o Segments[amp + 1]
  IN  IF query = <<>> THEN <<>> ELSE Segments[1]

=============================================================================
