----------------------------- MODULE HeadGrammar -----------------------------
(***************************************************************************)
(* One line of a request head, put together from Pieces, against the       *)
(* grammar that the comments of src/request_parser.cpp cite for it.        *)
(***************************************************************************)
EXTENDS HeadLines

CONSTANTS
  Pieces,    \* texts
  MaxPieces  \* how many of them make a line

VARIABLE
  line  \* its pieces

Written == FlattenSeq(line)

Init == line = <<>>

Extend ==
  /\ Len(line) < MaxPieces
  /\ \E p \in Pieces : line' = Append(line, p)

Read == Len(line) = MaxPieces /\ UNCHANGED line

Next == Extend \/ Read

Spec == Init /\ [][Next]_line

-----------------------------------------------------------------------------
\* The ways to write the text as method SP request-target SP HTTP-version.
RequestLineReadings ==
  LET part(i, j) == SubSeq(Written, i + 1, j - 1)
      spaces == {i \in DOMAIN Written : Written[i] = Space}
  IN  {r \in {[method |-> part(0, i), target |-> part(i, j), version |-> part(j, Len(Written) + 1)] :
                i \in spaces, j \in spaces} :
         /\ r.method \o <<Space>> \o r.target \o <<Space>> \o r.version = Written
         /\ IsToken(r.method) /\ IsVersion(r.version)
         /\ r.target # <<>> /\ Head(r.target) = Slash /\ ToSet(r.target) \subseteq 33 .. 126}

\* parse_request_line accepts exactly the lines of the grammar, for which there
\* is one reading, and returns its parts: nothing of the line is dropped, so no
\* two readers of it can disagree.  505 is for a line that is well formed.
RequestLineFollowsGrammar ==
  LET result == ParseRequestLine(Written)
      Major(r) == r.version[6] - 48
      Minor(r) == r.version[8] - 48
  IN  CASE result.status = 400 -> RequestLineReadings = {}
        [] result.status = 505 -> \E r \in RequestLineReadings : Major(r) # 1
        [] result.status = 0   ->
             \E r \in RequestLineReadings :
               /\ RequestLineReadings = {r}
               /\ r.method = result.method /\ r.target = result.target
               /\ Major(r) = 1 /\ (Minor(r) = 0 <=> result.version = "1.0")

\* The ways to write the text as field-name ":" OWS field-value OWS, where a
\* value neither begins nor ends with white space.
HeaderLineReadings ==
  LET size == Len(Written)
      bounds == {b \in (1 .. size) \X (2 .. size + 1) \X (1 .. size) :
                   Written[b[1]] = Colon /\ b[1] < b[2] /\ b[2] <= b[3] + 1}
  IN  {r \in {[name  |-> SubSeq(Written, 1, b[1] - 1), value |-> SubSeq(Written, b[2], b[3]),
               ows   |-> SubSeq(Written, b[1] + 1, b[2] - 1) \o SubSeq(Written, b[3] + 1, size)] :
                b \in bounds} :
         /\ IsToken(r.name)
         /\ ToSet(r.ows) \subseteq {Space}
         /\ ToSet(r.value) \subseteq 32 .. 255 \ {127}
         /\ r.value # <<>> => Head(r.value) # Space /\ Last(r.value) # Space}

\* parse_header_line accepts exactly the lines of the grammar and finds the one
\* name and value they can be read as: a blank before the colon or before the
\* name is refused, and a colon in the value belongs to the value.
HeaderLineFollowsGrammar ==
  Written # <<>> =>
    LET result == ParseHeaderLine(Written)
        readings == {<<r.name, r.value>> : r \in HeaderLineReadings}
    IN  IF result.status = 0 THEN readings = {<<result.name, result.value>>} ELSE readings = {}

=============================================================================
