------------------------------ MODULE Framing ------------------------------
(***************************************************************************)
(* What RequestParser promises (include/calc/request_parser.hpp:33-52): it *)
(* turns the byte stream of one connection into a sequence of requests, as *)
(* if the whole stream were there to look at, whatever the grouping of the *)
(* bytes into reads.  There is no buffer, no resume position and no parser *)
(* state here: every call of next() frames the stream from where the last  *)
(* request ended.                                                          *)
(***************************************************************************)
EXTENDS RequestHead

VARIABLES
  stream,  \* every byte the client will ever send
  fed,     \* how many of them have been given to the parser
  out,     \* the requests returned so far
  result   \* what the last call of next() returned

vars == <<stream, fed, out, result>>

Incomplete == [kind |-> "Incomplete"]
Complete(frame) == [kind |-> "Complete", frame |-> frame]
Error(status) == [kind |-> "Error", status |-> status]

\* A request: its bytes are [begin, end) of the stream, head first.
Frame(begin, headBytes, end) ==
  [begin |-> begin, headBytes |-> headBytes, end |-> end]

\* The first line end at or after q that an empty line follows.
FirstEndsHead(b, q, n) == EndsHead(b, n) /\ \A m \in q .. n - 1 : ~ EndsHead(b, m)

\* The framing of the bytes b from offset q, where no empty line begins.
FrameFrom(b, q) ==
  IF \A n \in q .. Len(b) - 1 : ~ EndsHead(b, n)
  THEN IF Len(b) - q > MaxHeaderBytes THEN Error(431) ELSE Incomplete
  ELSE LET n    == CHOOSE n \in q .. Len(b) - 1 : FirstEndsHead(b, q, n)
           e    == HeadEnd(b, n)
           head == ParseHead(SubSeq(b, q + 1, e))
       IN  IF e - q > MaxHeaderBytes THEN Error(431)
           ELSE IF head.status # NoError THEN Error(head.status)
           ELSE IF Len(b) < e + head.bodyLength THEN Incomplete
           ELSE Complete(Frame(q, e - q, e + head.bodyLength))

\* The framing of the bytes b from offset p.
FrameAt(b, p) == FrameFrom(b, CHOOSE q \in p .. Len(b) : SkipsTo(b, p, q))

Fed == SubSeq(stream, 1, fed)

Position == IF out = <<>> THEN 0 ELSE out[Len(out)].end

Init ==
  /\ stream \in Seq(Byte)
  /\ fed = 0
  /\ out = <<>>
  /\ result = Incomplete

Feed ==
  /\ \E n \in 1 .. Len(stream) - fed : fed' = fed + n
  /\ UNCHANGED <<stream, out, result>>

NextRequest ==
  /\ result' = IF result.kind = "Error" THEN result ELSE FrameAt(Fed, Position)
  /\ out' = IF result'.kind = "Complete" THEN Append(out, result'.frame) ELSE out
  /\ UNCHANGED <<stream, fed>>

Next == Feed \/ NextRequest

Spec == Init /\ [][Next]_vars

=============================================================================
