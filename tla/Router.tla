------------------------------- MODULE Router -------------------------------
(***************************************************************************)
(* src/router.cpp: one complete request in, one response out.  The wording *)
(* of an error is reduced to the check that failed.                        *)
(***************************************************************************)
EXTENDS Request, Query, Calculator

Colon == 58
Alnum == Digit \cup 65 .. 90 \cup 97 .. 122
Hex == Digit \cup 65 .. 70 \cup 97 .. 102
NameCharacters == Alnum \cup {45, 46, 95, 126}   \* and - . _ ~
LiteralCharacters == Hex \cup {Colon, 46}

\* Mutant: what follows the ']' of an address is taken for a port as it is.
IsValidHostAnyRest(host) ==
  IF host = <<>> THEN FALSE
  ELSE IF Head(host) = 91
  THEN LET close == Find(host, 1, 93)
       IN  /\ close <= Len(host) /\ close # 2
           /\ ToSet(SubSeq(host, 2, close - 1)) \subseteq LiteralCharacters
           /\ ToSet(SubSeq(host, close + 2, Len(host))) \subseteq Digit
  ELSE LET colon == Find(host, 1, Colon)
       IN  /\ colon # 1
           /\ ToSet(SubSeq(host, 1, colon - 1)) \subseteq NameCharacters
           /\ ToSet(SubSeq(host, colon + 1, Len(host))) \subseteq Digit

\* 91 and 93 are the brackets around an IPv6 address.
IsValidHost(host) ==
  IF host = <<>> THEN FALSE
  ELSE IF Head(host) = 91
  THEN LET close == Find(host, 1, 93)
       IN  /\ close <= Len(host) /\ close # 2
           /\ ToSet(SubSeq(host, 2, close - 1)) \subseteq LiteralCharacters
           /\ close = Len(host) \/ host[close + 1] = Colon
           /\ ToSet(SubSeq(host, close + 2, Len(host))) \subseteq Digit
  ELSE LET colon == Find(host, 1, Colon)
       IN  /\ colon # 1
           /\ ToSet(SubSeq(host, 1, colon - 1)) \subseteq NameCharacters
           /\ ToSet(SubSeq(host, colon + 1, Len(host))) \subseteq Digit

-----------------------------------------------------------------------------
\* nullptr: no parameter of that name yet
NoText == Malformed

Slots(error, a, b) == [error |-> error, a |-> a, b |-> b]

\* Mutant: a repeated parameter replaces the first.
FillSlotAgain(slots, p) ==
  IF slots.error # "none" THEN slots
  ELSE CASE p[1] = <<97>> -> [slots EXCEPT !.a = p[2]]
         [] p[1] = <<98>> -> [slots EXCEPT !.b = p[2]]
         [] OTHER         -> [slots EXCEPT !.error = "unknown"]

\* One parameter of the query: its name is a, b, or an error.
FillSlot(slots, p) ==
  IF slots.error # "none" THEN slots
  ELSE CASE p[1] = <<97>> -> IF slots.a # NoText THEN [slots EXCEPT !.error = "duplicate"]
                             ELSE [slots EXCEPT !.a = p[2]]
         [] p[1] = <<98>> -> IF slots.b # NoText THEN [slots EXCEPT !.error = "duplicate"]
                             ELSE [slots EXCEPT !.b = p[2]]
         [] OTHER         -> [slots EXCEPT !.error = "unknown"]

\* parse_operand for a, then for b: the error, if any, and the operands, 0 where
\* they were not read.
ReadOperands(a, b) ==
  IF a.status # "Ok" THEN Slots(a.status, 0, 0)
  ELSE IF b.status # "Ok" THEN Slots(b.status, a.value, 0)
  ELSE Slots("none", a.value, b.value)

ReadSlots(slots) ==
  IF slots.error # "none" THEN Slots(slots.error, 0, 0)
  ELSE IF slots.a = NoText \/ slots.b = NoText THEN Slots("missing", 0, 0)
  ELSE ReadOperands(ParseInt64(slots.a), ParseInt64(slots.b))

ParseOperands(query) ==
  LET parsed == ParseQuery(query)
  IN  IF parsed = QueryError THEN Slots("malformed", 0, 0)
      ELSE ReadSlots(FoldLeft(FillSlot, Slots("none", NoText, NoText), parsed))

\* text_response: a body ends with a newline.
TextResponse(status, text) == [status |-> status, body |-> Append(text, 10), allow |-> "none"]

\* The texts of errors are not modelled.
Refuse(status) == TextResponse(status, <<>>)

Get == "GET"

Answer(result) == IF result.ok THEN TextResponse(200, ToDecimal(result.value)) ELSE Refuse(400)

AnswerOperation(operation, operands) ==
  IF operands.error # "none" THEN Refuse(400)
  ELSE Answer(Calculate(operation, operands.a, operands.b))

HandleRequest(request) ==
  LET hosts == HeaderCount(request, "Host")
      operation == OperationFromPath(Path(request))
  IN  IF hosts > 1 \/ (hosts = 0 /\ request.version = "1.1") THEN Refuse(400)
      ELSE IF hosts = 1 /\ ~ IsValidHost(Header(request, "Host")) THEN Refuse(400)
      ELSE IF operation = "none" THEN Refuse(404)
      ELSE IF request.method # Get THEN [Refuse(405) EXCEPT !.allow = Get]
      ELSE AnswerOperation(operation, ParseOperands(QueryOf(request)))

=============================================================================
