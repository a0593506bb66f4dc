------------------------------- MODULE Request -------------------------------
(***************************************************************************)
(* src/request.cpp: what the router and the connection ask of a request,   *)
(* [version, method, target, headers], where a header is [name, value].    *)
(*                                                                         *)
(* Texts are sequences of character codes.  A header name stands for all   *)
(* its spellings, and so does a word of a Connection header, which is one  *)
(* element: iequals tells them apart no further.                           *)
(***************************************************************************)
EXTENDS Text

Comma == 44
QuestionMark == 63
CloseWord == 1001
KeepAliveWord == 1002

\* The values of the headers of a name, in order.
ValuesOf(request, name) ==
  LET named == SelectSeq(request.headers, LAMBDA h : h.name = name)
  IN  [i \in DOMAIN named |-> named[i].value]

HeaderCount(request, name) == Len(ValuesOf(request, name))

\* Request::header, where there is one
Header(request, name) == ValuesOf(request, name)[1]

Path(request) == SubSeq(request.target, 1, Find(request.target, 1, QuestionMark) - 1)

QueryOf(request) ==
  SubSeq(request.target, Find(request.target, 1, QuestionMark) + 1, Len(request.target))

\* The comma-separated options of one header value, trimmed.
Options(value) ==
  {TrimWhitespace(SubSeq(value, i, Find(value, i, Comma) - 1)) :
     i \in {1} \cup {k + 1 : k \in {k \in DOMAIN value : value[k] = Comma}}}

\* Mutant: only the first Connection header is looked at.
ConnectionOptionsOfFirst(request) ==
  IF HeaderCount(request, "Connection") = 0 THEN {} ELSE Options(Header(request, "Connection"))

ConnectionOptions(request) ==
  UNION {Options(v) : v \in ToSet(ValuesOf(request, "Connection"))}

WantsKeepAlive(request) ==
  /\ <<CloseWord>> \notin ConnectionOptions(request)
  /\ request.version = "1.1" \/ <<KeepAliveWord>> \in ConnectionOptions(request)

=============================================================================
