----------------------------- MODULE QueryGrammar -----------------------------
(***************************************************************************)
(* What a query string means, said in another way than src/query.cpp says  *)
(* it: read once, from left to right, one character at a time.  Where the  *)
(* code first splits at '&' and '=' and decodes the pieces, this reader    *)
(* decodes as it goes and treats only an unescaped '&' or '=' as syntax.   *)
(***************************************************************************)
EXTENDS Query

CONSTANTS
  Characters,  \* of the query
  MaxLength    \* of the query

VARIABLES
  query,       \* what has been read
  parameters,  \* the parameters it names; the last one may be unfinished
  part,        \* "name" or "value": what the next character belongs to
  escape,      \* the characters read of an escape that is not finished
  refused      \* an error has been met

vars == <<query, parameters, part, escape, refused>>

Init ==
  /\ query = <<>>
  /\ parameters = <<>>
  /\ part = "name"
  /\ escape = <<>>
  /\ refused = FALSE

\* The current parameter, with c added to its name or value.
Extended(p, c) ==
  IF part = "name" THEN Parameter(Append(p[1], c), p[2]) ELSE Parameter(p[1], Append(p[2], c))

Begun == IF parameters = <<>> THEN <<Parameter(<<>>, <<>>)>> ELSE parameters

Add(c) == parameters' = [Begun EXCEPT ![Len(Begun)] = Extended(@, c)]

Refuse == refused' = TRUE /\ UNCHANGED <<parameters, part, escape>>

ReadEscaped(c) ==
  IF HexValue(c) < 0 THEN Refuse
  ELSE IF Len(escape) = 1
       THEN escape' = Append(escape, c) /\ UNCHANGED <<parameters, part, refused>>
       ELSE /\ Add(16 * HexValue(escape[2]) + HexValue(c))
            /\ escape' = <<>>
            /\ UNCHANGED <<part, refused>>

Read(c) ==
  CASE escape # <<>> -> ReadEscaped(c)
    [] escape = <<>> /\ c = Percent ->
         escape' = <<c>> /\ parameters' = Begun /\ UNCHANGED <<part, refused>>
    [] escape = <<>> /\ c = Equals /\ part = "name" ->
         part' = "value" /\ parameters' = Begun /\ UNCHANGED <<escape, refused>>
    [] escape = <<>> /\ c = Ampersand ->
         IF part = "name" THEN Refuse
         ELSE /\ part' = "name"
              /\ parameters' = Append(parameters, Parameter(<<>>, <<>>))
              /\ UNCHANGED <<escape, refused>>
    [] OTHER -> Add(c) /\ UNCHANGED <<part, escape, refused>>

ReadNext ==
  /\ Len(query) < MaxLength
  /\ \E c \in Characters :
       /\ query' = Append(query, c)
       /\ IF refused THEN UNCHANGED <<parameters, part, escape, refused>> ELSE Read(c)

Ended == Len(query) = MaxLength /\ UNCHANGED vars

Next == ReadNext \/ Ended

Spec == Init /\ [][Next]_vars

-----------------------------------------------------------------------------
\* parse_query returns the parameters the query names, in order, with escapes
\* decoded once and never taken for syntax; it refuses a query exactly when a
\* parameter is empty or has no '=', or an escape is cut short or not
\* hexadecimal, wherever in the text that is.
ParseQueryReadsGrammar ==
  ParseQuery(query) =
    IF query = <<>> THEN <<>>
    ELSE IF refused \/ escape # <<>> \/ part = "name" THEN QueryError
    ELSE parameters

=============================================================================
