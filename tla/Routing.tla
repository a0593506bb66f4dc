------------------------------- MODULE Routing -------------------------------
(***************************************************************************)
(* One call of handle_request (src/router.cpp), with any request, against  *)
(* the table of checks in include/calc/router.hpp.                         *)
(***************************************************************************)
EXTENDS Router

CONSTANTS
  HostLists,   \* lists of the values of Host headers
  Methods,
  Paths,
  Names, Values,  \* texts of the query's parameters
  MaxParameters   \* at most so many of them

VARIABLES request, response

vars == <<request, response>>

\* name=value&name=value...
QueryText(parameters) ==
  LET texts == [i \in DOMAIN parameters |->
                  (IF i = 1 THEN <<>> ELSE <<Ampersand>>)
                    \o parameters[i][1] \o <<Equals>> \o parameters[i][2]]
  IN  FlattenSeq(texts)

HostHeaders(values) == [i \in DOMAIN values |-> [name |-> "Host", value |-> values[i]]]

Requests ==
  {[version |-> v, method |-> m, headers |-> HostHeaders(h),
    target |-> p \o <<QuestionMark>> \o QueryText(q)] :
     v \in {"1.0", "1.1"}, m \in Methods, h \in HostLists, p \in Paths,
     q \in BoundedSeq(Names \X Values, MaxParameters)}

NoResponse == Refuse(0)

Init == request \in Requests /\ response = NoResponse

Handle ==
  /\ response = NoResponse
  /\ response' = HandleRequest(request)
  /\ UNCHANGED request

Handled == response # NoResponse /\ UNCHANGED vars

Next == Handle \/ Handled

Spec == Init /\ [][Next]_vars

-----------------------------------------------------------------------------
(* The checks of router.hpp, each on its own *)

HostCheck ==
  LET hosts == ValuesOf(request, "Host")
  IN  \/ Len(hosts) = 1 /\ IsValidHost(hosts[1])
      \/ Len(hosts) = 0 /\ request.version = "1.0"

PathCheck == OperationFromPath(Path(request)) # "none"

MethodCheck == request.method = Get

\* The words that parameters of this name denote
WordsOf(parsed, name) ==
  LET read == {ParseInt64(parsed[i][2]) : i \in {i \in DOMAIN parsed : parsed[i][1] = name}}
  IN  {r.value : r \in {r \in read : r.status = "Ok"}}

\* The exact results, in range, of a query with the parameters a and b only: one
\* or none.  The sequence QueryError has one element.
Results(parsed) ==
  IF Len(parsed) # 2 THEN {}
  ELSE {v \in Words : \E a \in WordsOf(parsed, <<97>>), b \in WordsOf(parsed, <<98>>) :
                        IsResult(OperationFromPath(Path(request)), a, b, v)}

\* The status by the first check that fails, and what goes with it
Follows(results) ==
  /\ response.status = CASE ~ HostCheck -> 400
                         [] HostCheck /\ ~ PathCheck -> 404
                         [] HostCheck /\ PathCheck /\ ~ MethodCheck -> 405
                         [] OTHER -> IF results = {} THEN 400 ELSE 200
  /\ response.status = 200 =>
       \E v \in results : results = {v} /\ response.body = ToDecimal(v) \o <<10>>
  /\ response.status = 405 <=> response.allow = Get

\* "Checks are applied in this order, and the first failure decides the status"
\* (router.hpp), whichever checks fail besides; a request that passes them all,
\* with exactly the parameters a and b, is answered with the exact result, in
\* decimal.  Only a 405 lists the allowed methods.
FirstFailureDecides ==
  response # NoResponse => Follows(Results(ParseQuery(QueryOf(request))))

=============================================================================
