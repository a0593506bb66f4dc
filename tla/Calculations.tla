---------------------------- MODULE Calculations ----------------------------
(***************************************************************************)
(* One call of parse_int64 or of calculate (src/calculator.cpp), with any  *)
(* argument, against what calculator.hpp says of them.                     *)
(***************************************************************************)
EXTENDS Calculator

CONSTANTS
  OperandCharacters,  \* of the texts given to parse_int64
  MaxOperand          \* characters of such a text

VARIABLES call, result

calling == <<call, result>>

NoCall == [function |-> "none"]

CallInit == call = NoCall /\ result = NoCall

CallParse ==
  /\ call = NoCall
  /\ \E text \in BoundedSeq(OperandCharacters, MaxOperand) :
       /\ call' = [function |-> "parse_int64", text |-> text]
       /\ result' = ParseInt64(text)

CallCalculate ==
  /\ call = NoCall
  /\ \E operation \in Operations, a, b \in Words :
       /\ call' = [function |-> "calculate", operation |-> operation, a |-> a, b |-> b]
       /\ result' = Calculate(operation, a, b)

Returned == call # NoCall /\ UNCHANGED calling

CallNext == CallParse \/ CallCalculate \/ Returned

CallSpec == CallInit /\ [][CallNext]_calling

-----------------------------------------------------------------------------
\* calculate succeeds exactly when the integer result fits a word, and returns
\* it: it neither wraps around nor fails, at the ends of the range, where it
\* need not.  An error leaves no value behind.
CalculationExact ==
  call.function = "calculate" =>
    LET Results == {v \in Words : IsResult(call.operation, call.a, call.b, v)}
    IN  IF result.ok THEN Results = {result.value} ELSE Results = {} /\ result.value = 0

\* The text without leading zeros and without the sign of a zero.
Canonical(text) ==
  LET signed == Head(text) = Minus
      digits == IF signed THEN Tail(text) ELSE text
      kept   == SelectInSeq(digits, LAMBDA c : c # 48)
  IN  IF kept = 0 THEN <<48>>
      ELSE (IF signed THEN <<Minus>> ELSE <<>>) \o SubSeq(digits, kept, Len(digits))

\* calculator.hpp: -?[0-9]+
IsInteger(text) ==
  text # <<>> /\ LET digits == IF Head(text) = Minus THEN Tail(text) ELSE text
                 IN  digits # <<>> /\ ToSet(digits) \subseteq Digit

\* parse_int64 accepts exactly the texts -?[0-9]+ that denote a word, leading
\* zeros and "-0" included, and reads the word whose decimal text it is: what
\* the server writes for a result, the least word included, it reads back.
ParseInvertsToString ==
  call.function = "parse_int64" =>
    LET denoted == {v \in Words : IsInteger(call.text) /\ Canonical(call.text) = ToDecimal(v)}
    IN  CASE result.status = "Ok"           -> denoted = {result.value}
          [] result.status = "OutOfRange"   -> IsInteger(call.text) /\ denoted = {}
          [] result.status = "NotAnInteger" -> call.text # <<>> /\ ~ IsInteger(call.text)
          [] result.status = "Empty"        -> call.text = <<>>

=============================================================================
