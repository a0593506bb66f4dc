---------------------------- MODULE ContentLength ----------------------------
(***************************************************************************)
(* How determine_body_length (src/request_parser.cpp) reads the value of   *)
(* the one Content-Length header: character by character, in a size_t of   *)
(* WordSize values.  RequestHead takes the number it finds as given.       *)
(***************************************************************************)
EXTENDS Integers

CONSTANTS
  MaxBodyBytes,  \* Limits::max_body_bytes
  WordSize,      \* 2 to the width of size_t
  MaxDigits      \* longest text considered

ASSUME WordAssumption ==
  /\ MaxBodyBytes \in Nat
  /\ WordSize \in Nat /\ 10 * MaxBodyBytes + 9 < WordSize
  /\ MaxDigits \in Nat

VARIABLES
  value,     \* value
  tooLarge,  \* too_large
  length,    \* characters read
  exact,     \* the number they denote
  outcome    \* "reading", or the result: "ok", "400" or "413"

vars == <<value, tooLarge, length, exact, outcome>>

Init ==
  /\ value = 0
  /\ tooLarge = FALSE
  /\ length = 0
  /\ exact = 0
  /\ outcome = "reading"

\* Mutant: every digit is added, the limit is tested on the result.
AccumulateAlways(d) ==
  /\ value' = (value * 10 + d) % WordSize
  /\ tooLarge' = (value' > MaxBodyBytes)

Accumulate(d) ==
  IF tooLarge THEN UNCHANGED <<value, tooLarge>>
  ELSE /\ value' = (value * 10 + d) % WordSize
       /\ tooLarge' = (value' > MaxBodyBytes)

ReadDigit ==
  /\ outcome = "reading"
  /\ length < MaxDigits
  /\ \E d \in 0 .. 9 : Accumulate(d) /\ exact' = 10 * exact + d
  /\ length' = length + 1
  /\ UNCHANGED outcome

ReadOther ==
  /\ outcome = "reading"
  /\ length < MaxDigits
  /\ outcome' = "400"
  /\ length' = length + 1
  /\ UNCHANGED <<value, tooLarge, exact>>

\* The end of the text, which may be empty
ReadEnd ==
  /\ outcome = "reading"
  /\ outcome' = IF length = 0 THEN "400" ELSE IF tooLarge THEN "413" ELSE "ok"
  /\ UNCHANGED <<value, tooLarge, length, exact>>

Finished == outcome # "reading" /\ UNCHANGED vars

Next == ReadDigit \/ ReadOther \/ ReadEnd \/ Finished

Spec == Init /\ [][Next]_vars

-----------------------------------------------------------------------------
\* The body length is the number written, or the request is refused with 413
\* because that number exceeds the limit: no text, however long, makes the
\* accumulation in determine_body_length wrap around to a length that passes.
LengthIsExact ==
  /\ outcome = "ok" => value = exact /\ exact <= MaxBodyBytes
  /\ outcome = "413" => exact > MaxBodyBytes

\* What makes it so: the accumulation is exact until the limit is passed.
Inv ==
  /\ value \in Nat /\ exact \in Nat /\ length \in Nat
  /\ tooLarge \in BOOLEAN
  /\ outcome \in {"reading", "ok", "400", "413"}
  /\ tooLarge => exact > MaxBodyBytes
  /\ ~ tooLarge => value = exact /\ exact <= MaxBodyBytes
  /\ outcome = "ok" => ~ tooLarge
  /\ outcome = "413" => tooLarge

=============================================================================
