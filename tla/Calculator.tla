----------------------------- MODULE Calculator -----------------------------
(***************************************************************************)
(* src/calculator.cpp: operands are read, calculated with and written in   *)
(* decimal, in two's complement words of MinInt .. MaxInt.                 *)
(*                                                                         *)
(* Characters are their ASCII codes, so a text is a sequence of numbers.   *)
(***************************************************************************)
EXTENDS Integers, Sequences, SequencesExt

CONSTANT MaxInt   \* std::numeric_limits<std::int64_t>::max()

ASSUME MaxIntAssumption == MaxInt \in Nat \ {0}

MinInt == - MaxInt - 1

Words == MinInt .. MaxInt

Minus == 45
Digit == 48 .. 57

Operations == {"Add", "Subtract", "Multiply", "Divide"}

OperationFromPath(path) ==
  CASE path = <<47, 97, 100, 100>>  -> "Add"        \* /add
    [] path = <<47, 115, 117, 98>>  -> "Subtract"   \* /sub
    [] path = <<47, 109, 117, 108>> -> "Multiply"   \* /mul
    [] path = <<47, 100, 105, 118>> -> "Divide"     \* /div
    [] OTHER                        -> "none"

-----------------------------------------------------------------------------
(* Texts *)

\* std::from_chars on -?[0-9]+, before it looks at the range
FromChars(text) ==
  LET DigitOf(c) == c - 48
      magnitude == FoldLeft(LAMBDA n, c : IF c = Minus THEN n ELSE 10 * n + DigitOf(c), 0, text)
  IN  IF Head(text) = Minus THEN - magnitude ELSE magnitude

\* Mutant: the range is tested on the magnitude.
ParseInt64Magnitude(text) ==
  LET digits == IF text # <<>> /\ Head(text) = Minus THEN Tail(text) ELSE text
  IN  IF text = <<>> THEN [status |-> "Empty", value |-> 0]
      ELSE IF digits = <<>> \/ ~ ToSet(digits) \subseteq Digit
           THEN [status |-> "NotAnInteger", value |-> 0]
      ELSE IF FromChars(digits) > MaxInt THEN [status |-> "OutOfRange", value |-> 0]
      ELSE [status |-> "Ok", value |-> FromChars(text)]

\* The value is meaningful only with status Ok.
ParseInt64(text) ==
  LET digits == IF text # <<>> /\ Head(text) = Minus THEN Tail(text) ELSE text
  IN  IF text = <<>> THEN [status |-> "Empty", value |-> 0]
      ELSE IF digits = <<>> \/ ~ ToSet(digits) \subseteq Digit
           THEN [status |-> "NotAnInteger", value |-> 0]
      ELSE IF FromChars(text) \notin Words THEN [status |-> "OutOfRange", value |-> 0]
      ELSE [status |-> "Ok", value |-> FromChars(text)]

\* std::to_string
ToDecimal(v) ==
  LET Decimal[n \in Nat] ==
        IF n < 10 THEN <<48 + n>> ELSE Append(Decimal[n \div 10], 48 + (n % 10))
  IN  IF v < 0 THEN <<Minus>> \o Decimal[- v] ELSE Decimal[v]

-----------------------------------------------------------------------------
(* Arithmetic *)

\* A word as the processor leaves it: the residue that fits.
Wrap(v) == ((v - MinInt) % (2 * (MaxInt + 1))) + MinInt

Abs(v) == IF v < 0 THEN - v ELSE v

\* a / b in C++: toward zero
Quotient(a, b) == IF (a < 0) = (b < 0) THEN Abs(a) \div Abs(b) ELSE - (Abs(a) \div Abs(b))

Failed(error) == [ok |-> FALSE, value |-> 0, error |-> error]

\* __builtin_*_overflow: the wrapped result, and whether it differs.
Checked(v) ==
  IF Wrap(v) # v THEN Failed("overflow") ELSE [ok |-> TRUE, value |-> Wrap(v), error |-> "none"]

\* Mutant: the quotient is taken for one that always fits.
CalculateDividing(operation, a, b) ==
  CASE operation = "Add"      -> Checked(a + b)
    [] operation = "Subtract" -> Checked(a - b)
    [] operation = "Multiply" -> Checked(a * b)
    [] operation = "Divide"   ->
         IF b = 0 THEN Failed("division by zero")
         ELSE [ok |-> TRUE, value |-> Wrap(Quotient(a, b)), error |-> "none"]

Calculate(operation, a, b) ==
  CASE operation = "Add"      -> Checked(a + b)
    [] operation = "Subtract" -> Checked(a - b)
    [] operation = "Multiply" -> Checked(a * b)
    [] operation = "Divide"   ->
         IF b = 0 THEN Failed("division by zero")
         ELSE IF a = MinInt /\ b = -1 THEN Failed("overflow")
         ELSE [ok |-> TRUE, value |-> Wrap(Quotient(a, b)), error |-> "none"]

-----------------------------------------------------------------------------
\* v is the result of the operation in the integers; a quotient leaves a
\* remainder smaller than the divisor, with the sign of the dividend.
IsResult(operation, a, b, v) ==
  CASE operation = "Add"      -> v = a + b
    [] operation = "Subtract" -> a = v + b
    [] operation = "Multiply" -> v = a * b
    [] operation = "Divide"   ->
         LET r == a - b * v IN Abs(r) < Abs(b) /\ (r = 0 \/ (r < 0) = (a < 0))

=============================================================================
