---------------------------- MODULE NumbersProofs ----------------------------
(***************************************************************************)
(* Numbers, for every width of a machine word: the value of a              *)
(* Content-Length is read exactly whatever the limit and the text, and the *)
(* calculator returns the exact result or an error.                        *)
(***************************************************************************)
EXTENDS ContentLength, Calculations, TLAPS

-----------------------------------------------------------------------------
(* Content-Length *)

\* One digit: below the limit the product does not reach the word size.
LEMMA AccumulateKeepsInv ==
  ASSUME Inv, NEW d \in 0 .. 9, Accumulate(d), exact' = 10 * exact + d,
         length' \in Nat, outcome = "reading", outcome' = outcome
  PROVE  Inv'
<1> USE WordAssumption DEF WordAssumption
<1>1. CASE tooLarge
  BY <1>1 DEF Inv, Accumulate
<1>2. CASE ~ tooLarge
  <2>1. value = exact /\ exact <= MaxBodyBytes
    BY <1>2 DEF Inv
  <2>2. value * 10 + d \in 0 .. WordSize - 1
    BY <2>1 DEF Inv
  <2>3. value' = value * 10 + d
    BY <1>2, <2>2 DEF Inv, Accumulate
  <2>4. tooLarge' = (value' > MaxBodyBytes)
    BY <1>2 DEF Accumulate
  <2>5. value' = exact' /\ exact' \in Nat
    BY <2>1, <2>3 DEF Inv
  <2>6. tooLarge' \in BOOLEAN
    BY <2>4, <2>5
  <2>7. CASE value' > MaxBodyBytes
    BY <2>4, <2>5, <2>6, <2>7 DEF Inv
  <2>8. CASE ~ (value' > MaxBodyBytes)
    <3>1. ~ tooLarge'
      BY <2>4, <2>8, Zenon
    <3>2. exact' <= MaxBodyBytes
      BY <2>5, <2>8
    <3>. QED
      BY <2>5, <2>6, <3>1, <3>2 DEF Inv
  <2>. QED
    BY <2>7, <2>8
<1>. QED
  BY <1>1, <1>2

LEMMA StepKeepsInv == Inv /\ [Next]_vars => Inv'
<1> SUFFICES ASSUME Inv, [Next]_vars PROVE Inv'
  OBVIOUS
<1>1. CASE ReadDigit
  <2>1. PICK d \in 0 .. 9 : Accumulate(d) /\ exact' = 10 * exact + d
    BY <1>1 DEF ReadDigit
  <2>2. length' \in Nat /\ outcome = "reading" /\ outcome' = outcome
    BY <1>1 DEF ReadDigit, Inv
  <2>. QED
    BY <2>1, <2>2, AccumulateKeepsInv
<1>2. CASE ReadOther
  BY <1>2 DEF ReadOther, Inv
<1>3. CASE ReadEnd
  BY <1>3 DEF ReadEnd, Inv
<1>4. CASE UNCHANGED vars
  BY <1>4 DEF vars, Inv
<1>. QED
  BY <1>1, <1>2, <1>3, <1>4 DEF Next, Finished

\* determine_body_length accepts exactly the numbers within the limit and
\* reads them without wrapping around, whatever the limit and the text, if
\* ten times the limit fits a size_t.
THEOREM LengthReadExactly == Spec => []LengthIsExact
<1>1. Init => Inv
  <2> SUFFICES ASSUME Init PROVE Inv
    OBVIOUS
  <2>1. ~ tooLarge /\ tooLarge \in BOOLEAN
    BY Zenon DEF Init
  <2>2. value = 0 /\ exact = 0 /\ length = 0 /\ outcome = "reading"
    BY DEF Init
  <2>3. 0 <= MaxBodyBytes
    BY WordAssumption DEF WordAssumption
  <2>. QED
    BY <2>1, <2>2, <2>3 DEF Inv
<1>2. Inv => LengthIsExact
  BY DEF Inv, LengthIsExact
<1>. QED
  BY <1>1, <1>2, StepKeepsInv, PTL DEF Spec

-----------------------------------------------------------------------------
(* calculate: results that fit a word *)

\* MinInt is one further from zero than MaxInt.
LEMMA WordRange ==
  /\ MaxInt \in Nat /\ 1 <= MaxInt /\ MinInt = - MaxInt - 1
  /\ \A v \in Int : v \in Words <=> - MaxInt - 1 <= v /\ v <= MaxInt
BY MaxIntAssumption DEF MaxIntAssumption, MinInt, Words

\* Wrapping around leaves exactly the words as they are.
LEMMA WrapIs ==
  ASSUME NEW v \in Int
  PROVE  Wrap(v) \in Words /\ (Wrap(v) = v <=> v \in Words)
<1> DEFINE k == 2 * (MaxInt + 1)
<1>1. k \in Nat /\ k > 0 /\ MinInt \in Int /\ v - MinInt \in Int
  BY WordRange
<1>2. (v - MinInt) % k \in 0 .. k - 1
  BY <1>1
<1>3. Wrap(v) = ((v - MinInt) % k) + MinInt
  BY DEF Wrap
<1>4. v - MinInt \in 0 .. k - 1 => (v - MinInt) % k = v - MinInt
  BY <1>1
<1>5. Wrap(v) \in Words
  BY <1>2, <1>3, WordRange
<1>6. v \in Words => v - MinInt \in 0 .. k - 1
  BY WordRange
<1>7. v \in Words => Wrap(v) = v
  <2> HIDE DEF k
  <2> QED
    BY <1>1, <1>3, <1>4, <1>6
<1> QED
  BY <1>5, <1>7

\* __builtin_*_overflow reports exactly the results that are not words.
LEMMA CheckedIs ==
  ASSUME NEW v \in Int
  PROVE  Checked(v) = IF v \in Words THEN [ok |-> TRUE, value |-> v, error |-> "none"]
                                    ELSE Failed("overflow")
BY WrapIs, Zenon DEF Checked

\* Division of numbers that are not negative.
LEMMA Division ==
  ASSUME NEW m \in Nat, NEW n \in Nat, n > 0
  PROVE  /\ m \div n \in Nat /\ n * (m \div n) <= m /\ m < n * (m \div n) + n
         /\ m \div n <= m /\ (n >= 2 => 2 * (m \div n) <= m)
         /\ \A p \in Int : n * p <= m /\ m < n * p + n <=> p = m \div n
<1> DEFINE q == m \div n
<1>1. q \in Int /\ n * q \in Int /\ n * q <= m /\ m < n * q + n
  OBVIOUS
<1> HIDE DEF q
<1>2. ASSUME NEW p \in Int, NEW o \in Int, p < o PROVE n * p + n <= n * o
  <2>1. o - p - 1 \in Nat
    BY <1>2
  <2>2. n * (o - p - 1) \in Nat /\ n * (o - p - 1) = n * o - n * p - n
    BY <2>1
  <2> QED
    BY <2>2
<1>3. q >= 0
  <2>1. q < 0 => n * q + n <= n * 0
    BY <1>1, <1>2
  <2> QED
    BY <1>1, <2>1
<1>4. \A p \in Int : n * p <= m /\ m < n * p + n => p = q
  <2> SUFFICES ASSUME NEW p \in Int, n * p <= m, m < n * p + n PROVE p = q
    OBVIOUS
  <2>1. n * p \in Int
    OBVIOUS
  <2>2. (p < q => n * p + n <= n * q) /\ (q < p => n * q + n <= n * p)
    BY <1>1, <1>2
  <2> QED
    BY <1>1, <2>1, <2>2
<1>5. q <= n * q /\ (n >= 2 => 2 * q <= n * q)
  <2>1. (n - 1) * q \in Nat /\ (n - 1) * q = n * q - q
    BY <1>1, <1>3
  <2>2. n >= 2 => (n - 2) * q \in Nat /\ (n - 2) * q = n * q - 2 * q
    BY <1>1, <1>3
  <2> QED
    BY <1>1, <2>1, <2>2
<1> QED
  BY <1>1, <1>3, <1>4, <1>5 DEF q

\* C++ division: the remainder is smaller than the divisor and has the sign of
\* the dividend, and no other quotient leaves such a remainder.
LEMMA QuotientIs ==
  ASSUME NEW a \in Int, NEW b \in Int, b # 0
  PROVE  /\ Quotient(a, b) \in Int
         /\ \A v \in Int : IsResult("Divide", a, b, v) <=> v = Quotient(a, b)
<1> DEFINE m == Abs(a)
<1> DEFINE n == Abs(b)
<1> DEFINE q == m \div n
<1>1. /\ m \in Nat /\ n \in Nat /\ n > 0 /\ (a < 0 => m = - a) /\ (~ a < 0 => m = a)
      /\ (b < 0 => n = - b) /\ (~ b < 0 => n = b)
  BY DEF Abs
<1>2. Quotient(a, b) = IF (a < 0) = (b < 0) THEN q ELSE - q
  BY DEF Quotient
<1> HIDE DEF m, n
<1>3. q \in Nat /\ \A p \in Int : n * p <= m /\ m < n * p + n <=> p = q
  BY <1>1, Division
<1> HIDE DEF q
<1>4. ASSUME NEW v \in Int
      PROVE  IsResult("Divide", a, b, v) <=> v = Quotient(a, b)
  <2> DEFINE r == a - b * v
  <2>1. IsResult("Divide", a, b, v) <=> Abs(r) < n /\ (r = 0 \/ (r < 0) = (a < 0))
    BY DEF IsResult, n
  <2>2. r \in Int /\ Abs(r) = IF r < 0 THEN - r ELSE r
    BY DEF Abs
  <2>3. CASE ~ a < 0 /\ ~ b < 0
    <3>1. Quotient(a, b) = q
      BY <1>2, <2>3
    <3>2. r = m - n * v /\ n * v \in Int
      BY <1>1, <2>3
    <3> HIDE DEF r
    <3>3. Abs(r) < n /\ (r = 0 \/ (r < 0) = (a < 0)) <=> n * v <= m /\ m < n * v + n
      BY <1>1, <2>2, <2>3, <3>2
    <3> QED
      BY <1>3, <2>1, <3>1, <3>3
  <2>4. CASE a < 0 /\ b < 0
    <3>1. Quotient(a, b) = q
      BY <1>2, <2>4
    <3>2. r = n * v - m /\ n * v \in Int
      BY <1>1, <2>4
    <3> HIDE DEF r
    <3>3. Abs(r) < n /\ (r = 0 \/ (r < 0) = (a < 0)) <=> n * v <= m /\ m < n * v + n
      BY <1>1, <2>2, <2>4, <3>2
    <3> QED
      BY <1>3, <2>1, <3>1, <3>3
  <2>5. CASE ~ a < 0 /\ b < 0
    <3>1. Quotient(a, b) = - q
      BY <1>2, <2>5
    <3>2. r = m - n * (- v) /\ n * (- v) \in Int /\ - v \in Int
      BY <1>1, <2>5
    <3> HIDE DEF r
    <3>3. Abs(r) < n /\ (r = 0 \/ (r < 0) = (a < 0)) <=> n * (- v) <= m /\ m < n * (- v) + n
      BY <1>1, <2>2, <2>5, <3>2
    <3>4. - v = q <=> v = - q
      BY <1>3
    <3> QED
      BY <1>3, <2>1, <3>1, <3>2, <3>3, <3>4
  <2>6. CASE a < 0 /\ ~ b < 0
    <3>1. Quotient(a, b) = - q
      BY <1>2, <2>6
    <3>2. r = n * (- v) - m /\ n * (- v) \in Int /\ - v \in Int
      BY <1>1, <2>6
    <3> HIDE DEF r
    <3>3. Abs(r) < n /\ (r = 0 \/ (r < 0) = (a < 0)) <=> n * (- v) <= m /\ m < n * (- v) + n
      BY <1>1, <2>2, <2>6, <3>2
    <3>4. - v = q <=> v = - q
      BY <1>3
    <3> QED
      BY <1>3, <2>1, <3>1, <3>2, <3>3, <3>4
  <2> QED
    BY <2>3, <2>4, <2>5, <2>6
<1>5. Quotient(a, b) \in Int
  BY <1>2, <1>3
<1> QED
  BY <1>4, <1>5

\* The quotient of two words is a word, but for MinInt / -1.
LEMMA QuotientFits ==
  ASSUME NEW a \in Words, NEW b \in Words, b # 0
  PROVE  Quotient(a, b) \in Words <=> ~ (a = MinInt /\ b = -1)
<1> DEFINE m == Abs(a)
<1> DEFINE n == Abs(b)
<1> DEFINE q == m \div n
<1>1. a \in Int /\ b \in Int /\ - MaxInt - 1 <= a /\ a <= MaxInt /\ MaxInt \in Nat /\ 1 <= MaxInt
  BY WordRange DEF Words
<1>2. /\ m \in Nat /\ n \in Nat /\ n > 0 /\ m <= MaxInt + 1 /\ (~ a < 0 => m <= MaxInt)
      /\ (m = MaxInt + 1 => a = MinInt) /\ (n = 1 /\ b < 0 => b = -1)
  BY <1>1, WordRange DEF Abs
<1>3. Quotient(a, b) = IF (a < 0) = (b < 0) THEN q ELSE - q
  BY DEF Quotient
<1>4. a = MinInt /\ b = -1 => m = MaxInt + 1 /\ n = 1 /\ a < 0 /\ b < 0
  <2>1. a = - MaxInt - 1 => a < 0 /\ Abs(a) = MaxInt + 1
    BY <1>1 DEF Abs
  <2>2. b = -1 => b + 1 = 0
    OBVIOUS
  <2>3. b + 1 = 0 => b < 0 /\ Abs(b) = 1
    BY <1>1 DEF Abs
  <2> QED
    BY <2>1, <2>2, <2>3, WordRange, Zenon
<1> HIDE DEF m, n
<1>5. q \in Nat /\ q <= m /\ (n >= 2 => 2 * q <= m) /\ (n = 1 => q = m)
  <2>1. q \in Nat /\ q <= m /\ (n >= 2 => 2 * q <= m) /\ n * q <= m /\ m < n * q + n
    BY <1>2, Division
  <2> HIDE DEF q
  <2> QED
    BY <1>2, <2>1
<1> HIDE DEF q
<1>6. CASE a = MinInt /\ b = -1
  <2>1. Quotient(a, b) = MaxInt + 1
    BY <1>3, <1>4, <1>5, <1>6
  <2> QED
    BY <1>1, <1>6, <2>1, WordRange
<1>7. CASE ~ (a = MinInt /\ b = -1)
  <2>1. CASE (a < 0) = (b < 0)
    <3>1. q <= MaxInt
      BY <1>1, <1>2, <1>5, <1>7, <2>1
    <3> QED
      BY <1>1, <1>3, <1>5, <1>7, <2>1, <3>1, WordRange
  <2>2. CASE ~ ((a < 0) = (b < 0))
    BY <1>1, <1>2, <1>3, <1>5, <1>7, <2>2, WordRange
  <2> QED
    BY <2>1, <2>2
<1> QED
  BY <1>6, <1>7

\* What a result must be for the call to be exact.
ExactFor(results, c) ==
  IF c.ok THEN results = {c.value} ELSE results = {} /\ c.value = 0

\* A failure is exact when no word is the result.
LEMMA FailedExact ==
  ASSUME NEW results, NEW error, results = {}
  PROVE  ExactFor(results, Failed(error))
<1>1. ~ Failed(error).ok /\ Failed(error).value = 0
  BY Zenon DEF Failed
<1> QED
  BY <1>1, Zenon DEF ExactFor

\* A value is exact when it is the one word that is the result.
LEMMA ValueExact ==
  ASSUME NEW results, NEW v, results = {v}
  PROVE  ExactFor(results, [ok |-> TRUE, value |-> v, error |-> "none"])
<1> DEFINE c == [ok |-> TRUE, value |-> v, error |-> "none"]
<1>1. c.ok /\ c.value = v
  BY Zenon
<1> HIDE DEF c
<1>2. ExactFor(results, c)
  BY <1>1, Zenon DEF ExactFor
<1> QED
  BY <1>2 DEF c

\* A sum, difference or product is reported when it is a word.
LEMMA CheckedExact ==
  ASSUME NEW x \in Int, NEW results, \A v : v \in results <=> v \in Words /\ v = x
  PROVE  ExactFor(results, Checked(x))
<1>1. CASE x \in Words
  <2>1. results = {x}
    BY <1>1, Zenon
  <2>2. Checked(x) = [ok |-> TRUE, value |-> x, error |-> "none"]
    BY <1>1, CheckedIs, Zenon
  <2> QED
    BY <2>1, <2>2, ValueExact, Zenon
<1>2. CASE x \notin Words
  <2>1. results = {}
    BY <1>2, Zenon
  <2>2. Checked(x) = Failed("overflow")
    BY <1>2, CheckedIs, Zenon
  <2> QED
    BY <2>1, <2>2, FailedExact, Zenon
<1> QED
  BY <1>1, <1>2

\* calculate, for every operation and every two words.
LEMMA CalculateExact ==
  ASSUME NEW operation \in Operations, NEW a \in Words, NEW b \in Words
  PROVE  ExactFor({v \in Words : IsResult(operation, a, b, v)}, Calculate(operation, a, b))
<1> DEFINE results == {v \in Words : IsResult(operation, a, b, v)}
<1>1. a \in Int /\ b \in Int /\ Words \subseteq Int
  BY WordRange DEF Words
<1>2. a + b \in Int /\ a - b \in Int /\ a * b \in Int
  BY <1>1
<1>3. CASE operation = "Add"
  <2>1. Calculate(operation, a, b) = Checked(a + b)
    BY <1>3 DEF Calculate
  <2>2. \A v : v \in results <=> v \in Words /\ v = a + b
    BY <1>3 DEF IsResult
  <2> QED
    BY <1>2, <2>1, <2>2, CheckedExact, Zenon
<1>4. CASE operation = "Subtract"
  <2>1. Calculate(operation, a, b) = Checked(a - b)
    BY <1>4 DEF Calculate
  <2>2. \A v \in Words : a = v + b <=> v = a - b
    BY <1>1
  <2>3. \A v : v \in results <=> v \in Words /\ v = a - b
    BY <1>4, <2>2 DEF IsResult
  <2> QED
    BY <1>2, <2>1, <2>3, CheckedExact, Zenon
<1>5. CASE operation = "Multiply"
  <2>1. Calculate(operation, a, b) = Checked(a * b)
    BY <1>5 DEF Calculate
  <2>2. \A v : v \in results <=> v \in Words /\ v = a * b
    BY <1>5 DEF IsResult
  <2> QED
    BY <1>2, <2>1, <2>2, CheckedExact, Zenon
<1>6. CASE operation = "Divide" /\ b = 0
  <2>1. Calculate(operation, a, b) = Failed("division by zero")
    BY <1>6 DEF Calculate
  <2>2. ASSUME NEW v \in Words PROVE ~ IsResult("Divide", a, b, v)
    <3>1. v \in Int
      BY <1>1
    <3>2. a - b * v = a
      BY <1>1, <1>6, <3>1
    <3>3. ~ Abs(a) < Abs(b)
      BY <1>1, <1>6 DEF Abs
    <3>4. IsResult("Divide", a, b, v) => Abs(a - b * v) < Abs(b)
      BY DEF IsResult
    <3> QED
      BY <3>2, <3>3, <3>4, Zenon
  <2>3. results = {}
    BY <1>6, <2>2, Zenon
  <2> QED
    BY <2>1, <2>3, FailedExact, Zenon
<1>7. CASE operation = "Divide" /\ b # 0
  <2>1. Quotient(a, b) \in Int /\ \A v : v \in results <=> v \in Words /\ v = Quotient(a, b)
    BY <1>1, <1>7, QuotientIs, Zenon
  <2>2. CASE a = MinInt /\ b = -1
    <3>1. Calculate(operation, a, b) = Failed("overflow")
      BY <1>7, <2>2 DEF Calculate
    <3>2. results = {}
      BY <1>7, <2>1, <2>2, QuotientFits, Zenon
    <3> QED
      BY <3>1, <3>2, FailedExact, Zenon
  <2>3. CASE ~ (a = MinInt /\ b = -1)
    <3>1. Quotient(a, b) \in Words
      BY <1>7, <2>3, QuotientFits, Zenon
    <3>2. Wrap(Quotient(a, b)) = Quotient(a, b)
      BY <2>1, <3>1, WrapIs, Zenon
    <3>3. Calculate(operation, a, b) =
            [ok |-> TRUE, value |-> Wrap(Quotient(a, b)), error |-> "none"]
      BY <1>7, <2>3 DEF Calculate
    <3>4. results = {Quotient(a, b)}
      BY <2>1, <3>1, Zenon
    <3> QED
      BY <3>2, <3>3, <3>4, ValueExact, Zenon
  <2> QED
    BY <2>2, <2>3
<1> QED
  BY <1>3, <1>4, <1>5, <1>6, <1>7 DEF Operations

\* A finished call holds its operands and what the function made of them.
CallInv ==
  \/ call = NoCall
  \/ \E text : call = [function |-> "parse_int64", text |-> text]
  \/ \E operation \in Operations, a, b \in Words :
       /\ call = [function |-> "calculate", operation |-> operation, a |-> a, b |-> b]
       /\ result = Calculate(operation, a, b)

LEMMA CallInvExact ==
  ASSUME CallInv
  PROVE  CalculationExact
<1>1. CASE call = NoCall
  <2>1. call.function # "calculate"
    BY <1>1 DEF NoCall
  <2> QED
    BY <2>1, Zenon DEF CalculationExact
<1>2. CASE \E text : call = [function |-> "parse_int64", text |-> text]
  <2>1. call.function # "calculate"
    BY <1>2
  <2> QED
    BY <2>1, Zenon DEF CalculationExact
<1>3. ASSUME NEW operation \in Operations, NEW a \in Words, NEW b \in Words,
             call = [function |-> "calculate", operation |-> operation, a |-> a, b |-> b],
             result = Calculate(operation, a, b)
      PROVE  CalculationExact
  <2>1. call.operation = operation /\ call.a = a /\ call.b = b
    BY <1>3
  <2>2. ExactFor({v \in Words : IsResult(operation, a, b, v)}, result)
    BY <1>3, CalculateExact, Zenon
  <2>3. ExactFor({v \in Words : IsResult(call.operation, call.a, call.b, v)}, result)
    BY <2>1, <2>2, Zenon
  <2> QED
    BY <2>3, Zenon DEF CalculationExact, ExactFor
<1> QED
  BY <1>1, <1>2, <1>3, Zenon DEF CallInv

\* calculate, for every two words of any width: it succeeds exactly when the
\* integer result fits, and then returns it; MinInt / -1 and a division by
\* zero are its only failing divisions, and no error leaves a value behind.
THEOREM CalculatorIsExact == CallSpec => []CalculationExact
<1>1. CallInit => CallInv
  BY Zenon DEF CallInit, CallInv
<1>2. CallInv /\ [CallNext]_calling => CallInv'
  <2> SUFFICES ASSUME CallInv, [CallNext]_calling PROVE CallInv'
    OBVIOUS
  <2>1. CASE CallParse
    BY <2>1, Zenon DEF CallParse, CallInv
  <2>2. CASE CallCalculate
    BY <2>2, Zenon DEF CallCalculate, CallInv
  <2>3. CASE call' = call /\ result' = result
    BY <2>3, Zenon DEF CallInv
  <2> QED
    BY <2>1, <2>2, <2>3, Zenon DEF CallNext, Returned, calling
<1>3. CallInv => CalculationExact
  BY CallInvExact
<1> QED
  BY <1>1, <1>2, <1>3, PTL DEF CallSpec

=============================================================================
