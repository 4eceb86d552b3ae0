--------------------------- MODULE SVIntArithmetic ---------------------------
(***************************************************************************)
(* Arithmetic on known numbers of any width (source/numeric/SVInt.cpp and  *)
(* SVIntHelpers.h): sums and products word by word, and division, signed   *)
(* and unsigned, which comes down to Knuth's algorithm D on half words.    *)
(*                                                                         *)
(* A number is the natural number that its bits stand for; its words, from *)
(* the lowest, are a function.  Both operands have the same width (module  *)
(* SVIntBits has the extension).                                           *)
(*                                                                         *)
(* Left out: unknown bits, division by zero, powers, and the products of   *)
(* more than seven words by Karatsuba's method.                            *)
(***************************************************************************)
EXTENDS Integers

CONSTANTS
  HalfBits,   \* 32: bits of half a word
  SumWidths   \* bound: widths of the numbers that are tried

ASSUME ArithmeticAssumption ==
  /\ HalfBits \in Nat \ {0}
  /\ SumWidths \subseteq Nat \ {0}

VARIABLES
  dividend,   \* the number an operation is called on
  operator,       \* the operation and its other operand
  answer      \* what it returns

sumVars == <<dividend, operator, answer>>

\* b to the e.
Power(b, e) ==
  LET power[k \in 0 .. e] == IF k = 0 THEN 1 ELSE b * power[k - 1] IN power[e]

half == Power(2, HalfBits)
base == half * half
WordWidth == 2 * HalfBits

WordCount(width) == (width + WordWidth - 1) \div WordWidth

\* The digits of a number in base b, from the lowest, and back.
Digits(n, count, b) == [i \in 0 .. count - 1 |-> (n \div Power(b, i)) % b]

Value(digits, count, b) ==
  LET value[k \in 0 .. count] ==
        IF k = 0 THEN 0 ELSE value[k - 1] + digits[k - 1] * Power(b, k - 1)
  IN  value[count]

\* What happens for each i of 0, ..., count - 1, or of count - 1, ..., 0.
Ascending(Step(_, _), start, count) ==
  LET acc[k \in 0 .. count] == IF k = 0 THEN start ELSE Step(acc[k - 1], k - 1)
  IN  acc[count]
Descending(Step(_, _), start, count) ==
  LET acc[k \in 0 .. count] == IF k = 0 THEN start ELSE Step(acc[k - 1], count - k)
  IN  acc[count]

\* How many digits there are up to the highest that is not zero.
ActiveDigits(n, b) == CHOOSE k \in 0 .. n : n < Power(b, k) /\ (k = 0 \/ Power(b, k - 1) <= n)

\* clearUnusedBits
Clear(width, n) == n % Power(2, width)

Sized(width, signed, n) == [width |-> width, signed |-> signed, n |-> n]

\* SVInt(bits, value, isSigned): the value is a word, which may be taken as negative.
FromWord(width, word, signed) ==
  Sized(width, signed,
          Clear(width, IF width > WordWidth /\ signed /\ word >= base \div 2
                       THEN word - base ELSE word))

IsNegative(x) == x.n >= Power(2, x.width - 1)

\* What the number means.
IntOf(x) == IF x.signed /\ IsNegative(x) THEN x.n - Power(2, x.width) ELSE x.n

-----------------------------------------------------------------------------
(* Sums and products *)

\* addGeneral, subGeneral: the sign is 1 or -1; the carry is one of the same sign.
AddGeneral(x, y, sign) ==
  LET count == WordCount(x.width)
      p     == Digits(x.n, count, base)
      q     == Digits(y.n, count, base)
      Step(acc, i) ==
        LET sum == p[i] + sign * q[i] + acc.carry
        IN  [carry |-> sum \div base, out |-> [acc.out EXCEPT ![i] = sum % base]]
  IN  Value(Ascending(Step, [carry |-> 0, out |-> p], count).out, count, base)

Plus(x, y)  == [x EXCEPT !.n = Clear(x.width, AddGeneral(x, y, 1))]
Minus(x, y) == [x EXCEPT !.n = Clear(x.width, AddGeneral(x, y, -1))]
Negated(x)  == Minus(Sized(x.width, x.signed, 0), x)

\* mul: one line of the product after the other is added to it.
Line(p, plen, q, i, dst) ==
  LET Term(acc, j) ==
        LET sum == p[j] * q[i] + acc.carry + acc.out[i + j]
        IN  [carry |-> sum \div base, out |-> [acc.out EXCEPT ![i + j] = sum % base]]
      line == Ascending(Term, [carry |-> 0, out |-> dst], plen)
  IN  [line.out EXCEPT ![i + plen] = line.carry]

Mul(p, plen, q, qlen) ==
  LET Step(dst, i) == Line(p, plen, q, i, dst)
  IN  Ascending(Step, [i \in 0 .. plen + qlen - 1 |-> 0], qlen)

\* operator*=: only as many words as the number has are kept.
Times(x, y) ==
  LET count == WordCount(x.width)
      plen  == ActiveDigits(x.n, base)
      qlen  == ActiveDigits(y.n, base)
      dst   == Mul(Digits(x.n, count, base), plen, Digits(y.n, count, base), qlen)
      kept  == IF plen + qlen >= count THEN count ELSE plen + qlen
  IN  IF plen = 0 \/ qlen = 0 THEN [x EXCEPT !.n = 0]
      ELSE [x EXCEPT !.n = Clear(x.width, Value(dst, kept, base))]

-----------------------------------------------------------------------------
(* Division *)

\* D1: both are shifted until the first digit of the divisor has its top bit.
NormalShift(digit) == CHOOSE s \in 0 .. HalfBits - 1 :
  digit * Power(2, s) \in half \div 2 .. half - 1

\* D3: a trial digit, too large by one at most.
TrialDigit(u, v, j, n) ==
  LET top  == u[j + n] * half + u[j + n - 1]
      qp   == top \div v[n - 1]
      rp   == top % v[n - 1]
      tooLarge(q, r) == q = half \/ q * v[n - 2] > half * r + u[j + n - 2]
  IN  IF ~tooLarge(qp, rp) THEN qp
      ELSE IF rp + v[n - 1] < half /\ tooLarge(qp - 1, rp + v[n - 1]) THEN qp - 2
      ELSE qp - 1

\* D4: u minus the digit times v, with what is borrowed from the next place.
Subtract(u, v, qp, j, n) ==
  LET Step(acc, i) ==
        LET p      == qp * v[i]
            subres == acc.u[j + i] - acc.borrow - (p % half)
        IN  [borrow |-> (p \div half) - (subres \div half),
             u      |-> [acc.u EXCEPT ![j + i] = subres % half]]
  IN  Ascending(Step, [borrow |-> 0, u |-> u], n)

\* D6: v is added back; the last carry is lost with the borrow.
AddBack(u, v, j, n) ==
  LET Step(acc, i) ==
        LET sum == acc.u[j + i] + v[i] + acc.carry
        IN  [carry |-> sum \div half, u |-> [acc.u EXCEPT ![j + i] = sum % half]]
      sum == Ascending(Step, [carry |-> 0, u |-> u], n)
  IN  [sum.u EXCEPT ![j + n] = (@ + sum.carry) % half]

\* Mutant: the trial digit is taken as it is.
DividePlaceTrusting(acc, v, j, n) ==
  LET qp   == TrialDigit(acc.u, v, j, n)
      diff == Subtract(acc.u, v, qp, j, n)
  IN  [u |-> [diff.u EXCEPT ![j + n] = (@ - diff.borrow) % half],
       q |-> [acc.q EXCEPT ![j] = qp]]

\* D4 to D6 for one place.
DividePlace(acc, v, j, n) ==
  LET qp    == TrialDigit(acc.u, v, j, n)
      diff  == Subtract(acc.u, v, qp, j, n)
      isNeg == diff.u[j + n] < diff.borrow
      u     == [diff.u EXCEPT ![j + n] = (@ - diff.borrow) % half]
  IN  IF isNeg THEN [u |-> AddBack(u, v, j, n), q |-> [acc.q EXCEPT ![j] = qp - 1]]
      ELSE [u |-> u, q |-> [acc.q EXCEPT ![j] = qp]]

\* knuthDiv: u has m + n digits, v has n, at least two.
KnuthDiv(x, y, m, n) ==
  LET shift == NormalShift(Digits(y, n, half)[n - 1])
      u     == Digits(x * Power(2, shift), m + n + 1, half)
      v     == Digits(y * Power(2, shift), n, half)
      Step(acc, j) == DividePlace(acc, v, j, n)
      end   == Descending(Step, [u |-> u, q |-> [i \in 0 .. m |-> 0]], m + 1)
  IN  [q |-> Value(end.q, m + 1, half), r |-> Value(end.u, n, half) \div Power(2, shift)]

\* A divisor of one digit: a sequence of ordinary divisions.
ShortDiv(x, divisor, count) ==
  LET u == Digits(x, count, half)
      Step(acc, i) ==
        LET partial == acc.rem * half + u[i]
        IN  [rem |-> partial % divisor, q |-> [acc.q EXCEPT ![i] = partial \div divisor]]
      end == Descending(Step, [rem |-> 0, q |-> u], count)
  IN  [q |-> Value(end.q, count, half), r |-> end.rem]

\* divide: empty digits are left out.  With fewer digits above than below, the
\* code works outside its scratch space: the result stands for whatever comes out.
Divide(x, y) ==
  LET n == ActiveDigits(y, half)
      m == ActiveDigits(x, half) - n
  IN  IF m < 0 THEN [q |-> 1, r |-> 0]
      ELSE IF n = 1 THEN ShortDiv(x, y, m + n) ELSE KnuthDiv(x, y, m, n)

\* buildDivideResult
Built(width, words, n, signed) ==
  IF words = 1 THEN FromWord(width, n, signed) ELSE Sized(width, signed, n)

\* operator<
Less(x, y) == IF x.signed /\ y.signed THEN IntOf(x) < IntOf(y) ELSE x.n < y.n

Udiv(x, y, signed) ==
  LET xWords == ActiveDigits(x.n, base)
      yWords == ActiveDigits(y.n, base)
  IN  IF x.width <= WordWidth THEN FromWord(x.width, x.n \div y.n, signed)
      ELSE IF xWords = 0 \/ xWords < yWords \/ Less(x, y) THEN Sized(x.width, signed, 0)
      ELSE IF xWords = 1 THEN FromWord(x.width, x.n \div y.n, signed)
      ELSE Built(x.width, xWords, Divide(x.n, y.n).q, x.signed /\ y.signed)

Urem(x, y, signed) ==
  LET xWords == ActiveDigits(x.n, base)
      yWords == ActiveDigits(y.n, base)
  IN  IF x.width <= WordWidth THEN FromWord(x.width, x.n % y.n, signed)
      ELSE IF xWords = 0 THEN Sized(x.width, signed, 0)
      ELSE IF xWords < yWords \/ Less(x, y) THEN x
      ELSE IF xWords = 1 THEN FromWord(x.width, x.n % y.n, signed)
      ELSE Built(x.width, yWords, Divide(x.n, y.n).r, x.signed /\ y.signed)

\* operator/ and operator%: on the amounts, and the sign at the end.
Quotient(x, y) ==
  IF ~(x.signed /\ y.signed) THEN Udiv(x, y, FALSE)
  ELSE CASE IsNegative(x) /\ IsNegative(y) -> Udiv(Negated(x), Negated(y), TRUE)
         [] IsNegative(x) /\ ~IsNegative(y) -> Negated(Udiv(Negated(x), y, TRUE))
         [] ~IsNegative(x) /\ IsNegative(y) -> Negated(Udiv(x, Negated(y), TRUE))
         [] OTHER -> Udiv(x, y, FALSE)

Remainder(x, y) ==
  IF ~(x.signed /\ y.signed) THEN Urem(x, y, FALSE)
  ELSE CASE IsNegative(x) /\ IsNegative(y) -> Negated(Urem(Negated(x), Negated(y), TRUE))
         [] IsNegative(x) /\ ~IsNegative(y) -> Negated(Urem(Negated(x), y, TRUE))
         [] ~IsNegative(x) /\ IsNegative(y) -> Urem(x, Negated(y), TRUE)
         [] OTHER -> Urem(x, y, FALSE)

-----------------------------------------------------------------------------
(* A number is taken up and an operation called on it *)

NoOperand == Sized(1, FALSE, 0)

SumInit == dividend = NoOperand /\ operator = [name |-> "none"] /\ answer = NoOperand

TakeNumber(width, signed) ==
  /\ operator.name = "none"
  /\ \E n \in 0 .. Power(2, width) - 1 : dividend' = Sized(width, signed, n)
  /\ operator' = [name |-> "ready"]
  /\ UNCHANGED answer

Compute(name, y, result) ==
  /\ operator.name = "ready"
  /\ operator' = [name |-> name, y |-> y]
  /\ answer' = result
  /\ UNCHANGED dividend

AddNumber(y)      == Compute("+", y, Plus(dividend, y))
SubtractNumber(y) == Compute("-", y, Minus(dividend, y))
MultiplyBy(y)     == Compute("*", y, Times(dividend, y))
DivideBy(y)       == y.n # 0 /\ Compute("/", y, Quotient(dividend, y))
RemainderBy(y)    == y.n # 0 /\ Compute("%", y, Remainder(dividend, y))

SumNext ==
  \/ \E width \in SumWidths, signed \in BOOLEAN : TakeNumber(width, signed)
  \/ \E n \in 0 .. Power(2, dividend.width) - 1 :
       LET y == Sized(dividend.width, dividend.signed, n)
       IN  AddNumber(y) \/ SubtractNumber(y) \/ MultiplyBy(y) \/ DivideBy(y) \/ RemainderBy(y)

SumSpec == SumInit /\ [][SumNext]_sumVars

-----------------------------------------------------------------------------
(* Properties *)

Magnitude(i) == IF i < 0 THEN -i ELSE i
WithSign(i, negative) == IF negative THEN -i ELSE i

\* The quotient is rounded towards zero; the remainder has the dividend's sign.
TrueQuotient(i, j)  == WithSign(Magnitude(i) \div Magnitude(j), (i < 0) # (j < 0))
TrueRemainder(i, j) == WithSign(Magnitude(i) % Magnitude(j), i < 0)

TrueResult ==
  LET i == IntOf(dividend)
      j == IntOf(operator.y)
  IN  CASE operator.name = "+" -> i + j
        [] operator.name = "-" -> i - j
        [] operator.name = "*" -> i * j
        [] operator.name = "/" -> TrueQuotient(i, j)
        [] operator.name = "%" -> TrueRemainder(i, j)

Dividing == operator.name \in {"/", "%"}

AnswerTrue == answer.n = Clear(dividend.width, TrueResult)

\* Signed numbers of several words, of which one is the least that there is, or
\* whose result is one word with its top bit: both are taken for negative.
TakenForNegative ==
  /\ dividend.signed /\ dividend.width > WordWidth
  /\ \/ Power(2, dividend.width - 1) \in {dividend.n, operator.y.n}
     \/ Magnitude(TrueResult) \in base \div 2 .. base - 1

\* Sums, differences, products, quotients and remainders are right to the last
\* bit, in any number of words, for every digit that Knuth's algorithm may guess
\* wrong.
ArithmeticRight ==
  operator.name \notin {"none", "ready"} => AnswerTrue \/ (Dividing /\ TakenForNegative)

\* Division is done on positive numbers and the sign flipped at the end, so it is
\* right for every pair of numbers.
DivisionRight == Dividing => AnswerTrue
=============================================================================
