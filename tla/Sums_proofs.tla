----------------------------- MODULE Sums_proofs -----------------------------
(***************************************************************************)
(* Proofs about module SVIntArithmetic, for words of any size and numbers  *)
(* of any width: sums, differences, products, quotients and remainders are *)
(* what they should be, to the last bit.                                   *)
(*                                                                         *)
(* First powers, digits and the values of digits; then each loop of the    *)
(* code with what it keeps: the carry of a sum, a line of a product, the   *)
(* remainder of a short division, and the steps of Knuth's algorithm D.    *)
(***************************************************************************)
EXTENDS SVInt, Bits_proofs, Loops_proofs

-----------------------------------------------------------------------------
(* Powers *)

\* A power is the product of as many factors.
LEMMA PowerRuns ==
  ASSUME NEW b \in Nat, NEW n \in Nat
  PROVE  \E g \in [0 .. n -> Nat] :
           /\ g[0] = 1 /\ \A k \in 0 .. n - 1 : g[k + 1] = b * g[k]
           /\ Power(b, n) = g[n]
<1> DEFINE F == [p \in Nat \X (0 .. n - 1) |-> b * p[1]]
           Run(g) == g = [k \in 0 .. n |-> IF k = 0 THEN 1 ELSE b * g[k - 1]]
           c == CHOOSE g : Run(g)
<1>1. \A a \in Nat : \A k \in 0 .. n - 1 : F[<<a, k>>] = b * a /\ b * a \in Nat
  OBVIOUS
<1> HIDE DEF F
<1>2. PICK g : Loop(Nat, 1, F, n, g)
  <2>1. Stays(Nat, F, n)
    BY <1>1 DEF Stays
  <2>2. 1 \in Nat
    OBVIOUS
  <2>3. QED BY <2>1, <2>2, LoopRuns
<1>3. g \in [0 .. n -> Nat] /\ g[0] = 1
  BY <1>2 DEF Loop
<1>4. ASSUME NEW k \in 0 .. n - 1 PROVE g[k + 1] = b * g[k]
  <2>1. g[k] \in Nat
    BY <1>3
  <2>2. QED BY <1>1, <1>2, <2>1 DEF Loop
<1>5. Run(g)
  <2>1. \A k \in 0 .. n : g[k] = IF k = 0 THEN 1 ELSE b * g[k - 1]
    BY <1>3, <1>4
  <2>2. g = [k \in 0 .. n |-> g[k]]
    BY <1>3
  <2>3. QED BY <2>1, <2>2
<1>6. Run(c)
  BY <1>5, Zenon
<1>7. Power(b, n) = c[n]
  BY DEF Power
<1> HIDE DEF c
<1>8. \A k \in 0 .. n : c[k] = IF k = 0 THEN 1 ELSE b * c[k - 1]
  BY <1>6
<1> DEFINE T == {k \in Nat : k <= n => c[k] = g[k]}
<1>9. 0 \in T
  BY <1>3, <1>8
<1>10. ASSUME NEW k \in Nat, k \in T PROVE k + 1 \in T
  BY <1>4, <1>8, <1>10
<1> HIDE DEF T
<1>11. n \in T
  BY <1>9, <1>10, Induction
<1>12. Power(b, n) = g[n]
  BY <1>7, <1>11 DEF T
<1>13. \A k \in 0 .. n - 1 : g[k + 1] = b * g[k]
  BY <1>4
<1>14. QED BY <1>12, <1>3, <1>13

\* Two runs of the same powers agree as far as both go.
LEMMA PowerIs ==
  ASSUME NEW b \in Nat
  PROVE  /\ Power(b, 0) = 1
         /\ \A n \in Nat : Power(b, n) \in Nat /\ Power(b, n + 1) = b * Power(b, n)
<1>1. Power(b, 0) = 1
  BY PowerRuns
<1>2. ASSUME NEW n \in Nat PROVE Power(b, n) \in Nat /\ Power(b, n + 1) = b * Power(b, n)
  <2>1. PICK g \in [0 .. n -> Nat] :
           /\ g[0] = 1 /\ \A k \in 0 .. n - 1 : g[k + 1] = b * g[k]
           /\ Power(b, n) = g[n]
    BY PowerRuns
  <2>2. PICK h \in [0 .. n + 1 -> Nat] :
           /\ h[0] = 1 /\ \A k \in 0 .. (n + 1) - 1 : h[k + 1] = b * h[k]
           /\ Power(b, n + 1) = h[n + 1]
    <3> DEFINE m == n + 1
    <3>1. m \in Nat
      OBVIOUS
    <3> HIDE DEF m
    <3>2. \E h \in [0 .. m -> Nat] :
            /\ h[0] = 1 /\ \A k \in 0 .. m - 1 : h[k + 1] = b * h[k]
            /\ Power(b, m) = h[m]
      BY <3>1, PowerRuns
    <3>3. QED BY <3>2 DEF m
  <2> DEFINE T == {k \in Nat : k <= n => h[k] = g[k]}
  <2>3. 0 \in T
    BY <2>1, <2>2
  <2>4. ASSUME NEW k \in Nat, k \in T PROVE k + 1 \in T
    BY <2>1, <2>2, <2>4
  <2> HIDE DEF T
  <2>5. n \in T
    BY <2>3, <2>4, Induction
  <2>6. h[n] = g[n]
    BY <2>5 DEF T
  <2>7. QED BY <2>1, <2>2, <2>6
<1>3. QED BY <1>1, <1>2

\* Powers of the same base are multiplied by adding the exponents.
LEMMA PowerSum ==
  ASSUME NEW b \in Nat, NEW m \in Nat, NEW n \in Nat
  PROVE  Power(b, m + n) = Power(b, m) * Power(b, n)
<1> DEFINE S == {k \in Nat : Power(b, m + k) = Power(b, m) * Power(b, k)}
<1>1. 0 \in S
  BY PowerIs
<1>2. ASSUME NEW k \in Nat, k \in S PROVE k + 1 \in S
  <2> DEFINE p == Power(b, m)
             q == Power(b, k)
  <2>1. p \in Nat /\ q \in Nat
    BY PowerIs
  <2>2. Power(b, k + 1) = b * q
    BY PowerIs
  <2>3. Power(b, (m + k) + 1) = b * (p * q)
    BY <1>2, PowerIs
  <2>4. m + (k + 1) = (m + k) + 1
    OBVIOUS
  <2> HIDE DEF p, q
  <2>5. b * (p * q) = p * (b * q)
    BY <2>1
  <2>6. QED BY <2>2, <2>3, <2>4, <2>5 DEF p
<1> HIDE DEF S
<1>3. n \in S
  BY <1>1, <1>2, Induction
<1>4. QED BY <1>3 DEF S

\* A power of a power.
LEMMA PowerProduct ==
  ASSUME NEW b \in Nat, NEW m \in Nat, NEW n \in Nat
  PROVE  Power(b, m * n) = Power(Power(b, m), n)
<1> DEFINE S == {k \in Nat : Power(b, m * k) = Power(Power(b, m), k)}
<1>0. Power(b, m) \in Nat
  BY PowerIs
<1>1. 0 \in S
  <2>1. m * 0 = 0
    OBVIOUS
  <2>2. QED BY <1>0, <2>1, PowerIs
<1>2. ASSUME NEW k \in Nat, k \in S PROVE k + 1 \in S
  <2> DEFINE p == Power(b, m)
             j == m * k
  <2>1. p \in Nat /\ j \in Nat /\ m * (k + 1) = m + j
    BY <1>0
  <2> HIDE DEF p
  <2>2. Power(p, k + 1) = p * Power(p, k)
    BY <2>1, PowerIs
  <2>3. Power(b, m + j) = p * Power(b, j)
    BY <2>1, PowerSum DEF p
  <2>4. Power(b, j) = Power(p, k)
    BY <1>2 DEF p
  <2>5. QED BY <2>1, <2>2, <2>3, <2>4 DEF p
<1> HIDE DEF S
<1>3. n \in S
  BY <1>1, <1>2, Induction
<1>4. QED BY <1>3 DEF S

\* The powers of a base that is at least 1.
LEMMA PowerPositive ==
  ASSUME NEW b \in Nat \ {0}, NEW n \in Nat
  PROVE  Power(b, n) \in Nat \ {0}
<1> DEFINE S == {k \in Nat : Power(b, k) \in Nat \ {0}}
<1>1. 0 \in S
  BY PowerIs
<1>2. ASSUME NEW k \in Nat, k \in S PROVE k + 1 \in S
  <2> DEFINE p == Power(b, k)
  <2>1. p \in Nat \ {0} /\ Power(b, k + 1) = b * p
    BY <1>2, PowerIs
  <2> HIDE DEF p
  <2>2. b * p \in Nat \ {0}
    BY <2>1
  <2>3. QED BY <2>1, <2>2
<1> HIDE DEF S
<1>3. n \in S
  BY <1>1, <1>2, Induction
<1>4. QED BY <1>3 DEF S

\* A number is below as large a power of any base that is at least 2.
LEMMA PowerAbove ==
  ASSUME NEW b \in Nat, b >= 2, NEW n \in Nat
  PROVE  n < Power(b, n)
<1> DEFINE S == {k \in Nat : k < Power(b, k)}
<1>1. 0 \in S
  BY PowerIs
<1>2. ASSUME NEW k \in Nat, k \in S PROVE k + 1 \in S
  <2> DEFINE p == Power(b, k)
  <2>1. p \in Nat /\ k < p /\ Power(b, k + 1) = b * p
    BY <1>2, PowerIs
  <2> HIDE DEF p
  <2>2. 2 * p <= b * p
    BY <2>1
  <2>3. k + 1 < b * p
    BY <2>1, <2>2
  <2>4. QED BY <2>1, <2>3
<1> HIDE DEF S
<1>3. n \in S
  BY <1>1, <1>2, Induction
<1>4. QED BY <1>3 DEF S

\* Larger exponents give larger powers.
LEMMA PowerMonotone ==
  ASSUME NEW b \in Nat \ {0}, NEW m \in Nat, NEW n \in Nat, m <= n
  PROVE  Power(b, m) <= Power(b, n)
<1> DEFINE d == n - m
           p == Power(b, m)
           q == Power(b, d)
<1>1. d \in Nat /\ m + d = n
  OBVIOUS
<1> HIDE DEF d
<1>2. p \in Nat \ {0} /\ q \in Nat \ {0}
  BY <1>1, PowerPositive
<1>3. Power(b, n) = p * q
  BY <1>1, PowerSum
<1> HIDE DEF p, q
<1>4. p <= p * q
  BY <1>2
<1>5. QED BY <1>3, <1>4 DEF p

-----------------------------------------------------------------------------
(* Multiplication and division *)

LEMMA MulMonotone ==
  ASSUME NEW a \in Int, NEW b \in Int, NEW c \in Nat, a <= b
  PROVE  a * c <= b * c
OBVIOUS

LEMMA MulCancel ==
  ASSUME NEW a \in Int, NEW b \in Int, NEW c \in Nat, a * c < b * c
  PROVE  a < b
<1>1. b <= a => b * c <= a * c
  BY MulMonotone
<1>2. a * c \in Int /\ b * c \in Int
  OBVIOUS
<1>3. QED BY <1>1, <1>2

\* Quotient and remainder.
LEMMA DivMod ==
  ASSUME NEW a \in Int, NEW p \in Nat \ {0}
  PROVE  /\ a \div p \in Int /\ a % p \in 0 .. p - 1
         /\ a = p * (a \div p) + (a % p)
         /\ a \in Nat => a \div p \in Nat
OBVIOUS

\* They are the only such numbers.
LEMMA DivModUnique ==
  ASSUME NEW a \in Int, NEW p \in Nat \ {0}, NEW q \in Int, NEW r \in 0 .. p - 1,
         a = p * q + r
  PROVE  a \div p = q /\ a % p = r
<1> DEFINE k == a \div p
           s == a % p
<1>1. k \in Int /\ s \in 0 .. p - 1 /\ a = p * k + s
  BY DivMod
<1> HIDE DEF k, s
<1>2. r \in Int /\ s \in Int /\ 0 <= r /\ r < p /\ 0 <= s /\ s < p
  BY <1>1
<1>3. p * k + s = p * q + r
  BY <1>1
<1>4. ASSUME k < q PROVE FALSE
  <2>1. (k + 1) * p <= q * p
    BY <1>1, <1>4, MulMonotone
  <2>2. p * k + p <= p * q
    BY <1>1, <2>1
  <2>3. QED BY <1>1, <1>2, <1>3, <2>2
<1>5. ASSUME q < k PROVE FALSE
  <2>1. (q + 1) * p <= k * p
    BY <1>1, <1>5, MulMonotone
  <2>2. p * q + p <= p * k
    BY <1>1, <2>1
  <2>3. QED BY <1>1, <1>2, <1>3, <2>2
<1>6. k = q
  BY <1>1, <1>4, <1>5
<1>7. s = r
  BY <1>1, <1>2, <1>3, <1>6
<1>8. QED BY <1>6, <1>7 DEF k, s

\* Multiples of the divisor do not change the remainder.
LEMMA ModShift ==
  ASSUME NEW a \in Int, NEW p \in Nat \ {0}, NEW t \in Int
  PROVE  (a + p * t) % p = a % p
<1> DEFINE q == a \div p
           r == a % p
           k == q + t
           c == a + p * t
<1>1. q \in Int /\ r \in 0 .. p - 1 /\ a = p * q + r /\ c \in Int /\ k \in Int
  BY DivMod
<1>2. c = p * k + r
  <2> HIDE DEF q, r
  <2>1. p * (q + t) = p * q + p * t
    BY <1>1
  <2>2. r \in Int /\ p * q \in Int /\ p * t \in Int
    BY <1>1
  <2>3. QED BY <1>1, <2>1, <2>2
<1> HIDE DEF q, r, k, c
<1>3. c % p = r
  BY <1>1, <1>2, DivModUnique
<1>4. QED BY <1>3 DEF r, c

\* A number below the divisor is its own remainder.
LEMMA ModSmall ==
  ASSUME NEW p \in Nat \ {0}, NEW a \in 0 .. p - 1
  PROVE  a % p = a /\ a \div p = 0
<1>1. a \in Int /\ a = p * 0 + a
  OBVIOUS
<1>2. QED BY <1>1, DivModUnique

-----------------------------------------------------------------------------
(* Digits and their value *)

Row(m)        == [0 .. m - 1 -> Int]
Figures(m, b) == [0 .. m - 1 -> 0 .. b - 1]

\* Digits are numbers.
LEMMA FiguresRow ==
  ASSUME NEW m, NEW b \in Nat, NEW d \in Figures(m, b)
  PROVE  d \in Row(m)
BY DEF Figures, Row

\* The value of n numbers is the sum of each times its power.
LEMMA ValueRuns ==
  ASSUME NEW b \in Nat, NEW m \in Nat, NEW d \in Row(m), NEW n \in 0 .. m
  PROVE  \E g \in [0 .. n -> Int] :
           /\ g[0] = 0 /\ \A k \in 0 .. n - 1 : g[k + 1] = g[k] + d[k] * Power(b, k)
           /\ Value(d, n, b) = g[n]
<1> DEFINE F == [p \in Int \X (0 .. n - 1) |-> p[1] + d[p[2]] * Power(b, p[2])]
           Run(g) == g = [k \in 0 .. n |-> IF k = 0 THEN 0
                                           ELSE g[k - 1] + d[k - 1] * Power(b, k - 1)]
           c == CHOOSE g : Run(g)
<1>1. ASSUME NEW k \in 0 .. n - 1 PROVE d[k] * Power(b, k) \in Int /\ k \in Nat
  <2>1. k \in Nat /\ d[k] \in Int
    BY DEF Row
  <2>2. Power(b, k) \in Nat
    BY <2>1, PowerIs
  <2>3. QED BY <2>1, <2>2
<1>2. \A a \in Int : \A k \in 0 .. n - 1 :
        F[<<a, k>>] = a + d[k] * Power(b, k) /\ F[<<a, k>>] \in Int
  BY <1>1
<1> HIDE DEF F
<1>3. PICK g : Loop(Int, 0, F, n, g)
  <2>1. Stays(Int, F, n)
    BY <1>2 DEF Stays
  <2>2. n \in Nat /\ 0 \in Int
    OBVIOUS
  <2>3. QED BY <2>1, <2>2, LoopRuns
<1>4. g \in [0 .. n -> Int] /\ g[0] = 0
  BY <1>3 DEF Loop
<1>5. ASSUME NEW k \in 0 .. n - 1 PROVE g[k + 1] = g[k] + d[k] * Power(b, k)
  <2>1. g[k] \in Int
    BY <1>4
  <2>2. QED BY <1>2, <1>3, <2>1 DEF Loop
<1>6. Run(g)
  <2>1. ASSUME NEW k \in 0 .. n
        PROVE  g[k] = IF k = 0 THEN 0 ELSE g[k - 1] + d[k - 1] * Power(b, k - 1)
    <3>1. CASE k = 0
      BY <1>4, <3>1
    <3>2. CASE k # 0
      <4>1. k - 1 \in 0 .. n - 1 /\ (k - 1) + 1 = k
        BY <3>2
      <4>2. QED BY <1>5, <3>2, <4>1
    <3>3. QED BY <3>1, <3>2
  <2>2. g = [k \in 0 .. n |-> g[k]]
    BY <1>4
  <2>3. QED BY <2>1, <2>2
<1>7. Run(c)
  BY <1>6, Zenon
<1>8. Value(d, n, b) = c[n]
  BY DEF Value
<1> HIDE DEF c
<1>9. \A k \in 0 .. n : c[k] = IF k = 0 THEN 0 ELSE c[k - 1] + d[k - 1] * Power(b, k - 1)
  BY <1>7
<1> DEFINE T == {k \in Nat : k <= n => c[k] = g[k]}
<1>10. 0 \in T
  BY <1>4, <1>9
<1>11. ASSUME NEW k \in Nat, k \in T PROVE k + 1 \in T
  <2>1. SUFFICES ASSUME k + 1 <= n PROVE c[k + 1] = g[k + 1]
    OBVIOUS
  <2>2. k + 1 \in 0 .. n /\ k \in 0 .. n - 1 /\ k + 1 # 0 /\ (k + 1) - 1 = k /\ c[k] = g[k]
    BY <1>11, <2>1
  <2>3. c[k + 1] = c[k] + d[k] * Power(b, k)
    BY <1>9, <2>2
  <2>4. QED BY <1>5, <2>2, <2>3
<1> HIDE DEF T
<1>12. n \in T
  <2>1. n \in Nat
    OBVIOUS
  <2>2. QED BY <2>1, <1>10, <1>11, Induction
<1>13. Value(d, n, b) = g[n]
  BY <1>8, <1>12 DEF T
<1>14. \A k \in 0 .. n - 1 : g[k + 1] = g[k] + d[k] * Power(b, k)
  BY <1>5
<1>15. QED BY <1>4, <1>13, <1>14

LEMMA ValueIs ==
  ASSUME NEW b \in Nat, NEW m \in Nat, NEW d \in Row(m)
  PROVE  /\ Value(d, 0, b) = 0
         /\ \A n \in 0 .. m : Value(d, n, b) \in Int
         /\ \A n \in 0 .. m - 1 : Value(d, n + 1, b) = Value(d, n, b) + d[n] * Power(b, n)
<1>1. Value(d, 0, b) = 0
  <2>1. 0 \in 0 .. m
    OBVIOUS
  <2>2. PICK g \in [0 .. 0 -> Int] : g[0] = 0 /\ Value(d, 0, b) = g[0]
    BY <2>1, ValueRuns
  <2>3. QED BY <2>2
<1>2. \A n \in 0 .. m : Value(d, n, b) \in Int
  <2> TAKE n \in 0 .. m
  <2>1. PICK g \in [0 .. n -> Int] : Value(d, n, b) = g[n]
    BY ValueRuns
  <2>2. n \in 0 .. n
    OBVIOUS
  <2>3. QED BY <2>1, <2>2
<1>3. ASSUME NEW n \in 0 .. m - 1
      PROVE  Value(d, n + 1, b) = Value(d, n, b) + d[n] * Power(b, n)
  <2> DEFINE l == n + 1
  <2>1. n \in 0 .. m /\ n \in Nat /\ l \in 0 .. m
    OBVIOUS
  <2>2. PICK g \in [0 .. n -> Int] :
           /\ g[0] = 0 /\ \A k \in 0 .. n - 1 : g[k + 1] = g[k] + d[k] * Power(b, k)
           /\ Value(d, n, b) = g[n]
    BY <2>1, ValueRuns
  <2> HIDE DEF l
  <2>3. PICK h \in [0 .. l -> Int] :
           /\ h[0] = 0 /\ \A k \in 0 .. l - 1 : h[k + 1] = h[k] + d[k] * Power(b, k)
           /\ Value(d, l, b) = h[l]
    BY <2>1, ValueRuns
  <2> DEFINE T == {k \in Nat : k <= n => h[k] = g[k]}
  <2>4. 0 \in T
    BY <2>2, <2>3
  <2>5. ASSUME NEW k \in Nat, k \in T PROVE k + 1 \in T
    <3>1. SUFFICES ASSUME k + 1 <= n PROVE h[k + 1] = g[k + 1]
      OBVIOUS
    <3>2. k \in 0 .. n - 1 /\ k \in 0 .. l - 1 /\ h[k] = g[k]
      BY <2>1, <2>5, <3>1 DEF l
    <3>3. QED BY <2>2, <2>3, <3>2
  <2> HIDE DEF T
  <2>6. n \in T
    BY <2>1, <2>4, <2>5, Induction
  <2>7. h[n] = g[n]
    BY <2>1, <2>6 DEF T
  <2>8. n \in 0 .. l - 1
    BY <2>1 DEF l
  <2>9. Value(d, l, b) = Value(d, n, b) + d[n] * Power(b, n)
    <3>1. h[n + 1] = h[n] + d[n] * Power(b, n)
      BY <2>3, <2>8
    <3>2. QED BY <2>2, <2>3, <2>7, <3>1 DEF l
  <2>10. QED BY <2>9 DEF l
<1>4. QED BY <1>1, <1>2, <1>3

Agree(d, e, n) == \A i \in 0 .. n - 1 : d[i] = e[i]

\* A value depends on the digits only.
LEMMA ValueSame ==
  ASSUME NEW b \in Nat, NEW m \in Nat, NEW l \in Nat,
         NEW d \in Row(m), NEW e \in Row(l),
         NEW n \in Nat, n <= m, n <= l, Agree(d, e, n)
  PROVE  Value(d, n, b) = Value(e, n, b)
<1> DEFINE S == {k \in Nat : k <= n => Value(d, k, b) = Value(e, k, b)}
<1>1. 0 \in S
  BY ValueIs
<1>2. ASSUME NEW k \in Nat, k \in S PROVE k + 1 \in S
  <2>1. SUFFICES ASSUME k + 1 <= n PROVE Value(d, k + 1, b) = Value(e, k + 1, b)
    OBVIOUS
  <2>2. k \in 0 .. m - 1 /\ k \in 0 .. l - 1 /\ k \in 0 .. n - 1
    BY <2>1
  <2>3. Value(d, k + 1, b) = Value(d, k, b) + d[k] * Power(b, k)
    BY <2>2, ValueIs
  <2>4. Value(e, k + 1, b) = Value(e, k, b) + e[k] * Power(b, k)
    BY <2>2, ValueIs
  <2>5. Value(d, k, b) = Value(e, k, b) /\ d[k] = e[k]
    BY <1>2, <2>1, <2>2 DEF Agree
  <2>6. QED BY <2>3, <2>4, <2>5
<1> HIDE DEF S
<1>3. n \in S
  BY <1>1, <1>2, Induction
<1>4. QED BY <1>3 DEF S

\* The same digits, with x at place i.
Altered(d, e, i, x) == e = [d EXCEPT ![i] = x]

\* Another digit changes the value by the difference, times the power of its place.
LEMMA ValueExcept ==
  ASSUME NEW b \in Nat, NEW m \in Nat, NEW d \in Row(m),
         NEW i \in Nat, i < m, NEW x \in Int, NEW e, Altered(d, e, i, x),
         NEW n \in Nat, n <= m
  PROVE  /\ e \in Row(m)
         /\ Value(e, n, b) = IF n <= i THEN Value(d, n, b)
                             ELSE Value(d, n, b) + (x - d[i]) * Power(b, i)
<1>1. /\ e \in Row(m) /\ e[i] = x /\ d[i] \in Int
      /\ \A k \in 0 .. m - 1 : k # i => e[k] = d[k]
  BY DEF Row, Altered
<1>2. ASSUME NEW k \in Nat, k <= i PROVE Value(e, k, b) = Value(d, k, b)
  <2>1. k <= m /\ Agree(e, d, k)
    BY <1>1, <1>2 DEF Agree
  <2>2. QED BY <1>1, <2>1, ValueSame
<1> DEFINE S == {k \in Nat : k <= m /\ k > i =>
                   Value(e, k, b) = Value(d, k, b) + (x - d[i]) * Power(b, i)}
<1>3. 0 \in S
  OBVIOUS
<1>4. ASSUME NEW k \in Nat, k \in S PROVE k + 1 \in S
  <2>1. SUFFICES ASSUME k + 1 <= m, k + 1 > i
                 PROVE  Value(e, k + 1, b) = Value(d, k + 1, b) + (x - d[i]) * Power(b, i)
    OBVIOUS
  <2>2. k \in 0 .. m - 1 /\ k \in 0 .. m /\ d[k] \in Int
    BY <2>1 DEF Row
  <2> DEFINE v == Value(d, k, b)
             w == Value(e, k, b)
             p == Power(b, k)
             q == Power(b, i)
  <2>3. Value(d, k + 1, b) = v + d[k] * p
    BY <2>2, ValueIs
  <2>4. Value(e, k + 1, b) = w + e[k] * p
    BY <1>1, <2>2, ValueIs
  <2>5. v \in Int /\ w \in Int /\ p \in Int /\ q \in Int /\ d[k] \in Int
    <3>1. v \in Int
      BY <2>2, ValueIs
    <3>2. w \in Int
      BY <1>1, <2>2, ValueIs
    <3>3. p \in Nat /\ q \in Nat
      <4>1. k \in Nat /\ i \in Nat
        BY <2>2
      <4>2. QED BY <4>1, PowerIs
    <3>4. QED BY <2>2, <3>1, <3>2, <3>3
  <2>6. CASE k = i
    <3>1. w = v
      <4>1. k \in Nat /\ k <= i
        BY <2>6
      <4>2. QED BY <1>2, <4>1
    <3>4. e[k] = x /\ p = q
      BY <1>1, <2>6
    <3> HIDE DEF v, w, p, q
    <3>2. v + x * p = v + d[k] * p + (x - d[k]) * p
      BY <2>5
    <3>3. QED BY <2>3, <2>4, <2>6, <3>1, <3>2, <3>4 DEF q
  <2>7. CASE k # i
    <3>1. w = v + (x - d[i]) * q /\ e[k] = d[k]
      BY <1>1, <1>4, <2>1, <2>2, <2>7
    <3> HIDE DEF v, w, p, q
    <3>2. (x - d[i]) * q \in Int /\ d[k] * p \in Int
      BY <1>1, <2>5
    <3>3. (v + (x - d[i]) * q) + d[k] * p = (v + d[k] * p) + (x - d[i]) * q
      BY <2>5, <3>2
    <3>4. QED BY <2>3, <2>4, <3>1, <3>3 DEF q
  <2>8. QED BY <2>6, <2>7
<1> HIDE DEF S
<1>5. n \in S
  BY <1>3, <1>4, Induction
<1>6. CASE n <= i
  BY <1>1, <1>2, <1>6
<1>7. CASE ~(n <= i)
  <2>1. n > i
    BY <1>7
  <2>2. QED BY <1>1, <1>5, <1>7, <2>1 DEF S
<1>8. QED BY <1>6, <1>7

\* The same for the value of all the digits.
LEMMA ValueChanged ==
  ASSUME NEW b \in Nat, NEW m \in Nat, NEW d \in Row(m),
         NEW i \in Nat, i < m, NEW x \in Int, NEW e, Altered(d, e, i, x)
  PROVE  e \in Row(m) /\ Value(e, m, b) = Value(d, m, b) + (x - d[i]) * Power(b, i)
<1>1. m <= m /\ ~(m <= i)
  OBVIOUS
<1>2. QED BY <1>1, ValueExcept

\* Digits make a value that is not negative and below the next power.
LEMMA ValueBounds ==
  ASSUME NEW b \in Nat \ {0}, NEW m \in Nat, NEW d \in Figures(m, b),
         NEW n \in Nat, n <= m
  PROVE  Value(d, n, b) \in Nat /\ Value(d, n, b) < Power(b, n)
<1> DEFINE S == {k \in Nat : k <= m => Value(d, k, b) \in Nat /\ Value(d, k, b) < Power(b, k)}
<1>0. d \in Row(m)
  BY DEF Figures, Row
<1>1. 0 \in S
  <2>1. Value(d, 0, b) = 0 /\ Power(b, 0) = 1
    BY <1>0, ValueIs, PowerIs
  <2>2. QED BY <2>1
<1>2. ASSUME NEW k \in Nat, k \in S PROVE k + 1 \in S
  <2>1. SUFFICES ASSUME k + 1 <= m
                 PROVE  Value(d, k + 1, b) \in Nat /\ Value(d, k + 1, b) < Power(b, k + 1)
    OBVIOUS
  <2> DEFINE v == Value(d, k, b)
             p == Power(b, k)
             x == d[k]
  <2>2. k \in 0 .. m - 1
    BY <2>1
  <2>3. Value(d, k + 1, b) = v + x * p
    BY <1>0, <2>2, ValueIs
  <2>4. Power(b, k + 1) = b * p /\ p \in Nat
    BY PowerIs
  <2>5. v \in Nat /\ v < p /\ x \in 0 .. b - 1
    BY <1>2, <2>1, <2>2 DEF Figures
  <2> HIDE DEF v, p, x
  <2>6. x * p <= (b - 1) * p
    <3>1. x \in Int /\ b - 1 \in Int /\ x <= b - 1
      BY <2>5
    <3>2. QED BY <2>4, <3>1, MulMonotone
  <2>7. x * p \in Nat /\ (b - 1) * p = b * p - p /\ b * p \in Int
    BY <2>4, <2>5
  <2>8. v + x * p \in Nat /\ v + x * p < b * p
    BY <2>4, <2>5, <2>6, <2>7
  <2>9. QED BY <2>3, <2>4, <2>8
<1> HIDE DEF S
<1>3. n \in S
  BY <1>1, <1>2, Induction
<1>4. QED BY <1>3 DEF S

\* Digits that are all zero.
LEMMA ValueZero ==
  ASSUME NEW b \in Nat, NEW m \in Nat, NEW d \in Row(m),
         NEW k \in Nat, NEW n \in Nat, k <= n, n <= m, \A i \in k .. n - 1 : d[i] = 0
  PROVE  Value(d, n, b) = Value(d, k, b)
<1> DEFINE S == {l \in Nat : k <= l /\ l <= n => Value(d, l, b) = Value(d, k, b)}
<1>1. 0 \in S
  OBVIOUS
<1>2. ASSUME NEW l \in Nat, l \in S PROVE l + 1 \in S
  <2>1. SUFFICES ASSUME k <= l + 1, l + 1 <= n PROVE Value(d, l + 1, b) = Value(d, k, b)
    OBVIOUS
  <2>2. CASE l + 1 = k
    BY <2>2
  <2>3. CASE l + 1 # k
    <3>1. l \in k .. n - 1 /\ l \in 0 .. m - 1 /\ k <= l /\ l <= n /\ l \in 0 .. m
      BY <2>1, <2>3
    <3>2. Value(d, l + 1, b) = Value(d, l, b) + d[l] * Power(b, l)
      BY <3>1, ValueIs
    <3>3. Value(d, l, b) \in Int /\ Power(b, l) \in Nat /\ d[l] = 0
      BY <3>1, ValueIs, PowerIs
    <3>4. Value(d, l, b) = Value(d, k, b)
      BY <1>2, <3>1
    <3> DEFINE p == Power(b, l)
    <3>5. 0 * p = 0
      BY <3>3
    <3>6. QED BY <3>2, <3>3, <3>4, <3>5
  <2>4. QED BY <2>2, <2>3
<1> HIDE DEF S
<1>3. n \in S
  BY <1>1, <1>2, Induction
<1>4. QED BY <1>3 DEF S

\* The remainder by a product, from one by each factor.
LEMMA ModProduct ==
  ASSUME NEW x \in Nat, NEW p \in Nat \ {0}, NEW b \in Nat \ {0}
  PROVE  x % (b * p) = ((x \div p) % b) * p + (x % p)
<1> DEFINE r == x % p
           q == x \div p
           y == q % b
           z == q \div b
           v == y * p + r
<1>1. r \in 0 .. p - 1 /\ q \in Int /\ x = p * q + r
  BY DivMod
<1> HIDE DEF r, q
<1>2. y \in 0 .. b - 1 /\ z \in Int /\ q = b * z + y
  BY <1>1, DivMod
<1> HIDE DEF y, z
<1>3. x = (b * p) * z + v
  <2>1. p * (b * z + y) = (b * p) * z + y * p
    BY <1>2
  <2>2. r \in Int /\ y * p \in Int /\ (b * p) * z \in Int
    BY <1>1, <1>2
  <2>3. QED BY <1>1, <1>2, <2>1, <2>2
<1>4. v \in 0 .. b * p - 1
  <2>1. y * p <= (b - 1) * p
    <3>1. y \in Int /\ b - 1 \in Int /\ y <= b - 1
      BY <1>2
    <3>2. QED BY <3>1, MulMonotone
  <2>2. (b - 1) * p = b * p - p
    OBVIOUS
  <2>3. r \in Int /\ 0 <= r /\ r < p /\ y * p \in Nat /\ b * p \in Int
    BY <1>1, <1>2
  <2>4. QED BY <2>1, <2>2, <2>3
<1> HIDE DEF v
<1> DEFINE c == b * p
<1>5. c \in Nat \ {0} /\ x = c * z + v /\ v \in 0 .. c - 1
  BY <1>3, <1>4
<1> HIDE DEF c
<1>6. x % c = v
  BY <1>2, <1>5, DivModUnique
<1>7. QED BY <1>6 DEF v, y, q, r, c

\* The digits of a number, read again.
LEMMA ValueOfDigits ==
  ASSUME NEW b \in Nat \ {0}, NEW x \in Nat, NEW m \in Nat
  PROVE  /\ Digits(x, m, b) \in Figures(m, b)
         /\ \A n \in 0 .. m : Value(Digits(x, m, b), n, b) = x % Power(b, n)
<1> DEFINE d == Digits(x, m, b)
           S == {k \in Nat : k <= m => Value(d, k, b) = x % Power(b, k)}
<1>1. ASSUME NEW i \in 0 .. m - 1
      PROVE  (x \div Power(b, i)) % b \in 0 .. b - 1
  <2> DEFINE p == Power(b, i)
  <2>1. p \in Nat \ {0}
    BY PowerPositive
  <2> HIDE DEF p
  <2>2. x \div p \in Int
    BY <2>1, DivMod
  <2>3. (x \div p) % b \in 0 .. b - 1
    BY <2>2, DivMod
  <2>4. QED BY <2>3 DEF p
<1>2. d \in Figures(m, b) /\ \A i \in 0 .. m - 1 : d[i] = (x \div Power(b, i)) % b
  BY <1>1 DEF Digits, Figures
<1> HIDE DEF d
<1>3. d \in Row(m)
  BY <1>2 DEF Figures, Row
<1>4. 0 \in S
  <2>1. x % 1 = 0
    OBVIOUS
  <2>2. Value(d, 0, b) = 0 /\ Power(b, 0) = 1
    BY <1>3, ValueIs, PowerIs
  <2>3. QED BY <2>1, <2>2
<1>5. ASSUME NEW k \in Nat, k \in S PROVE k + 1 \in S
  <2>1. SUFFICES ASSUME k + 1 <= m PROVE Value(d, k + 1, b) = x % Power(b, k + 1)
    OBVIOUS
  <2> DEFINE p == Power(b, k)
  <2>2. k \in 0 .. m - 1 /\ Value(d, k, b) = x % p
    BY <1>5, <2>1
  <2>3. Value(d, k + 1, b) = (x % p) + ((x \div p) % b) * p
    BY <1>2, <1>3, <2>2, ValueIs
  <2>4. p \in Nat \ {0} /\ Power(b, k + 1) = b * p
    BY PowerPositive, PowerIs
  <2> HIDE DEF p
  <2>5. x % (b * p) = ((x \div p) % b) * p + (x % p)
    BY <2>4, ModProduct
  <2>6. x % p \in Int /\ ((x \div p) % b) * p \in Int
    BY <2>4
  <2>7. QED BY <2>3, <2>4, <2>5, <2>6
<1> HIDE DEF S
<1>6. \A n \in Nat : n \in S
  BY <1>4, <1>5, Induction
<1>7. QED BY <1>2, <1>6 DEF S, d

-----------------------------------------------------------------------------
(* Words *)

LEMMA HalfIs ==
  /\ half \in Nat /\ half >= 2 /\ base \in Nat /\ base >= 4
  /\ base = Power(2, WordWidth) /\ WordWidth \in Nat \ {0}
<1>1. HalfBits \in Nat \ {0} /\ HalfBits - 1 \in Nat /\ (HalfBits - 1) + 1 = HalfBits
  BY ArithmeticAssumption
<1>2. half \in Nat /\ half >= 2
  <2> DEFINE m == HalfBits - 1
  <2>1. m \in Nat /\ m + 1 = HalfBits
    BY <1>1
  <2> HIDE DEF m
  <2>2. 2 \in Nat /\ 2 \in Nat \ {0}
    OBVIOUS
  <2>3. Power(2, m) \in Nat \ {0}
    BY <2>1, <2>2, PowerPositive
  <2>4. Power(2, m + 1) = 2 * Power(2, m)
    BY <2>1, <2>2, PowerIs
  <2>5. QED BY <2>1, <2>3, <2>4 DEF half
<1>3. base = Power(2, HalfBits + HalfBits)
  BY <1>1, PowerSum DEF base, half
<1>4. HalfBits + HalfBits = WordWidth
  BY <1>1 DEF WordWidth
<1>5. base \in Nat /\ base >= 4
  <2> DEFINE h == half
  <2>1. h \in Nat /\ h >= 2
    BY <1>2
  <2> HIDE DEF h
  <2>2. 2 * h <= h * h /\ h * h \in Nat
    BY <2>1
  <2>3. h * h >= 4
    BY <2>1, <2>2
  <2>4. QED BY <2>2, <2>3 DEF h, base
<1>6. QED BY <1>1, <1>2, <1>3, <1>4, <1>5 DEF WordWidth

\* Enough words, and at least one.
LEMMA RoundedUp ==
  ASSUME NEW width \in Nat \ {0}, NEW w \in Nat \ {0}, NEW n, n = (width + w - 1) \div w
  PROVE  n \in Nat \ {0} /\ w * n >= width
<1> DEFINE a == width + w - 1
           r == a % w
<1>1. a \in Int
  OBVIOUS
<1>2. n \in Int /\ r \in 0 .. w - 1 /\ a = w * n + r
  BY <1>1, DivMod
<1> HIDE DEF r
<1>3. w * n >= width
  BY <1>2
<1>4. n <= 0 => n * w <= 0 * w
  BY <1>2, MulMonotone
<1>5. n * w = w * n /\ 0 * w = 0
  BY <1>2
<1>6. n > 0
  BY <1>2, <1>3, <1>4, <1>5
<1>7. QED BY <1>2, <1>3, <1>6

\* The words of a number have room for all its bits.
LEMMA WordsCover ==
  ASSUME NEW width \in Nat \ {0}
  PROVE  /\ WordCount(width) \in Nat \ {0}
         /\ \E e \in Nat : Power(base, WordCount(width)) = Power(2, width) * Power(2, e)
         /\ Power(2, width) \in Nat \ {0}
<1> DEFINE w == WordWidth
           n == WordCount(width)
           e == w * n - width
<1>1. w \in Nat \ {0} /\ base = Power(2, w)
  BY HalfIs
<1> HIDE DEF w
<1>2. n \in Nat \ {0} /\ e \in Nat
  <2>1. n = (width + w - 1) \div w
    BY DEF w, WordCount
  <2>2. n \in Nat \ {0} /\ w * n >= width
    BY <1>1, <2>1, RoundedUp
  <2> HIDE DEF n
  <2>3. QED BY <1>1, <2>2
<1> HIDE DEF n
<1>3. width + e = w * n
  BY <1>1, <1>2
<1> HIDE DEF e
<1>4. Power(base, n) = Power(2, w * n)
  BY <1>1, <1>2, PowerProduct
<1>5. Power(2, width + e) = Power(2, width) * Power(2, e)
  BY <1>2, PowerSum
<1>6. Power(2, width) \in Nat \ {0}
  BY PowerPositive
<1>7. QED BY <1>2, <1>3, <1>4, <1>5, <1>6 DEF n

\* Numbers of a width.
Sum(width) == [width : {width}, signed : BOOLEAN, n : 0 .. Power(2, width) - 1]

\* They fit in their words.
LEMMA FitsWords ==
  ASSUME NEW width \in Nat \ {0}, NEW x \in 0 .. Power(2, width) - 1
  PROVE  x \in Nat /\ x < Power(base, WordCount(width))
<1> DEFINE p == Power(2, width)
           c == Power(base, WordCount(width))
<1>1. PICK e \in Nat : c = p * Power(2, e)
  BY WordsCover
<1>2. p \in Nat \ {0} /\ Power(2, e) \in Nat \ {0}
  BY PowerPositive
<1>3. x \in Nat /\ x < p
  BY <1>2
<1> DEFINE f == Power(2, e)
<1> HIDE DEF p, c, f
<1>4. p <= p * f
  BY <1>2 DEF f
<1>5. c = p * f /\ p * f \in Nat
  BY <1>1, <1>2 DEF f
<1>6. QED BY <1>2, <1>3, <1>4, <1>5 DEF c

\* Multiples of the power of all words do not change the bits.
LEMMA ClearWords ==
  ASSUME NEW width \in Nat \ {0}, NEW x \in Int, NEW y \in Int, NEW t \in Int,
         x = y + Power(base, WordCount(width)) * t
  PROVE  Clear(width, x) = Clear(width, y)
<1> DEFINE p == Power(2, width)
           c == Power(base, WordCount(width))
<1>1. PICK e \in Nat : c = p * Power(2, e)
  BY WordsCover
<1> DEFINE f == Power(2, e)
           s == f * t
<1>2. p \in Nat \ {0} /\ f \in Nat \ {0} /\ c = p * f
  BY <1>1, PowerPositive
<1> HIDE DEF p, c, f
<1>3. s \in Int
  BY <1>2
<1>4. x = y + p * s
  <2>1. x = y + (p * f) * t
    BY <1>2 DEF c
  <2>2. (p * f) * t = p * (f * t)
    BY <1>2
  <2>3. QED BY <2>1, <2>2
<1> HIDE DEF s
<1>5. (y + p * s) % p = y % p
  BY <1>2, <1>3, ModShift
<1>6. QED BY <1>4, <1>5 DEF Clear, p

-----------------------------------------------------------------------------
(* Sums and differences *)

\* A word with its carry.
LEMMA CarryStep ==
  ASSUME NEW v \in Int, NEW p \in Int, NEW b \in Int, NEW s \in Int, NEW x \in Int,
         NEW y \in Int, NEW c \in Int, NEW d \in Int, NEW r \in Int,
         s = x + y + c, s = b * d + r
  PROVE  (v + (r - x) * p) + d * (b * p) = (v + c * p) + y * p
<1>1. (v + (r - x) * p) + d * (b * p) = v + (b * d + r) * p - x * p
  OBVIOUS
<1>2. (x + y + c) * p - x * p = c * p + y * p
  OBVIOUS
<1>3. v \in Int /\ x * p \in Int /\ y * p \in Int /\ c * p \in Int /\ (x + y + c) * p \in Int
  OBVIOUS
<1>4. (b * d + r) * p = (x + y + c) * p
  OBVIOUS
<1>5. QED BY <1>1, <1>2, <1>3, <1>4

\* What the loop over the words makes, with the carry that is lost.
LEMMA AddWords ==
  ASSUME NEW width \in Nat \ {0}, NEW x \in Sum(width), NEW y \in Sum(width),
         NEW sign \in {1, -1}
  PROVE  /\ AddGeneral(x, y, sign) \in Nat
         /\ \E t \in Int :
              AddGeneral(x, y, sign) = (x.n + sign * y.n) + Power(base, WordCount(width)) * t
<1> DEFINE count == WordCount(x.width)
           p == Digits(x.n, count, base)
           q == Digits(y.n, count, base)
           start == [carry |-> 0, out |-> p]
           Step(acc, i) ==
             LET sum == p[i] + sign * q[i] + acc.carry
             IN  [carry |-> sum \div base, out |-> [acc.out EXCEPT ![i] = sum % base]]
           Total(a, k) == p[k] + sign * q[k] + a.carry
           S == [carry : Int, out : Figures(count, base)]
           F == [a \in S \X (0 .. count - 1) |-> Step(a[1], a[2])]
           Run(g) == g = [k \in 0 .. count |-> IF k = 0 THEN start ELSE Step(g[k - 1], k - 1)]
           c == CHOOSE g : Run(g)
<1>1. x.width = width /\ x.n \in 0 .. Power(2, width) - 1 /\ y.n \in 0 .. Power(2, width) - 1
  BY DEF Sum
<1>2. x.n \in Nat /\ y.n \in Nat /\ x.n < Power(base, count) /\ y.n < Power(base, count)
  BY <1>1, FitsWords
<1>3. count \in Nat \ {0} /\ base \in Nat \ {0}
  BY <1>1, WordsCover, HalfIs
<1>4. AddGeneral(x, y, sign) = Value(c[count].out, count, base)
  BY DEF AddGeneral, Ascending
<1> HIDE DEF count
<1>5. p \in Figures(count, base) /\ q \in Figures(count, base)
  BY <1>2, <1>3, ValueOfDigits
<1>6. Value(p, count, base) = x.n /\ Value(q, count, base) = y.n
  <2>1. count \in 0 .. count /\ Power(base, count) \in Nat \ {0}
    BY <1>3, PowerPositive
  <2>2. Value(p, count, base) = x.n % Power(base, count)
        /\ Value(q, count, base) = y.n % Power(base, count)
    BY <1>2, <1>3, <2>1, ValueOfDigits
  <2>3. x.n \in 0 .. Power(base, count) - 1 /\ y.n \in 0 .. Power(base, count) - 1
    BY <1>2, <2>1
  <2>4. QED BY <2>1, <2>2, <2>3, ModSmall
<1> HIDE DEF p, q
<1>30. ASSUME NEW z \in Int
       PROVE  z \div base \in Int /\ z % base \in 0 .. base - 1 /\ z = base * (z \div base) + (z % base)
  BY <1>3, DivMod
<1>7. ASSUME NEW a \in S, NEW k \in 0 .. count - 1
      PROVE  /\ Step(a, k) \in S /\ p[k] \in Int /\ q[k] \in Int /\ Total(a, k) \in Int
             /\ Total(a, k) = base * Step(a, k).carry + (Total(a, k) % base)
             /\ Total(a, k) % base \in 0 .. base - 1
             /\ Step(a, k).out = [a.out EXCEPT ![k] = Total(a, k) % base]
  <2> DEFINE z == Total(a, k)
  <2>1. p[k] \in Int /\ q[k] \in Int /\ a.carry \in Int /\ a.out \in Figures(count, base)
    BY <1>5 DEF Figures
  <2>2. z \in Int
    BY <2>1
  <2>3. Step(a, k) = [carry |-> z \div base, out |-> [a.out EXCEPT ![k] = z % base]]
    OBVIOUS
  <2> HIDE DEF z, Step
  <2>4. z \div base \in Int /\ z % base \in 0 .. base - 1 /\ z = base * (z \div base) + (z % base)
    BY <1>30, <2>2
  <2>5. [a.out EXCEPT ![k] = z % base] \in Figures(count, base)
    BY <2>1, <2>4 DEF Figures
  <2>6. Step(a, k).carry = z \div base /\ Step(a, k).out = [a.out EXCEPT ![k] = z % base]
    BY <2>3
  <2>7. Step(a, k) \in S
    BY <2>3, <2>4, <2>5
  <2> HIDE DEF S, Total
  <2>8. QED BY <2>1, <2>2, <2>4, <2>6, <2>7 DEF z
<1>8. start \in S
  BY <1>5
<1> HIDE DEF Step, start
<1>9. PICK g : Loop(S, start, F, count, g)
  <2>1. Stays(S, F, count)
    BY <1>7 DEF Stays
  <2> HIDE DEF S, F
  <2>2. QED BY <1>3, <1>8, <2>1, LoopRuns
<1>10. Run(g)
  <2>1. ASSUME NEW k \in 0 .. count
        PROVE  g[k] = IF k = 0 THEN start ELSE Step(g[k - 1], k - 1)
    <3>1. CASE k = 0
      BY <1>9, <3>1 DEF Loop
    <3>2. CASE k # 0
      <4>1. k - 1 \in 0 .. count - 1 /\ (k - 1) + 1 = k /\ k - 1 \in 0 .. count
        BY <1>3, <3>2
      <4>2. g[k] = F[<<g[k - 1], k - 1>>] /\ g[k - 1] \in S
        BY <1>9, <4>1 DEF Loop
      <4>3. QED BY <3>2, <4>1, <4>2
    <3>3. QED BY <3>1, <3>2
  <2>2. g = [k \in 0 .. count |-> g[k]]
    BY <1>9 DEF Loop
  <2>3. QED BY <2>1, <2>2
<1>11. Run(c)
  BY <1>10, Zenon
<1> HIDE DEF c, F
<1>12. c[0] = start /\ \A k \in 0 .. count - 1 : c[k + 1] = Step(c[k], k)
  <2>1. \A k \in 0 .. count : c[k] = IF k = 0 THEN start ELSE Step(c[k - 1], k - 1)
    BY <1>11
  <2>2. 0 \in 0 .. count
    BY <1>3
  <2>3. ASSUME NEW k \in 0 .. count - 1 PROVE c[k + 1] = Step(c[k], k)
    <3>1. k + 1 \in 0 .. count /\ k + 1 # 0 /\ (k + 1) - 1 = k
      BY <1>3
    <3>2. QED BY <2>1, <3>1
  <2>4. QED BY <2>1, <2>2, <2>3
<1> DEFINE Kept(k) ==
             /\ c[k] \in S
             /\ \A i \in k .. count - 1 : c[k].out[i] = p[i]
             /\ Value(c[k].out, count, base) + c[k].carry * Power(base, k) =
                  x.n + sign * Value(q, k, base)
           T == {k \in Nat : k <= count => Kept(k)}
<1>13. 0 \in T
  <2>1. c[0].out = p /\ c[0].carry = 0
    BY <1>12 DEF start
  <2>2. Power(base, 0) = 1
    BY <1>3, PowerIs
  <2>3. q \in Row(count)
    BY <1>5 DEF Figures, Row
  <2>4. Value(q, 0, base) = 0
    BY <1>3, <2>3, ValueIs
  <2>5. 0 * Power(base, 0) = 0 /\ sign * 0 = 0
    BY <2>2
  <2>6. QED BY <1>2, <1>6, <1>8, <1>12, <2>1, <2>4, <2>5
<1>14. ASSUME NEW k \in Nat, k \in T PROVE k + 1 \in T
  <2> HIDE DEF Kept
  <2>1. SUFFICES ASSUME k + 1 <= count PROVE Kept(k + 1)
    OBVIOUS
  <2>2. k \in 0 .. count - 1 /\ Kept(k)
    BY <1>3, <1>14, <2>1
  <2> USE DEF Kept
  <2> DEFINE a == c[k]
             e == c[k + 1]
             s == Total(a, k)
             r == s % base
             w == Power(base, k)
             v == Value(a.out, count, base)
  <2>3. a \in S /\ e = Step(a, k)
    BY <1>12, <2>2
  <2> HIDE DEF S, Total, Kept
  <2>4. /\ e \in S /\ p[k] \in Int /\ q[k] \in Int /\ s \in Int /\ s = base * e.carry + r
        /\ r \in 0 .. base - 1 /\ e.out = [a.out EXCEPT ![k] = r]
    BY <1>7, <2>2, <2>3
  <2> USE DEF S, Total, Kept
  <2>5. a.out \in Row(count) /\ a.carry \in Int /\ e.carry \in Int /\ q \in Row(count) /\ r \in Int
    BY <1>5, <2>3, <2>4 DEF Figures, Row
  <2>6. a.out[k] = p[k] /\ \A i \in k + 1 .. count - 1 : e.out[i] = p[i]
    <3>1. \A i \in k .. count - 1 : a.out[i] = p[i]
      BY <2>2
    <3>2. \A i \in k + 1 .. count - 1 : i \in k .. count - 1 /\ i # k /\ i \in 0 .. count - 1
      BY <2>2
    <3>3. \A i \in 0 .. count - 1 : i # k => e.out[i] = a.out[i]
      BY <2>4, <2>5 DEF Row
    <3>4. k \in k .. count - 1
      BY <2>2
    <3>5. QED BY <3>1, <3>2, <3>3, <3>4
  <2>7. w \in Nat /\ Power(base, k + 1) = base * w
    BY <1>3, PowerIs
  <2>8. v \in Int
    BY <1>3, <2>5, ValueIs
  <2>9. Value(e.out, count, base) = v + (r - p[k]) * w
    <3>1. count \in Nat /\ k < count
      BY <1>3, <2>2
    <3>2. Altered(a.out, e.out, k, r)
      BY <2>4, <2>5 DEF Altered
    <3>3. Value(e.out, count, base) = v + (r - a.out[k]) * w
      BY <1>3, <2>2, <2>4, <2>5, <3>1, <3>2, ValueChanged
    <3>4. QED BY <2>6, <3>3
  <2>10. Value(q, k + 1, base) = Value(q, k, base) + q[k] * w /\ Value(q, k, base) \in Int
    BY <1>3, <2>2, <2>5, ValueIs
  <2>11. v + a.carry * w = x.n + sign * Value(q, k, base)
    BY <2>2
  <2> DEFINE y1 == sign * q[k]
             z == Value(q, k, base)
             xd == p[k]
             qd == q[k]
             ca == a.carry
             ce == e.carry
  <2>12. y1 \in Int /\ s = xd + y1 + ca /\ xd \in Int /\ ca \in Int /\ ce \in Int /\ qd \in Int
    BY <2>4, <2>5
  <2> HIDE DEF y1, s, r, w, v, z, xd, qd, ca, ce
  <2>13. (v + (r - xd) * w) + ce * (base * w) = (v + ca * w) + y1 * w
    <3>1. base \in Int /\ s \in Int /\ r \in Int /\ w \in Int /\ v \in Int /\ s = base * ce + r
      BY <1>3, <2>4, <2>5, <2>7, <2>8 DEF ce
    <3>2. QED BY <2>12, <3>1, CarryStep
  <2>14. sign * (z + qd * w) = sign * z + y1 * w
    BY <2>4, <2>7, <2>10, <2>12 DEF y1, z, qd
  <2>15. y1 * w \in Int /\ sign * z \in Int /\ x.n \in Int
    BY <1>2, <2>7, <2>10, <2>12 DEF z
  <2>16. Value(e.out, count, base) + ce * (base * w) = x.n + sign * (z + qd * w)
    BY <2>9, <2>11, <2>13, <2>14, <2>15 DEF xd, ca, z
  <2>17. QED BY <2>4, <2>6, <2>7, <2>10, <2>16 DEF ce, z, qd
<1> HIDE DEF T
<1>15. count \in T
  BY <1>3, <1>13, <1>14, Induction
<1>16. Kept(count)
  BY <1>3, <1>15 DEF T
<1> DEFINE r == c[count].out
           t == -c[count].carry
           w == Power(base, count)
<1>17. r \in Figures(count, base) /\ c[count].carry \in Int
  BY <1>16
<1>18. Value(r, count, base) \in Nat
  BY <1>3, <1>17, ValueBounds
<1>19. Value(r, count, base) + c[count].carry * w = x.n + sign * y.n
  BY <1>6, <1>16
<1>20. w \in Nat /\ x.n + sign * y.n \in Int
  <2>1. w \in Nat
    BY <1>3, PowerIs
  <2>2. QED BY <1>2, <2>1
<1> DEFINE v == Value(r, count, base)
           ca == c[count].carry
           z == x.n + sign * y.n
<1>21. v = z + w * t /\ t \in Int
  <2>1. v \in Nat /\ ca \in Int /\ v + ca * w = z /\ w \in Nat /\ z \in Int
    BY <1>17, <1>18, <1>19, <1>20
  <2> HIDE DEF v, ca, z, w
  <2>2. w * (-ca) = -(ca * w) /\ ca * w \in Int
    BY <2>1
  <2>3. v = z + w * (-ca) /\ -ca \in Int
    BY <2>1, <2>2
  <2>4. QED BY <2>3 DEF ca
<1>22. AddGeneral(x, y, sign) = v
  BY <1>4
<1>23. w = Power(base, WordCount(width))
  BY <1>1 DEF count
<1> HIDE DEF v, z, w, t
<1>24. v \in Nat
  BY <1>18 DEF v
<1>25. QED BY <1>21, <1>22, <1>23, <1>24 DEF z

-----------------------------------------------------------------------------
(* Products *)

\* Two digits, a carry and a digit make a digit and a carry.
LEMMA ProductCarry ==
  ASSUME NEW b \in Nat \ {0}, NEW x \in 0 .. b - 1, NEW y \in 0 .. b - 1,
         NEW c \in 0 .. b - 1, NEW z \in 0 .. b - 1
  PROVE  /\ x * y + c + z \in Nat
         /\ (x * y + c + z) \div b \in 0 .. b - 1 /\ (x * y + c + z) % b \in 0 .. b - 1
         /\ x * y + c + z = b * ((x * y + c + z) \div b) + ((x * y + c + z) % b)
<1> DEFINE s == x * y + c + z
           d == s \div b
           r == s % b
<1>1. x * y \in Nat /\ x * y <= (b - 1) * (b - 1)
  <2>1. x * y <= (b - 1) * y
    BY MulMonotone
  <2>2. y * (b - 1) <= (b - 1) * (b - 1)
    BY MulMonotone
  <2>3. (b - 1) * y = y * (b - 1) /\ x * y \in Nat
    OBVIOUS
  <2>4. QED BY <2>1, <2>2, <2>3
<1>2. (b - 1) * (b - 1) = b * b - b - b + 1
  OBVIOUS
<1>3. s \in Nat /\ s < b * b
  BY <1>1, <1>2
<1> HIDE DEF s
<1>4. d \in Int /\ r \in 0 .. b - 1 /\ s = b * d + r /\ d \in Nat
  <2>1. ASSUME NEW z0 \in Nat
        PROVE  z0 \div b \in Nat /\ z0 % b \in 0 .. b - 1 /\ z0 = b * (z0 \div b) + (z0 % b)
    <3>1. z0 \in Int
      OBVIOUS
    <3>2. QED BY <3>1, DivMod
  <2>2. QED BY <1>3, <2>1
<1> HIDE DEF d, r
<1>5. d * b < b * b
  BY <1>3, <1>4
<1>6. d < b
  BY <1>4, <1>5, MulCancel
<1>7. QED BY <1>3, <1>4, <1>6 DEF d, r, s

\* One more line: a digit of one number times the other is added at its place.
LEMMA LineIs ==
  ASSUME NEW plen \in Nat, NEW len \in Nat, NEW m \in Nat, NEW p \in Figures(m, base), plen <= m,
         NEW q, NEW i \in Nat, q[i] \in 0 .. base - 1, i + plen < len,
         NEW dst \in Figures(len, base)
  PROVE  LET out == Line(p, plen, q, i, dst)
         IN  /\ out \in Figures(len, base)
             /\ \A k \in i + plen + 1 .. len - 1 : out[k] = dst[k]
             /\ Value(out, len, base) =
                  (Value(dst, len, base) + (Value(p, plen, base) * q[i]) * Power(base, i))
                    - dst[i + plen] * Power(base, i + plen)
<1> DEFINE start == [carry |-> 0, out |-> dst]
           Total(a, j) == p[j] * q[i] + a.carry + a.out[i + j]
           Term(acc, j) ==
             LET sum == p[j] * q[i] + acc.carry + acc.out[i + j]
             IN  [carry |-> sum \div base, out |-> [acc.out EXCEPT ![i + j] = sum % base]]
           S == [carry : 0 .. base - 1, out : Figures(len, base)]
           F == [a \in S \X (0 .. plen - 1) |-> Term(a[1], a[2])]
           Run(g) == g = [k \in 0 .. plen |-> IF k = 0 THEN start ELSE Term(g[k - 1], k - 1)]
           c == CHOOSE g : Run(g)
           end == c[plen]
<1>1. base \in Nat \ {0}
  BY HalfIs
<1>2. Line(p, plen, q, i, dst) = [end.out EXCEPT ![i + plen] = end.carry]
  BY DEF Line, Ascending
<1>3. ASSUME NEW a \in S, NEW j \in 0 .. plen - 1
      PROVE  /\ Term(a, j) \in S /\ Total(a, j) \in Int
             /\ Total(a, j) = base * Term(a, j).carry + (Total(a, j) % base)
             /\ Total(a, j) % base \in 0 .. base - 1
             /\ Term(a, j).out = [a.out EXCEPT ![i + j] = Total(a, j) % base]
  <2> DEFINE z == Total(a, j)
  <2>1. /\ p[j] \in 0 .. base - 1 /\ a.carry \in 0 .. base - 1 /\ a.out[i + j] \in 0 .. base - 1
        /\ a.out \in Figures(len, base) /\ i + j \in 0 .. len - 1
    BY DEF Figures
  <2>2. /\ z \in Nat /\ z \div base \in 0 .. base - 1 /\ z % base \in 0 .. base - 1
        /\ z = base * (z \div base) + (z % base)
    <3> DEFINE x1 == p[j]
               y1 == q[i]
               c1 == a.carry
               d1 == a.out[i + j]
    <3>1. /\ x1 \in 0 .. base - 1 /\ y1 \in 0 .. base - 1
          /\ c1 \in 0 .. base - 1 /\ d1 \in 0 .. base - 1
      BY <2>1
    <3>2. z = x1 * y1 + c1 + d1
      OBVIOUS
    <3> HIDE DEF x1, y1, c1, d1, z
    <3>3. QED BY <1>1, <3>1, <3>2, ProductCarry
  <2>3. Term(a, j) = [carry |-> z \div base, out |-> [a.out EXCEPT ![i + j] = z % base]]
    OBVIOUS
  <2> HIDE DEF z, Term
  <2>4. [a.out EXCEPT ![i + j] = z % base] \in Figures(len, base)
    BY <2>1, <2>2 DEF Figures
  <2>5. Term(a, j).carry = z \div base /\ Term(a, j).out = [a.out EXCEPT ![i + j] = z % base]
    BY <2>3
  <2>6. Term(a, j) \in S
    BY <2>2, <2>3, <2>4
  <2>7. z \in Int
    BY <2>2
  <2> HIDE DEF S, Total
  <2>8. QED BY <2>2, <2>5, <2>6, <2>7 DEF z
<1>4. start \in S
  BY <1>1
<1> HIDE DEF Term, start
<1>5. PICK g : Loop(S, start, F, plen, g)
  <2>1. Stays(S, F, plen)
    BY <1>3 DEF Stays
  <2> HIDE DEF S, F
  <2>2. QED BY <1>4, <2>1, LoopRuns
<1>6. Run(g)
  <2>1. ASSUME NEW k \in 0 .. plen
        PROVE  g[k] = IF k = 0 THEN start ELSE Term(g[k - 1], k - 1)
    <3>1. CASE k = 0
      BY <1>5, <3>1 DEF Loop
    <3>2. CASE k # 0
      <4>1. k - 1 \in 0 .. plen - 1 /\ (k - 1) + 1 = k /\ k - 1 \in 0 .. plen
        BY <3>2
      <4>2. g[k] = F[<<g[k - 1], k - 1>>] /\ g[k - 1] \in S
        BY <1>5, <4>1 DEF Loop
      <4>3. QED BY <3>2, <4>1, <4>2
    <3>3. QED BY <3>1, <3>2
  <2>2. g = [k \in 0 .. plen |-> g[k]]
    BY <1>5 DEF Loop
  <2>3. QED BY <2>1, <2>2
<1>7. Run(c)
  BY <1>6, Zenon
<1> HIDE DEF c, F
<1>8. c[0] = start /\ \A k \in 0 .. plen - 1 : c[k + 1] = Term(c[k], k)
  <2>1. \A k \in 0 .. plen : c[k] = IF k = 0 THEN start ELSE Term(c[k - 1], k - 1)
    BY <1>7
  <2>2. 0 \in 0 .. plen
    OBVIOUS
  <2>3. ASSUME NEW k \in 0 .. plen - 1 PROVE c[k + 1] = Term(c[k], k)
    <3>1. k + 1 \in 0 .. plen /\ k + 1 # 0 /\ (k + 1) - 1 = k
      OBVIOUS
    <3>2. QED BY <2>1, <3>1
  <2>4. QED BY <2>1, <2>2, <2>3
<1> DEFINE Kept(k) ==
             /\ c[k] \in S
             /\ \A l \in i + plen .. len - 1 : c[k].out[l] = dst[l]
             /\ Value(c[k].out, len, base) + c[k].carry * Power(base, i + k) =
                  Value(dst, len, base) + (Value(p, k, base) * q[i]) * Power(base, i)
           T == {k \in Nat : k <= plen => Kept(k)}
<1>9. p \in Row(m) /\ dst \in Row(len) /\ q[i] \in Int /\ Value(dst, len, base) \in Int
  <2>1. p \in Row(m) /\ dst \in Row(len) /\ q[i] \in Int
    BY DEF Figures, Row
  <2>2. QED BY <1>1, <2>1, ValueIs
<1>10. 0 \in T
  <2>1. c[0].out = dst /\ c[0].carry = 0
    BY <1>8 DEF start
  <2>2. Value(p, 0, base) = 0
    BY <1>1, <1>9, ValueIs
  <2>3. Power(base, i) \in Nat /\ i + 0 = i
    BY <1>1, PowerIs
  <2>4. 0 * Power(base, i) = 0 /\ (0 * q[i]) * Power(base, i) = 0
    BY <1>9, <2>3
  <2>5. QED BY <1>4, <1>8, <1>9, <2>1, <2>2, <2>3, <2>4
<1>11. ASSUME NEW k \in Nat, k \in T PROVE k + 1 \in T
  <2> HIDE DEF Kept
  <2>1. SUFFICES ASSUME k + 1 <= plen PROVE Kept(k + 1)
    OBVIOUS
  <2>2. k \in 0 .. plen - 1 /\ Kept(k)
    BY <1>11, <2>1
  <2> USE DEF Kept
  <2> DEFINE a == c[k]
             e == c[k + 1]
             s == Total(a, k)
             r == s % base
             w == Power(base, i + k)
             v == Value(a.out, len, base)
  <2>3. a \in S /\ e = Term(a, k)
    BY <1>8, <2>2
  <2> HIDE DEF S, Total, Kept
  <2>4. /\ e \in S /\ s \in Int /\ s = base * e.carry + r
        /\ r \in 0 .. base - 1 /\ e.out = [a.out EXCEPT ![i + k] = r]
    BY <1>3, <2>2, <2>3
  <2> USE DEF S, Total, Kept
  <2>5. /\ a.out \in Row(len) /\ a.carry \in Int /\ e.carry \in Int /\ r \in Int
        /\ p[k] \in Int /\ a.out[i + k] \in Int /\ i + k \in 0 .. len - 1
    <3>1. i + k \in 0 .. len - 1
      BY <2>2
    <3>2. a.carry \in Int /\ e.carry \in Int
      BY <2>3, <2>4
    <3>3. a.out \in Figures(len, base)
      BY <2>3
    <3>4. a.out \in Row(len)
      BY <3>3 DEF Figures, Row
    <3>5. a.out[i + k] \in Int
      BY <3>1, <3>4 DEF Row
    <3> HIDE DEF r, a, e
    <3>6. r \in Int
      BY <2>4
    <3>7. k \in 0 .. m - 1
      BY <2>2
    <3>8. p[k] \in Int
      BY <1>9, <3>7 DEF Row
    <3>9. QED BY <3>1, <3>2, <3>4, <3>5, <3>6, <3>8
  <2>6. \A l \in i + plen .. len - 1 : e.out[l] = dst[l]
    <3>1. \A l \in i + plen .. len - 1 : a.out[l] = dst[l]
      BY <2>2
    <3>2. \A l \in i + plen .. len - 1 : l # i + k /\ l \in 0 .. len - 1
      BY <2>2
    <3>3. \A l \in 0 .. len - 1 : l # i + k => e.out[l] = a.out[l]
      BY <2>4, <2>5 DEF Row
    <3>4. QED BY <3>1, <3>2, <3>3
  <2> DEFINE wi == Power(base, i)
             wk == Power(base, k)
  <2>7. w \in Nat /\ wi \in Nat /\ wk \in Nat /\ w = wi * wk
    <3>1. i + k \in Nat
      OBVIOUS
    <3>2. base \in Nat
      BY <1>1
    <3>3. w = wi * wk
      BY <3>2, PowerSum
    <3>4. wi \in Nat /\ wk \in Nat
      BY <3>2, PowerIs
    <3>5. w \in Nat
      BY <3>1, <3>2, PowerIs
    <3>6. QED BY <3>3, <3>4, <3>5
  <2>8. Power(base, i + (k + 1)) = base * w
    <3>1. i + k \in Nat /\ i + (k + 1) = (i + k) + 1
      OBVIOUS
    <3>2. QED BY <1>1, <3>1, PowerIs
  <2>9. v \in Int
    BY <1>1, <2>5, ValueIs
  <2>10. Value(e.out, len, base) = v + (r - a.out[i + k]) * w
    <3> DEFINE l == i + k
    <3>1. l \in 0 .. len - 1 /\ len <= len /\ ~(len <= l)
      BY <2>5
    <3> DEFINE o1 == a.out
               o2 == e.out
    <3>4. o2 = [o1 EXCEPT ![l] = r] /\ o1 \in Row(len) /\ r \in Int
      BY <2>4, <2>5
    <3> HIDE DEF l, r, o1, o2
    <3>6. l \in Nat /\ l < len /\ Altered(o1, o2, l, r)
      BY <3>1, <3>4 DEF Altered
    <3>5. Value(o2, len, base) = Value(o1, len, base) + (r - o1[l]) * Power(base, l)
      BY <1>1, <3>4, <3>6, ValueChanged
    <3>2. Value(e.out, len, base) = v + (r - a.out[l]) * Power(base, l)
      BY <3>5 DEF o1, o2
    <3>3. QED BY <3>2 DEF l
  <2>11. Value(p, k + 1, base) = Value(p, k, base) + p[k] * wk /\ Value(p, k, base) \in Int
    <3>1. k \in 0 .. m - 1 /\ k \in 0 .. m
      BY <2>2
    <3>2. QED BY <1>1, <1>9, <3>1, ValueIs
  <2>12. v + a.carry * w = Value(dst, len, base) + (Value(p, k, base) * q[i]) * wi
    BY <2>2
  <2> DEFINE y1 == p[k] * q[i]
             z == Value(p, k, base)
             xd == a.out[i + k]
             pd == p[k]
             qd == q[i]
             ca == a.carry
             ce == e.carry
             o == Value(dst, len, base)
  <2>13. /\ y1 \in Int /\ s = xd + y1 + ca /\ xd \in Int /\ ca \in Int /\ ce \in Int
         /\ qd \in Int /\ pd \in Int /\ y1 = pd * qd /\ o \in Int /\ z \in Int
    BY <1>9, <2>5, <2>11
  <2> HIDE DEF y1, s, r, w, v, z, xd, qd, pd, ca, ce, o, wi, wk
  <2>14. (v + (r - xd) * w) + ce * (base * w) = (v + ca * w) + y1 * w
    <3>1. base \in Int /\ s \in Int /\ r \in Int /\ w \in Int /\ v \in Int /\ s = base * ce + r
      BY <1>1, <2>4, <2>5, <2>7, <2>9 DEF ce
    <3>2. QED BY <2>13, <3>1, CarryStep
  <2>15. ((z + pd * wk) * qd) * wi = (z * qd) * wi + y1 * w
    BY <2>7, <2>13
  <2>16. y1 * w \in Int /\ (z * qd) * wi \in Int
    BY <2>7, <2>13
  <2>17. Value(e.out, len, base) + ce * (base * w) = o + ((z + pd * wk) * qd) * wi
    BY <2>10, <2>12, <2>13, <2>14, <2>15, <2>16 DEF xd, ca, z, o, qd
  <2>18. QED BY <2>4, <2>6, <2>8, <2>11, <2>17 DEF ce, z, pd, qd, o, wi
<1> HIDE DEF T
<1>12. plen \in T
  BY <1>10, <1>11, Induction
<1>13. Kept(plen)
  BY <1>12 DEF T
<1> DEFINE l == i + plen
           out == Line(p, plen, q, i, dst)
<1>14. l \in 0 .. len - 1
  OBVIOUS
<1>15. end.out \in Figures(len, base) /\ end.carry \in 0 .. base - 1
  BY <1>13
<1>16. end.out[l] = dst[l] /\ \A k \in l .. len - 1 : end.out[k] = dst[k]
  BY <1>13, <1>14
<1>17. Value(end.out, len, base) + end.carry * Power(base, l) =
         Value(dst, len, base) + (Value(p, plen, base) * q[i]) * Power(base, i)
  BY <1>13
<1>18. out = [end.out EXCEPT ![l] = end.carry]
  BY <1>2
<1> HIDE DEF end, l, out
<1>19. out \in Figures(len, base) /\ \A k \in 0 .. len - 1 : k # l => out[k] = end.out[k]
  BY <1>14, <1>15, <1>18 DEF Figures
<1>20. Value(out, len, base) = Value(end.out, len, base) + (end.carry - dst[l]) * Power(base, l)
  <2>1. end.out \in Row(len) /\ end.carry \in Int /\ len <= len /\ ~(len <= l)
    BY <1>14, <1>15 DEF Figures, Row
  <2>2. Value(out, len, base) =
          Value(end.out, len, base) + (end.carry - end.out[l]) * Power(base, l)
    <3>1. Altered(end.out, out, l, end.carry) /\ l \in Nat /\ l < len
      BY <1>14, <1>18 DEF Altered
    <3>2. QED BY <1>1, <2>1, <3>1, ValueChanged
  <2>3. QED BY <1>16, <2>2
<1>21. \A k \in i + plen + 1 .. len - 1 : out[k] = dst[k]
  <2>1. \A k \in i + plen + 1 .. len - 1 : k \in l .. len - 1 /\ k \in 0 .. len - 1 /\ k # l
    BY DEF l
  <2>2. QED BY <1>16, <1>19, <2>1
<1>22. Value(out, len, base) =
         (Value(dst, len, base) + (Value(p, plen, base) * q[i]) * Power(base, i))
           - dst[l] * Power(base, l)
  <2> DEFINE v == Value(end.out, len, base)
             ce == end.carry
             de == dst[l]
             w == Power(base, l)
             o == Value(dst, len, base) + (Value(p, plen, base) * q[i]) * Power(base, i)
  <2>1. v \in Int /\ ce \in Int /\ de \in Int /\ w \in Int
    <3>1. end.out \in Row(len) /\ ce \in Int /\ de \in Int
      BY <1>9, <1>14, <1>15 DEF Figures, Row
    <3>2. l \in Nat
      BY <1>14
    <3>3. w \in Nat
      BY <1>1, <3>2, PowerIs
    <3>4. v \in Int
      <4>1. len \in 0 .. len
        BY <1>1
      <4>2. QED BY <1>1, <3>1, <4>1, ValueIs
    <3>5. QED BY <3>1, <3>3, <3>4
  <2>2. v + ce * w = o
    BY <1>17
  <2>3. Value(out, len, base) = v + (ce - de) * w
    BY <1>20
  <2> HIDE DEF v, ce, de, w, o
  <2>4. v + (ce - de) * w = o - de * w
    BY <2>1, <2>2
  <2>5. QED BY <2>3, <2>4 DEF de, w, o
<1>23. QED BY <1>19, <1>21, <1>22 DEF out, l

\* The product of two numbers, line by line.
LEMMA MulIs ==
  ASSUME NEW plen \in Nat, NEW qlen \in Nat, qlen > 0, NEW m \in Nat, NEW l \in Nat,
         plen <= m, qlen <= l, NEW p \in Figures(m, base), NEW q \in Figures(l, base)
  PROVE  /\ Mul(p, plen, q, qlen) \in Figures(plen + qlen, base)
         /\ Value(Mul(p, plen, q, qlen), plen + qlen, base) =
              Value(p, plen, base) * Value(q, qlen, base)
<1> DEFINE len == plen + qlen
           start == [i \in 0 .. len - 1 |-> 0]
           Term(dst, i) == Line(p, plen, q, i, dst)
           S == Figures(len, base)
           F == [a \in S \X (0 .. qlen - 1) |-> Term(a[1], a[2])]
           Run(g) == g = [k \in 0 .. qlen |-> IF k = 0 THEN start ELSE Term(g[k - 1], k - 1)]
           c == CHOOSE g : Run(g)
<1>1. base \in Nat \ {0} /\ len \in Nat
  BY HalfIs
<1>2. Mul(p, plen, q, qlen) = c[qlen]
  BY DEF Mul, Ascending
<1> DEFINE pv == Value(p, plen, base)
<1>3. ASSUME NEW a \in S, NEW j \in 0 .. qlen - 1
      PROVE  /\ Term(a, j) \in S
             /\ \A k \in j + plen + 1 .. len - 1 : Term(a, j)[k] = a[k]
             /\ Value(Term(a, j), len, base) =
                  (Value(a, len, base) + (pv * q[j]) * Power(base, j))
                    - a[j + plen] * Power(base, j + plen)
  <2>1. q[j] \in 0 .. base - 1 /\ j + plen < len /\ j \in Nat
    BY DEF Figures
  <2> HIDE DEF len
  <2>2. QED BY <1>1, <2>1, LineIs
<1>4. start \in S
  BY <1>1 DEF Figures
<1> HIDE DEF Term, start
<1>5. PICK g : Loop(S, start, F, qlen, g)
  <2>1. Stays(S, F, qlen)
    BY <1>3 DEF Stays
  <2> HIDE DEF S, F
  <2>2. QED BY <1>4, <2>1, LoopRuns
<1>6. Run(g)
  <2>1. ASSUME NEW k \in 0 .. qlen
        PROVE  g[k] = IF k = 0 THEN start ELSE Term(g[k - 1], k - 1)
    <3>1. CASE k = 0
      BY <1>5, <3>1 DEF Loop
    <3>2. CASE k # 0
      <4>1. k - 1 \in 0 .. qlen - 1 /\ (k - 1) + 1 = k /\ k - 1 \in 0 .. qlen
        BY <3>2
      <4>2. g[k] = F[<<g[k - 1], k - 1>>] /\ g[k - 1] \in S
        BY <1>5, <4>1 DEF Loop
      <4>3. QED BY <3>2, <4>1, <4>2
    <3>3. QED BY <3>1, <3>2
  <2>2. g = [k \in 0 .. qlen |-> g[k]]
    BY <1>5 DEF Loop
  <2>3. QED BY <2>1, <2>2
<1>7. Run(c)
  BY <1>6, Zenon
<1> HIDE DEF c, F
<1>8. c[0] = start /\ \A k \in 0 .. qlen - 1 : c[k + 1] = Term(c[k], k)
  <2>1. \A k \in 0 .. qlen : c[k] = IF k = 0 THEN start ELSE Term(c[k - 1], k - 1)
    BY <1>7
  <2>2. 0 \in 0 .. qlen
    OBVIOUS
  <2>3. ASSUME NEW k \in 0 .. qlen - 1 PROVE c[k + 1] = Term(c[k], k)
    <3>1. k + 1 \in 0 .. qlen /\ k + 1 # 0 /\ (k + 1) - 1 = k
      OBVIOUS
    <3>2. QED BY <2>1, <3>1
  <2>4. QED BY <2>1, <2>2, <2>3
<1> DEFINE Kept(k) ==
             /\ c[k] \in S
             /\ \A l0 \in k + plen .. len - 1 : c[k][l0] = 0
             /\ Value(c[k], len, base) = pv * Value(q, k, base)
           T == {k \in Nat : k <= qlen => Kept(k)}
<1>9. q \in Row(l) /\ p \in Row(m) /\ pv \in Int
  <2>1. q \in Row(l) /\ p \in Row(m)
    BY <1>1 DEF Figures, Row
  <2>2. QED BY <1>1, <2>1, ValueIs
<1>10. 0 \in T
  <2>1. \A l0 \in 0 .. len - 1 : start[l0] = 0
    BY DEF start
  <2>2. start \in Row(len)
    BY <1>1, <1>4 DEF Figures, Row
  <2>3. Value(start, 0, base) = 0 /\ Value(q, 0, base) = 0
    BY <1>1, <1>9, <2>2, ValueIs
  <2> HIDE DEF len
  <2>4. Value(start, len, base) = Value(start, 0, base)
    <3>1. 0 <= len /\ len <= len
      BY <1>1
    <3>2. QED BY <1>1, <2>1, <2>2, <3>1, ValueZero
  <2>5. pv * 0 = 0
    BY <1>9
  <2>6. \A l0 \in 0 + plen .. len - 1 : l0 \in 0 .. len - 1
    BY <1>1
  <2>7. QED BY <1>4, <1>8, <2>1, <2>3, <2>4, <2>5, <2>6
<1>11. ASSUME NEW k \in Nat, k \in T PROVE k + 1 \in T
  <2> HIDE DEF Kept
  <2>1. SUFFICES ASSUME k + 1 <= qlen PROVE Kept(k + 1)
    OBVIOUS
  <2>2. k \in 0 .. qlen - 1 /\ Kept(k)
    BY <1>11, <2>1
  <2> USE DEF Kept
  <2>3. c[k] \in S /\ c[k + 1] = Term(c[k], k)
    BY <1>8, <2>2
  <2>4. c[k][k + plen] = 0
    BY <2>2
  <2> DEFINE w == Power(base, k)
             z == Value(q, k, base)
             d == q[k]
             wl == Power(base, k + plen)
  <2>5. w \in Nat /\ wl \in Nat /\ z \in Int /\ d \in Int
    <3>1. k + plen \in Nat /\ k \in 0 .. l - 1 /\ k \in 0 .. l
      BY <2>2
    <3>2. w \in Nat
      BY <1>1, PowerIs
    <3>3. wl \in Nat
      BY <1>1, <3>1, PowerIs
    <3>4. z \in Int
      BY <1>1, <1>9, <3>1, ValueIs
    <3>5. d \in Int
      BY <1>9, <3>1 DEF Row
    <3>6. QED BY <3>2, <3>3, <3>4, <3>5
  <2>6. Value(q, k + 1, base) = z + d * w
    <3>1. k \in 0 .. l - 1
      BY <2>2
    <3>2. QED BY <1>1, <1>9, <3>1, ValueIs
  <2>7. Value(c[k], len, base) = pv * z
    BY <2>2
  <2>8. Value(c[k + 1], len, base) = (pv * z + (pv * d) * w) - 0 * wl
    BY <1>3, <2>2, <2>3, <2>4, <2>7
  <2>9. c[k + 1] \in S
    BY <1>3, <2>2, <2>3
  <2>10. \A l0 \in (k + 1) + plen .. len - 1 : c[k + 1][l0] = 0
    <3>1. \A l0 \in (k + 1) + plen .. len - 1 :
            l0 \in k + plen + 1 .. len - 1 /\ l0 \in k + plen .. len - 1
      BY <2>2
    <3>2. \A l0 \in k + plen + 1 .. len - 1 : c[k + 1][l0] = c[k][l0]
      BY <1>3, <2>2, <2>3
    <3>3. \A l0 \in k + plen .. len - 1 : c[k][l0] = 0
      BY <2>2
    <3>4. QED BY <3>1, <3>2, <3>3
  <2> HIDE DEF w, z, d, wl, pv
  <2>11. (pv * z + (pv * d) * w) - 0 * wl = pv * (z + d * w)
    BY <1>9, <2>5
  <2>12. QED BY <2>6, <2>8, <2>9, <2>10, <2>11
<1> HIDE DEF T
<1>12. qlen \in T
  BY <1>10, <1>11, Induction
<1>13. Kept(qlen)
  BY <1>12 DEF T
<1>14. QED BY <1>2, <1>13

\* How many digits are in use, and that the digits that are counted hold the number.
LEMMA ActiveIs ==
  ASSUME NEW b \in Nat, b >= 2, NEW n \in Nat
  PROVE  LET k == ActiveDigits(n, b)
         IN  /\ k \in Nat /\ n < Power(b, k)
             /\ k # 0 => Power(b, k - 1) <= n
             /\ k = 0 <=> n = 0
<1> DEFINE S == {k \in Nat : n < Power(b, k)}
           k == ActiveDigits(n, b)
<1>1. n \in S
  BY PowerAbove
<1>2. IsWellFoundedOn(Before, Nat)
  BY NatLessThanWellFounded DEF OpToRel, Before
<1>3. PICK j \in S : \A i \in S : <<i, j>> \notin Before
  <2>1. S # {} /\ S \subseteq Nat
    BY <1>1
  <2> HIDE DEF S
  <2>2. QED BY <1>2, <2>1, WFMin
<1>4. j \in 0 .. n
  <2>1. <<n, j>> \notin Before
    BY <1>1, <1>3
  <2>2. QED BY <1>3, <2>1 DEF Before
<1>5. n < Power(b, j) /\ (j = 0 \/ Power(b, j - 1) <= n)
  <2>1. CASE j # 0
    <3>1. j - 1 \in Nat /\ <<j - 1, j>> \in Before
      BY <1>3, <2>1 DEF Before
    <3>2. j - 1 \notin S
      BY <1>3, <3>1
    <3>3. ~(n < Power(b, j - 1)) /\ Power(b, j - 1) \in Nat
      BY <3>1, <3>2, PowerIs
    <3>4. QED BY <1>3, <3>3
  <2>2. QED BY <1>3, <2>1
<1>6. \E i \in 0 .. n : n < Power(b, i) /\ (i = 0 \/ Power(b, i - 1) <= n)
  BY <1>4, <1>5
<1>7. k \in 0 .. n /\ n < Power(b, k) /\ (k = 0 \/ Power(b, k - 1) <= n)
  BY <1>6, Zenon DEF ActiveDigits
<1> HIDE DEF k
<1>8. k = 0 => n = 0
  <2>1. Power(b, 0) = 1
    BY PowerIs
  <2>2. QED BY <1>7, <2>1
<1>9. k # 0 => n # 0
  <2>1. ASSUME k # 0 PROVE n # 0
    <3>1. k - 1 \in Nat /\ b \in Nat \ {0}
      BY <1>7, <2>1
    <3>2. Power(b, k - 1) \in Nat \ {0}
      BY <3>1, PowerPositive
    <3>3. QED BY <1>7, <2>1, <3>2
  <2>2. QED BY <2>1
<1>10. QED BY <1>7, <1>8, <1>9 DEF k

\* A number below a power has no more digits than the exponent says.
LEMMA ActiveBelow ==
  ASSUME NEW b \in Nat, b >= 2, NEW n \in Nat, NEW m \in Nat, n < Power(b, m)
  PROVE  ActiveDigits(n, b) <= m
<1> DEFINE k == ActiveDigits(n, b)
<1>1. k \in Nat /\ (k # 0 => Power(b, k - 1) <= n)
  BY ActiveIs
<1> HIDE DEF k
<1>2. SUFFICES ASSUME k > m PROVE FALSE
  BY <1>1 DEF k
<1>3. k - 1 \in Nat /\ m <= k - 1 /\ b \in Nat \ {0}
  BY <1>1, <1>2
<1>4. Power(b, m) <= Power(b, k - 1)
  BY <1>3, PowerMonotone
<1>5. Power(b, m) \in Nat /\ Power(b, k - 1) \in Nat
  BY <1>3, PowerIs
<1>6. QED BY <1>1, <1>2, <1>4, <1>5

\* A number that reaches a power has more digits than the exponent says.
LEMMA ActiveAbove ==
  ASSUME NEW b \in Nat, b >= 2, NEW n \in Nat, NEW m \in Nat, Power(b, m) <= n
  PROVE  m < ActiveDigits(n, b)
<1> DEFINE k == ActiveDigits(n, b)
<1>1. k \in Nat /\ n < Power(b, k)
  BY ActiveIs
<1> HIDE DEF k
<1>2. SUFFICES ASSUME k <= m PROVE FALSE
  BY <1>1 DEF k
<1>3. Power(b, k) <= Power(b, m)
  BY <1>1, <1>2, PowerMonotone
<1>4. Power(b, m) \in Nat /\ Power(b, k) \in Nat
  BY <1>1, PowerIs
<1>5. QED BY <1>1, <1>3, <1>4

\* The digits that are counted make up the number.
LEMMA ActiveValue ==
  ASSUME NEW b \in Nat, b >= 2, NEW n \in Nat, NEW m \in Nat, n < Power(b, m),
         NEW k \in Nat, k <= m, n < Power(b, k)
  PROVE  Digits(n, m, b) \in Figures(m, b) /\ Value(Digits(n, m, b), k, b) = n
<1>1. b \in Nat \ {0} /\ k \in 0 .. m
  OBVIOUS
<1>2. /\ Digits(n, m, b) \in Figures(m, b)
      /\ Value(Digits(n, m, b), k, b) = n % Power(b, k)
  BY <1>1, ValueOfDigits
<1>3. Power(b, k) \in Nat \ {0}
  BY <1>1, PowerPositive
<1>4. n % Power(b, k) = n
  BY <1>3, ModSmall
<1>5. QED BY <1>2, <1>4

\* The digits from place n on stand for a multiple of the power of n.
LEMMA ValueAbove ==
  ASSUME NEW b \in Nat, NEW m \in Nat, NEW d \in Row(m), NEW n \in Nat, n <= m
  PROVE  \E t \in Int : Value(d, m, b) = Value(d, n, b) + Power(b, n) * t
<1> DEFINE P(k) == \E t \in Int : Value(d, n + k, b) = Value(d, n, b) + Power(b, n) * t
           T == {k \in Nat : n + k <= m => P(k)}
           w == Power(b, n)
           v == Value(d, n, b)
<1>1. w \in Nat /\ v \in Int
  <2>1. n \in 0 .. m
    OBVIOUS
  <2>2. v \in Int
    BY <2>1, ValueIs
  <2>3. w \in Nat
    BY PowerIs
  <2>4. QED BY <2>2, <2>3
<1>2. 0 \in T
  <2>1. n + 0 = n /\ v = v + w * 0
    BY <1>1
  <2>2. QED BY <2>1
<1>3. ASSUME NEW k \in Nat, k \in T PROVE k + 1 \in T
  <2> HIDE DEF P
  <2>1. SUFFICES ASSUME n + (k + 1) <= m PROVE P(k + 1)
    OBVIOUS
  <2>2. P(k) /\ n + k \in 0 .. m - 1 /\ n + (k + 1) = (n + k) + 1
    BY <1>3, <2>1
  <2>3. PICK t \in Int : Value(d, n + k, b) = v + w * t
    BY <2>2 DEF P
  <2> DEFINE i == n + k
  <2>4. i \in 0 .. m - 1
    BY <2>2
  <2> HIDE DEF i
  <2>5. Value(d, i + 1, b) = Value(d, i, b) + d[i] * Power(b, i) /\ d[i] \in Int
    BY <2>4, ValueIs DEF Row
  <2>6. Power(b, n + k) = w * Power(b, k) /\ Power(b, k) \in Nat
    <3>1. Power(b, n + k) = w * Power(b, k)
      BY PowerSum
    <3>2. Power(b, k) \in Nat
      BY PowerIs
    <3>3. QED BY <3>1, <3>2
  <2> DEFINE e == Power(b, k)
             f == d[i]
             z == t + e * f
  <2>7. Value(d, n + (k + 1), b) = (v + w * t) + f * (w * e)
    BY <2>2, <2>3, <2>5, <2>6 DEF i
  <2>8. e \in Nat /\ f \in Int
    BY <2>5, <2>6
  <2>9. z \in Int
    BY <2>8
  <2> HIDE DEF w, v, e, f
  <2>10. (v + w * t) + f * (w * e) = v + w * z
    BY <1>1, <2>8
  <2> HIDE DEF z
  <2>11. \E t0 \in Int : Value(d, n + (k + 1), b) = v + w * t0
    BY <2>7, <2>9, <2>10
  <2>12. QED BY <2>11 DEF P, v, w
<1> HIDE DEF T, P
<1>4. m - n \in T
  <2>1. m - n \in Nat
    OBVIOUS
  <2>2. QED BY <1>2, <1>3, <2>1, Induction
<1>5. n + (m - n) = m
  OBVIOUS
<1>6. P(m - n)
  BY <1>4, <1>5 DEF T
<1>7. QED BY <1>5, <1>6 DEF P

\* operator*=
LEMMA TimesIs ==
  ASSUME NEW width \in Nat \ {0}, NEW x \in Sum(width), NEW y \in Sum(width)
  PROVE  /\ Times(x, y).width = width /\ Times(x, y).signed = x.signed
         /\ Times(x, y).n = Clear(width, x.n * y.n)
<1> DEFINE count == WordCount(width)
           plen == ActiveDigits(x.n, base)
           qlen == ActiveDigits(y.n, base)
           p == Digits(x.n, count, base)
           q == Digits(y.n, count, base)
           dst == Mul(p, plen, q, qlen)
           kept == IF plen + qlen >= count THEN count ELSE plen + qlen
           xn == x.n
           yn == y.n
<1>1. base \in Nat /\ base >= 2 /\ base \in Nat \ {0} /\ count \in Nat
  BY HalfIs, WordsCover
<1>2. x.width = width /\ xn \in Nat /\ yn \in Nat /\ xn < Power(base, count) /\ yn < Power(base, count)
  BY FitsWords DEF Sum
<1>3. Times(x, y) = IF plen = 0 \/ qlen = 0 THEN [x EXCEPT !.n = 0]
                    ELSE [x EXCEPT !.n = Clear(width, Value(dst, kept, base))]
  BY <1>2 DEF Times
<1>4. plen \in Nat /\ xn < Power(base, plen) /\ plen <= count /\ (plen = 0 <=> xn = 0)
  <2> HIDE DEF xn, count
  <2>1. /\ ActiveDigits(xn, base) \in Nat /\ xn < Power(base, ActiveDigits(xn, base))
        /\ ActiveDigits(xn, base) = 0 <=> xn = 0
    BY <1>1, <1>2, ActiveIs
  <2>2. ActiveDigits(xn, base) <= count
    BY <1>1, <1>2, ActiveBelow
  <2>3. QED BY <2>1, <2>2 DEF xn
<1>5. qlen \in Nat /\ yn < Power(base, qlen) /\ qlen <= count /\ (qlen = 0 <=> yn = 0)
  <2> HIDE DEF yn, count
  <2>1. /\ ActiveDigits(yn, base) \in Nat /\ yn < Power(base, ActiveDigits(yn, base))
        /\ ActiveDigits(yn, base) = 0 <=> yn = 0
    BY <1>1, <1>2, ActiveIs
  <2>2. ActiveDigits(yn, base) <= count
    BY <1>1, <1>2, ActiveBelow
  <2>3. QED BY <2>1, <2>2 DEF yn
<1>6. Power(2, width) \in Nat \ {0} /\ 0 \in 0 .. Power(2, width) - 1
  BY WordsCover
<1>7. CASE plen = 0 \/ qlen = 0
  <2>1. Times(x, y).n = 0 /\ Times(x, y).width = width /\ Times(x, y).signed = x.signed
    BY <1>3, <1>7 DEF Sum
  <2>2. xn * yn = 0
    BY <1>2, <1>4, <1>5, <1>7
  <2>3. Clear(width, 0) = 0
    BY <1>6, ModSmall DEF Clear
  <2>4. QED BY <2>1, <2>2, <2>3
<1>8. CASE ~(plen = 0 \/ qlen = 0)
  <2>1. /\ Times(x, y).n = Clear(width, Value(dst, kept, base))
        /\ Times(x, y).width = width /\ Times(x, y).signed = x.signed
    BY <1>3, <1>8 DEF Sum
  <2>2. p \in Figures(count, base) /\ Value(p, plen, base) = xn
    <3> HIDE DEF xn, plen, count
    <3>1. Digits(xn, count, base) \in Figures(count, base) /\ Value(Digits(xn, count, base), plen, base) = xn
      BY <1>1, <1>2, <1>4, ActiveValue
    <3>2. QED BY <3>1 DEF xn
  <2>3. q \in Figures(count, base) /\ Value(q, qlen, base) = yn
    <3> HIDE DEF yn, qlen, count
    <3>1. Digits(yn, count, base) \in Figures(count, base) /\ Value(Digits(yn, count, base), qlen, base) = yn
      BY <1>1, <1>2, <1>5, ActiveValue
    <3>2. QED BY <3>1 DEF yn
  <2> HIDE DEF xn, yn, p, q, plen, qlen, count, dst
  <2>4. /\ dst \in Figures(plen + qlen, base)
        /\ Value(dst, plen + qlen, base) = xn * yn
    <3>1. qlen > 0
      BY <1>5, <1>8
    <3>2. /\ Mul(p, plen, q, qlen) \in Figures(plen + qlen, base)
          /\ Value(Mul(p, plen, q, qlen), plen + qlen, base) =
               Value(p, plen, base) * Value(q, qlen, base)
      BY <1>1, <1>4, <1>5, <2>2, <2>3, <3>1, MulIs
    <3>3. QED BY <2>2, <2>3, <3>2 DEF dst
  <2> DEFINE len == plen + qlen
             v == Value(dst, kept, base)
  <2>5. len \in Nat /\ dst \in Row(len)
    BY <1>1, <1>4, <1>5, <2>4 DEF Figures, Row
  <2>6. PICK t \in Int : xn * yn = v + Power(base, count) * t
    <3>1. CASE len >= count
      <4>1. kept = count /\ count <= len
        BY <1>1, <2>5, <3>1
      <4> HIDE DEF len
      <4>2. \E t \in Int : Value(dst, len, base) = Value(dst, count, base) + Power(base, count) * t
        BY <1>1, <2>5, <4>1, ValueAbove
      <4>3. QED BY <2>4, <4>1, <4>2 DEF len
    <3>2. CASE ~(len >= count)
      <4>1. kept = len
        BY <3>2
      <4>2. xn * yn = v
        BY <2>4, <4>1
      <4>3. xn * yn \in Int /\ Power(base, count) \in Nat
        BY <1>1, <1>2, PowerIs
      <4>4. xn * yn = v + Power(base, count) * 0
        BY <4>2, <4>3
      <4>5. QED BY <4>4
    <3>3. QED BY <3>1, <3>2
  <2>7. v \in Int /\ xn * yn \in Int
    <3>1. kept \in 0 .. len
      BY <1>1, <2>5
    <3> HIDE DEF len, kept
    <3>2. v \in Int
      BY <1>1, <2>5, <3>1, ValueIs
    <3>3. QED BY <1>2, <3>2
  <2> HIDE DEF v
  <2>8. Clear(width, xn * yn) = Clear(width, v)
    BY <2>6, <2>7, ClearWords DEF count
  <2>9. QED BY <2>1, <2>8 DEF v, xn, yn
<1>9. QED BY <1>7, <1>8

-----------------------------------------------------------------------------
(* Division by one digit *)

\* A remainder and a digit, divided by the divisor, give a digit and a remainder.
LEMMA PartialQuotient ==
  ASSUME NEW h \in Nat \ {0}, NEW y \in Nat \ {0}, NEW r \in 0 .. y - 1, NEW d \in 0 .. h - 1
  PROVE  /\ r * h + d \in Nat /\ (r * h + d) \div y \in 0 .. h - 1
         /\ (r * h + d) % y \in 0 .. y - 1
         /\ r * h + d = y * ((r * h + d) \div y) + ((r * h + d) % y)
<1> DEFINE s == r * h + d
           q == s \div y
<1>1. r * h <= (y - 1) * h
  BY MulMonotone
<1>2. (y - 1) * h = y * h - h /\ r * h \in Nat /\ y * h \in Nat
  OBVIOUS
<1>3. s \in Nat /\ s < y * h
  BY <1>1, <1>2
<1> HIDE DEF s
<1>4. q \in Nat /\ s % y \in 0 .. y - 1 /\ s = y * q + (s % y)
  <2>1. ASSUME NEW z \in Nat
        PROVE  z \div y \in Nat /\ z % y \in 0 .. y - 1 /\ z = y * (z \div y) + (z % y)
    <3>1. z \in Int
      OBVIOUS
    <3>2. QED BY <3>1, DivMod
  <2>2. QED BY <1>3, <2>1
<1> DEFINE e == s % y
<1> HIDE DEF q, e
<1>5. q * y < h * y
  <2>1. q * y = y * q /\ h * y = y * h
    BY <1>4
  <2>2. s = y * q + e /\ e >= 0 /\ y * q \in Int /\ e \in Int
    BY <1>4 DEF e
  <2>3. QED BY <1>2, <1>3, <2>1, <2>2
<1>6. q < h
  BY <1>4, <1>5, MulCancel
<1>7. q \in 0 .. h - 1
  BY <1>4, <1>6
<1>8. QED BY <1>3, <1>4, <1>7 DEF s, q

\* What one more place of the quotient does to the sum that is kept.
LEMMA PlaceDivided ==
  ASSUME NEW v \in Int, NEW u \in Int, NEW d \in Int, NEW q \in Int, NEW y \in Int,
         NEW r \in Int, NEW e \in Int, NEW h \in Int, NEW w \in Int,
         r * h + d = y * q + e
  PROVE  (((v + (q - d) * w) - u) * y + e * w) + u =
           ((v - (u + d * w)) * y + r * (h * w)) + (u + d * w)
<1>1. (((v + (q - d) * w) - u) * y + e * w) + u =
        (v - (u + d * w)) * y + (y * q + e) * w + u
  OBVIOUS
<1>2. (y * q + e) * w = (r * h) * w + d * w
  OBVIOUS
<1>3. (r * h) * w = r * (h * w)
  OBVIOUS
<1> DEFINE a == (v - (u + d * w)) * y
           b == (y * q + e) * w
           c == r * (h * w)
           f == d * w
<1>4. a \in Int /\ b \in Int /\ c \in Int /\ f \in Int
  OBVIOUS
<1>5. (((v + (q - d) * w) - u) * y + e * w) + u = a + b + u
  BY <1>1
<1>6. b = c + f
  BY <1>2, <1>3
<1> HIDE DEF a, b, c, f
<1>7. a + b + u = (a + c) + (u + f)
  BY <1>4, <1>6
<1>8. QED BY <1>5, <1>7 DEF a, c, f

\* Quotient and remainder, as the code returns them.
Divided(x, y) == [q |-> x \div y, r |-> x % y]

\* A division by one digit, place by place.
LEMMA ShortDivIs ==
  ASSUME NEW count \in Nat, NEW x \in Nat, x < Power(half, count), NEW y \in 1 .. half - 1
  PROVE  ShortDiv(x, y, count) = Divided(x, y)
<1> DEFINE u == Digits(x, count, half)
           start == [rem |-> 0, q |-> u]
           Part(a, i) == a.rem * half + u[i]
           Term(acc, i) ==
             LET partial == acc.rem * half + u[i]
             IN  [rem |-> partial % y, q |-> [acc.q EXCEPT ![i] = partial \div y]]
           S == [rem : 0 .. y - 1, q : Figures(count, half)]
           F == [a \in S \X (0 .. count - 1) |-> Term(a[1], count - (a[2] + 1))]
           Run(g) == g = [k \in 0 .. count |-> IF k = 0 THEN start ELSE Term(g[k - 1], count - k)]
           c == CHOOSE g : Run(g)
<1>1. half \in Nat \ {0} /\ y \in Nat \ {0}
  BY HalfIs
<1>2. ShortDiv(x, y, count) = [q |-> Value(c[count].q, count, half), r |-> c[count].rem]
  BY DEF ShortDiv, Descending
<1>20. u \in Figures(count, half) /\ Value(u, count, half) = x /\ u \in Row(count)
  <2>1. count <= count /\ half >= 2 /\ half \in Nat
    BY HalfIs
  <2>2. Digits(x, count, half) \in Figures(count, half) /\ Value(Digits(x, count, half), count, half) = x
    BY <2>1, ActiveValue
  <2>3. u \in Row(count)
    BY <2>1, <2>2 DEF Figures, Row
  <2>4. QED BY <2>2, <2>3
<1> HIDE DEF u
<1>3. ASSUME NEW a \in S, NEW j \in 0 .. count - 1
      PROVE  /\ Term(a, j) \in S /\ Part(a, j) \in Int
             /\ Part(a, j) = y * (Part(a, j) \div y) + Term(a, j).rem
             /\ Part(a, j) \div y \in 0 .. half - 1
             /\ Term(a, j).q = [a.q EXCEPT ![j] = Part(a, j) \div y]
  <2> DEFINE z == Part(a, j)
  <2>1. /\ a.rem \in 0 .. y - 1 /\ u[j] \in 0 .. half - 1 /\ a.q \in Figures(count, half)
    BY <1>20 DEF Figures
  <2>2. /\ z \in Nat /\ z \div y \in 0 .. half - 1 /\ z % y \in 0 .. y - 1
        /\ z = y * (z \div y) + (z % y)
    <3> DEFINE r1 == a.rem
               d1 == u[j]
    <3>1. r1 \in 0 .. y - 1 /\ d1 \in 0 .. half - 1 /\ z = r1 * half + d1
      BY <2>1
    <3> HIDE DEF r1, d1, z
    <3>2. QED BY <1>1, <3>1, PartialQuotient
  <2>3. Term(a, j) = [rem |-> z % y, q |-> [a.q EXCEPT ![j] = z \div y]]
    OBVIOUS
  <2> HIDE DEF z, Term
  <2>4. [a.q EXCEPT ![j] = z \div y] \in Figures(count, half)
    BY <2>1, <2>2 DEF Figures
  <2>5. Term(a, j).rem = z % y /\ Term(a, j).q = [a.q EXCEPT ![j] = z \div y]
    BY <2>3
  <2>6. Term(a, j) \in S
    BY <2>2, <2>3, <2>4
  <2>7. z \in Int
    BY <2>2
  <2> HIDE DEF S, Part
  <2>8. QED BY <2>2, <2>5, <2>6, <2>7 DEF z
<1>21. \A k \in 0 .. count - 1 : count - (k + 1) \in 0 .. count - 1
  OBVIOUS
<1>22. ASSUME NEW a \in S, NEW k \in 0 .. count - 1 PROVE F[<<a, k>>] \in S
  <2>1. F[<<a, k>>] = Term(a, count - (k + 1))
    OBVIOUS
  <2> HIDE DEF F, Term, S
  <2>2. QED BY <1>3, <1>21, <2>1
<1>4. start \in S
  BY <1>1, <1>20
<1> HIDE DEF Term, start
<1>5. PICK g : Loop(S, start, F, count, g)
  <2>1. Stays(S, F, count)
    BY <1>22 DEF Stays
  <2> HIDE DEF S, F
  <2>2. QED BY <1>4, <2>1, LoopRuns
<1>6. Run(g)
  <2>1. ASSUME NEW k \in 0 .. count
        PROVE  g[k] = IF k = 0 THEN start ELSE Term(g[k - 1], count - k)
    <3>1. CASE k = 0
      BY <1>5, <3>1 DEF Loop
    <3>2. CASE k # 0
      <4>1. k - 1 \in 0 .. count - 1 /\ (k - 1) + 1 = k /\ k - 1 \in 0 .. count
        BY <3>2
      <4>2. g[k] = F[<<g[k - 1], k - 1>>] /\ g[k - 1] \in S
        BY <1>5, <4>1 DEF Loop
      <4>3. F[<<g[k - 1], k - 1>>] = Term(g[k - 1], count - ((k - 1) + 1))
        BY <4>1, <4>2
      <4>4. QED BY <3>2, <4>1, <4>2, <4>3
    <3>3. QED BY <3>1, <3>2
  <2>2. g = [k \in 0 .. count |-> g[k]]
    BY <1>5 DEF Loop
  <2>3. QED BY <2>1, <2>2
<1>7. Run(c)
  BY <1>6, Zenon
<1> HIDE DEF c, F
<1>8. c[0] = start /\ \A k \in 0 .. count - 1 : c[k + 1] = Term(c[k], count - (k + 1))
  <2>1. \A k \in 0 .. count : c[k] = IF k = 0 THEN start ELSE Term(c[k - 1], count - k)
    BY <1>7
  <2>2. 0 \in 0 .. count
    OBVIOUS
  <2>3. ASSUME NEW k \in 0 .. count - 1 PROVE c[k + 1] = Term(c[k], count - (k + 1))
    <3>1. k + 1 \in 0 .. count /\ k + 1 # 0 /\ (k + 1) - 1 = k
      OBVIOUS
    <3>2. QED BY <2>1, <3>1
  <2>4. QED BY <2>1, <2>2, <2>3
<1> DEFINE Rest(k) == count - k
           Kept(k) ==
             /\ c[k] \in S
             /\ \A l \in 0 .. Rest(k) - 1 : c[k].q[l] = u[l]
             /\ ((Value(c[k].q, count, half) - Value(u, Rest(k), half)) * y
                   + c[k].rem * Power(half, Rest(k))) + Value(u, Rest(k), half) = x
           T == {k \in Nat : k <= count => Kept(k)}
<1>10. 0 \in T
  <2>1. c[0].q = u /\ c[0].rem = 0
    BY <1>8 DEF start
  <2>2. Rest(0) = count
    OBVIOUS
  <2>3. Power(half, count) \in Nat
    BY <1>1, PowerIs
  <2>4. ((x - x) * y + 0 * Power(half, count)) + x = x
    BY <2>3
  <2>5. QED BY <1>4, <1>8, <1>20, <2>1, <2>2, <2>4
<1>11. ASSUME NEW k \in Nat, k \in T PROVE k + 1 \in T
  <2> HIDE DEF Kept
  <2>1. SUFFICES ASSUME k + 1 <= count PROVE Kept(k + 1)
    OBVIOUS
  <2>2. k \in 0 .. count - 1 /\ Kept(k)
    BY <1>11, <2>1
  <2> DEFINE i == count - (k + 1)
             a == c[k]
             e == c[k + 1]
             s == Part(a, i)
             d == s \div y
             w == Power(half, i)
             v == Value(a.q, count, half)
             uv == Value(u, i, half)
  <2>3. i \in 0 .. count - 1 /\ Rest(k) = i + 1 /\ Rest(k + 1) = i
    BY <2>2
  <2>4. a \in S /\ e = Term(a, i)
    BY <1>8, <2>2 DEF Kept
  <2> HIDE DEF i, S, Part
  <2>5. /\ e \in S /\ s \in Int /\ s = y * d + e.rem /\ d \in 0 .. half - 1
        /\ e.q = [a.q EXCEPT ![i] = d]
    BY <1>3, <2>3, <2>4
  <2> USE DEF S, Part
  <2>6. a.q \in Row(count) /\ e.q \in Row(count) /\ a.rem \in Int /\ e.rem \in Int /\ u[i] \in Int
    <3>1. a.q \in Figures(count, half) /\ e.q \in Figures(count, half)
      BY <2>4, <2>5
    <3>2. a.q \in Row(count) /\ e.q \in Row(count)
      BY <1>1, <3>1 DEF Figures, Row
    <3>3. a.rem \in Int /\ e.rem \in Int
      BY <1>1, <2>4, <2>5
    <3>4. u[i] \in Int
      BY <1>20, <2>3 DEF Row
    <3>5. QED BY <3>2, <3>3, <3>4
  <2>7. a.q[i] = u[i] /\ \A l \in 0 .. i - 1 : e.q[l] = u[l]
    <3>1. \A l \in 0 .. i : a.q[l] = u[l]
      <4>1. (i + 1) - 1 = i
        BY <2>3
      <4>2. QED BY <2>2, <2>3, <4>1 DEF Kept
    <3>2. \A l \in 0 .. i - 1 : l # i /\ l \in 0 .. count - 1 /\ l \in 0 .. i
      BY <2>3
    <3> HIDE DEF a, e, d
    <3>3. \A l \in 0 .. count - 1 : l # i => e.q[l] = a.q[l]
      BY <2>3, <2>5, <2>6 DEF Row
    <3>4. i \in 0 .. i
      BY <2>3
    <3>5. QED BY <3>1, <3>2, <3>3, <3>4
  <2>8. w \in Nat /\ Power(half, i + 1) = half * w
    <3>1. i \in Nat
      BY <2>3
    <3>2. QED BY <1>1, <3>1, PowerIs
  <2>9. uv \in Int /\ Value(u, i + 1, half) = uv + u[i] * w
    <3>1. i \in 0 .. count
      BY <2>3
    <3>2. QED BY <1>1, <1>20, <2>3, <3>1, ValueIs
  <2>10. v \in Int
    <3>1. count \in 0 .. count
      OBVIOUS
    <3>2. QED BY <1>1, <2>6, <3>1, ValueIs
  <2>11. Value(e.q, count, half) = v + (d - u[i]) * w
    <3> DEFINE o1 == a.q
               o2 == e.q
    <3>1. d \in Int /\ i \in Nat /\ i < count
      BY <2>3, <2>5
    <3>2. Altered(o1, o2, i, d) /\ o1 \in Row(count)
      BY <2>5, <2>6 DEF Altered
    <3> HIDE DEF o1, o2, d
    <3>3. Value(o2, count, half) = Value(o1, count, half) + (d - o1[i]) * w
      BY <1>1, <3>1, <3>2, ValueChanged
    <3>4. QED BY <2>7, <3>3 DEF o1, o2
  <2>12. ((v - (uv + u[i] * w)) * y + a.rem * (half * w)) + (uv + u[i] * w) = x
    BY <2>2, <2>3, <2>8, <2>9 DEF Kept
  <2> DEFINE ui == u[i]
             ra == a.rem
             re == e.rem
  <2>13. /\ s = ra * half + ui /\ ui \in Int /\ ra \in Int /\ re \in Int /\ d \in Int
         /\ s = y * d + re
    BY <2>5, <2>6
  <2> HIDE DEF ui, ra, re, s, d, w, v, uv
  <2>14. (((v + (d - ui) * w) - uv) * y + re * w) + uv = x
    <3>1. ra * half + ui = y * d + re
      BY <2>13
    <3>2. w \in Int /\ v \in Int /\ uv \in Int /\ y \in Int /\ half \in Int
      BY <1>1, <2>8, <2>9, <2>10
    <3>3. (((v + (d - ui) * w) - uv) * y + re * w) + uv =
             ((v - (uv + ui * w)) * y + ra * (half * w)) + (uv + ui * w)
      BY <2>13, <3>1, <3>2, PlaceDivided
    <3>4. QED BY <2>12, <3>3 DEF ui, ra
  <2>15. ((Value(e.q, count, half) - uv) * y + re * w) + uv = x
    BY <2>11, <2>14 DEF ui
  <2> USE DEF Kept
  <2>16. QED BY <2>3, <2>5, <2>7, <2>15 DEF uv, re, w
<1> HIDE DEF T
<1>12. count \in T
  BY <1>10, <1>11, Induction
<1>13. Kept(count)
  BY <1>12 DEF T
<1> DEFINE v == Value(c[count].q, count, half)
           r == c[count].rem
<1>14. r \in 0 .. y - 1 /\ v \in Int
  <2>1. r \in 0 .. y - 1 /\ c[count].q \in Figures(count, half)
    BY <1>13
  <2>2. c[count].q \in Row(count) /\ count \in 0 .. count
    BY <1>1, <2>1 DEF Figures, Row
  <2>3. QED BY <1>1, <2>1, <2>2, ValueIs
<1>15. x = y * v + r
  <2>1. Rest(count) = 0 /\ Value(u, 0, half) = 0 /\ Power(half, 0) = 1
    BY <1>1, <1>20, ValueIs, PowerIs
  <2>2. ((v - 0) * y + r * 1) + 0 = x
    BY <1>13, <2>1
  <2> HIDE DEF v, r
  <2>3. (v - 0) * y = y * v /\ r * 1 = r /\ y * v \in Int
    BY <1>14
  <2>4. QED BY <1>14, <2>2, <2>3
<1> HIDE DEF v, r
<1>16. x \div y = v /\ x % y = r
  <2>1. x \in Int
    OBVIOUS
  <2>2. QED BY <1>1, <1>14, <1>15, <2>1, DivModUnique
<1>17. QED BY <1>2, <1>16 DEF v, r, Divided

-----------------------------------------------------------------------------
(* The trial digit of algorithm D *)

\* What the code compares with two digits is what counts for three.
LEMMA TooLargeIs ==
  ASSUME NEW h \in Nat, NEW v1 \in Nat, NEW v2 \in Nat, NEW t \in Nat, NEW top \in Nat,
         NEW q \in Int, NEW r \in Int, q * v1 + r = top
  PROVE  q * v2 > h * r + t <=> q * (v1 * h + v2) > top * h + t
<1>1. q * (v1 * h + v2) = (q * v1) * h + q * v2
  OBVIOUS
<1> DEFINE a == q * v1
           b == q * v2
           e == r * h
           f == a * h
<1>2. a \in Int /\ b \in Int /\ e \in Int /\ f \in Int /\ h * r = e /\ a + r = top
  OBVIOUS
<1> HIDE DEF a
<1>3. top * h = f + e
  BY <1>2
<1>4. q * (v1 * h + v2) = f + b
  BY <1>1 DEF a
<1> HIDE DEF b, e, f
<1>5. b > e + t <=> f + b > (f + e) + t
  BY <1>2
<1>6. QED BY <1>2, <1>3, <1>4, <1>5 DEF b

\* No digit that fits three places is above the quotient of two by one.
LEMMA DigitBelow ==
  ASSUME NEW h \in Nat \ {0}, NEW v1 \in Nat \ {0}, NEW v2 \in Nat, NEW t \in 0 .. h - 1,
         NEW top \in Nat, NEW d \in Nat, d * (v1 * h + v2) <= top * h + t
  PROVE  d <= top \div v1
<1> DEFINE a == d * v1
           q == top \div v1
           r == top % v1
<1>1. a \in Nat /\ d * v2 \in Nat /\ a * h \in Nat /\ d * (v1 * h + v2) = a * h + d * v2
  OBVIOUS
<1>2. (top + 1) * h = top * h + h /\ top * h \in Nat
  OBVIOUS
<1>3. a * h < (top + 1) * h
  BY <1>1, <1>2
<1> HIDE DEF a
<1>4. a < top + 1
  BY <1>1, <1>3, MulCancel
<1>5. q \in Nat /\ r \in 0 .. v1 - 1 /\ top = v1 * q + r
  <2>1. top \in Int
    OBVIOUS
  <2>2. QED BY <2>1, DivMod
<1> HIDE DEF q, r
<1>6. (q + 1) * v1 = v1 * q + v1 /\ v1 * q \in Nat
  BY <1>5
<1>7. a < (q + 1) * v1
  BY <1>1, <1>4, <1>5, <1>6
<1>8. d < q + 1
  <2>1. d * v1 < (q + 1) * v1 /\ q + 1 \in Int
    BY <1>5, <1>7 DEF a
  <2>2. QED BY <2>1, MulCancel
<1>9. QED BY <1>5, <1>8 DEF q

\* A digit whose product with the first digit leaves a whole digit fits.
LEMMA DigitFits ==
  ASSUME NEW h \in Nat \ {0}, NEW v1 \in Nat, NEW v2 \in 0 .. h - 1, NEW t \in Nat,
         NEW top \in Nat, NEW q \in 0 .. h - 1, q * v1 + h <= top
  PROVE  q * (v1 * h + v2) <= top * h + t
<1> DEFINE a == q * v1
           b == q * v2
<1>1. a \in Nat /\ b \in Nat /\ q * (v1 * h + v2) = a * h + b
  OBVIOUS
<1>2. b <= h * h
  <2>1. q * v2 <= h * v2
    BY MulMonotone
  <2>2. v2 * h <= h * h /\ v2 * h = h * v2
    BY MulMonotone
  <2>3. QED BY <2>1, <2>2
<1> HIDE DEF a, b
<1>3. (a + h) * h <= top * h
  <2>1. a + h <= top /\ a + h \in Int /\ top \in Int /\ h \in Nat
    BY <1>1 DEF a
  <2>2. QED BY <2>1, MulMonotone
<1>4. (a + h) * h = a * h + h * h /\ h * h \in Nat /\ a * h \in Nat /\ top * h \in Nat
  BY <1>1
<1>5. QED BY <1>1, <1>2, <1>3, <1>4

\* tooLarge, as a function of a digit and of what it leaves.
Compares(Large, h, v2, t) == Large = [s \in Int \X Int |-> s[1] = h \/ s[1] * v2 > h * s[2] + t]

\* The trial digit of three places, top and t, by two, v1 and v2, in base h.
Trial(h, v1, v2, t, top, q, r, Large, digit) ==
  /\ h \in Nat \ {0} /\ v1 \in 0 .. h - 1 /\ v2 \in 0 .. h - 1 /\ 2 * v1 >= h /\ v1 * h >= h
  /\ t \in 0 .. h - 1 /\ top \in Nat /\ top * h + t < h * (v1 * h + v2 + 1)
  /\ q = top \div v1 /\ r = top % v1 /\ Compares(Large, h, v2, t)
  /\ digit = IF ~Large[<<q, r>>] THEN q
             ELSE IF r + v1 < h /\ Large[<<q - 1, r + v1>>] THEN q - 2 ELSE q - 1

\* The trial digit is the largest that fits the first three places.
LEMMA TrialArithmetic ==
  ASSUME NEW h, NEW v1, NEW v2, NEW t, NEW top, NEW q, NEW r, NEW Large, NEW digit,
         Trial(h, v1, v2, t, top, q, r, Large, digit)
  PROVE  /\ digit \in 0 .. h - 1 /\ digit * (v1 * h + v2) <= top * h + t
         /\ \A d \in 0 .. h - 1 : d * (v1 * h + v2) <= top * h + t => d <= digit
<1> USE DEF Trial
<1> DEFINE y == v1 * h + v2
           x == top * h + t
<1>1. v1 \in Nat \ {0} /\ x \in Nat /\ y \in Nat /\ h <= y
  <2>1. v1 # 0
    OBVIOUS
  <2>2. top * h \in Nat /\ v1 * h \in Nat
    OBVIOUS
  <2>3. QED BY <2>1, <2>2
<1>2. q \in Nat /\ r \in 0 .. v1 - 1 /\ top = v1 * q + r /\ q * v1 = v1 * q
  <2>1. top \in Int
    OBVIOUS
  <2>2. top \div v1 \in Nat /\ top % v1 \in 0 .. v1 - 1 /\ top = v1 * (top \div v1) + (top % v1)
    BY <1>1, <2>1, DivMod
  <2>3. QED BY <2>2
\* What the comparison says of any digit and what is left with it.
<1>3. ASSUME NEW e \in Int, NEW s \in Int, e * v1 + s = top
      PROVE  Large[<<e, s>>] <=> e = h \/ e * y > x
  <2>1. Large[<<e, s>>] <=> e = h \/ e * v2 > h * s + t
    BY DEF Compares
  <2>2. e * v2 > h * s + t <=> e * y > x
    <3>1. h \in Nat /\ v1 \in Nat /\ v2 \in Nat /\ t \in Nat
      OBVIOUS
    <3>2. QED BY <1>3, <3>1, TooLargeIs
  <2>3. QED BY <2>1, <2>2
<1>4. ASSUME NEW d \in 0 .. h - 1, d * y <= x PROVE d <= q
  <2>1. d \in Nat /\ v2 \in Nat
    OBVIOUS
  <2>2. d <= top \div v1
    BY <1>1, <1>4, <2>1, DigitBelow
  <2>3. QED BY <2>2
\* A number that fits is at most h; and two above it the top does not reach.
<1>5. ASSUME NEW e \in Nat, e * y <= x PROVE e <= h
  <2>1. h * (v1 * h + v2 + 1) = h * y + h /\ h * y \in Nat
    OBVIOUS
  <2>2. (h + 1) * y = h * y + y
    OBVIOUS
  <2> HIDE DEF x, y
  <2>3. e * y < (h + 1) * y
    BY <1>1, <1>5, <2>1, <2>2 DEF x, y
  <2>4. e < h + 1
    BY <1>1, <2>3, MulCancel
  <2>5. QED BY <2>4
<1>6. top < h * v1 + h
  <2>1. y + 1 <= v1 * h + h /\ h * (y + 1) = (y + 1) * h
    OBVIOUS
  <2>2. (y + 1) * h <= (v1 * h + h) * h
    BY <1>1, <2>1, MulMonotone
  <2>3. top * h < (v1 * h + h) * h
    <3>1. top * h \in Nat /\ h * (v1 * h + v2 + 1) = (y + 1) * h
      OBVIOUS
    <3>2. (y + 1) * h \in Int /\ (v1 * h + h) * h \in Int
      OBVIOUS
    <3>3. top * h <= top * h + t
      BY <3>1
    <3>4. QED BY <2>2, <3>1, <3>2, <3>3
  <2>4. v1 * h + h \in Int
    OBVIOUS
  <2>5. top < v1 * h + h
    BY <2>3, <2>4, MulCancel
  <2>6. QED BY <2>5
<1> HIDE DEF x, y
<1>7. CASE ~Large[<<q, r>>]
  <2>1. digit = q
    BY <1>7
  <2>2. ~(q = h \/ q * y > x)
    <3>1. q \in Int /\ r \in Int /\ q * v1 + r = top
      BY <1>1, <1>2
    <3>2. QED BY <1>3, <1>7, <3>1
  <2>3. q * y <= x
    BY <1>1, <1>2, <2>2
  <2>4. q <= h
    BY <1>2, <1>5, <2>3
  <2>5. q \in 0 .. h - 1
    BY <1>2, <2>2, <2>4
  <2>6. QED BY <1>4, <2>1, <2>3, <2>5 DEF x, y
<1>8. CASE Large[<<q, r>>]
  <2>1. q = h \/ q * y > x
    <3>1. q \in Int /\ r \in Int /\ q * v1 + r = top
      BY <1>1, <1>2
    <3>2. QED BY <1>3, <1>8, <3>1
  <2>2. q # 0
    <3>1. q * y > x => q # 0
      BY <1>1
    <3>2. QED BY <2>1, <3>1
  <2>3. ASSUME NEW d \in 0 .. h - 1, d * y <= x PROVE d <= q - 1
    <3>1. d <= q /\ d # q
      BY <1>1, <1>2, <1>4, <2>1, <2>3
    <3>2. QED BY <1>2, <3>1
  <2>4. q - 1 \in Nat /\ (q - 1) * v1 + (r + v1) = top /\ r + v1 \in Int
    <3>1. (q - 1) * v1 = q * v1 - v1
      BY <1>1, <1>2
    <3>2. q * v1 \in Int /\ r \in Int /\ v1 \in Int
      BY <1>1, <1>2
    <3>3. QED BY <1>2, <2>2, <3>1, <3>2
  <2>5. CASE ~(r + v1 < h)
    <3>1. digit = q - 1 /\ (q - 1) * v1 + h <= top
      <4>1. (q - 1) * v1 \in Int
        BY <1>1, <2>4
      <4>2. digit = q - 1
        BY <1>8, <2>5
      <4>3. QED BY <2>4, <2>5, <4>1, <4>2
    <3>2. q - 1 < h
      <4>1. (q - 1) * v1 < h * v1
        BY <1>1, <1>6, <2>4, <3>1
      <4>2. QED BY <1>1, <2>4, <4>1, MulCancel
    <3>3. q - 1 \in 0 .. h - 1
      BY <2>4, <3>2
    <3>4. (q - 1) * y <= x
      <4> DEFINE e == q - 1
      <4>1. e \in 0 .. h - 1 /\ e * v1 + h <= top /\ t \in Nat /\ v1 \in Nat
        BY <3>1, <3>3
      <4> HIDE DEF e
      <4>2. e * (v1 * h + v2) <= top * h + t
        BY <4>1, DigitFits
      <4>3. QED BY <4>2 DEF e, x, y
    <3>5. QED BY <2>3, <3>1, <3>3, <3>4 DEF x, y
  <2>6. CASE r + v1 < h /\ ~Large[<<q - 1, r + v1>>]
    <3>1. digit = q - 1
      BY <1>8, <2>6
    <3>2. ~(q - 1 = h \/ (q - 1) * y > x)
      <4>1. q - 1 \in Int
        BY <2>4
      <4>2. QED BY <1>3, <2>4, <2>6, <4>1
    <3>3. (q - 1) * y <= x
      <4>1. (q - 1) * y \in Int
        BY <1>1, <2>4
      <4>2. QED BY <1>1, <3>2, <4>1
    <3>4. q - 1 <= h
      BY <1>5, <2>4, <3>3
    <3>5. q - 1 \in 0 .. h - 1
      BY <2>4, <3>2, <3>4
    <3>6. QED BY <2>3, <3>1, <3>3, <3>5 DEF x, y
  <2>7. CASE r + v1 < h /\ Large[<<q - 1, r + v1>>]
    <3>1. digit = q - 2
      BY <1>8, <2>7
    <3>2. q - 1 = h \/ (q - 1) * y > x
      <4>1. q - 1 \in Int
        BY <2>4
      <4>2. QED BY <1>3, <2>4, <2>7, <4>1
    <3>3. q - 1 # 0
      <4>1. 0 * y = 0
        BY <1>1
      <4>2. QED BY <1>1, <3>2, <4>1
    <3>4. ASSUME NEW d \in 0 .. h - 1, d * y <= x PROVE d <= q - 2
      <4>1. d <= q - 1
        BY <2>3, <3>4
      <4>2. d # q - 1
        <5>1. CASE q - 1 = h
          BY <5>1
        <5>2. CASE (q - 1) * y > x
          <6>1. SUFFICES ASSUME d = q - 1 PROVE FALSE
            OBVIOUS
          <6>2. d * y > x
            BY <5>2, <6>1
          <6>3. d * y \in Int
            BY <1>1
          <6>4. QED BY <1>1, <3>4, <6>2, <6>3
        <5>3. QED BY <3>2, <5>1, <5>2
      <4>3. QED BY <1>2, <4>1, <4>2
    <3> DEFINE e == q - 2
    <3>5. e \in Nat /\ e * v1 + (v1 + v1) <= top
      <4>1. e \in Nat
        BY <2>4, <3>3
      <4>2. e * v1 = q * v1 - v1 - v1 /\ q * v1 \in Int
        BY <1>1, <1>2
      <4> HIDE DEF e
      <4>3. e * v1 + (v1 + v1) = q * v1
        BY <1>1, <4>1, <4>2
      <4>4. QED BY <1>2, <4>1, <4>3
    <3> HIDE DEF e
    <3>6. e * v1 + h <= top /\ e * v1 \in Nat
      <4>1. e * v1 \in Nat
        BY <1>1, <3>5
      <4>2. v1 + v1 >= h
        OBVIOUS
      <4>3. QED BY <3>5, <4>1, <4>2
    <3>7. e < h
      <4>1. e * v1 < h * v1
        <5>1. h * v1 \in Nat
          BY <1>1
        <5>2. QED BY <1>6, <3>6, <5>1
      <4>2. QED BY <1>1, <3>5, <4>1, MulCancel
    <3>8. e * y <= x
      <4>1. e \in 0 .. h - 1 /\ t \in Nat /\ v1 \in Nat
        BY <3>5, <3>7
      <4>2. e * (v1 * h + v2) <= top * h + t
        BY <3>6, <4>1, DigitFits
      <4>3. QED BY <4>2 DEF x, y
    <3>9. digit = e /\ e \in 0 .. h - 1
      BY <3>1, <3>5, <3>7 DEF e
    <3>10. QED BY <3>1, <3>4, <3>8, <3>9 DEF x, y
  <2>8. QED BY <2>5, <2>6, <2>7
<1>9. QED BY <1>7, <1>8

\* The trial digit of a place, for the digits that the code looks at.
LEMMA TrialIs ==
  ASSUME NEW len \in Nat, NEW u \in Figures(len, half), NEW n \in Nat, n >= 2,
         NEW v \in Figures(n, half), NEW j \in Nat, j + n < len, 2 * v[n - 1] >= half,
         NEW x, x = (u[j + n] * half + u[j + n - 1]) * half + u[j + n - 2],
         NEW y, y = v[n - 1] * half + v[n - 2], x < half * (y + 1)
  PROVE  /\ TrialDigit(u, v, j, n) \in 0 .. half - 1 /\ TrialDigit(u, v, j, n) * y <= x
         /\ \A d \in 0 .. half - 1 : d * y <= x => d <= TrialDigit(u, v, j, n)
<1> DEFINE top == u[j + n] * half + u[j + n - 1]
           v1 == v[n - 1]
           v2 == v[n - 2]
           t == u[j + n - 2]
           q == top \div v1
           r == top % v1
           Large == [s \in Int \X Int |-> s[1] = half \/ s[1] * v2 > half * s[2] + t]
           digit == TrialDigit(u, v, j, n)
<1>1. half \in Nat \ {0} /\ half >= 2
  BY HalfIs
<1>2. /\ v1 \in 0 .. half - 1 /\ v2 \in 0 .. half - 1 /\ t \in 0 .. half - 1
      /\ u[j + n] \in 0 .. half - 1 /\ u[j + n - 1] \in 0 .. half - 1
  <2>1. /\ n - 1 \in 0 .. n - 1 /\ n - 2 \in 0 .. n - 1
        /\ j + n \in 0 .. len - 1 /\ j + n - 1 \in 0 .. len - 1 /\ j + n - 2 \in 0 .. len - 1
    OBVIOUS
  <2>2. (\A i \in 0 .. len - 1 : u[i] \in 0 .. half - 1) /\ \A i \in 0 .. n - 1 : v[i] \in 0 .. half - 1
    BY DEF Figures
  <2>3. QED BY <2>1, <2>2
<1>3. top \in Nat
  <2> DEFINE a == u[j + n]
             b == u[j + n - 1]
  <2>1. a \in Nat /\ b \in Nat
    BY <1>2
  <2> HIDE DEF a, b
  <2>2. a * half + b \in Nat
    BY <1>1, <2>1
  <2>3. QED BY <2>2 DEF a, b
<1>4. x = top * half + t /\ y = v1 * half + v2
  OBVIOUS
<1>5. digit = IF ~(q = half \/ q * v2 > half * r + t) THEN q
              ELSE IF r + v1 < half /\ (q - 1 = half \/ (q - 1) * v2 > half * (r + v1) + t)
                   THEN q - 2 ELSE q - 1
  BY DEF TrialDigit
<1>6. 2 * v1 >= half
  OBVIOUS
<1> HIDE DEF top, v1, v2, t, digit
<1>7. v1 \in Nat \ {0} /\ v1 * half >= half
  <2>1. v1 \in Nat \ {0}
    BY <1>1, <1>2, <1>6
  <2>2. 1 * half <= v1 * half
    <3>1. 1 <= v1 /\ v1 \in Int /\ 1 \in Int
      BY <2>1
    <3>2. QED BY <1>1, <3>1, MulMonotone
  <2>3. 1 * half = half
    BY <1>1
  <2>4. v1 * half \in Nat
    BY <1>1, <2>1
  <2>5. QED BY <1>1, <2>1, <2>2, <2>3, <2>4
<1>8. q \in Int /\ r \in Int
  <2>1. top \in Int
    BY <1>3
  <2>2. top \div v1 \in Int /\ top % v1 \in 0 .. v1 - 1
    BY <1>7, <2>1, DivMod
  <2>3. QED BY <1>7, <2>2
<1> HIDE DEF q, r
<1>9. digit = IF ~Large[<<q, r>>] THEN q
              ELSE IF r + v1 < half /\ Large[<<q - 1, r + v1>>] THEN q - 2 ELSE q - 1
  <2>1. r + v1 \in Int /\ q - 1 \in Int
    BY <1>2, <1>8
  <2>2. Large[<<q, r>>] = (q = half \/ q * v2 > half * r + t)
    BY <1>8
  <2>3. Large[<<q - 1, r + v1>>] = (q - 1 = half \/ (q - 1) * v2 > half * (r + v1) + t)
    BY <2>1
  <2>4. QED BY <1>5, <2>2, <2>3
<1>10. Compares(Large, half, v2, t)
  BY DEF Compares
<1> HIDE DEF Large
<1>11. top * half + t < half * (v1 * half + v2 + 1)
  BY <1>4
<1>12. q = top \div v1 /\ r = top % v1
  BY DEF q, r
<1>13. /\ digit \in 0 .. half - 1 /\ digit * (v1 * half + v2) <= top * half + t
       /\ \A d \in 0 .. half - 1 : d * (v1 * half + v2) <= top * half + t => d <= digit
  <2>1. Trial(half, v1, v2, t, top, q, r, Large, digit)
    BY <1>1, <1>2, <1>3, <1>6, <1>7, <1>9, <1>10, <1>11, <1>12 DEF Trial
  <2>2. QED BY <2>1, TrialArithmetic
<1>14. QED BY <1>4, <1>13 DEF digit

-----------------------------------------------------------------------------
(* The digit times the divisor is taken away, or the divisor added back *)

\* The product of a place, and what is left of its digit.
Borrowing(h, q, v, a, b, p, s) == p = q * v /\ s = a - b - (p % h)

\* One place of the difference: a digit, and what is borrowed.
LEMMA BorrowStep ==
  ASSUME NEW h \in Nat \ {0}, NEW q \in 0 .. h - 1, NEW v \in 0 .. h - 1,
         NEW a \in 0 .. h - 1, NEW b \in 0 .. h - 1,
         NEW p, NEW s, Borrowing(h, q, v, a, b, p, s)
  PROVE  /\ (p \div h) - (s \div h) \in 0 .. h - 1 /\ s % h \in 0 .. h - 1
         /\ a + (-q) * v + (0 - b) = h * (0 - ((p \div h) - (s \div h))) + (s % h)
<1> USE DEF Borrowing
<1> DEFINE pd == p \div h
           pm == p % h
           sd == s \div h
           sm == s % h
           e == pd - sd
<1>1. p \in Nat /\ p <= (h - 1) * (h - 1)
  <2>1. q * v <= (h - 1) * v
    BY MulMonotone
  <2>2. v * (h - 1) <= (h - 1) * (h - 1)
    BY MulMonotone
  <2>3. (h - 1) * v = v * (h - 1) /\ q * v \in Nat
    OBVIOUS
  <2>4. QED BY <2>1, <2>2, <2>3
<1>2. pd \in Int /\ pm \in 0 .. h - 1 /\ p = h * pd + pm
  <2>1. p \in Int
    BY <1>1
  <2>2. QED BY <2>1, DivMod
<1>3. s \in Int
  BY <1>2
<1>4. sd \in Int /\ sm \in 0 .. h - 1 /\ s = h * sd + sm
  BY <1>3, DivMod
<1>5. (-q) * v = -p /\ s = a - b - pm
  OBVIOUS
<1> HIDE DEF pd, pm, sd, sm
<1>6. h * pd \in Int /\ h * sd \in Int /\ h * e = h * pd - h * sd /\ h * (0 - e) = h * sd - h * pd
  BY <1>2, <1>4
<1>7. e \in Int
  BY <1>2, <1>4
<1>8. a + (-p) + (0 - b) = h * (0 - e) + sm
  <2> DEFINE f == h * (0 - e)
             g == h * pd
             k == h * sd
  <2>3. g \in Int /\ k \in Int /\ f = k - g
    BY <1>6
  <2>4. p = g + pm /\ s = k + sm /\ s = a - b - pm
    BY <1>2, <1>4, <1>5
  <2> HIDE DEF f, g, k
  <2>2. a + (-p) + (0 - b) = f + sm
    BY <1>2, <1>4, <2>3, <2>4
  <2>5. QED BY <2>2 DEF f
<1>9. h * e < h * h /\ h * e > -h
  <2>2. h * e = p + b - a + sm
    <3> DEFINE f == h * e
               g == h * pd
               k == h * sd
    <3>1. g \in Int /\ k \in Int /\ f = g - k
      BY <1>6
    <3>4. p = g + pm /\ s = k + sm /\ s = a - b - pm
      BY <1>2, <1>4, <1>5
    <3> HIDE DEF f, g, k
    <3>2. f = p + b - a + sm
      BY <1>2, <1>4, <3>1, <3>4
    <3>3. QED BY <3>2 DEF f
  <2>3. (h - 1) * (h - 1) = h * h - h - h + 1 /\ h * h \in Nat
    OBVIOUS
  <2> HIDE DEF e
  <2>4. QED BY <1>1, <1>4, <2>2, <2>3
<1>10. e < h /\ -1 < e
  <2> HIDE DEF e
  <2>1. e * h < h * h /\ (-1) * h < e * h
    BY <1>7, <1>9
  <2>2. QED BY <1>7, <2>1, MulCancel
<1>11. e \in 0 .. h - 1
  BY <1>7, <1>10
<1> HIDE DEF e
<1>12. QED BY <1>4, <1>5, <1>8, <1>11 DEF e, pd, sd, sm

\* The sum of a place.
Carrying(h, v, a, b, s) == h # 0 /\ s = a + v + b

\* One place of the sum: a digit, and a carry of one at most.
LEMMA CarryBit ==
  ASSUME NEW h \in Nat \ {0}, NEW v \in 0 .. h - 1, NEW a \in 0 .. h - 1, NEW b \in 0 .. 1,
         NEW s, Carrying(h, v, a, b, s)
  PROVE  /\ s \div h \in 0 .. 1 /\ s % h \in 0 .. h - 1
         /\ a + 1 * v + b = h * (s \div h) + (s % h)
<1> DEFINE q == s \div h
           r == s % h
<1>1. s \in Int /\ s >= 0 /\ s < 2 * h /\ s = a + v + b
  BY DEF Carrying
<1>2. q \in Int /\ r \in 0 .. h - 1 /\ s = h * q + r
  BY <1>1, DivMod
<1> HIDE DEF q, r
<1>3. q * h < 2 * h /\ (-1) * h < q * h
  BY <1>1, <1>2
<1>4. q < 2 /\ -1 < q
  <2>1. ASSUME NEW x \in Int, NEW y \in Int, x * h < y * h PROVE x < y
    BY <2>1, MulCancel
  <2>2. QED BY <1>2, <1>3, <2>1
<1>5. q \in 0 .. 1
  BY <1>2, <1>4
<1>6. QED BY <1>1, <1>2, <1>5 DEF q, r

\* The digit times the divisor is taken away at its place; what is borrowed is a digit.
LEMMA SubtractIs ==
  ASSUME NEW len \in Nat, NEW u \in Figures(len, half), NEW n \in Nat,
         NEW v \in Figures(n, half), NEW j \in Nat, j + n < len,
         NEW qp \in 0 .. half - 1
  PROVE  LET end == Subtract(u, v, qp, j, n)
         IN  /\ end.u \in Figures(len, half) /\ end.borrow \in 0 .. half - 1
             /\ \A l \in j + n .. len - 1 : end.u[l] = u[l]
             /\ Value(end.u, len, half) + (0 - end.borrow) * Power(half, j + n) =
                  Value(u, len, half) + ((-qp) * Value(v, n, half)) * Power(half, j)
<1> DEFINE start == [borrow |-> 0, u |-> u]
           Term(acc, i) ==
             LET p      == qp * v[i]
                 subres == acc.u[j + i] - acc.borrow - (p % half)
             IN  [borrow |-> (p \div half) - (subres \div half),
                  u      |-> [acc.u EXCEPT ![j + i] = subres % half]]
           Sub(a, i) == a.u[j + i] - a.borrow - ((qp * v[i]) % half)
           New(a, i) == Sub(a, i) % half
           Gain(a) == 0 - a.borrow
           f == -qp
           S == [borrow : 0 .. half - 1, u : Figures(len, half)]
           F == [a \in S \X (0 .. n - 1) |-> Term(a[1], a[2])]
           Run(g) == g = [k \in 0 .. n |-> IF k = 0 THEN start ELSE Term(g[k - 1], k - 1)]
           c == CHOOSE g : Run(g)
<1>1. half \in Nat \ {0} /\ f \in Int
  BY HalfIs
<1>16. start.borrow = 0 /\ start.u = u
  OBVIOUS
<1>2. Subtract(u, v, qp, j, n) = c[n]
  BY DEF Subtract, Ascending
<1>3. ASSUME NEW a \in S, NEW i \in 0 .. n - 1
      PROVE  /\ Term(a, i) \in S /\ New(a, i) \in 0 .. half - 1
             /\ a.u[j + i] + f * v[i] + Gain(a) = half * Gain(Term(a, i)) + New(a, i)
             /\ Term(a, i).u = [a.u EXCEPT ![j + i] = New(a, i)]
  <2>1. /\ a.u[j + i] \in 0 .. half - 1 /\ v[i] \in 0 .. half - 1 /\ a.borrow \in 0 .. half - 1
        /\ a.u \in Figures(len, half) /\ j + i \in 0 .. len - 1
    BY DEF Figures
  <2> DEFINE p == qp * v[i]
             s == Sub(a, i)
             e == (p \div half) - (s \div half)
             d1 == a.u[j + i]
             b1 == a.borrow
             vi == v[i]
  <2>3. Term(a, i) = [borrow |-> e, u |-> [a.u EXCEPT ![j + i] = New(a, i)]]
    OBVIOUS
  <2>2. /\ e \in 0 .. half - 1 /\ New(a, i) \in 0 .. half - 1
        /\ a.u[j + i] + f * v[i] + Gain(a) = half * (0 - e) + New(a, i)
    <3>1. d1 \in 0 .. half - 1 /\ b1 \in 0 .. half - 1 /\ vi \in 0 .. half - 1
      BY <2>1
    <3>2. p = qp * vi /\ s = d1 - b1 - (p % half) /\ New(a, i) = s % half /\ Gain(a) = 0 - b1
      OBVIOUS
    <3> HIDE DEF d1, b1, vi, p, s, New, Gain, Sub
    <3>5. Borrowing(half, qp, vi, d1, b1, p, s)
      BY <3>2 DEF Borrowing
    <3>3. /\ (p \div half) - (s \div half) \in 0 .. half - 1 /\ s % half \in 0 .. half - 1
          /\ d1 + (-qp) * vi + (0 - b1) = half * (0 - ((p \div half) - (s \div half))) + (s % half)
      BY <1>1, <3>1, <3>5, BorrowStep
    <3>4. QED BY <3>2, <3>3 DEF d1, vi
  <2> HIDE DEF Term, New
  <2>4. [a.u EXCEPT ![j + i] = New(a, i)] \in Figures(len, half)
    BY <2>1, <2>2 DEF Figures
  <2>5. Term(a, i).u = [a.u EXCEPT ![j + i] = New(a, i)] /\ Term(a, i).borrow = e
    BY <2>3
  <2>6. Term(a, i) \in S
    BY <2>2, <2>3, <2>4
  <2> HIDE DEF S, e
  <2>7. QED BY <2>2, <2>5, <2>6
<1>4. start \in S
  BY <1>1
<1> HIDE DEF Term, start
<1>5. PICK g : Loop(S, start, F, n, g)
  <2>1. Stays(S, F, n)
    BY <1>3 DEF Stays
  <2> HIDE DEF S, F
  <2>2. QED BY <1>4, <2>1, LoopRuns
<1>6. Run(g)
  <2>1. ASSUME NEW k \in 0 .. n
        PROVE  g[k] = IF k = 0 THEN start ELSE Term(g[k - 1], k - 1)
    <3>1. CASE k = 0
      BY <1>5, <3>1 DEF Loop
    <3>2. CASE k # 0
      <4>1. k - 1 \in 0 .. n - 1 /\ (k - 1) + 1 = k /\ k - 1 \in 0 .. n
        BY <3>2
      <4>2. g[k] = F[<<g[k - 1], k - 1>>] /\ g[k - 1] \in S
        BY <1>5, <4>1 DEF Loop
      <4>3. QED BY <3>2, <4>1, <4>2
    <3>3. QED BY <3>1, <3>2
  <2>2. g = [k \in 0 .. n |-> g[k]]
    BY <1>5 DEF Loop
  <2>3. QED BY <2>1, <2>2
<1>7. Run(c)
  BY <1>6, Zenon
<1> HIDE DEF c, F
<1>8. c[0] = start /\ \A k \in 0 .. n - 1 : c[k + 1] = Term(c[k], k)
  <2>1. \A k \in 0 .. n : c[k] = IF k = 0 THEN start ELSE Term(c[k - 1], k - 1)
    BY <1>7
  <2>2. 0 \in 0 .. n
    OBVIOUS
  <2>3. ASSUME NEW k \in 0 .. n - 1 PROVE c[k + 1] = Term(c[k], k)
    <3>1. k + 1 \in 0 .. n /\ k + 1 # 0 /\ (k + 1) - 1 = k
      OBVIOUS
    <3>2. QED BY <2>1, <3>1
  <2>4. QED BY <2>1, <2>2, <2>3
<1> DEFINE Kept(k) ==
             /\ c[k] \in S
             /\ \A l \in j + k .. len - 1 : c[k].u[l] = u[l]
             /\ Value(c[k].u, len, half) + Gain(c[k]) * Power(half, j + k) =
                  Value(u, len, half) + (f * Value(v, k, half)) * Power(half, j)
           T == {k \in Nat : k <= n => Kept(k)}
<1>9. v \in Row(n) /\ u \in Row(len) /\ Value(u, len, half) \in Int
  <2>1. v \in Row(n) /\ u \in Row(len) /\ len \in 0 .. len
    BY <1>1 DEF Figures, Row
  <2>2. QED BY <1>1, <2>1, ValueIs
<1>10. 0 \in T
  <2>1. c[0].u = u /\ Gain(c[0]) = 0
    <3>1. c[0].u = u /\ c[0].borrow = 0
      BY <1>16, <1>8
    <3>2. QED BY <3>1
  <2>2. Value(v, 0, half) = 0
    BY <1>1, <1>9, ValueIs
  <2>3. Power(half, j) \in Nat /\ j + 0 = j
    <3>1. half \in Nat
      BY <1>1
    <3>2. Power(half, j) \in Nat
      BY <3>1, PowerIs
    <3>3. QED BY <3>2
  <2> HIDE DEF f, Gain
  <2>4. 0 * Power(half, j) = 0 /\ (f * 0) * Power(half, j) = 0
    BY <1>1, <2>3
  <2>5. QED BY <1>4, <1>8, <1>9, <2>1, <2>2, <2>3, <2>4
<1> HIDE DEF f
<1>11. ASSUME NEW k \in Nat, k \in T PROVE k + 1 \in T
  <2> HIDE DEF Kept
  <2>1. SUFFICES ASSUME k + 1 <= n PROVE Kept(k + 1)
    OBVIOUS
  <2>2. k \in 0 .. n - 1 /\ Kept(k)
    BY <1>11, <2>1
  <2> DEFINE a == c[k]
             e == c[k + 1]
             r == New(a, k)
             ga == Gain(a)
             ge == Gain(e)
             i == j + k
             w == Power(half, i)
             wj == Power(half, j)
             wk == Power(half, k)
             x == Value(a.u, len, half)
             o == Value(u, len, half)
             z == Value(v, k, half)
             au == a.u
             eu == e.u
             ui == au[i]
             vk == v[k]
  <2>3. a \in S /\ e = Term(a, k)
    BY <1>8, <2>2 DEF Kept
  <2> HIDE DEF S, New, Gain
  <2>4. /\ e \in S /\ r \in 0 .. half - 1 /\ ui + f * vk + ga = half * ge + r
        /\ eu = [au EXCEPT ![i] = r]
    BY <1>3, <2>2, <2>3
  <2>5. au \in Row(len) /\ eu \in Row(len) /\ ga \in Int /\ ge \in Int /\ r \in Int
    <3>1. au \in Figures(len, half) /\ eu \in Figures(len, half)
      BY <2>3, <2>4 DEF S
    <3> HIDE DEF au, eu
    <3>2. au \in Row(len) /\ eu \in Row(len)
      BY <1>1, <3>1, FiguresRow
    <3> USE DEF au, eu
    <3>3. ga \in Int /\ ge \in Int
      <4>1. a.borrow \in 0 .. half - 1 /\ e.borrow \in 0 .. half - 1
        BY <2>3, <2>4 DEF S
      <4> HIDE DEF a, e
      <4>2. a.borrow \in Int /\ e.borrow \in Int
        BY <1>1, <4>1
      <4>3. QED BY <4>2 DEF Gain
    <3>4. r \in Int
      BY <2>4
    <3>5. QED BY <3>2, <3>3, <3>4
  <2>6. i \in 0 .. len - 1 /\ i \in Nat /\ i < len /\ j + (k + 1) = i + 1
    BY <2>2
  <2>7. ui \in Int /\ vk \in Int
    <3> HIDE DEF i, au
    <3>1. ui \in Int
      BY <2>5, <2>6 DEF Row
    <3>2. vk \in Int
      BY <1>9, <2>2 DEF Row
    <3>3. QED BY <3>1, <3>2
  <2>8. \A l \in i + 1 .. len - 1 : eu[l] = u[l]
    <3>1. \A l \in i .. len - 1 : au[l] = u[l]
      BY <2>2 DEF Kept
    <3>2. \A l \in i + 1 .. len - 1 : l # i /\ l \in 0 .. len - 1 /\ l \in i .. len - 1
      BY <2>6
    <3> HIDE DEF i, au, eu, r
    <3>3. \A l \in 0 .. len - 1 : l # i => eu[l] = au[l]
      BY <2>4, <2>5 DEF Row
    <3>4. QED BY <3>1, <3>2, <3>3
  <2>9. w \in Nat /\ wj \in Nat /\ wk \in Nat /\ w = wj * wk /\ Power(half, i + 1) = half * w
    <3>1. half \in Nat
      BY <1>1
    <3>2. w = wj * wk
      BY <3>1, PowerSum
    <3>3. wj \in Nat /\ wk \in Nat
      BY <3>1, PowerIs
    <3> HIDE DEF i
    <3>4. w \in Nat /\ Power(half, i + 1) = half * w
      BY <2>6, <3>1, PowerIs
    <3>5. QED BY <3>2, <3>3, <3>4
  <2>10. x \in Int /\ o \in Int
    <3>1. len \in 0 .. len
      OBVIOUS
    <3>2. QED BY <1>1, <1>9, <2>5, <3>1, ValueIs
  <2>11. Value(eu, len, half) = x + (r - ui) * w
    <3>1. Altered(au, eu, i, r)
      BY <2>4 DEF Altered
    <3> HIDE DEF au, eu, i, r
    <3>2. Value(eu, len, half) = Value(au, len, half) + (r - au[i]) * Power(half, i)
      BY <1>1, <2>5, <2>6, <3>1, ValueChanged
    <3>3. QED BY <3>2 DEF au
  <2>12. Value(v, k + 1, half) = z + vk * wk /\ z \in Int
    <3>1. k \in 0 .. n - 1 /\ k \in 0 .. n
      BY <2>2
    <3>2. QED BY <1>1, <1>9, <3>1, ValueIs
  <2>13. x + ga * w = o + (f * z) * wj
    BY <2>2 DEF Kept
  <2> DEFINE y1 == f * vk
             s == ui + y1 + ga
  <2>14. y1 \in Int /\ s \in Int /\ s = half * ge + r
    <3>1. y1 \in Int
      BY <1>1, <2>7
    <3>2. QED BY <2>4, <2>5, <2>7, <3>1
  <2>15. (x + (r - ui) * w) + ge * (half * w) = (x + ga * w) + y1 * w
    <3> HIDE DEF x, r, ui, w, ge, ga, y1
    <3>1. half \in Int /\ w \in Int /\ s = ui + y1 + ga
      BY <1>1, <2>9
    <3> HIDE DEF s
    <3>2. QED BY <2>5, <2>7, <2>10, <2>14, <3>1, CarryStep
  <2>16. (f * (z + vk * wk)) * wj = (f * z) * wj + y1 * w
    <3> HIDE DEF z, vk, wk, wj, w
    <3>1. QED BY <1>1, <2>7, <2>9, <2>12
  <2>17. y1 * w \in Int /\ (f * z) * wj \in Int
    <3> HIDE DEF z, y1, w, wj
    <3>1. QED BY <1>1, <2>9, <2>12, <2>14
  <2> HIDE DEF x, r, ui, vk, w, ge, ga, y1, o, z, wk, wj
  <2>18. Value(eu, len, half) + ge * (half * w) = o + (f * (z + vk * wk)) * wj
    BY <2>10, <2>11, <2>13, <2>15, <2>16, <2>17
  <2>19. Value(eu, len, half) + ge * Power(half, j + (k + 1)) = o + (f * Value(v, k + 1, half)) * wj
    BY <2>6, <2>9, <2>12, <2>18
  <2>20. \A l \in j + (k + 1) .. len - 1 : eu[l] = u[l]
    BY <2>6, <2>8
  <2>21. QED BY <2>4, <2>19, <2>20 DEF Kept, ge, o, wj
<1> HIDE DEF T
<1>12. n \in T
  BY <1>10, <1>11, Induction
<1>13. Kept(n)
  BY <1>12 DEF T
<1>14. Subtract(u, v, qp, j, n) = c[n]
  BY <1>2 DEF c
<1>15. QED BY <1>13, <1>14 DEF f

\* The loop of AddBack, before its last carry.
AddBackSum(u, v, j, n) ==
  LET Step(acc, i) ==
        LET sum == acc.u[j + i] + v[i] + acc.carry
        IN  [carry |-> sum \div half, u |-> [acc.u EXCEPT ![j + i] = sum % half]]
  IN  Ascending(Step, [carry |-> 0, u |-> u], n)

\* The divisor is added at its place; what is carried is one at most.
LEMMA AddBackSumIs ==
  ASSUME NEW len \in Nat, NEW u \in Figures(len, half), NEW n \in Nat,
         NEW v \in Figures(n, half), NEW j \in Nat, j + n < len
  PROVE  LET end == AddBackSum(u, v, j, n)
         IN  /\ end.u \in Figures(len, half) /\ end.carry \in 0 .. 1
             /\ \A l \in j + n .. len - 1 : end.u[l] = u[l]
             /\ Value(end.u, len, half) + (end.carry) * Power(half, j + n) =
                  Value(u, len, half) + ((1) * Value(v, n, half)) * Power(half, j)
<1> DEFINE start == [carry |-> 0, u |-> u]
           Term(acc, i) ==
             LET sum == acc.u[j + i] + v[i] + acc.carry
             IN  [carry |-> sum \div half, u |-> [acc.u EXCEPT ![j + i] = sum % half]]
           Tot(a, i) == a.u[j + i] + v[i] + a.carry
           New(a, i) == Tot(a, i) % half
           Gain(a) == a.carry
           f == 1
           S == [carry : 0 .. 1, u : Figures(len, half)]
           F == [a \in S \X (0 .. n - 1) |-> Term(a[1], a[2])]
           Run(g) == g = [k \in 0 .. n |-> IF k = 0 THEN start ELSE Term(g[k - 1], k - 1)]
           c == CHOOSE g : Run(g)
<1>1. half \in Nat \ {0} /\ f \in Int
  BY HalfIs
<1>16. start.carry = 0 /\ start.u = u
  OBVIOUS
<1>2. AddBackSum(u, v, j, n) = c[n]
  BY DEF AddBackSum, Ascending
<1>3. ASSUME NEW a \in S, NEW i \in 0 .. n - 1
      PROVE  /\ Term(a, i) \in S /\ New(a, i) \in 0 .. half - 1
             /\ a.u[j + i] + f * v[i] + Gain(a) = half * Gain(Term(a, i)) + New(a, i)
             /\ Term(a, i).u = [a.u EXCEPT ![j + i] = New(a, i)]
  <2>1. /\ a.u[j + i] \in 0 .. half - 1 /\ v[i] \in 0 .. half - 1 /\ a.carry \in 0 .. 1
        /\ a.u \in Figures(len, half) /\ j + i \in 0 .. len - 1
    BY DEF Figures
  <2> DEFINE s == Tot(a, i)
             e == s \div half
             d1 == a.u[j + i]
             b1 == a.carry
             vi == v[i]
  <2>3. Term(a, i) = [carry |-> e, u |-> [a.u EXCEPT ![j + i] = New(a, i)]]
    OBVIOUS
  <2>2. /\ e \in 0 .. 1 /\ New(a, i) \in 0 .. half - 1
        /\ a.u[j + i] + f * v[i] + Gain(a) = half * e + New(a, i)
    <3>1. d1 \in 0 .. half - 1 /\ b1 \in 0 .. 1 /\ vi \in 0 .. half - 1
      BY <2>1
    <3>2. s = d1 + vi + b1 /\ New(a, i) = s % half /\ Gain(a) = b1
      OBVIOUS
    <3> HIDE DEF d1, b1, vi, s, New, Gain, Tot
    <3>5. Carrying(half, vi, d1, b1, s)
      BY <1>1, <3>2 DEF Carrying
    <3>3. /\ s \div half \in 0 .. 1 /\ s % half \in 0 .. half - 1
          /\ d1 + 1 * vi + b1 = half * (s \div half) + (s % half)
      BY <1>1, <3>1, <3>5, CarryBit
    <3>4. QED BY <3>2, <3>3 DEF d1, vi
  <2> HIDE DEF Term, New
  <2>4. [a.u EXCEPT ![j + i] = New(a, i)] \in Figures(len, half)
    BY <2>1, <2>2 DEF Figures
  <2>5. Term(a, i).u = [a.u EXCEPT ![j + i] = New(a, i)] /\ Term(a, i).carry = e
    BY <2>3
  <2>6. Term(a, i) \in S
    BY <2>2, <2>3, <2>4
  <2> HIDE DEF S, e
  <2>7. QED BY <2>2, <2>5, <2>6
<1>4. start \in S
  BY <1>1
<1> HIDE DEF Term, start
<1>5. PICK g : Loop(S, start, F, n, g)
  <2>1. Stays(S, F, n)
    BY <1>3 DEF Stays
  <2> HIDE DEF S, F
  <2>2. QED BY <1>4, <2>1, LoopRuns
<1>6. Run(g)
  <2>1. ASSUME NEW k \in 0 .. n
        PROVE  g[k] = IF k = 0 THEN start ELSE Term(g[k - 1], k - 1)
    <3>1. CASE k = 0
      BY <1>5, <3>1 DEF Loop
    <3>2. CASE k # 0
      <4>1. k - 1 \in 0 .. n - 1 /\ (k - 1) + 1 = k /\ k - 1 \in 0 .. n
        BY <3>2
      <4>2. g[k] = F[<<g[k - 1], k - 1>>] /\ g[k - 1] \in S
        BY <1>5, <4>1 DEF Loop
      <4>3. QED BY <3>2, <4>1, <4>2
    <3>3. QED BY <3>1, <3>2
  <2>2. g = [k \in 0 .. n |-> g[k]]
    BY <1>5 DEF Loop
  <2>3. QED BY <2>1, <2>2
<1>7. Run(c)
  BY <1>6, Zenon
<1> HIDE DEF c, F
<1>8. c[0] = start /\ \A k \in 0 .. n - 1 : c[k + 1] = Term(c[k], k)
  <2>1. \A k \in 0 .. n : c[k] = IF k = 0 THEN start ELSE Term(c[k - 1], k - 1)
    BY <1>7
  <2>2. 0 \in 0 .. n
    OBVIOUS
  <2>3. ASSUME NEW k \in 0 .. n - 1 PROVE c[k + 1] = Term(c[k], k)
    <3>1. k + 1 \in 0 .. n /\ k + 1 # 0 /\ (k + 1) - 1 = k
      OBVIOUS
    <3>2. QED BY <2>1, <3>1
  <2>4. QED BY <2>1, <2>2, <2>3
<1> DEFINE Kept(k) ==
             /\ c[k] \in S
             /\ \A l \in j + k .. len - 1 : c[k].u[l] = u[l]
             /\ Value(c[k].u, len, half) + Gain(c[k]) * Power(half, j + k) =
                  Value(u, len, half) + (f * Value(v, k, half)) * Power(half, j)
           T == {k \in Nat : k <= n => Kept(k)}
<1>9. v \in Row(n) /\ u \in Row(len) /\ Value(u, len, half) \in Int
  <2>1. v \in Row(n) /\ u \in Row(len) /\ len \in 0 .. len
    BY <1>1 DEF Figures, Row
  <2>2. QED BY <1>1, <2>1, ValueIs
<1>10. 0 \in T
  <2>1. c[0].u = u /\ Gain(c[0]) = 0
    <3>1. c[0].u = u /\ c[0].carry = 0
      BY <1>16, <1>8
    <3>2. QED BY <3>1
  <2>2. Value(v, 0, half) = 0
    BY <1>1, <1>9, ValueIs
  <2>3. Power(half, j) \in Nat /\ j + 0 = j
    <3>1. half \in Nat
      BY <1>1
    <3>2. Power(half, j) \in Nat
      BY <3>1, PowerIs
    <3>3. QED BY <3>2
  <2> HIDE DEF f, Gain
  <2>4. 0 * Power(half, j) = 0 /\ (f * 0) * Power(half, j) = 0
    BY <1>1, <2>3
  <2>5. QED BY <1>4, <1>8, <1>9, <2>1, <2>2, <2>3, <2>4
<1> HIDE DEF f
<1>11. ASSUME NEW k \in Nat, k \in T PROVE k + 1 \in T
  <2> HIDE DEF Kept
  <2>1. SUFFICES ASSUME k + 1 <= n PROVE Kept(k + 1)
    OBVIOUS
  <2>2. k \in 0 .. n - 1 /\ Kept(k)
    BY <1>11, <2>1
  <2> DEFINE a == c[k]
             e == c[k + 1]
             r == New(a, k)
             ga == Gain(a)
             ge == Gain(e)
             i == j + k
             w == Power(half, i)
             wj == Power(half, j)
             wk == Power(half, k)
             x == Value(a.u, len, half)
             o == Value(u, len, half)
             z == Value(v, k, half)
             au == a.u
             eu == e.u
             ui == au[i]
             vk == v[k]
  <2>3. a \in S /\ e = Term(a, k)
    BY <1>8, <2>2 DEF Kept
  <2> HIDE DEF S, New, Gain
  <2>4. /\ e \in S /\ r \in 0 .. half - 1 /\ ui + f * vk + ga = half * ge + r
        /\ eu = [au EXCEPT ![i] = r]
    BY <1>3, <2>2, <2>3
  <2>5. au \in Row(len) /\ eu \in Row(len) /\ ga \in Int /\ ge \in Int /\ r \in Int
    <3>1. au \in Figures(len, half) /\ eu \in Figures(len, half)
      BY <2>3, <2>4 DEF S
    <3>2. au \in Row(len) /\ eu \in Row(len)
      BY <1>1, <3>1 DEF Figures, Row
    <3>3. ga \in Int /\ ge \in Int
      <4>1. a.carry \in 0 .. 1 /\ e.carry \in 0 .. 1
        BY <2>3, <2>4 DEF S
      <4> HIDE DEF a, e
      <4>2. a.carry \in Int /\ e.carry \in Int
        BY <1>1, <4>1
      <4>3. QED BY <4>2 DEF Gain
    <3>4. r \in Int
      BY <2>4
    <3>5. QED BY <3>2, <3>3, <3>4
  <2>6. i \in 0 .. len - 1 /\ i \in Nat /\ i < len /\ j + (k + 1) = i + 1
    BY <2>2
  <2>7. ui \in Int /\ vk \in Int
    <3> HIDE DEF i, au
    <3>1. ui \in Int
      BY <2>5, <2>6 DEF Row
    <3>2. vk \in Int
      BY <1>9, <2>2 DEF Row
    <3>3. QED BY <3>1, <3>2
  <2>8. \A l \in i + 1 .. len - 1 : eu[l] = u[l]
    <3>1. \A l \in i .. len - 1 : au[l] = u[l]
      BY <2>2 DEF Kept
    <3>2. \A l \in i + 1 .. len - 1 : l # i /\ l \in 0 .. len - 1 /\ l \in i .. len - 1
      BY <2>6
    <3> HIDE DEF i, au, eu, r
    <3>3. \A l \in 0 .. len - 1 : l # i => eu[l] = au[l]
      BY <2>4, <2>5 DEF Row
    <3>4. QED BY <3>1, <3>2, <3>3
  <2>9. w \in Nat /\ wj \in Nat /\ wk \in Nat /\ w = wj * wk /\ Power(half, i + 1) = half * w
    <3>1. half \in Nat
      BY <1>1
    <3>2. w = wj * wk
      BY <3>1, PowerSum
    <3>3. wj \in Nat /\ wk \in Nat
      BY <3>1, PowerIs
    <3> HIDE DEF i
    <3>4. w \in Nat /\ Power(half, i + 1) = half * w
      BY <2>6, <3>1, PowerIs
    <3>5. QED BY <3>2, <3>3, <3>4
  <2>10. x \in Int /\ o \in Int
    <3>1. len \in 0 .. len
      OBVIOUS
    <3>2. QED BY <1>1, <1>9, <2>5, <3>1, ValueIs
  <2>11. Value(eu, len, half) = x + (r - ui) * w
    <3>1. Altered(au, eu, i, r)
      BY <2>4 DEF Altered
    <3> HIDE DEF au, eu, i, r
    <3>2. Value(eu, len, half) = Value(au, len, half) + (r - au[i]) * Power(half, i)
      BY <1>1, <2>5, <2>6, <3>1, ValueChanged
    <3>3. QED BY <3>2 DEF au
  <2>12. Value(v, k + 1, half) = z + vk * wk /\ z \in Int
    <3>1. k \in 0 .. n - 1 /\ k \in 0 .. n
      BY <2>2
    <3>2. QED BY <1>1, <1>9, <3>1, ValueIs
  <2>13. x + ga * w = o + (f * z) * wj
    BY <2>2 DEF Kept
  <2> DEFINE y1 == f * vk
             s == ui + y1 + ga
  <2>14. y1 \in Int /\ s \in Int /\ s = half * ge + r
    <3>1. y1 \in Int
      BY <1>1, <2>7
    <3>2. QED BY <2>4, <2>5, <2>7, <3>1
  <2>15. (x + (r - ui) * w) + ge * (half * w) = (x + ga * w) + y1 * w
    <3> HIDE DEF x, r, ui, w, ge, ga, y1
    <3>1. half \in Int /\ w \in Int /\ s = ui + y1 + ga
      BY <1>1, <2>9
    <3> HIDE DEF s
    <3>2. QED BY <2>5, <2>7, <2>10, <2>14, <3>1, CarryStep
  <2>16. (f * (z + vk * wk)) * wj = (f * z) * wj + y1 * w
    <3> HIDE DEF z, vk, wk, wj, w
    <3>1. QED BY <1>1, <2>7, <2>9, <2>12
  <2>17. y1 * w \in Int /\ (f * z) * wj \in Int
    <3> HIDE DEF z, y1, w, wj
    <3>1. QED BY <1>1, <2>9, <2>12, <2>14
  <2> HIDE DEF x, r, ui, vk, w, ge, ga, y1, o, z, wk, wj
  <2>18. Value(eu, len, half) + ge * (half * w) = o + (f * (z + vk * wk)) * wj
    BY <2>10, <2>11, <2>13, <2>15, <2>16, <2>17
  <2>19. Value(eu, len, half) + ge * Power(half, j + (k + 1)) = o + (f * Value(v, k + 1, half)) * wj
    BY <2>6, <2>9, <2>12, <2>18
  <2>20. \A l \in j + (k + 1) .. len - 1 : eu[l] = u[l]
    BY <2>6, <2>8
  <2>21. QED BY <2>4, <2>19, <2>20 DEF Kept, ge, o, wj
<1> HIDE DEF T
<1>12. n \in T
  BY <1>10, <1>11, Induction
<1>13. Kept(n)
  BY <1>12 DEF T
<1>14. AddBackSum(u, v, j, n) = c[n]
  BY <1>2 DEF c
<1>15. QED BY <1>13, <1>14 DEF f

-----------------------------------------------------------------------------
(* One place of algorithm D *)

\* The digits from place k on, when there are two or three more.
LEMMA TopDigits ==
  ASSUME NEW len \in Nat, NEW u \in Figures(len, half), NEW k \in Nat, k + 2 <= len
  PROVE  /\ Value(u, k, half) \in 0 .. Power(half, k) - 1
         /\ Value(u, k + 2, half) = (u[k + 1] * half + u[k]) * Power(half, k) + Value(u, k, half)
         /\ k + 3 <= len =>
              Value(u, k + 3, half) =
                ((u[k + 2] * half + u[k + 1]) * half + u[k]) * Power(half, k) + Value(u, k, half)
<1> DEFINE w == Power(half, k)
           a == u[k]
           b == u[k + 1]
           c == u[k + 2]
           z == Value(u, k, half)
<1>1. half \in Nat \ {0} /\ half \in Nat /\ u \in Row(len)
  BY HalfIs DEF Figures, Row
<1>2. /\ w \in Nat /\ Power(half, k + 1) = half * w /\ Power(half, k + 2) = half * (half * w)
  <2>1. w \in Nat /\ Power(half, k + 1) = half * w
    BY <1>1, PowerIs
  <2>2. k + 1 \in Nat /\ (k + 1) + 1 = k + 2
    OBVIOUS
  <2>3. Power(half, (k + 1) + 1) = half * Power(half, k + 1)
    BY <1>1, <2>2, PowerIs
  <2>4. QED BY <2>1, <2>2, <2>3
<1>3. z \in Nat /\ z < w
  BY <1>1, ValueBounds
<1>4. Value(u, k + 1, half) = z + a * w /\ a \in Int
  <2>1. k \in 0 .. len - 1
    OBVIOUS
  <2>2. QED BY <1>1, <2>1, ValueIs DEF Row
<1>5. Value(u, k + 2, half) = (z + a * w) + b * (half * w) /\ b \in Int
  <2>1. k + 1 \in 0 .. len - 1 /\ (k + 1) + 1 = k + 2
    OBVIOUS
  <2>2. Value(u, (k + 1) + 1, half) = Value(u, k + 1, half) + b * Power(half, k + 1) /\ b \in Int
    BY <1>1, <2>1, ValueIs DEF Row
  <2>3. QED BY <1>2, <1>4, <2>1, <2>2
<1>6. k + 3 <= len =>
        Value(u, k + 3, half) = ((z + a * w) + b * (half * w)) + c * (half * (half * w)) /\ c \in Int
  <2>1. SUFFICES ASSUME k + 3 <= len
                 PROVE  /\ Value(u, k + 3, half) = ((z + a * w) + b * (half * w)) + c * (half * (half * w))
                        /\ c \in Int
    OBVIOUS
  <2>2. k + 2 \in 0 .. len - 1 /\ (k + 2) + 1 = k + 3
    BY <2>1
  <2>3. Value(u, (k + 2) + 1, half) = Value(u, k + 2, half) + c * Power(half, k + 2) /\ c \in Int
    BY <1>1, <2>2, ValueIs DEF Row
  <2>4. QED BY <1>2, <1>5, <2>2, <2>3
<1> HIDE DEF w, a, b, c, z
<1>7. (b * half + a) * w + z = (z + a * w) + b * (half * w)
  BY <1>1, <1>2, <1>3, <1>4, <1>5
<1>8. c \in Int => ((c * half + b) * half + a) * w + z =
                     ((z + a * w) + b * (half * w)) + c * (half * (half * w))
  <2>1. SUFFICES ASSUME c \in Int
                 PROVE  ((c * half + b) * half + a) * w + z =
                          ((z + a * w) + b * (half * w)) + c * (half * (half * w))
    OBVIOUS
  <2>2. ((c * half + b) * half + a) * w = c * (half * (half * w)) + b * (half * w) + a * w
    BY <1>1, <1>2, <1>4, <1>5, <2>1
  <2>3. c * (half * (half * w)) \in Int /\ b * (half * w) \in Int /\ a * w \in Int
    BY <1>1, <1>2, <1>4, <1>5, <2>1
  <2>4. QED BY <1>3, <2>2, <2>3
<1>9. z \in 0 .. w - 1
  BY <1>2, <1>3
<1>10. QED BY <1>5, <1>6, <1>7, <1>8, <1>9 DEF w, a, b, c, z

\* A dividend of three digits and more, a divisor of two digits and more, their
\* quotient d, and the digit that is guessed.
Guess(h, e, x, y, r, z, d, q) ==
  /\ h \in Nat \ {0} /\ e \in Nat \ {0} /\ x \in Nat /\ y \in Nat /\ h <= y
  /\ \E l \in 0 .. e - 1 : r = x * e + l
  /\ \E l \in 0 .. e - 1 : z = y * e + l
  /\ q \in 0 .. h - 1 /\ q * y <= x /\ \A i \in 0 .. h - 1 : i * y <= x => i <= q
  /\ d \in 0 .. h - 1 /\ d * z <= r /\ r < (d + 1) * z

\* The digit that is guessed is right or too large by one.
LEMMA GuessIsClose ==
  ASSUME NEW h, NEW e, NEW x, NEW y, NEW r, NEW z, NEW d, NEW q, Guess(h, e, x, y, r, z, d, q)
  PROVE  d <= q /\ q <= d + 1
<1>1. /\ h \in Nat \ {0} /\ e \in Nat \ {0} /\ x \in Nat /\ y \in Nat /\ h <= y
      /\ q \in 0 .. h - 1 /\ q * y <= x /\ d \in 0 .. h - 1 /\ d * z <= r /\ r < (d + 1) * z
      /\ \A i \in 0 .. h - 1 : i * y <= x => i <= q
  BY DEF Guess
<1>2. PICK k \in 0 .. e - 1 : r = x * e + k
  BY DEF Guess
<1>3. PICK l \in 0 .. e - 1 : z = y * e + l
  BY DEF Guess
<1> DEFINE xe == x * e
           ye == y * e
<1>4. /\ xe \in Nat /\ ye \in Nat /\ k \in Nat /\ l \in Nat /\ e \in Nat /\ e > 0
      /\ k < e /\ l < e /\ q \in Nat /\ d \in Nat /\ h \in Nat
  BY <1>1, <1>2, <1>3
<1>5. r = xe + k /\ z = ye + l /\ r \in Nat /\ z \in Nat
  BY <1>2, <1>3, <1>4
<1>6. d * y <= x
  <2>1. (d * y) * e = d * ye /\ d * z = d * ye + d * l /\ d * l \in Nat /\ d * ye \in Nat
    <3>1. (d * y) * e = d * ye
      BY <1>1
    <3> HIDE DEF ye
    <3>2. d * z = d * ye + d * l /\ d * l \in Nat /\ d * ye \in Nat
      BY <1>4, <1>5
    <3>3. QED BY <3>1, <3>2
  <2>2. (x + 1) * e = xe + e
    BY <1>1
  <2>3. d * z \in Nat
    BY <1>4, <1>5
  <2>4. d * ye < xe + e
    <3> HIDE DEF xe, ye
    <3>1. d * ye <= d * z
      BY <2>1, <2>3
    <3>2. xe + k < xe + e
      BY <1>4
    <3>3. d * z <= xe + k
      BY <1>1, <1>5
    <3>4. d * ye \in Nat /\ d * z \in Nat /\ xe + k \in Nat /\ xe + e \in Nat
      BY <1>4, <2>1, <2>3
    <3> HIDE DEF xe
    <3>5. QED BY <3>1, <3>2, <3>3, <3>4
  <2>5. (d * y) * e < (x + 1) * e
    BY <2>1, <2>2, <2>4
  <2>6. d * y \in Int /\ x + 1 \in Int
    BY <1>1
  <2>7. d * y < x + 1
    BY <1>4, <2>5, <2>6, MulCancel
  <2>8. QED BY <1>1, <2>6, <2>7
<1>7. d <= q
  BY <1>1, <1>6
<1>8. (q - 1) * z <= r
  <2>1. q * ye <= xe
    <3>1. (q * y) * e <= x * e
      <4>1. q * y \in Int /\ x \in Int
        BY <1>1
      <4>2. QED BY <1>1, <1>4, <4>1, MulMonotone
    <3>2. (q * y) * e = q * ye
      BY <1>1
    <3>3. QED BY <3>1, <3>2
  <2>2. q * l <= h * e
    <3>1. q * l <= h * l
      BY <1>1, <1>4, MulMonotone
    <3>2. l * h <= e * h
      BY <1>4, MulMonotone
    <3>3. h * l = l * h /\ e * h = h * e /\ q * l \in Nat /\ h * l \in Nat /\ h * e \in Nat
      BY <1>4
    <3>4. QED BY <3>1, <3>2, <3>3
  <2>3. h * e <= ye
    BY <1>1, <1>4, MulMonotone
  <2> HIDE DEF xe, ye
  <2>4. (q - 1) * z = q * ye + q * l - z
    BY <1>4, <1>5
  <2>5. q * ye \in Nat /\ q * l \in Nat /\ h * e \in Nat
    BY <1>4
  <2>6. (q - 1) * z <= xe + ye - z
    BY <1>4, <1>5, <2>1, <2>2, <2>3, <2>4, <2>5
  <2>7. xe + ye - z <= r
    BY <1>4, <1>5
  <2>8. (q - 1) * z \in Int
    BY <1>4, <1>5
  <2>9. QED BY <1>4, <1>5, <2>6, <2>7, <2>8
<1>9. q - 1 < d + 1
  <2>1. (q - 1) * z < (d + 1) * z
    <3>1. (q - 1) * z \in Int /\ (d + 1) * z \in Int
      BY <1>4, <1>5
    <3>2. QED BY <1>1, <1>5, <1>8, <3>1
  <2>2. q - 1 \in Int /\ d + 1 \in Int
    BY <1>4
  <2>3. QED BY <1>5, <2>1, <2>2, MulCancel
<1>10. QED BY <1>4, <1>7, <1>9

\* c is added to place i, and what does not fit is lost.
Wrapped(u, e, i, c) == \E d : d = u[i] + c /\ e = [u EXCEPT ![i] = d % half]

\* A place that takes a sum modulo the base takes a multiple of the next power away.
LEMMA LastPlace ==
  ASSUME NEW len \in Nat, NEW u \in Figures(len, half), NEW i \in Nat, i < len, NEW c \in Int,
         NEW e, Wrapped(u, e, i, c)
  PROVE  /\ e \in Figures(len, half) /\ \A l \in 0 .. len - 1 : l # i => e[l] = u[l]
         /\ \E g \in Int : Value(e, len, half) =
              (Value(u, len, half) + c * Power(half, i)) + (half * Power(half, i)) * g
<1>12. PICK d : d = u[i] + c /\ e = [u EXCEPT ![i] = d % half]
  BY DEF Wrapped
<1> DEFINE a == u[i]
           r == d % half
           q == d \div half
           v == Value(u, len, half)
           w == Power(half, i)
<1>1. half \in Nat \ {0} /\ half \in Nat /\ u \in Row(len) /\ i \in 0 .. len - 1
  BY HalfIs DEF Figures, Row
<1>2. a \in Int /\ d = a + c /\ d \in Int
  <2>1. a \in Int
    BY <1>1 DEF Row
  <2>2. QED BY <1>12, <2>1
<1>3. q \in Int /\ r \in 0 .. half - 1 /\ d = half * q + r
  BY <1>1, <1>2, DivMod
<1>4. e = [u EXCEPT ![i] = r]
  BY <1>12
<1> HIDE DEF q, r
<1>5. e \in Figures(len, half) /\ \A l \in 0 .. len - 1 : l # i => e[l] = u[l]
  BY <1>1, <1>3, <1>4 DEF Figures
<1>6. Value(e, len, half) = v + (r - a) * w
  <2>1. Altered(u, e, i, r)
    BY <1>4 DEF Altered
  <2>2. r \in Int
    BY <1>3
  <2>3. QED BY <1>1, <2>1, <2>2, ValueChanged
<1>7. v \in Int /\ w \in Int
  <2>1. len \in 0 .. len
    OBVIOUS
  <2>2. v \in Int
    BY <1>1, <2>1, ValueIs
  <2>3. w \in Nat
    BY <1>1, PowerIs
  <2>4. QED BY <2>2, <2>3
<1> HIDE DEF a, v, w
<1>8. v + (r - a) * w = (v + c * w) + (half * w) * (-q)
  <2>1. r - a = c + half * (-q)
    <3>1. half * (-q) = -(half * q) /\ half * q \in Int
      BY <1>1, <1>3
    <3>2. r \in Int
      BY <1>3
    <3>3. QED BY <1>2, <1>3, <3>1, <3>2
  <2>2. (c + half * (-q)) * w = c * w + (half * w) * (-q)
    BY <1>1, <1>3, <1>7
  <2>3. c * w \in Int /\ (half * w) * (-q) \in Int
    BY <1>1, <1>3, <1>7
  <2>4. QED BY <1>7, <2>1, <2>2, <2>3
<1>9. -q \in Int
  BY <1>3
<1>10. \E g \in Int : Value(e, len, half) = (v + c * w) + (half * w) * g
  BY <1>6, <1>8, <1>9
<1>11. QED BY <1>5, <1>10 DEF v, w

\* Two numbers below p that differ by a multiple of p are the same.
LEMMA SameBelow ==
  ASSUME NEW p \in Nat \ {0}, NEW a \in 0 .. p - 1, NEW b \in 0 .. p - 1, NEW g \in Int,
         a = b + p * g
  PROVE  a = b
<1>1. a % p = a /\ b % p = b
  BY ModSmall
<1>2. b \in Int
  OBVIOUS
<1>3. (b + p * g) % p = b % p
  BY <1>2, ModShift
<1>4. QED BY <1>1, <1>3

\* What holds before place j: the divisor has n digits, of which the first reaches
\* half of the base, the digits above j + n are zero, and what is left of the
\* dividend is below the divisor at the place above.
PlaceReady(len, u, v, j, n) ==
  /\ len \in Nat /\ n \in Nat /\ n >= 2 /\ j \in Nat /\ j + n < len
  /\ u \in Figures(len, half) /\ v \in Figures(n, half) /\ 2 * v[n - 1] >= half
  /\ \A l \in j + n + 1 .. len - 1 : u[l] = 0
  /\ Value(u, len, half) < half * (Value(v, n, half) * Power(half, j))

\* The numbers of a place: the dividend, the divisor at its place, and the digit.
LEMMA PlaceGuess ==
  ASSUME NEW len, NEW u, NEW v, NEW j, NEW n, PlaceReady(len, u, v, j, n)
  PROVE  LET z  == Value(v, n, half) * Power(half, j)
             r  == Value(u, len, half)
             qp == TrialDigit(u, v, j, n)
         IN  /\ r \in Nat /\ z \in Nat \ {0} /\ z <= Power(half, j + n) /\ qp \in 0 .. half - 1
             /\ r \div z \in 0 .. half - 1
             /\ r \div z <= qp /\ qp <= (r \div z) + 1
             /\ r = z * (r \div z) + (r % z) /\ r % z \in 0 .. z - 1
<1> DEFINE yv == Value(v, n, half)
           pj == Power(half, j)
           z == yv * pj
           r == Value(u, len, half)
           qp == TrialDigit(u, v, j, n)
           k == j + n - 2
           i == n - 2
           e == Power(half, k)
           ei == Power(half, i)
           x == (u[j + n] * half + u[j + n - 1]) * half + u[j + n - 2]
           y == v[n - 1] * half + v[n - 2]
           xl == Value(u, k, half)
           yl == Value(v, i, half)
<1>1. /\ len \in Nat /\ n \in Nat /\ n >= 2 /\ j \in Nat /\ j + n < len
      /\ u \in Figures(len, half) /\ v \in Figures(n, half) /\ 2 * v[n - 1] >= half
      /\ \A l \in j + n + 1 .. len - 1 : u[l] = 0
      /\ r < half * z
  BY DEF PlaceReady
<1>2. half \in Nat \ {0} /\ half \in Nat /\ half >= 2 /\ u \in Row(len) /\ v \in Row(n)
  <2>1. half \in Nat \ {0} /\ half \in Nat /\ half >= 2
    BY HalfIs
  <2>2. u \in Figures(len, half) /\ v \in Figures(n, half)
    BY <1>1
  <2>3. u \in Row(len) /\ v \in Row(n)
    BY <2>1, <2>2 DEF Figures, Row
  <2>4. QED BY <2>1, <2>3
<1>3. k \in Nat /\ k + 3 <= len /\ k + 2 <= len /\ k + 3 = j + n + 1 /\ i \in Nat /\ i + 2 = n /\ i + 2 <= n
  BY <1>1
\* The first three digits of the dividend.
<1>4. r = x * e + xl /\ xl \in 0 .. e - 1
  <2>1. r = Value(u, k + 3, half)
    <3>1. \A l \in k + 3 .. len - 1 : u[l] = 0
      BY <1>1, <1>3
    <3>2. k + 3 \in Nat /\ len <= len
      BY <1>1, <1>3
    <3> HIDE DEF k
    <3>3. QED BY <1>1, <1>2, <1>3, <3>1, <3>2, ValueZero
  <2>2. k + 2 = j + n /\ k + 1 = j + n - 1 /\ k = j + n - 2
    BY <1>1
  <2> DEFINE x0 == (u[k + 2] * half + u[k + 1]) * half + u[k]
  <2>3. x0 = x
    BY <2>2
  <2> HIDE DEF k
  <2>4. xl \in 0 .. e - 1 /\ Value(u, k + 3, half) = x0 * e + xl
    BY <1>1, <1>3, TopDigits
  <2>5. QED BY <2>1, <2>3, <2>4
\* The first two digits of the divisor.
<1>5. yv = y * ei + yl /\ yl \in 0 .. ei - 1
  <2>1. i + 1 = n - 1 /\ i = n - 2
    BY <1>1
  <2> DEFINE y0 == v[i + 1] * half + v[i]
  <2>2. y0 = y
    BY <2>1
  <2> HIDE DEF i
  <2>3. yl \in 0 .. ei - 1 /\ Value(v, i + 2, half) = y0 * ei + yl
    BY <1>1, <1>3, TopDigits
  <2>4. QED BY <1>3, <2>2, <2>3
<1>6. /\ e \in Nat \ {0} /\ ei \in Nat \ {0} /\ pj \in Nat \ {0} /\ e = ei * pj
  <2>1. k = i + j
    BY <1>1
  <2>2. Power(half, i + j) = ei * pj
    BY <1>1, <1>2, <1>3, PowerSum
  <2> HIDE DEF k, i
  <2>3. e \in Nat \ {0}
    BY <1>2, <1>3, PowerPositive
  <2>4. ei \in Nat \ {0}
    BY <1>2, <1>3, PowerPositive
  <2>5. pj \in Nat \ {0}
    BY <1>1, <1>2, PowerPositive
  <2>6. QED BY <2>1, <2>2, <2>3, <2>4, <2>5
<1>7. /\ u[j + n] \in 0 .. half - 1 /\ u[j + n - 1] \in 0 .. half - 1 /\ u[j + n - 2] \in 0 .. half - 1
      /\ v[n - 1] \in 0 .. half - 1 /\ v[n - 2] \in 0 .. half - 1
  <2>1. /\ n - 1 \in 0 .. n - 1 /\ n - 2 \in 0 .. n - 1
        /\ j + n \in 0 .. len - 1 /\ j + n - 1 \in 0 .. len - 1 /\ j + n - 2 \in 0 .. len - 1
    BY <1>1
  <2>2. (\A l \in 0 .. len - 1 : u[l] \in 0 .. half - 1) /\ \A l \in 0 .. n - 1 : v[l] \in 0 .. half - 1
    BY <1>1 DEF Figures
  <2>3. QED BY <2>1, <2>2
<1>8. x \in Nat
  <2> DEFINE a == u[j + n]
             b == u[j + n - 1]
             c == u[j + n - 2]
  <2>1. a \in Nat /\ b \in Nat /\ c \in Nat
    BY <1>7
  <2> HIDE DEF a, b, c
  <2>2. a * half + b \in Nat
    BY <1>2, <2>1
  <2>3. (a * half + b) * half + c \in Nat
    BY <1>2, <2>1, <2>2
  <2>4. QED BY <2>3 DEF a, b, c
<1>9. y \in Nat /\ half <= y
  <2> DEFINE a == v[n - 1]
             b == v[n - 2]
  <2>1. a \in Nat /\ b \in Nat /\ 2 * a >= half
    BY <1>1, <1>7
  <2> HIDE DEF a, b
  <2>2. 1 <= a
    BY <1>2, <2>1
  <2>3. 1 * half <= a * half
    <3>1. 1 \in Int /\ a \in Int
      BY <2>1
    <3>2. QED BY <1>2, <2>2, <3>1, MulMonotone
  <2>4. a * half + b \in Nat /\ a * half \in Nat /\ 1 * half = half
    BY <1>2, <2>1
  <2>5. half <= a * half + b
    BY <1>2, <2>1, <2>3, <2>4
  <2>6. QED BY <2>4, <2>5 DEF a, b
<1> DEFINE zl == yl * pj
<1>10. z = y * e + zl /\ zl \in 0 .. e - 1 /\ z \in Nat
  <2> HIDE DEF yv, y, e, ei, yl, pj
  <2>1. (y * ei + yl) * pj = y * (ei * pj) + yl * pj
    BY <1>5, <1>6, <1>9
  <2>2. z = y * e + zl
    BY <1>5, <1>6, <2>1
  <2>3. (yl + 1) * pj <= ei * pj
    <3>1. yl + 1 \in Int /\ ei \in Int /\ yl + 1 <= ei
      BY <1>5, <1>6
    <3>2. QED BY <1>6, <3>1, MulMonotone
  <2>4. (yl + 1) * pj = zl + pj /\ zl \in Nat
    BY <1>5, <1>6
  <2>5. zl \in 0 .. e - 1
    BY <1>6, <2>3, <2>4
  <2>6. y * e \in Nat
    BY <1>6, <1>9
  <2> HIDE DEF z, zl
  <2>7. z \in Nat
    BY <2>2, <2>4, <2>6
  <2>8. QED BY <2>2, <2>5, <2>7
<1>11. z <= Power(half, j + n)
  <2>1. yv \in Nat /\ yv < Power(half, n)
    <3>1. n <= n
      BY <1>1
    <3>2. QED BY <1>1, <1>2, <3>1, ValueBounds
  <2>2. Power(half, n) \in Nat
    BY <1>1, <1>2, PowerIs
  <2>3. yv * pj <= Power(half, n) * pj
    BY <1>6, <2>1, <2>2, MulMonotone
  <2>4. Power(half, n + j) = Power(half, n) * pj /\ n + j = j + n
    BY <1>1, <1>2, PowerSum
  <2>5. QED BY <2>3, <2>4
<1> DEFINE d == r \div z
           rest == r % z
<1>12. z \in Nat \ {0} /\ r \in Nat
  <2>1. y * e \in Nat \ {0}
    <3> HIDE DEF y, e
    <3>1. y \in Nat \ {0} /\ e \in Nat \ {0}
      BY <1>2, <1>6, <1>9
    <3>2. QED BY <3>1
  <2>2. len <= len
    BY <1>1
  <2>3. r \in Nat
    BY <1>1, <1>2, <2>2, ValueBounds
  <2> HIDE DEF z, y, e, zl, r
  <2>4. z # 0
    BY <1>10, <2>1
  <2>5. QED BY <1>10, <2>3, <2>4
<1> HIDE DEF z, r
<1>13. d \in Nat /\ rest \in 0 .. z - 1 /\ r = z * d + rest
  <2>1. r \in Int
    BY <1>12
  <2>2. QED BY <1>12, <2>1, DivMod
<1> HIDE DEF d, rest
<1>14. d * z <= r /\ r < (d + 1) * z
  <2>1. d * z = z * d /\ (d + 1) * z = z * d + z /\ z * d \in Nat
    BY <1>12, <1>13
  <2>2. QED BY <1>12, <1>13, <2>1
<1>15. d \in 0 .. half - 1
  <2>1. d * z < half * z
    <3>1. d * z \in Nat /\ half * z \in Nat
      BY <1>2, <1>12, <1>13
    <3>2. QED BY <1>1, <1>12, <1>14, <3>1
  <2>2. d < half
    BY <1>2, <1>12, <1>13, <2>1, MulCancel
  <2>3. QED BY <1>2, <1>13, <2>2
<1>16. x < half * (y + 1)
  <2> HIDE DEF x, y, e, xl, zl
  <2>1. x * e \in Nat /\ xl \in Nat /\ y * e \in Nat
    BY <1>4, <1>6, <1>8, <1>9
  <2>2. half * z <= half * ((y + 1) * e)
    <3>1. (y + 1) * e = y * e + e
      BY <1>6, <1>9
    <3>2. z <= (y + 1) * e /\ (y + 1) * e \in Int
      BY <1>6, <1>10, <2>1, <3>1
    <3>3. z * half <= ((y + 1) * e) * half
      BY <1>2, <1>12, <3>2, MulMonotone
    <3>4. z * half = half * z /\ ((y + 1) * e) * half = half * ((y + 1) * e)
      BY <1>2, <1>12, <3>2
    <3>5. QED BY <3>3, <3>4
  <2>3. half * ((y + 1) * e) = (half * (y + 1)) * e /\ half * z \in Nat /\ half * ((y + 1) * e) \in Nat
    BY <1>2, <1>6, <1>9, <1>12
  <2>4. x * e < (half * (y + 1)) * e
    <3>1. x * e <= r
      BY <1>4, <2>1
    <3>2. QED BY <1>1, <1>12, <2>1, <2>2, <2>3, <3>1
  <2>5. half * (y + 1) \in Int /\ x \in Int
    BY <1>2, <1>8, <1>9
  <2>6. QED BY <1>6, <2>4, <2>5, MulCancel
<1>17. /\ qp \in 0 .. half - 1 /\ qp * y <= x
       /\ \A l \in 0 .. half - 1 : l * y <= x => l <= qp
  <2>1. x = (u[j + n] * half + u[j + n - 1]) * half + u[j + n - 2]
    OBVIOUS
  <2>2. y = v[n - 1] * half + v[n - 2]
    OBVIOUS
  <2> HIDE DEF x, y
  <2>3. /\ TrialDigit(u, v, j, n) \in 0 .. half - 1 /\ TrialDigit(u, v, j, n) * y <= x
        /\ \A l \in 0 .. half - 1 : l * y <= x => l <= TrialDigit(u, v, j, n)
    BY <1>1, <1>16, <2>1, <2>2, TrialIs
  <2>4. QED BY <2>3
<1> HIDE DEF qp
<1>18. Guess(half, e, x, y, r, z, d, qp)
  <2> HIDE DEF e, x, y, xl, zl
  <2>1. (\E l \in 0 .. e - 1 : r = x * e + l) /\ \E l \in 0 .. e - 1 : z = y * e + l
    BY <1>4, <1>10
  <2>2. QED BY <1>2, <1>6, <1>8, <1>9, <1>14, <1>15, <1>17, <2>1 DEF Guess
<1>19. d <= qp /\ qp <= d + 1
  BY <1>18, GuessIsClose
<1>20. QED BY <1>11, <1>12, <1>13, <1>15, <1>17, <1>19 DEF z, r, d, rest, qp

\* With the digits above place i zero, the digits up to it make up the value.
LEMMA ValueUpTo ==
  ASSUME NEW len \in Nat, NEW u \in Figures(len, half), NEW i \in Nat, i < len,
         \A l \in i + 1 .. len - 1 : u[l] = 0
  PROVE  LET w == Power(half, i)
         IN  /\ Value(u, i, half) \in Nat /\ Value(u, i, half) < w
             /\ Value(u, len, half) = Value(u, i, half) + u[i] * w
             /\ Value(u, len, half) \in 0 .. half * w - 1
             /\ half * w \in Nat \ {0} /\ w \in Nat \ {0} /\ u[i] \in 0 .. half - 1
<1> DEFINE w == Power(half, i)
           k == i + 1
<1>1. half \in Nat \ {0} /\ half \in Nat /\ u \in Row(len) /\ k \in Nat /\ k <= len /\ len <= len /\ i <= len
  BY HalfIs DEF Figures, Row
<1>2. Value(u, i + 1, half) = Value(u, i, half) + u[i] * w
  <2>1. i \in 0 .. len - 1
    OBVIOUS
  <2>2. QED BY <1>1, <2>1, ValueIs
<1>3. Value(u, len, half) = Value(u, k, half)
  <2>1. \A l \in k .. len - 1 : u[l] = 0
    OBVIOUS
  <2> HIDE DEF k
  <2>2. QED BY <1>1, <2>1, ValueZero
<1>4. Value(u, i, half) \in Nat /\ Value(u, i, half) < w
  BY <1>1, ValueBounds
<1>5. Power(half, i + 1) = half * w
  BY <1>1, PowerIs
<1> HIDE DEF k
<1>6. Value(u, k, half) \in Nat /\ Value(u, k, half) < Power(half, k)
  BY <1>1, ValueBounds
<1>7. w \in Nat \ {0}
  BY <1>1, PowerPositive
<1>8. half * w \in Nat \ {0}
  <2> HIDE DEF w
  <2>1. QED BY <1>1, <1>7
<1>9. u[i] \in 0 .. half - 1
  BY DEF Figures
<1>10. QED BY <1>2, <1>3, <1>4, <1>5, <1>6, <1>7, <1>8, <1>9 DEF k

\* D4 to D6: the digit of the place is the quotient, and what is left is the remainder.
LEMMA DividePlaceIs ==
  ASSUME NEW len, NEW u, NEW v, NEW j, NEW n, PlaceReady(len, u, v, j, n), NEW q
  PROVE  LET z   == Value(v, n, half) * Power(half, j)
             r   == Value(u, len, half)
             new == DividePlace([u |-> u, q |-> q], v, j, n)
         IN  /\ new.u \in Figures(len, half) /\ new.q = [q EXCEPT ![j] = r \div z]
             /\ Value(new.u, len, half) = r % z
             /\ \A l \in j + n .. len - 1 : new.u[l] = 0
<1> DEFINE yv == Value(v, n, half)
           pj == Power(half, j)
           z == yv * pj
           r == Value(u, len, half)
           qp == TrialDigit(u, v, j, n)
           d == r \div z
           rest == r % z
           diff == Subtract(u, v, qp, j, n)
           b == diff.borrow
           i == j + n
           w == Power(half, i)
           a == diff.u[i]
           u1 == [diff.u EXCEPT ![i] = (a - b) % half]
           back == AddBack(u1, v, j, n)
           new == DividePlace([u |-> u, q |-> q], v, j, n)
<1>1. /\ len \in Nat /\ n \in Nat /\ n >= 2 /\ j \in Nat /\ j + n < len
      /\ u \in Figures(len, half) /\ v \in Figures(n, half)
      /\ \A l \in j + n + 1 .. len - 1 : u[l] = 0
  BY DEF PlaceReady
<1>2. half \in Nat \ {0} /\ half \in Nat /\ half >= 2 /\ i \in Nat /\ i < len /\ i \in 0 .. len - 1
  BY <1>1, HalfIs
<1>3. /\ r \in Nat /\ z \in Nat \ {0} /\ z <= w /\ qp \in 0 .. half - 1
      /\ d \in 0 .. half - 1 /\ d <= qp /\ qp <= d + 1
      /\ r = z * d + rest /\ rest \in 0 .. z - 1
  BY PlaceGuess
<1>4. yv \in Int /\ pj \in Nat
  <2>1. v \in Row(n) /\ n \in 0 .. n
    BY <1>1, <1>2 DEF Figures, Row
  <2>2. yv \in Int
    BY <1>1, <1>2, <2>1, ValueIs
  <2>3. pj \in Nat
    BY <1>1, <1>2, PowerIs
  <2>4. QED BY <2>2, <2>3
<1>5. new = IF a < b THEN [u |-> back, q |-> [q EXCEPT ![j] = qp - 1]]
            ELSE [u |-> u1, q |-> [q EXCEPT ![j] = qp]]
  BY DEF DividePlace
\* After the subtraction.
<1>6. /\ diff.u \in Figures(len, half) /\ b \in 0 .. half - 1
      /\ \A l \in i .. len - 1 : diff.u[l] = u[l]
      /\ Value(diff.u, len, half) + (0 - b) * w = r + ((-qp) * yv) * pj
  <2> HIDE DEF qp
  <2>1. qp \in 0 .. half - 1
    BY <1>3
  <2>2. QED BY <1>1, <2>1, SubtractIs
<1>7. \A l \in i + 1 .. len - 1 : diff.u[l] = 0
  <2>1. \A l \in i + 1 .. len - 1 : l \in i .. len - 1 /\ l \in j + n + 1 .. len - 1
    BY <1>2
  <2>2. QED BY <1>1, <1>6, <2>1
<1> DEFINE du == diff.u
           low == Value(du, i, half)
           dv == Value(du, len, half)
           hw == half * w
<1>8. /\ low \in Nat /\ low < w /\ dv = low + a * w
      /\ hw \in Nat \ {0} /\ w \in Nat \ {0} /\ a \in 0 .. half - 1
  <2> HIDE DEF diff, i
  <2>1. du \in Figures(len, half)
    BY <1>6
  <2> HIDE DEF du
  <2>2. \A l \in i + 1 .. len - 1 : du[l] = 0
    BY <1>7 DEF du
  <2>3. QED BY <1>1, <1>2, <2>1, <2>2, ValueUpTo DEF du
\* The place above takes the borrow modulo the base.
<1>9. PICK g1 \in Int : Value(u1, len, half) = (dv + (0 - b) * w) + hw * g1
  <2> HIDE DEF diff, i
  <2>1. 0 - b \in Int /\ a - b = a + (0 - b)
    <3> HIDE DEF a, b
    <3>1. a \in Int /\ b \in Int
      BY <1>6, <1>8
    <3>2. QED BY <3>1
  <2>2. du \in Figures(len, half)
    BY <1>6
  <2> DEFINE c == 0 - b
             e == a - b
  <2>3. e = du[i] + c /\ u1 = [du EXCEPT ![i] = e % half] /\ c \in Int
    BY <2>1
  <2> HIDE DEF du, c, e, u1
  <2>6. Wrapped(du, u1, i, c)
    BY <2>3 DEF Wrapped
  <2>4. \E g \in Int : Value(u1, len, half) = (Value(du, len, half) + c * Power(half, i)) + (half * Power(half, i)) * g
    BY <1>1, <1>2, <2>2, <2>3, <2>6, LastPlace
  <2>5. QED BY <2>4 DEF c
<1>10. u1 \in Figures(len, half) /\ \A l \in 0 .. len - 1 : l # i => u1[l] = diff.u[l]
  <2> HIDE DEF diff, i
  <2>1. du \in Figures(len, half)
    BY <1>6
  <2> DEFINE c == 0 - b
             e == a - b
  <2>2. c \in Int /\ e = du[i] + c
    <3> DEFINE a0 == du[i]
    <3>1. a0 \in Int /\ b \in Int
      BY <1>6, <1>8
    <3> HIDE DEF b, a0, du
    <3>2. 0 - b \in Int /\ a0 - b = a0 + (0 - b)
      BY <3>1
    <3>3. QED BY <3>2 DEF a0, du
  <2>3. u1 = [du EXCEPT ![i] = e % half]
    OBVIOUS
  <2> HIDE DEF du, c, e, u1
  <2>6. Wrapped(du, u1, i, c)
    BY <2>2, <2>3 DEF Wrapped
  <2>4. u1 \in Figures(len, half) /\ \A l \in 0 .. len - 1 : l # i => u1[l] = du[l]
    BY <1>1, <1>2, <2>1, <2>2, <2>6, LastPlace
  <2>5. QED BY <2>4 DEF du
<1>11. \A l \in i + 1 .. len - 1 : u1[l] = 0
  <2>1. \A l \in i + 1 .. len - 1 : l # i /\ l \in 0 .. len - 1
    BY <1>2
  <2>2. QED BY <1>7, <1>10, <2>1
<1> HIDE DEF diff, i, u1, qp
<1>12. (((-qp) * yv) * pj) = -(qp * z) /\ qp * z \in Int /\ (0 - b) * w = -(b * w) /\ b * w \in Int
       /\ a * w \in Int /\ b \in Int /\ a \in Int
  <2>1. qp \in Int /\ b \in Int /\ w \in Int /\ a \in Int /\ yv \in Int /\ pj \in Int
    <3>1. yv \in Int /\ pj \in Int
      BY <1>4
    <3> HIDE DEF yv, pj, a, b, w
    <3>2. qp \in Int
      BY <1>3
    <3>3. b \in Int /\ w \in Int /\ a \in Int
      BY <1>6, <1>8
    <3>4. QED BY <3>1, <3>2, <3>3
  <2> HIDE DEF yv, pj, w, a, b
  <2>2. ((-qp) * yv) * pj = -(qp * (yv * pj)) /\ qp * (yv * pj) \in Int
    BY <2>1
  <2>3. (0 - b) * w = -(b * w) /\ b * w \in Int /\ a * w \in Int
    BY <2>1
  <2>4. QED BY <2>1, <2>2, <2>3
<1> HIDE DEF z, r, w, b, a, du, dv, low, hw
<1>13. /\ r - qp * z = low + (a - b) * w
       /\ Value(u1, len, half) = (r - qp * z) + hw * g1
  <2> DEFINE k1 == qp * z
             k2 == b * w
             k3 == a * w
             k4 == hw * g1
  <2>1. (a - b) * w = k3 - k2
    <3>1. a \in Int /\ b \in Int /\ w \in Int
      BY <1>8, <1>12
    <3>2. QED BY <3>1
  <2>2. k1 \in Int /\ k2 \in Int /\ k3 \in Int /\ k4 \in Int
    <3>1. k1 \in Int /\ k2 \in Int /\ k3 \in Int
      BY <1>12
    <3>2. hw \in Int /\ g1 \in Int
      BY <1>8
    <3>3. k4 \in Int
      BY <3>2
    <3>4. QED BY <3>1, <3>3
  <2>3. dv + (0 - b) * w = r + ((-qp) * yv) * pj
    BY <1>6 DEF dv, du, w, r
  <2> DEFINE m1 == (0 - b) * w
             m2 == ((-qp) * yv) * pj
             m3 == (a - b) * w
  <2>4. m1 = -k2 /\ m2 = -k1 /\ m3 = k3 - k2
    BY <1>12, <2>1
  <2>5. dv + m1 = r + m2 /\ dv = low + k3
    BY <1>8, <2>3
  <2>6. Value(u1, len, half) = (dv + m1) + k4
    BY <1>9
  <2> HIDE DEF k1, k2, k3, k4, m1, m2, m3
  <2>7. r \in Int /\ low \in Int
    BY <1>3, <1>8
  <2>8. r - k1 = low + m3 /\ (dv + m1) + k4 = (r - k1) + k4
    BY <2>2, <2>4, <2>5, <2>7
  <2>9. QED BY <2>6, <2>8 DEF k1, k4, m3
\* The borrow is too much for the place above just when the digit was too large.
<1>14. a < b => qp = d + 1
  <2>1. SUFFICES ASSUME a < b, qp = d PROVE FALSE
    BY <1>3
  <2>2. (a - b) * w <= (-1) * w
    <3>1. a - b \in Int /\ -1 \in Int /\ a - b <= -1 /\ w \in Nat
      BY <1>8, <1>12, <2>1
    <3>2. QED BY <3>1, MulMonotone
  <2>3. (-1) * w = -w /\ (a - b) * w \in Int
    BY <1>8, <1>12
  <2>4. r - qp * z < 0
    BY <1>8, <1>13, <2>2, <2>3
  <2>5. qp * z = z * d /\ z * d \in Int
    BY <1>3, <2>1
  <2>6. QED BY <1>3, <2>4, <2>5
<1>15. ~(a < b) => qp = d
  <2>1. SUFFICES ASSUME ~(a < b), qp = d + 1 PROVE FALSE
    BY <1>3
  <2>2. 0 * w <= (a - b) * w
    <3>1. a - b \in Int /\ 0 \in Int /\ 0 <= a - b /\ w \in Nat
      BY <1>8, <1>12, <2>1
    <3>2. QED BY <3>1, MulMonotone
  <2>3. 0 * w = 0 /\ (a - b) * w \in Int
    BY <1>8, <1>12
  <2>4. r - qp * z >= 0
    BY <1>8, <1>13, <2>2, <2>3
  <2>5. qp * z = z * d + z /\ z * d \in Int
    BY <1>3, <2>1
  <2>6. QED BY <1>3, <2>4, <2>5
\* What is left is the remainder, for it is that modulo the next power.
<1>16. ASSUME NEW e \in Figures(len, half), \A l \in i + 1 .. len - 1 : e[l] = 0,
              NEW g \in Int, Value(e, len, half) = rest + hw * g
       PROVE  Value(e, len, half) = rest /\ \A l \in i .. len - 1 : e[l] = 0
  <2> DEFINE ev == Value(e, len, half)
             el == Value(e, i, half)
             ei == e[i]
  <2>1. /\ ev \in 0 .. hw - 1 /\ ev = el + ei * w /\ el \in Nat /\ ei \in 0 .. half - 1
    BY <1>1, <1>2, <1>16, ValueUpTo DEF w, hw
  <2>2. z <= hw
    <3>1. 1 * w <= half * w
      <4>1. 1 <= half /\ 1 \in Int /\ half \in Int /\ w \in Nat
        BY <1>2, <1>8
      <4>2. QED BY <4>1, MulMonotone
    <3>2. 1 * w = w /\ half * w \in Int
      BY <1>2, <1>8
    <3>3. QED BY <1>3, <1>8, <3>1, <3>2 DEF hw
  <2>3. rest \in 0 .. hw - 1
    <3> HIDE DEF rest
    <3>1. QED BY <1>3, <1>8, <2>2
  <2> HIDE DEF ev, el, ei, rest
  <2>4. ev = rest + hw * g
    BY <1>16 DEF ev
  <2>5. ev = rest
    BY <1>8, <2>1, <2>3, <2>4, SameBelow
  <2>6. ei = 0
    <3>1. SUFFICES ASSUME ei >= 1 PROVE FALSE
      BY <2>1
    <3>2. 1 * w <= ei * w
      <4>1. 1 \in Int /\ ei \in Int /\ w \in Nat
        BY <1>8, <2>1
      <4>2. QED BY <3>1, <4>1, MulMonotone
    <3>3. 1 * w = w /\ ei * w \in Int /\ w \in Int
      BY <1>8, <2>1
    <3>4. rest < w /\ rest \in Int
      BY <1>3, <1>8
    <3>5. QED BY <2>1, <2>5, <3>2, <3>3, <3>4
  <2>7. \A l \in i .. len - 1 : l = i \/ l \in i + 1 .. len - 1
    BY <1>2
  <2>8. \A l \in i .. len - 1 : e[l] = 0
    BY <1>16, <2>6, <2>7 DEF ei
  <2>9. QED BY <2>5, <2>8 DEF ev
<1>17. CASE ~(a < b)
  <2>1. new = [u |-> u1, q |-> [q EXCEPT ![j] = d]]
    BY <1>5, <1>15, <1>17
  <2>2. Value(u1, len, half) = rest + hw * g1
    <3>1. r - qp * z = rest
      <4>1. qp * z = z * d /\ z * d \in Int
        BY <1>3, <1>15, <1>17
      <4> HIDE DEF rest, d
      <4>2. QED BY <1>3, <4>1
    <3>2. QED BY <1>13, <3>1
  <2>3. Value(u1, len, half) = rest /\ \A l \in i .. len - 1 : u1[l] = 0
    BY <1>10, <1>11, <1>16, <2>2
  <2> HIDE DEF new, d
  <2>4. new.u = u1 /\ new.q = [q EXCEPT ![j] = d]
    BY <2>1
  <2>5. QED BY <1>10, <2>3, <2>4 DEF i, rest, d, r, z, new
<1>18. CASE a < b
  <2>1. new = [u |-> back, q |-> [q EXCEPT ![j] = d]]
    <3>1. qp - 1 = d
      BY <1>3, <1>14, <1>18
    <3>2. QED BY <1>5, <1>18, <3>1
  <2> DEFINE sum == AddBackSum(u1, v, j, n)
             su == sum.u
             ca == sum.carry
             sv == Value(su, len, half)
             s == su[i] + ca
  <2>2. back = [su EXCEPT ![i] = s % half]
    BY DEF AddBack, AddBackSum, i
  <2>3. /\ su \in Figures(len, half) /\ ca \in 0 .. 1
        /\ \A l \in i .. len - 1 : su[l] = u1[l]
        /\ sv + ca * w = Value(u1, len, half) + (1 * yv) * pj
    BY <1>1, <1>10, AddBackSumIs DEF i, w
  <2> HIDE DEF sum, back
  <2>4. /\ back \in Figures(len, half) /\ \A l \in 0 .. len - 1 : l # i => back[l] = su[l]
        /\ \E g \in Int : Value(back, len, half) = (sv + ca * w) + hw * g
    <3>1. ca \in Int /\ s = su[i] + ca
      BY <2>3
    <3> HIDE DEF su, ca, s
    <3>4. Wrapped(su, back, i, ca)
      BY <2>2, <3>1 DEF Wrapped
    <3>2. /\ back \in Figures(len, half) /\ \A l \in 0 .. len - 1 : l # i => back[l] = su[l]
          /\ \E g \in Int : Value(back, len, half) =
               (Value(su, len, half) + ca * Power(half, i)) + (half * Power(half, i)) * g
      BY <1>1, <1>2, <2>3, <3>1, <3>4, LastPlace
    <3>3. QED BY <3>2 DEF hw, w
  <2>5. PICK g2 \in Int : Value(back, len, half) = (sv + ca * w) + hw * g2
    BY <2>4
  <2>6. \A l \in i + 1 .. len - 1 : back[l] = 0
    <3>1. \A l \in i + 1 .. len - 1 : l # i /\ l \in 0 .. len - 1 /\ l \in i .. len - 1
      BY <1>2
    <3>2. QED BY <1>11, <2>3, <2>4, <3>1
  <2> DEFINE g == g1 + g2
  <2>7. Value(back, len, half) = rest + hw * g /\ g \in Int
    <3>1. (1 * yv) * pj = z
      <4>1. 1 * yv = yv
        BY <1>4
      <4>2. QED BY <4>1 DEF z
    <3> DEFINE k1 == sv + ca * w
               k2 == hw * g1
               k3 == hw * g2
               k4 == qp * z
               k5 == Value(u1, len, half)
    <3>2. k4 = z * d + z /\ z * d \in Int
      BY <1>3, <1>14, <1>18
    <3>3. k1 = k5 + z /\ k5 = (r - k4) + k2 /\ Value(back, len, half) = k1 + k3
      BY <1>13, <2>3, <2>5, <3>1
    <3>4. hw * g = k2 + k3 /\ k2 \in Int /\ k3 \in Int
      BY <1>8
    <3>5. k4 \in Int /\ r \in Int /\ z \in Int /\ rest \in Int /\ r = z * d + rest
      BY <1>3, <1>12
    <3>6. g \in Int
      OBVIOUS
    <3> HIDE DEF k1, k2, k3, k4, k5, g, rest, d
    <3>7. k1 + k3 = rest + (k2 + k3)
      BY <3>2, <3>3, <3>4, <3>5
    <3>8. QED BY <3>3, <3>4, <3>6, <3>7
  <2> HIDE DEF g
  <2>8. Value(back, len, half) = rest /\ \A l \in i .. len - 1 : back[l] = 0
    BY <1>16, <2>4, <2>6, <2>7
  <2> HIDE DEF new, d
  <2>9. new.u = back /\ new.q = [q EXCEPT ![j] = d]
    BY <2>1
  <2>10. QED BY <2>4, <2>8, <2>9 DEF i, rest, d, r, z, new
<1>19. QED BY <1>17, <1>18

-----------------------------------------------------------------------------
(* Algorithm D *)

\* D1: there is a shift that gives the first digit its top bit.
LEMMA ShiftIs ==
  ASSUME NEW d \in 1 .. half - 1
  PROVE  LET s == NormalShift(d)
         IN  s \in 0 .. HalfBits - 1 /\ 2 * (d * Power(2, s)) >= half /\ d * Power(2, s) < half
<1> DEFINE k == ActiveDigits(d, 2)
           s == HalfBits - k
           a == Power(2, k - 1)
           f == Power(2, s)
           top == Power(2, HalfBits - 1)
<1>1. HalfBits \in Nat \ {0} /\ half \in Nat /\ d \in Nat /\ d # 0 /\ 2 \in Nat /\ 2 >= 2
  BY ArithmeticAssumption, HalfIs
<1>2. k \in Nat \ {0} /\ d < Power(2, k) /\ a <= d
  <2>1. k \in Nat /\ d < Power(2, k) /\ (k # 0 => a <= d) /\ (k = 0 <=> d = 0)
    BY <1>1, ActiveIs
  <2> HIDE DEF k, a
  <2>2. QED BY <1>1, <2>1
<1>3. k <= HalfBits
  <2>1. HalfBits \in Nat /\ d < Power(2, HalfBits)
    BY <1>1 DEF half
  <2>2. QED BY <1>1, <2>1, ActiveBelow
<1> HIDE DEF k
<1>4. s \in 0 .. HalfBits - 1 /\ s \in Nat /\ k - 1 \in Nat
  BY <1>1, <1>2, <1>3
<1>5. /\ a \in Nat \ {0} /\ f \in Nat \ {0} /\ top \in Nat \ {0}
      /\ Power(2, k) = 2 * a /\ half = 2 * top /\ top = a * f
  <2>1. a \in Nat \ {0}
    BY <1>1, <1>4, PowerPositive
  <2>2. f \in Nat \ {0}
    BY <1>1, <1>4, PowerPositive
  <2>3. HalfBits - 1 \in Nat /\ (HalfBits - 1) + 1 = HalfBits
    BY <1>1
  <2>4. top \in Nat \ {0}
    BY <1>1, <2>3, PowerPositive
  <2>5. half = 2 * top
    <3>1. Power(2, (HalfBits - 1) + 1) = 2 * top
      BY <1>1, <2>3, PowerIs
    <3>2. QED BY <2>3, <3>1 DEF half
  <2>6. Power(2, k) = 2 * a
    <3>1. (k - 1) + 1 = k
      BY <1>2
    <3>2. Power(2, (k - 1) + 1) = 2 * a
      BY <1>1, <1>4, PowerIs
    <3>3. QED BY <3>1, <3>2
  <2>7. top = a * f
    <3> DEFINE e == k - 1
    <3>1. e + s = HalfBits - 1 /\ e \in Nat
      BY <1>1, <1>2, <1>4
    <3> HIDE DEF e, s
    <3>2. Power(2, e + s) = Power(2, e) * Power(2, s)
      BY <1>1, <1>4, <3>1, PowerSum
    <3>3. QED BY <3>1, <3>2 DEF e
  <2>8. QED BY <2>1, <2>2, <2>4, <2>5, <2>6, <2>7
<1> HIDE DEF a, f, top
<1>6. a * f <= d * f /\ d * f < (2 * a) * f
  <2>1. a * f <= d * f
    <3>1. a \in Int /\ d \in Int /\ f \in Nat
      BY <1>1, <1>5
    <3>2. QED BY <1>2, <3>1, MulMonotone
  <2>2. (d + 1) * f <= (2 * a) * f
    <3>1. d + 1 \in Int /\ 2 * a \in Int /\ f \in Nat /\ d + 1 <= 2 * a
      BY <1>1, <1>2, <1>5
    <3>2. QED BY <3>1, MulMonotone
  <2>3. (d + 1) * f = d * f + f /\ d * f \in Nat /\ (2 * a) * f \in Nat
    BY <1>1, <1>5
  <2>4. QED BY <1>5, <2>1, <2>2, <2>3
<1>7. (2 * a) * f = half /\ 2 * (a * f) = half
  BY <1>5
<1>8. half \div 2 = top
  <2>1. half \in Int /\ 2 \in Nat \ {0} /\ top \in Int /\ 0 \in 0 .. 2 - 1 /\ half = 2 * top + 0
    BY <1>1, <1>5
  <2>2. QED BY <2>1, DivModUnique
<1>9. d * f \in half \div 2 .. half - 1
  <2>1. d * f \in Int
    BY <1>1, <1>5
  <2>2. QED BY <1>5, <1>6, <1>7, <1>8, <2>1
<1>10. \E i \in 0 .. HalfBits - 1 : d * Power(2, i) \in half \div 2 .. half - 1
  BY <1>4, <1>9 DEF f
<1> DEFINE n == NormalShift(d)
<1>11. n \in 0 .. HalfBits - 1 /\ d * Power(2, n) \in half \div 2 .. half - 1
  BY <1>10, Zenon DEF NormalShift
<1> HIDE DEF n
<1>12. d * Power(2, n) \in Int
  <2>1. n \in Nat
    BY <1>11
  <2>2. Power(2, n) \in Nat
    BY <1>1, <2>1, PowerIs
  <2>3. QED BY <1>1, <2>2
<1>13. top <= d * Power(2, n) /\ d * Power(2, n) < half
  BY <1>1, <1>5, <1>8, <1>11, <1>12
<1>14. QED BY <1>5, <1>11, <1>12, <1>13 DEF n

\* Both numbers are shifted by the same, and keep their digits.
LEMMA Normalized ==
  ASSUME NEW n \in Nat, n >= 1, NEW y \in Nat, Power(half, n - 1) <= y, y < Power(half, n)
  PROVE  LET f == Power(2, NormalShift(Digits(y, n, half)[n - 1]))
             v == Digits(y * f, n, half)
         IN  /\ f \in Nat \ {0} /\ f < half
             /\ v \in Figures(n, half) /\ Value(v, n, half) = y * f
             /\ 2 * v[n - 1] >= half
<1> DEFINE d == Digits(y, n, half)[n - 1]
           s == NormalShift(d)
           f == Power(2, s)
           p == Power(half, n - 1)
           q == y \div p
           r == y % p
           v == Digits(y * f, n, half)
<1>1. half \in Nat \ {0} /\ half \in Nat /\ half >= 2 /\ 2 \in Nat /\ 2 \in Nat \ {0} /\ HalfBits \in Nat \ {0}
      /\ n - 1 \in Nat /\ (n - 1) + 1 = n /\ n - 1 \in 0 .. n - 1
  BY ArithmeticAssumption, HalfIs
<1>2. p \in Nat \ {0} /\ Power(half, n) = half * p
  <2>1. p \in Nat \ {0}
    BY <1>1, PowerPositive
  <2>2. Power(half, (n - 1) + 1) = half * p
    BY <1>1, PowerIs
  <2>3. QED BY <1>1, <2>1, <2>2
<1>3. q \in Nat /\ r \in 0 .. p - 1 /\ y = p * q + r
  <2>1. y \in Int
    OBVIOUS
  <2> HIDE DEF p
  <2>2. QED BY <1>2, <2>1, DivMod
<1> HIDE DEF p, q, r
<1>4. q \in 1 .. half - 1
  <2>1. q * p < half * p
    <3>1. q * p = p * q /\ p * q \in Nat /\ half * p \in Nat
      BY <1>1, <1>2, <1>3
    <3>2. QED BY <1>2, <1>3, <3>1
  <2>2. q < half
    BY <1>1, <1>2, <1>3, <2>1, MulCancel
  <2>3. q # 0
    <3>1. SUFFICES ASSUME q = 0 PROVE FALSE
      OBVIOUS
    <3>2. p * q = 0
      BY <1>2, <3>1
    <3>3. p <= y
      BY DEF p
    <3>4. QED BY <1>2, <1>3, <3>2, <3>3
  <2>4. QED BY <1>1, <1>3, <2>2, <2>3
<1>5. d = q
  <2>1. d = q % half
    BY <1>1 DEF Digits, p, q
  <2>2. q \in 0 .. half - 1
    BY <1>4
  <2>3. q % half = q
    BY <1>1, <2>2, ModSmall
  <2>4. QED BY <2>1, <2>3
<1> HIDE DEF d
<1>6. s \in 0 .. HalfBits - 1 /\ 2 * (d * f) >= half /\ d * f < half
  <2>1. d \in 1 .. half - 1
    BY <1>4, <1>5
  <2>2. QED BY <2>1, ShiftIs
<1> HIDE DEF s
<1> DEFINE e == Power(2, HalfBits - s)
<1>7. f \in Nat \ {0} /\ e \in Nat \ {0} /\ half = e * f /\ e >= 2
  <2>1. s \in Nat /\ HalfBits - s \in Nat /\ HalfBits - s >= 1 /\ (HalfBits - s) + s = HalfBits
    BY <1>1, <1>6
  <2>2. f \in Nat \ {0}
    BY <1>1, <2>1, PowerPositive
  <2>3. e \in Nat \ {0}
    BY <1>1, <2>1, PowerPositive
  <2> DEFINE t == HalfBits - s
  <2>4. t \in Nat /\ t >= 1
    BY <2>1
  <2> HIDE DEF t
  <2>5. Power(2, t + s) = Power(2, t) * f
    BY <1>1, <2>1, <2>4, PowerSum
  <2>6. half = e * f
    BY <2>1, <2>5 DEF t, half
  <2>7. Power(2, t) > t
    <3>1. 2 >= 2
      OBVIOUS
    <3>2. QED BY <1>1, <2>4, <3>1, PowerAbove
  <2>8. e >= 2
    BY <2>3, <2>4, <2>7 DEF t
  <2>9. QED BY <2>2, <2>3, <2>6, <2>8
<1> HIDE DEF f, e
<1>8. f < half
  <2>1. 2 * f <= e * f
    <3>1. 2 \in Int /\ e \in Int /\ f \in Nat
      BY <1>7
    <3>2. QED BY <1>7, <3>1, MulMonotone
  <2>2. QED BY <1>7, <2>1
<1>9. (q + 1) * f <= half
  <2>1. q * f < e * f
    BY <1>5, <1>6, <1>7
  <2>2. q < e
    <3>1. q \in Int /\ e \in Int /\ f \in Nat
      BY <1>3, <1>7
    <3>2. QED BY <2>1, <3>1, MulCancel
  <2>3. (q + 1) * f <= e * f
    <3>1. q + 1 \in Int /\ e \in Int /\ f \in Nat /\ q + 1 <= e
      BY <1>3, <1>7, <2>2
    <3>2. QED BY <3>1, MulMonotone
  <2>4. QED BY <1>7, <2>3
<1> DEFINE yf == y * f
           qf == q * f
<1>10. yf \in Nat /\ yf = p * qf + r * f /\ yf < half * p /\ qf \in Nat /\ r * f \in Nat
  <2>1. (p * q + r) * f = p * (q * f) + r * f
    BY <1>2, <1>3, <1>7
  <2>2. yf = p * qf + r * f
    BY <1>3, <2>1
  <2>3. qf \in Nat /\ r * f \in Nat /\ p * qf \in Nat
    BY <1>2, <1>3, <1>7
  <2>4. r * f < p * f
    <3>1. (r + 1) * f <= p * f
      <4>1. r + 1 \in Int /\ p \in Int /\ f \in Nat /\ r + 1 <= p
        BY <1>2, <1>3, <1>7
      <4>2. QED BY <4>1, MulMonotone
    <3>2. (r + 1) * f = r * f + f /\ p * f \in Nat
      BY <1>2, <1>3, <1>7
    <3>3. QED BY <1>7, <2>3, <3>1, <3>2
  <2>5. p * qf + p * f = p * ((q + 1) * f)
    BY <1>2, <1>3, <1>7
  <2>6. p * ((q + 1) * f) <= half * p
    <3> DEFINE g == (q + 1) * f
    <3>1. g \in Int /\ g <= half
      BY <1>3, <1>7, <1>9
    <3> HIDE DEF g
    <3>2. g * p <= half * p
      <4>1. p \in Nat /\ half \in Int
        BY <1>1, <1>2
      <4>2. QED BY <3>1, <4>1, MulMonotone
    <3>3. p * g = g * p
      BY <1>2, <3>1
    <3>4. QED BY <3>2, <3>3 DEF g
  <2>7. p * f \in Nat /\ half * p \in Nat
    BY <1>1, <1>2, <1>7
  <2> DEFINE pq == p * qf
             rf == r * f
  <2> HIDE DEF yf, qf
  <2>8. pq + rf < half * p
    BY <2>3, <2>4, <2>5, <2>6, <2>7
  <2>9. QED BY <2>2, <2>3, <2>8
<1> HIDE DEF yf, qf
<1>11. v \in Figures(n, half) /\ Value(v, n, half) = yf
  <2>1. n <= n /\ yf < Power(half, n)
    BY <1>2, <1>10
  <2>2. Digits(yf, n, half) \in Figures(n, half) /\ Value(Digits(yf, n, half), n, half) = yf
    BY <1>1, <1>10, <2>1, ActiveValue
  <2>3. QED BY <2>2 DEF yf
<1> DEFINE t == yf \div p
<1>12. v[n - 1] = t % half
  BY <1>1 DEF Digits, p, yf
<1>13. t \in Nat /\ yf = p * t + (yf % p) /\ yf % p \in 0 .. p - 1
  <2>1. yf \in Int
    BY <1>10
  <2>2. QED BY <1>2, <1>10, <2>1, DivMod
<1> DEFINE rest == yf % p
<1> HIDE DEF t, rest
<1>14. t < half
  <2>1. t * p < half * p
    <3>1. t * p = p * t /\ p * t \in Nat /\ half * p \in Nat
      BY <1>1, <1>2, <1>13
    <3>2. QED BY <1>10, <1>13, <3>1 DEF rest
  <2>2. QED BY <1>1, <1>2, <1>13, <2>1, MulCancel
<1>15. qf <= t
  <2>1. qf * p < (t + 1) * p
    <3>1. (t + 1) * p = p * t + p /\ qf * p = p * qf /\ p * t \in Nat /\ p * qf \in Nat
      BY <1>2, <1>10, <1>13
    <3>2. QED BY <1>2, <1>10, <1>13, <3>1 DEF rest
  <2>2. qf < t + 1
    BY <1>2, <1>10, <1>13, <2>1, MulCancel
  <2>3. QED BY <1>10, <1>13, <2>2
<1>16. v[n - 1] = t
  <2>1. t \in 0 .. half - 1
    BY <1>1, <1>13, <1>14
  <2>2. t % half = t
    BY <1>1, <2>1, ModSmall
  <2>3. QED BY <1>12, <2>2
<1>17. 2 * v[n - 1] >= half
  BY <1>1, <1>5, <1>6, <1>10, <1>13, <1>15, <1>16 DEF qf
<1>18. QED BY <1>7, <1>8, <1>11, <1>17 DEF f, d, s, yf

\* What is kept by algorithm D when the places from j on are done: the dividend is
\* the quotient so far times the divisor, and what is left is below the divisor at
\* place j.
PlacesDone(a, j, x, v, m, n) ==
  LET len == m + n + 1
  IN  /\ a.u \in Figures(len, half) /\ a.q \in Figures(m + 1, half)
      /\ \A l \in j + n .. len - 1 : a.u[l] = 0
      /\ \A l \in 0 .. j - 1 : a.q[l] = 0
      /\ Value(a.u, len, half) < Value(v, n, half) * Power(half, j)
      /\ x = Value(a.q, m + 1, half) * Value(v, n, half) + Value(a.u, len, half)

\* One more place.
LEMMA PlaceStep ==
  ASSUME NEW m \in Nat, NEW n \in Nat, n >= 2, NEW v \in Figures(n, half), 2 * v[n - 1] >= half,
         NEW x \in Nat, NEW j \in 0 .. m,
         NEW a, a = [u |-> a.u, q |-> a.q], PlacesDone(a, j + 1, x, v, m, n)
  PROVE  LET e == DividePlace(a, v, j, n)
         IN  PlacesDone(e, j, x, v, m, n)
<1> DEFINE len == m + n + 1
           e == DividePlace(a, v, j, n)
           u == a.u
           q == a.q
           yv == Value(v, n, half)
           w == Power(half, j)
           z == yv * w
           r == Value(u, len, half)
           d == r \div z
           rest == r % z
           o == Value(q, m + 1, half)
<1>1. half \in Nat \ {0} /\ half \in Nat /\ j \in Nat /\ j + n < len /\ len \in Nat /\ j < m + 1
      /\ m + 1 \in Nat
  <2>1. half \in Nat \ {0} /\ half \in Nat
    BY HalfIs
  <2>2. j \in Nat /\ len \in Nat /\ m + 1 \in Nat
    OBVIOUS
  <2>3. j + n < len /\ j < m + 1
    OBVIOUS
  <2>4. QED BY <2>1, <2>2, <2>3
<1>2. /\ u \in Figures(len, half) /\ q \in Figures(m + 1, half)
      /\ \A l \in j + 1 + n .. len - 1 : u[l] = 0
      /\ \A l \in 0 .. (j + 1) - 1 : q[l] = 0
      /\ r < yv * Power(half, j + 1)
      /\ x = o * yv + r
  BY DEF PlacesDone
<1>3. Power(half, j + 1) = half * w /\ w \in Nat
  BY <1>1, PowerIs
<1>4. v \in Row(n) /\ q \in Row(m + 1) /\ u \in Row(len)
  <2>1. v \in Row(n)
    BY <1>1, FiguresRow
  <2>2. u \in Row(len)
    BY <1>1, <1>2, FiguresRow
  <2>3. q \in Row(m + 1)
    BY <1>1, <1>2, FiguresRow
  <2>4. QED BY <2>1, <2>2, <2>3
<1>5. yv \in Int /\ o \in Int
  <2>1. n \in 0 .. n /\ m + 1 \in 0 .. m + 1
    BY <1>1
  <2>2. yv \in Int
    BY <1>1, <1>4, <2>1, ValueIs
  <2> DEFINE m1 == m + 1
  <2>3. m1 \in Nat /\ q \in Row(m1) /\ m1 \in 0 .. m1
    BY <1>1, <1>4, <2>1
  <2> HIDE DEF m1
  <2>4. Value(q, m1, half) \in Int
    BY <1>1, <2>3, ValueIs
  <2>5. QED BY <2>2, <2>4 DEF m1
<1>6. PlaceReady(len, u, v, j, n)
  <2>1. yv * (half * w) = half * (yv * w)
    BY <1>1, <1>3, <1>5
  <2>2. r < half * (yv * w)
    BY <1>2, <1>3, <2>1
  <2>3. \A l \in j + n + 1 .. len - 1 : u[l] = 0
    <3>1. j + n + 1 = j + 1 + n
      BY <1>1
    <3>2. QED BY <1>2, <3>1
  <2> HIDE DEF len
  <2>4. QED BY <1>1, <1>2, <2>2, <2>3 DEF PlaceReady
<1> HIDE DEF len
<1>7. /\ r \in Nat /\ z \in Nat \ {0} /\ d \in 0 .. half - 1
      /\ r = z * d + rest /\ rest \in 0 .. z - 1
  BY <1>6, PlaceGuess
<1>8. /\ e.u \in Figures(len, half) /\ e.q = [q EXCEPT ![j] = d]
      /\ Value(e.u, len, half) = rest
      /\ \A l \in j + n .. len - 1 : e.u[l] = 0
  <2> DEFINE e0 == DividePlace([u |-> u, q |-> q], v, j, n)
  <2>1. e = e0
    OBVIOUS
  <2> HIDE DEF e
  <2>2. /\ e0.u \in Figures(len, half) /\ e0.q = [q EXCEPT ![j] = r \div z]
        /\ Value(e0.u, len, half) = r % z
        /\ \A l \in j + n .. len - 1 : e0.u[l] = 0
    BY <1>6, DividePlaceIs
  <2>3. QED BY <2>1, <2>2
<1> DEFINE eq == e.q
<1> HIDE DEF e, d, rest
<1>9. eq \in Figures(m + 1, half) /\ \A l \in 0 .. j - 1 : eq[l] = 0
  <2>1. j \in 0 .. (m + 1) - 1
    BY <1>1
  <2>2. eq \in Figures(m + 1, half)
    BY <1>2, <1>7, <1>8, <2>1 DEF Figures
  <2>3. \A l \in 0 .. j - 1 : l \in 0 .. (j + 1) - 1 /\ l # j /\ l \in 0 .. (m + 1) - 1
    BY <1>1
  <2>4. \A l \in 0 .. (m + 1) - 1 : l # j => eq[l] = q[l]
    BY <1>4, <1>8 DEF Row
  <2>5. QED BY <1>2, <2>2, <2>3, <2>4
<1>10. Value(eq, m + 1, half) = o + d * w
  <2> DEFINE m1 == m + 1
  <2>1. q[j] = 0
    <3>1. j \in 0 .. (j + 1) - 1
      BY <1>1
    <3>2. QED BY <1>2, <3>1
  <2>2. Altered(q, eq, j, d) /\ m1 \in Nat /\ j < m1 /\ q \in Row(m1)
    BY <1>1, <1>4, <1>8 DEF Altered
  <2>3. d \in Int
    BY <1>7
  <2> HIDE DEF m1, eq
  <2>4. Value(eq, m1, half) = Value(q, m1, half) + (d - q[j]) * w
    BY <1>1, <2>2, <2>3, ValueChanged
  <2>5. d - q[j] = d
    BY <2>1, <2>3
  <2>6. QED BY <2>4, <2>5 DEF m1
<1>11. x = Value(eq, m + 1, half) * yv + rest
  <2>1. x = o * yv + (z * d + rest)
    BY <1>2, <1>7
  <2>2. (o + d * w) * yv = o * yv + z * d
    <3> HIDE DEF o, w, yv
    <3>1. d \in Int
      BY <1>7
    <3>2. (o + d * w) * yv = o * yv + (yv * w) * d
      BY <1>3, <1>5, <3>1
    <3>3. QED BY <3>2
  <2>3. o * yv \in Int /\ z * d \in Int /\ rest \in Int
    <3> HIDE DEF o, yv
    <3>1. d \in Int /\ z \in Int /\ rest \in Int
      BY <1>7
    <3> HIDE DEF z
    <3>2. QED BY <1>5, <3>1
  <2> DEFINE k1 == o * yv
             k2 == z * d
             k3 == (o + d * w) * yv
  <2> HIDE DEF k1, k2, k3
  <2>4. k1 + (k2 + rest) = k3 + rest
    BY <2>2, <2>3 DEF k1, k2, k3
  <2>5. QED BY <1>10, <2>1, <2>4 DEF k1, k2, k3
<1>12. rest < z
  <2> HIDE DEF z
  <2>1. QED BY <1>7
<1>13. PlacesDone(e, j, x, v, m, n)
  <2>1. Value(e.u, len, half) < z
    BY <1>8, <1>12
  <2>2. x = Value(eq, m + 1, half) * yv + Value(e.u, len, half)
    BY <1>8, <1>11
  <2>3. QED BY <1>8, <1>9, <2>1, <2>2 DEF PlacesDone, len
<1>14. QED BY <1>13 DEF e

\* Numbers of m + n and of n digits.
Placed(x, y, m, n) ==
  n >= 2 /\ x < Power(half, m + n) /\ Power(half, n - 1) <= y /\ y < Power(half, n)

\* Algorithm D divides.
LEMMA KnuthDivIs ==
  ASSUME NEW m \in Nat, NEW n \in Nat, NEW x \in Nat, NEW y \in Nat, Placed(x, y, m, n)
  PROVE  KnuthDiv(x, y, m, n) = Divided(x, y)
<1> USE DEF Placed
<1> DEFINE shift == NormalShift(Digits(y, n, half)[n - 1])
           f == Power(2, shift)
           len == m + n + 1
           u == Digits(x * f, len, half)
           v == Digits(y * f, n, half)
           start == [u |-> u, q |-> [i \in 0 .. m |-> 0]]
           Term(acc, j) == DividePlace(acc, v, j, n)
           count == m + 1
           c == CHOOSE g : g = [k \in 0 .. count |-> IF k = 0 THEN start ELSE Term(g[k - 1], count - k)]
           end == c[count]
           xf == x * f
           yf == y * f
<1>1. half \in Nat \ {0} /\ half \in Nat /\ half >= 2 /\ len \in Nat /\ count \in Nat /\ count \in Nat \ {0}
  BY HalfIs
<1>2. KnuthDiv(x, y, m, n) = [q |-> Value(end.q, m + 1, half), r |-> Value(end.u, n, half) \div f]
  BY DEF KnuthDiv, Descending
<1>3. /\ f \in Nat \ {0} /\ f < half
      /\ v \in Figures(n, half) /\ Value(v, n, half) = yf
      /\ 2 * v[n - 1] >= half
  <2>1. n >= 1
    OBVIOUS
  <2>2. QED BY <2>1, Normalized
<1> HIDE DEF f
<1>4. xf \in Nat /\ yf \in Nat /\ yf # 0 /\ xf < Power(half, len) /\ xf < yf * Power(half, count)
  <2> DEFINE p == Power(half, n - 1)
             s == Power(half, m + n)
             t == Power(half, count)
  <2>1. p \in Nat \ {0} /\ s \in Nat \ {0} /\ t \in Nat \ {0}
    <3>1. n - 1 \in Nat /\ m + n \in Nat
      OBVIOUS
    <3>2. p \in Nat \ {0}
      BY <1>1, <3>1, PowerPositive
    <3>3. s \in Nat \ {0}
      BY <1>1, <3>1, PowerPositive
    <3> HIDE DEF count
    <3>4. t \in Nat \ {0}
      BY <1>1, PowerPositive
    <3>5. QED BY <3>2, <3>3, <3>4
  <2>2. s = p * t
    <3> DEFINE n1 == n - 1
    <3>1. n1 \in Nat /\ n1 + count = m + n
      OBVIOUS
    <3> HIDE DEF n1, count
    <3>2. Power(half, n1 + count) = Power(half, n1) * t
      BY <1>1, <3>1, PowerSum
    <3>3. QED BY <3>1, <3>2 DEF n1
  <2>3. Power(half, len) = half * s
    <3>1. m + n \in Nat /\ len = (m + n) + 1
      OBVIOUS
    <3>2. Power(half, (m + n) + 1) = half * s
      BY <1>1, <3>1, PowerIs
    <3>3. QED BY <3>1, <3>2
  <2>4. x < s /\ p <= y
    OBVIOUS
  <2> HIDE DEF p, s, t
  <2>5. xf \in Nat /\ yf \in Nat
    BY <1>3
  <2>6. yf # 0
    <3>1. y \in Nat \ {0}
      BY <2>1, <2>4
    <3>2. QED BY <1>3, <3>1
  <2>7. xf < s * f
    <3>1. (x + 1) * f <= s * f
      <4>1. x + 1 \in Int /\ s \in Int /\ f \in Nat /\ x + 1 <= s
        BY <1>3, <2>1, <2>4
      <4>2. QED BY <4>1, MulMonotone
    <3>2. (x + 1) * f = xf + f
      BY <1>3
    <3>3. s * f \in Nat
      BY <1>3, <2>1
    <3>4. QED BY <1>3, <2>5, <3>1, <3>2, <3>3
  <2>8. s * f <= half * s
    <3>1. f * s <= half * s
      BY <1>1, <1>3, <2>1, MulMonotone
    <3>2. f * s = s * f
      BY <1>3, <2>1
    <3>3. QED BY <3>1, <3>2
  <2>9. s * f <= yf * t
    <3>1. s * f = (p * f) * t
      BY <1>3, <2>1, <2>2
    <3>2. p * f <= y * f
      BY <1>3, <2>1, <2>4, MulMonotone
    <3>3. p * f \in Int /\ y * f \in Int /\ t \in Nat
      BY <1>3, <2>1
    <3>4. (p * f) * t <= (y * f) * t
      BY <3>2, <3>3, MulMonotone
    <3>5. QED BY <3>1, <3>4
  <2>10. s * f \in Nat /\ half * s \in Nat /\ yf * t \in Nat
    BY <1>1, <1>3, <2>1, <2>5
  <2> HIDE DEF xf, yf
  <2>11. xf < half * s /\ xf < yf * t
    BY <2>5, <2>7, <2>8, <2>9, <2>10
  <2>12. QED BY <2>3, <2>5, <2>6, <2>11 DEF t
<1>5. u \in Figures(len, half) /\ Value(u, len, half) = xf
  <2> HIDE DEF len, xf
  <2>1. len <= len
    BY <1>1
  <2>2. Digits(xf, len, half) \in Figures(len, half) /\ Value(Digits(xf, len, half), len, half) = xf
    BY <1>1, <1>4, <2>1, ActiveValue
  <2>3. QED BY <2>2 DEF xf
<1> HIDE DEF u, v, xf, yf
<1> DEFINE zero == [i \in 0 .. m |-> 0]
           Rest(k) == count - k
           Kept(a, k) == a = [u |-> a.u, q |-> a.q] /\ PlacesDone(a, Rest(k), xf, v, m, n)
           S == [u : Figures(len, half), q : Figures(count, half)]
\* At first no place is done.
<1>6. start \in S /\ Kept(start, 0)
  <2>1. zero \in Figures(count, half) /\ zero \in Row(count)
    <3>1. 0 .. count - 1 = 0 .. m
      OBVIOUS
    <3>2. QED BY <1>1, <3>1 DEF Figures, Row
  <2>2. \A l \in 0 .. m : zero[l] = 0
    OBVIOUS
  <2>3. Value(zero, count, half) = 0
    <3>1. \A l \in 0 .. count - 1 : zero[l] = 0
      BY <2>2
    <3>2. 0 \in Nat /\ 0 <= count /\ count <= count
      BY <1>1
    <3> HIDE DEF zero, count
    <3>3. Value(zero, count, half) = Value(zero, 0, half)
      BY <1>1, <2>1, <3>1, <3>2, ValueZero
    <3>4. Value(zero, 0, half) = 0
      BY <1>1, <2>1, ValueIs
    <3>5. QED BY <3>3, <3>4
  <2>4. Rest(0) = m + 1
    OBVIOUS
  <2>5. start.u = u /\ start.q = zero /\ start = [u |-> start.u, q |-> start.q]
    OBVIOUS
  <2>6. \A l \in (m + 1) + n .. len - 1 : FALSE
    OBVIOUS
  <2>7. \A l \in 0 .. (m + 1) - 1 : zero[l] = 0
    BY <2>2
  <2> HIDE DEF zero, start
  <2>8. xf = 0 * yf + xf
    BY <1>4
  <2>9. start \in S
    BY <1>5, <2>1, <2>5
  <2>10. PlacesDone(start, m + 1, xf, v, m, n)
    BY <1>3, <1>4, <1>5, <2>1, <2>3, <2>5, <2>6, <2>7, <2>8 DEF PlacesDone
  <2>11. QED BY <2>4, <2>5, <2>9, <2>10
<1>7. ASSUME NEW a, NEW k \in 0 .. m, Kept(a, k)
      PROVE  /\ Kept(Term(a, count - (k + 1)), k + 1)
             /\ Term(a, count - (k + 1)) \in S
  <2> DEFINE j == count - (k + 1)
             e == DividePlace(a, v, j, n)
  <2>1. j \in 0 .. m /\ Rest(k) = j + 1 /\ Rest(k + 1) = j
    OBVIOUS
  <2> HIDE DEF j
  <2>2. PlacesDone(a, j + 1, xf, v, m, n) /\ a = [u |-> a.u, q |-> a.q]
    BY <1>7, <2>1
  <2>3. PlacesDone(e, j, xf, v, m, n)
    BY <1>3, <1>4, <2>1, <2>2, PlaceStep
  <2>4. e = [u |-> e.u, q |-> e.q]
    BY DEF DividePlace
  <2> HIDE DEF e
  <2>5. e.u \in Figures(len, half) /\ e.q \in Figures(count, half)
    BY <2>3 DEF PlacesDone
  <2>6. e \in S
    BY <2>4, <2>5
  <2>7. QED BY <2>1, <2>3, <2>4, <2>6 DEF j, e
<1> HIDE DEF Term, start, Kept
\* The steps, made total for the states that are not kept.
<1> DEFINE F == [p \in S \X (0 .. count - 1) |->
                   IF Kept(p[1], p[2]) THEN Term(p[1], count - (p[2] + 1)) ELSE p[1]]
           Run(g) == g = [k \in 0 .. count |-> IF k = 0 THEN start ELSE Term(g[k - 1], count - k)]
<1>8. \A k \in 0 .. count - 1 : k \in 0 .. m
  OBVIOUS
<1>9. PICK g : Loop(S, start, F, count, g)
  <2>1. ASSUME NEW a \in S, NEW k \in 0 .. count - 1 PROVE F[<<a, k>>] \in S
    <3> HIDE DEF S
    <3>1. F[<<a, k>>] = IF Kept(a, k) THEN Term(a, count - (k + 1)) ELSE a
      OBVIOUS
    <3>2. Kept(a, k) => Term(a, count - (k + 1)) \in S
      BY <1>7, <1>8
    <3> HIDE DEF F
    <3>3. QED BY <3>1, <3>2
  <2> HIDE DEF F, S, count
  <2>2. Stays(S, F, count)
    BY <2>1 DEF Stays
  <2>3. QED BY <1>1, <1>6, <2>2, LoopRuns
\* A run whose steps are those of the code while they are kept keeps them.
<1>10. ASSUME NEW h, h[0] = start,
              \A k \in 0 .. m : Kept(h[k], k) => h[k + 1] = Term(h[k], count - (k + 1))
       PROVE  \A k \in 0 .. count : Kept(h[k], k)
  <2> DEFINE T == {k \in Nat : k <= count => Kept(h[k], k)}
  <2>1. 0 \in T
    BY <1>6, <1>10
  <2>2. ASSUME NEW k \in Nat, k \in T PROVE k + 1 \in T
    <3>1. SUFFICES ASSUME k + 1 <= count PROVE Kept(h[k + 1], k + 1)
      OBVIOUS
    <3>2. k \in 0 .. m /\ Kept(h[k], k)
      BY <2>2, <3>1
    <3>3. h[k + 1] = Term(h[k], count - (k + 1))
      BY <1>10, <3>2
    <3>4. Kept(Term(h[k], count - (k + 1)), k + 1)
      BY <1>7, <3>2
    <3>5. QED BY <3>3, <3>4
  <2> HIDE DEF T
  <2>3. \A k \in Nat : k \in T
    BY <2>1, <2>2, Induction
  <2>4. QED BY <2>3 DEF T
<1>11. Run(g)
  <2>1. \A k \in 0 .. m : k \in 0 .. count - 1
    OBVIOUS
  <2>2. g \in [0 .. count -> S] /\ g[0] = start /\ \A k \in 0 .. count - 1 : g[k + 1] = F[<<g[k], k>>]
    BY <1>9 DEF Loop
  <2>3. ASSUME NEW k \in 0 .. m
        PROVE  Kept(g[k], k) => g[k + 1] = Term(g[k], count - (k + 1))
    <3>1. k \in 0 .. count - 1 /\ k \in 0 .. count
      OBVIOUS
    <3> HIDE DEF S, count
    <3>2. g[k] \in S /\ g[k + 1] = F[<<g[k], k>>]
      BY <2>2, <3>1
    <3>3. F[<<g[k], k>>] = IF Kept(g[k], k) THEN Term(g[k], count - (k + 1)) ELSE g[k]
      BY <3>1, <3>2
    <3> HIDE DEF F
    <3>4. QED BY <3>2, <3>3
  <2>4. \A k \in 0 .. count : Kept(g[k], k)
    BY <1>10, <2>2, <2>3
  <2>5. ASSUME NEW k \in 0 .. count
        PROVE  g[k] = IF k = 0 THEN start ELSE Term(g[k - 1], count - k)
    <3>1. CASE k = 0
      BY <2>2, <3>1
    <3>2. CASE k # 0
      <4>1. k - 1 \in 0 .. m /\ (k - 1) + 1 = k /\ k - 1 \in 0 .. count
        BY <3>2
      <4>2. Kept(g[k - 1], k - 1)
        BY <2>4, <4>1
      <4>3. g[(k - 1) + 1] = Term(g[k - 1], count - ((k - 1) + 1))
        BY <2>3, <4>1, <4>2
      <4>4. QED BY <3>2, <4>1, <4>3
    <3>3. QED BY <3>1, <3>2
  <2>6. g = [k \in 0 .. count |-> g[k]]
    BY <2>2
  <2>7. QED BY <2>5, <2>6
<1>12. Run(c)
  BY <1>11, Zenon
<1> HIDE DEF c
<1>13. Kept(c[count], count)
  <2>1. \A k \in 0 .. count : c[k] = IF k = 0 THEN start ELSE Term(c[k - 1], count - k)
    BY <1>12
  <2>2. c[0] = start
    <3>1. 0 \in 0 .. count
      OBVIOUS
    <3>2. QED BY <2>1, <3>1
  <2>3. ASSUME NEW k \in 0 .. m PROVE Kept(c[k], k) => c[k + 1] = Term(c[k], count - (k + 1))
    <3>1. k + 1 \in 0 .. count /\ k + 1 # 0 /\ (k + 1) - 1 = k
      OBVIOUS
    <3>2. c[k + 1] = Term(c[(k + 1) - 1], count - (k + 1))
      BY <2>1, <3>1
    <3>3. QED BY <3>1, <3>2
  <2>4. \A k \in 0 .. count : Kept(c[k], k)
    BY <1>10, <2>2, <2>3
  <2>5. count \in 0 .. count
    OBVIOUS
  <2>6. QED BY <2>4, <2>5
\* In the end all places are done, and the shift is undone.
<1> DEFINE qv == Value(end.q, m + 1, half)
           rv == Value(end.u, n, half)
<1>14. /\ end.u \in Figures(len, half) /\ end.q \in Figures(m + 1, half)
       /\ Value(end.u, len, half) = rv
       /\ rv < yf /\ xf = qv * yf + rv
  <2>1. PlacesDone(end, 0, xf, v, m, n)
    <3>1. Rest(count) = 0
      OBVIOUS
    <3>2. QED BY <1>13, <3>1 DEF Kept
  <2>2. /\ end.u \in Figures(len, half) /\ end.q \in Figures(m + 1, half)
        /\ \A l \in 0 + n .. len - 1 : end.u[l] = 0
        /\ Value(end.u, len, half) < yf * Power(half, 0)
        /\ xf = qv * yf + Value(end.u, len, half)
    BY <1>3, <2>1 DEF PlacesDone
  <2>3. Power(half, 0) = 1 /\ yf * 1 = yf
    BY <1>1, <1>4, PowerIs
  <2> DEFINE eu == end.u
  <2>4. n <= len /\ len <= len /\ \A l \in n .. len - 1 : eu[l] = 0
    BY <2>2
  <2>5. eu \in Row(len)
    BY <1>1, <2>2 DEF Figures, Row
  <2> HIDE DEF eu, len
  <2>6. Value(eu, len, half) = Value(eu, n, half)
    BY <1>1, <2>4, <2>5, ValueZero
  <2>7. QED BY <2>2, <2>3, <2>6 DEF eu
<1>15. qv \in Int /\ rv \in Nat
  <2> DEFINE eu == end.u
             eq == end.q
  <2>1. n <= len /\ count <= count
    OBVIOUS
  <2>2. eu \in Figures(len, half) /\ eq \in Figures(count, half)
    BY <1>14
  <2> HIDE DEF eu, eq, len, count
  <2>3. Value(eu, n, half) \in Nat
    BY <1>1, <2>1, <2>2, ValueBounds
  <2>4. Value(eq, count, half) \in Nat
    BY <1>1, <2>1, <2>2, ValueBounds
  <2>5. QED BY <2>3, <2>4 DEF eu, eq, count
<1> HIDE DEF qv, rv, end
<1> DEFINE r == x - qv * y
<1>16. rv = f * r + 0 /\ r \in Int
  <2>1. x * f = qv * (y * f) + rv
    BY <1>14 DEF xf, yf
  <2>2. qv * (y * f) = (qv * y) * f /\ qv * y \in Int
    BY <1>3, <1>15
  <2>3. r \in Int
    BY <2>2
  <2> DEFINE qy == qv * y
  <2> HIDE DEF qy
  <2>4. f * (x - qy) = x * f - qy * f /\ x * f \in Int /\ qy * f \in Int
    BY <1>3, <2>2 DEF qy
  <2>5. rv = f * (x - qy) + 0
    <3>1. x * f = qy * f + rv
      BY <2>1, <2>2 DEF qy
    <3>2. QED BY <1>15, <2>4, <3>1
  <2>6. QED BY <2>3, <2>5 DEF qy
<1> HIDE DEF r
<1>17. rv \div f = r
  <2>1. 0 \in 0 .. f - 1 /\ rv \in Int
    BY <1>3, <1>15
  <2>2. QED BY <1>3, <1>16, <2>1, DivModUnique
<1>18. r \in 0 .. y - 1
  <2>1. r * f < y * f /\ (-1) * f < r * f
    <3>1. r * f = rv /\ (-1) * f = -f
      BY <1>3, <1>15, <1>16
    <3>2. QED BY <1>3, <1>14, <1>15, <3>1 DEF yf
  <2>2. r < y
    BY <1>3, <1>16, <2>1, MulCancel
  <2>3. -1 < r
    <3>1. -1 \in Int
      OBVIOUS
    <3>2. QED BY <1>3, <1>16, <2>1, <3>1, MulCancel
  <2>4. QED BY <1>16, <2>2, <2>3
<1>19. x \div y = qv /\ x % y = r
  <2>1. y \in Nat \ {0} /\ x \in Int
    BY <1>18
  <2>2. x = y * qv + r
    <3>1. y * qv = qv * y /\ qv * y \in Int
      BY <1>15
    <3>2. r = x - qv * y
      BY DEF r
    <3>3. QED BY <3>1, <3>2
  <2>3. QED BY <1>15, <1>18, <2>1, <2>2, DivModUnique
<1>20. QED BY <1>2, <1>17, <1>19 DEF qv, rv, Divided
-----------------------------------------------------------------------------
(* Quotients and remainders of amounts *)

\* divide, when the dividend has as many digits as the divisor at least.
LEMMA DivideIs ==
  ASSUME NEW x \in Nat, NEW y \in Nat, y # 0, y <= x
  PROVE  Divide(x, y) = Divided(x, y)
<1> DEFINE n == ActiveDigits(y, half)
           k == ActiveDigits(x, half)
           m == k - n
<1>1. half \in Nat /\ half >= 2
  BY HalfIs
<1>2. n \in Nat /\ y < Power(half, n) /\ (n # 0 => Power(half, n - 1) <= y) /\ n # 0
  BY <1>1, ActiveIs
<1>3. k \in Nat /\ x < Power(half, k)
  BY <1>1, ActiveIs
<1>4. n <= k
  <2>1. n - 1 \in Nat /\ Power(half, n - 1) <= y
    BY <1>2
  <2>2. Power(half, n - 1) \in Nat
    BY <1>1, <2>1, PowerIs
  <2>3. Power(half, n - 1) <= x
    BY <2>1, <2>2
  <2> HIDE DEF n, k
  <2>4. n - 1 < ActiveDigits(x, half)
    BY <1>1, <2>1, <2>3, ActiveAbove
  <2>5. QED BY <1>2, <1>3, <2>4 DEF k
<1>5. Divide(x, y) = IF m < 0 THEN [q |-> 1, r |-> 0]
                     ELSE IF n = 1 THEN ShortDiv(x, y, m + n) ELSE KnuthDiv(x, y, m, n)
  BY DEF Divide
<1> HIDE DEF n, k
<1>6. m \in Nat /\ ~(m < 0) /\ m + n = k
  BY <1>2, <1>3, <1>4
<1>7. CASE n = 1
  <2>1. Power(half, 1) = half
    <3>1. Power(half, 0 + 1) = half * Power(half, 0) /\ Power(half, 0) = 1
      BY <1>1, PowerIs
    <3>2. QED BY <1>1, <3>1
  <2>2. y \in 1 .. half - 1
    BY <1>1, <1>2, <1>7, <2>1
  <2>3. ShortDiv(x, y, k) = Divided(x, y)
    BY <1>3, <2>2, ShortDivIs
  <2>4. QED BY <1>5, <1>6, <1>7, <2>3
<1>8. CASE n # 1
  <2>1. n >= 2 /\ Power(half, n - 1) <= y /\ x < Power(half, m + n)
    BY <1>2, <1>3, <1>6, <1>8
  <2> HIDE DEF m
  <2>2. KnuthDiv(x, y, m, n) = Divided(x, y)
    <3>1. m \in Nat /\ n \in Nat /\ Placed(x, y, m, n)
      BY <1>2, <1>6, <2>1 DEF Placed
    <3>2. QED BY <3>1, KnuthDivIs
  <2>3. QED BY <1>5, <1>6, <1>8, <2>2
<1>9. QED BY <1>7, <1>8

-----------------------------------------------------------------------------
(* What the bits mean *)

\* The bits that are kept, and the multiple of their power that is lost.
LEMMA ClearIs ==
  ASSUME NEW width \in Nat \ {0}, NEW x \in Int
  PROVE  /\ Clear(width, x) \in 0 .. Power(2, width) - 1
         /\ \E t \in Int : x = Clear(width, x) + Power(2, width) * t
<1> DEFINE p == Power(2, width)
<1>1. p \in Nat \ {0}
  BY PowerPositive
<1> HIDE DEF p
<1>2. x \div p \in Int /\ x % p \in 0 .. p - 1 /\ x = p * (x \div p) + (x % p)
  BY <1>1, DivMod
<1> DEFINE q == x \div p
           r == x % p
<1> HIDE DEF q, r
<1>3. r \in 0 .. p - 1 /\ x = r + p * q /\ q \in Int
  BY <1>1, <1>2 DEF q, r
<1>4. \E t \in Int : x = r + p * t
  BY <1>3
<1>5. QED BY <1>3, <1>4 DEF Clear, p, r

\* Numbers that fit are kept whole.
LEMMA ClearSmall ==
  ASSUME NEW width \in Nat \ {0}, NEW x \in 0 .. Power(2, width) - 1
  PROVE  Clear(width, x) = x
<1>1. Power(2, width) \in Nat \ {0}
  BY PowerPositive
<1>2. QED BY <1>1, ModSmall DEF Clear

\* x and y differ by a multiple of the power.
Apart(width, x, y) == \E t \in Int : x = y + Power(2, width) * t

LEMMA ClearApart ==
  ASSUME NEW width \in Nat \ {0}, NEW x \in Int, NEW y \in Int, Apart(width, x, y)
  PROVE  Clear(width, x) = Clear(width, y)
<1> DEFINE p == Power(2, width)
<1>1. p \in Nat \ {0}
  BY PowerPositive
<1>2. PICK t \in Int : x = y + p * t
  BY DEF Apart
<1> HIDE DEF p
<1>3. (y + p * t) % p = y % p
  BY <1>1, ModShift
<1>4. QED BY <1>2, <1>3 DEF Clear, p

\* operator+ and operator-
LEMMA AdditionIs ==
  ASSUME NEW width \in Nat \ {0}, NEW x \in Sum(width), NEW y \in Sum(width)
  PROVE  /\ Plus(x, y) \in Sum(width) /\ Plus(x, y).signed = x.signed
         /\ Plus(x, y).n = Clear(width, x.n + y.n)
         /\ Minus(x, y) \in Sum(width) /\ Minus(x, y).signed = x.signed
         /\ Minus(x, y).n = Clear(width, x.n - y.n)
<1> DEFINE c == Power(base, WordCount(width))
<1>1. x = [width |-> x.width, signed |-> x.signed, n |-> x.n] /\ x.width = width /\ x.signed \in BOOLEAN
  BY DEF Sum
<1>2. x.n \in Int /\ y.n \in Int
  <2>1. Power(2, width) \in Nat
    BY PowerPositive
  <2>2. QED BY <2>1 DEF Sum
<1>3. ASSUME NEW sign \in {1, -1}
      PROVE  /\ AddGeneral(x, y, sign) \in Int
             /\ Clear(width, AddGeneral(x, y, sign)) = Clear(width, x.n + sign * y.n)
  <2> DEFINE a == AddGeneral(x, y, sign)
             b == x.n + sign * y.n
  <2>1. a \in Nat /\ \E t \in Int : a = b + c * t
    BY AddWords
  <2>2. PICK t \in Int : a = b + c * t
    BY <2>1
  <2>3. b \in Int /\ a \in Int
    BY <1>2, <2>1
  <2> HIDE DEF a, b
  <2>4. Clear(width, a) = Clear(width, b)
    BY <2>2, <2>3, ClearWords
  <2>5. QED BY <2>3, <2>4 DEF a, b
<1>4. /\ Clear(width, AddGeneral(x, y, 1)) \in 0 .. Power(2, width) - 1
      /\ Clear(width, AddGeneral(x, y, -1)) \in 0 .. Power(2, width) - 1
  BY <1>3, ClearIs
<1>5. 1 * y.n = y.n /\ (-1) * y.n = -y.n /\ x.n + (-y.n) = x.n - y.n
  BY <1>2
<1>6. /\ Clear(width, AddGeneral(x, y, 1)) = Clear(width, x.n + y.n)
      /\ Clear(width, AddGeneral(x, y, -1)) = Clear(width, x.n - y.n)
  <2>1. Clear(width, AddGeneral(x, y, 1)) = Clear(width, x.n + 1 * y.n)
    BY <1>3
  <2>2. Clear(width, AddGeneral(x, y, -1)) = Clear(width, x.n + (-1) * y.n)
    BY <1>3
  <2>3. QED BY <1>5, <2>1, <2>2
<1>7. Plus(x, y) = [width |-> width, signed |-> x.signed, n |-> Clear(width, AddGeneral(x, y, 1))]
  BY <1>1 DEF Plus
<1>8. Minus(x, y) = [width |-> width, signed |-> x.signed, n |-> Clear(width, AddGeneral(x, y, -1))]
  BY <1>1 DEF Minus
<1>9. Plus(x, y) \in Sum(width) /\ Minus(x, y) \in Sum(width)
  BY <1>1, <1>4, <1>7, <1>8 DEF Sum
<1>10. QED BY <1>6, <1>7, <1>8, <1>9

\* The least number of a width is as large as a half of all.
LEMMA HalfPower ==
  ASSUME NEW width \in Nat \ {0}
  PROVE  /\ Power(2, width - 1) \in Nat \ {0} /\ Power(2, width) = 2 * Power(2, width - 1)
         /\ Power(2, width) \in Nat \ {0}
<1> DEFINE e == width - 1
<1>1. e \in Nat /\ e + 1 = width
  OBVIOUS
<1> HIDE DEF e
<1>2. Power(2, e + 1) = 2 * Power(2, e)
  BY <1>1, PowerIs
<1>3. Power(2, e) \in Nat \ {0} /\ Power(2, width) \in Nat \ {0}
  BY <1>1, PowerPositive
<1>4. QED BY <1>1, <1>2, <1>3 DEF e

\* Zero of a width.
LEMMA ZeroNumber ==
  ASSUME NEW width \in Nat \ {0}, NEW signed \in BOOLEAN
  PROVE  /\ Sized(width, signed, 0) \in Sum(width) /\ Sized(width, signed, 0).n = 0
         /\ Sized(width, signed, 0).signed = signed
<1>1. Power(2, width) \in Nat \ {0}
  BY PowerPositive
<1>2. 0 \in 0 .. Power(2, width) - 1
  BY <1>1
<1>3. QED BY <1>2 DEF Sized, Sum

\* operator-()
LEMMA NegatedIs ==
  ASSUME NEW width \in Nat \ {0}, NEW x \in Sum(width)
  PROVE  /\ Negated(x) \in Sum(width) /\ Negated(x).signed = x.signed
         /\ x.n \in Int /\ Negated(x).n = Clear(width, -x.n)
<1> DEFINE z == Sized(x.width, x.signed, 0)
<1>1. x.width = width /\ x.signed \in BOOLEAN /\ x.n \in Int
  <2>1. Power(2, width) \in Nat
    BY PowerPositive
  <2>2. QED BY <2>1 DEF Sum
<1>2. z \in Sum(width) /\ z.n = 0 /\ z.signed = x.signed
  BY <1>1, ZeroNumber
<1>3. Negated(x) = Minus(z, x)
  BY DEF Negated
<1> HIDE DEF z
<1>4. /\ Minus(z, x) \in Sum(width) /\ Minus(z, x).signed = z.signed
      /\ Minus(z, x).n = Clear(width, z.n - x.n)
  BY <1>2, AdditionIs
<1>5. z.n - x.n = -x.n
  BY <1>1, <1>2
<1>6. QED BY <1>1, <1>2, <1>3, <1>4, <1>5

\* The amount of a number: the number itself, or what operator-() makes of it.
Amount(x) == IF x.signed /\ IsNegative(x) THEN Negated(x) ELSE x

\* A number and its bits differ by a multiple of the power; its amount, without a
\* sign, is its magnitude even when it is the least.
LEMMA AmountIs ==
  ASSUME NEW width \in Nat \ {0}, NEW x \in Sum(width)
  PROVE  /\ IntOf(x) \in Int /\ Apart(width, IntOf(x), x.n) /\ x.n \in Int
         /\ Amount(x) \in Sum(width) /\ Amount(x).signed = x.signed
         /\ Amount(x).n = Magnitude(IntOf(x))
         /\ IntOf(x) < 0 <=> x.signed /\ IsNegative(x)
         /\ x.signed /\ x.n # Power(2, width - 1) => Amount(x).n < Power(2, width - 1)
         /\ Amount(x).n = 0 => x.n = 0
<1> DEFINE h == Power(2, width - 1)
           p == Power(2, width)
           i == x.n
<1>1. h \in Nat \ {0} /\ p = 2 * h /\ p \in Nat \ {0}
  BY HalfPower
<1>2. x.width = width /\ x.signed \in BOOLEAN /\ i \in 0 .. p - 1
  BY DEF Sum
<1>3. (IsNegative(x) <=> i >= h) /\ IntOf(x) = IF x.signed /\ i >= h THEN i - p ELSE i
  BY <1>2 DEF IsNegative, IntOf
<1>4. Negated(x) \in Sum(width) /\ Negated(x).signed = x.signed /\ Negated(x).n = Clear(width, -i)
  BY NegatedIs
<1> HIDE DEF h, i
<1>5. CASE x.signed /\ i >= h
  <2>1. IntOf(x) = i - p /\ IntOf(x) \in Int /\ IntOf(x) < 0 /\ Magnitude(IntOf(x)) = p - i
    BY <1>1, <1>2, <1>3, <1>5 DEF Magnitude
  <2>2. IntOf(x) = i + p * (-1)
    BY <1>1, <1>2, <2>1
  <2>3. Apart(width, IntOf(x), i)
    BY <2>2 DEF Apart
  <2>4. p - i \in 0 .. p - 1 /\ p - i \in Int /\ -i \in Int /\ p - i = -i + p * 1
    BY <1>1, <1>2, <1>5
  <2>5. Clear(width, -i) = p - i
    <3>1. Clear(width, p - i) = p - i
      BY <2>4, ClearSmall
    <3>2. Apart(width, p - i, -i)
      BY <2>4 DEF Apart
    <3>3. Clear(width, p - i) = Clear(width, -i)
      BY <2>4, <3>2, ClearApart
    <3>4. QED BY <3>1, <3>3
  <2>6. Amount(x) = Negated(x)
    BY <1>3, <1>5 DEF Amount
  <2>7. Amount(x).n = p - i
    BY <1>4, <2>5, <2>6
  <2>8. i # h => p - i < h
    BY <1>1, <1>2, <1>5
  <2>9. p - i # 0
    BY <1>1, <1>2
  <2>10. Amount(x) \in Sum(width) /\ Amount(x).signed = x.signed
    BY <1>4, <2>6
  <2> HIDE DEF p
  <2>11. QED BY <1>2, <1>3, <1>5, <2>1, <2>3, <2>4, <2>7, <2>8, <2>9, <2>10 DEF h, i
<1>6. CASE ~(x.signed /\ i >= h)
  <2>1. IntOf(x) = i /\ i \in Int /\ ~(i < 0) /\ Magnitude(i) = i
    BY <1>1, <1>2, <1>3, <1>6 DEF Magnitude
  <2>2. i = i + p * 0
    BY <1>1, <1>2
  <2>3. Apart(width, i, i)
    BY <2>2 DEF Apart
  <2>4. Amount(x) = x
    BY <1>3, <1>6 DEF Amount
  <2>5. x.signed => i < h
    BY <1>1, <1>2, <1>6
  <2> HIDE DEF p
  <2>6. QED BY <1>2, <1>3, <1>6, <2>1, <2>3, <2>4, <2>5 DEF h, i
<1>7. QED BY <1>5, <1>6

-----------------------------------------------------------------------------
(* Division of amounts *)

\* The bounds of quotients and remainders.
LEMMA DividedBounds ==
  ASSUME NEW a \in Nat, NEW b \in Nat \ {0}
  PROVE  LET q == a \div b
             r == a % b
         IN  /\ q \in Nat /\ q <= a /\ r \in Nat /\ r <= a /\ r < b
             /\ a < b => q = 0 /\ r = a
<1> DEFINE q == a \div b
           r == a % b
<1>1. q \in Nat /\ r \in 0 .. b - 1 /\ a = b * q + r
  <2>1. a \in Int
    OBVIOUS
  <2>2. q \in Nat
    BY <2>1, DivMod
  <2>3. r \in 0 .. b - 1
    BY <2>1, DivMod
  <2>4. a = b * q + r
    BY <2>1, DivMod
  <2>5. QED BY <2>2, <2>3, <2>4
<1>2. a < b => q = 0 /\ r = a
  <2>1. a < b => a \in 0 .. b - 1
    OBVIOUS
  <2> HIDE DEF q, r
  <2>2. QED BY <2>1, ModSmall DEF q, r
<1> HIDE DEF q, r
<1>3. 1 * q <= b * q
  BY <1>1, MulMonotone
<1>4. q <= a /\ r <= a
  <2>1. 1 * q = q /\ b * q \in Int
    BY <1>1
  <2>2. QED BY <1>1, <1>3, <2>1
<1>5. QED BY <1>1, <1>2, <1>4 DEF q, r

\* SVInt(bits, value, isSigned), unless the word is taken for a negative number.
LEMMA FromWordIs ==
  ASSUME NEW width \in Nat \ {0}, NEW n \in 0 .. Power(2, width) - 1, NEW signed \in BOOLEAN,
         ~(width > WordWidth /\ signed /\ n >= base \div 2)
  PROVE  FromWord(width, n, signed) = Sized(width, signed, n)
<1>1. Clear(width, n) = n
  BY ClearSmall
<1>2. QED BY <1>1 DEF FromWord

\* What is divided: two numbers alike, the divisor not zero, and in several words
\* no sign that the helpers could see in a positive number.
Divisible(width, a, b, n) ==
  /\ a \in Sum(width) /\ b \in Sum(width) /\ b.n # 0 /\ a.signed = b.signed
  /\ \/ width <= WordWidth
     \/ ~a.signed
     \/ a.n < Power(2, width - 1) /\ b.n < Power(2, width - 1) /\ n \notin base \div 2 .. base - 1

\* How the numbers of words compare, and the numbers themselves.
LEMMA WordsCompare ==
  ASSUME NEW x \in Nat, NEW y \in Nat
  PROVE  LET m == ActiveDigits(x, base)
             n == ActiveDigits(y, base)
         IN  /\ m \in Nat /\ n \in Nat /\ (m = 0 <=> x = 0)
             /\ m = 1 => x < base
             /\ m < n => x < y
<1> DEFINE m == ActiveDigits(x, base)
           n == ActiveDigits(y, base)
<1>1. base \in Nat /\ base >= 2 /\ base \in Nat \ {0}
  BY HalfIs
<1>2. m \in Nat /\ x < Power(base, m) /\ (m = 0 <=> x = 0)
  BY <1>1, ActiveIs
<1>3. n \in Nat /\ (n # 0 => Power(base, n - 1) <= y)
  BY <1>1, ActiveIs
<1> HIDE DEF m, n
<1>4. m = 1 => x < base
  <2>1. Power(base, 0 + 1) = base * Power(base, 0) /\ Power(base, 0) = 1
    BY <1>1, PowerIs
  <2>2. Power(base, 1) = base
    BY <1>1, <2>1
  <2>3. QED BY <1>2, <2>2
<1>5. m < n => x < y
  <2>1. SUFFICES ASSUME m < n PROVE x < y
    OBVIOUS
  <2> DEFINE e == n - 1
  <2>2. e \in Nat /\ m <= e /\ Power(base, e) <= y
    BY <1>2, <1>3, <2>1
  <2> HIDE DEF e
  <2>3. Power(base, m) <= Power(base, e)
    BY <1>1, <1>2, <2>2, PowerMonotone
  <2>4. Power(base, m) \in Nat /\ Power(base, e) \in Nat
    BY <1>1, <1>2, <2>2, PowerIs
  <2>5. QED BY <1>2, <2>2, <2>3, <2>4
<1>6. QED BY <1>2, <1>3, <1>4, <1>5 DEF m, n

\* operator< on amounts
LEMMA LessIs ==
  ASSUME NEW width \in Nat \ {0}, NEW a, NEW b, NEW n, Divisible(width, a, b, n),
         width > WordWidth
  PROVE  Less(a, b) <=> a.n < b.n
<1>1. a.signed \in BOOLEAN /\ b.signed = a.signed /\ a.width = width /\ b.width = width
  BY DEF Divisible, Sum
<1>2. CASE ~a.signed
  BY <1>1, <1>2 DEF Less
<1>3. CASE a.signed
  <2>1. WordWidth \in Nat
    BY HalfIs
  <2>2. a.n < Power(2, width - 1) /\ b.n < Power(2, width - 1)
    BY <1>3, <2>1 DEF Divisible
  <2>3. Power(2, width - 1) \in Nat /\ a.n \in Int /\ b.n \in Int
    BY HalfPower DEF Divisible, Sum
  <2>4. IntOf(a) = a.n /\ IntOf(b) = b.n
    BY <1>1, <2>2, <2>3 DEF IntOf, IsNegative
  <2>5. QED BY <1>1, <1>3, <2>4 DEF Less
<1>4. QED BY <1>1, <1>2, <1>3

\* udiv
LEMMA UdivIs ==
  ASSUME NEW width \in Nat \ {0}, NEW a, NEW b, NEW signed \in BOOLEAN,
         Divisible(width, a, b, a.n \div b.n), signed => a.signed
  PROVE  Udiv(a, b, signed) \in Sum(width) /\ Udiv(a, b, signed).n = a.n \div b.n
<1> DEFINE q == a.n \div b.n
           p == Power(2, width)
           m == ActiveDigits(a.n, base)
           n == ActiveDigits(b.n, base)
<1>1. a.n \in 0 .. p - 1 /\ b.n \in 0 .. p - 1 /\ b.n # 0 /\ a.width = width /\ a.signed \in BOOLEAN
      /\ b.signed = a.signed
  BY DEF Divisible, Sum
<1>2. p \in Nat \ {0} /\ a.n \in Nat /\ b.n \in Nat /\ b.n \in Nat \ {0}
  <2>1. p \in Nat \ {0}
    BY PowerPositive
  <2>2. QED BY <1>1, <2>1
<1>3. q \in Nat /\ q <= a.n /\ (a.n < b.n => q = 0)
  BY <1>2, DividedBounds
<1>4. q \in 0 .. p - 1
  BY <1>1, <1>2, <1>3
<1>5. \A s \in BOOLEAN : Sized(width, s, q) \in Sum(width) /\ Sized(width, s, q).n = q
  BY <1>4 DEF Sized, Sum
<1>6. Divisible(width, a, b, q)
  OBVIOUS
<1>7. ~(a.n < b.n) => Divide(a.n, b.n).q = q
  <2>1. SUFFICES ASSUME ~(a.n < b.n) PROVE Divide(a.n, b.n).q = q
    OBVIOUS
  <2>2. b.n <= a.n
    BY <1>2, <2>1
  <2>3. Divide(a.n, b.n) = Divided(a.n, b.n)
    BY <1>1, <1>2, <2>2, DivideIs
  <2>4. QED BY <2>3 DEF Divided
<1>8. /\ m \in Nat /\ n \in Nat /\ (m = 0 <=> a.n = 0)
      /\ m = 1 => a.n < base
      /\ m < n => a.n < b.n
  BY <1>2, WordsCompare
<1>9. Udiv(a, b, signed) =
        IF width <= WordWidth THEN FromWord(width, q, signed)
        ELSE IF m = 0 \/ m < n \/ Less(a, b) THEN Sized(width, signed, 0)
        ELSE IF m = 1 THEN FromWord(width, q, signed)
        ELSE Built(width, m, Divide(a.n, b.n).q, a.signed /\ b.signed)
  BY <1>1 DEF Udiv
<1>10. WordWidth \in Nat /\ base \in Nat
  BY HalfIs
<1> HIDE DEF q, p, m, n
<1>11. CASE width <= WordWidth
  <2>1. ~(width > WordWidth /\ signed /\ q >= base \div 2)
    BY <1>10, <1>11
  <2>2. FromWord(width, q, signed) = Sized(width, signed, q)
    BY <1>4, <2>1, FromWordIs DEF p
  <2>3. QED BY <1>5, <1>9, <1>11, <2>2 DEF q
<1>12. CASE ~(width <= WordWidth)
  <2>1. width > WordWidth
    BY <1>10, <1>12
  <2>2. Less(a, b) <=> a.n < b.n
    BY <1>6, <2>1, LessIs
  <2>3. CASE m = 0 \/ m < n \/ Less(a, b)
    <3>1. q = 0
      BY <1>1, <1>2, <1>3, <1>8, <2>2, <2>3
    <3>2. QED BY <1>5, <1>9, <1>12, <2>3, <3>1 DEF q
  <2>4. CASE ~(m = 0 \/ m < n \/ Less(a, b)) /\ m = 1
    <3>1. q < base
      BY <1>2, <1>3, <1>8, <1>10, <2>4
    <3>2. signed => q \notin base \div 2 .. base - 1
      BY <1>6, <1>12 DEF Divisible
    <3>3. base \div 2 \in Int
      BY <1>10
    <3>4. ~(width > WordWidth /\ signed /\ q >= base \div 2)
      <4> DEFINE h == base \div 2
      <4>1. h \in Int
        BY <3>3
      <4> HIDE DEF h
      <4>2. signed => q \notin h .. base - 1
        BY <3>2 DEF h
      <4>3. ~(signed /\ q >= h)
        BY <1>3, <1>10, <3>1, <4>1, <4>2
      <4>4. QED BY <4>3 DEF h
    <3>5. FromWord(width, q, signed) = Sized(width, signed, q)
      BY <1>4, <3>4, FromWordIs DEF p
    <3>6. QED BY <1>5, <1>9, <1>12, <2>4, <3>5 DEF q
  <2>5. CASE ~(m = 0 \/ m < n \/ Less(a, b)) /\ m # 1
    <3>1. Divide(a.n, b.n).q = q
      BY <1>7, <2>2, <2>5
    <3>2. Udiv(a, b, signed) = Sized(width, a.signed /\ b.signed, q)
      BY <1>9, <1>12, <2>5, <3>1 DEF Built
    <3>3. (a.signed /\ b.signed) \in BOOLEAN
      OBVIOUS
    <3>4. QED BY <1>5, <3>2, <3>3 DEF q
  <2>6. QED BY <2>3, <2>4, <2>5
<1>13. QED BY <1>11, <1>12

\* urem
LEMMA UremIs ==
  ASSUME NEW width \in Nat \ {0}, NEW a, NEW b, NEW signed \in BOOLEAN,
         Divisible(width, a, b, a.n % b.n), signed => a.signed
  PROVE  Urem(a, b, signed) \in Sum(width) /\ Urem(a, b, signed).n = a.n % b.n
<1> DEFINE r == a.n % b.n
           p == Power(2, width)
           m == ActiveDigits(a.n, base)
           n == ActiveDigits(b.n, base)
<1>1. a.n \in 0 .. p - 1 /\ b.n \in 0 .. p - 1 /\ b.n # 0 /\ a.width = width /\ a.signed \in BOOLEAN
      /\ b.signed = a.signed /\ a \in Sum(width)
  BY DEF Divisible, Sum
<1>2. p \in Nat \ {0} /\ a.n \in Nat /\ b.n \in Nat /\ b.n \in Nat \ {0}
  <2>1. p \in Nat \ {0}
    BY PowerPositive
  <2>2. QED BY <1>1, <2>1
<1>3. r \in Nat /\ r <= a.n /\ r < b.n /\ (a.n < b.n => r = a.n)
  BY <1>2, DividedBounds
<1>4. r \in 0 .. p - 1
  BY <1>1, <1>2, <1>3
<1>5. \A s \in BOOLEAN : Sized(width, s, r) \in Sum(width) /\ Sized(width, s, r).n = r
  BY <1>4 DEF Sized, Sum
<1>6. Divisible(width, a, b, r)
  OBVIOUS
<1>7. ~(a.n < b.n) => Divide(a.n, b.n).r = r
  <2>1. SUFFICES ASSUME ~(a.n < b.n) PROVE Divide(a.n, b.n).r = r
    OBVIOUS
  <2>2. b.n <= a.n
    BY <1>2, <2>1
  <2>3. Divide(a.n, b.n) = Divided(a.n, b.n)
    BY <1>1, <1>2, <2>2, DivideIs
  <2>4. QED BY <2>3 DEF Divided
<1>8. /\ m \in Nat /\ n \in Nat /\ (m = 0 <=> a.n = 0)
      /\ m = 1 => a.n < base
      /\ m < n => a.n < b.n
  BY <1>2, WordsCompare
<1>9. n = 1 => b.n < base
  BY <1>2, WordsCompare
<1>10. Urem(a, b, signed) =
        IF width <= WordWidth THEN FromWord(width, r, signed)
        ELSE IF m = 0 THEN Sized(width, signed, 0)
        ELSE IF m < n \/ Less(a, b) THEN a
        ELSE IF m = 1 THEN FromWord(width, r, signed)
        ELSE IF n = 1 THEN FromWord(width, Divide(a.n, b.n).r, a.signed /\ b.signed)
        ELSE Sized(width, a.signed /\ b.signed, Divide(a.n, b.n).r)
  BY <1>1 DEF Urem, Built
<1>11. WordWidth \in Nat /\ base \in Nat
  BY HalfIs
<1> HIDE DEF r, p, m, n
<1>12. CASE width <= WordWidth
  <2>1. ~(width > WordWidth /\ signed /\ r >= base \div 2)
    BY <1>11, <1>12
  <2>2. FromWord(width, r, signed) = Sized(width, signed, r)
    BY <1>4, <2>1, FromWordIs DEF p
  <2>3. QED BY <1>5, <1>10, <1>12, <2>2 DEF r
<1>13. CASE ~(width <= WordWidth)
  <2>1. width > WordWidth
    BY <1>11, <1>13
  <2>2. Less(a, b) <=> a.n < b.n
    BY <1>6, <2>1, LessIs
  <2>3. ASSUME r < base, NEW s \in BOOLEAN, s => a.signed
        PROVE  FromWord(width, r, s) = Sized(width, s, r)
    <3> DEFINE h == base \div 2
    <3>1. h \in Int
      BY <1>11
    <3>2. a.signed => r \notin h .. base - 1
      BY <1>6, <1>13 DEF Divisible
    <3> HIDE DEF h
    <3>3. ~(s /\ r >= h)
      BY <1>3, <1>11, <2>3, <3>1, <3>2
    <3>4. ~(width > WordWidth /\ s /\ r >= base \div 2)
      BY <3>3 DEF h
    <3>5. QED BY <1>4, <3>4, FromWordIs DEF p
  <2>4. CASE m = 0
    <3>1. r = 0
      BY <1>1, <1>2, <1>3, <1>8, <2>4
    <3>2. QED BY <1>5, <1>10, <1>13, <2>4, <3>1 DEF r
  <2>5. CASE m # 0 /\ (m < n \/ Less(a, b))
    <3>1. r = a.n
      BY <1>3, <1>8, <2>2, <2>5
    <3>2. QED BY <1>1, <1>10, <1>13, <2>5, <3>1 DEF r
  <2>6. CASE m # 0 /\ ~(m < n \/ Less(a, b)) /\ m = 1
    <3>1. r < base
      BY <1>2, <1>3, <1>8, <1>11, <2>6
    <3>2. FromWord(width, r, signed) = Sized(width, signed, r)
      BY <2>3, <3>1
    <3>3. QED BY <1>5, <1>10, <1>13, <2>6, <3>2 DEF r
  <2>7. CASE m # 0 /\ ~(m < n \/ Less(a, b)) /\ m # 1
    <3> DEFINE s == a.signed /\ b.signed
    <3>1. Divide(a.n, b.n).r = r /\ s \in BOOLEAN /\ (s => a.signed)
      BY <1>7, <2>2, <2>7
    <3> HIDE DEF s
    <3>2. CASE n = 1
      <4>1. r < base
        BY <1>2, <1>3, <1>9, <1>11, <3>2
      <4>2. FromWord(width, r, s) = Sized(width, s, r)
        BY <2>3, <3>1, <4>1
      <4>3. Urem(a, b, signed) = Sized(width, s, r)
        BY <1>10, <1>13, <2>7, <3>1, <3>2, <4>2 DEF s
      <4>4. QED BY <1>5, <3>1, <4>3 DEF r
    <3>3. CASE n # 1
      <4>1. Urem(a, b, signed) = Sized(width, s, r)
        BY <1>10, <1>13, <2>7, <3>1, <3>3 DEF s
      <4>2. QED BY <1>5, <3>1, <4>1 DEF r
    <3>4. QED BY <3>2, <3>3
  <2>8. QED BY <2>4, <2>5, <2>6, <2>7
<1>14. QED BY <1>12, <1>13

\* The magnitude of a number with a sign.
LEMMA SignedMagnitude ==
  ASSUME NEW n \in Nat, NEW negative \in BOOLEAN
  PROVE  WithSign(n, negative) \in Int /\ Magnitude(WithSign(n, negative)) = n
BY DEF WithSign, Magnitude

\* Two numbers alike, of which the second is not zero, and none that is taken for
\* negative when it is positive.
Operands(width, x, y, result) ==
  /\ x \in Sum(width) /\ y \in Sum(width) /\ y.n # 0 /\ x.signed = y.signed
  /\ ~(/\ x.signed /\ width > WordWidth
       /\ Power(2, width - 1) \in {x.n, y.n} \/ Magnitude(result) \in base \div 2 .. base - 1)

\* Their amounts can be divided.
LEMMA AmountsDivisible ==
  ASSUME NEW width \in Nat \ {0}, NEW x, NEW y, NEW n \in Nat, NEW negative \in BOOLEAN,
         Operands(width, x, y, WithSign(n, negative))
  PROVE  Divisible(width, Amount(x), Amount(y), n)
<1>1. x \in Sum(width) /\ y \in Sum(width) /\ y.n # 0 /\ x.signed = y.signed
  BY DEF Operands
<1>2. /\ Amount(x) \in Sum(width) /\ Amount(x).signed = x.signed
      /\ x.signed /\ x.n # Power(2, width - 1) => Amount(x).n < Power(2, width - 1)
  BY <1>1, AmountIs
<1>3. /\ Amount(y) \in Sum(width) /\ Amount(y).signed = y.signed
      /\ y.signed /\ y.n # Power(2, width - 1) => Amount(y).n < Power(2, width - 1)
      /\ Amount(y).n = 0 => y.n = 0
  BY <1>1, AmountIs
<1>4. Magnitude(WithSign(n, negative)) = n
  BY SignedMagnitude
<1>5. WordWidth \in Nat
  BY HalfIs
<1>6. \/ width <= WordWidth
      \/ ~x.signed
      \/ Power(2, width - 1) \notin {x.n, y.n} /\ n \notin base \div 2 .. base - 1
  BY <1>4, <1>5 DEF Operands
<1>7. QED BY <1>1, <1>2, <1>3, <1>6 DEF Divisible

\* operator/
LEMMA QuotientIs ==
  ASSUME NEW width \in Nat \ {0}, NEW x, NEW y,
         Operands(width, x, y, TrueQuotient(IntOf(x), IntOf(y)))
  PROVE  /\ TrueQuotient(IntOf(x), IntOf(y)) \in Int
         /\ Quotient(x, y).n = Clear(width, TrueQuotient(IntOf(x), IntOf(y)))
<1> DEFINE a == Amount(x)
           b == Amount(y)
           q == a.n \div b.n
           sx == x.signed /\ IsNegative(x)
           sy == y.signed /\ IsNegative(y)
           s == sx # sy
           i == TrueQuotient(IntOf(x), IntOf(y))
<1>1. x \in Sum(width) /\ y \in Sum(width) /\ y.n # 0 /\ x.signed = y.signed
  BY DEF Operands
<1>2. /\ a \in Sum(width) /\ a.signed = x.signed /\ a.n = Magnitude(IntOf(x))
      /\ IntOf(x) < 0 <=> sx
  BY <1>1, AmountIs
<1>3. /\ b \in Sum(width) /\ b.signed = y.signed /\ b.n = Magnitude(IntOf(y))
      /\ IntOf(y) < 0 <=> sy
      /\ b.n = 0 => y.n = 0
  BY <1>1, AmountIs
<1>4. sx \in BOOLEAN /\ sy \in BOOLEAN /\ s \in BOOLEAN
  OBVIOUS
<1>5. i = WithSign(q, s)
  BY <1>2, <1>3 DEF TrueQuotient
<1>6. a.n \in Nat /\ b.n \in Nat \ {0}
  <2>1. Power(2, width) \in Nat
    BY PowerPositive
  <2>2. QED BY <1>1, <1>2, <1>3, <2>1 DEF Sum
<1>7. q \in Nat
  BY <1>6, DividedBounds
<1>8. \E signed \in BOOLEAN :
        /\ signed => a.signed
        /\ Quotient(x, y) = IF s THEN Negated(Udiv(a, b, signed)) ELSE Udiv(a, b, signed)
  <2>1. x.signed \in BOOLEAN /\ a.signed = x.signed
    BY <1>1, <1>2 DEF Sum
  <2>2. a = (IF sx THEN Negated(x) ELSE x) /\ b = (IF sy THEN Negated(y) ELSE y)
    BY DEF Amount
  <2>3. CASE ~(x.signed /\ y.signed)
    <3>1. Quotient(x, y) = Udiv(a, b, FALSE) /\ ~s
      BY <1>1, <2>2, <2>3 DEF Quotient
    <3>2. QED BY <3>1
  <2>4. CASE x.signed /\ y.signed
    <3>1. CASE IsNegative(x) /\ IsNegative(y)
      <4>1. Quotient(x, y) = Udiv(a, b, TRUE) /\ ~s
        BY <2>2, <2>4, <3>1 DEF Quotient
      <4>2. QED BY <2>1, <2>4, <4>1
    <3>2. CASE IsNegative(x) /\ ~IsNegative(y)
      <4>1. Quotient(x, y) = Negated(Udiv(a, b, TRUE)) /\ s
        BY <2>2, <2>4, <3>2 DEF Quotient
      <4>2. QED BY <2>1, <2>4, <4>1
    <3>3. CASE ~IsNegative(x) /\ IsNegative(y)
      <4>1. Quotient(x, y) = Negated(Udiv(a, b, TRUE)) /\ s
        BY <2>2, <2>4, <3>3 DEF Quotient
      <4>2. QED BY <2>1, <2>4, <4>1
    <3>4. CASE ~IsNegative(x) /\ ~IsNegative(y)
      <4>1. Quotient(x, y) = Udiv(a, b, FALSE) /\ ~s
        BY <2>2, <2>4, <3>4 DEF Quotient
      <4>2. QED BY <4>1
    <3>5. QED BY <3>1, <3>2, <3>3, <3>4
  <2>5. QED BY <2>3, <2>4
<1>9. Divisible(width, a, b, q)
  <2>1. Operands(width, x, y, WithSign(q, s))
    BY <1>5
  <2> HIDE DEF q, s
  <2>2. QED BY <1>4, <1>7, <2>1, AmountsDivisible
<1>10. PICK signed \in BOOLEAN :
         /\ signed => a.signed
         /\ Quotient(x, y) = IF s THEN Negated(Udiv(a, b, signed)) ELSE Udiv(a, b, signed)
  BY <1>8
<1> DEFINE u == Udiv(a, b, signed)
<1>11. u \in Sum(width) /\ u.n = q
  <2> HIDE DEF a, b
  <2>1. QED BY <1>9, <1>10, UdivIs
<1>12. Negated(u).n = Clear(width, -q) /\ Clear(width, q) = q
  <2> HIDE DEF u, q
  <2>1. u.n \in 0 .. Power(2, width) - 1
    BY <1>11 DEF Sum
  <2>2. Negated(u).n = Clear(width, -u.n)
    BY <1>11, NegatedIs
  <2>3. QED BY <1>11, <2>1, <2>2, ClearSmall
<1> HIDE DEF q, s, u, a, b
<1>13. Quotient(x, y).n = Clear(width, WithSign(q, s))
  BY <1>4, <1>10, <1>11, <1>12 DEF WithSign, u
<1>14. WithSign(q, s) \in Int
  BY <1>4, <1>7, SignedMagnitude
<1>15. QED BY <1>5, <1>13, <1>14

\* operator%
LEMMA RemainderIs ==
  ASSUME NEW width \in Nat \ {0}, NEW x, NEW y,
         Operands(width, x, y, TrueRemainder(IntOf(x), IntOf(y)))
  PROVE  /\ TrueRemainder(IntOf(x), IntOf(y)) \in Int
         /\ Remainder(x, y).n = Clear(width, TrueRemainder(IntOf(x), IntOf(y)))
<1> DEFINE a == Amount(x)
           b == Amount(y)
           r == a.n % b.n
           s == x.signed /\ IsNegative(x)
           sy == y.signed /\ IsNegative(y)
           i == TrueRemainder(IntOf(x), IntOf(y))
<1>1. x \in Sum(width) /\ y \in Sum(width) /\ y.n # 0 /\ x.signed = y.signed
  BY DEF Operands
<1>2. /\ a \in Sum(width) /\ a.signed = x.signed /\ a.n = Magnitude(IntOf(x))
      /\ IntOf(x) < 0 <=> s
  BY <1>1, AmountIs
<1>3. /\ b \in Sum(width) /\ b.signed = y.signed /\ b.n = Magnitude(IntOf(y))
      /\ b.n = 0 => y.n = 0
  BY <1>1, AmountIs
<1>4. s \in BOOLEAN
  OBVIOUS
<1>5. i = WithSign(r, s)
  BY <1>2, <1>3 DEF TrueRemainder
<1>6. a.n \in Nat /\ b.n \in Nat \ {0}
  <2>1. Power(2, width) \in Nat
    BY PowerPositive
  <2>2. QED BY <1>1, <1>2, <1>3, <2>1 DEF Sum
<1>7. r \in Nat
  BY <1>6, DividedBounds
<1>8. \E signed \in BOOLEAN :
        /\ signed => a.signed
        /\ Remainder(x, y) = IF s THEN Negated(Urem(a, b, signed)) ELSE Urem(a, b, signed)
  <2>1. x.signed \in BOOLEAN /\ a.signed = x.signed
    BY <1>1, <1>2 DEF Sum
  <2>2. a = (IF s THEN Negated(x) ELSE x) /\ b = (IF sy THEN Negated(y) ELSE y)
    BY DEF Amount
  <2>3. CASE ~(x.signed /\ y.signed)
    <3>1. Remainder(x, y) = Urem(a, b, FALSE) /\ ~s
      BY <1>1, <2>2, <2>3 DEF Remainder
    <3>2. QED BY <3>1
  <2>4. CASE x.signed /\ y.signed
    <3>1. CASE IsNegative(x) /\ IsNegative(y)
      <4>1. Remainder(x, y) = Negated(Urem(a, b, TRUE)) /\ s
        BY <2>2, <2>4, <3>1 DEF Remainder
      <4>2. QED BY <2>1, <2>4, <4>1
    <3>2. CASE IsNegative(x) /\ ~IsNegative(y)
      <4>1. Remainder(x, y) = Negated(Urem(a, b, TRUE)) /\ s
        BY <2>2, <2>4, <3>2 DEF Remainder
      <4>2. QED BY <2>1, <2>4, <4>1
    <3>3. CASE ~IsNegative(x) /\ IsNegative(y)
      <4>1. Remainder(x, y) = Urem(a, b, TRUE) /\ ~s
        BY <2>2, <2>4, <3>3 DEF Remainder
      <4>2. QED BY <2>1, <2>4, <4>1
    <3>4. CASE ~IsNegative(x) /\ ~IsNegative(y)
      <4>1. Remainder(x, y) = Urem(a, b, FALSE) /\ ~s
        BY <2>2, <2>4, <3>4 DEF Remainder
      <4>2. QED BY <4>1
    <3>5. QED BY <3>1, <3>2, <3>3, <3>4
  <2>5. QED BY <2>3, <2>4
<1>9. Divisible(width, a, b, r)
  <2>1. Operands(width, x, y, WithSign(r, s))
    BY <1>5
  <2> HIDE DEF r, s
  <2>2. QED BY <1>4, <1>7, <2>1, AmountsDivisible
<1>10. PICK signed \in BOOLEAN :
         /\ signed => a.signed
         /\ Remainder(x, y) = IF s THEN Negated(Urem(a, b, signed)) ELSE Urem(a, b, signed)
  BY <1>8
<1> DEFINE u == Urem(a, b, signed)
<1>11. u \in Sum(width) /\ u.n = r
  <2> HIDE DEF a, b
  <2>1. QED BY <1>9, <1>10, UremIs
<1>12. Negated(u).n = Clear(width, -r) /\ Clear(width, r) = r
  <2> HIDE DEF u, r
  <2>1. u.n \in 0 .. Power(2, width) - 1
    BY <1>11 DEF Sum
  <2>2. Negated(u).n = Clear(width, -u.n)
    BY <1>11, NegatedIs
  <2>3. QED BY <1>11, <2>1, <2>2, ClearSmall
<1> HIDE DEF r, s, u, a, b
<1>13. Remainder(x, y).n = Clear(width, WithSign(r, s))
  BY <1>4, <1>10, <1>11, <1>12 DEF WithSign, u
<1>14. WithSign(r, s) \in Int
  BY <1>4, <1>7, SignedMagnitude
<1>15. QED BY <1>5, <1>13, <1>14

-----------------------------------------------------------------------------
(* Sums, differences and products of what the numbers mean *)

\* The same multiples of the power are lost from the bits and from the numbers.
LEMMA MeaningsApart ==
  ASSUME NEW width \in Nat \ {0}, NEW x \in Sum(width), NEW y \in Sum(width)
  PROVE  /\ Apart(width, IntOf(x) + IntOf(y), x.n + y.n)
         /\ Apart(width, IntOf(x) - IntOf(y), x.n - y.n)
         /\ Apart(width, IntOf(x) * IntOf(y), x.n * y.n)
<1> DEFINE p == Power(2, width)
           i == IntOf(x)
           j == IntOf(y)
           m == x.n
           n == y.n
<1>1. p \in Nat \ {0}
  BY PowerPositive
<1>2. i \in Int /\ m \in Int /\ \E t \in Int : i = m + p * t
  BY AmountIs DEF Apart
<1>3. j \in Int /\ n \in Int /\ \E t \in Int : j = n + p * t
  BY AmountIs DEF Apart
<1> HIDE DEF p, i, j, m, n
<1>4. PICK t \in Int : i = m + p * t
  BY <1>2
<1>5. PICK u \in Int : j = n + p * u
  BY <1>3
<1>6. i + j = (m + n) + p * (t + u) /\ t + u \in Int
  BY <1>1, <1>2, <1>3, <1>4, <1>5
<1>7. i - j = (m - n) + p * (t - u) /\ t - u \in Int
  BY <1>1, <1>2, <1>3, <1>4, <1>5
<1> DEFINE w == t * n + m * u + p * (t * u)
<1>8. i * j = m * n + p * w /\ w \in Int
  <2>1. w \in Int
    BY <1>1, <1>2, <1>3
  <2>2. (m + p * t) * (n + p * u) = m * n + p * w
    BY <1>1, <1>2, <1>3
  <2>3. QED BY <1>4, <1>5, <2>1, <2>2
<1> HIDE DEF w
<1>9. Apart(width, i + j, m + n) /\ Apart(width, i - j, m - n)
  BY <1>6, <1>7 DEF Apart, p
<1>10. Apart(width, i * j, m * n)
  BY <1>8 DEF Apart, p
<1>11. QED BY <1>9, <1>10 DEF i, j, m, n

\* operator+, operator- and operator*=
LEMMA SumsAndProducts ==
  ASSUME NEW width \in Nat \ {0}, NEW x \in Sum(width), NEW y \in Sum(width)
  PROVE  /\ Plus(x, y).n = Clear(width, IntOf(x) + IntOf(y))
         /\ Minus(x, y).n = Clear(width, IntOf(x) - IntOf(y))
         /\ Times(x, y).n = Clear(width, IntOf(x) * IntOf(y))
<1> DEFINE i == IntOf(x)
           j == IntOf(y)
           m == x.n
           n == y.n
<1>1. i \in Int /\ j \in Int /\ m \in Int /\ n \in Int
  BY AmountIs
<1>2. Apart(width, i + j, m + n) /\ Apart(width, i - j, m - n) /\ Apart(width, i * j, m * n)
  BY MeaningsApart
<1>3. /\ Plus(x, y).n = Clear(width, m + n) /\ Minus(x, y).n = Clear(width, m - n)
      /\ Times(x, y).n = Clear(width, m * n)
  BY AdditionIs, TimesIs
<1> HIDE DEF i, j, m, n
<1>4. Clear(width, i + j) = Clear(width, m + n)
  <2>1. i + j \in Int /\ m + n \in Int
    BY <1>1
  <2>2. QED BY <1>2, <2>1, ClearApart
<1>5. Clear(width, i - j) = Clear(width, m - n)
  <2>1. i - j \in Int /\ m - n \in Int
    BY <1>1
  <2>2. QED BY <1>2, <2>1, ClearApart
<1>6. Clear(width, i * j) = Clear(width, m * n)
  <2>1. i * j \in Int /\ m * n \in Int
    BY <1>1
  <2>2. QED BY <1>2, <2>1, ClearApart
<1>7. QED BY <1>3, <1>4, <1>5, <1>6 DEF i, j, m, n

-----------------------------------------------------------------------------
(* Every operation returns the right bits *)

Operations == {"+", "-", "*", "/", "%"}

\* The number that was taken up fits its width; the other operand is like it, and not
\* zero in a division.
SumInv ==
  /\ dividend.width \in Nat \ {0} /\ dividend \in Sum(dividend.width)
  /\ operator.name \in Operations =>
       /\ operator.y \in Sum(dividend.width) /\ operator.y.signed = dividend.signed
       /\ Dividing => operator.y.n # 0
  /\ operator.name \in Operations \cup {"none", "ready"}
  /\ ArithmeticRight

LEMMA SumInvInit == SumInit => SumInv
<1>1. SUFFICES ASSUME SumInit PROVE SumInv
  OBVIOUS
<1>2. dividend = Sized(1, FALSE, 0) /\ operator.name = "none"
  BY <1>1 DEF SumInit, NoOperand
<1>3. Sized(1, FALSE, 0) \in Sum(1) /\ Sized(1, FALSE, 0).width = 1
  <2>1. 1 \in Nat \ {0} /\ FALSE \in BOOLEAN
    OBVIOUS
  <2>2. Sized(1, FALSE, 0) \in Sum(1)
    BY <2>1, ZeroNumber, Zenon
  <2>3. QED BY <2>2 DEF Sized
<1>4. "none" \notin Operations
  BY DEF Operations
<1>5. dividend.width \in Nat \ {0} /\ dividend \in Sum(dividend.width)
  <2>1. dividend.width = 1 /\ dividend \in Sum(1)
    BY <1>2, <1>3, Zenon
  <2>2. QED BY <2>1
<1>6. ArithmeticRight
  BY <1>2 DEF ArithmeticRight
<1>7. QED BY <1>2, <1>4, <1>5, <1>6 DEF SumInv

\* An operation whose result is right, or excepted, keeps the invariant.
LEMMA ComputeKeeps ==
  ASSUME SumInv, NEW name \in Operations, NEW y \in Sum(dividend.width),
         y.signed = dividend.signed, name \in {"/", "%"} => y.n # 0,
         NEW result, Compute(name, y, result),
         operator' = [name |-> name, y |-> y] => (AnswerTrue \/ (Dividing /\ TakenForNegative))'
  PROVE  SumInv'
<1>1. operator' = [name |-> name, y |-> y] /\ dividend' = dividend
  BY DEF Compute
<1>2. operator'.name = name /\ operator'.y = y
  BY <1>1
<1>3. (AnswerTrue \/ (Dividing /\ TakenForNegative))'
  BY <1>1
<1>4. ArithmeticRight'
  BY <1>3 DEF ArithmeticRight
<1>5. dividend'.width \in Nat \ {0} /\ dividend' \in Sum(dividend'.width)
  BY <1>1 DEF SumInv
<1>6. Dividing' => operator'.y.n # 0
  BY <1>2 DEF Dividing
<1>7. QED BY <1>1, <1>2, <1>4, <1>5, <1>6 DEF SumInv

LEMMA SumInvNext == SumInv /\ [SumNext]_sumVars => SumInv'
<1>1. SUFFICES ASSUME SumInv, [SumNext]_sumVars PROVE SumInv'
  OBVIOUS
<1> DEFINE width == dividend.width
<1>2. width \in Nat \ {0} /\ dividend \in Sum(width) /\ dividend.signed \in BOOLEAN
  BY <1>1 DEF SumInv, Sum
<1>3. ASSUME NEW w \in SumWidths, NEW signed \in BOOLEAN, TakeNumber(w, signed) PROVE SumInv'
  <2>1. w \in Nat \ {0}
    BY ArithmeticAssumption
  <2>2. PICK n \in 0 .. Power(2, w) - 1 : dividend' = Sized(w, signed, n)
    BY <1>3 DEF TakeNumber
  <2>3. dividend' \in Sum(w) /\ dividend'.width = w
    BY <2>2 DEF Sized, Sum
  <2>4. operator'.name = "ready"
    BY <1>3 DEF TakeNumber
  <2>5. "ready" \notin Operations /\ ArithmeticRight'
    BY <2>4 DEF ArithmeticRight, Operations
  <2>6. QED BY <2>1, <2>3, <2>4, <2>5 DEF SumInv
<1>4. ASSUME NEW n \in 0 .. Power(2, width) - 1
      PROVE  LET y == Sized(width, dividend.signed, n)
             IN  AddNumber(y) \/ SubtractNumber(y) \/ MultiplyBy(y) \/ DivideBy(y) \/ RemainderBy(y)
                   => SumInv'
  <2> DEFINE y == Sized(width, dividend.signed, n)
  <2>1. y \in Sum(width) /\ y.signed = dividend.signed /\ y.width = width
    BY <1>2 DEF Sized, Sum
  <2> HIDE DEF y
  <2> DEFINE i == IntOf(dividend)
             j == IntOf(y)
  <2>2. ASSUME NEW name \in Operations, NEW result, Compute(name, y, result),
               operator' = [name |-> name, y |-> y]
        PROVE  /\ dividend' = dividend /\ answer' = result
               /\ operator'.name = name /\ operator'.y = y
               /\ IntOf(dividend)' = i /\ IntOf(operator.y)' = j
    BY <2>2 DEF Compute, IntOf, IsNegative
  <2>3. CASE AddNumber(y)
    <3>1. Compute("+", y, Plus(dividend, y)) /\ "+" \in Operations
      BY <2>3 DEF AddNumber, Operations
    <3>2. ASSUME operator' = [name |-> "+", y |-> y]
          PROVE  (AnswerTrue \/ (Dividing /\ TakenForNegative))'
      <4>1. TrueResult' = i + j
        BY <2>2, <3>1, <3>2 DEF TrueResult
      <4>2. answer'.n = Clear(width, i + j)
        BY <1>2, <2>1, <2>2, <3>1, <3>2, SumsAndProducts
      <4>3. QED BY <2>2, <3>1, <3>2, <4>1, <4>2 DEF AnswerTrue
    <3>3. QED BY <1>1, <2>1, <3>1, <3>2, ComputeKeeps
  <2>4. CASE SubtractNumber(y)
    <3>1. Compute("-", y, Minus(dividend, y)) /\ "-" \in Operations
      BY <2>4 DEF SubtractNumber, Operations
    <3>2. ASSUME operator' = [name |-> "-", y |-> y]
          PROVE  (AnswerTrue \/ (Dividing /\ TakenForNegative))'
      <4>1. TrueResult' = i - j
        BY <2>2, <3>1, <3>2 DEF TrueResult
      <4>2. answer'.n = Clear(width, i - j)
        BY <1>2, <2>1, <2>2, <3>1, <3>2, SumsAndProducts
      <4>3. QED BY <2>2, <3>1, <3>2, <4>1, <4>2 DEF AnswerTrue
    <3>3. QED BY <1>1, <2>1, <3>1, <3>2, ComputeKeeps
  <2>5. CASE MultiplyBy(y)
    <3>1. Compute("*", y, Times(dividend, y)) /\ "*" \in Operations
      BY <2>5 DEF MultiplyBy, Operations
    <3>2. ASSUME operator' = [name |-> "*", y |-> y]
          PROVE  (AnswerTrue \/ (Dividing /\ TakenForNegative))'
      <4>1. TrueResult' = i * j
        BY <2>2, <3>1, <3>2 DEF TrueResult
      <4>2. answer'.n = Clear(width, i * j)
        BY <1>2, <2>1, <2>2, <3>1, <3>2, SumsAndProducts
      <4>3. QED BY <2>2, <3>1, <3>2, <4>1, <4>2 DEF AnswerTrue
    <3>3. QED BY <1>1, <2>1, <3>1, <3>2, ComputeKeeps
  <2>6. CASE DivideBy(y)
    <3>1. Compute("/", y, Quotient(dividend, y)) /\ "/" \in Operations /\ y.n # 0
      BY <2>6 DEF DivideBy, Operations
    <3>2. ASSUME operator' = [name |-> "/", y |-> y]
          PROVE  (AnswerTrue \/ (Dividing /\ TakenForNegative))'
      <4>1. TrueResult' = TrueQuotient(i, j)
        BY <2>2, <3>1, <3>2 DEF TrueResult
      <4>2. Operands(width, dividend, y, TrueQuotient(i, j)) =>
              answer'.n = Clear(width, TrueQuotient(i, j))
        BY <1>2, <2>2, <3>1, <3>2, QuotientIs
      <4>3. TakenForNegative' \/ Operands(width, dividend, y, TrueQuotient(i, j))
        BY <1>2, <2>1, <2>2, <3>1, <3>2, <4>1 DEF TakenForNegative, Operands
      <4>4. Dividing'
        BY <3>2 DEF Dividing
      <4>5. QED BY <2>2, <3>1, <3>2, <4>1, <4>2, <4>3, <4>4 DEF AnswerTrue
    <3>3. QED BY <1>1, <2>1, <3>1, <3>2, ComputeKeeps
  <2>7. CASE RemainderBy(y)
    <3>1. Compute("%", y, Remainder(dividend, y)) /\ "%" \in Operations /\ y.n # 0
      BY <2>7 DEF RemainderBy, Operations
    <3>2. ASSUME operator' = [name |-> "%", y |-> y]
          PROVE  (AnswerTrue \/ (Dividing /\ TakenForNegative))'
      <4>1. TrueResult' = TrueRemainder(i, j)
        BY <2>2, <3>1, <3>2 DEF TrueResult
      <4>2. Operands(width, dividend, y, TrueRemainder(i, j)) =>
              answer'.n = Clear(width, TrueRemainder(i, j))
        BY <1>2, <2>2, <3>1, <3>2, RemainderIs
      <4>3. TakenForNegative' \/ Operands(width, dividend, y, TrueRemainder(i, j))
        BY <1>2, <2>1, <2>2, <3>1, <3>2, <4>1 DEF TakenForNegative, Operands
      <4>4. Dividing'
        BY <3>2 DEF Dividing
      <4>5. QED BY <2>2, <3>1, <3>2, <4>1, <4>2, <4>3, <4>4 DEF AnswerTrue
    <3>3. QED BY <1>1, <2>1, <3>1, <3>2, ComputeKeeps
  <2>8. QED BY <2>3, <2>4, <2>5, <2>6, <2>7 DEF y
<1>5. CASE UNCHANGED sumVars
  <2>1. dividend' = dividend /\ operator' = operator /\ answer' = answer
    BY <1>5 DEF sumVars
  <2>2. (ArithmeticRight' <=> ArithmeticRight) /\ (Dividing' <=> Dividing)
    BY <2>1 DEF ArithmeticRight, AnswerTrue, Dividing, TakenForNegative, TrueResult
  <2>3. QED BY <1>1, <2>1, <2>2 DEF SumInv
<1>6. QED BY <1>1, <1>3, <1>4, <1>5 DEF SumNext

\* Whatever the widths of words and numbers, every sum, difference, product, quotient and
\* remainder is right to the last bit, for every digit that Knuth's algorithm may guess
\* wrong; the only exceptions are signed quotients and remainders of several words where a
\* positive number looks negative.
THEOREM SumsAreRight == SumSpec => []ArithmeticRight
<1>1. SumInv => ArithmeticRight
  BY DEF SumInv
<1>2. QED BY SumInvInit, SumInvNext, <1>1, PTL DEF SumSpec

-----------------------------------------------------------------------------
(* Bits and sums together *)

\* Constants are evaluated as the language defines it: every operation on vectors and every
\* sum, product and quotient returns the right bits, in canonical form.
THEOREM NumbersAreRight == BitsSpec /\ SumSpec => []NumbersRight
<1>1. BitsRight /\ ArithmeticRight => NumbersRight
  BY DEF NumbersRight
<1>2. QED BY BitsAreRight, SumsAreRight, <1>1, PTL
=============================================================================
