------------------------------ MODULE Bits_proofs ------------------------------
(***************************************************************************)
(* Proofs about SVIntBits: for words and vectors of any length, every      *)
(* operation returns the bits that the language defines, in the one form   *)
(* in which they are stored.                                               *)
(***************************************************************************)
EXTENDS SVIntBits, WellFoundedInduction, FiniteSetTheorems, TLAPS

\* Arrays of n words.
Words(n) == [0 .. n - 1 -> SUBSET Bit]

-----------------------------------------------------------------------------
(* Places *)

\* A position is a place in a word, in one way.
LEMMA PlaceOf ==
  ASSUME NEW k \in Int
  PROVE  /\ k \div WordBits \in Int /\ k % WordBits \in Bit
         /\ k = (k \div WordBits) * WordBits + (k % WordBits)
<1>1. WordBits \in Nat \ {0}
  BY BitsAssumption
<1>2. QED BY <1>1 DEF Bit

LEMMA PlaceAt ==
  ASSUME NEW i \in Int, NEW b \in Bit
  PROVE  /\ i * WordBits + b \in Int
         /\ (i * WordBits + b) \div WordBits = i /\ (i * WordBits + b) % WordBits = b
<1>1. WordBits \in Nat \ {0} /\ b \in 0 .. WordBits - 1
  BY BitsAssumption DEF Bit
<1>2. QED BY <1>1

\* The positions of n words are those that are smaller than n * WordBits.
LEMMA PlaceInside ==
  ASSUME NEW n \in Nat, NEW k \in Int
  PROVE  /\ k \in 0 .. n * WordBits - 1 <=> k \div WordBits \in 0 .. n - 1
         /\ n * WordBits \in Nat
<1>1. WordBits \in Nat \ {0}
  BY BitsAssumption
<1> DEFINE q == k \div WordBits
           r == k % WordBits
<1>2. q \in Int /\ r \in 0 .. WordBits - 1 /\ k = q * WordBits + r
  BY PlaceOf DEF Bit
<1> HIDE DEF q, r
<1>3. n * WordBits \in Nat
  BY <1>1
<1>4. ASSUME q >= 0, q <= n - 1 PROVE k \in 0 .. n * WordBits - 1
  <2>1. q * WordBits >= 0 /\ (q + 1) * WordBits <= n * WordBits
    BY <1>1, <1>2, <1>4
  <2>2. (q + 1) * WordBits = q * WordBits + WordBits
    BY <1>1, <1>2
  <2>3. QED BY <1>1, <1>2, <1>3, <2>1, <2>2
<1>5. ASSUME k \in 0 .. n * WordBits - 1 PROVE q >= 0 /\ q <= n - 1
  <2>1. q >= 0
    <3>1. CASE q < 0
      <4>1. (q + 1) * WordBits <= 0
        BY <1>1, <1>2, <3>1
      <4>2. (q + 1) * WordBits = q * WordBits + WordBits
        BY <1>1, <1>2
      <4>3. QED BY <1>1, <1>2, <1>5, <4>1, <4>2
    <3>2. QED BY <1>2, <3>1
  <2>2. q <= n - 1
    <3>1. CASE q >= n
      <4>1. q * WordBits >= n * WordBits
        BY <1>1, <1>2, <3>1
      <4>2. QED BY <1>1, <1>2, <1>3, <1>5, <4>1
    <3>2. QED BY <1>2, <3>1
  <2>3. QED BY <2>1, <2>2
<1>6. QED
  <2>1. q >= 0 /\ q <= n - 1 <=> k \in 0 .. n * WordBits - 1
    BY <1>4, <1>5
  <2>2. QED BY <1>2, <1>3, <2>1 DEF q

\* A word array is determined by what it has.
LEMMA SameWords ==
  ASSUME NEW n \in Nat, NEW v \in Words(n), NEW w \in Words(n),
         \A k \in 0 .. n * WordBits - 1 : Has(v, k) <=> Has(w, k)
  PROVE  v = w
<1>1. ASSUME NEW i \in 0 .. n - 1, NEW b \in Bit PROVE b \in v[i] <=> b \in w[i]
  <2> DEFINE k == i * WordBits + b
  <2>1. k \in Int /\ k \div WordBits = i /\ k % WordBits = b
    BY PlaceAt
  <2>2. k \in 0 .. n * WordBits - 1
    BY <2>1, PlaceInside
  <2>3. QED BY <2>1, <2>2 DEF Has
<1>2. \A i \in 0 .. n - 1 : v[i] \subseteq Bit /\ w[i] \subseteq Bit
  BY DEF Words
<1>3. \A i \in 0 .. n - 1 : v[i] = w[i]
  BY <1>1, <1>2
<1>4. QED BY <1>3 DEF Words

-----------------------------------------------------------------------------
(* Widths *)

\* A width and its words.
LEMMA WidthWords ==
  ASSUME NEW width \in Nat \ {0}
  PROVE  /\ NumWords(width) \in Nat \ {0} /\ NumWords(width) * WordBits \in Nat
         /\ (NumWords(width) - 1) * WordBits < width /\ width <= NumWords(width) * WordBits
         /\ (width - 1) \div WordBits = NumWords(width) - 1
<1> DEFINE W == WordBits
           q == (width - 1) \div W
           r == (width - 1) % W
<1>1. W \in Nat \ {0}
  BY BitsAssumption
<1>2. q \in Nat /\ r \in 0 .. W - 1 /\ width - 1 = q * W + r
  BY <1>1
<1>3. NumWords(width) = q + 1
  <2>1. width + W - 1 = (q + 1) * W + r
    BY <1>1, <1>2
  <2> HIDE DEF q, r
  <2>2. ((q + 1) * W + r) \div W = q + 1
    BY <1>1, <1>2
  <2>3. QED BY <2>1, <2>2 DEF NumWords
<1>4. (q + 1) * W = q * W + W /\ q * W \in Nat
  BY <1>1, <1>2
<1> HIDE DEF q, r
<1>5. (q + 1) - 1 = q
  BY <1>2
<1>6. QED BY <1>1, <1>2, <1>3, <1>4, <1>5 DEF q

\* The bits of the last word that count.
LEMMA TopPlaces ==
  ASSUME NEW width \in Nat \ {0}, NEW k \in 0 .. NumWords(width) * WordBits - 1
  PROVE  k < width <=> k \div WordBits # NumWords(width) - 1 \/ k % WordBits \in TopBits(width)
<1> DEFINE n == NumWords(width)
           q == k \div WordBits
           r == k % WordBits
           t == (width - 1) % WordBits
<1>1. WordBits \in Nat \ {0} /\ n \in Nat \ {0} /\ n * WordBits \in Nat
  BY BitsAssumption, WidthWords
<1>2. q \in 0 .. n - 1 /\ r \in Bit /\ k = q * WordBits + r
  <2>1. k \in Int
    BY <1>1
  <2>2. q \in 0 .. n - 1
    BY <1>1, <2>1, PlaceInside
  <2>3. QED BY <2>1, <2>2, PlaceOf
<1>3. t \in Bit /\ width - 1 = (n - 1) * WordBits + t
  <2>1. width - 1 \in Int
    OBVIOUS
  <2>2. QED BY <2>1, PlaceOf, WidthWords
<1>4. TopBits(width) = 0 .. t
  BY DEF TopBits
<1> HIDE DEF n, q, r, t
<1>5. CASE q = n - 1
  <2>1. k < width <=> r <= t
    BY <1>1, <1>2, <1>3, <1>5 DEF Bit
  <2>2. k < width <=> r \in TopBits(width)
    BY <1>1, <1>2, <1>3, <1>4, <2>1 DEF Bit
  <2>3. QED BY <1>5, <2>2 DEF n, q, r
<1>6. CASE q # n - 1
  <2>1. (q + 1) * WordBits <= (n - 1) * WordBits /\ (q + 1) * WordBits = q * WordBits + WordBits
    BY <1>1, <1>2, <1>6
  <2>2. (n - 1) * WordBits \in Int /\ q * WordBits \in Int
    BY <1>1, <1>2
  <2>3. k < width
    BY <1>1, <1>2, <1>3, <2>1, <2>2 DEF Bit
  <2>4. QED BY <1>6, <2>3 DEF n, q, r
<1>7. QED BY <1>5, <1>6

-----------------------------------------------------------------------------
(* Numbers *)

Positions(width) == 0 .. NumWords(width) * WordBits - 1

\* How a bit is read from its data and its mark.
BitOf(one, mark) == IF mark THEN IF one THEN "z" ELSE "x" ELSE IF one THEN "1" ELSE "0"

Clean(width, words) == \A k \in Positions(width) : k >= width => ~Has(words, k)

\* What a number looks like that is stored as it should be.
Shaped(x) ==
  /\ x = Number(x.width, x.signed, x.unknown, x.data, x.marks)
  /\ x.width \in Nat \ {0} /\ x.signed \in BOOLEAN /\ x.unknown \in BOOLEAN
  /\ x.data \in Words(NumWords(x.width)) /\ x.marks \in Words(NumWords(x.width))
Stored(x) ==
  /\ Shaped(x)
  /\ Clean(x.width, x.data) /\ Clean(x.width, x.marks)
  /\ x.unknown <=> \E k \in 0 .. x.width - 1 : Has(x.marks, k)

\* The positions of a vector are among those of its words.
LEMMA WithinWords ==
  ASSUME NEW width \in Nat \ {0}
  PROVE  /\ 0 .. width - 1 \subseteq Positions(width) /\ Positions(width) \subseteq Nat
         /\ \A k \in Positions(width) : k >= width \/ k \in 0 .. width - 1
<1>1. NumWords(width) * WordBits \in Nat /\ width <= NumWords(width) * WordBits
  BY WidthWords
<1>2. QED BY <1>1 DEF Positions

LEMMA PackHas ==
  ASSUME NEW width \in Nat \ {0}, NEW bits
  PROVE  /\ Pack(width, bits) \in Words(NumWords(width))
         /\ \A k \in Positions(width) : Has(Pack(width, bits), k) <=> k \in bits
<1>1. Pack(width, bits) \in Words(NumWords(width))
  BY DEF Pack, Words
<1>2. ASSUME NEW k \in Positions(width) PROVE Has(Pack(width, bits), k) <=> k \in bits
  <2>1. NumWords(width) \in Nat /\ k \in Int
    BY WithinWords, WidthWords
  <2>2. k \div WordBits \in 0 .. NumWords(width) - 1
    BY <2>1, PlaceInside DEF Positions
  <2>3. k % WordBits \in Bit /\ (k \div WordBits) * WordBits + (k % WordBits) = k
    BY <2>1, PlaceOf
  <2>4. QED BY <2>2, <2>3 DEF Has, Pack
<1>3. QED BY <1>1, <1>2

\* What Make returns for a vector.
LEMMA Made ==
  ASSUME NEW width \in Nat \ {0}, NEW v \in Vectors(width), NEW s \in BOOLEAN
  PROVE  /\ Stored(Make(v, s)) /\ Make(v, s).width = width /\ Make(v, s).signed = s
         /\ VectorOf(Make(v, s)) = v
         /\ \A k \in Positions(width) :
              /\ Has(Make(v, s).data, k) <=> k < width /\ v[k] \in {"1", "z"}
              /\ Has(Make(v, s).marks, k) <=> k < width /\ v[k] \in {"x", "z"}
<1> DEFINE x == Make(v, s)
           ones  == {k \in DOMAIN v : v[k] \in {"1", "z"}}
           marks == {k \in DOMAIN v : v[k] \in {"x", "z"}}
<1>1. DOMAIN v = 0 .. width - 1 /\ \A k \in 0 .. width - 1 : v[k] \in Logic
  BY DEF Vectors
<1>2. Cardinality(DOMAIN v) = width
  <2>1. Cardinality(0 .. width - 1) = width
    BY FS_Interval
  <2>2. QED BY <1>1, <2>1
<1>3. x = Number(width, s, marks # {}, Pack(width, ones), Pack(width, marks))
  BY <1>2 DEF Make
<1> HIDE DEF x
<1>4. /\ x.width = width /\ x.signed = s /\ x.unknown = (marks # {})
      /\ x.data = Pack(width, ones) /\ x.marks = Pack(width, marks)
  BY <1>3 DEF Number
<1>5. \A k \in Positions(width) :
        /\ Has(x.data, k) <=> k < width /\ v[k] \in {"1", "z"}
        /\ Has(x.marks, k) <=> k < width /\ v[k] \in {"x", "z"}
  <2> SUFFICES ASSUME NEW k \in Positions(width)
               PROVE  /\ Has(x.data, k) <=> k < width /\ v[k] \in {"1", "z"}
                      /\ Has(x.marks, k) <=> k < width /\ v[k] \in {"x", "z"}
    OBVIOUS
  <2>1. (Has(x.data, k) <=> k \in ones) /\ (Has(x.marks, k) <=> k \in marks)
    BY <1>4, PackHas
  <2>2. k < width <=> k \in DOMAIN v
    BY <1>1, WithinWords
  <2>3. QED BY <2>1, <2>2
<1>6. Shaped(x)
  <2>1. x = Number(x.width, x.signed, x.unknown, x.data, x.marks)
    BY <1>3, <1>4
  <2>2. x.unknown \in BOOLEAN
    BY <1>4
  <2>3. x.data \in Words(NumWords(width)) /\ x.marks \in Words(NumWords(width))
    BY <1>4, PackHas
  <2>4. QED BY <1>4, <2>1, <2>2, <2>3 DEF Shaped
<1>7. x.unknown <=> \E k \in 0 .. width - 1 : Has(x.marks, k)
  <2>1. \A k \in 0 .. width - 1 : Has(x.marks, k) <=> k \in marks
    BY <1>1, <1>5, WithinWords
  <2>2. QED BY <1>1, <1>4, <2>1
<1>8. Clean(width, x.data) /\ Clean(width, x.marks)
  <2>1. \A k \in Positions(width) : k >= width => ~(k < width)
    BY WithinWords
  <2>2. QED BY <1>5, <2>1 DEF Clean
<1>9. VectorOf(x) = v
  <2>1. \A k \in 0 .. width - 1 : BitAt(x, k) = v[k]
    BY <1>1, <1>5, WithinWords DEF BitAt, Logic
  <2>2. VectorOf(x) = [k \in 0 .. width - 1 |-> v[k]]
    BY <1>4, <2>1 DEF VectorOf
  <2>3. QED BY <2>2 DEF Vectors
<1>10. QED BY <1>4, <1>5, <1>6, <1>7, <1>8, <1>9 DEF Stored, x

\* A vector is one of its width.
LEMMA VectorType == ASSUME NEW x, Shaped(x) PROVE VectorOf(x) \in Vectors(x.width)
BY DEF VectorOf, Vectors, BitAt, Logic

\* A number that is stored as it should be is the one that is made from its bits.
LEMMA StoredCanonical == ASSUME NEW x, Stored(x) PROVE Canonical(x)
<1> DEFINE width == x.width
           y     == Make(VectorOf(x), x.signed)
<1>1. Shaped(x) /\ width \in Nat \ {0} /\ x.signed \in BOOLEAN /\ VectorOf(x) \in Vectors(width)
  BY VectorType DEF Stored, Shaped
<1>2. /\ Stored(y) /\ y.width = width /\ y.signed = x.signed
      /\ \A k \in Positions(width) :
           /\ Has(y.data, k) <=> k < width /\ VectorOf(x)[k] \in {"1", "z"}
           /\ Has(y.marks, k) <=> k < width /\ VectorOf(x)[k] \in {"x", "z"}
  BY <1>1, Made
<1> HIDE DEF y
<1>3. ASSUME NEW k \in Positions(width)
      PROVE  (Has(y.data, k) <=> Has(x.data, k)) /\ (Has(y.marks, k) <=> Has(x.marks, k))
  <2>1. CASE k < width
    <3>1. VectorOf(x)[k] = BitAt(x, k)
      BY <1>1, <2>1, WithinWords DEF VectorOf
    <3>2. QED BY <1>2, <2>1, <3>1 DEF BitAt
  <2>2. CASE k >= width
    <3>1. ~Has(x.data, k) /\ ~Has(x.marks, k)
      BY <2>2 DEF Stored, Clean
    <3>2. ~(k < width)
      BY <1>1, <2>2, WithinWords
    <3>3. QED BY <1>2, <3>1, <3>2
  <2>3. QED BY <1>1, <2>1, <2>2, WithinWords
<1>4. NumWords(width) \in Nat
  BY <1>1, WidthWords
<1>5. y.data = x.data /\ y.marks = x.marks
  <2>1. /\ x.data \in Words(NumWords(width)) /\ x.marks \in Words(NumWords(width))
        /\ y.data \in Words(NumWords(width)) /\ y.marks \in Words(NumWords(width))
    BY <1>1, <1>2 DEF Stored, Shaped
  <2>2. QED BY <1>3, <1>4, <2>1, SameWords DEF Positions
<1>6. y.unknown = x.unknown
  BY <1>2, <1>5 DEF Stored, Shaped
<1>7. y = x
  BY <1>2, <1>5, <1>6 DEF Stored, Shaped
<1>8. QED BY <1>7 DEF Canonical, y

-----------------------------------------------------------------------------
(* Words *)

\* The place of a sum and of a difference.
LEMMA PlaceMoved ==
  ASSUME NEW k \in Int, NEW a \in Int
  PROVE  LET q == k \div WordBits
             r == k % WordBits
             o == a \div WordBits
             s == a % WordBits
         IN  /\ IF r >= s THEN (k - a) \div WordBits = q - o /\ (k - a) % WordBits = r - s
                ELSE (k - a) \div WordBits = q - o - 1 /\ (k - a) % WordBits = r - s + WordBits
             /\ IF r + s < WordBits THEN (k + a) \div WordBits = q + o /\ (k + a) % WordBits = r + s
                ELSE (k + a) \div WordBits = q + o + 1 /\ (k + a) % WordBits = r + s - WordBits
<1> DEFINE q == k \div WordBits
           r == k % WordBits
           o == a \div WordBits
           s == a % WordBits
<1>1. WordBits \in Nat \ {0}
  BY BitsAssumption
<1>2. /\ q \in Int /\ r \in Bit /\ k = q * WordBits + r
      /\ o \in Int /\ s \in Bit /\ a = o * WordBits + s
  BY PlaceOf
<1> HIDE DEF q, r, o, s
<1>3. /\ (q - o) * WordBits = q * WordBits - o * WordBits
      /\ (q - o - 1) * WordBits = q * WordBits - o * WordBits - WordBits
      /\ (q + o) * WordBits = q * WordBits + o * WordBits
      /\ (q + o + 1) * WordBits = q * WordBits + o * WordBits + WordBits
      /\ q * WordBits \in Int /\ o * WordBits \in Int
  BY <1>1, <1>2
<1>4. ASSUME r >= s PROVE (k - a) \div WordBits = q - o /\ (k - a) % WordBits = r - s
  <2>1. k - a = (q - o) * WordBits + (r - s) /\ r - s \in Bit /\ q - o \in Int
    BY <1>1, <1>2, <1>3, <1>4 DEF Bit
  <2>2. QED BY <2>1, PlaceAt
<1>5. ASSUME ~(r >= s)
      PROVE  (k - a) \div WordBits = q - o - 1 /\ (k - a) % WordBits = r - s + WordBits
  <2>1. k - a = (q - o - 1) * WordBits + (r - s + WordBits) /\ r - s + WordBits \in Bit /\ q - o - 1 \in Int
    BY <1>1, <1>2, <1>3, <1>5 DEF Bit
  <2>2. QED BY <2>1, PlaceAt
<1>6. ASSUME r + s < WordBits
      PROVE  (k + a) \div WordBits = q + o /\ (k + a) % WordBits = r + s
  <2>1. k + a = (q + o) * WordBits + (r + s) /\ r + s \in Bit /\ q + o \in Int
    BY <1>1, <1>2, <1>3, <1>6 DEF Bit
  <2>2. QED BY <2>1, PlaceAt
<1>7. ASSUME ~(r + s < WordBits)
      PROVE  (k + a) \div WordBits = q + o + 1 /\ (k + a) % WordBits = r + s - WordBits
  <2>1. k + a = (q + o + 1) * WordBits + (r + s - WordBits) /\ r + s - WordBits \in Bit /\ q + o + 1 \in Int
    BY <1>1, <1>2, <1>3, <1>7 DEF Bit
  <2>2. QED BY <2>1, PlaceAt
<1>8. QED BY <1>4, <1>5, <1>6, <1>7 DEF q, r, o, s

\* What is cut off is what is above the width.
LEMMA CutHas ==
  ASSUME NEW width \in Nat \ {0}, NEW words \in Words(NumWords(width))
  PROVE  /\ Cut(width, words) \in Words(NumWords(width))
         /\ \A k \in Positions(width) : Has(Cut(width, words), k) <=> Has(words, k) /\ k < width
<1> DEFINE n == NumWords(width)
<1>1. n \in Nat \ {0} /\ n - 1 \in 0 .. n - 1
  BY WidthWords
<1>2. Cut(width, words) = [i \in 0 .. n - 1 |->
                             IF i = n - 1 THEN words[i] \cap TopBits(width) ELSE words[i]]
  BY <1>1 DEF Cut, Words
<1>3. Cut(width, words) \in Words(n)
  BY <1>2 DEF Words
<1>4. ASSUME NEW k \in Positions(width) PROVE Has(Cut(width, words), k) <=> Has(words, k) /\ k < width
  <2>1. k \in 0 .. n * WordBits - 1 /\ k \in Int
    BY WithinWords DEF Positions
  <2>2. k \div WordBits \in 0 .. n - 1
    BY <1>1, <2>1, PlaceInside
  <2>3. k < width <=> k \div WordBits # n - 1 \/ k % WordBits \in TopBits(width)
    BY <2>1, TopPlaces
  <2>4. QED BY <1>2, <2>2, <2>3 DEF Has
<1>5. QED BY <1>3, <1>4

\* Clearing the unused bits of a number.
LEMMA ClearedIs ==
  ASSUME NEW x, Shaped(x)
  PROVE  /\ Shaped(Cleared(x)) /\ Cleared(x).width = x.width /\ Cleared(x).signed = x.signed
         /\ Cleared(x).unknown = x.unknown
         /\ Clean(x.width, Cleared(x).data) /\ Clean(x.width, Cleared(x).marks)
         /\ \A k \in 0 .. x.width - 1 : /\ Has(Cleared(x).data, k) <=> Has(x.data, k)
                                        /\ Has(Cleared(x).marks, k) <=> Has(x.marks, k)
<1> DEFINE y == Cleared(x)
<1>1. /\ x = Number(x.width, x.signed, x.unknown, x.data, x.marks)
      /\ x.width \in Nat \ {0} /\ x.signed \in BOOLEAN /\ x.unknown \in BOOLEAN
      /\ x.data \in Words(NumWords(x.width)) /\ x.marks \in Words(NumWords(x.width))
  BY DEF Shaped
<1>2. y = Number(x.width, x.signed, x.unknown, Cut(x.width, x.data), Cut(x.width, x.marks))
  <2> DEFINE d == Cut(x.width, x.data)
             m == Cut(x.width, x.marks)
  <2>1. y = [x EXCEPT !.data = d, !.marks = m]
    BY DEF Cleared
  <2> HIDE DEF d, m
  <2>2. QED BY <1>1, <2>1 DEF Number, d, m
<1> HIDE DEF y
<1>3. /\ y.width = x.width /\ y.signed = x.signed /\ y.unknown = x.unknown
      /\ y.data = Cut(x.width, x.data) /\ y.marks = Cut(x.width, x.marks)
  BY <1>2 DEF Number
<1>4. Shaped(y)
  BY <1>1, <1>2, <1>3, CutHas DEF Shaped
<1>5. /\ \A k \in Positions(x.width) : Has(y.data, k) <=> Has(x.data, k) /\ k < x.width
      /\ \A k \in Positions(x.width) : Has(y.marks, k) <=> Has(x.marks, k) /\ k < x.width
  BY <1>1, <1>3, CutHas
<1>6. \A k \in Positions(x.width) : k >= x.width => ~(k < x.width)
  BY <1>1, WithinWords
<1>7. Clean(x.width, y.data) /\ Clean(x.width, y.marks)
  BY <1>5, <1>6 DEF Clean
<1>8. \A k \in 0 .. x.width - 1 : k \in Positions(x.width) /\ k < x.width
  BY <1>1, WithinWords
<1>9. QED BY <1>3, <1>4, <1>5, <1>7, <1>8 DEF y

\* Looking whether a bit is unknown after all.
LEMMA CheckedIs ==
  ASSUME NEW x, Shaped(x), Clean(x.width, x.data), Clean(x.width, x.marks),
         (\E k \in 0 .. x.width - 1 : Has(x.marks, k)) => x.unknown
  PROVE  /\ Stored(Checked(x)) /\ Checked(x).width = x.width /\ Checked(x).signed = x.signed
         /\ Checked(x).data = x.data /\ Checked(x).marks = x.marks
<1> DEFINE y == Checked(x)
           u == x.unknown /\ \E i \in DOMAIN x.marks : x.marks[i] # {}
           n == NumWords(x.width)
<1>1. /\ x = Number(x.width, x.signed, x.unknown, x.data, x.marks)
      /\ x.width \in Nat \ {0} /\ x.signed \in BOOLEAN /\ x.unknown \in BOOLEAN
      /\ x.data \in Words(n) /\ x.marks \in Words(n)
  BY DEF Shaped
<1>2. y = Number(x.width, x.signed, u, x.data, x.marks)
  BY <1>1 DEF Checked, Number
<1> HIDE DEF y
<1>3. /\ y.width = x.width /\ y.signed = x.signed /\ y.unknown = u
      /\ y.data = x.data /\ y.marks = x.marks
  BY <1>2 DEF Number
<1>4. (\E i \in DOMAIN x.marks : x.marks[i] # {}) <=> \E k \in 0 .. x.width - 1 : Has(x.marks, k)
  <2>1. ASSUME NEW i \in DOMAIN x.marks, x.marks[i] # {}
        PROVE  \E k \in 0 .. x.width - 1 : Has(x.marks, k)
    <3>1. i \in 0 .. n - 1 /\ x.marks[i] \subseteq Bit /\ n \in Nat
      BY <1>1, WidthWords DEF Words
    <3>2. PICK b \in Bit : b \in x.marks[i]
      BY <2>1, <3>1
    <3> DEFINE k == i * WordBits + b
    <3>3. k \in Int /\ k \div WordBits = i /\ k % WordBits = b
      BY <3>1, PlaceAt
    <3>4. Has(x.marks, k)
      BY <3>2, <3>3 DEF Has
    <3>5. k \in Positions(x.width)
      BY <3>1, <3>3, PlaceInside DEF Positions
    <3> HIDE DEF k
    <3>6. ~(k >= x.width)
      BY <3>4, <3>5 DEF Clean
    <3>7. QED BY <1>1, <3>4, <3>5, <3>6, WithinWords
  <2>2. ASSUME NEW k \in 0 .. x.width - 1, Has(x.marks, k)
        PROVE  \E i \in DOMAIN x.marks : x.marks[i] # {}
    <3>1. k \in 0 .. n * WordBits - 1 /\ k \in Int /\ n \in Nat
      BY <1>1, WithinWords, WidthWords DEF Positions
    <3>2. k \div WordBits \in DOMAIN x.marks
      BY <1>1, <3>1, PlaceInside DEF Words
    <3>3. QED BY <2>2, <3>2 DEF Has
  <2>3. QED BY <2>1, <2>2
<1>5. u \in BOOLEAN /\ (u <=> \E k \in 0 .. x.width - 1 : Has(x.marks, k))
  BY <1>4
<1> HIDE DEF u
<1>6. Shaped(y)
  BY <1>1, <1>2, <1>3, <1>5 DEF Shaped
<1>7. QED BY <1>3, <1>5, <1>6 DEF Stored, y

LEMMA InUp ==
  ASSUME NEW word \in SUBSET Bit, NEW n \in Int, NEW b \in Bit
  PROVE  b \in Up(word, n) <=> b - n \in word
BY BitsAssumption DEF Up, Bit

LEMMA InDown ==
  ASSUME NEW word \in SUBSET Bit, NEW n \in Int, NEW b \in Bit
  PROVE  b \in Down(word, n) <=> b + n \in word
BY BitsAssumption DEF Down, Bit

\* Positions are ordered as their places.
LEMMA PlaceOrder ==
  ASSUME NEW k \in Int, NEW m \in Int
  PROVE  /\ k <= m <=> \/ k \div WordBits < m \div WordBits
                       \/ k \div WordBits = m \div WordBits /\ k % WordBits <= m % WordBits
         /\ k >= 0 <=> k \div WordBits >= 0
<1> DEFINE q == k \div WordBits
           r == k % WordBits
           p == m \div WordBits
           s == m % WordBits
<1>1. WordBits \in Nat \ {0}
  BY BitsAssumption
<1>2. /\ q \in Int /\ r \in Bit /\ k = q * WordBits + r
      /\ p \in Int /\ s \in Bit /\ m = p * WordBits + s
  BY PlaceOf
<1> HIDE DEF q, r, p, s
<1>3. q * WordBits \in Int /\ p * WordBits \in Int
  BY <1>1, <1>2
<1>4. ASSUME q < p PROVE k <= m
  <2>1. (q + 1) * WordBits <= p * WordBits /\ (q + 1) * WordBits = q * WordBits + WordBits
    BY <1>1, <1>2, <1>4
  <2>2. QED BY <1>1, <1>2, <1>3, <2>1 DEF Bit
<1>5. ASSUME q = p PROVE k <= m <=> r <= s
  BY <1>1, <1>2, <1>3, <1>5 DEF Bit
<1>6. ASSUME q > p PROVE ~(k <= m)
  <2>1. (p + 1) * WordBits <= q * WordBits /\ (p + 1) * WordBits = p * WordBits + WordBits
    BY <1>1, <1>2, <1>6
  <2>2. QED BY <1>1, <1>2, <1>3, <2>1 DEF Bit
<1>7. k >= 0 <=> q >= 0
  <2>1. CASE q >= 0
    <3>1. q * WordBits >= 0
      BY <1>1, <1>2, <2>1
    <3>2. QED BY <1>1, <1>2, <1>3, <2>1, <3>1 DEF Bit
  <2>2. CASE q < 0
    <3>1. (q + 1) * WordBits <= 0 /\ (q + 1) * WordBits = q * WordBits + WordBits
      BY <1>1, <1>2, <2>2
    <3>2. QED BY <1>1, <1>2, <1>3, <2>2, <3>1 DEF Bit
  <2>3. QED BY <1>2, <2>1, <2>2
<1>8. (k <= m) <=> (q < p \/ (q = p /\ r <= s))
  <2>1. q < p \/ q = p \/ q > p
    BY <1>2
  <2>2. ~(q < p /\ q = p) /\ ~(q < p /\ q > p) /\ ~(q = p /\ q > p)
    BY <1>2
  <2>3. QED BY <1>4, <1>5, <1>6, <2>1, <2>2, Zenon
<1>9. QED BY <1>7, <1>8 DEF q, r, p, s

LEMMA PlaceSign == ASSUME NEW k \in Int PROVE k >= 0 <=> k \div WordBits >= 0
BY PlaceOrder

\* A shift to the left moves every bit up.
LEMMA ShlHas ==
  ASSUME NEW n \in Nat, NEW words \in Words(n), NEW a \in Nat
  PROVE  /\ ShlFar(words, a) \in Words(n)
         /\ \A k \in 0 .. n * WordBits - 1 : Has(ShlFar(words, a), k) <=> k >= a /\ Has(words, k - a)
<1> DEFINE o == a \div WordBits
           s == a % WordBits
           word(i) == IF i < o THEN {}
                      ELSE Up(words[i - o], s) \cup IF i = o THEN {} ELSE Down(words[i - o - 1], WordBits - s)
<1>1. WordBits \in Nat \ {0} /\ o \in Int /\ s \in Bit /\ o >= 0
  <2>1. a \in Int /\ a >= 0
    OBVIOUS
  <2>2. QED BY <2>1, BitsAssumption, PlaceOf, PlaceSign
<1>2. ShlFar(words, a) = [i \in 0 .. n - 1 |-> word(i)]
  BY DEF ShlFar, Words
<1>3. \A i \in 0 .. n - 1 : words[i] \in SUBSET Bit
  BY DEF Words
<1>4. ShlFar(words, a) \in Words(n)
  BY <1>2 DEF Words, Up, Down
<1>5. ASSUME NEW k \in 0 .. n * WordBits - 1
      PROVE  Has(ShlFar(words, a), k) <=> k >= a /\ Has(words, k - a)
  <2> DEFINE q == k \div WordBits
             r == k % WordBits
  <2>1. n * WordBits \in Nat /\ k \in Int
    BY <1>1
  <2>2. q \in 0 .. n - 1 /\ r \in Bit
    BY <2>1, PlaceInside, PlaceOf
  <2>3. Has(ShlFar(words, a), k) <=> r \in word(q)
    BY <1>2, <2>2 DEF Has
  <2>4. k >= a <=> (k - a) \div WordBits >= 0
    <3>1. k - a \in Int /\ (k >= a <=> k - a >= 0)
      BY <2>1
    <3>2. QED BY <3>1, PlaceSign
  <2>5. /\ r >= s => (k - a) \div WordBits = q - o /\ (k - a) % WordBits = r - s
        /\ ~(r >= s) => /\ (k - a) \div WordBits = q - o - 1
                        /\ (k - a) % WordBits = r - s + WordBits
    BY <2>1, PlaceMoved
  <2> HIDE DEF q, r, o, s
  <2>6. CASE q < o
    BY <1>1, <2>2, <2>3, <2>4, <2>5, <2>6
  <2>7. CASE q >= o /\ r >= s
    <3>1. words[q - o] \in SUBSET Bit /\ (q > o => words[q - o - 1] \in SUBSET Bit)
      BY <1>1, <1>3, <2>2, <2>7
    <3>2. r \in Up(words[q - o], s) <=> r - s \in words[q - o]
      BY <1>1, <2>2, <3>1, InUp DEF Bit
    <3>3. q > o => r \notin Down(words[q - o - 1], WordBits - s)
      <4>1. WordBits - s \in Int /\ r + (WordBits - s) \notin Bit
        BY <1>1, <2>2, <2>7 DEF Bit
      <4>2. QED BY <2>2, <3>1, <4>1, InDown
    <3>4. Has(words, k - a) <=> r - s \in words[q - o]
      BY <2>5, <2>7 DEF Has
    <3>5. k >= a
      BY <1>1, <2>2, <2>4, <2>5, <2>7
    <3>6. QED BY <1>1, <2>2, <2>3, <2>7, <3>2, <3>3, <3>4, <3>5
  <2>8. CASE q >= o /\ ~(r >= s)
    <3>1. words[q - o] \in SUBSET Bit /\ (q > o => words[q - o - 1] \in SUBSET Bit)
      BY <1>1, <1>3, <2>2, <2>8
    <3>2. r \notin Up(words[q - o], s)
      <4>1. s \in Int /\ r - s \notin Bit
        BY <1>1, <2>2, <2>8 DEF Bit
      <4>2. QED BY <2>2, <3>1, <4>1, InUp
    <3>3. q > o => (r \in Down(words[q - o - 1], WordBits - s) <=> r - s + WordBits \in words[q - o - 1])
      <4>1. WordBits - s \in Int /\ r + (WordBits - s) = r - s + WordBits
        BY <1>1, <2>2 DEF Bit
      <4>2. QED BY <2>2, <3>1, <4>1, InDown
    <3>4. Has(words, k - a) <=> r - s + WordBits \in words[q - o - 1]
      BY <2>5, <2>8 DEF Has
    <3>5. k >= a <=> q > o
      BY <1>1, <2>2, <2>4, <2>5, <2>8
    <3>6. QED BY <1>1, <2>2, <2>3, <2>8, <3>2, <3>3, <3>4, <3>5
  <2>9. QED BY <1>1, <2>2, <2>6, <2>7, <2>8
<1>6. QED BY <1>4, <1>5

\* A shift to the right moves every bit down.
LEMMA LshrHas ==
  ASSUME NEW n \in Nat, NEW words \in Words(n), NEW a \in Nat
  PROVE  /\ LshrFar(words, a) \in Words(n)
         /\ \A k \in 0 .. n * WordBits - 1 :
              Has(LshrFar(words, a), k) <=> k + a < n * WordBits /\ Has(words, k + a)
<1> DEFINE o == a \div WordBits
           s == a % WordBits
           at(i) == IF i \in 0 .. n - 1 THEN words[i] ELSE {}
<1>1. WordBits \in Nat \ {0} /\ o \in Int /\ s \in Bit /\ o >= 0
  <2>1. a \in Int /\ a >= 0
    OBVIOUS
  <2>2. QED BY <2>1, BitsAssumption, PlaceOf, PlaceSign
<1>2. LshrFar(words, a) =
        [i \in 0 .. n - 1 |-> Down(at(i + o), s) \cup Up(at(i + o + 1), WordBits - s)]
  BY DEF LshrFar, Words
<1>3. \A i \in Int : at(i) \in SUBSET Bit
  BY DEF Words
<1>4. LshrFar(words, a) \in Words(n)
  BY <1>2 DEF Words, Up, Down
<1> HIDE DEF at
<1>5. ASSUME NEW k \in 0 .. n * WordBits - 1
      PROVE  Has(LshrFar(words, a), k) <=> k + a < n * WordBits /\ Has(words, k + a)
  <2> DEFINE q == k \div WordBits
             r == k % WordBits
             p == (k + a) \div WordBits
  <2>1. n * WordBits \in Nat /\ k \in Int /\ k >= 0 /\ k + a \in Int /\ k + a >= 0
    BY <1>1
  <2>2. q \in 0 .. n - 1 /\ r \in Bit
    BY <2>1, PlaceInside, PlaceOf
  <2>3. Has(LshrFar(words, a), k) <=>
          r \in Down(at(q + o), s) \/ r \in Up(at(q + o + 1), WordBits - s)
    BY <1>2, <2>2 DEF Has
  <2>4. k + a < n * WordBits <=> p \in 0 .. n - 1
    BY <2>1, PlaceInside
  <2>5. /\ r + s < WordBits => p = q + o /\ (k + a) % WordBits = r + s
        /\ ~(r + s < WordBits) => p = q + o + 1 /\ (k + a) % WordBits = r + s - WordBits
    BY <2>1, PlaceMoved
  <2>6. k + a < n * WordBits /\ Has(words, k + a) <=> (k + a) % WordBits \in at(p)
    BY <2>4 DEF Has, at
  <2> HIDE DEF q, r, o, s, p
  <2>7. at(q + o) \in SUBSET Bit /\ at(q + o + 1) \in SUBSET Bit
    BY <1>1, <1>3, <2>2
  <2>8. /\ r \in Down(at(q + o), s) <=> r + s \in at(q + o)
        /\ r \in Up(at(q + o + 1), WordBits - s) <=> r + s - WordBits \in at(q + o + 1)
    <3>1. s \in Int /\ WordBits - s \in Int /\ r - (WordBits - s) = r + s - WordBits
      BY <1>1, <2>2 DEF Bit
    <3>2. QED BY <2>2, <2>7, <3>1, InUp, InDown
  <2>9. CASE r + s < WordBits
    <3>1. r + s - WordBits \notin Bit
      BY <1>1, <2>2, <2>9 DEF Bit
    <3>2. QED BY <2>3, <2>5, <2>6, <2>7, <2>8, <2>9, <3>1
  <2>10. CASE ~(r + s < WordBits)
    <3>1. r + s \notin Bit
      BY <1>1, <2>2, <2>10 DEF Bit
    <3>2. QED BY <2>3, <2>5, <2>6, <2>7, <2>8, <2>10, <3>1
  <2>11. QED BY <2>9, <2>10
<1>6. QED BY <1>4, <1>5

\* A one that is extended fills what is above it.
LEMMA SignExtendHas ==
  ASSUME NEW width \in Nat \ {0}, NEW words \in Words(NumWords(width)), Clean(width, words),
         NEW m \in 0 .. width - 1
  PROVE  /\ SignExtend(width, words, m) \in Words(NumWords(width))
         /\ \A k \in Positions(width) :
              Has(SignExtend(width, words, m), k) <=>
                Has(words, k) \/ (k < width /\ k >= m /\ Has(words, m))
<1> DEFINE n   == NumWords(width)
           p   == m \div WordBits
           bit == m % WordBits
           full == [i \in 0 .. n - 1 |->
                      IF i < p THEN words[i]
                      ELSE IF i = p THEN words[i] \cup {b \in Bit : b >= bit} ELSE Bit]
<1>1. CASE ~Has(words, m)
  BY <1>1 DEF SignExtend
<1>2. CASE Has(words, m)
  <2>1. SignExtend(width, words, m) = Cut(width, full)
    BY <1>2 DEF SignExtend, Words
  <2>2. full \in Words(n)
    BY DEF Words
  <2>3. n \in Nat /\ m \in Int /\ \A k \in Positions(width) : k \in Int /\ k \in 0 .. n * WordBits - 1
    BY WidthWords, WithinWords DEF Positions
  <2>4. ASSUME NEW k \in Positions(width), k < width
        PROVE  Has(full, k) <=> Has(words, k) \/ k >= m
    <3> DEFINE q == k \div WordBits
               r == k % WordBits
    <3>1. q \in 0 .. n - 1 /\ r \in Bit /\ p \in Int
      BY <2>3, PlaceInside, PlaceOf
    <3>2. m <= k <=> p < q \/ (p = q /\ bit <= r)
      BY <2>3, PlaceOrder
    <3>3. Has(full, k) <=> r \in full[q]
      BY DEF Has
    <3>4. Has(words, k) <=> r \in words[q]
      BY DEF Has
    <3>5. k >= m <=> m <= k
      BY <2>3
    <3>6. bit \in Int /\ r \in Int
      BY <3>1, <2>3, PlaceOf DEF Bit
    <3> HIDE DEF q, r, p, bit
    <3>7. full[q] = IF q < p THEN words[q]
                    ELSE IF q = p THEN words[q] \cup {b \in Bit : b >= bit} ELSE Bit
      BY <3>1
    <3> HIDE DEF full
    <3>8. CASE q < p
      BY <3>1, <3>2, <3>3, <3>4, <3>5, <3>7, <3>8
    <3>9. CASE q = p
      BY <3>1, <3>2, <3>3, <3>4, <3>5, <3>6, <3>7, <3>9
    <3>10. CASE q > p
      BY <3>1, <3>2, <3>3, <3>4, <3>5, <3>7, <3>10
    <3>11. QED BY <3>1, <3>8, <3>9, <3>10
  <2> HIDE DEF full, n, p, bit
  <2>5. /\ Cut(width, full) \in Words(n)
        /\ \A k \in Positions(width) : Has(Cut(width, full), k) <=> Has(full, k) /\ k < width
    BY <2>2, CutHas DEF n
  <2>6. \A k \in Positions(width) : ~(k < width) => ~Has(words, k)
    BY <2>3 DEF Clean
  <2>7. QED BY <1>2, <2>1, <2>4, <2>5, <2>6 DEF n
<1>3. QED BY <1>1, <1>2

\* The last bit is repeated up to the end of the last word.
LEMMA SignExtendCopyHas ==
  ASSUME NEW old \in Nat \ {0}, NEW words \in Words(NumWords(old)),
         NEW n \in Nat, n >= NumWords(old)
  PROVE  /\ SignExtendCopy(words, old, n) \in Words(n)
         /\ \A k \in 0 .. n * WordBits - 1 :
              Has(SignExtendCopy(words, old, n), k) <=>
                IF k < old THEN Has(words, k) ELSE Has(words, old - 1)
<1> DEFINE last == NumWords(old) - 1
           top  == (old - 1) % WordBits
           full == IF top \in words[last] THEN words[last] \cup {b \in Bit : b > top}
                                          ELSE words[last] \cap 0 .. top
           new(i) == IF i < last THEN words[i]
                     ELSE IF i = last THEN full
                     ELSE IF WordBits - 1 \in full THEN Bit ELSE {}
<1>1. /\ last \in 0 .. n - 1 /\ last \in Nat /\ old - 1 \in Int /\ WordBits \in Nat \ {0}
      /\ (old - 1) \div WordBits = last /\ top \in Bit
  <2>1. NumWords(old) \in Nat \ {0} /\ (old - 1) \div WordBits = last /\ old - 1 \in Int
    BY WidthWords
  <2>2. top \in Bit /\ WordBits \in Nat \ {0}
    BY <2>1, BitsAssumption, PlaceOf
  <2> HIDE DEF top
  <2>3. QED BY <2>1, <2>2
<1>2. \A i \in 0 .. last : words[i] \in SUBSET Bit
  BY <1>1 DEF Words
<1>3. SignExtendCopy(words, old, n) = [i \in 0 .. n - 1 |-> new(i)]
  BY DEF SignExtendCopy
<1>4. full \in SUBSET Bit
  BY <1>1, <1>2
<1>5. SignExtendCopy(words, old, n) \in Words(n)
  BY <1>1, <1>2, <1>3, <1>4 DEF Words
<1>6. \A b \in Bit : b \in full <=> IF b <= top THEN b \in words[last] ELSE top \in words[last]
  BY <1>1, <1>2 DEF Bit
<1>7. WordBits - 1 \in full <=> top \in words[last]
  <2>1. WordBits - 1 \in Bit /\ (WordBits - 1 <= top => top = WordBits - 1)
    BY <1>1 DEF Bit
  <2> HIDE DEF top, last, full
  <2>2. QED BY <1>6, <2>1
<1>8. ASSUME NEW k \in 0 .. n * WordBits - 1
      PROVE  Has(SignExtendCopy(words, old, n), k) <=>
               IF k < old THEN Has(words, k) ELSE Has(words, old - 1)
  <2> DEFINE q == k \div WordBits
             r == k % WordBits
  <2>1. n * WordBits \in Nat /\ k \in Int
    BY <1>1
  <2>2. q \in 0 .. n - 1 /\ r \in Bit
    BY <2>1, PlaceInside, PlaceOf
  <2>3. Has(SignExtendCopy(words, old, n), k) <=> r \in new(q)
    BY <1>3, <2>2 DEF Has
  <2>4. k < old <=> q < last \/ (q = last /\ r <= top)
    <3>1. k <= old - 1 <=> q < last \/ (q = last /\ r <= top)
      BY <1>1, <2>1, PlaceOrder
    <3>2. k < old <=> k <= old - 1
      BY <2>1
    <3>3. QED BY <3>1, <3>2
  <2>5. (Has(words, k) <=> r \in words[q]) /\ (Has(words, old - 1) <=> top \in words[last])
    <3>1. Has(words, k) <=> r \in words[q]
      BY DEF Has
    <3>2. Has(words, old - 1) <=> top \in words[last]
      BY <1>1 DEF Has
    <3>3. QED BY <3>1, <3>2
  <2> HIDE DEF q, r, last, top, full
  <2>6. CASE q < last
    BY <2>3, <2>4, <2>5, <2>6
  <2>7. CASE q = last
    <3>1. ~(q < last)
      BY <1>1, <2>7
    <3>2. r \in new(q) <=> r \in full
      BY <2>7, <3>1
    <3>3. QED BY <1>6, <2>2, <2>3, <2>4, <2>5, <2>7, <3>1, <3>2
  <2>8. CASE q > last
    <3>1. ~(q < last) /\ q # last
      BY <1>1, <2>2, <2>8
    <3>2. r \in new(q) <=> WordBits - 1 \in full
      BY <2>2, <3>1
    <3>3. QED BY <1>7, <2>3, <2>4, <2>5, <3>1, <3>2
  <2>9. QED BY <1>1, <2>2, <2>6, <2>7, <2>8
<1>9. QED BY <1>5, <1>8

LEMMA SetBitsHas ==
  ASSUME NEW n \in Nat, NEW dest \in Words(n), NEW start \in Int, NEW length \in Int
  PROVE  /\ SetBits(dest, start, length) \in Words(n)
         /\ \A k \in 0 .. n * WordBits - 1 :
              Has(SetBits(dest, start, length), k) <=>
                Has(dest, k) \/ k \in start .. start + length - 1
<1>1. SetBits(dest, start, length) \in Words(n)
  BY DEF SetBits, Words
<1>2. ASSUME NEW k \in 0 .. n * WordBits - 1
      PROVE  Has(SetBits(dest, start, length), k) <=> Has(dest, k) \/ k \in start .. start + length - 1
  <2>1. n * WordBits \in Nat /\ k \in Int
    BY BitsAssumption
  <2>2. /\ k \div WordBits \in 0 .. n - 1 /\ k % WordBits \in Bit
        /\ (k \div WordBits) * WordBits + (k % WordBits) = k
    BY <2>1, PlaceInside, PlaceOf
  <2>3. QED BY <2>2 DEF Has, SetBits, Words
<1>3. QED BY <1>1, <1>2

\* The bits of a part of src come to stand in dest, whatever the places of the two.
LEMMA BitCpyHas ==
  ASSUME NEW n \in Nat, NEW dest \in Words(n), NEW m \in Nat, NEW src \in Words(m),
         NEW to \in Nat, NEW start \in Nat, NEW length \in Int, start + length <= m * WordBits
  PROVE  /\ BitCpy(dest, to, src, length, start) \in Words(n)
         /\ \A k \in 0 .. n * WordBits - 1 :
              Has(BitCpy(dest, to, src, length, start), k) <=>
                IF k >= to /\ k < to + length THEN Has(src, start + (k - to)) ELSE Has(dest, k)
<1> DEFINE first   == to \div WordBits
           skip(i) == IF i = first THEN to % WordBits ELSE 0
           done(i) == i * WordBits + skip(i) - to
           need(i) == IF length - done(i) < WordBits - skip(i) THEN length - done(i)
                      ELSE WordBits - skip(i)
           at(i)     == (start + done(i)) \div WordBits
           offset(i) == (start + done(i)) % WordBits
           word(i) == Down(src[at(i)], offset(i))
                        \cup IF WordBits - offset(i) < need(i)
                             THEN Up(src[at(i) + 1], WordBits - offset(i)) ELSE {}
           new(i)  == IF i < first \/ need(i) <= 0 THEN dest[i]
                      ELSE (dest[i] \ (skip(i) .. skip(i) + need(i) - 1))
                             \cup Up(word(i) \cap 0 .. need(i) - 1, skip(i))
           copy    == BitCpy(dest, to, src, length, start)
<1>1. copy = [i \in 0 .. n - 1 |-> new(i)]
  BY DEF BitCpy, Words
<1>2. copy \in Words(n)
  <2> HIDE DEF need, skip, word
  <2>1. \A i \in 0 .. n - 1 : new(i) \in SUBSET Bit
    <3>1. \A i \in 0 .. n - 1 : dest[i] \in SUBSET Bit
      BY DEF Words
    <3>2. \A w, s : Up(w, s) \in SUBSET Bit
      BY DEF Up
    <3>3. QED BY <3>1, <3>2
  <2>2. QED BY <1>1, <2>1 DEF Words
<1>3. WordBits \in Nat \ {0} /\ first \in Nat /\ to % WordBits \in Bit /\ to = first * WordBits + (to % WordBits)
  <2>1. to \in Int /\ to >= 0
    OBVIOUS
  <2>2. QED BY <2>1, BitsAssumption, PlaceOf, PlaceSign
<1> HIDE DEF copy
<1>4. ASSUME NEW k \in 0 .. n * WordBits - 1
      PROVE  Has(copy, k) <=>
               IF k >= to /\ k < to + length THEN Has(src, start + (k - to)) ELSE Has(dest, k)
  <2> DEFINE q == k \div WordBits
             r == k % WordBits
             t == r - skip(q)
             room == need(q)
  <2>1. n * WordBits \in Nat /\ k \in Int
    BY <1>3
  <2>2. q \in 0 .. n - 1 /\ q \in Nat /\ r \in Bit /\ k = q * WordBits + r
    BY <2>1, PlaceInside, PlaceOf
  <2>3. (Has(copy, k) <=> r \in new(q)) /\ (Has(dest, k) <=> r \in dest[q])
    BY <1>1, <2>2 DEF Has
  <2>4. skip(q) \in Bit /\ done(q) \in Int /\ t \in Int
    BY <1>3, <2>2 DEF Bit
  <2>5. k - to = done(q) + t
    BY <1>3, <2>2, <2>4 DEF Bit
  <2>6. room \in Int /\ room <= WordBits - skip(q) /\ room <= length - done(q)
        /\ (room = length - done(q) \/ room = WordBits - skip(q))
    BY <1>3, <2>4 DEF Bit
  <2>7. CASE q < first
    <3>1. (q + 1) * WordBits <= first * WordBits /\ (q + 1) * WordBits = q * WordBits + WordBits
      BY <1>3, <2>2, <2>7
    <3>2. q * WordBits \in Int /\ first * WordBits \in Int
      BY <1>3, <2>2
    <3>3. ~(k >= to)
      BY <1>3, <2>2, <3>1, <3>2 DEF Bit
    <3>4. QED BY <2>3, <2>7, <3>3
  <2>8. ASSUME q >= first PROVE (k >= to <=> t >= 0) /\ done(q) >= 0
    <3>1. CASE q = first
      <4>1. done(q) = 0
        BY <1>3, <2>2, <3>1
      <4>2. QED BY <2>1, <2>4, <2>5, <4>1
    <3>2. CASE q > first
      <4>1. /\ (first + 1) * WordBits <= q * WordBits
            /\ (first + 1) * WordBits = first * WordBits + WordBits
        BY <1>3, <2>2, <3>2
      <4>2. q * WordBits \in Int /\ first * WordBits \in Int /\ q # first
        BY <1>3, <2>2, <3>2
      <4>3. skip(q) = 0
        BY <4>2
      <4>4. t = r /\ done(q) = q * WordBits - to
        BY <2>2, <4>2, <4>3 DEF Bit
      <4>5. done(q) > 0 /\ t >= 0
        BY <1>3, <2>2, <4>1, <4>2, <4>4 DEF Bit
      <4> HIDE DEF done, t
      <4>6. QED BY <2>1, <2>4, <2>5, <4>5
    <3>3. QED BY <1>3, <2>2, <2>8, <3>1, <3>2
  <2>9. CASE q >= first
    <3>1. (k >= to <=> t >= 0) /\ done(q) >= 0
      BY <2>8, <2>9
    <3>2. k >= to /\ k < to + length <=> t \in 0 .. room - 1
      <4>1. t < WordBits - skip(q)
        BY <1>3, <2>2, <2>4 DEF Bit
      <4>2. k < to + length <=> t < length - done(q)
        BY <2>1, <2>4, <2>5
      <4> HIDE DEF t, room, done, skip
      <4>3. QED BY <2>4, <2>6, <3>1, <4>1, <4>2
    <3>3. Has(copy, k) <=> IF t \in 0 .. room - 1 THEN t \in word(q) ELSE Has(dest, k)
      <4>1. ~(q < first)
        BY <1>3, <2>2, <2>9
      <4>2. dest[q] \in SUBSET Bit
        BY <2>2 DEF Words
      <4>3. r \in skip(q) .. skip(q) + room - 1 <=> t \in 0 .. room - 1
        BY <1>3, <2>2, <2>4, <2>6 DEF Bit
      <4>4. r \in Up(word(q) \cap 0 .. room - 1, skip(q)) <=> t \in word(q) /\ t \in 0 .. room - 1
        <5>1. room <= WordBits
          BY <1>3, <2>4, <2>6 DEF Bit
        <5>2. word(q) \cap 0 .. room - 1 \in SUBSET Bit
          BY <1>3, <2>6, <5>1 DEF Bit
        <5>3. skip(q) \in Int /\ t = r - skip(q)
          BY <1>3, <2>4 DEF Bit
        <5> HIDE DEF word, room, skip, t
        <5>4. QED BY <2>2, <5>2, <5>3, InUp
      <4> HIDE DEF word, skip, t, room
      <4>5. room <= 0 => ~(t \in 0 .. room - 1)
        BY <2>4, <2>6
      <4>6. r \in new(q) <=> IF need(q) <= 0 THEN r \in dest[q]
                            ELSE (r \in dest[q] /\ ~(r \in skip(q) .. skip(q) + need(q) - 1))
                                   \/ r \in Up(word(q) \cap 0 .. need(q) - 1, skip(q))
        BY <4>1
      <4> HIDE DEF need
      <4>7. QED BY <2>3, <4>3, <4>4, <4>5, <4>6 DEF room
    <3>4. ASSUME t \in 0 .. room - 1 PROVE t \in word(q) <=> Has(src, start + (k - to))
      <4> DEFINE f == start + done(q)
                 a == at(q)
                 o == offset(q)
      <4>1. f \in Int /\ f >= 0 /\ t \in Int /\ t >= 0 /\ start + (k - to) = f + t
        BY <2>4, <2>5, <3>1, <3>4
      <4>2. f + room - 1 < m * WordBits /\ m * WordBits \in Nat
        BY <1>3, <2>4, <2>6
      <4>3. a \in Int /\ a >= 0 /\ o \in Bit
        BY <4>1, PlaceOf, PlaceSign
      <4>4. t \in Bit /\ room <= WordBits
        BY <1>3, <2>4, <2>6, <3>4 DEF Bit
      <4>5. t \div WordBits = 0 /\ t % WordBits = t
        <5>1. t = 0 * WordBits + t
          BY <1>3, <4>4 DEF Bit
        <5> HIDE DEF t
        <5>2. QED BY <4>4, <5>1, PlaceAt
      <4>6. /\ o + t < WordBits => (f + t) \div WordBits = a /\ (f + t) % WordBits = o + t
            /\ ~(o + t < WordBits) => /\ (f + t) \div WordBits = a + 1
                                      /\ (f + t) % WordBits = o + t - WordBits
        <5>1. a = f \div WordBits /\ o = f % WordBits
          OBVIOUS
        <5> HIDE DEF f, t, a, o
        <5>2. QED BY <4>1, <4>3, <4>5, <5>1, PlaceMoved DEF Bit
      <4>7. a \in 0 .. m - 1
        <5>1. f \in 0 .. m * WordBits - 1
          BY <4>1, <4>2, <2>6, <3>4
        <5>2. a = f \div WordBits
          OBVIOUS
        <5> HIDE DEF f, a
        <5>3. QED BY <4>1, <5>1, <5>2, PlaceInside
      <4>8. WordBits - o < room => a + 1 \in 0 .. m - 1
        <5>1. ASSUME WordBits - o < room PROVE a + 1 \in 0 .. m - 1
          <6> DEFINE u == WordBits - o
          <6>1. u \in Int /\ u >= 1 /\ f + u \in 0 .. m * WordBits - 1
            BY <1>3, <4>1, <4>2, <4>3, <5>1, <2>6 DEF Bit
          <6>2. f = a * WordBits + o
            BY <4>1, PlaceOf
          <6> HIDE DEF f, a, o
          <6>3. f + u = (a + 1) * WordBits + 0 /\ a + 1 \in Int
            BY <1>3, <4>3, <6>2 DEF Bit
          <6>4. 0 \in Bit
            BY <1>3 DEF Bit
          <6>5. (f + u) \div WordBits = a + 1
            BY <6>3, <6>4, PlaceAt
          <6> HIDE DEF u
          <6>6. QED BY <4>1, <6>1, <6>5, PlaceInside
        <5>2. QED BY <5>1
      <4>9. src[a] \in SUBSET Bit /\ (WordBits - o < room => src[a + 1] \in SUBSET Bit)
        BY <4>7, <4>8 DEF Words
      <4>10. t \in word(q) <=>
               (t + o \in src[a] \/ (WordBits - o < room /\ t - (WordBits - o) \in src[a + 1]))
        <5>1. word(q) = Down(src[a], o)
                          \cup IF WordBits - o < room THEN Up(src[a + 1], WordBits - o) ELSE {}
          OBVIOUS
        <5>2. o \in Int /\ WordBits - o \in Int
          BY <1>3, <4>3 DEF Bit
        <5> HIDE DEF word, t, a, o, room
        <5>3. t \in Down(src[a], o) <=> t + o \in src[a]
          BY <4>4, <4>9, <5>2, InDown
        <5>4. CASE WordBits - o < room
          <6>1. t \in Up(src[a + 1], WordBits - o) <=> t - (WordBits - o) \in src[a + 1]
            BY <4>4, <4>9, <5>2, <5>4, InUp
          <6>2. QED BY <5>1, <5>3, <5>4, <6>1
        <5>5. CASE ~(WordBits - o < room)
          BY <5>1, <5>3, <5>5
        <5>6. QED BY <5>4, <5>5
      <4> HIDE DEF word, t, a, o, room, f
      <4>11. CASE o + t < WordBits
        <5>1. Has(src, f + t) <=> o + t \in src[a]
          BY <4>6, <4>11 DEF Has
        <5>2. t - (WordBits - o) \notin Bit /\ t + o = o + t
          BY <1>3, <4>3, <4>4, <4>11 DEF Bit
        <5>3. QED BY <4>1, <4>9, <4>10, <5>1, <5>2
      <4>12. CASE ~(o + t < WordBits)
        <5>1. Has(src, f + t) <=> o + t - WordBits \in src[a + 1]
          BY <4>6, <4>12 DEF Has
        <5>2. t + o \notin Bit /\ t - (WordBits - o) = o + t - WordBits /\ WordBits - o < room
          BY <1>3, <2>6, <3>4, <4>3, <4>4, <4>12 DEF Bit
        <5>3. QED BY <4>1, <4>9, <4>10, <5>1, <5>2
      <4>13. QED BY <4>11, <4>12
    <3> HIDE DEF word, t, room
    <3>5. QED BY <3>2, <3>3, <3>4
  <2>10. QED BY <1>3, <2>2, <2>7, <2>9
<1>5. QED BY <1>2, <1>4 DEF copy

-----------------------------------------------------------------------------
(* Numbers that an operation builds *)

\* The parts of a number.
LEMMA NumberIs ==
  ASSUME NEW width \in Nat \ {0}, NEW s \in BOOLEAN, NEW u \in BOOLEAN,
         NEW d \in Words(NumWords(width)), NEW m \in Words(NumWords(width)),
         NEW x, x = Number(width, s, u, d, m)
  PROVE  /\ Shaped(x) /\ x.width = width /\ x.signed = s /\ x.unknown = u
         /\ x.data = d /\ x.marks = m
<1>1. x.width = width /\ x.signed = s /\ x.unknown = u /\ x.data = d /\ x.marks = m
  BY DEF Number
<1>2. x = Number(x.width, x.signed, x.unknown, x.data, x.marks)
  BY <1>1
<1>3. QED BY <1>1, <1>2 DEF Shaped

\* New words for a number.
LEMMA NewWords ==
  ASSUME NEW x, Shaped(x), NEW d, NEW m, NEW y, y = [x EXCEPT !.data = d, !.marks = m]
  PROVE  y = Number(x.width, x.signed, x.unknown, d, m)
BY DEF Shaped, Number

\* New data for a number.
LEMMA NewData ==
  ASSUME NEW x, Shaped(x), NEW d, NEW y, y = [x EXCEPT !.data = d]
  PROVE  y = Number(x.width, x.signed, x.unknown, d, x.marks)
BY DEF Shaped, Number

\* A new width and new words for a number.
LEMMA NewWidth ==
  ASSUME NEW x, Shaped(x), NEW bits, NEW d, NEW m, NEW y,
         y = [x EXCEPT !.width = bits, !.data = d, !.marks = m]
  PROVE  y = Number(bits, x.signed, x.unknown, d, m)
BY DEF Shaped, Number

\* A word array without a one.
LEMMA BlankHas ==
  ASSUME NEW width \in Nat \ {0}
  PROVE  /\ Blank(width) \in Words(NumWords(width))
         /\ \A k \in Positions(width) : ~Has(Blank(width), k)
<1>1. Blank(width) \in Words(NumWords(width))
  BY DEF Blank, Words
<1>2. ASSUME NEW k \in Positions(width) PROVE ~Has(Blank(width), k)
  <2>1. NumWords(width) \in Nat /\ k \in Int
    BY WithinWords, WidthWords
  <2>2. k \div WordBits \in 0 .. NumWords(width) - 1
    BY <2>1, PlaceInside DEF Positions
  <2>3. QED BY <2>2 DEF Has, Blank
<1>3. QED BY <1>1, <1>2

\* Zero.
LEMMA ZeroIs ==
  ASSUME NEW width \in Nat \ {0}, NEW s \in BOOLEAN
  PROVE  /\ Stored(Zero(width, s)) /\ Zero(width, s).width = width /\ Zero(width, s).signed = s
         /\ \A k \in 0 .. width - 1 : BitAt(Zero(width, s), k) = "0"
<1> DEFINE x == Zero(width, s)
<1>1. x = Number(width, s, FALSE, Blank(width), Blank(width)) /\ FALSE \in BOOLEAN
  BY DEF Zero
<1> HIDE DEF x
<1>b. Blank(width) \in Words(NumWords(width))
  BY BlankHas
<1>c. \A b \in BOOLEAN : x = Number(width, s, b, Blank(width), Blank(width)) =>
        /\ Shaped(x) /\ x.width = width /\ x.signed = s /\ x.unknown = b
        /\ x.data = Blank(width) /\ x.marks = Blank(width)
  BY <1>b, NumberIs
<1>0. /\ Shaped(x) /\ x.width = width /\ x.signed = s /\ x.unknown = FALSE
      /\ x.data = Blank(width) /\ x.marks = Blank(width)
  BY <1>1, <1>c
<1>2. \A k \in Positions(width) : ~Has(x.data, k) /\ ~Has(x.marks, k)
  BY <1>0, BlankHas
<1>3. \A k \in 0 .. width - 1 : ~Has(x.data, k) /\ ~Has(x.marks, k)
  BY <1>2, WithinWords
<1>4. Clean(width, x.data) /\ Clean(width, x.marks)
  BY <1>2 DEF Clean
<1>5. Stored(x)
  BY <1>0, <1>3, <1>4 DEF Stored
<1>6. QED BY <1>0, <1>3, <1>5 DEF BitAt, x

\* Clearing the unused bits and looking for unknown ones stores a number as it
\* should be, whatever its unused bits were.
LEMMA Tidied ==
  ASSUME NEW x, Shaped(x), (\E k \in 0 .. x.width - 1 : Has(x.marks, k)) => x.unknown
  PROVE  LET y == Checked(Cleared(x))
         IN  /\ Stored(y) /\ y.width = x.width /\ y.signed = x.signed
             /\ \A k \in 0 .. x.width - 1 : BitAt(y, k) = BitAt(x, k)
<1> DEFINE z == Cleared(x)
           y == Checked(z)
<1>1. /\ Shaped(z) /\ z.width = x.width /\ z.signed = x.signed
      /\ z.unknown = x.unknown
      /\ Clean(x.width, z.data) /\ Clean(x.width, z.marks)
      /\ \A k \in 0 .. x.width - 1 : /\ Has(z.data, k) <=> Has(x.data, k)
                                     /\ Has(z.marks, k) <=> Has(x.marks, k)
  BY ClearedIs
<1> HIDE DEF z
<1>2. (\E k \in 0 .. z.width - 1 : Has(z.marks, k)) => z.unknown
  BY <1>1
<1>3. Stored(y) /\ y.width = x.width /\ y.signed = x.signed /\ y.data = z.data /\ y.marks = z.marks
  BY <1>1, <1>2, CheckedIs
<1> HIDE DEF y
<1>4. \A k \in 0 .. x.width - 1 : BitAt(y, k) = BitAt(x, k)
  BY <1>1, <1>3 DEF BitAt
<1>5. QED BY <1>3, <1>4 DEF y, z

-----------------------------------------------------------------------------
(* Shifts *)

\* A shift to the left: zeros come in below.
LEMMA ShlRight ==
  ASSUME NEW x, Stored(x), NEW a \in Nat
  PROVE  /\ Stored(Shl(x, a)) /\ Shl(x, a).width = x.width
         /\ \A k \in 0 .. x.width - 1 :
              BitAt(Shl(x, a), k) = IF k >= a THEN BitAt(x, k - a) ELSE "0"
<1> DEFINE width == x.width
<1>1. /\ Shaped(x) /\ width \in Nat \ {0} /\ x.signed \in BOOLEAN /\ x.unknown \in BOOLEAN
      /\ x.data \in Words(NumWords(width)) /\ x.marks \in Words(NumWords(width))
  BY DEF Stored, Shaped
<1>2. CASE a >= width
  <2>1. Shl(x, a) = Zero(width, x.signed)
    BY <1>2 DEF Shl
  <2>2. \A k \in 0 .. width - 1 : ~(k >= a)
    BY <1>1, <1>2
  <2>3. QED BY <1>1, <2>1, <2>2, ZeroIs
<1>3. CASE ~(a >= width)
  <2> DEFINE d == ShlFar(x.data, a)
             m == ShlFar(x.marks, a)
             z == Number(width, x.signed, x.unknown, d, m)
  <2>1. NumWords(width) \in Nat
    BY <1>1, WidthWords
  <2>2. /\ d \in Words(NumWords(width)) /\ m \in Words(NumWords(width))
        /\ \A k \in Positions(width) : /\ Has(d, k) <=> k >= a /\ Has(x.data, k - a)
                                       /\ Has(m, k) <=> k >= a /\ Has(x.marks, k - a)
    BY <1>1, <2>1, ShlHas DEF Positions
  <2>3. Shl(x, a) = Checked(Cleared(z))
    <3> DEFINE y == [x EXCEPT !.data = d, !.marks = m]
    <3>1. Shl(x, a) = Checked(Cleared(y))
      BY <1>3 DEF Shl
    <3>2. y = [x EXCEPT !.data = d, !.marks = m]
      OBVIOUS
    <3> HIDE DEF d, m, y
    <3>3. y = z
      BY <1>1, <3>2, NewWords
    <3>4. QED BY <3>1, <3>3
  <2> HIDE DEF d, m
  <2>4. /\ Shaped(z) /\ z.width = width /\ z.signed = x.signed /\ z.unknown = x.unknown
        /\ z.data = d /\ z.marks = m
    BY <1>1, <2>2, NumberIs
  <2> HIDE DEF z
  <2>5. \A k \in 0 .. width - 1 : BitAt(z, k) = IF k >= a THEN BitAt(x, k - a) ELSE "0"
    BY <1>1, <2>2, <2>4, WithinWords DEF BitAt
  <2>6. \A k \in 0 .. width - 1 : k >= a => k - a \in 0 .. width - 1
    BY <1>1
  <2>7. (\E k \in 0 .. width - 1 : Has(z.marks, k)) => z.unknown
    <3>1. \A k \in 0 .. width - 1 : Has(z.marks, k) => k >= a /\ Has(x.marks, k - a)
      BY <1>1, <2>2, <2>4, WithinWords
    <3>2. QED BY <2>4, <2>6, <3>1 DEF Stored
  <2>8. QED BY <2>3, <2>4, <2>5, <2>7, Tidied
<1>4. QED BY <1>2, <1>3

\* A shift to the right: zeros come in above.
LEMMA LshrRight ==
  ASSUME NEW x, Stored(x), NEW a \in Nat
  PROVE  /\ Stored(Lshr(x, a)) /\ Lshr(x, a).width = x.width /\ Lshr(x, a).signed = x.signed
         /\ \A k \in 0 .. x.width - 1 :
              BitAt(Lshr(x, a), k) = IF k + a < x.width THEN BitAt(x, k + a) ELSE "0"
<1> DEFINE width == x.width
<1>1. /\ Shaped(x) /\ width \in Nat \ {0} /\ x.signed \in BOOLEAN /\ x.unknown \in BOOLEAN
      /\ x.data \in Words(NumWords(width)) /\ x.marks \in Words(NumWords(width))
  BY DEF Stored, Shaped
<1>2. CASE a >= width
  <2>1. Lshr(x, a) = Zero(width, x.signed)
    BY <1>2 DEF Lshr
  <2>2. \A k \in 0 .. width - 1 : ~(k + a < width)
    BY <1>1, <1>2
  <2>3. QED BY <1>1, <2>1, <2>2, ZeroIs
<1>3. CASE ~(a >= width)
  <2> DEFINE d == LshrFar(x.data, a)
             m == LshrFar(x.marks, a)
             z == Number(width, x.signed, x.unknown, d, m)
  <2>1. NumWords(width) \in Nat /\ NumWords(width) * WordBits \in Nat
    BY <1>1, WidthWords
  <2>2. /\ d \in Words(NumWords(width)) /\ m \in Words(NumWords(width))
        /\ \A k \in Positions(width) :
             /\ Has(d, k) <=> k + a < NumWords(width) * WordBits /\ Has(x.data, k + a)
             /\ Has(m, k) <=> k + a < NumWords(width) * WordBits /\ Has(x.marks, k + a)
    BY <1>1, <2>1, LshrHas DEF Positions
  <2>3. Lshr(x, a) = Checked(z)
    <3> DEFINE y == [x EXCEPT !.data = d, !.marks = m]
    <3>1. Lshr(x, a) = Checked(y)
      BY <1>3 DEF Lshr
    <3>2. y = [x EXCEPT !.data = d, !.marks = m]
      OBVIOUS
    <3> HIDE DEF d, m, y
    <3>3. y = z
      BY <1>1, <3>2, NewWords
    <3>4. QED BY <3>1, <3>3
  <2> HIDE DEF d, m
  <2>4. /\ Shaped(z) /\ z.width = width /\ z.signed = x.signed /\ z.unknown = x.unknown
        /\ z.data = d /\ z.marks = m
    BY <1>1, <2>2, NumberIs
  <2> HIDE DEF z
  <2>5. \A k \in Positions(width) : /\ Has(d, k) <=> k + a < width /\ Has(x.data, k + a)
                                    /\ Has(m, k) <=> k + a < width /\ Has(x.marks, k + a)
    <3> SUFFICES ASSUME NEW k \in Positions(width)
                 PROVE  /\ Has(d, k) <=> k + a < width /\ Has(x.data, k + a)
                        /\ Has(m, k) <=> k + a < width /\ Has(x.marks, k + a)
      OBVIOUS
    <3>1. k \in Nat
      BY <1>1, WithinWords
    <3>2. CASE k + a < width
      <4>1. k + a < NumWords(width) * WordBits
        BY <1>1, <2>1, <3>1, <3>2, WidthWords
      <4>2. QED BY <2>2, <3>2, <4>1
    <3>3. CASE ~(k + a < width)
      <4>1. k + a < NumWords(width) * WordBits => k + a \in Positions(width) /\ k + a >= width
        BY <1>1, <2>1, <3>1, <3>3 DEF Positions
      <4>2. QED BY <2>2, <3>3, <4>1 DEF Stored, Clean
    <3>4. QED BY <3>2, <3>3
  <2>6. Clean(width, d) /\ Clean(width, m)
    <3>1. \A k \in Positions(width) : k >= width => ~(k + a < width)
      BY <1>1, WithinWords
    <3>2. QED BY <2>5, <3>1 DEF Clean
  <2>7. \A k \in 0 .. width - 1 : BitAt(z, k) = IF k + a < width THEN BitAt(x, k + a) ELSE "0"
    BY <1>1, <2>4, <2>5, WithinWords DEF BitAt
  <2>8. (\E k \in 0 .. width - 1 : Has(z.marks, k)) => z.unknown
    <3>1. \A k \in 0 .. width - 1 : Has(z.marks, k) => k + a < width /\ Has(x.marks, k + a)
      BY <1>1, <2>4, <2>5, WithinWords
    <3>2. \A k \in 0 .. width - 1 : k + a < width => k + a \in 0 .. width - 1
      BY <1>1
    <3>3. QED BY <2>4, <3>1, <3>2 DEF Stored
  <2>9. /\ Stored(Checked(z)) /\ Checked(z).width = width /\ Checked(z).signed = x.signed
        /\ Checked(z).data = z.data /\ Checked(z).marks = z.marks
    BY <2>4, <2>6, <2>8, CheckedIs
  <2>10. QED BY <2>3, <2>7, <2>9 DEF BitAt
<1>4. QED BY <1>2, <1>3

\* The parts of a number that is stored as it should be.
LEMMA StoredParts ==
  ASSUME NEW x, Stored(x)
  PROVE  /\ Shaped(x) /\ x.width \in Nat \ {0} /\ x.signed \in BOOLEAN /\ x.unknown \in BOOLEAN
         /\ x.data \in Words(NumWords(x.width)) /\ x.marks \in Words(NumWords(x.width))
         /\ Clean(x.width, x.data) /\ Clean(x.width, x.marks)
         /\ x.unknown <=> \E k \in 0 .. x.width - 1 : Has(x.marks, k)
BY DEF Stored, Shaped

\* A bit is extended over zeros.
LEMMA SignExtendFromRight ==
  ASSUME NEW x, Stored(x), NEW m \in 0 .. x.width - 1,
         \A k \in 0 .. x.width - 1 : k > m => BitAt(x, k) = "0"
  PROVE  /\ Stored(SignExtendFrom(x, m)) /\ SignExtendFrom(x, m).width = x.width
         /\ \A k \in 0 .. x.width - 1 :
              BitAt(SignExtendFrom(x, m), k) = IF k <= m THEN BitAt(x, k) ELSE BitAt(x, m)
<1> DEFINE width == x.width
           d == SignExtend(width, x.data, m)
           e == IF x.unknown THEN SignExtend(width, x.marks, m) ELSE x.marks
           y == SignExtendFrom(x, m)
<1>1. /\ Shaped(x) /\ width \in Nat \ {0} /\ x.signed \in BOOLEAN /\ x.unknown \in BOOLEAN
      /\ x.data \in Words(NumWords(width)) /\ x.marks \in Words(NumWords(width))
      /\ Clean(width, x.data) /\ Clean(width, x.marks)
      /\ x.unknown <=> \E k \in 0 .. width - 1 : Has(x.marks, k)
  BY StoredParts
<1>2. /\ d \in Words(NumWords(width))
      /\ \A k \in Positions(width) :
           Has(d, k) <=> Has(x.data, k) \/ (k < width /\ k >= m /\ Has(x.data, m))
  BY <1>1, SignExtendHas
<1>3. /\ e \in Words(NumWords(width))
      /\ \A k \in Positions(width) :
           Has(e, k) <=> Has(x.marks, k) \/ (k < width /\ k >= m /\ Has(x.marks, m))
  <2>1. CASE x.unknown
    BY <1>1, <2>1, SignExtendHas
  <2>2. CASE ~x.unknown
    BY <1>1, <2>2
  <2>3. QED BY <2>1, <2>2
<1>4. y = [x EXCEPT !.data = d, !.marks = e]
  BY DEF SignExtendFrom
<1> HIDE DEF d, e, y
<1>5. y = Number(width, x.signed, x.unknown, d, e)
  BY <1>1, <1>4, NewWords
<1>6. /\ Shaped(y) /\ y.width = width /\ y.signed = x.signed /\ y.unknown = x.unknown
      /\ y.data = d /\ y.marks = e
  BY <1>1, <1>2, <1>3, <1>5, NumberIs
<1>7. \A k \in Positions(width) : k >= width => ~(k < width)
  BY <1>1, WithinWords
<1>8. Clean(width, d) /\ Clean(width, e)
  BY <1>1, <1>2, <1>3, <1>7 DEF Clean
<1>9. y.unknown <=> \E k \in 0 .. width - 1 : Has(e, k)
  <2>1. \A k \in 0 .. width - 1 : Has(e, k) <=> Has(x.marks, k) \/ (k >= m /\ Has(x.marks, m))
    BY <1>1, <1>3, WithinWords
  <2>2. QED BY <1>1, <1>6, <2>1
<1>10. ASSUME NEW k \in 0 .. width - 1
       PROVE  BitAt(y, k) = IF k <= m THEN BitAt(x, k) ELSE BitAt(x, m)
  <2>1. /\ Has(d, k) <=> Has(x.data, k) \/ (k >= m /\ Has(x.data, m))
        /\ Has(e, k) <=> Has(x.marks, k) \/ (k >= m /\ Has(x.marks, m))
    BY <1>1, <1>2, <1>3, WithinWords
  <2>2. k > m => ~Has(x.data, k) /\ ~Has(x.marks, k)
    BY DEF BitAt
  <2>3. k < m \/ k = m \/ k > m
    BY <1>1
  <2>4. CASE k < m
    BY <1>1, <1>6, <2>1, <2>4 DEF BitAt
  <2>5. CASE k = m
    BY <1>1, <1>6, <2>1, <2>5 DEF BitAt
  <2>6. CASE k > m
    <3>1. k >= m /\ ~(k <= m)
      BY <1>1, <2>6
    <3>2. QED BY <1>6, <2>1, <2>2, <2>6, <3>1 DEF BitAt
  <2>7. QED BY <2>3, <2>4, <2>5, <2>6
<1>11. QED BY <1>6, <1>8, <1>9, <1>10 DEF Stored, y

\* A vector of one bit throughout.
LEMMA Filled ==
  ASSUME NEW width \in Nat \ {0}, NEW s \in BOOLEAN, NEW b \in Logic,
         NEW v \in Vectors(width), \A k \in 0 .. width - 1 : v[k] = b
  PROVE  /\ Stored(Make(v, s)) /\ Make(v, s).width = width
         /\ \A k \in 0 .. width - 1 : BitAt(Make(v, s), k) = b
<1>1. Stored(Make(v, s)) /\ Make(v, s).width = width /\ VectorOf(Make(v, s)) = v
  BY Made
<1>2. \A k \in 0 .. width - 1 : VectorOf(Make(v, s))[k] = BitAt(Make(v, s), k)
  BY <1>1 DEF VectorOf
<1>3. QED BY <1>1, <1>2

\* A shift to the right of a signed number: its last bit comes in above.
LEMMA AshrRight ==
  ASSUME NEW x, Stored(x), NEW a \in Nat
  PROVE  /\ Stored(Ashr(x, a)) /\ Ashr(x, a).width = x.width
         /\ \A k \in 0 .. x.width - 1 :
              BitAt(Ashr(x, a), k) =
                IF k + a < x.width THEN BitAt(x, k + a)
                ELSE IF x.signed THEN BitAt(x, x.width - 1) ELSE "0"
<1> DEFINE width == x.width
           msb == BitAt(x, width - 1)
           m == width - a - 1
<1>1. width \in Nat \ {0} /\ x.signed \in BOOLEAN
  BY StoredParts
<1>2. msb \in Logic
  BY DEF BitAt, Logic
<1>3. CASE ~x.signed \/ msb = "0"
  <2>1. Ashr(x, a) = Lshr(x, a)
    BY <1>3 DEF Ashr
  <2>2. QED BY <1>3, <2>1, LshrRight
<1>4. CASE ~(~x.signed \/ msb = "0") /\ a >= width
  <2>1. Ashr(x, a) = Make([k \in 0 .. width - 1 |-> msb], x.signed)
    <3>1. Ashr(x, a) = CASE msb = "x" -> FillX(width, x.signed)
                         [] msb = "z" -> FillZ(width, x.signed)
                         [] OTHER     -> Make([k \in 0 .. width - 1 |-> "1"], x.signed)
      BY <1>4 DEF Ashr
    <3> HIDE DEF msb
    <3>2. msb \in {"1", "x", "z"}
      BY <1>2, <1>4 DEF Logic
    <3>3. QED BY <3>1, <3>2 DEF FillX, FillZ
  <2>2. \A k \in 0 .. width - 1 : ~(k + a < width)
    BY <1>1, <1>4
  <2> HIDE DEF msb
  <2> DEFINE v == [k \in 0 .. width - 1 |-> msb]
  <2>5. v \in Vectors(width) /\ \A k \in 0 .. width - 1 : v[k] = msb
    BY <1>2 DEF Vectors
  <2> HIDE DEF v
  <2>3. /\ Stored(Ashr(x, a)) /\ Ashr(x, a).width = width
        /\ \A k \in 0 .. width - 1 : BitAt(Ashr(x, a), k) = msb
    BY <1>1, <1>2, <2>1, <2>5, Filled DEF v
  <2>4. QED BY <1>4, <2>2, <2>3 DEF msb
<1>5. CASE ~(~x.signed \/ msb = "0") /\ ~(a >= width)
  <2> DEFINE z == Lshr(x, a)
  <2>1. Ashr(x, a) = SignExtendFrom(z, m)
    BY <1>5 DEF Ashr
  <2>2. m \in 0 .. width - 1 /\ m + a = width - 1
    BY <1>1, <1>5
  <2>3. \A k \in 0 .. width - 1 : k <= m <=> k + a < width
    BY <1>1
  <2>4. /\ Stored(z) /\ z.width = width
        /\ \A k \in 0 .. width - 1 :
             BitAt(z, k) = IF k + a < width THEN BitAt(x, k + a) ELSE "0"
    BY LshrRight
  <2> HIDE DEF z
  <2>5. \A k \in 0 .. width - 1 : k > m <=> ~(k <= m)
    BY <1>1, <2>2
  <2> HIDE DEF m
  <2>6. \A k \in 0 .. width - 1 : k > m => BitAt(z, k) = "0"
    BY <2>3, <2>4, <2>5
  <2>7. BitAt(z, m) = msb
    <3>1. m + a < width
      BY <1>1, <2>2
    <3>2. QED BY <2>2, <2>4, <3>1
  <2>8. /\ Stored(Ashr(x, a)) /\ Ashr(x, a).width = width
        /\ \A k \in 0 .. width - 1 : BitAt(Ashr(x, a), k) = IF k <= m THEN BitAt(z, k) ELSE BitAt(z, m)
    BY <2>1, <2>2, <2>4, <2>6, SignExtendFromRight
  <2>9. QED BY <1>5, <2>3, <2>4, <2>7, <2>8
<1>6. QED BY <1>3, <1>4, <1>5

-----------------------------------------------------------------------------
(* Selections *)

\* The bits from lsb to msb, unknown where there are none.
LEMMA SliceRight ==
  ASSUME NEW x, Stored(x), NEW lsb \in Int, NEW msb \in Int, msb >= lsb
  PROVE  /\ Stored(Slice(x, msb, lsb)) /\ Slice(x, msb, lsb).width = msb - lsb + 1
         /\ \A k \in 0 .. msb - lsb :
              BitAt(Slice(x, msb, lsb), k) =
                IF lsb + k \in 0 .. x.width - 1 THEN BitAt(x, lsb + k) ELSE "x"
<1> DEFINE width == x.width
           selected == msb - lsb + 1
           front == IF lsb < 0 THEN -lsb ELSE 0
           back  == IF msb >= width THEN msb - width + 1 ELSE 0
           valid == selected - front - back
           start == IF front > 0 THEN 0 ELSE lsb
           copy(words) == BitCpy(Blank(selected), front, words, valid, start)
           n == NumWords(selected)
<1>1. /\ Shaped(x) /\ width \in Nat \ {0} /\ x.signed \in BOOLEAN /\ x.unknown \in BOOLEAN
      /\ x.data \in Words(NumWords(width)) /\ x.marks \in Words(NumWords(width))
      /\ x.unknown <=> \E k \in 0 .. width - 1 : Has(x.marks, k)
  BY StoredParts
<1>2. selected \in Nat \ {0} /\ selected - 1 = msb - lsb
  OBVIOUS
<1>3. CASE msb < 0 \/ lsb >= width
  <2>1. Slice(x, msb, lsb) = FillX(selected, FALSE)
    BY <1>3 DEF Slice
  <2>2. \A k \in 0 .. msb - lsb : ~(lsb + k \in 0 .. width - 1)
    BY <1>1, <1>3
  <2> HIDE DEF selected
  <2>3. "x" \in Logic /\ FALSE \in BOOLEAN
    BY DEF Logic
  <2> DEFINE y == Slice(x, msb, lsb)
             v == [k \in 0 .. selected - 1 |-> "x"]
  <2>4. y = Make(v, FALSE)
    BY <2>1 DEF FillX
  <2>7. v \in Vectors(selected) /\ \A k \in 0 .. selected - 1 : v[k] = "x"
    BY <2>3 DEF Vectors
  <2> HIDE DEF y, v
  <2>8. \A s \in BOOLEAN : /\ Stored(Make(v, s)) /\ Make(v, s).width = selected
                           /\ \A k \in 0 .. selected - 1 : BitAt(Make(v, s), k) = "x"
    BY <1>2, <2>3, <2>7, Filled
  <2>5. Stored(y) /\ y.width = selected /\ \A k \in 0 .. selected - 1 : BitAt(y, k) = "x"
    BY <2>4, <2>8
  <2>6. QED BY <1>2, <2>2, <2>5 DEF selected, y
<1>4. CASE ~(msb < 0 \/ lsb >= width)
  <2> DEFINE signed  == x.signed /\ ~(width <= WordBits /\ ~x.unknown /\ ~(front + back > 0))
             unknown == x.unknown \/ front + back > 0
             d == copy(x.data)
             m == SetBits(SetBits(copy(x.marks), 0, front), valid + front, back)
             z == Number(selected, signed, unknown, d, m)
  <2>1. Slice(x, msb, lsb) = Checked(Cleared(z))
    BY <1>4 DEF Slice
  <2>2. /\ front \in Nat /\ back \in Nat /\ valid \in Int /\ start \in Nat
        /\ start + valid <= width /\ valid + front + back = selected
    BY <1>1, <1>4
  <2>3. ASSUME NEW k \in 0 .. selected - 1
        PROVE  /\ k >= front /\ k < front + valid <=> lsb + k \in 0 .. width - 1
               /\ k >= front => start + (k - front) = lsb + k
               /\ k \in 0 .. 0 + front - 1 <=> ~(k >= front)
               /\ k \in valid + front .. valid + front + back - 1 <=> k >= front + valid
    BY <1>1, <1>4
  <2>4. (\E k \in 0 .. selected - 1 : ~(lsb + k \in 0 .. width - 1)) => front + back > 0
    BY <1>1, <1>4
  <2> HIDE DEF front, back, start, valid, selected
  <2>5. n \in Nat /\ \A k \in Positions(selected) : k \in 0 .. n * WordBits - 1
    BY <1>2, WidthWords DEF Positions
  <2>6. NumWords(width) \in Nat /\ start + valid <= NumWords(width) * WordBits
    BY <1>1, <2>2, WidthWords
  <2>7. Blank(selected) \in Words(n) /\ \A k \in Positions(selected) : ~Has(Blank(selected), k)
    BY <1>2, BlankHas
  <2> HIDE DEF n
  <2>8. ASSUME NEW words \in Words(NumWords(width))
        PROVE  /\ copy(words) \in Words(n)
               /\ \A k \in 0 .. selected - 1 :
                    Has(copy(words), k) <=> lsb + k \in 0 .. width - 1 /\ Has(words, lsb + k)
    <3>1. /\ copy(words) \in Words(n)
          /\ \A k \in 0 .. n * WordBits - 1 :
               Has(copy(words), k) <=>
                 IF k >= front /\ k < front + valid THEN Has(words, start + (k - front))
                 ELSE Has(Blank(selected), k)
      BY <2>2, <2>5, <2>6, <2>7, BitCpyHas
    <3> HIDE DEF copy
    <3>2. \A k \in 0 .. selected - 1 : k \in Positions(selected) /\ k \in 0 .. n * WordBits - 1
      BY <1>2, <2>5, WithinWords
    <3>3. QED BY <2>3, <2>7, <3>1, <3>2
  <2>9. /\ d \in Words(n)
        /\ \A k \in 0 .. selected - 1 :
             Has(d, k) <=> lsb + k \in 0 .. width - 1 /\ Has(x.data, lsb + k)
    BY <1>1, <2>8
  <2>10. /\ m \in Words(n)
         /\ \A k \in 0 .. selected - 1 :
              Has(m, k) <=> IF lsb + k \in 0 .. width - 1 THEN Has(x.marks, lsb + k) ELSE TRUE
    <3> DEFINE c == copy(x.marks)
               f == SetBits(c, 0, front)
    <3>1. /\ c \in Words(n)
          /\ \A k \in 0 .. selected - 1 :
               Has(c, k) <=> lsb + k \in 0 .. width - 1 /\ Has(x.marks, lsb + k)
      BY <1>1, <2>8
    <3> HIDE DEF c, copy
    <3>2. /\ f \in Words(n)
          /\ \A k \in 0 .. n * WordBits - 1 : Has(f, k) <=> Has(c, k) \/ k \in 0 .. 0 + front - 1
      BY <2>2, <2>5, <3>1, SetBitsHas
    <3> HIDE DEF f
    <3>3. m = SetBits(f, valid + front, back)
      BY DEF f, c
    <3> HIDE DEF m
    <3>4. /\ m \in Words(n)
          /\ \A k \in 0 .. n * WordBits - 1 :
               Has(m, k) <=> Has(f, k) \/ k \in valid + front .. valid + front + back - 1
      BY <2>2, <2>5, <3>2, <3>3, SetBitsHas
    <3>5. \A k \in 0 .. selected - 1 : k \in 0 .. n * WordBits - 1
      BY <1>2, <2>5, WithinWords
    <3>6. ASSUME NEW k \in 0 .. selected - 1
          PROVE  Has(m, k) <=> IF lsb + k \in 0 .. width - 1 THEN Has(x.marks, lsb + k) ELSE TRUE
      <4>1. Has(m, k) <=> \/ Has(c, k) \/ k \in 0 .. 0 + front - 1
                          \/ k \in valid + front .. valid + front + back - 1
        BY <3>2, <3>4, <3>5
      <4>2. Has(m, k) <=> Has(c, k) \/ ~(k >= front) \/ k >= front + valid
        BY <2>3, <4>1
      <4>3. k >= front + valid <=> ~(k < front + valid)
        BY <1>2, <2>2
      <4>4. QED BY <2>3, <3>1, <4>2, <4>3
    <3>7. QED BY <3>4, <3>6
  <2> HIDE DEF d, m, copy
  <2>11. signed \in BOOLEAN /\ unknown \in BOOLEAN
    BY <1>1
  <2> HIDE DEF signed
  <2>12. /\ Shaped(z) /\ z.width = selected /\ z.unknown = unknown
         /\ z.data = d /\ z.marks = m
    <3>1. z = Number(selected, signed, unknown, d, m)
      OBVIOUS
    <3> HIDE DEF unknown, z
    <3>2. QED BY <1>2, <2>9, <2>10, <2>11, <3>1, NumberIs DEF n
  <2> HIDE DEF z
  <2>13. \A k \in 0 .. selected - 1 :
           BitAt(z, k) = IF lsb + k \in 0 .. width - 1 THEN BitAt(x, lsb + k) ELSE "x"
    BY <2>9, <2>10, <2>12 DEF BitAt
  <2>14. (\E k \in 0 .. selected - 1 : Has(z.marks, k)) => z.unknown
    BY <1>1, <2>4, <2>10, <2>12
  <2>15. /\ Stored(Slice(x, msb, lsb)) /\ Slice(x, msb, lsb).width = selected
         /\ \A k \in 0 .. selected - 1 : BitAt(Slice(x, msb, lsb), k) = BitAt(z, k)
    BY <2>1, <2>12, <2>14, Tidied
  <2>16. QED BY <1>2, <2>13, <2>15 DEF selected
<1>5. QED BY <1>3, <1>4

-----------------------------------------------------------------------------
(* Widths that change *)

\* A longer vector has no fewer words.
LEMMA MoreWords ==
  ASSUME NEW old \in Nat \ {0}, NEW bits \in Nat \ {0}, old <= bits
  PROVE  NumWords(old) <= NumWords(bits)
<1> DEFINE n == NumWords(old)
           m == NumWords(bits)
<1>1. /\ n \in Nat /\ m \in Nat /\ WordBits \in Nat \ {0}
      /\ (n - 1) * WordBits < old /\ bits <= m * WordBits
      /\ (n - 1) * WordBits \in Int /\ m * WordBits \in Int
  BY WidthWords, BitsAssumption
<1> HIDE DEF n, m
<1>2. ASSUME m < n PROVE FALSE
  <2>1. m * WordBits <= (n - 1) * WordBits
    BY <1>1, <1>2
  <2>2. QED BY <1>1, <2>1
<1>3. QED BY <1>1, <1>2 DEF n, m

\* A longer number repeats its last bit, or has zeros above.
LEMMA ExtendRight ==
  ASSUME NEW x, Stored(x), NEW bits \in Nat, bits > x.width, NEW useSign \in BOOLEAN
  PROVE  /\ Stored(Extend(x, bits, useSign)) /\ Extend(x, bits, useSign).width = bits
         /\ \A k \in 0 .. bits - 1 :
              BitAt(Extend(x, bits, useSign), k) =
                IF k < x.width THEN BitAt(x, k)
                ELSE IF useSign THEN BitAt(x, x.width - 1) ELSE "0"
<1> DEFINE width == x.width
           n == NumWords(bits)
<1>1. /\ Shaped(x) /\ width \in Nat \ {0} /\ x.signed \in BOOLEAN /\ x.unknown \in BOOLEAN
      /\ x.data \in Words(NumWords(width)) /\ x.marks \in Words(NumWords(width))
      /\ Clean(width, x.data) /\ Clean(width, x.marks)
      /\ x.unknown <=> \E k \in 0 .. width - 1 : Has(x.marks, k)
  BY StoredParts
<1>2. bits \in Nat \ {0} /\ n \in Nat /\ NumWords(width) \in Nat /\ NumWords(width) <= n
  <2>1. bits \in Nat \ {0} /\ width <= bits
    BY <1>1
  <2>2. QED BY <1>1, <2>1, WidthWords, MoreWords
<1>3. \A k \in Positions(bits) : k \in 0 .. n * WordBits - 1 /\ k \in Nat
  BY <1>2, WithinWords DEF Positions
<1>4. \A k \in 0 .. bits - 1 : k \in Positions(bits)
  BY <1>2, WithinWords
<1>5. width - 1 \in 0 .. width - 1 /\ \A k \in 0 .. width - 1 : k \in 0 .. bits - 1 /\ k < width
  BY <1>1, <1>2
<1>6. \A k \in 0 .. bits - 1 : k < width => k \in 0 .. width - 1
  BY <1>1
<1>7. CASE useSign
  <2> DEFINE d == SignExtendCopy(x.data, width, n)
             m == SignExtendCopy(x.marks, width, n)
             z == Number(bits, x.signed, x.unknown, d, m)
             y == [x EXCEPT !.width = bits, !.data = d, !.marks = m]
  <2>1. Extend(x, bits, useSign) = Cleared(y)
    BY <1>7 DEF Extend, Sext
  <2>2. /\ d \in Words(n)
        /\ \A k \in 0 .. n * WordBits - 1 :
             Has(d, k) <=> IF k < width THEN Has(x.data, k) ELSE Has(x.data, width - 1)
    BY <1>1, <1>2, SignExtendCopyHas
  <2>3. /\ m \in Words(n)
        /\ \A k \in 0 .. n * WordBits - 1 :
             Has(m, k) <=> IF k < width THEN Has(x.marks, k) ELSE Has(x.marks, width - 1)
    BY <1>1, <1>2, SignExtendCopyHas
  <2>4. y = [x EXCEPT !.width = bits, !.data = d, !.marks = m]
    OBVIOUS
  <2> HIDE DEF d, m, y
  <2>5. y = z
    BY <1>1, <2>4, NewWidth
  <2>6. /\ Shaped(z) /\ z.width = bits /\ z.signed = x.signed /\ z.unknown = x.unknown
        /\ z.data = d /\ z.marks = m
    BY <1>1, <1>2, <2>2, <2>3, NumberIs
  <2> HIDE DEF z
  <2> DEFINE e == Cleared(z)
  <2>7. /\ Shaped(e) /\ e.width = bits /\ e.unknown = x.unknown
        /\ Clean(bits, e.data) /\ Clean(bits, e.marks)
        /\ \A k \in 0 .. bits - 1 : /\ Has(e.data, k) <=> Has(d, k)
                                    /\ Has(e.marks, k) <=> Has(m, k)
    BY <2>6, ClearedIs
  <2> HIDE DEF e
  <2>8. \A k \in 0 .. bits - 1 :
          /\ Has(e.data, k) <=> IF k < width THEN Has(x.data, k) ELSE Has(x.data, width - 1)
          /\ Has(e.marks, k) <=> IF k < width THEN Has(x.marks, k) ELSE Has(x.marks, width - 1)
    BY <1>3, <1>4, <2>2, <2>3, <2>7
  <2>9. (\E k \in 0 .. bits - 1 : Has(e.marks, k)) <=> \E k \in 0 .. width - 1 : Has(x.marks, k)
    BY <1>5, <1>6, <2>8
  <2>10. Stored(e)
    BY <1>1, <2>7, <2>9 DEF Stored
  <2>11. \A k \in 0 .. bits - 1 :
           BitAt(e, k) = IF k < width THEN BitAt(x, k) ELSE BitAt(x, width - 1)
    BY <2>8 DEF BitAt
  <2>12. QED BY <1>7, <2>1, <2>5, <2>7, <2>10, <2>11 DEF e
<1>8. CASE ~useSign
  <2> DEFINE longer(words) ==
               [i \in 0 .. n - 1 |-> IF i \in 0 .. NumWords(width) - 1 THEN words[i] ELSE {}]
             d == longer(x.data)
             m == longer(x.marks)
             z == Number(bits, x.signed, x.unknown, d, m)
             y == Extend(x, bits, useSign)
  <2>1. y = [x EXCEPT !.width = bits, !.data = d, !.marks = m]
    <3>1. DOMAIN x.data = 0 .. NumWords(width) - 1 /\ DOMAIN x.marks = 0 .. NumWords(width) - 1
      BY <1>1 DEF Words
    <3>2. QED BY <1>8, <3>1 DEF Extend, Zext
  <2>2. ASSUME NEW words \in Words(NumWords(width)), Clean(width, words)
        PROVE  /\ longer(words) \in Words(n)
               /\ \A k \in Positions(bits) : Has(longer(words), k) <=> k < width /\ Has(words, k)
    <3>1. longer(words) \in Words(n)
      BY DEF Words
    <3>2. ASSUME NEW k \in Positions(bits)
          PROVE  Has(longer(words), k) <=> k < width /\ Has(words, k)
      <4>1. k \div WordBits \in 0 .. n - 1 /\ k \in Int /\ k \in Nat
        BY <1>2, <1>3, PlaceInside
      <4>2. k \in Positions(width) <=> k \div WordBits \in 0 .. NumWords(width) - 1
        BY <1>2, <4>1, PlaceInside DEF Positions
      <4>3. Has(longer(words), k) <=> k \in Positions(width) /\ Has(words, k)
        BY <4>1, <4>2 DEF Has
      <4>4. k < width => k \in Positions(width)
        BY <1>1, <4>1, WithinWords
      <4>5. k \in Positions(width) /\ ~(k < width) => ~Has(words, k)
        BY <1>1, <2>2, <4>1 DEF Clean
      <4>6. QED BY <4>3, <4>4, <4>5
    <3>3. QED BY <3>1, <3>2
  <2>3. /\ d \in Words(n) /\ m \in Words(n)
        /\ \A k \in Positions(bits) : Has(d, k) <=> k < width /\ Has(x.data, k)
        /\ \A k \in Positions(bits) : Has(m, k) <=> k < width /\ Has(x.marks, k)
    BY <1>1, <2>2
  <2> HIDE DEF d, m, longer, y
  <2>4. y = z
    BY <1>1, <2>1, NewWidth
  <2>5. /\ Shaped(z) /\ z.width = bits /\ z.signed = x.signed /\ z.unknown = x.unknown
        /\ z.data = d /\ z.marks = m
    BY <1>1, <1>2, <2>3, NumberIs
  <2> HIDE DEF z
  <2>6. \A k \in Positions(bits) : k >= bits => ~(k < width)
    BY <1>1, <1>3
  <2>7. Clean(bits, d) /\ Clean(bits, m)
    BY <2>3, <2>6 DEF Clean
  <2>8. (\E k \in 0 .. bits - 1 : Has(m, k)) <=> \E k \in 0 .. width - 1 : Has(x.marks, k)
    BY <1>4, <1>5, <1>6, <2>3
  <2>9. Stored(z)
    BY <1>1, <2>5, <2>7, <2>8 DEF Stored
  <2>10. \A k \in 0 .. bits - 1 : BitAt(z, k) = IF k < width THEN BitAt(x, k) ELSE "0"
    BY <1>4, <2>3, <2>5 DEF BitAt
  <2>11. QED BY <1>8, <2>4, <2>5, <2>9, <2>10 DEF y
<1>9. QED BY <1>7, <1>8

\* A shorter number keeps its lower bits.
LEMMA TruncRight ==
  ASSUME NEW x, Stored(x), NEW bits \in Nat \ {0}, bits <= x.width
  PROVE  /\ Stored(Trunc(x, bits)) /\ Trunc(x, bits).width = bits
         /\ \A k \in 0 .. bits - 1 : BitAt(Trunc(x, bits), k) = BitAt(x, k)
<1> DEFINE width == x.width
           n == NumWords(bits)
           copy(words) == BitCpy(Blank(bits), 0, words, bits, 0)
           d == copy(x.data)
           m == copy(x.marks)
           z == Number(bits, x.signed, x.unknown, d, m)
<1>1. /\ Shaped(x) /\ width \in Nat \ {0} /\ x.signed \in BOOLEAN /\ x.unknown \in BOOLEAN
      /\ x.data \in Words(NumWords(width)) /\ x.marks \in Words(NumWords(width))
      /\ x.unknown <=> \E k \in 0 .. width - 1 : Has(x.marks, k)
  BY StoredParts
<1>2. Trunc(x, bits) = Checked(Cleared(z))
  BY DEF Trunc
<1>3. /\ n \in Nat /\ NumWords(width) \in Nat /\ 0 + bits <= NumWords(width) * WordBits
      /\ 0 \in Nat /\ bits \in Int
  BY <1>1, WidthWords
<1>4. Blank(bits) \in Words(n)
  BY BlankHas
<1>5. ASSUME NEW words \in Words(NumWords(width))
      PROVE  /\ copy(words) \in Words(n)
             /\ \A k \in 0 .. bits - 1 : Has(copy(words), k) <=> Has(words, k)
  <2>1. /\ copy(words) \in Words(n)
        /\ \A k \in 0 .. n * WordBits - 1 :
             Has(copy(words), k) <=>
               IF k >= 0 /\ k < 0 + bits THEN Has(words, 0 + (k - 0)) ELSE Has(Blank(bits), k)
    BY <1>3, <1>4, BitCpyHas
  <2> HIDE DEF copy
  <2>2. \A k \in 0 .. bits - 1 :
          k \in 0 .. n * WordBits - 1 /\ k >= 0 /\ k < 0 + bits /\ 0 + (k - 0) = k
    BY <1>3, WithinWords DEF Positions
  <2>3. QED BY <2>1, <2>2
<1>6. /\ d \in Words(n) /\ m \in Words(n)
      /\ \A k \in 0 .. bits - 1 : Has(d, k) <=> Has(x.data, k)
      /\ \A k \in 0 .. bits - 1 : Has(m, k) <=> Has(x.marks, k)
  BY <1>1, <1>5
<1> HIDE DEF d, m, copy
<1>7. /\ Shaped(z) /\ z.width = bits /\ z.unknown = x.unknown /\ z.data = d /\ z.marks = m
  BY <1>1, <1>6, NumberIs
<1> HIDE DEF z
<1>8. \A k \in 0 .. bits - 1 : k \in 0 .. width - 1
  BY <1>1
<1>9. (\E k \in 0 .. z.width - 1 : Has(z.marks, k)) => z.unknown
  BY <1>1, <1>6, <1>7, <1>8
<1>10. \A k \in 0 .. bits - 1 : BitAt(z, k) = BitAt(x, k)
  BY <1>6, <1>7 DEF BitAt
<1>11. QED BY <1>2, <1>7, <1>9, <1>10, Tidied

\* A number of another width.
LEMMA ResizeRight ==
  ASSUME NEW x, Stored(x), NEW bits \in Nat \ {0}
  PROVE  /\ Stored(Resize(x, bits)) /\ Resize(x, bits).width = bits
         /\ \A k \in 0 .. bits - 1 :
              BitAt(Resize(x, bits), k) =
                IF k < x.width THEN BitAt(x, k)
                ELSE IF x.signed THEN BitAt(x, x.width - 1) ELSE "0"
<1>1. x.width \in Nat \ {0} /\ x.signed \in BOOLEAN
  BY StoredParts
<1>2. CASE bits < x.width
  <2>1. Resize(x, bits) = Trunc(x, bits) /\ bits <= x.width
    BY <1>1, <1>2 DEF Resize
  <2>2. \A k \in 0 .. bits - 1 : k < x.width
    BY <1>1, <1>2
  <2>3. QED BY <2>1, <2>2, TruncRight
<1>3. CASE bits > x.width
  <2>1. Resize(x, bits) = Extend(x, bits, x.signed)
    BY <1>1, <1>3 DEF Resize
  <2>2. QED BY <1>1, <1>3, <2>1, ExtendRight
<1>4. CASE bits = x.width
  <2>1. Resize(x, bits) = x
    BY <1>1, <1>4 DEF Resize
  <2>2. \A k \in 0 .. bits - 1 : k < x.width
    BY <1>1, <1>4
  <2>3. QED BY <1>4, <2>1, <2>2
<1>5. QED BY <1>1, <1>2, <1>3, <1>4

-----------------------------------------------------------------------------
(* The other way round *)

\* Turning the words of a number round, and the bits in them.
LEMMA MirrorHas ==
  ASSUME NEW n \in Nat, NEW words \in Words(n), NEW mirror,
         mirror = [i \in DOMAIN words |-> {WordBits - 1 - b : b \in words[n - 1 - i]}]
  PROVE  /\ mirror \in Words(n)
         /\ \A k \in 0 .. n * WordBits - 1 :
              /\ Has(mirror, k) <=> Has(words, n * WordBits - 1 - k)
              /\ n * WordBits - 1 - k \in 0 .. n * WordBits - 1
<1>1. WordBits \in Nat \ {0} /\ n * WordBits \in Nat
  BY BitsAssumption
<1>2. mirror = [i \in 0 .. n - 1 |-> {WordBits - 1 - b : b \in words[n - 1 - i]}]
  BY DEF Words
<1>3. \A i \in 0 .. n - 1 : words[n - 1 - i] \in SUBSET Bit
  BY DEF Words
<1>4. mirror \in Words(n)
  <2>1. ASSUME NEW i \in 0 .. n - 1
        PROVE  {WordBits - 1 - b : b \in words[n - 1 - i]} \in SUBSET Bit
    BY <1>1, <1>3 DEF Bit
  <2>2. QED BY <1>2, <2>1 DEF Words
<1>5. ASSUME NEW k \in 0 .. n * WordBits - 1
      PROVE  /\ Has(mirror, k) <=> Has(words, n * WordBits - 1 - k)
             /\ n * WordBits - 1 - k \in 0 .. n * WordBits - 1
  <2> DEFINE q == k \div WordBits
             r == k % WordBits
             p == n - 1 - q
             s == WordBits - 1 - r
  <2>1. k \in Int
    BY <1>1
  <2>2. q \in 0 .. n - 1 /\ r \in Bit /\ k = q * WordBits + r
    BY <2>1, PlaceInside, PlaceOf
  <2>3. Has(mirror, k) <=> r \in {WordBits - 1 - b : b \in words[p]}
    BY <1>2, <2>2 DEF Has
  <2> HIDE DEF q, r
  <2>4. p \in 0 .. n - 1 /\ s \in Bit /\ n * WordBits - 1 - k = p * WordBits + s
    <3>1. p * WordBits = n * WordBits - WordBits - q * WordBits /\ q * WordBits \in Int
      BY <1>1, <2>2
    <3>2. p \in 0 .. n - 1 /\ s \in Bit
      BY <1>1, <2>2 DEF Bit
    <3> HIDE DEF p
    <3>3. QED BY <1>1, <2>2, <3>1, <3>2 DEF Bit
  <2>5. r \in {WordBits - 1 - b : b \in words[p]} <=> s \in words[p]
    <3>1. words[p] \subseteq Bit
      BY <2>4 DEF Words
    <3> HIDE DEF p
    <3>2. ASSUME s \in words[p] PROVE \E b \in words[p] : r = WordBits - 1 - b
      <4>1. r = WordBits - 1 - s
        BY <1>1, <2>2 DEF Bit
      <4>2. QED BY <3>2, <4>1
    <3>3. ASSUME NEW b \in words[p], r = WordBits - 1 - b PROVE s \in words[p]
      <4>1. b = s
        BY <1>1, <2>2, <3>1, <3>3 DEF Bit
      <4>2. QED BY <4>1
    <3>4. QED BY <3>2, <3>3
  <2> HIDE DEF p, s
  <2>6. (p * WordBits + s) \div WordBits = p /\ (p * WordBits + s) % WordBits = s
    BY <2>4, PlaceAt
  <2>7. Has(words, n * WordBits - 1 - k) <=> s \in words[p]
    BY <2>4, <2>6 DEF Has
  <2>8. n * WordBits - 1 - k \in 0 .. n * WordBits - 1
    BY <1>1
  <2>9. QED BY <2>3, <2>5, <2>7, <2>8
<1>6. QED BY <1>4, <1>5

\* A number turned round, unless the unused bits of its words are as many as its bits
\* and the code shifts it out.
LEMMA ReversedRight ==
  ASSUME NEW x, Stored(x)
  PROVE  /\ Stored(Reversed(x)) /\ Reversed(x).width = x.width
         /\ \/ x.unknown /\ Unused(x.width) >= x.width
            \/ \A k \in 0 .. x.width - 1 : BitAt(Reversed(x), k) = BitAt(x, x.width - 1 - k)
<1> DEFINE width == x.width
           n == NumWords(width)
           unused == Unused(width)
           mirror(words) == [i \in DOMAIN words |-> {WordBits - 1 - b : b \in words[n - 1 - i]}]
           d == mirror(x.data)
           m == mirror(x.marks)
           z == [x EXCEPT !.data = d, !.marks = m]
           y == Reversed(x)
<1>1. /\ Shaped(x) /\ width \in Nat \ {0} /\ x.signed \in BOOLEAN /\ x.unknown \in BOOLEAN
      /\ x.data \in Words(n) /\ x.marks \in Words(n)
      /\ Clean(width, x.data) /\ Clean(width, x.marks)
      /\ x.unknown <=> \E k \in 0 .. width - 1 : Has(x.marks, k)
  BY StoredParts
<1>2. /\ n \in Nat \ {0} /\ n * WordBits \in Nat /\ width <= n * WordBits
      /\ unused = n * WordBits - width /\ unused \in Nat /\ WordBits \in Nat \ {0}
      /\ (n - 1) * WordBits < width
  <2>1. /\ n \in Nat \ {0} /\ n * WordBits \in Nat /\ width <= n * WordBits
        /\ (n - 1) * WordBits < width
    BY <1>1, WidthWords
  <2>2. unused = n * WordBits - width
    BY DEF Unused
  <2>3. WordBits \in Nat \ {0}
    BY BitsAssumption
  <2> HIDE DEF n, unused
  <2>4. QED BY <1>1, <2>1, <2>2, <2>3
<1>3. y = IF unused = 0 THEN z
          ELSE IF x.unknown \/ width > WordBits THEN Lshr(z, unused)
          ELSE [x EXCEPT !.data = LshrFar(z.data, unused)]
  BY DEF Reversed
<1>4. /\ d \in Words(n)
      /\ \A k \in Positions(width) : /\ Has(d, k) <=> Has(x.data, n * WordBits - 1 - k)
                                     /\ n * WordBits - 1 - k \in Positions(width)
  <2>1. d = [i \in DOMAIN x.data |-> {WordBits - 1 - b : b \in x.data[n - 1 - i]}]
    OBVIOUS
  <2> HIDE DEF d, n
  <2>2. QED BY <1>1, <1>2, <2>1, MirrorHas DEF Positions, n
<1>5. /\ m \in Words(n)
      /\ \A k \in Positions(width) : Has(m, k) <=> Has(x.marks, n * WordBits - 1 - k)
  <2>1. m = [i \in DOMAIN x.marks |-> {WordBits - 1 - b : b \in x.marks[n - 1 - i]}]
    OBVIOUS
  <2> HIDE DEF m, n
  <2>2. QED BY <1>1, <1>2, <2>1, MirrorHas DEF Positions, n
<1>6. z = Number(width, x.signed, x.unknown, d, m)
  <2>1. z = [x EXCEPT !.data = d, !.marks = m]
    OBVIOUS
  <2> HIDE DEF d, m, z
  <2>2. QED BY <1>1, <2>1, NewWords
<1> HIDE DEF d, m, z, y, mirror
<1>7. /\ Shaped(z) /\ z.width = width /\ z.signed = x.signed /\ z.unknown = x.unknown
      /\ z.data = d /\ z.marks = m
  BY <1>1, <1>4, <1>5, <1>6, NumberIs
\* The words that a shift by the unused bits moves down, and which no bit is above.
<1>8. /\ LshrFar(d, unused) \in Words(n) /\ LshrFar(m, unused) \in Words(n)
      /\ \A k \in Positions(width) :
           /\ Has(LshrFar(d, unused), k) <=> k < width /\ Has(x.data, width - 1 - k)
           /\ Has(LshrFar(m, unused), k) <=> k < width /\ Has(x.marks, width - 1 - k)
  <2>1. /\ LshrFar(d, unused) \in Words(n) /\ LshrFar(m, unused) \in Words(n)
        /\ \A k \in Positions(width) :
             /\ Has(LshrFar(d, unused), k) <=> k + unused < n * WordBits /\ Has(d, k + unused)
             /\ Has(LshrFar(m, unused), k) <=> k + unused < n * WordBits /\ Has(m, k + unused)
    BY <1>2, <1>4, <1>5, LshrHas DEF Positions
  <2>2. ASSUME NEW k \in Positions(width)
        PROVE  /\ k + unused < n * WordBits <=> k < width
               /\ k < width => /\ k + unused \in Positions(width)
                               /\ n * WordBits - 1 - (k + unused) = width - 1 - k
    BY <1>1, <1>2 DEF Positions
  <2> HIDE DEF unused, n
  <2>3. QED BY <1>4, <1>5, <2>1, <2>2
<1>9. \A k \in 0 .. width - 1 : k \in Positions(width) /\ k < width /\ width - 1 - k \in 0 .. width - 1
                                /\ width - 1 - (width - 1 - k) = k
  BY <1>1, WithinWords
<1>10. \A k \in Positions(width) : k >= width => ~(k < width)
  BY <1>1, WithinWords
<1> DEFINE w == Number(width, x.signed, x.unknown, LshrFar(d, unused), LshrFar(m, unused))
<1>11. /\ Stored(w) /\ w.width = width /\ w.data = LshrFar(d, unused) /\ w.marks = LshrFar(m, unused)
       /\ \A k \in 0 .. width - 1 : BitAt(w, k) = BitAt(x, width - 1 - k)
  <2>1. /\ Shaped(w) /\ w.width = width /\ w.unknown = x.unknown
        /\ w.data = LshrFar(d, unused) /\ w.marks = LshrFar(m, unused)
    BY <1>1, <1>8, NumberIs
  <2> HIDE DEF w, unused, n
  <2>2. Clean(width, w.data) /\ Clean(width, w.marks)
    BY <1>8, <1>10, <2>1 DEF Clean
  <2>3. \A k \in 0 .. width - 1 : /\ Has(w.data, k) <=> Has(x.data, width - 1 - k)
                                  /\ Has(w.marks, k) <=> Has(x.marks, width - 1 - k)
    BY <1>8, <1>9, <2>1
  <2>4. (\E k \in 0 .. width - 1 : Has(w.marks, k)) <=> \E k \in 0 .. width - 1 : Has(x.marks, k)
    BY <1>9, <2>3
  <2>5. Stored(w)
    BY <1>1, <2>1, <2>2, <2>4 DEF Stored
  <2>6. QED BY <2>1, <2>3, <2>5 DEF BitAt
<1>12. CASE unused = 0
  <2>1. y = z /\ n * WordBits = width
    BY <1>1, <1>2, <1>3, <1>12
  <2> HIDE DEF unused, n
  <2>2. \A k \in 0 .. width - 1 : /\ Has(d, k) <=> Has(x.data, width - 1 - k)
                                  /\ Has(m, k) <=> Has(x.marks, width - 1 - k)
    BY <1>4, <1>5, <1>9, <2>1
  <2>3. \A k \in Positions(width) : ~(k >= width)
    <3>1. \A k \in 0 .. width - 1 : ~(k >= width)
      BY <1>1
    <3>2. Positions(width) = 0 .. width - 1
      BY <2>1 DEF Positions, n
    <3>3. QED BY <3>1, <3>2
  <2>4. Clean(width, d) /\ Clean(width, m)
    BY <2>3 DEF Clean
  <2>5. (\E k \in 0 .. width - 1 : Has(m, k)) <=> \E k \in 0 .. width - 1 : Has(x.marks, k)
    BY <1>9, <2>2
  <2>6. Stored(z)
    BY <1>1, <1>7, <2>4, <2>5 DEF Stored
  <2>7. QED BY <1>7, <2>1, <2>2, <2>6 DEF BitAt, y
<1>13. CASE unused # 0 /\ (x.unknown \/ width > WordBits) /\ unused < width
  <2> DEFINE v == [z EXCEPT !.data = LshrFar(d, unused), !.marks = LshrFar(m, unused)]
  <2>1. y = Checked(v)
    <3>1. y = Lshr(z, unused)
      BY <1>3, <1>13
    <3>2. ~(unused >= z.width)
      BY <1>1, <1>2, <1>7, <1>13
    <3> HIDE DEF unused
    <3>3. QED BY <1>7, <3>1, <3>2 DEF Lshr
  <2>2. v = w
    <3>1. v = [z EXCEPT !.data = LshrFar(d, unused), !.marks = LshrFar(m, unused)]
      OBVIOUS
    <3> HIDE DEF v, unused
    <3>2. v = Number(z.width, z.signed, z.unknown, LshrFar(d, unused), LshrFar(m, unused))
      BY <1>7, <3>1, NewWords
    <3>3. QED BY <1>7, <3>2, Zenon
  <2> HIDE DEF v, w
  <2>3. Stored(Checked(w)) /\ Checked(w).width = width /\ Checked(w).data = w.data /\ Checked(w).marks = w.marks
    <3>1. /\ Shaped(w) /\ Clean(w.width, w.data) /\ Clean(w.width, w.marks)
          /\ (\E k \in 0 .. w.width - 1 : Has(w.marks, k)) => w.unknown
      BY <1>11, StoredParts
    <3>2. QED BY <1>11, <3>1, CheckedIs
  <2>4. QED BY <1>11, <2>1, <2>2, <2>3 DEF BitAt, y
<1>14. CASE unused # 0 /\ (x.unknown \/ width > WordBits) /\ ~(unused < width)
  <2>1. unused < WordBits
    <3>1. (n - 1) * WordBits = n * WordBits - WordBits
      BY <1>2
    <3> HIDE DEF n
    <3>2. QED BY <1>1, <1>2, <3>1
  <2>2. ~(width > WordBits) /\ unused >= width
    BY <1>1, <1>2, <1>14, <2>1
  <2>3. x.unknown
    BY <1>14, <2>2
  <2>4. y = Zero(width, x.signed)
    <3>1. y = Lshr(z, unused)
      BY <1>3, <1>14
    <3> HIDE DEF unused
    <3>2. QED BY <1>7, <2>2, <3>1 DEF Lshr
  <2>5. QED BY <1>1, <2>2, <2>3, <2>4, ZeroIs DEF y
<1>15. CASE unused # 0 /\ ~(x.unknown \/ width > WordBits)
  <2>1. y = [x EXCEPT !.data = LshrFar(d, unused)]
    BY <1>3, <1>7, <1>15
  <2> HIDE DEF unused, n
  <2>2. y = Number(width, x.signed, x.unknown, LshrFar(d, unused), x.marks)
    BY <1>1, <2>1, NewData
  <2>3. /\ Shaped(y) /\ y.width = width /\ y.unknown = x.unknown
        /\ y.data = LshrFar(d, unused) /\ y.marks = x.marks
    BY <1>1, <1>8, <2>2, NumberIs DEF n
  <2>4. Clean(width, y.data)
    BY <1>8, <1>10, <2>3 DEF Clean
  <2>5. Stored(y)
    BY <1>1, <2>3, <2>4 DEF Stored
  <2>6. \A k \in 0 .. width - 1 : ~Has(x.marks, k) /\ ~Has(x.marks, width - 1 - k)
    BY <1>1, <1>9, <1>15
  <2>7. \A k \in 0 .. width - 1 : BitAt(y, k) = BitAt(x, width - 1 - k)
    BY <1>8, <1>9, <2>3, <2>6 DEF BitAt
  <2>8. QED BY <2>3, <2>5, <2>7 DEF y
<1>16. QED BY <1>12, <1>13, <1>14, <1>15

-----------------------------------------------------------------------------
(* Two vectors *)

\* One operand, extended to the width of the other.
LEMMA WidenedRight ==
  ASSUME NEW x, Stored(x), NEW y, Stored(y), NEW wide,
         wide = IF x.width > y.width THEN x.width ELSE y.width
  PROVE  LET useSign == x.signed /\ y.signed
             p == Widened(x, y)[1]
             q == Widened(x, y)[2]
         IN  /\ Stored(p) /\ p.width = wide /\ Stored(q) /\ q.width = wide
             /\ \A k \in 0 .. wide - 1 :
                  /\ BitAt(p, k) = IF k < x.width THEN BitAt(x, k)
                                   ELSE IF useSign THEN BitAt(x, x.width - 1) ELSE "0"
                  /\ BitAt(q, k) = IF k < y.width THEN BitAt(y, k)
                                   ELSE IF useSign THEN BitAt(y, y.width - 1) ELSE "0"
<1> DEFINE useSign == x.signed /\ y.signed
           p == Widened(x, y)[1]
           q == Widened(x, y)[2]
<1>1. /\ x.width \in Nat \ {0} /\ y.width \in Nat \ {0} /\ useSign \in BOOLEAN
      /\ x.width \in Nat /\ y.width \in Nat
  BY StoredParts
<1>2. Widened(x, y) = IF x.width < y.width THEN <<Extend(x, y.width, useSign), y>>
                      ELSE IF x.width > y.width THEN <<x, Extend(y, x.width, useSign)>>
                      ELSE <<x, y>>
  BY DEF Widened
<1> HIDE DEF useSign
<1>3. CASE x.width < y.width
  <2>1. p = Extend(x, y.width, useSign) /\ q = y /\ wide = y.width
    BY <1>1, <1>2, <1>3
  <2> HIDE DEF p, q
  <2>2. y.width > x.width /\ \A k \in 0 .. wide - 1 : k < y.width
    BY <1>1, <1>3, <2>1
  <2>3. /\ Stored(p) /\ p.width = wide
        /\ \A k \in 0 .. wide - 1 : BitAt(p, k) = IF k < x.width THEN BitAt(x, k)
                                                  ELSE IF useSign THEN BitAt(x, x.width - 1) ELSE "0"
    BY <1>1, <2>1, <2>2, ExtendRight
  <2>4. QED BY <2>1, <2>2, <2>3 DEF p, q, useSign
<1>4. CASE x.width > y.width
  <2>1. p = x /\ q = Extend(y, x.width, useSign) /\ wide = x.width
    BY <1>1, <1>2, <1>4
  <2> HIDE DEF p, q
  <2>2. \A k \in 0 .. wide - 1 : k < x.width
    BY <1>1, <1>4, <2>1
  <2>3. /\ Stored(q) /\ q.width = wide
        /\ \A k \in 0 .. wide - 1 : BitAt(q, k) = IF k < y.width THEN BitAt(y, k)
                                                  ELSE IF useSign THEN BitAt(y, y.width - 1) ELSE "0"
    BY <1>1, <1>4, <2>1, ExtendRight
  <2>4. QED BY <2>1, <2>2, <2>3 DEF p, q, useSign
<1>5. CASE x.width = y.width
  <2>1. p = x /\ q = y /\ wide = x.width
    BY <1>1, <1>2, <1>5
  <2> HIDE DEF p, q
  <2>2. \A k \in 0 .. wide - 1 : k < x.width /\ k < y.width
    BY <1>1, <1>5, <2>1
  <2>3. QED BY <1>5, <2>1, <2>2 DEF p, q, useSign
<1>6. QED BY <1>1, <1>3, <1>4, <1>5

\* The word that a bit is in.
LEMMA WordOf ==
  ASSUME NEW width \in Nat \ {0}, NEW k \in 0 .. width - 1
  PROVE  k \div WordBits \in 0 .. NumWords(width) - 1 /\ k % WordBits \in Bit
<1>1. NumWords(width) \in Nat /\ k \in 0 .. NumWords(width) * WordBits - 1 /\ k \in Int
  BY WithinWords, WidthWords DEF Positions
<1>2. QED BY <1>1, PlaceInside, PlaceOf

\* Clearing the unused bits of a number whose unknown bits are known to be there or not.
LEMMA Cleaned ==
  ASSUME NEW x, Shaped(x), x.unknown <=> \E k \in 0 .. x.width - 1 : Has(x.marks, k)
  PROVE  LET y == Cleared(x)
         IN  /\ Stored(y) /\ y.width = x.width /\ y.signed = x.signed
             /\ \A k \in 0 .. x.width - 1 : BitAt(y, k) = BitAt(x, k)
<1> DEFINE y == Cleared(x)
<1>1. /\ Shaped(y) /\ y.width = x.width /\ y.signed = x.signed
      /\ y.unknown = x.unknown
      /\ Clean(x.width, y.data) /\ Clean(x.width, y.marks)
      /\ \A k \in 0 .. x.width - 1 : /\ Has(y.data, k) <=> Has(x.data, k)
                                     /\ Has(y.marks, k) <=> Has(x.marks, k)
  BY ClearedIs
<1> HIDE DEF y
<1>2. y.unknown <=> \E k \in 0 .. y.width - 1 : Has(y.marks, k)
  BY <1>1
<1>3. Stored(y)
  BY <1>1, <1>2 DEF Stored
<1>4. QED BY <1>1, <1>3 DEF BitAt, y

\* And, bit by bit.
LEMMA AndRight ==
  ASSUME NEW x, Stored(x), NEW y, Stored(y), y.width = x.width
  PROVE  /\ Stored(And(x, y)) /\ And(x, y).width = x.width
         /\ \A k \in 0 .. x.width - 1 : BitAt(And(x, y), k) = AndBit(BitAt(x, k), BitAt(y, k))
<1> DEFINE width == x.width
           m == [i \in DOMAIN x.data |->
                   (x.marks[i] \cup y.marks[i]) \cap (x.marks[i] \cup x.data[i]) \cap (y.marks[i] \cup y.data[i])]
           d == [i \in DOMAIN x.data |-> (x.data[i] \cap y.data[i]) \ m[i]]
           u == x.unknown \/ y.unknown
           z == Number(width, x.signed, u, d, m)
<1>1. And(x, y) = Checked(Cleared(z))
  BY DEF And, WordByWord
<1>2. /\ width \in Nat \ {0} /\ x.signed \in BOOLEAN /\ u \in BOOLEAN
      /\ x.data \in Words(NumWords(width)) /\ x.marks \in Words(NumWords(width))
      /\ y.data \in Words(NumWords(width)) /\ y.marks \in Words(NumWords(width))
      /\ x.unknown <=> \E k \in 0 .. width - 1 : Has(x.marks, k)
      /\ y.unknown <=> \E k \in 0 .. width - 1 : Has(y.marks, k)
  BY StoredParts
<1>3. d \in Words(NumWords(width)) /\ m \in Words(NumWords(width))
  BY <1>2 DEF Words
<1>4. ASSUME NEW k \in 0 .. width - 1
      PROVE  /\ Has(m, k) <=> (Has(x.marks, k) \/ Has(y.marks, k)) /\ (Has(x.marks, k) \/ Has(x.data, k))
                             /\ (Has(y.marks, k) \/ Has(y.data, k))
             /\ Has(d, k) <=> (Has(x.data, k) /\ Has(y.data, k)) /\ ~Has(m, k)
  <2>1. k \div WordBits \in DOMAIN x.data /\ k % WordBits \in Bit
    BY <1>2, WordOf DEF Words
  <2>2. QED BY <2>1 DEF Has
<1>5. u <=> x.unknown \/ y.unknown
  OBVIOUS
<1> HIDE DEF d, m, u
<1>6. Shaped(z) /\ z.width = width /\ z.unknown = u /\ z.data = d /\ z.marks = m
  BY <1>2, <1>3, NumberIs
<1> HIDE DEF z
<1>7. \A k \in 0 .. width - 1 : BitAt(z, k) = AndBit(BitAt(x, k), BitAt(y, k))
  BY <1>4, <1>6 DEF BitAt, AndBit
<1>8. (\E k \in 0 .. width - 1 : Has(z.marks, k)) => z.unknown
  BY <1>2, <1>4, <1>5, <1>6
<1>9. QED BY <1>1, <1>6, <1>7, <1>8, Tidied

\* Or, bit by bit.
LEMMA OrRight ==
  ASSUME NEW x, Stored(x), NEW y, Stored(y), y.width = x.width
  PROVE  /\ Stored(Or(x, y)) /\ Or(x, y).width = x.width
         /\ \A k \in 0 .. x.width - 1 : BitAt(Or(x, y), k) = OrBit(BitAt(x, k), BitAt(y, k))
<1> DEFINE width == x.width
           m == [i \in DOMAIN x.data |->
                   (x.marks[i] \cap (y.marks[i] \cup (Bit \ y.data[i]))) \cup (y.marks[i] \ x.data[i])]
           d == [i \in DOMAIN x.data |-> (x.data[i] \cup y.data[i]) \ m[i]]
           u == x.unknown \/ y.unknown
           z == Number(width, x.signed, u, d, m)
<1>1. Or(x, y) = Checked(Cleared(z))
  BY DEF Or, WordByWord
<1>2. /\ width \in Nat \ {0} /\ x.signed \in BOOLEAN /\ u \in BOOLEAN
      /\ x.data \in Words(NumWords(width)) /\ x.marks \in Words(NumWords(width))
      /\ y.data \in Words(NumWords(width)) /\ y.marks \in Words(NumWords(width))
      /\ x.unknown <=> \E k \in 0 .. width - 1 : Has(x.marks, k)
      /\ y.unknown <=> \E k \in 0 .. width - 1 : Has(y.marks, k)
  BY StoredParts
<1>3. d \in Words(NumWords(width)) /\ m \in Words(NumWords(width))
  BY <1>2 DEF Words
<1>4. ASSUME NEW k \in 0 .. width - 1
      PROVE  /\ Has(m, k) <=> (Has(x.marks, k) /\ (Has(y.marks, k) \/ ~Has(y.data, k)))
                             \/ (Has(y.marks, k) /\ ~Has(x.data, k))
             /\ Has(d, k) <=> (Has(x.data, k) \/ Has(y.data, k)) /\ ~Has(m, k)
  <2>1. k \div WordBits \in DOMAIN x.data /\ k % WordBits \in Bit
    BY <1>2, WordOf DEF Words
  <2>2. QED BY <2>1 DEF Has
<1>5. u <=> x.unknown \/ y.unknown
  OBVIOUS
<1> HIDE DEF d, m, u
<1>6. Shaped(z) /\ z.width = width /\ z.unknown = u /\ z.data = d /\ z.marks = m
  BY <1>2, <1>3, NumberIs
<1> HIDE DEF z
<1>7. \A k \in 0 .. width - 1 : BitAt(z, k) = OrBit(BitAt(x, k), BitAt(y, k))
  BY <1>4, <1>6 DEF BitAt, OrBit
<1>8. (\E k \in 0 .. width - 1 : Has(z.marks, k)) => z.unknown
  BY <1>2, <1>4, <1>5, <1>6
<1>9. QED BY <1>1, <1>6, <1>7, <1>8, Tidied

\* Exclusive or, bit by bit.
LEMMA XorRight ==
  ASSUME NEW x, Stored(x), NEW y, Stored(y), y.width = x.width
  PROVE  /\ Stored(Xor(x, y)) /\ Xor(x, y).width = x.width
         /\ \A k \in 0 .. x.width - 1 : BitAt(Xor(x, y), k) = XorBit(BitAt(x, k), BitAt(y, k))
<1> DEFINE width == x.width
           m == [i \in DOMAIN x.data |->
                   x.marks[i] \cup y.marks[i]]
           d == [i \in DOMAIN x.data |-> (Differ(x.data[i], y.data[i])) \ m[i]]
           u == x.unknown \/ y.unknown
           z == Number(width, x.signed, u, d, m)
<1>1. Xor(x, y) = Cleared(z)
  BY DEF Xor, WordByWord, Differ
<1>2. /\ width \in Nat \ {0} /\ x.signed \in BOOLEAN /\ u \in BOOLEAN
      /\ x.data \in Words(NumWords(width)) /\ x.marks \in Words(NumWords(width))
      /\ y.data \in Words(NumWords(width)) /\ y.marks \in Words(NumWords(width))
      /\ x.unknown <=> \E k \in 0 .. width - 1 : Has(x.marks, k)
      /\ y.unknown <=> \E k \in 0 .. width - 1 : Has(y.marks, k)
  BY StoredParts
<1>3. d \in Words(NumWords(width)) /\ m \in Words(NumWords(width))
  BY <1>2 DEF Words, Differ
<1>4. ASSUME NEW k \in 0 .. width - 1
      PROVE  /\ Has(m, k) <=> Has(x.marks, k) \/ Has(y.marks, k)
             /\ Has(d, k) <=> (~(Has(x.data, k) <=> Has(y.data, k))) /\ ~Has(m, k)
  <2>1. k \div WordBits \in DOMAIN x.data /\ k % WordBits \in Bit
    BY <1>2, WordOf DEF Words
  <2>2. QED BY <2>1 DEF Has, Differ
<1>5. u <=> x.unknown \/ y.unknown
  OBVIOUS
<1> HIDE DEF d, m, u
<1>6. Shaped(z) /\ z.width = width /\ z.unknown = u /\ z.data = d /\ z.marks = m
  BY <1>2, <1>3, NumberIs
<1> HIDE DEF z
<1>7. \A k \in 0 .. width - 1 : BitAt(z, k) = XorBit(BitAt(x, k), BitAt(y, k))
  BY <1>4, <1>6 DEF BitAt, XorBit
<1>8. z.unknown <=> \E k \in 0 .. width - 1 : Has(z.marks, k)
  BY <1>2, <1>4, <1>5, <1>6
<1>9. QED BY <1>1, <1>6, <1>7, <1>8, Cleaned

\* A number that is made an unknown one.
LEMMA MadeUnknown ==
  ASSUME NEW x, Shaped(x), NEW y, y = [x EXCEPT !.unknown = TRUE]
  PROVE  /\ Shaped(y) /\ y.width = x.width /\ y.unknown
         /\ y.data = x.data /\ y.marks = x.marks
<1>1. /\ x = Number(x.width, x.signed, x.unknown, x.data, x.marks)
      /\ x.width \in Nat \ {0} /\ x.signed \in BOOLEAN
      /\ x.data \in Words(NumWords(x.width)) /\ x.marks \in Words(NumWords(x.width))
  BY DEF Shaped
<1>2. /\ y.width = x.width /\ y.signed = x.signed /\ y.unknown = TRUE
      /\ y.data = x.data /\ y.marks = x.marks
  BY <1>1 DEF Number
<1>3. y = Number(y.width, y.signed, y.unknown, y.data, y.marks)
  BY <1>1 DEF Number
<1>4. y.unknown \in BOOLEAN
  BY <1>2
<1>5. QED BY <1>1, <1>2, <1>3, <1>4 DEF Shaped

\* Either of two vectors: where they differ the bit is unknown, and if they do not the
\* second is what is returned.
LEMMA EitherRight ==
  ASSUME NEW x, Stored(x), NEW y, Stored(y), y.width = x.width
  PROVE  /\ Stored(Either(x, y)) /\ Either(x, y).width = x.width
         /\ \/ /\ \A k \in 0 .. x.width - 1 : BitAt(x, k) = BitAt(y, k)
               /\ \A k \in 0 .. x.width - 1 : BitAt(Either(x, y), k) = BitAt(x, k)
            \/ /\ \E k \in 0 .. x.width - 1 : BitAt(x, k) # BitAt(y, k)
               /\ \A k \in 0 .. x.width - 1 :
                    BitAt(Either(x, y), k) = EitherBit(BitAt(x, k), BitAt(y, k))
<1> DEFINE width == x.width
           m == [i \in DOMAIN x.data |->
                   x.marks[i] \cup y.marks[i] \cup Differ(x.data[i], y.data[i])]
           d == [i \in DOMAIN x.data |-> (x.data[i] \cap y.data[i]) \ m[i]]
           u == x.unknown \/ y.unknown
           s == x.signed /\ y.signed
           z == Number(width, s, u, d, m)
           c == Cleared(z)
           e == Either(x, y)
<1>1. /\ width \in Nat \ {0} /\ s \in BOOLEAN /\ u \in BOOLEAN
      /\ x.data \in Words(NumWords(width)) /\ x.marks \in Words(NumWords(width))
      /\ y.data \in Words(NumWords(width)) /\ y.marks \in Words(NumWords(width))
  BY StoredParts
<1>2. VectorOf(x) = VectorOf(y) <=> \A k \in 0 .. width - 1 : BitAt(x, k) = BitAt(y, k)
  <2>1. VectorOf(x) = [k \in 0 .. width - 1 |-> BitAt(x, k)]
    BY DEF VectorOf
  <2>2. VectorOf(y) = [k \in 0 .. width - 1 |-> BitAt(y, k)]
    BY DEF VectorOf
  <2>3. QED BY <2>1, <2>2
<1>3. CASE VectorOf(x) = VectorOf(y)
  <2>1. e = y
    BY <1>3 DEF Either
  <2>2. QED BY <1>2, <1>3, <2>1 DEF e
<1>4. CASE VectorOf(x) # VectorOf(y)
  <2>1. e = [c EXCEPT !.unknown = TRUE]
    BY <1>4 DEF Either, WordByWord
  <2>2. d \in Words(NumWords(width)) /\ m \in Words(NumWords(width))
    BY <1>1 DEF Words, Differ
  <2>3. ASSUME NEW k \in 0 .. width - 1
        PROVE  /\ Has(m, k) <=> \/ Has(x.marks, k) \/ Has(y.marks, k)
                                \/ ~(Has(x.data, k) <=> Has(y.data, k))
               /\ Has(d, k) <=> Has(x.data, k) /\ Has(y.data, k) /\ ~Has(m, k)
    <3>1. k \div WordBits \in DOMAIN x.data /\ k % WordBits \in Bit
      BY <1>1, WordOf DEF Words
    <3>2. QED BY <3>1 DEF Has, Differ
  <2> HIDE DEF d, m, u, s
  <2>4. Shaped(z) /\ z.width = width /\ z.data = d /\ z.marks = m
    BY <1>1, <2>2, NumberIs
  <2> HIDE DEF z
  <2>5. /\ Shaped(c) /\ c.width = width
        /\ Clean(width, c.data) /\ Clean(width, c.marks)
        /\ \A k \in 0 .. width - 1 : /\ Has(c.data, k) <=> Has(d, k)
                                     /\ Has(c.marks, k) <=> Has(m, k)
    BY <2>4, ClearedIs
  <2> HIDE DEF c, e
  <2>6. Shaped(e) /\ e.width = width /\ e.unknown /\ e.data = c.data /\ e.marks = c.marks
    BY <2>1, <2>5, MadeUnknown
  <2>7. PICK k \in 0 .. width - 1 : BitAt(x, k) # BitAt(y, k)
    BY <1>2, <1>4
  <2>8. Has(e.marks, k)
    BY <2>3, <2>5, <2>6, <2>7 DEF BitAt
  <2>9. Stored(e)
    BY <2>5, <2>6, <2>8 DEF Stored
  <2>10. \A j \in 0 .. width - 1 : BitAt(e, j) = EitherBit(BitAt(x, j), BitAt(y, j))
    BY <2>3, <2>5, <2>6 DEF BitAt, EitherBit
  <2>11. QED BY <2>6, <2>7, <2>9, <2>10 DEF e
<1>5. QED BY <1>3, <1>4

\* A vector is put in as a whole.
LEMMA PutIn ==
  ASSUME NEW n \in Nat, NEW dest \in Words(n), NEW width \in Nat \ {0},
         NEW words \in Words(NumWords(width)), NEW to \in Nat
  PROVE  /\ BitCpy(dest, to, words, width, 0) \in Words(n)
         /\ \A k \in 0 .. n * WordBits - 1 :
              Has(BitCpy(dest, to, words, width, 0), k) <=>
                IF k >= to /\ k < to + width THEN Has(words, k - to) ELSE Has(dest, k)
<1> DEFINE new == BitCpy(dest, to, words, width, 0)
<1>1. /\ NumWords(width) \in Nat /\ 0 + width <= NumWords(width) * WordBits
      /\ 0 \in Nat /\ width \in Int
  BY WidthWords
<1>2. /\ new \in Words(n)
      /\ \A k \in 0 .. n * WordBits - 1 :
           Has(new, k) <=> IF k >= to /\ k < to + width THEN Has(words, 0 + (k - to)) ELSE Has(dest, k)
  BY <1>1, BitCpyHas
<1>3. n * WordBits \in Nat
  BY BitsAssumption
<1> HIDE DEF new
<1>4. \A k \in 0 .. n * WordBits - 1 : 0 + (k - to) = k - to
  BY <1>3
<1>5. QED BY <1>2, <1>4 DEF new

\* Three word arrays that are put together, the last one lowest.
LEMMA Joined ==
  ASSUME NEW wx \in Nat \ {0}, NEW wy \in Nat \ {0}, NEW wz \in Nat \ {0},
         NEW vx \in Words(NumWords(wx)), NEW vy \in Words(NumWords(wy)),
         NEW vz \in Words(NumWords(wz)), NEW total \in Nat, total - wx = wz + wy
  PROVE  LET d == BitCpy(Blank(total), 0, vz, wz, 0)
             e == BitCpy(d, wz, vy, wy, 0)
             f == BitCpy(e, wz + wy, vx, wx, 0)
         IN  /\ f \in Words(NumWords(total))
             /\ \A k \in Positions(total) :
                  Has(f, k) <=> IF k < wz THEN Has(vz, k)
                                ELSE IF k < wz + wy THEN Has(vy, k - wz)
                                ELSE k < total /\ Has(vx, k - (wz + wy))
<1> DEFINE n == NumWords(total)
           d == BitCpy(Blank(total), 0, vz, wz, 0)
           e == BitCpy(d, wz, vy, wy, 0)
           f == BitCpy(e, wz + wy, vx, wx, 0)
<1>1. total \in Nat \ {0} /\ wz + wy \in Nat /\ 0 \in Nat /\ wz \in Nat
  OBVIOUS
<1>2. n \in Nat
  BY <1>1, WidthWords
<1>3. Blank(total) \in Words(n) /\ \A k \in Positions(total) : ~Has(Blank(total), k)
  BY <1>1, BlankHas
<1>4. Positions(total) = 0 .. n * WordBits - 1
  BY DEF Positions
<1> HIDE DEF n
<1>5. /\ d \in Words(n)
      /\ \A k \in Positions(total) :
           Has(d, k) <=> IF k >= 0 /\ k < 0 + wz THEN Has(vz, k - 0) ELSE Has(Blank(total), k)
  BY <1>1, <1>2, <1>3, <1>4, PutIn
<1> HIDE DEF d
<1>6. /\ e \in Words(n)
      /\ \A k \in Positions(total) :
           Has(e, k) <=> IF k >= wz /\ k < wz + wy THEN Has(vy, k - wz) ELSE Has(d, k)
  <2>1. d \in Words(n)
    BY <1>5
  <2>2. /\ BitCpy(d, wz, vy, wy, 0) \in Words(n)
        /\ \A k \in 0 .. n * WordBits - 1 :
             Has(BitCpy(d, wz, vy, wy, 0), k) <=>
               IF k >= wz /\ k < wz + wy THEN Has(vy, k - wz) ELSE Has(d, k)
    BY <1>1, <1>2, <2>1, PutIn
  <2>3. QED BY <1>4, <2>2
<1> HIDE DEF e
<1>7. /\ f \in Words(n)
      /\ \A k \in Positions(total) :
           Has(f, k) <=> IF k >= wz + wy /\ k < wz + wy + wx THEN Has(vx, k - (wz + wy))
                         ELSE Has(e, k)
  <2>1. e \in Words(n)
    BY <1>6
  <2>2. /\ BitCpy(e, wz + wy, vx, wx, 0) \in Words(n)
        /\ \A k \in 0 .. n * WordBits - 1 :
             Has(BitCpy(e, wz + wy, vx, wx, 0), k) <=>
               IF k >= wz + wy /\ k < wz + wy + wx THEN Has(vx, k - (wz + wy)) ELSE Has(e, k)
    BY <1>1, <1>2, <2>1, PutIn
  <2>3. QED BY <1>4, <2>2
<1> HIDE DEF f
<1>8. ASSUME NEW k \in Positions(total)
      PROVE  Has(f, k) <=> IF k < wz THEN Has(vz, k)
                           ELSE IF k < wz + wy THEN Has(vy, k - wz)
                           ELSE k < total /\ Has(vx, k - (wz + wy))
  <2>1. k \in Nat
    BY <1>1, WithinWords
  <2>2. k - 0 = k /\ k >= 0
    BY <2>1
  <2>3. CASE k < wz
    <3>1. k < 0 + wz /\ ~(k >= wz) /\ ~(k >= wz + wy)
      BY <1>1, <2>1, <2>3
    <3>2. QED BY <1>5, <1>6, <1>7, <2>2, <2>3, <3>1
  <2>4. CASE k >= wz /\ k < wz + wy
    <3>1. ~(k < wz) /\ ~(k >= wz + wy)
      BY <1>1, <2>1, <2>4
    <3>2. QED BY <1>6, <1>7, <2>4, <3>1
  <2>5. CASE k >= wz + wy /\ k < total
    <3>1. ~(k < wz) /\ ~(k < wz + wy) /\ k < wz + wy + wx
      BY <1>1, <2>1, <2>5
    <3>2. QED BY <1>7, <2>5, <3>1
  <2>6. CASE k >= total
    <3>1. ~(k < wz) /\ ~(k < wz + wy) /\ ~(k < wz + wy + wx) /\ ~(k < 0 + wz) /\ ~(k < total)
      BY <1>1, <2>1, <2>6
    <3>2. QED BY <1>3, <1>5, <1>6, <1>7, <3>1
  <2>7. QED BY <1>1, <2>1, <2>3, <2>4, <2>5, <2>6
<1>9. QED BY <1>7, <1>8 DEF n, d, e, f

\* The bits of three vectors one after the other, the last one lowest.
LEMMA ConcatRight ==
  ASSUME NEW x, Stored(x), NEW y, Stored(y), NEW z, Stored(z)
  PROVE  LET c == Concat(<<x, y, z>>)
         IN  /\ Stored(c) /\ c.width = z.width + y.width + x.width
             /\ \A k \in 0 .. c.width - 1 :
                  BitAt(c, k) = IF k < z.width THEN BitAt(z, k)
                                ELSE IF k < z.width + y.width THEN BitAt(y, k - z.width)
                                ELSE BitAt(x, k - (z.width + y.width))
<1> DEFINE operands == <<x, y, z>>
           from(n) == operands[3 + 1 - n]
           Sums(g) == g = [n \in 0 .. 3 |-> IF n = 0 THEN 0 ELSE g[n - 1] + from(n).width]
           below == CHOOSE g : Sums(g)
           Datas(g) == g = [n \in 0 .. 3 |->
                              IF n = 0 THEN Blank(below[3])
                              ELSE BitCpy(g[n - 1], below[n - 1], from(n).data, from(n).width, 0)]
           data == CHOOSE g : Datas(g)
           Marks(g) == g = [n \in 0 .. 3 |->
                              IF n = 0 THEN Blank(below[3])
                              ELSE BitCpy(g[n - 1], below[n - 1], from(n).marks, from(n).width, 0)]
           marks == CHOOSE g : Marks(g)
           u == \E i \in DOMAIN operands : operands[i].unknown
           c == Concat(operands)
<1>1. c = Number(below[3], FALSE, u, data[3], marks[3])
  BY DEF Concat
<1>2. from(1) = z /\ from(2) = y /\ from(3) = x
  OBVIOUS
<1>3. /\ x.width \in Nat \ {0} /\ y.width \in Nat \ {0} /\ z.width \in Nat \ {0}
      /\ x.data \in Words(NumWords(x.width)) /\ x.marks \in Words(NumWords(x.width))
      /\ y.data \in Words(NumWords(y.width)) /\ y.marks \in Words(NumWords(y.width))
      /\ z.data \in Words(NumWords(z.width)) /\ z.marks \in Words(NumWords(z.width))
      /\ x.unknown <=> \E k \in 0 .. x.width - 1 : Has(x.marks, k)
      /\ y.unknown <=> \E k \in 0 .. y.width - 1 : Has(y.marks, k)
      /\ z.unknown <=> \E k \in 0 .. z.width - 1 : Has(z.marks, k)
  BY StoredParts
<1>4. u \in BOOLEAN /\ (u <=> x.unknown \/ y.unknown \/ z.unknown)
  <2>1. DOMAIN operands = {1, 2, 3}
    OBVIOUS
  <2>2. operands[1] = x /\ operands[2] = y /\ operands[3] = z
    OBVIOUS
  <2> HIDE DEF operands
  <2>3. QED BY <2>1, <2>2
<1> HIDE DEF operands, from, u
<1> DEFINE total == z.width + y.width + x.width
\* What the loops leave behind, step by step.
<1>5. below[0] = 0 /\ below[1] = z.width /\ below[2] = z.width + y.width /\ below[3] = total
  <2> DEFINE g == [n \in 0 .. 3 |-> IF n = 0 THEN 0 ELSE IF n = 1 THEN z.width
                                    ELSE IF n = 2 THEN z.width + y.width ELSE total]
  <2>1. Sums(g)
    <3>1. \A n \in 0 .. 3 : g[n] = IF n = 0 THEN 0 ELSE g[n - 1] + from(n).width
      <4>1. g[0] = 0 /\ g[1] = z.width /\ g[2] = z.width + y.width /\ g[3] = total
        OBVIOUS
      <4>2. \A n \in 0 .. 3 : n = 0 \/ (n = 1 /\ n - 1 = 0) \/ (n = 2 /\ n - 1 = 1) \/ (n = 3 /\ n - 1 = 2)
        OBVIOUS
      <4> HIDE DEF g
      <4>3. QED BY <1>2, <1>3, <4>1, <4>2
    <3>2. QED BY <3>1
  <2> HIDE DEF g
  <2>2. Sums(below)
    BY <2>1, Zenon
  <2> HIDE DEF below
  <2>3. \A n \in 0 .. 3 : below[n] = IF n = 0 THEN 0 ELSE below[n - 1] + from(n).width
    BY <2>2
  <2>4. below[0] = 0 /\ below[1] = below[0] + from(1).width
        /\ below[2] = below[1] + from(2).width /\ below[3] = below[2] + from(3).width
    BY <2>3
  <2>5. QED BY <1>2, <1>3, <2>4
<1> HIDE DEF below
<1>6. /\ data[3] \in Words(NumWords(total))
      /\ \A k \in Positions(total) :
           Has(data[3], k) <=> IF k < z.width THEN Has(z.data, k)
                             ELSE IF k < z.width + y.width THEN Has(y.data, k - z.width)
                             ELSE k < total /\ Has(x.data, k - (z.width + y.width))
  <2> DEFINE d == BitCpy(Blank(total), 0, z.data, z.width, 0)
             e == BitCpy(d, z.width, y.data, y.width, 0)
             f == BitCpy(e, z.width + y.width, x.data, x.width, 0)
             g == [n \in 0 .. 3 |-> IF n = 0 THEN Blank(total) ELSE IF n = 1 THEN d
                                    ELSE IF n = 2 THEN e ELSE f]
  <2>1. Datas(g)
    <3>1. g[0] = Blank(total) /\ g[1] = d /\ g[2] = e /\ g[3] = f
      OBVIOUS
    <3>2. \A n \in 0 .. 3 : n = 0 \/ (n = 1 /\ n - 1 = 0) \/ (n = 2 /\ n - 1 = 1) \/ (n = 3 /\ n - 1 = 2)
      OBVIOUS
    <3>3. g = [n \in 0 .. 3 |-> g[n]]
      OBVIOUS
    <3>4. \A n \in 0 .. 3 :
            g[n] = IF n = 0 THEN Blank(below[3])
                   ELSE BitCpy(g[n - 1], below[n - 1], from(n).data, from(n).width, 0)
      <4>1. d = BitCpy(Blank(total), below[0], from(1).data, from(1).width, 0)
        BY <1>2, <1>5
      <4>2. e = BitCpy(d, below[1], from(2).data, from(2).width, 0)
        BY <1>2, <1>5
      <4>3. f = BitCpy(e, below[2], from(3).data, from(3).width, 0)
        BY <1>2, <1>5
      <4> HIDE DEF d, e, f, g, total
      <4>4. QED BY <1>5, <3>1, <3>2, <4>1, <4>2, <4>3
    <3> HIDE DEF g
    <3>5. QED BY <3>3, <3>4
  <2> HIDE DEF g
  <2>2. Datas(data)
    BY <2>1, Zenon
  <2> HIDE DEF data
  <2>3. \A n \in 0 .. 3 :
          data[n] = IF n = 0 THEN Blank(below[3])
                    ELSE BitCpy(data[n - 1], below[n - 1], from(n).data, from(n).width, 0)
    BY <2>2
  <2>4. data[0] = Blank(total)
    BY <1>5, <2>3
  <2>5. /\ data[1] = BitCpy(data[0], below[0], from(1).data, from(1).width, 0)
        /\ data[2] = BitCpy(data[1], below[1], from(2).data, from(2).width, 0)
        /\ data[3] = BitCpy(data[2], below[2], from(3).data, from(3).width, 0)
    BY <2>3
  <2>6. data[1] = d
    BY <1>2, <1>5, <2>4, <2>5
  <2>7. data[2] = BitCpy(data[1], z.width, y.data, y.width, 0)
    BY <1>2, <1>5, <2>5
  <2>8. data[3] = BitCpy(data[2], z.width + y.width, x.data, x.width, 0)
    BY <1>2, <1>5, <2>5
  <2>9. data[3] = f
    BY <2>6, <2>7, <2>8
  <2>10. total \in Nat /\ total - x.width = z.width + y.width
    BY <1>3
  <2> HIDE DEF total
  <2>11. /\ f \in Words(NumWords(total))
         /\ \A k \in Positions(total) :
              Has(f, k) <=> IF k < z.width THEN Has(z.data, k)
                            ELSE IF k < z.width + y.width THEN Has(y.data, k - z.width)
                            ELSE k < total /\ Has(x.data, k - (z.width + y.width))
    BY <1>3, <2>10, Joined
  <2> HIDE DEF f
  <2>12. QED BY <2>9, <2>11
<1>7. /\ marks[3] \in Words(NumWords(total))
      /\ \A k \in Positions(total) :
           Has(marks[3], k) <=> IF k < z.width THEN Has(z.marks, k)
                             ELSE IF k < z.width + y.width THEN Has(y.marks, k - z.width)
                             ELSE k < total /\ Has(x.marks, k - (z.width + y.width))
  <2> DEFINE d == BitCpy(Blank(total), 0, z.marks, z.width, 0)
             e == BitCpy(d, z.width, y.marks, y.width, 0)
             f == BitCpy(e, z.width + y.width, x.marks, x.width, 0)
             g == [n \in 0 .. 3 |-> IF n = 0 THEN Blank(total) ELSE IF n = 1 THEN d
                                    ELSE IF n = 2 THEN e ELSE f]
  <2>1. Marks(g)
    <3>1. g[0] = Blank(total) /\ g[1] = d /\ g[2] = e /\ g[3] = f
      OBVIOUS
    <3>2. \A n \in 0 .. 3 : n = 0 \/ (n = 1 /\ n - 1 = 0) \/ (n = 2 /\ n - 1 = 1) \/ (n = 3 /\ n - 1 = 2)
      OBVIOUS
    <3>3. g = [n \in 0 .. 3 |-> g[n]]
      OBVIOUS
    <3>4. \A n \in 0 .. 3 :
            g[n] = IF n = 0 THEN Blank(below[3])
                   ELSE BitCpy(g[n - 1], below[n - 1], from(n).marks, from(n).width, 0)
      <4>1. d = BitCpy(Blank(total), below[0], from(1).marks, from(1).width, 0)
        BY <1>2, <1>5
      <4>2. e = BitCpy(d, below[1], from(2).marks, from(2).width, 0)
        BY <1>2, <1>5
      <4>3. f = BitCpy(e, below[2], from(3).marks, from(3).width, 0)
        BY <1>2, <1>5
      <4> HIDE DEF d, e, f, g, total
      <4>4. QED BY <1>5, <3>1, <3>2, <4>1, <4>2, <4>3
    <3> HIDE DEF g
    <3>5. QED BY <3>3, <3>4
  <2> HIDE DEF g
  <2>2. Marks(marks)
    BY <2>1, Zenon
  <2> HIDE DEF marks
  <2>3. \A n \in 0 .. 3 :
          marks[n] = IF n = 0 THEN Blank(below[3])
                    ELSE BitCpy(marks[n - 1], below[n - 1], from(n).marks, from(n).width, 0)
    BY <2>2
  <2>4. marks[0] = Blank(total)
    BY <1>5, <2>3
  <2>5. /\ marks[1] = BitCpy(marks[0], below[0], from(1).marks, from(1).width, 0)
        /\ marks[2] = BitCpy(marks[1], below[1], from(2).marks, from(2).width, 0)
        /\ marks[3] = BitCpy(marks[2], below[2], from(3).marks, from(3).width, 0)
    BY <2>3
  <2>6. marks[1] = d
    BY <1>2, <1>5, <2>4, <2>5
  <2>7. marks[2] = BitCpy(marks[1], z.width, y.marks, y.width, 0)
    BY <1>2, <1>5, <2>5
  <2>8. marks[3] = BitCpy(marks[2], z.width + y.width, x.marks, x.width, 0)
    BY <1>2, <1>5, <2>5
  <2>9. marks[3] = f
    BY <2>6, <2>7, <2>8
  <2>10. total \in Nat /\ total - x.width = z.width + y.width
    BY <1>3
  <2> HIDE DEF total
  <2>11. /\ f \in Words(NumWords(total))
         /\ \A k \in Positions(total) :
              Has(f, k) <=> IF k < z.width THEN Has(z.marks, k)
                            ELSE IF k < z.width + y.width THEN Has(y.marks, k - z.width)
                            ELSE k < total /\ Has(x.marks, k - (z.width + y.width))
    BY <1>3, <2>10, Joined
  <2> HIDE DEF f
  <2>12. QED BY <2>9, <2>11
<1> HIDE DEF data, marks
<1>8. total \in Nat \ {0}
  BY <1>3
<1>9. /\ Shaped(c) /\ c.width = total /\ c.unknown = u /\ c.data = data[3] /\ c.marks = marks[3]
  <2>1. \A s \in BOOLEAN : c = Number(total, s, u, data[3], marks[3]) =>
          /\ Shaped(c) /\ c.width = total /\ c.unknown = u
          /\ c.data = data[3] /\ c.marks = marks[3]
    BY <1>4, <1>6, <1>7, <1>8, NumberIs
  <2>2. c = Number(total, FALSE, u, data[3], marks[3])
    BY <1>1, <1>5
  <2>3. QED BY <2>1, <2>2
<1> HIDE DEF c
<1>10. \A k \in 0 .. total - 1 : /\ k \in Positions(total) /\ k < total
                                 /\ k < z.width => k \in 0 .. z.width - 1
                                 /\ ~(k < z.width) /\ k < z.width + y.width
                                      => k - z.width \in 0 .. y.width - 1
                                 /\ ~(k < z.width + y.width)
                                      => k - (z.width + y.width) \in 0 .. x.width - 1
  BY <1>3, <1>8, WithinWords
<1>11. /\ \A k \in 0 .. z.width - 1 : k \in 0 .. total - 1 /\ k < z.width
       /\ \A k \in 0 .. y.width - 1 :
            /\ k + z.width \in 0 .. total - 1 /\ ~(k + z.width < z.width)
            /\ k + z.width < z.width + y.width /\ (k + z.width) - z.width = k
       /\ \A k \in 0 .. x.width - 1 :
            /\ k + (z.width + y.width) \in 0 .. total - 1
            /\ ~(k + (z.width + y.width) < z.width) /\ ~(k + (z.width + y.width) < z.width + y.width)
            /\ (k + (z.width + y.width)) - (z.width + y.width) = k
  BY <1>3
<1>12. \A k \in Positions(total) :
         k >= total => ~(k < z.width) /\ ~(k < z.width + y.width) /\ ~(k < total)
  BY <1>3, <1>8, WithinWords
<1> HIDE DEF total
<1>13. Clean(total, c.data) /\ Clean(total, c.marks)
  BY <1>6, <1>7, <1>9, <1>12 DEF Clean
<1>14. c.unknown <=> \E k \in 0 .. total - 1 : Has(c.marks, k)
  <2>1. ASSUME c.unknown PROVE \E k \in 0 .. total - 1 : Has(c.marks, k)
    <3>1. CASE x.unknown
      <4>1. PICK k \in 0 .. x.width - 1 : Has(x.marks, k)
        BY <1>3, <3>1
      <4>2. QED BY <1>7, <1>9, <1>10, <1>11, <4>1
    <3>2. CASE y.unknown
      <4>1. PICK k \in 0 .. y.width - 1 : Has(y.marks, k)
        BY <1>3, <3>2
      <4>2. QED BY <1>7, <1>9, <1>10, <1>11, <4>1
    <3>3. CASE z.unknown
      <4>1. PICK k \in 0 .. z.width - 1 : Has(z.marks, k)
        BY <1>3, <3>3
      <4>2. QED BY <1>7, <1>9, <1>10, <1>11, <4>1
    <3>4. QED BY <1>4, <1>9, <2>1, <3>1, <3>2, <3>3
  <2>2. ASSUME NEW k \in 0 .. total - 1, Has(c.marks, k) PROVE c.unknown
    <3>1. x.unknown \/ y.unknown \/ z.unknown
      BY <1>3, <1>7, <1>9, <1>10, <2>2
    <3>2. QED BY <1>4, <1>9, <3>1
  <2>3. QED BY <2>1, <2>2, <1>4, <1>9
<1>15. Stored(c)
  BY <1>9, <1>13, <1>14 DEF Stored
<1>16. \A k \in 0 .. total - 1 :
         BitAt(c, k) = IF k < z.width THEN BitAt(z, k)
                       ELSE IF k < z.width + y.width THEN BitAt(y, k - z.width)
                       ELSE BitAt(x, k - (z.width + y.width))
  BY <1>6, <1>7, <1>9, <1>10 DEF BitAt
<1>17. QED BY <1>9, <1>15, <1>16 DEF c, operands, total

-----------------------------------------------------------------------------
(* What the language defines *)

\* Calling op returns x.
Returns(op, x) == left' = left /\ operation' = op /\ outcome' = x

\* A shift to the left returns what it should.
LEMMA ShlExpected ==
  ASSUME Stored(left), NEW n \in Nat, Returns([name |-> "shl", amount |-> n], Shl(left, n))
  PROVE  Stored(outcome') /\ BitsRight'
<1> DEFINE width == left.width
<1>1. left' = left /\ operation'.name = "shl" /\ operation'.amount = n /\ outcome' = Shl(left, n)
  BY DEF Returns
<1>2. /\ Stored(outcome') /\ outcome'.width = width /\ width \in Nat \ {0}
      /\ \A k \in 0 .. width - 1 :
           BitAt(outcome', k) = IF k >= n THEN BitAt(left, k - n) ELSE "0"
  BY <1>1, ShlRight, StoredParts
<1>3. VectorOf(outcome') = [k \in 0 .. width - 1 |-> BitAt(outcome', k)]
  BY <1>2 DEF VectorOf
<1>4. Expected' = [k \in 0 .. width - 1 |->
                     IF k - n \in 0 .. width - 1 THEN BitAt(left, k - n) ELSE "0"]
  BY <1>1 DEF Expected, VectorOf
<1>5. \A k \in 0 .. width - 1 : k >= n <=> k - n \in 0 .. width - 1
  BY <1>2
<1>6. VectorOf(outcome') = Expected'
  BY <1>2, <1>3, <1>4, <1>5
<1>7. Canonical(outcome')
  BY <1>2, StoredCanonical
<1>8. QED BY <1>2, <1>6, <1>7 DEF BitsRight

\* So does one to the right.
LEMMA LshrExpected ==
  ASSUME Stored(left), NEW n \in Nat, Returns([name |-> "lshr", amount |-> n], Lshr(left, n))
  PROVE  Stored(outcome') /\ BitsRight'
<1> DEFINE width == left.width
<1>1. left' = left /\ operation'.name = "lshr" /\ operation'.amount = n /\ outcome' = Lshr(left, n)
  BY DEF Returns
<1>2. /\ Stored(outcome') /\ outcome'.width = width /\ width \in Nat \ {0}
      /\ \A k \in 0 .. width - 1 :
           BitAt(outcome', k) = IF k + n < width THEN BitAt(left, k + n) ELSE "0"
  BY <1>1, LshrRight, StoredParts
<1>3. VectorOf(outcome') = [k \in 0 .. width - 1 |-> BitAt(outcome', k)]
  BY <1>2 DEF VectorOf
<1>4. Expected' = [k \in 0 .. width - 1 |->
                     IF k + n \in 0 .. width - 1 THEN BitAt(left, k + n) ELSE "0"]
  BY <1>1 DEF Expected, VectorOf
<1>5. \A k \in 0 .. width - 1 : k + n < width <=> k + n \in 0 .. width - 1
  BY <1>2
<1>6. VectorOf(outcome') = Expected'
  BY <1>2, <1>3, <1>4, <1>5
<1>7. Canonical(outcome')
  BY <1>2, StoredCanonical
<1>8. QED BY <1>2, <1>6, <1>7 DEF BitsRight

\* And one that keeps the sign.
LEMMA AshrExpected ==
  ASSUME Stored(left), NEW n \in Nat, Returns([name |-> "ashr", amount |-> n], Ashr(left, n))
  PROVE  Stored(outcome') /\ BitsRight'
<1> DEFINE width == left.width
<1>1. left' = left /\ operation'.name = "ashr" /\ operation'.amount = n /\ outcome' = Ashr(left, n)
  BY DEF Returns
<1>2. /\ Stored(outcome') /\ outcome'.width = width /\ width \in Nat \ {0}
      /\ \A k \in 0 .. width - 1 :
           BitAt(outcome', k) = IF k + n < width THEN BitAt(left, k + n)
                                  ELSE IF left.signed THEN BitAt(left, width - 1) ELSE "0"
  BY <1>1, AshrRight, StoredParts
<1>3. VectorOf(outcome') = [k \in 0 .. width - 1 |-> BitAt(outcome', k)]
  BY <1>2 DEF VectorOf
<1>9. VectorOf(left)[width - 1] = BitAt(left, width - 1)
  BY <1>2 DEF VectorOf
<1>4. Expected' = [k \in 0 .. width - 1 |->
                     IF k + n \in 0 .. width - 1 THEN BitAt(left, k + n)
                     ELSE IF left.signed THEN BitAt(left, width - 1) ELSE "0"]
  <2>1. DOMAIN VectorOf(left) = 0 .. width - 1 /\ \A k \in 0 .. width - 1 : VectorOf(left)[k] = BitAt(left, k)
    BY DEF VectorOf
  <2>2. Expected' = [k \in 0 .. width - 1 |->
                      IF k + n \in DOMAIN VectorOf(left) THEN VectorOf(left)[k + n]
                      ELSE IF left.signed THEN VectorOf(left)[width - 1] ELSE "0"]
    BY <1>1, <2>1 DEF Expected
  <2>3. QED BY <1>9, <2>1, <2>2
<1>5. \A k \in 0 .. width - 1 : k + n < width <=> k + n \in 0 .. width - 1
  BY <1>2
<1>6. VectorOf(outcome') = Expected'
  BY <1>2, <1>3, <1>4, <1>5
<1>7. Canonical(outcome')
  BY <1>2, StoredCanonical
<1>8. QED BY <1>2, <1>6, <1>7 DEF BitsRight

\* A selection.
LEMMA SliceExpected ==
  ASSUME Stored(left), NEW lsb \in Int, NEW msb \in Int, msb >= lsb,
         Returns([name |-> "slice", msb |-> msb, lsb |-> lsb], Slice(left, msb, lsb))
  PROVE  Stored(outcome') /\ BitsRight'
<1> DEFINE width == left.width
<1>1. left' = left /\ operation'.name = "slice" /\ operation'.msb = msb /\ operation'.lsb = lsb /\ outcome' = Slice(left, msb, lsb)
  BY DEF Returns
<1>2. /\ Stored(outcome') /\ outcome'.width = (msb - lsb + 1) /\ width \in Nat \ {0}
      /\ \A k \in 0 .. (msb - lsb + 1) - 1 :
           BitAt(outcome', k) = IF lsb + k \in 0 .. width - 1 THEN BitAt(left, lsb + k) ELSE "x"
  BY <1>1, SliceRight, StoredParts
<1>3. VectorOf(outcome') = [k \in 0 .. (msb - lsb + 1) - 1 |-> BitAt(outcome', k)]
  BY <1>2 DEF VectorOf
<1>4. Expected' = [k \in 0 .. (msb - lsb + 1) - 1 |->
                     IF lsb + k \in 0 .. width - 1 THEN BitAt(left, lsb + k) ELSE "x"]
  BY <1>1 DEF Expected, VectorOf
<1>5. (msb - lsb + 1) - 1 = msb - lsb
  OBVIOUS
<1>6. VectorOf(outcome') = Expected'
  BY <1>2, <1>3, <1>4, <1>5
<1>7. Canonical(outcome')
  BY <1>2, StoredCanonical
<1>8. QED BY <1>2, <1>6, <1>7 DEF BitsRight

\* Another width.
LEMMA ResizeExpected ==
  ASSUME Stored(left), NEW bits \in Nat \ {0},
         Returns([name |-> "resize", bits |-> bits], Resize(left, bits))
  PROVE  Stored(outcome') /\ BitsRight'
<1> DEFINE width == left.width
<1>1. left' = left /\ operation'.name = "resize" /\ operation'.bits = bits /\ outcome' = Resize(left, bits)
  BY DEF Returns
<1>2. /\ Stored(outcome') /\ outcome'.width = bits /\ width \in Nat \ {0}
      /\ \A k \in 0 .. bits - 1 :
           BitAt(outcome', k) = IF k < width THEN BitAt(left, k)
                                  ELSE IF left.signed THEN BitAt(left, width - 1) ELSE "0"
  BY <1>1, ResizeRight, StoredParts
<1>3. VectorOf(outcome') = [k \in 0 .. bits - 1 |-> BitAt(outcome', k)]
  BY <1>2 DEF VectorOf
<1>9. VectorOf(left)[width - 1] = BitAt(left, width - 1)
  BY <1>2 DEF VectorOf
<1>4. Expected' = [k \in 0 .. bits - 1 |->
                     IF k \in 0 .. width - 1 THEN BitAt(left, k)
                     ELSE IF left.signed THEN BitAt(left, width - 1) ELSE "0"]
  <2>1. DOMAIN VectorOf(left) = 0 .. width - 1 /\ \A k \in 0 .. width - 1 : VectorOf(left)[k] = BitAt(left, k)
    BY DEF VectorOf
  <2>2. Expected' = [k \in 0 .. bits - 1 |->
                      IF k \in DOMAIN VectorOf(left) THEN VectorOf(left)[k]
                      ELSE IF left.signed THEN VectorOf(left)[width - 1] ELSE "0"]
    BY <1>1, <2>1 DEF Expected
  <2>3. QED BY <1>9, <2>1, <2>2
<1>5. \A k \in 0 .. bits - 1 : k < width <=> k \in 0 .. width - 1
  BY <1>2
<1>6. VectorOf(outcome') = Expected'
  BY <1>2, <1>3, <1>4, <1>5
<1>7. Canonical(outcome')
  BY <1>2, StoredCanonical
<1>8. QED BY <1>2, <1>6, <1>7 DEF BitsRight

\* The other way round, where the code does not lose it.
LEMMA ReverseExpected ==
  ASSUME Stored(left), Returns([name |-> "reverse"], Reversed(left))
  PROVE  Stored(outcome') /\ BitsRight'
<1> DEFINE width == left.width
<1>1. left' = left /\ operation'.name = "reverse" /\ outcome' = Reversed(left)
  BY DEF Returns
<1>2. /\ Stored(outcome') /\ outcome'.width = width /\ width \in Nat \ {0}
      /\ \/ left.unknown /\ Unused(width) >= width
         \/ \A k \in 0 .. width - 1 : BitAt(outcome', k) = BitAt(left, width - 1 - k)
  BY <1>1, ReversedRight, StoredParts
<1>3. VectorOf(outcome') = [k \in 0 .. width - 1 |-> BitAt(outcome', k)]
  BY <1>2 DEF VectorOf
<1>4. Expected' = [k \in 0 .. width - 1 |-> VectorOf(left)[width - 1 - k]]
  BY <1>1 DEF Expected, VectorOf
<1>5. \A k \in 0 .. width - 1 : VectorOf(left)[width - 1 - k] = BitAt(left, width - 1 - k)
  BY <1>2 DEF VectorOf
<1>6. ReverseLoses' \/ VectorOf(outcome') = Expected'
  <2>1. CASE left.unknown /\ Unused(width) >= width
    BY <1>1, <2>1 DEF ReverseLoses
  <2>2. CASE \A k \in 0 .. width - 1 : BitAt(outcome', k) = BitAt(left, width - 1 - k)
    BY <1>3, <1>4, <1>5, <2>2
  <2>3. QED BY <1>2, <2>1, <2>2
<1>7. Canonical(outcome')
  BY <1>2, StoredCanonical
<1>8. QED BY <1>2, <1>6, <1>7 DEF BitsRight

-----------------------------------------------------------------------------
(* What the language defines for two vectors *)

\* A vector at the width of two.
Padded(x, wide, useSign) ==
  [k \in 0 .. wide - 1 |->
     IF k < x.width THEN BitAt(x, k) ELSE IF useSign THEN BitAt(x, x.width - 1) ELSE "0"]
Wider(x, y) == IF x.width > y.width THEN x.width ELSE y.width

\* The two operands that are combined have the padded bits.
LEMMA OperandsAre ==
  ASSUME NEW x, Stored(x), NEW y, Stored(y)
  PROVE  LET p == Widened(x, y)[1]
             q == Widened(x, y)[2]
             wide == Wider(x, y)
             useSign == x.signed /\ y.signed
         IN  /\ Stored(p) /\ p.width = wide /\ Stored(q) /\ q.width = wide /\ wide \in Nat \ {0}
             /\ \A k \in 0 .. wide - 1 : /\ BitAt(p, k) = Padded(x, wide, useSign)[k]
                                         /\ BitAt(q, k) = Padded(y, wide, useSign)[k]
<1>1. Wider(x, y) = IF x.width > y.width THEN x.width ELSE y.width
  BY DEF Wider
<1>2. Wider(x, y) \in Nat \ {0}
  BY <1>1, StoredParts
<1>3. QED BY <1>1, <1>2, WidenedRight DEF Padded

\* And.
LEMMA AndExpected ==
  ASSUME Stored(left), NEW right, Stored(right),
         Returns([name |-> "and", right |-> right], And(Widened(left, right)[1], Widened(left, right)[2]))
  PROVE  Stored(outcome') /\ BitsRight'
<1> DEFINE wide == Wider(left, right)
           useSign == left.signed /\ right.signed
           p == Widened(left, right)[1]
           q == Widened(left, right)[2]
           v == Padded(left, wide, useSign)
           w == Padded(right, wide, useSign)
<1>1. left' = left /\ operation'.name = "and" /\ operation'.right = right /\ outcome' = And(p, q)
  BY DEF Returns
<1>2. /\ Stored(p) /\ p.width = wide /\ Stored(q) /\ q.width = wide /\ wide \in Nat \ {0}
      /\ \A k \in 0 .. wide - 1 : BitAt(p, k) = v[k] /\ BitAt(q, k) = w[k]
  BY OperandsAre
<1>3. Expected' = [k \in 0 .. wide - 1 |-> AndBit(v[k], w[k])]
  BY <1>1 DEF Expected, Padded, Wider
<1> HIDE DEF p, q, v, w, wide
<1>4. /\ Stored(outcome') /\ outcome'.width = wide
      /\ \A k \in 0 .. wide - 1 : BitAt(outcome', k) = AndBit(v[k], w[k])
  BY <1>1, <1>2, AndRight
<1>5. VectorOf(outcome') = [k \in 0 .. wide - 1 |-> BitAt(outcome', k)]
  BY <1>4 DEF VectorOf
<1>6. VectorOf(outcome') = Expected'
  BY <1>3, <1>4, <1>5
<1>7. Canonical(outcome')
  BY <1>4, StoredCanonical
<1>8. QED BY <1>4, <1>6, <1>7 DEF BitsRight

\* Or.
LEMMA OrExpected ==
  ASSUME Stored(left), NEW right, Stored(right),
         Returns([name |-> "or", right |-> right], Or(Widened(left, right)[1], Widened(left, right)[2]))
  PROVE  Stored(outcome') /\ BitsRight'
<1> DEFINE wide == Wider(left, right)
           useSign == left.signed /\ right.signed
           p == Widened(left, right)[1]
           q == Widened(left, right)[2]
           v == Padded(left, wide, useSign)
           w == Padded(right, wide, useSign)
<1>1. left' = left /\ operation'.name = "or" /\ operation'.right = right /\ outcome' = Or(p, q)
  BY DEF Returns
<1>2. /\ Stored(p) /\ p.width = wide /\ Stored(q) /\ q.width = wide /\ wide \in Nat \ {0}
      /\ \A k \in 0 .. wide - 1 : BitAt(p, k) = v[k] /\ BitAt(q, k) = w[k]
  BY OperandsAre
<1>3. Expected' = [k \in 0 .. wide - 1 |-> OrBit(v[k], w[k])]
  BY <1>1 DEF Expected, Padded, Wider
<1> HIDE DEF p, q, v, w, wide
<1>4. /\ Stored(outcome') /\ outcome'.width = wide
      /\ \A k \in 0 .. wide - 1 : BitAt(outcome', k) = OrBit(v[k], w[k])
  BY <1>1, <1>2, OrRight
<1>5. VectorOf(outcome') = [k \in 0 .. wide - 1 |-> BitAt(outcome', k)]
  BY <1>4 DEF VectorOf
<1>6. VectorOf(outcome') = Expected'
  BY <1>3, <1>4, <1>5
<1>7. Canonical(outcome')
  BY <1>4, StoredCanonical
<1>8. QED BY <1>4, <1>6, <1>7 DEF BitsRight

\* Exclusive or.
LEMMA XorExpected ==
  ASSUME Stored(left), NEW right, Stored(right),
         Returns([name |-> "xor", right |-> right], Xor(Widened(left, right)[1], Widened(left, right)[2]))
  PROVE  Stored(outcome') /\ BitsRight'
<1> DEFINE wide == Wider(left, right)
           useSign == left.signed /\ right.signed
           p == Widened(left, right)[1]
           q == Widened(left, right)[2]
           v == Padded(left, wide, useSign)
           w == Padded(right, wide, useSign)
<1>1. left' = left /\ operation'.name = "xor" /\ operation'.right = right /\ outcome' = Xor(p, q)
  BY DEF Returns
<1>2. /\ Stored(p) /\ p.width = wide /\ Stored(q) /\ q.width = wide /\ wide \in Nat \ {0}
      /\ \A k \in 0 .. wide - 1 : BitAt(p, k) = v[k] /\ BitAt(q, k) = w[k]
  BY OperandsAre
<1>3. Expected' = [k \in 0 .. wide - 1 |-> XorBit(v[k], w[k])]
  BY <1>1 DEF Expected, Padded, Wider
<1> HIDE DEF p, q, v, w, wide
<1>4. /\ Stored(outcome') /\ outcome'.width = wide
      /\ \A k \in 0 .. wide - 1 : BitAt(outcome', k) = XorBit(v[k], w[k])
  BY <1>1, <1>2, XorRight
<1>5. VectorOf(outcome') = [k \in 0 .. wide - 1 |-> BitAt(outcome', k)]
  BY <1>4 DEF VectorOf
<1>6. VectorOf(outcome') = Expected'
  BY <1>3, <1>4, <1>5
<1>7. Canonical(outcome')
  BY <1>4, StoredCanonical
<1>8. QED BY <1>4, <1>6, <1>7 DEF BitsRight

\* Either of two.
LEMMA EitherExpected ==
  ASSUME Stored(left), NEW right, Stored(right),
         Returns([name |-> "either", right |-> right],
                 Either(Widened(left, right)[1], Widened(left, right)[2]))
  PROVE  Stored(outcome') /\ BitsRight'
<1> DEFINE wide == Wider(left, right)
           useSign == left.signed /\ right.signed
           p == Widened(left, right)[1]
           q == Widened(left, right)[2]
           v == Padded(left, wide, useSign)
           w == Padded(right, wide, useSign)
           same == [k \in 0 .. wide - 1 |-> IF v[k] = w[k] THEN v[k] ELSE "differs"]
<1>1. left' = left /\ operation'.name = "either" /\ operation'.right = right /\ outcome' = Either(p, q)
  BY DEF Returns
<1>2. /\ Stored(p) /\ p.width = wide /\ Stored(q) /\ q.width = wide /\ wide \in Nat \ {0}
      /\ \A k \in 0 .. wide - 1 : BitAt(p, k) = v[k] /\ BitAt(q, k) = w[k]
  BY OperandsAre
<1>3. Expected' = IF \E k \in DOMAIN same : same[k] = "differs"
                  THEN [k \in 0 .. wide - 1 |-> EitherBit(v[k], w[k])] ELSE same
  BY <1>1 DEF Expected, Padded, Wider
<1> HIDE DEF p, q, v, w, wide
<1>4. /\ Stored(outcome') /\ outcome'.width = wide
      /\ \/ /\ \A k \in 0 .. wide - 1 : v[k] = w[k]
            /\ \A k \in 0 .. wide - 1 : BitAt(outcome', k) = v[k]
         \/ /\ \E k \in 0 .. wide - 1 : v[k] # w[k]
            /\ \A k \in 0 .. wide - 1 : BitAt(outcome', k) = EitherBit(v[k], w[k])
  BY <1>1, <1>2, EitherRight
<1>5. VectorOf(outcome') = [k \in 0 .. wide - 1 |-> BitAt(outcome', k)]
  BY <1>4 DEF VectorOf
<1>6. \A k \in 0 .. wide - 1 : v[k] # "differs"
  BY <1>2 DEF BitAt
<1>7. VectorOf(outcome') = Expected'
  <2>1. CASE \A k \in 0 .. wide - 1 : v[k] = w[k]
    <3>1. ~\E k \in DOMAIN same : same[k] = "differs"
      BY <1>6, <2>1
    <3>2. same = [k \in 0 .. wide - 1 |-> v[k]]
      BY <2>1
    <3>3. \A k \in 0 .. wide - 1 : BitAt(outcome', k) = v[k]
      BY <1>4, <2>1
    <3>4. QED BY <1>3, <1>5, <3>1, <3>2, <3>3
  <2>2. CASE \E k \in 0 .. wide - 1 : v[k] # w[k]
    <3>1. \E k \in DOMAIN same : same[k] = "differs"
      BY <2>2
    <3>2. \A k \in 0 .. wide - 1 : BitAt(outcome', k) = EitherBit(v[k], w[k])
      BY <1>4, <2>2
    <3>3. QED BY <1>3, <1>5, <3>1, <3>2
  <2>3. QED BY <2>1, <2>2
<1>8. Canonical(outcome')
  BY <1>4, StoredCanonical
<1>9. QED BY <1>4, <1>7, <1>8 DEF BitsRight

\* One after the other.
LEMMA ConcatExpected ==
  ASSUME Stored(left), NEW right, Stored(right),
         Returns([name |-> "concat", right |-> right], Concat(<<left, right, left>>))
  PROVE  Stored(outcome') /\ BitsRight'
<1> DEFINE width == left.width
           total == 2 * width + right.width
<1>1. /\ left' = left /\ operation'.name = "concat" /\ operation'.right = right
      /\ outcome' = Concat(<<left, right, left>>)
  BY DEF Returns
<1>2. width \in Nat \ {0} /\ right.width \in Nat \ {0} /\ total = width + right.width + width
  BY StoredParts
<1>3. /\ Stored(outcome') /\ outcome'.width = total
      /\ \A k \in 0 .. total - 1 :
           BitAt(outcome', k) = IF k < width THEN BitAt(left, k)
                                ELSE IF k < width + right.width THEN BitAt(right, k - width)
                                ELSE BitAt(left, k - (width + right.width))
  BY <1>1, <1>2, ConcatRight
<1>4. VectorOf(outcome') = [k \in 0 .. total - 1 |-> BitAt(outcome', k)]
  BY <1>3 DEF VectorOf
<1>5. Expected' = [k \in 0 .. total - 1 |->
                     IF k < width THEN VectorOf(left)[k]
                     ELSE IF k < width + right.width THEN BitAt(right, k - width)
                     ELSE VectorOf(left)[k - width - right.width]]
  <2>1. total - 1 = 2 * width + (right.width - 1)
    BY <1>2
  <2> HIDE DEF total
  <2>2. QED BY <1>1, <2>1 DEF Expected
<1>6. ASSUME NEW k \in 0 .. total - 1
      PROVE  /\ k < width => VectorOf(left)[k] = BitAt(left, k)
             /\ ~(k < width + right.width)
                  => VectorOf(left)[k - width - right.width] = BitAt(left, k - (width + right.width))
  <2>1. k < width => k \in 0 .. width - 1
    BY <1>2
  <2>2. ~(k < width + right.width) => /\ k - width - right.width \in 0 .. width - 1
                                      /\ k - width - right.width = k - (width + right.width)
    BY <1>2
  <2>3. \A j \in 0 .. width - 1 : VectorOf(left)[j] = BitAt(left, j)
    BY DEF VectorOf
  <2>4. QED BY <2>1, <2>2, <2>3
<1>7. \A k \in 0 .. total - 1 : k < width => k < width + right.width
  BY <1>2
<1> HIDE DEF total
<1>8. VectorOf(outcome') = Expected'
  BY <1>3, <1>4, <1>5, <1>6, <1>7
<1>9. Canonical(outcome')
  BY <1>3, StoredCanonical
<1>10. QED BY <1>3, <1>8, <1>9 DEF BitsRight

-----------------------------------------------------------------------------
(* The invariant *)

\* Every number is stored in the one way that its bits have, and what an operation
\* returned is what the language defines.
BitsInv == Stored(left) /\ Stored(outcome) /\ BitsRight

\* At first there is nothing but zeros.
LEMMA BitsInvInit == BitsInit => BitsInv
<1> SUFFICES ASSUME BitsInit PROVE BitsInv
  OBVIOUS
<1>1. left = NoNumber /\ outcome = NoNumber /\ operation.name = "none"
  BY DEF BitsInit, NoOperation
<1>2. \A s \in BOOLEAN : Stored(Zero(1, s))
  BY ZeroIs
<1>3. Stored(NoNumber)
  BY <1>2 DEF NoNumber
<1>4. QED BY <1>1, <1>3 DEF BitsInv, BitsRight

\* What is made of a vector that is tried.
LEMMA TriedStored ==
  ASSUME NEW width \in BitWidths, NEW vector \in Vectors(width), NEW signed \in BOOLEAN
  PROVE  Stored(Make(vector, signed))
BY BitsAssumption, Made

\* Every step keeps the invariant.
LEMMA BitsInvNext == BitsInv /\ [BitsNext]_bitsVars => BitsInv'
<1> SUFFICES ASSUME BitsInv, [BitsNext]_bitsVars PROVE BitsInv'
  OBVIOUS
<1>1. Stored(left) /\ Stored(outcome) /\ BitsRight /\ left.width \in Nat \ {0}
  BY StoredParts DEF BitsInv
<1>2. ASSUME NEW op, NEW x, Call(op, x), Returns(op, x) => Stored(outcome') /\ BitsRight'
      PROVE  BitsInv'
  <2>1. left' = left /\ Returns(op, x)
    BY <1>2 DEF Call, Returns
  <2>2. QED BY <1>1, <1>2, <2>1 DEF BitsInv
<1>3. ASSUME NEW width \in BitWidths, NEW signed \in BOOLEAN, TakeUp(width, signed)
      PROVE  BitsInv'
  <2>1. PICK vector \in Vectors(width) : left' = Make(vector, signed)
    BY <1>3 DEF TakeUp
  <2>2. Stored(left')
    BY <2>1, TriedStored
  <2>3. outcome' = outcome /\ operation'.name = "ready"
    BY <1>3 DEF TakeUp
  <2>4. QED BY <1>1, <2>2, <2>3 DEF BitsInv, BitsRight
<1>4. ASSUME NEW width \in BitWidths, NEW signed \in BOOLEAN, Combine(width, signed)
      PROVE  BitsInv'
  <2>1. PICK vector \in Vectors(width) :
          LET right == Make(vector, signed)
              x     == Widened(left, right)[1]
              y     == Widened(left, right)[2]
              with(name) == [name |-> name, right |-> right]
          IN  \/ Call(with("and"), And(x, y)) \/ Call(with("or"), Or(x, y))
              \/ Call(with("xor"), Xor(x, y)) \/ Call(with("either"), Either(x, y))
              \/ Call(with("concat"), Concat(<<left, right, left>>))
    BY <1>4 DEF Combine
  <2> DEFINE right == Make(vector, signed)
             x == Widened(left, right)[1]
             y == Widened(left, right)[2]
  <2>2. Stored(right)
    BY TriedStored
  <2>3. \/ Call([name |-> "and", right |-> right], And(x, y))
        \/ Call([name |-> "or", right |-> right], Or(x, y))
        \/ Call([name |-> "xor", right |-> right], Xor(x, y))
        \/ Call([name |-> "either", right |-> right], Either(x, y))
        \/ Call([name |-> "concat", right |-> right], Concat(<<left, right, left>>))
    BY <2>1
  <2> HIDE DEF right
  <2>4. CASE Call([name |-> "and", right |-> right], And(x, y))
    BY <1>1, <1>2, <2>2, <2>4, AndExpected
  <2>5. CASE Call([name |-> "or", right |-> right], Or(x, y))
    BY <1>1, <1>2, <2>2, <2>5, OrExpected
  <2>6. CASE Call([name |-> "xor", right |-> right], Xor(x, y))
    BY <1>1, <1>2, <2>2, <2>6, XorExpected
  <2>7. CASE Call([name |-> "either", right |-> right], Either(x, y))
    BY <1>1, <1>2, <2>2, <2>7, EitherExpected
  <2>8. CASE Call([name |-> "concat", right |-> right], Concat(<<left, right, left>>))
    BY <1>1, <1>2, <2>2, <2>8, ConcatExpected
  <2>9. QED BY <2>3, <2>4, <2>5, <2>6, <2>7, <2>8
<1>5. ASSUME NEW n \in 1 .. left.width + 1, Shift(n) PROVE BitsInv'
  <2>1. n \in Nat
    BY <1>1
  <2>2. CASE Call([name |-> "shl", amount |-> n], Shl(left, n))
    BY <1>1, <1>2, <2>1, <2>2, ShlExpected
  <2>3. CASE Call([name |-> "lshr", amount |-> n], Lshr(left, n))
    BY <1>1, <1>2, <2>1, <2>3, LshrExpected
  <2>4. CASE Call([name |-> "ashr", amount |-> n], Ashr(left, n))
    BY <1>1, <1>2, <2>1, <2>4, AshrExpected
  <2>5. QED BY <1>5, <2>2, <2>3, <2>4 DEF Shift
<1>6. ASSUME NEW msb \in -2 .. left.width + 1, NEW lsb \in -2 .. left.width + 1, Select(msb, lsb)
      PROVE  BitsInv'
  <2>1. msb \in Int /\ lsb \in Int
    BY <1>1
  <2>2. msb >= lsb /\ Call([name |-> "slice", msb |-> msb, lsb |-> lsb], Slice(left, msb, lsb))
    BY <1>6 DEF Select
  <2>3. QED BY <1>1, <1>2, <2>1, <2>2, SliceExpected
<1>7. ASSUME NEW bits \in 1 .. left.width + WordBits + 1, ToWidth(bits) PROVE BitsInv'
  <2>1. bits \in Nat \ {0}
    BY <1>1, BitsAssumption
  <2>2. Call([name |-> "resize", bits |-> bits], Resize(left, bits))
    BY <1>7 DEF ToWidth
  <2>3. QED BY <1>1, <1>2, <2>1, <2>2, ResizeExpected
<1>8. CASE TurnAround
  <2>1. Call([name |-> "reverse"], Reversed(left))
    BY <1>8 DEF TurnAround
  <2>2. QED BY <1>1, <1>2, <2>1, ReverseExpected
<1>9. CASE UNCHANGED bitsVars
  <2>1. left' = left /\ operation' = operation /\ outcome' = outcome
    BY <1>9 DEF bitsVars
  <2>2. Expected' = Expected /\ (ReverseLoses' <=> ReverseLoses)
    BY <2>1 DEF Expected, ReverseLoses
  <2>3. QED BY <1>1, <2>1, <2>2 DEF BitsInv, BitsRight
<1>10. QED BY <1>3, <1>4, <1>5, <1>6, <1>7, <1>8, <1>9 DEF BitsNext

\* Whatever the widths of words and vectors, every operation returns the vector that the
\* language defines for it, stored as any other number of the same bits would be.
THEOREM BitsAreRight == BitsSpec => []BitsRight
<1>1. BitsInv => BitsRight
  BY DEF BitsInv
<1>2. QED BY BitsInvInit, BitsInvNext, <1>1, PTL DEF BitsSpec

\* Every number that is taken up or returned has one bit pattern for one vector: no bits
\* above its width, and marked as unknown exactly if one of its bits is.
THEOREM NumbersStayStored == BitsSpec => [](Stored(left) /\ Stored(outcome))
<1>1. BitsInv => Stored(left) /\ Stored(outcome)
  BY DEF BitsInv
<1>2. QED BY BitsInvInit, BitsInvNext, <1>1, PTL DEF BitsSpec
=============================================================================
