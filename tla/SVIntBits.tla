------------------------------ MODULE SVIntBits ------------------------------
(***************************************************************************)
(* The four-valued vectors by which slang evaluates constants              *)
(* (source/numeric/SVInt.cpp and SVIntHelpers.h): shifts, selections,      *)
(* extensions, concatenation and the bitwise operators, word by word.      *)
(*                                                                         *)
(* A word is the set of the positions of its ones.  A number has words of  *)
(* data and, if any of its bits is unknown, as many words that mark those: *)
(* a marked bit is x if its data is 0 and z if it is 1.  The same vector   *)
(* is always stored in the same way.                                       *)
(*                                                                         *)
(* Left out: set, text, counting, and numbers of one word that is known,   *)
(* which the code keeps without a pointer and treats by the same formulas. *)
(***************************************************************************)
EXTENDS Integers, SequencesExt

CONSTANTS
  WordBits,    \* 64
  BitWidths,   \* bound: widths of the vectors that are tried
  MaxTogether  \* bound: width of two vectors that are combined

ASSUME BitsAssumption ==
  /\ WordBits \in Nat \ {0} /\ MaxTogether \in Nat
  /\ BitWidths \subseteq Nat \ {0}

VARIABLES
  left,       \* the vector an operation is called on
  operation,  \* the operation and its other arguments
  outcome     \* what it returns

bitsVars == <<left, operation, outcome>>

Logic  == {"0", "1", "x", "z"}
Bit    == 0 .. WordBits - 1
NumWords(width) == (width + WordBits - 1) \div WordBits

\* The bits of the last word that count (getTopWordMask).
TopBits(width) == 0 .. ((width - 1) % WordBits)
Unused(width)  == NumWords(width) * WordBits - width

Number(width, signed, unknown, data, marks) ==
  [width |-> width, signed |-> signed, unknown |-> unknown, data |-> data, marks |-> marks]

Blank(width) == [i \in 0 .. NumWords(width) - 1 |-> {}]
Zero(width, signed) == Number(width, signed, FALSE, Blank(width), Blank(width))

-----------------------------------------------------------------------------
(* What a number stands for *)

Has(words, k) == k % WordBits \in words[k \div WordBits]

BitAt(x, k) ==
  IF Has(x.marks, k) THEN IF Has(x.data, k) THEN "z" ELSE "x"
                     ELSE IF Has(x.data, k) THEN "1" ELSE "0"

VectorOf(x) == [k \in 0 .. x.width - 1 |-> BitAt(x, k)]

\* The words whose ones are the bits that are in the set.
Pack(width, bits) ==
  [i \in 0 .. NumWords(width) - 1 |-> {b \in Bit : i * WordBits + b \in bits}]

Make(vector, signed) ==
  LET width   == Cardinality(DOMAIN vector)
      with(S) == {k \in DOMAIN vector : vector[k] \in S}
  IN  Number(width, signed, with({"x", "z"}) # {},
             Pack(width, with({"1", "z"})), Pack(width, with({"x", "z"})))

FillX(width, signed) == Make([k \in 0 .. width - 1 |-> "x"], signed)
FillZ(width, signed) == Make([k \in 0 .. width - 1 |-> "z"], signed)

-----------------------------------------------------------------------------
(* Words *)

Up(word, n)   == {b + n : b \in word} \cap Bit
Down(word, n) == {b - n : b \in word} \cap Bit

Cut(width, words) == [words EXCEPT ![NumWords(width) - 1] = @ \cap TopBits(width)]

\* clearUnusedBits
Cleared(x) == [x EXCEPT !.data = Cut(x.width, @), !.marks = Cut(x.width, @)]

\* checkUnknown
Checked(x) == [x EXCEPT !.unknown = @ /\ \E i \in DOMAIN x.marks : x.marks[i] # {}]

\* shlFar, and the loop that does it for less than a word
ShlFar(words, amount) ==
  LET offset    == amount \div WordBits
      wordShift == amount % WordBits
  IN  [i \in DOMAIN words |->
         IF i < offset THEN {}
         ELSE Up(words[i - offset], wordShift)
              \cup IF i = offset THEN {}
                   ELSE Down(words[i - offset - 1], WordBits - wordShift)]

\* lshrFar, lshrNear
LshrFar(words, amount) ==
  LET offset    == amount \div WordBits
      wordShift == amount % WordBits
      at(i)     == IF i \in DOMAIN words THEN words[i] ELSE {}
  IN  [i \in DOMAIN words |-> Down(at(i + offset), wordShift)
                              \cup Up(at(i + offset + 1), WordBits - wordShift)]

\* signExtend: a one is repeated above its place.
SignExtend(width, words, k) ==
  LET word == k \div WordBits
      bit  == k % WordBits
  IN  IF ~Has(words, k) THEN words
      ELSE Cut(width, [i \in DOMAIN words |->
             IF i < word THEN words[i]
             ELSE IF i = word THEN words[i] \cup {b \in Bit : b >= bit} ELSE Bit])

\* signExtendCopy: the last bit is repeated up to the end of the last word.
SignExtendCopy(words, oldBits, newWords) ==
  LET last == NumWords(oldBits) - 1
      top  == (oldBits - 1) % WordBits
      full == IF top \in words[last] THEN words[last] \cup {b \in Bit : b > top}
                                     ELSE words[last] \cap 0 .. top
  IN  [i \in 0 .. newWords - 1 |->
         IF i < last THEN words[i]
         ELSE IF i = last THEN full
         ELSE IF WordBits - 1 \in full THEN Bit ELSE {}]

\* bitcpy: each word of dest takes what it needs from two words of src.
BitCpy(dest, destOffset, src, length, srcOffset) ==
  LET first   == destOffset \div WordBits
      skip(i) == IF i = first THEN destOffset % WordBits ELSE 0
      done(i) == i * WordBits + skip(i) - destOffset
      need(i) == LET rest == length - done(i)
                     room == WordBits - skip(i)
                 IN  IF rest < room THEN rest ELSE room
      from(i) == srcOffset + done(i)
      word(i) ==
        LET at     == from(i) \div WordBits
            offset == from(i) % WordBits
        IN  Down(src[at], offset)
            \cup IF WordBits - offset < need(i) THEN Up(src[at + 1], WordBits - offset) ELSE {}
  IN  [i \in DOMAIN dest |->
         IF i < first \/ need(i) <= 0 THEN dest[i]
         ELSE (dest[i] \ (skip(i) .. skip(i) + need(i) - 1))
              \cup Up(word(i) \cap 0 .. need(i) - 1, skip(i))]

SetBits(dest, destOffset, length) ==
  [i \in DOMAIN dest |->
     dest[i] \cup {b \in Bit : i * WordBits + b \in destOffset .. destOffset + length - 1}]

-----------------------------------------------------------------------------
(* Operations *)

Shl(x, amount) ==
  IF amount >= x.width THEN Zero(x.width, x.signed)
  ELSE Checked(Cleared([x EXCEPT !.data = ShlFar(@, amount), !.marks = ShlFar(@, amount)]))

Lshr(x, amount) ==
  IF amount >= x.width THEN Zero(x.width, x.signed)
  ELSE Checked([x EXCEPT !.data = LshrFar(@, amount), !.marks = LshrFar(@, amount)])

SignExtendFrom(x, msb) ==
  [x EXCEPT !.data  = SignExtend(x.width, @, msb),
            !.marks = IF x.unknown THEN SignExtend(x.width, @, msb) ELSE @]

Ashr(x, amount) ==
  LET msb == BitAt(x, x.width - 1)
  IN  IF ~x.signed \/ msb = "0" THEN Lshr(x, amount)
      ELSE IF amount >= x.width
      THEN CASE msb = "x" -> FillX(x.width, x.signed)
             [] msb = "z" -> FillZ(x.width, x.signed)
             [] OTHER     -> Make([k \in 0 .. x.width - 1 |-> "1"], x.signed)
      ELSE SignExtendFrom(Lshr(x, amount), x.width - amount - 1)

Slice(x, msb, lsb) ==
  LET selectWidth == msb - lsb + 1
      frontOOB    == IF lsb < 0 THEN -lsb ELSE 0
      backOOB     == IF msb >= x.width THEN msb - x.width + 1 ELSE 0
      anyOOB      == frontOOB + backOOB > 0
      valid       == selectWidth - frontOOB - backOOB
      copy(words) == BitCpy(Blank(selectWidth), frontOOB, words, valid,
                            IF frontOOB > 0 THEN 0 ELSE lsb)
      oneWord     == x.width <= WordBits /\ ~x.unknown /\ ~anyOOB
  IN  IF msb < 0 \/ lsb >= x.width THEN FillX(selectWidth, FALSE)
      ELSE Checked(Cleared(Number(
             selectWidth, x.signed /\ ~oneWord, x.unknown \/ anyOOB, copy(x.data),
             SetBits(SetBits(copy(x.marks), 0, frontOOB), valid + frontOOB, backOOB))))

Sext(x, bits) ==
  Cleared([x EXCEPT !.width = bits,
                    !.data  = SignExtendCopy(@, x.width, NumWords(bits)),
                    !.marks = SignExtendCopy(@, x.width, NumWords(bits))])

Zext(x, bits) ==
  LET longer(words) ==
        [i \in 0 .. NumWords(bits) - 1 |-> IF i \in DOMAIN words THEN words[i] ELSE {}]
  IN  [x EXCEPT !.width = bits, !.data = longer(@), !.marks = longer(@)]

Extend(x, bits, useSign) == IF useSign THEN Sext(x, bits) ELSE Zext(x, bits)

Trunc(x, bits) ==
  Checked(Cleared(Number(bits, x.signed, x.unknown,
                         BitCpy(Blank(bits), 0, x.data, bits, 0),
                         BitCpy(Blank(bits), 0, x.marks, bits, 0))))

Resize(x, bits) ==
  IF bits < x.width THEN Trunc(x, bits)
  ELSE IF bits > x.width THEN Extend(x, bits, x.signed) ELSE x

Reversed(x) ==
  LET mirror(words) ==
        [i \in DOMAIN words |->
           {WordBits - 1 - b : b \in words[NumWords(x.width) - 1 - i]}]
      mirrored == [x EXCEPT !.data = mirror(@), !.marks = mirror(@)]
      unused   == Unused(x.width)
  IN  IF unused = 0 THEN mirrored
      ELSE IF x.unknown \/ x.width > WordBits THEN Lshr(mirrored, unused)
      ELSE [x EXCEPT !.data = LshrFar(mirrored.data, unused)]

\* The operands of a binary operation, one extended to the width of the other.
Widened(x, y) ==
  LET useSign == x.signed /\ y.signed
  IN  IF x.width < y.width THEN <<Extend(x, y.width, useSign), y>>
      ELSE IF x.width > y.width THEN <<x, Extend(y, x.width, useSign)>> ELSE <<x, y>>

\* Each word of the result, and its marks, from those of the operands.
WordByWord(x, y, signed, marks(_, _, _, _), data(_, _)) ==
  LET mark == [i \in DOMAIN x.data |-> marks(x.data[i], x.marks[i], y.data[i], y.marks[i])]
  IN  Cleared(Number(x.width, signed, x.unknown \/ y.unknown,
                     [i \in DOMAIN x.data |-> data(x.data[i], y.data[i]) \ mark[i]], mark))

Differ(p, q) == (p \ q) \cup (q \ p)

And(x, y) ==
  LET marks(xd, xm, yd, ym) == (xm \cup ym) \cap (xm \cup xd) \cap (ym \cup yd)
      data(xd, yd)          == xd \cap yd
  IN  Checked(WordByWord(x, y, x.signed, marks, data))

Or(x, y) ==
  LET marks(xd, xm, yd, ym) == (xm \cap (ym \cup (Bit \ yd))) \cup (ym \ xd)
      data(xd, yd)          == xd \cup yd
  IN  Checked(WordByWord(x, y, x.signed, marks, data))

Xor(x, y) ==
  LET marks(xd, xm, yd, ym) == xm \cup ym
  IN  WordByWord(x, y, x.signed, marks, Differ)

\* conditional, when the condition is unknown
Either(x, y) ==
  LET marks(xd, xm, yd, ym) == xm \cup ym \cup Differ(xd, yd)
      data(xd, yd)          == xd \cap yd
  IN  IF VectorOf(x) = VectorOf(y) THEN y
      ELSE [WordByWord(x, y, x.signed /\ y.signed, marks, data) EXCEPT !.unknown = TRUE]

\* The last operand is the lowest.
Concat(operands) ==
  LET count == Len(operands)
      from(n) == operands[count + 1 - n]
      below[n \in 0 .. count] == IF n = 0 THEN 0 ELSE below[n - 1] + from(n).width
      data[n \in 0 .. count] ==
        IF n = 0 THEN Blank(below[count])
        ELSE BitCpy(data[n - 1], below[n - 1], from(n).data, from(n).width, 0)
      marks[n \in 0 .. count] ==
        IF n = 0 THEN Blank(below[count])
        ELSE BitCpy(marks[n - 1], below[n - 1], from(n).marks, from(n).width, 0)
  IN  Number(below[count], FALSE, \E i \in DOMAIN operands : operands[i].unknown,
             data[count], marks[count])

-----------------------------------------------------------------------------
(* A vector is taken up and an operation called on it *)

NoNumber == Zero(1, FALSE)
NoOperation     == [name |-> "none"]

BitsInit == left = NoNumber /\ operation = NoOperation /\ outcome = NoNumber

Vectors(width) == [0 .. width - 1 -> Logic]

TakeUp(width, signed) ==
  /\ operation = NoOperation
  /\ \E vector \in Vectors(width) : left' = Make(vector, signed)
  /\ operation' = [name |-> "ready"]
  /\ UNCHANGED outcome

Call(op, x) ==
  /\ operation.name = "ready"
  /\ operation' = op
  /\ outcome' = x
  /\ UNCHANGED left

Shift(n) ==
  \/ Call([name |-> "shl", amount |-> n], Shl(left, n))
  \/ Call([name |-> "lshr", amount |-> n], Lshr(left, n))
  \/ Call([name |-> "ashr", amount |-> n], Ashr(left, n))

Select(msb, lsb) ==
  msb >= lsb /\ Call([name |-> "slice", msb |-> msb, lsb |-> lsb], Slice(left, msb, lsb))

ToWidth(bits) == Call([name |-> "resize", bits |-> bits], Resize(left, bits))

TurnAround == Call([name |-> "reverse"], Reversed(left))

Combine(width, signed) ==
  /\ left.width + width <= MaxTogether
  /\ \E vector \in Vectors(width) :
       LET right == Make(vector, signed)
           x     == Widened(left, right)[1]
           y     == Widened(left, right)[2]
           with(name) == [name |-> name, right |-> right]
       IN  \/ Call(with("and"), And(x, y)) \/ Call(with("or"), Or(x, y))
           \/ Call(with("xor"), Xor(x, y)) \/ Call(with("either"), Either(x, y))
           \/ Call(with("concat"), Concat(<<left, right, left>>))

BitsNext ==
  \/ \E width \in BitWidths, signed \in BOOLEAN :
       TakeUp(width, signed) \/ Combine(width, signed)
  \/ \E n \in 1 .. left.width + 1 : Shift(n)
  \/ \E msb, lsb \in -2 .. left.width + 1 : Select(msb, lsb)
  \/ \E bits \in 1 .. left.width + WordBits + 1 : ToWidth(bits)
  \/ TurnAround

BitsSpec == BitsInit /\ [][BitsNext]_bitsVars

-----------------------------------------------------------------------------
(* Properties *)

\* No bit above the width, and marked as unknown exactly if a bit is.
Canonical(x) == x = Make(VectorOf(x), x.signed)

AndBit(p, q)  == IF "0" \in {p, q} THEN "0" ELSE IF {p, q} = {"1"} THEN "1" ELSE "x"
OrBit(p, q)   == IF "1" \in {p, q} THEN "1" ELSE IF {p, q} = {"0"} THEN "0" ELSE "x"
XorBit(p, q)  == IF {p, q} \cap {"x", "z"} # {} THEN "x" ELSE IF p = q THEN "0" ELSE "1"
EitherBit(p, q) == IF p = q /\ p \in {"0", "1"} THEN p ELSE "x"

\* The vector that an operation should return, bit by bit.
Expected ==
  LET bits     == VectorOf(left)
      width    == left.width
      msb      == bits[width - 1]
      at(k, otherwise) == IF k \in DOMAIN bits THEN bits[k] ELSE otherwise
      name     == operation.name
      widest(x, y)    == IF x > y THEN x ELSE y
      padded(x, wide, useSign) ==
        [k \in 0 .. wide - 1 |->
           IF k < x.width THEN BitAt(x, k) ELSE IF useSign THEN BitAt(x, x.width - 1) ELSE "0"]
      pairwise(f(_, _)) ==
        LET right == operation.right
            wide  == widest(width, right.width)
            p     == padded(left, wide, left.signed /\ right.signed)
            q     == padded(right, wide, left.signed /\ right.signed)
        IN  [k \in 0 .. wide - 1 |-> f(p[k], q[k])]
      same == pairwise(LAMBDA p, q : IF p = q THEN p ELSE "differs")
  IN  CASE name = "shl"  -> [k \in DOMAIN bits |-> at(k - operation.amount, "0")]
        [] name = "lshr" -> [k \in DOMAIN bits |-> at(k + operation.amount, "0")]
        [] name = "ashr" -> [k \in DOMAIN bits |->
                               at(k + operation.amount, IF left.signed THEN msb ELSE "0")]
        [] name = "slice" -> [k \in 0 .. operation.msb - operation.lsb |->
                                at(operation.lsb + k, "x")]
        [] name = "resize" -> [k \in 0 .. operation.bits - 1 |->
                                 at(k, IF left.signed THEN msb ELSE "0")]
        [] name = "reverse" -> [k \in DOMAIN bits |-> bits[width - 1 - k]]
        [] name = "and" -> pairwise(AndBit)
        [] name = "or"  -> pairwise(OrBit)
        [] name = "xor" -> pairwise(XorBit)
        [] name = "either" -> IF \E k \in DOMAIN same : same[k] = "differs"
                              THEN pairwise(EitherBit) ELSE same
        [] name = "concat" ->
             LET right == operation.right
             IN  [k \in 0 .. 2 * width + right.width - 1 |->
                    IF k < width THEN bits[k]
                    ELSE IF k < width + right.width THEN BitAt(right, k - width)
                    ELSE bits[k - width - right.width]]

\* A vector with an unknown bit that is shorter than the unused part of its word:
\* reverse shifts it out altogether.
ReverseLoses ==
  operation.name = "reverse" /\ left.unknown /\ Unused(left.width) >= left.width

\* Every operation returns the vector that the language defines for it, stored as
\* any other number of the same bits would be.
BitsRight ==
  operation.name \notin {"none", "ready"} =>
    Canonical(outcome) /\ (VectorOf(outcome) = Expected \/ ReverseLoses)
=============================================================================
