----------------------------- MODULE LwmaProofs -----------------------------
(***************************************************************************)
(* Proofs about the retargeting (module Lwma), for every width of a word,  *)
(* every window and every sequence of block times.                         *)
(***************************************************************************)
EXTENDS Lwma, NaturalsInduction, WellFoundedInduction, TLAPS

-----------------------------------------------------------------------------
(* Arithmetic.                                                             *)

LEMMA Constants ==
  /\ Width \in Nat \ {0} /\ DigitBits \in Nat \ {0} /\ T \in Nat \ {0}
  /\ N \in Nat \ {0} /\ k \in Nat \ {0} /\ nLwmaMinDenominator \in Nat \ {0}
  /\ powLimit \in Nat \ {0} /\ powLimit < 2^Width /\ 2^Width \in Nat \ {0}
  /\ MinableTarget \in Nat
<1>1. /\ Width \in Nat \ {0} /\ DigitBits \in Nat \ {0} /\ T \in Nat \ {0}
      /\ N \in Nat \ {0} /\ k \in Nat \ {0} /\ nLwmaMinDenominator \in Nat \ {0}
      /\ MinableTarget \in Nat
  BY LwmaAssumption
<1>2. 2^Width \in Nat \ {0}
  BY <1>1, PowerAssumption
<1>3. powLimit \in 1 .. 2^Width - 1
  BY LwmaAssumption
<1> QED BY <1>1, <1>2, <1>3

LEMMA MulMono ==
  ASSUME NEW a \in Int, NEW b \in Int, NEW c \in Nat, a <= b
  PROVE  a * c <= b * c /\ c * a <= c * b
OBVIOUS

LEMMA MulNat == \A a, b \in Nat : a * b \in Nat
OBVIOUS

LEMMA MulPos == \A a, b \in Nat \ {0} : a * b \in Nat \ {0}
OBVIOUS

\* The quotient is the largest number whose multiple fits.
LEMMA Division ==
  ASSUME NEW n \in Nat, NEW d \in Nat \ {0}
  PROVE  /\ n \div d \in Nat
         /\ (n \div d) * d <= n
         /\ n < (n \div d) * d + d
OBVIOUS

LEMMA DivisionAtLeast ==
  ASSUME NEW n \in Nat, NEW d \in Nat \ {0}, NEW q \in Nat, q * d <= n
  PROVE  q <= n \div d
<1> DEFINE r == n \div d
<1>1. r \in Nat /\ n < r * d + d
  BY Division
<1>2. SUFFICES ASSUME q >= r + 1 PROVE FALSE
  BY <1>1
<1> HIDE DEF r
<1>3. (r + 1) * d <= q * d
  BY <1>1, <1>2, MulMono
<1> QED BY <1>1, <1>3

LEMMA DivisionBelow ==
  ASSUME NEW n \in Nat, NEW d \in Nat \ {0}, NEW q \in Nat, n < q * d
  PROVE  n \div d < q
<1> DEFINE r == n \div d
<1>1. r \in Nat /\ r * d <= n
  BY Division
<1>2. SUFFICES ASSUME q <= r PROVE FALSE
  BY <1>1
<1> HIDE DEF r
<1>3. q * d <= r * d
  BY <1>1, <1>2, MulMono
<1> QED BY <1>1, <1>3

LEMMA DivisionExact ==
  ASSUME NEW n \in Nat, NEW d \in Nat \ {0}
  PROVE  (n * d) \div d = n
<1>1. n * d \in Nat /\ n * d < (n + 1) * d
  OBVIOUS
<1>2. n <= (n * d) \div d /\ (n * d) \div d < n + 1 /\ (n * d) \div d \in Nat
  BY <1>1, DivisionAtLeast, DivisionBelow, Division
<1> QED BY <1>2

LEMMA DivisionMono ==
  ASSUME NEW n \in Nat, NEW m \in Nat, NEW d \in Nat \ {0}, n <= m
  PROVE  n \div d <= m \div d
<1>1. n \div d \in Nat /\ (n \div d) * d <= m
  BY Division
<1> QED BY <1>1, DivisionAtLeast

LEMMA WrapSmall ==
  ASSUME NEW n \in Nat
  PROVE  /\ Wrap(n) \in 0 .. 2^Width - 1
         /\ Wrap(n) <= n
         /\ n < 2^Width => Wrap(n) = n
BY Constants DEF Wrap

\* Every nonempty set of natural numbers has a least element.
LEMMA LeastNumber ==
  ASSUME NEW S, S \subseteq Nat, S # {}
  PROVE  \E x \in S : \A y \in S : x <= y
<1> DEFINE less == OpToRel(<, Nat)
<1>1. IsWellFoundedOn(less, Nat)
  BY NatLessThanWellFounded, Zenon
<1>2. \E x \in S : \A y \in S : ~(<<y, x>> \in less)
  <2> HIDE DEF less
  <2> QED BY <1>1, WFMin, Zenon
<1>3. PICK x \in S : \A y \in S : ~(<<y, x>> \in less)
  BY <1>2, Zenon
<1>4. \A y \in S : x <= y
  <2> TAKE y \in S
  <2>1. ~(y < x)
    BY <1>3, Zenon DEF OpToRel
  <2> QED BY <2>1
<1> QED BY <1>4

\* Dividing twice is dividing by the product.
LEMMA DivisionTwice ==
  ASSUME NEW n \in Nat, NEW a \in Nat \ {0}, NEW b \in Nat \ {0}
  PROVE  (n \div a) \div b = n \div (a * b)
<1> DEFINE q == n \div a
           r == q \div b
<1>1. q \in Nat /\ q * a <= n /\ n < q * a + a
  BY Division
<1>2. r \in Nat /\ r * b <= q /\ q < r * b + b
  <2> HIDE DEF q
  <2> QED BY <1>1, Division
<1>3. a * b \in Nat \ {0}
  BY MulPos
<1> HIDE DEF q, r
<1>4. (r * b) * a <= q * a
  BY <1>1, <1>2, MulMono
<1>5. r * (a * b) <= n
  BY <1>1, <1>2, <1>4
<1>6. (q + 1) * a <= (r * b + b) * a
  BY <1>1, <1>2, MulMono
<1>7. n < (r + 1) * (a * b)
  BY <1>1, <1>2, <1>6
<1>8. r <= n \div (a * b) /\ n \div (a * b) < r + 1
  <2> DEFINE d == a * b
  <2>1. d \in Nat \ {0} /\ r * d <= n /\ n < (r + 1) * d /\ r + 1 \in Nat
    BY <1>2, <1>3, <1>5, <1>7
  <2> HIDE DEF d
  <2>2. r <= n \div d
    BY <1>2, <2>1, DivisionAtLeast
  <2>3. n \div d < r + 1
    BY <2>1, DivisionBelow
  <2> QED BY <2>2, <2>3 DEF d
<1>9. n \div (a * b) \in Nat
  BY <1>3, Division
<1>10. r = n \div (a * b)
  BY <1>2, <1>8, <1>9
<1> QED BY <1>10 DEF q, r

-----------------------------------------------------------------------------
(* The digits of a word.                                                   *)

Full == Width \div DigitBits

LEMMA Words ==
  /\ Full \in Nat /\ Full >= 3
  /\ DigitBits * Full = Width
  /\ Digit(Full) = 2^Width
<1>1. /\ Width \in Nat /\ DigitBits \in Nat \ {0}
      /\ Width % DigitBits = 0 /\ 3 * DigitBits <= Width
  BY LwmaAssumption
<1>2. Full \in Nat /\ DigitBits * Full = Width
  BY <1>1 DEF Full
<1>3. Full >= 3
  BY <1>1, DivisionAtLeast DEF Full
<1> QED BY <1>2, <1>3 DEF Digit

LEMMA DigitType ==
  ASSUME NEW a \in 0 .. Full
  PROVE  Digit(a) \in Nat \ {0}
<1>1. DigitBits * a \in 0 .. Width
  BY Words, Constants, MulMono, MulNat
<1> QED BY <1>1, PowerAssumption DEF Digit

LEMMA DigitSum ==
  ASSUME NEW a \in Nat, NEW b \in Nat, a + b <= Full
  PROVE  Digit(a + b) = Digit(a) * Digit(b)
<1>1. DigitBits * (a + b) <= DigitBits * Full
  BY Words, Constants, MulMono
<1>2. DigitBits * a \in Nat /\ DigitBits * b \in Nat
  BY Constants, MulNat
<1>3. DigitBits * (a + b) = DigitBits * a + DigitBits * b
  BY Constants
<1> DEFINE m == DigitBits * a
           n == DigitBits * b
<1>4. m \in 0 .. Width /\ n \in 0 .. Width - m
  <2>1. m \in Nat /\ n \in Nat /\ m + n <= Width
    BY <1>1, <1>2, <1>3, Words
  <2> HIDE DEF m, n
  <2> QED BY <2>1, Constants
<1>5. 2^(m + n) = 2^m * 2^n
  <2> HIDE DEF m, n
  <2> QED BY <1>4, PowerAssumption
<1> QED BY <1>3, <1>5 DEF Digit

\* One digit has at least one bit, and the sign is the top bit of three digits.
LEMMA DigitOne ==
  /\ Digit(0) = 1 /\ Digit(1) >= 2 /\ Digit(2) >= Digit(1)
  /\ Sign \in Nat \ {0} /\ Digit(3) = 2 * Sign
  /\ \E x \in Nat \ {0} : Sign = x * Digit(1)
<1> DEFINE D == DigitBits
<1>1. D \in Nat \ {0} /\ 3 * D <= Width /\ Width \in Nat
  BY LwmaAssumption
<1>2. Digit(0) = 1
  <2>1. D * 0 = 0
    BY <1>1
  <2> QED BY <2>1, PowerAssumption, Zenon DEF Digit
<1>3. Digit(1) = 2 * 2^(D - 1)
  <2>1. 1 \in 0 .. Width /\ D - 1 \in 0 .. Width - 1 /\ 1 + (D - 1) = D * 1
    BY <1>1
  <2>2. 2^(1 + (D - 1)) = 2^1 * 2^(D - 1)
    BY <2>1, PowerAssumption, Zenon
  <2> QED BY <2>1, <2>2, PowerAssumption DEF Digit
<1>4. 2^(D - 1) \in Nat \ {0}
  BY <1>1, PowerAssumption
<1>5. Digit(1) \in Nat /\ Digit(1) >= 2
  BY <1>3, <1>4
<1>6. Sign \in Nat \ {0}
  BY <1>1, PowerAssumption DEF Sign
<1>7. Digit(3) = 2 * Sign
  <2>1. 1 \in 0 .. Width /\ 3 * D - 1 \in 0 .. Width - 1 /\ 1 + (3 * D - 1) = D * 3
    BY <1>1
  <2>2. 2^(1 + (3 * D - 1)) = 2^1 * 2^(3 * D - 1)
    BY <2>1, PowerAssumption, Zenon
  <2> QED BY <2>1, <2>2, PowerAssumption DEF Digit, Sign
<1>8. Sign = 2^(2 * D - 1) * Digit(1) /\ 2^(2 * D - 1) \in Nat \ {0}
  <2>1. /\ 2 * D - 1 \in 0 .. Width /\ D \in 0 .. Width - (2 * D - 1)
        /\ (2 * D - 1) + D = 3 * D - 1 /\ D = D * 1
    BY <1>1
  <2>2. 2^((2 * D - 1) + D) = 2^(2 * D - 1) * 2^D
    BY <2>1, PowerAssumption
  <2> QED BY <2>1, <2>2, PowerAssumption DEF Digit, Sign
<1>9. Digit(2) = Digit(1) * Digit(1)
  <2>1. Digit(1 + 1) = Digit(1) * Digit(1)
    BY DigitSum, Words
  <2> QED BY <2>1
<1>10. Digit(2) >= Digit(1)
  BY <1>5, <1>9
<1> QED BY <1>2, <1>5, <1>6, <1>7, <1>8, <1>10

LEMMA DigitMono ==
  ASSUME NEW a \in 0 .. Full, NEW b \in 0 .. Full, a <= b
  PROVE  Digit(a) <= Digit(b)
<1>1. Digit(a + (b - a)) = Digit(a) * Digit(b - a)
  BY Words, DigitSum
<1>2. Digit(a) \in Nat \ {0} /\ Digit(b - a) \in Nat \ {0}
  BY Words, DigitType
<1>3. a + (b - a) = b
  BY Words
<1> QED BY <1>1, <1>2, <1>3

\* Every word has a number of digits.
LEMMA SizeIs ==
  ASSUME NEW n \in 0 .. 2^Width - 1
  PROVE  /\ Size(n) \in 0 .. Full
         /\ n < Digit(Size(n))
         /\ Size(n) > 0 => Digit(Size(n) - 1) <= n
<1> DEFINE S == {s \in 0 .. Full : n < Digit(s)}
<1>1. S \subseteq Nat /\ Full \in S
  BY Words, Constants
<1>2. PICK s \in S : \A y \in S : s <= y
  <2> HIDE DEF S
  <2> QED BY <1>1, LeastNumber, Zenon
<1>3. s \in 0 .. Full /\ n < Digit(s)
  BY <1>2
<1>4. s > 0 => n >= Digit(s - 1)
  <2> SUFFICES ASSUME s > 0, ~(n >= Digit(s - 1)) PROVE FALSE
    OBVIOUS
  <2>1. s - 1 \in 0 .. Full
    BY <1>3, Words
  <2>2. Digit(s - 1) \in Nat
    BY <2>1, DigitType
  <2>3. n < Digit(s - 1)
    BY <2>2, Constants
  <2>4. s - 1 \in S
    BY <2>1, <2>3
  <2>5. s <= s - 1
    <3> HIDE DEF S
    <3> QED BY <1>2, <2>4
  <2> QED BY <1>3, <2>5, Words
<1>5. \E x \in 0 .. Full : n < Digit(x) /\ (x > 0 => n >= Digit(x - 1))
  BY <1>3, <1>4
<1>6. /\ Size(n) \in 0 .. Full
      /\ n < Digit(Size(n)) /\ (Size(n) > 0 => n >= Digit(Size(n) - 1))
  BY <1>5 DEF Size, Full
<1>7. Size(n) > 0 => Digit(Size(n) - 1) \in Nat
  BY <1>6, Words, DigitType
<1> QED BY <1>6, <1>7, Constants

-----------------------------------------------------------------------------
(* The compact form.                                                       *)

\* The target a compact form stands for.
Rounded(n) == SetCompact(GetCompact(n))

\* c is the compact form of n in units of Digit(e): it keeps three digits less the
\* sign, and drops what is below the unit.
InUnits(n, c, e) ==
  /\ e \in 0 .. Full - 2
  /\ n < Sign * Digit(e)
  /\ e > 0 => Sign * Digit(e - 1) <= n
  /\ c \in Compact
  /\ ~IsNegative(c) /\ ~IsOverflow(c)
  /\ SetCompact(c) = (n \div Digit(e)) * Digit(e)

\* A number of more than three digits less the sign.
LEMMA LargeInUnits ==
  ASSUME NEW n \in 0 .. 2^Width - 1, NEW e \in 1 .. Full - 2,
         n < Sign * Digit(e), Sign * Digit(e - 1) <= n
  PROVE  InUnits(n, [size |-> e + 3, word |-> n \div Digit(e)], e)
<1> DEFINE w == n \div Digit(e)
           c == [size |-> e + 3, word |-> w]
<1>1. n \in Nat /\ n < 2^Width
  BY Constants
<1>2. Digit(e) \in Nat \ {0} /\ Sign \in Nat \ {0}
  BY Words, DigitType, DigitOne
<1>3. w \in Nat /\ w < Sign
  BY <1>1, <1>2, Division, DivisionBelow
<1>4. c.size = e + 3 /\ c.word = w /\ c \in Compact
  <2> HIDE DEF w
  <2> QED BY <1>2, <1>3, Words DEF Compact, Full
<1> HIDE DEF c
<1>5. c.word % Sign = w
  <2> HIDE DEF w
  <2> QED BY <1>2, <1>3, <1>4
<1>6. ShiftWord(c.size, c.word % Sign) = w
  <2> HIDE DEF w
  <2> QED BY <1>4, <1>5, Words DEF ShiftWord
<1>7. ~IsNegative(c)
  <2> HIDE DEF w
  <2> QED BY <1>2, <1>3, <1>4 DEF IsNegative
<1>8. e = Full - 2 => w < Digit(2)
  <2> SUFFICES ASSUME e = Full - 2 PROVE w < Digit(2)
    OBVIOUS
  <2>1. Digit(2 + e) = Digit(2) * Digit(e)
    BY Words, DigitSum
  <2>2. n < Digit(2) * Digit(e)
    <3>1. 2 + e = Full
      BY Words
    <3> QED BY <1>1, <2>1, <3>1, Words
  <2>3. Digit(2) \in Nat
    BY Words, DigitType
  <2> QED BY <1>1, <1>2, <2>2, <2>3, DivisionBelow
<1>9. ~IsOverflow(c)
  <2>1. ~(c.size > Full + 2) /\ ~(c.size > Full + 1)
    BY <1>4, Words
  <2>2. c.size > Full => ~(w >= Digit(2))
    <3>1. c.size > Full => e = Full - 2
      BY <1>4, Words
    <3>2. Digit(2) \in Nat
      BY Words, DigitType
    <3> HIDE DEF w
    <3> QED BY <1>3, <1>8, <3>1, <3>2
  <2> HIDE DEF w
  <2> QED BY <1>6, <2>1, <2>2, Zenon DEF IsOverflow, Full
<1>10. SetCompact(c) = w * Digit(e)
  <2>1. w * Digit(e) <= n /\ w * Digit(e) \in Nat
    BY <1>1, <1>2, Division, MulNat
  <2> HIDE DEF w
  <2>2. Wrap(w * Digit(e)) = w * Digit(e)
    <3> DEFINE v == w * Digit(e)
    <3>1. v \in Nat /\ v < 2^Width
      BY <1>1, <2>1, Constants
    <3> HIDE DEF v
    <3>2. Wrap(v) = v
      BY <3>1, WrapSmall
    <3> QED BY <3>2 DEF v
  <2>3. c.size - 3 = e /\ ~(c.size <= 3)
    BY <1>4, Words
  <2> QED BY <1>6, <2>2, <2>3 DEF SetCompact
<1> QED BY <1>4, <1>7, <1>9, <1>10, Words DEF InUnits, c

\* A number that the three digits less the sign hold.
LEMMA SmallInUnits ==
  ASSUME NEW n \in 0 .. 2^Width - 1, NEW s \in 0 .. 3, n * Digit(3 - s) < Sign
  PROVE  InUnits(n, [size |-> s, word |-> n * Digit(3 - s)], 0)
<1> DEFINE w == n * Digit(3 - s)
           c == [size |-> s, word |-> w]
<1>1. n \in Nat
  BY Constants
<1>2. Digit(3 - s) \in Nat \ {0} /\ Sign \in Nat \ {0} /\ Digit(0) = 1
  BY Words, DigitType, DigitOne
<1>3. w \in Nat /\ w < Sign /\ n <= w
  BY <1>1, <1>2
<1>4. w \div Digit(3 - s) = n
  BY <1>1, <1>2, DivisionExact
<1>5. c.size = s /\ c.word = w /\ c \in Compact
  <2> HIDE DEF w
  <2> QED BY <1>2, <1>3, Words DEF Compact, Full
<1> HIDE DEF c, w
<1>6. c.word % Sign = w
  BY <1>2, <1>3, <1>5
<1>7. ShiftWord(c.size, c.word % Sign) = n
  BY <1>4, <1>5, <1>6 DEF ShiftWord
<1>8. ~IsNegative(c)
  BY <1>2, <1>3, <1>5 DEF IsNegative
<1>9. ~IsOverflow(c)
  <2>1. ~(c.size > Full + 2) /\ ~(c.size > Full + 1) /\ ~(c.size > Full)
    BY <1>5, Words
  <2> QED BY <2>1, Zenon DEF IsOverflow, Full
<1>10. SetCompact(c) = n
  BY <1>5, <1>7 DEF SetCompact
<1>11. (n \div Digit(0)) * Digit(0) = n /\ n < Sign * Digit(0)
  BY <1>1, <1>2, <1>3
<1>12. InUnits(n, c, 0)
  BY <1>5, <1>8, <1>9, <1>10, <1>11, Words DEF InUnits
<1> QED BY <1>12 DEF c, w

\* Every word has a compact form, and it is the word rounded down.
LEMMA CompactForm ==
  ASSUME NEW n \in 0 .. 2^Width - 1
  PROVE  \E e \in 0 .. Full - 2 : InUnits(n, GetCompact(n), e)
<1> DEFINE s == Size(n)
<1>1. n \in Nat /\ n < 2^Width
  BY Constants
<1>2. s \in 0 .. Full /\ n < Digit(s) /\ (s > 0 => Digit(s - 1) <= n)
  BY SizeIs
<1>3. /\ Sign \in Nat \ {0} /\ Digit(1) \in Nat /\ Digit(1) >= 2
      /\ Digit(3) = 2 * Sign /\ Digit(0) = 1
  BY DigitOne, DigitType, Words
<1>4. CASE s <= 3
  <2> DEFINE word == n * Digit(3 - s)
  <2>1. Digit(3 - s) \in Nat \ {0}
    BY <1>2, <1>4, DigitType, Words
  <2>2. word \in Nat
    BY <1>1, <2>1
  <2>3. word < 2 * Sign
    <3>1. Digit(s + (3 - s)) = Digit(s) * Digit(3 - s)
      BY <1>2, <1>4, DigitSum, Words
    <3>2. s + (3 - s) = 3
      BY <1>2, Words
    <3>3. Digit(s) * Digit(3 - s) = 2 * Sign
      BY <1>3, <3>1, <3>2
    <3>4. Digit(s) \in Nat
      BY <1>2, DigitType
    <3> HIDE DEF s
    <3> QED BY <1>1, <1>2, <2>1, <3>3, <3>4
  <2>4. CASE word < Sign
    <3>1. GetCompact(n) = [size |-> s, word |-> word]
      BY <1>3, <1>4, <2>2, <2>4 DEF GetCompact
    <3>2. s \in 0 .. 3
      BY <1>2, <1>4, Words
    <3>3. InUnits(n, [size |-> s, word |-> word], 0)
      <4> HIDE DEF s
      <4> QED BY <2>4, <3>2, SmallInUnits, Zenon
    <3> QED BY <3>1, <3>3, Words
  <2>5. CASE word >= Sign
    <3>1. GetCompact(n) = [size |-> s + 1, word |-> word \div Digit(1)]
      BY <1>4, <2>5 DEF GetCompact
    <3>2. CASE s < 3
      <4>1. word = n * (Digit(3 - (s + 1)) * Digit(1))
        <5>1. Digit((3 - (s + 1)) + 1) = Digit(3 - (s + 1)) * Digit(1)
          BY <1>2, <3>2, DigitSum, Words
        <5>2. (3 - (s + 1)) + 1 = 3 - s
          BY <1>2, Words
        <5> QED BY <5>1, <5>2
      <4> DEFINE d == Digit(3 - (s + 1))
      <4>2. d \in Nat \ {0}
        BY <1>2, <3>2, DigitType, Words
      <4>3. word = (n * d) * Digit(1) /\ n * d \in Nat
        <5> HIDE DEF d, word
        <5> QED BY <1>1, <1>3, <4>1, <4>2 DEF d
      <4>4. word \div Digit(1) = n * d
        <5> HIDE DEF d, word
        <5> QED BY <1>3, <4>3, DivisionExact
      <4>5. word < Sign * Digit(1)
        <5> HIDE DEF d, word
        <5> QED BY <1>3, <2>2, <2>3
      <4>6. n * d < Sign
        <5> HIDE DEF d, word
        <5> QED BY <1>3, <2>2, <4>4, <4>5, DivisionBelow
      <4>7. s + 1 \in 0 .. 3
        BY <1>2, <3>2, Words
      <4>8. InUnits(n, [size |-> s + 1, word |-> n * d], 0)
        <5> HIDE DEF s
        <5> QED BY <4>6, <4>7, SmallInUnits, Zenon
      <4> QED BY <3>1, <4>4, <4>8, Words
    <3>3. CASE s = 3
      <4>1. word = n
        BY <1>1, <1>3, <3>3
      <4>2. Sign * Digit(1 - 1) <= n /\ n < Sign * Digit(1)
        <5> HIDE DEF word
        <5> QED BY <1>1, <1>3, <2>3, <2>5, <4>1
      <4>3. InUnits(n, [size |-> 1 + 3, word |-> n \div Digit(1)], 1)
        BY <4>2, LargeInUnits, Words
      <4> QED BY <3>1, <3>3, <4>1, <4>3, Words
    <3> QED BY <1>2, <1>4, <3>2, <3>3, Words
  <2> QED BY <1>3, <2>2, <2>4, <2>5
<1>5. CASE s > 3
  <2> DEFINE e == s - 3
             word == n \div Digit(e)
  <2>1. e \in 1 .. Full - 3 /\ ~(s <= 3)
    BY <1>2, <1>5, Words
  <2>2. Digit(e) \in Nat \ {0} /\ Digit(e - 1) \in Nat \ {0}
    BY <2>1, DigitType, Words
  <2>3. word \in Nat /\ word * Digit(e) <= n /\ n < word * Digit(e) + Digit(e)
    BY <1>1, <2>2, Division, Zenon
  <2>4. Sign * Digit(e - 1) <= n
    <3>1. Digit(3 + (e - 1)) = Digit(3) * Digit(e - 1)
      BY <2>1, DigitSum, Words
    <3>2. 3 + (e - 1) = s - 1
      BY <1>2, Words
    <3>3. (2 * Sign) * Digit(e - 1) <= n
      BY <1>2, <1>3, <1>5, <3>1, <3>2
    <3> HIDE DEF e
    <3> QED BY <1>1, <1>3, <2>2, <3>3
  <2>5. n < (2 * Sign) * Digit(e)
    <3>1. Digit(3 + e) = Digit(3) * Digit(e)
      BY <2>1, DigitSum, Words
    <3>2. 3 + e = s
      BY <1>2, Words
    <3> QED BY <1>2, <1>3, <3>1, <3>2
  <2>6. CASE word < Sign
    <3>1. GetCompact(n) = [size |-> s, word |-> word]
      BY <1>3, <2>1, <2>3, <2>6 DEF GetCompact
    <3>2. n < Sign * Digit(e)
      <4> HIDE DEF e, word
      <4>1. (word + 1) * Digit(e) <= Sign * Digit(e)
        BY <1>3, <2>2, <2>3, <2>6, MulMono
      <4> QED BY <1>1, <1>3, <2>2, <2>3, <4>1
    <3>3. InUnits(n, [size |-> e + 3, word |-> word], e)
      BY <2>1, <2>4, <3>2, LargeInUnits, Words
    <3>4. e + 3 = s /\ e \in 0 .. Full - 2
      BY <1>2, <2>1, Words
    <3> QED BY <3>1, <3>3, <3>4
  <2>7. CASE word >= Sign
    <3>1. GetCompact(n) = [size |-> s + 1, word |-> word \div Digit(1)]
      BY <2>1, <2>7 DEF GetCompact
    <3>2. Digit(e + 1) = Digit(e) * Digit(1)
      BY <2>1, DigitSum, Words
    <3>3. word \div Digit(1) = n \div Digit(e + 1)
      BY <1>1, <1>3, <2>2, <3>2, DivisionTwice
    <3>4. Sign * Digit(e) <= n
      <4> HIDE DEF e, word
      <4>1. Sign * Digit(e) <= word * Digit(e)
        BY <1>3, <2>2, <2>3, <2>7, MulMono
      <4> QED BY <1>1, <1>3, <2>2, <2>3, <4>1
    <3>5. n < Sign * Digit(e + 1)
      <4> HIDE DEF e
      <4> DEFINE u == Sign * Digit(e)
      <4>1. u \in Nat
        BY <1>3, <2>2
      <4>2. 2 * u = (2 * Sign) * Digit(e) /\ u * Digit(1) = Sign * Digit(e + 1)
        BY <1>3, <2>2, <3>2
      <4> HIDE DEF u
      <4>3. 2 * u <= u * Digit(1)
        BY <1>3, <4>1
      <4> QED BY <1>1, <1>3, <2>5, <4>1, <4>2, <4>3
    <3>6. (e + 1) - 1 = e /\ (e + 1) + 3 = s + 1 /\ e + 1 \in 1 .. Full - 2 /\ e + 1 \in 0 .. Full - 2
      BY <1>2, <2>1, Words
    <3>7. InUnits(n, [size |-> (e + 1) + 3, word |-> n \div Digit(e + 1)], e + 1)
      BY <3>4, <3>5, <3>6, LargeInUnits
    <3> QED BY <3>1, <3>3, <3>6, <3>7
  <2> QED BY <1>3, <2>3, <2>6, <2>7
<1> QED BY <1>2, <1>4, <1>5, Words

\* What the compact form of a target stands for: it is no larger than the target,
\* and zero only for zero.
LEMMA RoundedDown ==
  ASSUME NEW n \in 0 .. 2^Width - 1
  PROVE  /\ GetCompact(n) \in Compact
         /\ ~IsNegative(GetCompact(n)) /\ ~IsOverflow(GetCompact(n))
         /\ Rounded(n) \in 0 .. n
         /\ n # 0 => Rounded(n) # 0
<1>1. PICK e \in 0 .. Full - 2 : InUnits(n, GetCompact(n), e)
  BY CompactForm
<1>2. n \in Nat /\ Digit(e) \in Nat \ {0}
  BY Constants, DigitType, Words
<1>3. Rounded(n) = (n \div Digit(e)) * Digit(e)
  BY <1>1 DEF InUnits, Rounded
<1>4. Rounded(n) \in 0 .. n
  BY <1>2, <1>3, Division, MulNat
<1>5. ASSUME n # 0 PROVE Rounded(n) # 0
  <2>1. Digit(e) <= n
    <3>1. CASE e = 0
      BY <1>2, <1>5, <3>1, DigitOne
    <3>2. CASE e > 0
      <4>1. PICK x \in Nat \ {0} : Sign = x * Digit(1)
        BY DigitOne
      <4>2. Digit(1 + (e - 1)) = Digit(1) * Digit(e - 1) /\ 1 + (e - 1) = e
        BY <3>2, DigitSum, Words
      <4>3. Sign * Digit(e - 1) <= n
        BY <1>1, <3>2 DEF InUnits
      <4>4. Digit(1) \in Nat /\ Digit(e - 1) \in Nat
        BY <3>2, DigitType, Words
      <4>5. Sign * Digit(e - 1) = x * Digit(e)
        BY <4>1, <4>2, <4>4
      <4>6. Digit(e) <= x * Digit(e)
        BY <1>2, <4>1
      <4> QED BY <1>2, <4>1, <4>3, <4>5, <4>6, MulNat
    <3> QED BY <3>1, <3>2, Words
  <2>2. 1 <= n \div Digit(e)
    BY <1>2, <2>1, DivisionAtLeast
  <2>3. n \div Digit(e) \in Nat
    BY <1>2, Division
  <2> QED BY <1>2, <1>3, <2>2, <2>3
<1> QED BY <1>1, <1>4, <1>5 DEF InUnits

\* Rounding keeps the order of targets.
LEMMA RoundedMono ==
  ASSUME NEW a \in 0 .. 2^Width - 1, NEW b \in 0 .. 2^Width - 1, a <= b
  PROVE  Rounded(a) <= Rounded(b)
<1>1. PICK d \in 0 .. Full - 2 : InUnits(a, GetCompact(a), d)
  BY CompactForm
<1>2. PICK e \in 0 .. Full - 2 : InUnits(b, GetCompact(b), e)
  BY CompactForm
<1>3. a \in Nat /\ b \in Nat /\ Sign \in Nat \ {0}
  BY Constants, DigitOne
<1>4. Digit(d) \in Nat \ {0} /\ Digit(e) \in Nat \ {0}
  BY DigitType, Words
<1>5. /\ Rounded(a) = (a \div Digit(d)) * Digit(d)
      /\ Rounded(b) = (b \div Digit(e)) * Digit(e)
  BY <1>1, <1>2 DEF InUnits, Rounded
<1>6. a < Sign * Digit(d) /\ b < Sign * Digit(e)
  BY <1>1, <1>2 DEF InUnits
<1>7. CASE d = e
  <2>1. a \div Digit(d) <= b \div Digit(d) /\ a \div Digit(d) \in Nat /\ b \div Digit(d) \in Nat
    BY <1>3, <1>4, DivisionMono, Division
  <2> QED BY <1>4, <1>5, <1>7, <2>1, MulMono
<1>8. CASE d > e
  <2>1. Sign * Digit(d - 1) <= a
    BY <1>1, <1>8, Words DEF InUnits
  <2>2. Digit(e) <= Digit(d - 1) /\ Digit(d - 1) \in Nat
    BY <1>8, DigitMono, DigitType, Words
  <2>3. Sign * Digit(e) <= Sign * Digit(d - 1)
    BY <1>3, <1>4, <2>2, MulMono
  <2> QED BY <1>3, <1>4, <1>6, <2>1, <2>2, <2>3, MulNat
<1>9. CASE d < e
  <2>1. Sign * Digit(e - 1) <= b
    BY <1>2, <1>9, Words DEF InUnits
  <2>2. Digit(d) <= Digit(e - 1) /\ Digit(e - 1) \in Nat
    BY <1>9, DigitMono, DigitType, Words
  <2>3. Sign * Digit(d) <= Sign * Digit(e - 1)
    BY <1>3, <1>4, <2>2, MulMono
  <2>4. a < Sign * Digit(e - 1)
    BY <1>3, <1>4, <1>6, <2>2, <2>3, MulNat
  <2>5. PICK x \in Nat \ {0} : Sign = x * Digit(1)
    BY DigitOne
  <2>6. Digit(1 + (e - 1)) = Digit(1) * Digit(e - 1) /\ 1 + (e - 1) = e
    BY <1>9, DigitSum, Words
  <2>7. Digit(1) \in Nat
    BY DigitType, Words
  <2>8. Sign * Digit(e - 1) = x * Digit(e)
    BY <2>2, <2>5, <2>6, <2>7
  <2>9. x <= b \div Digit(e) /\ b \div Digit(e) \in Nat
    BY <1>3, <1>4, <2>1, <2>8, DivisionAtLeast, Division
  <2>10. x * Digit(e) <= (b \div Digit(e)) * Digit(e)
    BY <1>4, <2>9, MulMono
  <2>11. a < Rounded(b)
    BY <1>3, <1>4, <1>5, <2>4, <2>8, <2>9, <2>10, MulNat
  <2>12. Rounded(a) \in 0 .. a /\ Rounded(b) \in 0 .. b
    BY RoundedDown
  <2> QED BY <1>3, <2>11, <2>12
<1> QED BY <1>7, <1>8, <1>9, Words

-----------------------------------------------------------------------------
(* The inductive invariant.                                                *)

\* The genesis block has powLimit, and every other block a target that a miner
\* reaches and the network allows.
ChainInv ==
  /\ Len(chain) >= 1
  /\ chain[1].nBits = GetCompact(powLimit)
  /\ \A n \in 2 .. Len(chain) :
       SetCompact(chain[n].nBits) \in MinableTarget .. powLimit

\* The blocks the loop has counted.
Seen == height - N .. i - 1
SeenTarget(h) == SetCompact(GetAncestor(h).nBits)

\* Where the loop is, and what its accumulators hold: a bound on the targets it has
\* counted bounds sum_target, and a bound on the solvetimes bounds t.
FoldInv ==
  /\ height > N
  /\ i \in height - N .. height
  /\ j = i - (height - N)
  /\ \A a \in Nat : (\A h \in Seen : a <= SeenTarget(h)) => j * Share(a) <= sum_target
  /\ \A b \in Nat : (\A h \in Seen : SeenTarget(h) <= b) => sum_target <= j * Share(b)
  /\ fLwmaSolvetimeLimitation => t <= 3 * (T * (j * (j + 1)))
  /\ (\A h \in Seen : Solvetime(h) >= T) => T * (j * (j + 1)) <= 2 * t
  /\ (\A h \in Seen : Solvetime(h) <= T) => 2 * t <= T * (j * (j + 1))

LoopInv == pc = "loop" => FoldInv

DoneInv ==
  pc = "done" =>
    \/ /\ height <= N
       /\ nextBits = GetCompact(powLimit)
    \/ /\ FoldInv
       /\ i = height
       /\ nextBits = GetCompact(Capped(Wrap(Floored(t) * sum_target)))

IInv == TypeOK /\ ChainInv /\ LoopInv /\ DoneInv

-----------------------------------------------------------------------------
(* One action after another preserves it.                                  *)

LEMMA Elements ==
  ASSUME NEW S, NEW seq \in Seq(S), NEW n \in 1 .. Len(seq)
  PROVE  seq[n] \in S
OBVIOUS

LEMMA ShareIs ==
  /\ k * N * N \in Nat \ {0}
  /\ \A a \in Nat : Share(a) \in Nat /\ Share(a) * (k * N * N) <= a
  /\ \A a, b \in Nat : a <= b => Share(a) <= Share(b)
  /\ 1 <= Share(MinableTarget)
<1> DEFINE d == k * N * N
<1>1. d \in Nat \ {0}
  BY Constants, MulPos
<1>2. MinableTarget \in Nat /\ 1 * d <= MinableTarget
  BY <1>1, Constants, WeightAssumption
<1> HIDE DEF d
<1>3. \A a \in Nat : a \div d \in Nat /\ (a \div d) * d <= a
  BY <1>1, Division
<1>4. \A a, b \in Nat : a <= b => a \div d <= b \div d
  BY <1>1, DivisionMono
<1>5. 1 <= MinableTarget \div d
  BY <1>1, <1>2, DivisionAtLeast
<1> QED BY <1>1, <1>3, <1>4, <1>5 DEF Share, d

\* The shares of a whole window of the easiest targets fit in a word.
LEMMA SharesFit ==
  ASSUME NEW n \in 0 .. N
  PROVE  /\ n * Share(powLimit) \in Nat
         /\ n * Share(powLimit) <= powLimit
<1> DEFINE p == Share(powLimit)
<1>1. p \in Nat /\ p * (k * N * N) <= powLimit
  BY ShareIs, Constants
<1> HIDE DEF p
<1>2. n * p <= N * p /\ n * p \in Nat /\ N * p \in Nat
  BY <1>1, Constants, MulMono, MulNat
<1>3. N * p <= (N * p) * (k * N)
  <2>1. k * N \in Nat \ {0}
    BY Constants, MulPos
  <2> QED BY <1>2, <2>1
<1>4. (N * p) * (k * N) = p * (k * N * N)
  BY <1>1, Constants
<1> QED BY <1>1, <1>2, <1>3, <1>4, Constants DEF p

LEMMA CappedIs ==
  ASSUME NEW x \in Nat
  PROVE  /\ Capped(x) \in 0 .. powLimit /\ Capped(x) <= x
         /\ Capped(x) \in 0 .. 2^Width - 1
         /\ x # 0 => Capped(x) # 0
BY Constants DEF Capped

LEMMA FlooredIs ==
  /\ t_min \in Nat \ {0} /\ t_min <= N * k
  /\ \A x \in Int : Floored(x) \in Nat \ {0} /\ (Floored(x) = t_min \/ (Floored(x) = x /\ x >= t_min))
<1>1. N * k \in Nat
  BY Constants, MulNat
<1>2. t_min \in Nat /\ 1 <= t_min
  BY <1>1, Constants, WeightAssumption, Division, DivisionAtLeast DEF t_min
<1>3. t_min <= N * k
  <2>1. t_min * nLwmaMinDenominator <= N * k
    BY <1>1, Constants, Division DEF t_min
  <2>2. t_min <= t_min * nLwmaMinDenominator
    BY <1>2, Constants
  <2> QED BY <1>1, <1>2, <2>1, <2>2, Constants, MulNat
<1> HIDE DEF t_min
<1> QED BY <1>2, <1>3 DEF Floored

LEMMA InitIInv == Init => IInv
<1> SUFFICES ASSUME Init PROVE IInv
  OBVIOUS
<1>1. powLimit \in 0 .. 2^Width - 1 /\ GenesisTime \in Int
  BY Constants, LwmaAssumption
<1>2. GetCompact(powLimit) \in Compact
  BY <1>1, RoundedDown
<1>3. TypeOK
  <2>1. 0 \in 0 .. 2^Width - 1
    BY Constants
  <2> QED BY <1>1, <1>2, <2>1 DEF Init, TypeOK
<1>4. ChainInv
  BY DEF Init, ChainInv
<1>5. LoopInv /\ DoneInv
  BY DEF Init, LoopInv, DoneInv
<1> QED BY <1>3, <1>4, <1>5 DEF IInv

LEMMA GetNextWorkRequiredPreserves ==
  ASSUME IInv, GetNextWorkRequired
  PROVE  IInv'
<1> USE DEF height, GetNextWorkRequired
<1>1. /\ chain \in Seq([nTime : Int, nBits : Compact]) /\ Len(chain) \in Nat
      /\ Len(chain) >= 1 /\ N \in Nat \ {0} /\ T \in Nat \ {0}
  BY Constants DEF IInv, TypeOK, ChainInv
<1>2. TypeOK'
  <2>1. CASE height <= N
    <3>1. powLimit \in 0 .. 2^Width - 1
      BY Constants
    <3>2. GetCompact(powLimit) \in Compact
      BY <3>1, RoundedDown
    <3>3. GetAncestor(0).nBits = GetCompact(powLimit)
      BY DEF IInv, ChainInv, GetAncestor
    <3> QED BY <1>1, <2>1, <3>2, <3>3 DEF IInv, TypeOK
  <2>2. CASE height > N
    <3>1. 0 \in 0 .. 2^Width - 1
      BY Constants
    <3> QED BY <1>1, <2>2, <3>1 DEF IInv, TypeOK
  <2> QED BY <1>1, <2>1, <2>2
<1>3. ChainInv'
  BY DEF IInv, ChainInv
<1>4. CASE height <= N
  BY <1>1, <1>2, <1>3, <1>4 DEF IInv, ChainInv, LoopInv, DoneInv, GetAncestor
<1>5. CASE height > N
  <2>1. pc' = "loop" /\ i' = height - N /\ j' = 0 /\ t' = 0 /\ sum_target' = 0 /\ chain' = chain
    BY <1>1, <1>5
  <2>2. FoldInv'
    <3>1. \A a \in Nat : 0 * Share(a) = 0
      BY ShareIs
    <3>2. T * (0 * (0 + 1)) = 0
      BY <1>1
    <3> QED BY <1>1, <1>5, <2>1, <3>1, <3>2 DEF FoldInv
  <2> QED BY <1>2, <1>3, <2>1, <2>2 DEF IInv, LoopInv, DoneInv
<1> QED BY <1>1, <1>4, <1>5

LEMMA LwmaFinishPreserves ==
  ASSUME IInv, LwmaFinish
  PROVE  IInv'
<1> USE DEF LwmaFinish
<1>1. Floored(t) * sum_target \in Nat
  <2>1. t \in Int /\ sum_target \in Nat
    BY Constants DEF IInv, TypeOK
  <2>2. Floored(t) \in Nat
    BY <2>1, FlooredIs
  <2> QED BY <2>1, <2>2, MulNat
<1>2. Wrap(Floored(t) * sum_target) \in Nat
  BY <1>1, WrapSmall, Constants
<1>3. nextBits' \in Compact
  BY <1>2, CappedIs, RoundedDown
<1>4. TypeOK'
  BY <1>3 DEF IInv, TypeOK
<1>5. ChainInv'
  BY DEF IInv, ChainInv
<1>6. LoopInv' /\ FoldInv'
  BY DEF IInv, LoopInv, FoldInv, Seen, SeenTarget, Solvetime, GetAncestor, height
<1>7. DoneInv'
  BY <1>6 DEF DoneInv, height
<1> QED BY <1>4, <1>5, <1>6, <1>7 DEF IInv

\* A step of the loop counts block i: what bounds the blocks counted so far and
\* block i bounds the sums.
LEMMA LwmaStepPreserves ==
  ASSUME IInv, LwmaStep
  PROVE  IInv'
<1> DEFINE target == SeenTarget(i)
           solve == Solvetime(i)
           weight == j + 1
<1>1. /\ pc = "loop" /\ i < Len(chain) /\ j' = j + 1 /\ i' = i + 1
      /\ t' = t + Clamp(solve) * weight
      /\ sum_target' = Wrap(sum_target + Share(target))
      /\ chain' = chain /\ pc' = pc /\ nextBits' = nextBits
  BY DEF LwmaStep, height, Weight, Share, SeenTarget
<1>2. /\ chain \in Seq([nTime : Int, nBits : Compact]) /\ Len(chain) \in Nat
      /\ i \in Nat /\ j \in Nat /\ t \in Int /\ sum_target \in Nat
      /\ T \in Nat \ {0} /\ N \in Nat \ {0}
  BY Constants DEF IInv, TypeOK
<1>3. /\ Len(chain) > N /\ i \in Len(chain) - N .. Len(chain) /\ j = i - (Len(chain) - N)
  BY <1>1 DEF IInv, LoopInv, FoldInv, height
<1>4. i \in 1 .. Len(chain) - 1 /\ j \in 0 .. N - 1
  BY <1>1, <1>2, <1>3
<1>5. target \in Nat /\ target <= powLimit
  <2>1. i + 1 \in 2 .. Len(chain)
    BY <1>2, <1>4
  <2>2. SetCompact(chain[i + 1].nBits) \in MinableTarget .. powLimit
    BY <2>1 DEF IInv, ChainInv
  <2> QED BY <2>2, Constants DEF SeenTarget, GetAncestor
<1>6. solve \in Int
  <2>1. \A n \in 1 .. Len(chain) : chain[n] \in [nTime : Int, nBits : Compact]
    BY <1>2, Elements, Zenon
  <2>2. i + 1 \in 1 .. Len(chain) /\ (i - 1) + 1 \in 1 .. Len(chain)
    BY <1>2, <1>4
  <2>3. chain[i + 1].nTime \in Int /\ chain[(i - 1) + 1].nTime \in Int
    BY <2>1, <2>2
  <2> QED BY <2>3 DEF Solvetime, GetAncestor
<1>7. Share(target) \in Nat /\ Share(target) <= Share(powLimit) /\ Share(powLimit) \in Nat
  BY <1>5, ShareIs, Constants
<1>8. /\ Seen = Len(chain) - N .. i - 1
      /\ Seen' = Seen \cup {i}
      /\ \A h \in Nat : SeenTarget(h)' = SeenTarget(h) /\ Solvetime(h)' = Solvetime(h)
  <2>1. Seen = Len(chain) - N .. i - 1
    BY DEF Seen, height
  <2>2. Seen' = Len(chain) - N .. (i + 1) - 1
    BY <1>1 DEF Seen, height
  <2>3. Seen' = Seen \cup {i}
    BY <1>2, <1>3, <2>1, <2>2
  <2>4. ASSUME NEW h \in Nat
        PROVE  SeenTarget(h)' = SeenTarget(h) /\ Solvetime(h)' = Solvetime(h)
    BY <1>1 DEF SeenTarget, Solvetime, GetAncestor
  <2> QED BY <2>1, <2>3, <2>4
<1>9. Seen \subseteq Nat /\ \A h \in Seen : SeenTarget(h) <= powLimit
  <2>1. \A h \in Seen : h + 1 \in 2 .. Len(chain) /\ h \in Nat
    BY <1>2, <1>3, <1>8
  <2>2. \A h \in Seen : SetCompact(chain[h + 1].nBits) \in MinableTarget .. powLimit
    BY <2>1 DEF IInv, ChainInv
  <2> QED BY <2>1, <2>2, Constants DEF SeenTarget, GetAncestor
<1> HIDE DEF target, solve
<1>10. sum_target' = sum_target + Share(target)
  <2>1. sum_target <= j * Share(powLimit)
    BY <1>1, <1>9, Constants DEF IInv, LoopInv, FoldInv
  <2>2. (j + 1) * Share(powLimit) <= powLimit
    BY <1>4, Constants, SharesFit
  <2>3. sum_target + Share(target) < 2^Width
    BY <1>2, <1>7, <2>1, <2>2, Constants
  <2> QED BY <1>1, <1>2, <1>7, <2>3, WrapSmall
<1>11. Clamp(solve) \in Int /\ weight \in Nat
  BY <1>2, <1>6 DEF Clamp
<1>12. t' \in Int
  BY <1>1, <1>2, <1>11
<1>13. TypeOK'
  <2>1. sum_target' \in 0 .. 2^Width - 1
    BY <1>1, <1>2, <1>7, WrapSmall
  <2> QED BY <1>1, <1>2, <1>12, <2>1 DEF IInv, TypeOK
<1>14. ChainInv'
  BY <1>1 DEF IInv, ChainInv
<1>15. DoneInv'
  BY <1>1 DEF DoneInv
<1>16. T * ((j + 1) * ((j + 1) + 1)) = T * (j * (j + 1)) + 2 * (T * weight)
  BY <1>2
<1>17. (height > N /\ i \in height - N .. height /\ j = i - (height - N))'
  BY <1>1, <1>2, <1>3, <1>4 DEF height
<1>18. ASSUME NEW a \in Nat, (\A h \in Seen : a <= SeenTarget(h))'
       PROVE  (j * Share(a) <= sum_target)'
  <2>1. a <= target /\ \A h \in Seen : a <= SeenTarget(h)
    BY <1>4, <1>8, <1>9, <1>18 DEF target
  <2>2. j * Share(a) <= sum_target
    BY <1>1, <2>1 DEF IInv, LoopInv, FoldInv
  <2>3. Share(a) <= Share(target) /\ Share(a) \in Nat
    BY <1>5, <2>1, ShareIs
  <2>4. Share(a)' = Share(a)
    BY DEF Share
  <2> QED BY <1>1, <1>2, <1>7, <1>10, <2>2, <2>3, <2>4
<1>19. ASSUME NEW b \in Nat, (\A h \in Seen : SeenTarget(h) <= b)'
       PROVE  (sum_target <= j * Share(b))'
  <2>1. target <= b /\ \A h \in Seen : SeenTarget(h) <= b
    BY <1>4, <1>8, <1>9, <1>19 DEF target
  <2>2. sum_target <= j * Share(b)
    BY <1>1, <2>1 DEF IInv, LoopInv, FoldInv
  <2>3. Share(target) <= Share(b) /\ Share(b) \in Nat
    BY <1>5, <2>1, ShareIs
  <2>4. Share(b)' = Share(b)
    BY DEF Share
  <2> QED BY <1>1, <1>2, <1>7, <1>10, <2>2, <2>3, <2>4
<1>20. ASSUME fLwmaSolvetimeLimitation
       PROVE  (t <= 3 * (T * (j * (j + 1))))'
  <2>1. t <= 3 * (T * (j * (j + 1)))
    BY <1>1, <1>20 DEF IInv, LoopInv, FoldInv
  <2>2. Clamp(solve) <= 6 * T
    BY <1>2, <1>6, <1>20 DEF Clamp
  <2>3. Clamp(solve) * weight <= (6 * T) * weight
    BY <1>2, <1>11, <2>2, MulMono
  <2>4. (6 * T) * weight = 6 * (T * weight)
    BY <1>2
  <2> QED BY <1>1, <1>2, <1>11, <1>16, <2>1, <2>3, <2>4
<1>21. ASSUME (\A h \in Seen : Solvetime(h) >= T)'
       PROVE  (T * (j * (j + 1)) <= 2 * t)'
  <2>1. solve >= T /\ \A h \in Seen : Solvetime(h) >= T
    BY <1>4, <1>8, <1>9, <1>21 DEF solve
  <2>2. T * (j * (j + 1)) <= 2 * t
    BY <1>1, <2>1 DEF IInv, LoopInv, FoldInv
  <2>3. Clamp(solve) >= T
    BY <1>2, <1>6, <2>1 DEF Clamp
  <2>4. T * weight <= Clamp(solve) * weight
    <3>1. T \in Int /\ T <= Clamp(solve)
      BY <1>2, <1>11, <2>3
    <3> HIDE DEF weight
    <3> QED BY <1>11, <3>1, MulMono
  <2> QED BY <1>1, <1>2, <1>11, <1>16, <2>2, <2>4
<1>22. ASSUME (\A h \in Seen : Solvetime(h) <= T)'
       PROVE  (2 * t <= T * (j * (j + 1)))'
  <2>1. solve <= T /\ \A h \in Seen : Solvetime(h) <= T
    BY <1>4, <1>8, <1>9, <1>22 DEF solve
  <2>2. 2 * t <= T * (j * (j + 1))
    BY <1>1, <2>1 DEF IInv, LoopInv, FoldInv
  <2>3. Clamp(solve) <= T
    BY <1>2, <1>6, <2>1 DEF Clamp
  <2>4. Clamp(solve) * weight <= T * weight
    BY <1>2, <1>11, <2>3, MulMono
  <2> QED BY <1>1, <1>2, <1>11, <1>16, <2>2, <2>4
<1>23. FoldInv'
  BY <1>17, <1>18, <1>19, <1>20, <1>21, <1>22 DEF FoldInv
<1> QED BY <1>13, <1>14, <1>15, <1>23 DEF IInv, LoopInv

\* A block that is accepted has the required target, which DeriveTarget allowed.
LEMMA AcceptBlockPreserves ==
  ASSUME IInv, NEW step \in TimeStep, AcceptBlock(pindexLast.nTime + step)
  PROVE  IInv'
<1> DEFINE block == [nTime |-> pindexLast.nTime + step, nBits |-> nextBits]
<1>1. /\ pc = "done" /\ chain' = Append(chain, block) /\ pc' = "idle"
      /\ i' = i /\ j' = j /\ t' = t /\ sum_target' = sum_target /\ nextBits' = nextBits
      /\ DeriveTarget(nextBits) # 0 /\ DeriveTarget(nextBits) >= MinableTarget
  BY DEF AcceptBlock
<1>2. /\ chain \in Seq([nTime : Int, nBits : Compact]) /\ Len(chain) \in Nat
      /\ Len(chain) >= 1 /\ nextBits \in Compact
  BY DEF IInv, TypeOK, ChainInv
<1>3. block \in [nTime : Int, nBits : Compact]
  <2>1. pindexLast \in [nTime : Int, nBits : Compact]
    <3>1. Len(chain) \in 1 .. Len(chain)
      BY <1>2
    <3> QED BY <1>2, <3>1, Elements, Zenon DEF pindexLast
  <2>2. step \in Int
    BY LwmaAssumption
  <2> QED BY <1>2, <2>1, <2>2
<1>4. SetCompact(nextBits) \in MinableTarget .. powLimit
  <2>1. PICK v \in 0 .. 2^Width - 1 : nextBits = GetCompact(v)
    <3>1. powLimit \in 0 .. 2^Width - 1
      BY Constants
    <3>2. Capped(Wrap(Floored(t) * sum_target)) \in 0 .. 2^Width - 1
      <4>1. t \in Int /\ sum_target \in Nat
        BY Constants DEF IInv, TypeOK
      <4>2. Floored(t) * sum_target \in Nat
        BY <4>1, FlooredIs, MulNat
      <4>3. Wrap(Floored(t) * sum_target) \in Nat
        BY <4>2, WrapSmall, Constants
      <4> QED BY <4>3, CappedIs
    <3> QED BY <1>1, <3>1, <3>2 DEF IInv, DoneInv
  <2>2. SetCompact(nextBits) \in Nat
    BY <2>1, RoundedDown, Constants DEF Rounded
  <2>3. SetCompact(nextBits) <= powLimit /\ DeriveTarget(nextBits) = SetCompact(nextBits)
    BY <1>1, <2>2, Constants DEF DeriveTarget
  <2> QED BY <1>1, <2>2, <2>3, Constants
<1> HIDE DEF block
<1>5. /\ chain' \in Seq([nTime : Int, nBits : Compact]) /\ Len(chain') = Len(chain) + 1
      /\ chain'[Len(chain) + 1] = block
      /\ \A n \in 1 .. Len(chain) : chain'[n] = chain[n]
  BY <1>1, <1>2, <1>3
<1>6. TypeOK'
  BY <1>1, <1>5 DEF IInv, TypeOK
<1>7. ChainInv'
  <2>1. chain'[1].nBits = GetCompact(powLimit)
    BY <1>2, <1>5 DEF IInv, ChainInv
  <2>2. ASSUME NEW n \in 2 .. Len(chain')
        PROVE  SetCompact(chain'[n].nBits) \in MinableTarget .. powLimit
    <3>1. CASE n \in 2 .. Len(chain)
      <4>1. chain'[n] = chain[n]
        BY <1>2, <1>5, <3>1
      <4> QED BY <3>1, <4>1 DEF IInv, ChainInv
    <3>2. CASE n = Len(chain) + 1
      BY <1>4, <1>5, <3>2 DEF block
    <3> QED BY <1>2, <1>5, <3>1, <3>2
  <2> QED BY <1>2, <1>5, <2>1, <2>2 DEF ChainInv
<1>8. LoopInv' /\ DoneInv'
  BY <1>1 DEF LoopInv, DoneInv
<1> QED BY <1>6, <1>7, <1>8 DEF IInv

LEMMA StutterPreserves ==
  ASSUME IInv, UNCHANGED vars
  PROVE  IInv'
BY DEF IInv, vars, TypeOK, ChainInv, LoopInv, DoneInv, FoldInv, Seen, SeenTarget, Solvetime,
       GetAncestor, height

\* The invariant above is inductive, whatever the times of the blocks.
THEOREM AlwaysIInv == Spec => []IInv
<1>1. IInv /\ [Next]_vars => IInv'
  <2> SUFFICES ASSUME IInv, [Next]_vars PROVE IInv'
    OBVIOUS
  <2>1. CASE GetNextWorkRequired
    BY <2>1, GetNextWorkRequiredPreserves
  <2>2. CASE LwmaStep
    BY <2>2, LwmaStepPreserves
  <2>3. CASE LwmaFinish
    BY <2>3, LwmaFinishPreserves
  <2>4. CASE \E step \in TimeStep : AcceptBlock(pindexLast.nTime + step)
    BY <2>4, AcceptBlockPreserves
  <2>5. CASE UNCHANGED vars
    BY <2>5, StutterPreserves
  <2> QED BY <2>1, <2>2, <2>3, <2>4, <2>5 DEF Next
<1> QED BY <1>1, InitIInv, PTL DEF Spec

\* The chain and the accumulators of LwmaCalculateNextWorkRequired have their types,
\* and the nBits it returns never has the sign bit of the compact form.
THEOREM AlwaysTypeOK == Spec => []TypeOK
<1>1. IInv => TypeOK
  BY DEF IInv
<1> QED BY <1>1, AlwaysIInv, PTL

-----------------------------------------------------------------------------
(* What the invariant says of the result.                                  *)

\* The powLimit of the network leaves room above it for the largest weighted sum
\* of solvetimes, which are limited.  With the weights of chainparams.cpp this
\* asks for powLimit < 0.166 * 2^256: so on all networks but shareNet.
Room == /\ fLwmaSolvetimeLimitation
        /\ 3 * T * (N + 1) * powLimit < k * 2^Width

\* After the last iteration the sums are over the whole window.
LEMMA WholeWindow ==
  ASSUME TypeOK, ChainInv, FoldInv, i = height
  PROVE  /\ j = N /\ Seen = Window /\ Window # {}
         /\ t \in Int /\ sum_target \in Nat
         /\ \A h \in Window : SeenTarget(h) \in MinableTarget .. powLimit
         /\ sum_target <= N * Share(powLimit)
<1>1. /\ Len(chain) \in Nat /\ N \in Nat \ {0} /\ Len(chain) > N /\ i = Len(chain)
      /\ t \in Int /\ sum_target \in Nat
  BY Constants DEF TypeOK, FoldInv, height
<1>2. j = N
  BY <1>1 DEF FoldInv, height
<1>3. Seen = Window
  BY <1>1 DEF Seen, Window, height
<1>4. Window # {}
  <2>1. Len(chain) - 1 \in Window
    BY <1>1 DEF Window, height
  <2> QED BY <2>1
<1>5. \A h \in Window : SeenTarget(h) \in MinableTarget .. powLimit
  <2>1. \A h \in Window : h + 1 \in 2 .. Len(chain)
    BY <1>1 DEF Window, height
  <2> QED BY <2>1 DEF ChainInv, SeenTarget, GetAncestor
<1>6. sum_target <= N * Share(powLimit)
  <2>1. \A h \in Seen : SeenTarget(h) <= powLimit
    BY <1>3, <1>5, Constants
  <2> QED BY <1>2, <2>1, Constants DEF FoldInv
<1> QED BY <1>1, <1>2, <1>3, <1>4, <1>5, <1>6

\* The product of the two sums fits in a word if there is room.
LEMMA ProductFits ==
  ASSUME Room, TypeOK, ChainInv, FoldInv, i = height
  PROVE  Floored(t) * sum_target < 2^Width
<1> DEFINE p == Share(powLimit)
           f == Floored(t)
           M == 2^Width
<1>1. j = N /\ t \in Int /\ sum_target \in Nat /\ sum_target <= N * p
  BY WholeWindow
<1>2. p \in Nat /\ p * (k * N * N) <= powLimit
  BY ShareIs, Constants
<1>3. f \in Nat /\ (f = t_min \/ f = t) /\ t_min \in Nat /\ t_min <= N * k
  BY <1>1, FlooredIs
<1>4. M \in Nat /\ powLimit \in Nat /\ powLimit < M /\ 3 * T * (N + 1) * powLimit < k * M
  BY Constants DEF Room
<1>5. N \in Nat \ {0} /\ k \in Nat \ {0} /\ T \in Nat \ {0}
  BY Constants
<1>6. t <= 3 * (T * (N * (N + 1)))
  BY <1>1 DEF Room, FoldInv
<1> HIDE DEF p, f, M
<1>7. N * p \in Nat
  BY <1>2, <1>5, MulNat
<1>8. f * sum_target <= f * (N * p)
  BY <1>1, <1>3, <1>7, MulMono
<1>9. f * (N * p) < M
  <2>1. CASE f = t_min
    <3>1. f * (N * p) <= (N * k) * (N * p)
      BY <1>3, <1>5, <1>7, <2>1, MulMono
    <3>2. (N * k) * (N * p) = p * (k * N * N)
      BY <1>2, <1>5
    <3>3. f * (N * p) \in Nat
      BY <1>3, <1>7, MulNat
    <3> DEFINE x == f * (N * p)
               y == p * (k * N * N)
    <3>4. x \in Nat /\ y \in Nat /\ x <= y /\ y <= powLimit
      BY <1>2, <1>5, <3>1, <3>2, <3>3, MulNat
    <3> HIDE DEF x, y
    <3>5. x < M
      BY <1>4, <3>4
    <3> QED BY <3>5 DEF x
  <2>2. CASE f = t
    <3> DEFINE c == 3 * T * (N + 1)
    <3>1. c \in Nat /\ 3 * (T * (N * (N + 1))) = c * N
      BY <1>5
    <3>2. f * (N * p) <= (c * N) * (N * p)
      <4> HIDE DEF c
      <4>1. c * N \in Nat /\ f <= c * N
        BY <1>5, <1>6, <2>2, <3>1, MulNat
      <4> QED BY <1>3, <1>7, <4>1, MulMono
    <3>3. c * powLimit < k * M
      BY <1>4
    <3> HIDE DEF c
    <3>4. k * (f * (N * p)) <= k * ((c * N) * (N * p))
      BY <1>3, <1>5, <1>7, <3>1, <3>2, MulMono, MulNat
    <3>5. k * ((c * N) * (N * p)) = c * (p * (k * N * N))
      BY <1>2, <1>5, <3>1
    <3>6. c * (p * (k * N * N)) <= c * powLimit
      BY <1>2, <1>4, <1>5, <3>1, MulMono, MulNat
    <3> DEFINE x == f * (N * p)
    <3>7. x \in Nat /\ k * x < k * M
      <4>1. x \in Nat
        BY <1>3, <1>7, MulNat
      <4>2. k * x <= c * powLimit
        <5>1. k * x \in Nat /\ c * powLimit \in Nat /\ c * (p * (k * N * N)) \in Nat
          BY <1>2, <1>4, <1>5, <3>1, <4>1, MulNat
        <5> QED BY <3>4, <3>5, <3>6, <5>1
      <4>3. k * x \in Nat /\ c * powLimit \in Nat /\ k * M \in Nat
        BY <1>4, <1>5, <3>1, <4>1, MulNat
      <4> QED BY <3>3, <4>1, <4>2, <4>3
    <3> HIDE DEF x
    <3>8. SUFFICES ASSUME M <= x PROVE FALSE
      BY <1>4, <3>7 DEF x
    <3>9. k * M <= k * x
      BY <1>4, <1>5, <3>7, <3>8, MulMono
    <3> QED BY <1>4, <1>5, <3>7, <3>9, MulNat
  <2> QED BY <1>3, <2>1, <2>2
<1>10. f * sum_target \in Nat /\ f * (N * p) \in Nat
  BY <1>1, <1>3, <1>7, MulNat
<1>11. f * sum_target < M
  BY <1>4, <1>8, <1>9, <1>10
<1> QED BY <1>11 DEF f, M

\* The comment in the loop of LwmaCalculateNextWorkRequired holds where powLimit
\* leaves room: the product with the weighted solvetimes is never reduced modulo
\* 2^Width.
THEOREM InRangeGivenRoom ==
  ASSUME Room
  PROVE  Spec => []IntermediatesInRange
<1>1. IInv => IntermediatesInRange
  BY ProductFits DEF IInv, LoopInv, IntermediatesInRange
<1> QED BY <1>1, AlwaysIInv, PTL

\* A required target that is neither zero nor above powLimit is accepted.
LEMMA Accepted ==
  ASSUME NEW v \in 1 .. powLimit
  PROVE  DeriveTarget(GetCompact(v)) # 0
<1>1. v \in 0 .. 2^Width - 1 /\ v # 0 /\ v \in Nat
  BY Constants
<1>2. /\ ~IsNegative(GetCompact(v)) /\ ~IsOverflow(GetCompact(v))
      /\ SetCompact(GetCompact(v)) \in 0 .. v /\ SetCompact(GetCompact(v)) # 0
  BY <1>1, RoundedDown DEF Rounded
<1>3. ~(SetCompact(GetCompact(v)) > powLimit)
  BY <1>1, <1>2, Constants
<1> QED BY <1>2, <1>3 DEF DeriveTarget

LEMMA CanExtendGivenRoom ==
  ASSUME Room, IInv
  PROVE  CanExtend
<1> SUFFICES ASSUME pc = "done" PROVE DeriveTarget(nextBits) # 0
  BY DEF CanExtend
<1>1. CASE height <= N /\ nextBits = GetCompact(powLimit)
  BY <1>1, Accepted, Constants
<1>2. CASE /\ FoldInv /\ i = height
           /\ nextBits = GetCompact(Capped(Wrap(Floored(t) * sum_target)))
  <2> DEFINE x == Floored(t) * sum_target
  <2>1. /\ j = N /\ t \in Int /\ sum_target \in Nat /\ Seen = Window
        /\ \A h \in Window : SeenTarget(h) \in MinableTarget .. powLimit
    BY <1>2, WholeWindow DEF IInv
  <2>2. N * Share(MinableTarget) <= sum_target
    <3>1. \A h \in Seen : MinableTarget <= SeenTarget(h)
      BY <2>1, Constants
    <3> QED BY <1>2, <2>1, <3>1, Constants DEF FoldInv
  <2>3. sum_target \in Nat \ {0}
    <3>1. Share(MinableTarget) \in Nat \ {0} /\ N \in Nat \ {0}
      BY ShareIs, Constants
    <3>2. N * Share(MinableTarget) \in Nat \ {0}
      BY <3>1, MulPos
    <3> QED BY <2>1, <2>2, <3>2
  <2>4. x \in Nat \ {0}
    BY <2>1, <2>3, FlooredIs, MulPos
  <2>5. x < 2^Width
    BY <1>2, ProductFits DEF IInv
  <2> HIDE DEF x
  <2>6. Wrap(x) = x
    BY <2>4, <2>5, WrapSmall
  <2>7. Capped(x) \in 1 .. powLimit
    BY <2>4, CappedIs, Constants
  <2>8. nextBits = GetCompact(Capped(x))
    BY <1>2, <2>6 DEF x
  <2> QED BY <2>7, <2>8, Accepted
<1> QED BY <1>1, <1>2 DEF IInv, DoneInv

\* Where powLimit leaves room the chain can always grow: whatever the times of the
\* blocks, the nBits GetNextWorkRequired returns is one that DeriveTarget accepts.
THEOREM AlwaysCanExtend ==
  ASSUME Room
  PROVE  Spec => []CanExtend
<1>1. IInv => CanExtend
  BY CanExtendGivenRoom
<1> QED BY <1>1, AlwaysIInv, PTL

\* A window of slow blocks: the next block is not harder than the hardest of them.
LEMMA SlowWindow ==
  ASSUME Room, TypeOK, ChainInv, FoldInv, i = height,
         nextBits = GetCompact(Capped(Wrap(Floored(t) * sum_target))),
         NEW lo \in WindowTargets, \A target \in WindowTargets : lo <= target,
         \A h \in Window : Solvetime(h) >= T
  PROVE  SetCompact(nextBits) >= SetCompact(GetCompact(Capped(k * N * N * Share(lo))))
<1> DEFINE x == Floored(t) * sum_target
           s == Share(lo)
           y == k * N * N * s
<1>1. /\ j = N /\ t \in Int /\ sum_target \in Nat /\ Seen = Window
      /\ \A h \in Window : SeenTarget(h) \in MinableTarget .. powLimit
  BY WholeWindow
<1>2. WindowTargets = {SeenTarget(h) : h \in Window}
  BY DEF WindowTargets, SeenTarget
<1>3. lo \in Nat
  BY <1>1, <1>2, Constants
<1>4. s \in Nat
  BY <1>3, ShareIs
<1>5. N * s <= sum_target
  <2>1. \A h \in Seen : lo <= SeenTarget(h)
    BY <1>1, <1>2
  <2> QED BY <1>1, <1>3, <2>1 DEF FoldInv
<1>6. T * (N * (N + 1)) <= 2 * t
  BY <1>1 DEF FoldInv
<1>7. N \in Nat \ {0} /\ k \in Nat \ {0} /\ T \in Nat \ {0} /\ 2 * k <= T * (N + 1)
  BY Constants, WeightAssumption
<1>8. Floored(t) \in Nat /\ t <= Floored(t)
  <2>1. /\ Floored(t) \in Nat \ {0} /\ t_min \in Nat
        /\ Floored(t) = t_min \/ (Floored(t) = t /\ t >= t_min)
    BY <1>1, FlooredIs
  <2> QED BY <1>1, <2>1 DEF Floored
<1>9. x \in Nat /\ y \in Nat
  BY <1>1, <1>4, <1>7, <1>8, ShareIs, MulNat
<1>10. y <= x
  <2> DEFINE f == Floored(t)
  <2>1. f \in Nat /\ T * (N * (N + 1)) <= 2 * f
    <3>1. T * (N * (N + 1)) \in Nat
      BY <1>7, MulNat
    <3> QED BY <1>1, <1>6, <1>8, <3>1
  <2>2. (2 * k) * N <= (T * (N + 1)) * N
    BY <1>7, MulMono
  <2> HIDE DEF f, s
  <2>3. k * N <= f
    BY <1>7, <2>1, <2>2
  <2>4. (k * N) * (N * s) <= f * (N * s)
    BY <1>4, <1>7, <2>1, <2>3, MulMono, MulNat
  <2>5. f * (N * s) <= f * sum_target
    BY <1>1, <1>4, <1>5, <1>7, <2>1, MulMono, MulNat DEF s
  <2>6. y = (k * N) * (N * s)
    BY <1>4, <1>7
  <2>7. f * (N * s) \in Nat /\ f * sum_target \in Nat /\ (k * N) * (N * s) \in Nat
    BY <1>1, <1>4, <1>7, <2>1, MulNat
  <2>8. x = f * sum_target
    BY DEF f
  <2> HIDE DEF x, y
  <2> QED BY <2>4, <2>5, <2>6, <2>7, <2>8
<1>11. x < 2^Width
  BY ProductFits
<1>12. nextBits = GetCompact(Capped(Wrap(x)))
  OBVIOUS
<1> HIDE DEF x, y
<1>13. Wrap(x) = x
  BY <1>9, <1>11, WrapSmall
<1>14. /\ Capped(x) \in 0 .. 2^Width - 1 /\ Capped(y) \in 0 .. 2^Width - 1
       /\ Capped(y) <= Capped(x)
  <2>1. Capped(y) <= Capped(x)
    BY <1>9, <1>10, Constants DEF Capped
  <2> QED BY <1>9, <2>1, CappedIs
<1>15. Rounded(Capped(y)) <= Rounded(Capped(x))
  BY <1>14, RoundedMono
<1>16. Rounded(Capped(y)) \in Nat /\ Rounded(Capped(x)) \in Nat
  BY <1>14, RoundedDown, Constants
<1>17. Rounded(Capped(x)) >= Rounded(Capped(y))
  BY <1>15, <1>16
<1> QED BY <1>12, <1>13, <1>17 DEF Rounded, y

\* A window of fast blocks: the next block is not easier than the easiest of them.
LEMMA FastWindow ==
  ASSUME TypeOK, ChainInv, FoldInv, i = height,
         nextBits = GetCompact(Capped(Wrap(Floored(t) * sum_target))),
         NEW hi \in WindowTargets, \A target \in WindowTargets : target <= hi,
         \A h \in Window : Solvetime(h) <= T
  PROVE  2 * SetCompact(nextBits) <= T * N * (N + 1) * N * Share(hi)
<1> DEFINE f == Floored(t)
           x == f * sum_target
           s == Share(hi)
<1>1. /\ j = N /\ t \in Int /\ sum_target \in Nat /\ Seen = Window
      /\ \A h \in Window : SeenTarget(h) \in MinableTarget .. powLimit
  BY WholeWindow
<1>2. WindowTargets = {SeenTarget(h) : h \in Window}
  BY DEF WindowTargets, SeenTarget
<1>3. hi \in Nat
  BY <1>1, <1>2, Constants
<1>4. s \in Nat
  BY <1>3, ShareIs
<1>5. sum_target <= N * s
  <2>1. \A h \in Seen : SeenTarget(h) <= hi
    BY <1>1, <1>2
  <2> QED BY <1>1, <1>3, <2>1 DEF FoldInv
<1>6. 2 * t <= T * (N * (N + 1))
  BY <1>1 DEF FoldInv
<1>7. N \in Nat \ {0} /\ k \in Nat \ {0} /\ T \in Nat \ {0} /\ 2 * k <= T * (N + 1)
  BY Constants, WeightAssumption
<1>8. f \in Nat /\ (f = t \/ f = t_min) /\ t_min \in Nat /\ t_min <= N * k
  BY <1>1, FlooredIs
<1> HIDE DEF f, s
<1>9. 2 * f <= T * (N * (N + 1))
  <2>1. (2 * k) * N <= (T * (N + 1)) * N
    BY <1>7, MulMono
  <2>2. 2 * t_min <= T * (N * (N + 1))
    BY <1>7, <1>8, <2>1
  <2> QED BY <1>6, <1>8, <2>2
<1>10. x \in Nat
  BY <1>1, <1>8, MulNat
<1>11. 2 * x <= T * N * (N + 1) * N * s
  <2>1. x <= f * (N * s)
    BY <1>1, <1>4, <1>5, <1>7, <1>8, MulMono, MulNat
  <2>2. (2 * f) * (N * s) <= (T * (N * (N + 1))) * (N * s)
    BY <1>4, <1>7, <1>8, <1>9, MulMono, MulNat
  <2>3. (T * (N * (N + 1))) * (N * s) = T * N * (N + 1) * N * s
    BY <1>4, <1>7
  <2>4. (2 * f) * (N * s) = 2 * (f * (N * s)) /\ f * (N * s) \in Nat
    BY <1>4, <1>7, <1>8, MulNat
  <2> DEFINE y == f * (N * s)
             z == T * N * (N + 1) * N * s
  <2>5. y \in Nat /\ z \in Nat /\ x <= y /\ 2 * y <= z
    BY <1>4, <1>7, <2>1, <2>2, <2>3, <2>4, MulNat
  <2> HIDE DEF x, y, z
  <2>6. 2 * x <= z
    BY <1>10, <2>5
  <2> QED BY <2>6 DEF z
<1>12. nextBits = GetCompact(Capped(Wrap(x)))
  BY DEF f
<1> HIDE DEF x
<1>13. Wrap(x) \in Nat /\ Wrap(x) <= x
  BY <1>10, WrapSmall, Constants
<1>14. Capped(Wrap(x)) \in 0 .. 2^Width - 1 /\ Capped(Wrap(x)) <= Wrap(x)
  BY <1>13, CappedIs
<1>15. Rounded(Capped(Wrap(x))) \in 0 .. Capped(Wrap(x))
  BY <1>14, RoundedDown
<1>16. SetCompact(nextBits) \in Nat /\ SetCompact(nextBits) <= x
  BY <1>10, <1>12, <1>13, <1>14, <1>15, Constants DEF Rounded
<1>17. T * N * (N + 1) * N * s \in Nat
  BY <1>4, <1>7, MulNat
<1> DEFINE z == T * N * (N + 1) * N * s
<1>18. 2 * SetCompact(nextBits) <= z
  <2>1. z \in Nat /\ 2 * x <= z
    BY <1>11, <1>17
  <2> HIDE DEF z
  <2> QED BY <1>10, <1>16, <2>1
<1> QED BY <1>18 DEF s

\* Where powLimit leaves room the retargeting answers in the right direction: slow
\* windows do not make the next block harder, fast ones do not make it easier.
THEOREM AlwaysRightDirection ==
  ASSUME Room
  PROVE  Spec => []RightDirection
<1>1. IInv => RightDirection
  <2> SUFFICES ASSUME IInv, Averaged, NEW lo \in WindowTargets, NEW hi \in WindowTargets,
                      \A target \in WindowTargets : lo <= target /\ target <= hi
               PROVE  /\ (\A h \in Window : Solvetime(h) >= T) =>
                           SetCompact(nextBits)
                             >= SetCompact(GetCompact(Capped(k * N * N * Share(lo))))
                      /\ (\A h \in Window : Solvetime(h) <= T) =>
                           2 * SetCompact(nextBits) <= T * N * (N + 1) * N * Share(hi)
    BY DEF RightDirection
  <2>1. /\ FoldInv /\ i = height /\ TypeOK /\ ChainInv
        /\ nextBits = GetCompact(Capped(Wrap(Floored(t) * sum_target)))
    <3>1. Len(chain) \in Nat /\ N \in Nat
      BY Constants DEF IInv, TypeOK
    <3> QED BY <3>1 DEF Averaged, IInv, DoneInv, height
  <2>2. ASSUME \A h \in Window : Solvetime(h) >= T
        PROVE  SetCompact(nextBits) >= SetCompact(GetCompact(Capped(k * N * N * Share(lo))))
    BY <2>1, <2>2, SlowWindow
  <2>3. ASSUME \A h \in Window : Solvetime(h) <= T
        PROVE  2 * SetCompact(nextBits) <= T * N * (N + 1) * N * Share(hi)
    BY <2>1, <2>3, FastWindow
  <2> QED BY <2>2, <2>3
<1> QED BY <1>1, AlwaysIInv, PTL

=============================================================================
