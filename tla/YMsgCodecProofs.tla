---------------------------- MODULE YMsgCodecProofs ----------------------------
(***************************************************************************)
(* Proofs about YMsgCodec, for every set of payloads, header size, maximal *)
(* size, range of int, left-over encoding and bytes behind a payload.      *)
(*                                                                         *)
(* Text and Magnitude are defined by recursion.  That the functions exist, *)
(* and that reading a number undoes writing it, is proved from the least   *)
(* counterexample (Least, Induction).  Of the parser it is proved what it  *)
(* finds in any payload (Finds, FoundIsClean) and that it finds, in a      *)
(* payload that begins with a pair the builder has appended, that pair     *)
(* (ReadsPair); for this the value must be Clean, which what the parser    *)
(* itself has found always is.  The invariant, CodecInv, keeps the packet  *)
(* as it was after each pair (Written): the recipient's parser always      *)
(* stands behind one of them, having read what they were written from.     *)
(***************************************************************************)
EXTENDS YMsgCodec, SequenceTheorems, WellFoundedInduction, TLAPS

\* A set of natural numbers has a least one.
LEMMA Least ==
    ASSUME NEW T, T \subseteq Nat, T # {}
    PROVE  \E x \in T : \A y \in T : x <= y
  <1> DEFINE R == {ss \in Nat \X Nat : ss[1] < ss[2]}
  <1>1. IsWellFoundedOn(R, Nat)
    BY NatLessThanWellFounded DEF OpToRel
  <1>3. \A x, y \in Nat : y < x => <<y, x>> \in R
    OBVIOUS
  <1> HIDE DEF R
  <1>2. PICK x \in T : \A y \in T : ~(<<y, x>> \in R)
    BY <1>1, WFMin, Zenon
  <1>4. SUFFICES ASSUME NEW y \in T PROVE x <= y
    OBVIOUS
  <1>5. x \in Nat /\ y \in Nat
    OBVIOUS
  <1>6. ~(y < x)
    BY <1>2, <1>3, <1>5, Zenon
  <1> QED
    BY <1>5, <1>6

\* Induction.
LEMMA Induction ==
    ASSUME NEW T, 0 \in T, \A n \in Nat : n \in T => n + 1 \in T
    PROVE  Nat \subseteq T
  <1>1. SUFFICES ASSUME Nat \ T # {} PROVE FALSE
    OBVIOUS
  <1>2. PICK x \in Nat \ T : \A y \in Nat \ T : x <= y
    BY <1>1, Least
  <1>3. x # 0 /\ x - 1 \in Nat
    BY <1>2
  <1>4. x - 1 \in T
    BY <1>2, <1>3
  <1> QED
    BY <1>2, <1>3, <1>4

-----------------------------------------------------------------------------
(* Text of digits, and the number it stands for.                           *)

\* The value of the first i digits of a text.
IsValue(value, text, k) ==
    /\ value \in [0 .. k -> Int]
    /\ value[0] = 0
    /\ \A i \in 1 .. k : value[i] = 10 * value[i - 1] + text[i] - 48

\* As Number defines it.
Value(text) ==
    LET value[i \in 0 .. Len(text)] == IF i = 0 THEN 0 ELSE 10 * value[i - 1] + text[i] - 48
    IN  value

\* It can be computed.
LEMMA ValueExists ==
    ASSUME NEW text \in Seq(Int)
    PROVE  \E value : IsValue(value, text, Len(text))
  <1> DEFINE T == {k \in Nat : k <= Len(text) => \E value : IsValue(value, text, k)}
  <1>1. Len(text) \in Nat /\ \A i \in 1 .. Len(text) : text[i] \in Int
    OBVIOUS
  <1>2. 0 \in T
    <2> DEFINE v == [i \in 0 .. 0 |-> 0]
    <2>1. IsValue(v, text, 0)
      BY DEF IsValue
    <2> HIDE DEF v
    <2> QED
      BY <2>1
  <1>3. ASSUME NEW k \in Nat, k \in T PROVE k + 1 \in T
    <2>1. SUFFICES ASSUME k + 1 <= Len(text)
                   PROVE  \E value : IsValue(value, text, k + 1)
      OBVIOUS
    <2>2. PICK v : IsValue(v, text, k)
      BY <1>1, <1>3, <2>1
    <2> DEFINE w == [i \in 0 .. k + 1 |-> IF i <= k THEN v[i] ELSE 10 * v[k] + text[k + 1] - 48]
    <2>3. /\ v \in [0 .. k -> Int] /\ v[0] = 0
          /\ \A i \in 1 .. k : v[i] = 10 * v[i - 1] + text[i] - 48
          /\ text[k + 1] \in Int
      BY <1>1, <2>1, <2>2 DEF IsValue
    <2>4. w \in [0 .. k + 1 -> Int] /\ w[0] = 0 /\ w[k + 1] = 10 * v[k] + text[k + 1] - 48
      BY <2>3
    <2>5. \A i \in 0 .. k : w[i] = v[i]
      OBVIOUS
    <2> HIDE DEF w
    <2>6. ASSUME NEW i \in 1 .. k + 1 PROVE w[i] = 10 * w[i - 1] + text[i] - 48
      <3>1. CASE i = k + 1
        <4>1. w[i - 1] = v[k]
          BY <2>5, <3>1
        <4> QED
          BY <2>4, <3>1, <4>1
      <3>2. CASE i # k + 1
        <4>1. i \in 1 .. k /\ i - 1 \in 0 .. k /\ i \in 0 .. k
          BY <3>2
        <4> QED
          BY <2>3, <2>5, <4>1
      <3> QED
        BY <3>1, <3>2
    <2> QED
      BY <2>4, <2>6 DEF IsValue
  <1>4. Nat \subseteq T
    <2> HIDE DEF T
    <2> QED
      BY <1>2, <1>3, Induction
  <1> QED
    BY <1>1, <1>4

\* There is one such function, so the recursion defines it.
LEMMA ValueIs ==
    ASSUME NEW text \in Seq(Int)
    PROVE  IsValue(Value(text), text, Len(text))
  <1>1. PICK v : IsValue(v, text, Len(text))
    BY ValueExists
  <1>2. Len(text) \in Nat /\ \A i \in 1 .. Len(text) : text[i] \in Int
    OBVIOUS
  <1>3. v = [i \in 0 .. Len(text) |-> IF i = 0 THEN 0 ELSE 10 * v[i - 1] + text[i] - 48]
    BY <1>1, <1>2 DEF IsValue
  <1> DEFINE w == Value(text)
  <1>4. w = [i \in 0 .. Len(text) |-> IF i = 0 THEN 0 ELSE 10 * w[i - 1] + text[i] - 48]
    BY <1>3, Zenon DEF Value
  <1> HIDE DEF w
  <1>5. w[0] = 0 /\ \A i \in 1 .. Len(text) : w[i] = 10 * w[i - 1] + text[i] - 48
    <2>1. \A i \in 0 .. Len(text) : w[i] = IF i = 0 THEN 0 ELSE 10 * w[i - 1] + text[i] - 48
      BY <1>4, Zenon
    <2>2. \A i \in 1 .. Len(text) : i \in 0 .. Len(text) /\ i # 0
      BY <1>2
    <2>3. 0 \in 0 .. Len(text)
      BY <1>2
    <2> QED
      BY <2>1, <2>2, <2>3, Zenon
  <1>6. \A i \in 0 .. Len(text) : w[i] = v[i]
    <2> DEFINE T == {k \in Nat : k <= Len(text) => w[k] = v[k]}
    <2>1. 0 \in T
      BY <1>1, <1>5 DEF IsValue
    <2>2. ASSUME NEW k \in Nat, k \in T PROVE k + 1 \in T
      <3>1. SUFFICES ASSUME k + 1 <= Len(text) PROVE w[k + 1] = v[k + 1]
        OBVIOUS
      <3>2. k + 1 \in 1 .. Len(text) /\ (k + 1) - 1 = k
        BY <1>2, <3>1
      <3>3. w[k + 1] = 10 * w[k] + text[k + 1] - 48 /\ v[k + 1] = 10 * v[k] + text[k + 1] - 48
        BY <1>1, <1>5, <3>2 DEF IsValue
      <3>4. w[k] = v[k]
        BY <1>2, <2>2, <3>1
      <3> QED
        BY <3>3, <3>4
    <2>3. Nat \subseteq T
      <3> HIDE DEF T
      <3> QED
        BY <2>1, <2>2, Induction
    <2> QED
      BY <1>2, <2>3
  <1>7. w = v
    <2>1. w = [i \in 0 .. Len(text) |-> w[i]]
      BY <1>4, Zenon
    <2>2. v = [i \in 0 .. Len(text) |-> v[i]]
      BY <1>1 DEF IsValue
    <2> QED
      BY <1>6, <2>1, <2>2, Zenon
  <1> QED
    BY <1>1, <1>7 DEF w

\* A number is ten times its quotient and its last digit.
LEMMA Division ==
    \A n \in Nat :
       /\ n \div 10 \in Nat /\ n % 10 \in 0 .. 9 /\ n = 10 * (n \div 10) + (n % 10)
       /\ n >= 10 => n \div 10 < n
  <1>1. SUFFICES ASSUME NEW n \in Nat
                 PROVE  /\ n \div 10 \in Nat /\ n % 10 \in 0 .. 9
                        /\ n = 10 * (n \div 10) + (n % 10)
                        /\ n >= 10 => n \div 10 < n
    OBVIOUS
  <1>2. n = 10 * (n \div 10) + (n % 10) /\ n \div 10 \in Int /\ n % 10 \in 0 .. 9
    OBVIOUS
  <1> QED
    BY <1>2

\* What to_string gives for n, if text has it for the smaller ones.
TextOf(text, n) == IF n < 10 THEN <<48 + n>> ELSE text[n \div 10] \o <<48 + (n % 10)>>

IsText(text, k) ==
    /\ text \in [0 .. k -> Seq(Digit)]
    /\ \A n \in 0 .. k : text[n] = TextOf(text, n)

\* A digit is a text of digits, ...
LEMMA OneDigit ==
    ASSUME NEW d \in 0 .. 9
    PROVE  <<48 + d>> \in Seq(Digit)
  <1>1. 48 + d \in Digit
    BY DEF Digit
  <1> QED
    BY <1>1

\* ... and so is a text with one digit more.
LEMMA MoreDigits ==
    ASSUME NEW s \in Seq(Digit), NEW d \in 0 .. 9
    PROVE  s \o <<48 + d>> \in Seq(Digit)
  <1>1. <<48 + d>> \in Seq(Digit)
    BY OneDigit
  <1> QED
    BY <1>1, ConcatProperties

\* Nothing but the smaller ones matters.
LEMMA SameText ==
    ASSUME NEW n \in Nat, NEW v, NEW w, n >= 10 => v[n \div 10] = w[n \div 10]
    PROVE  TextOf(v, n) = TextOf(w, n)
  <1>1. CASE n < 10
    BY <1>1, Zenon DEF TextOf
  <1>2. CASE ~(n < 10)
    <2>1. n >= 10
      BY <1>2
    <2> QED
      BY <2>1, Zenon DEF TextOf
  <1> QED
    BY <1>1, <1>2

\* It can be computed, in one way.
LEMMA TextExists == \A k \in Nat : \E text : IsText(text, k)
  <1> DEFINE T == {k \in Nat : \E text : IsText(text, k)}
  <1>1. 0 \in T
    <2> DEFINE v == [n \in 0 .. 0 |-> <<48>>]
    <2>1. <<48>> \in Seq(Digit)
      BY OneDigit
    <2>2. v \in [0 .. 0 -> Seq(Digit)] /\ v[0] = <<48>>
      BY <2>1
    <2>3. TextOf(v, 0) = <<48>>
      BY DEF TextOf
    <2> HIDE DEF v
    <2>4. \A n \in 0 .. 0 : n = 0
      OBVIOUS
    <2>5. IsText(v, 0)
      BY <2>2, <2>3, <2>4, Zenon DEF IsText
    <2> QED
      BY <2>5
  <1>2. ASSUME NEW k \in Nat, k \in T PROVE k + 1 \in T
    <2>1. PICK v : IsText(v, k)
      BY <1>2
    <2> DEFINE w == [n \in 0 .. k + 1 |-> IF n <= k THEN v[n] ELSE TextOf(v, k + 1)]
    <2>2. v \in [0 .. k -> Seq(Digit)]
      BY <2>1, Zenon DEF IsText
    <2>8. \A n \in 0 .. k : v[n] = TextOf(v, n)
      BY <2>1, Zenon DEF IsText
    <2>3. /\ \A n \in 0 .. k : w[n] = v[n]
          /\ w[k + 1] = TextOf(v, k + 1)
      OBVIOUS
    <2>4. TextOf(v, k + 1) \in Seq(Digit)
      <3> DEFINE n == k + 1
                 r == n % 10
      <3>1. n \in Nat /\ (n < 10 => n \in 0 .. 9) /\ r \in 0 .. 9
            /\ (~(n < 10) => n \div 10 \in 0 .. k)
        BY Division
      <3>2. TextOf(v, n) = IF n < 10 THEN <<48 + n>> ELSE v[n \div 10] \o <<48 + r>>
        BY DEF TextOf
      <3> HIDE DEF n, r
      <3>3. CASE n < 10
        BY <3>1, <3>2, <3>3, OneDigit DEF n
      <3>4. CASE ~(n < 10)
        <4>1. v[n \div 10] \in Seq(Digit)
          BY <2>2, <3>1, <3>4
        <4>2. v[n \div 10] \o <<48 + r>> \in Seq(Digit)
          BY <3>1, <4>1, MoreDigits
        <4> QED
          BY <3>2, <3>4, <4>2 DEF n
      <3> QED
        BY <3>3, <3>4
    <2>5. w \in [0 .. k + 1 -> Seq(Digit)]
      BY <2>2, <2>4
    <2> HIDE DEF w
    <2>6. ASSUME NEW n \in 0 .. k + 1 PROVE w[n] = TextOf(w, n)
      <3>1. n >= 10 => n \div 10 \in 0 .. k
        BY Division
      <3>2. TextOf(w, n) = TextOf(v, n)
        BY <2>3, <3>1, SameText
      <3>3. w[n] = TextOf(v, n)
        <4>1. CASE n = k + 1
          BY <2>3, <4>1
        <4>2. CASE n # k + 1
          <5>1. n \in 0 .. k
            BY <4>2
          <5> QED
            BY <2>3, <2>8, <5>1, Zenon
        <4> QED
          BY <4>1, <4>2
      <3> QED
        BY <3>2, <3>3, Zenon
    <2>7. IsText(w, k + 1)
      BY <2>5, <2>6, Zenon DEF IsText
    <2> QED
      BY <2>7
  <1> HIDE DEF T
  <1>3. Nat \subseteq T
    BY <1>1, <1>2, Induction
  <1> QED
    BY <1>3 DEF T

\* Two that can be computed agree.
LEMMA TextUnique ==
    ASSUME NEW k \in Nat, NEW m \in Nat, NEW v, NEW w, IsText(v, k), IsText(w, m)
    PROVE  \A n \in Nat : n <= k /\ n <= m => v[n] = w[n]
  <1> DEFINE B == {n \in Nat : n <= k /\ n <= m /\ v[n] # w[n]}
  <1>1. SUFFICES ASSUME B # {} PROVE FALSE
    OBVIOUS
  <1>2. PICK n \in B : \A j \in B : n <= j
    <2>1. B \subseteq Nat
      OBVIOUS
    <2> HIDE DEF B
    <2> QED
      BY <1>1, <2>1, Least
  <1>3. n \in Nat /\ n <= k /\ n <= m /\ v[n] # w[n]
    BY <1>2
  <1>4. v[n] = TextOf(v, n) /\ w[n] = TextOf(w, n)
    <2>1. n \in 0 .. k /\ n \in 0 .. m
      BY <1>3
    <2> QED
      BY <2>1, Zenon DEF IsText
  <1>5. n >= 10 => v[n \div 10] = w[n \div 10]
    <2>1. n >= 10 => n \div 10 \in Nat /\ n \div 10 < n
      BY <1>3, Division
    <2>2. n >= 10 => n \div 10 \notin B
      BY <1>2, <1>3, <2>1
    <2> QED
      BY <1>3, <2>1, <2>2
  <1> QED
    BY <1>3, <1>4, <1>5, SameText, Zenon

\* So the recursion defines to_string for every number.
LEMMA TextIs ==
    /\ Text \in [Nat -> Seq(Digit)]
    /\ \A n \in Nat : Text[n] = TextOf(Text, n)
  <1> DEFINE g == [k \in Nat |-> CHOOSE text : IsText(text, k)]
             f == [n \in Nat |-> g[n][n]]
  <1>1. ASSUME NEW k \in Nat PROVE IsText(g[k], k)
    <2>1. \E text : IsText(text, k)
      BY TextExists
    <2>2. g[k] = CHOOSE text : IsText(text, k)
      OBVIOUS
    <2> QED
      BY <2>1, <2>2, Zenon
  <1> HIDE DEF g
  <1>2. ASSUME NEW n \in Nat PROVE f[n] \in Seq(Digit) /\ f[n] = TextOf(f, n)
    <2>1. /\ g[n] \in [0 .. n -> Seq(Digit)] /\ f[n] = g[n][n]
          /\ g[n][n] = TextOf(g[n], n)
      <3>1. n \in 0 .. n /\ f[n] = g[n][n]
        OBVIOUS
      <3> HIDE DEF f
      <3> QED
        BY <1>1, <3>1, Zenon DEF IsText
    <2>2. n >= 10 => n \div 10 \in Nat /\ n \div 10 < n
      BY Division
    <2>3. n >= 10 => f[n \div 10] = g[n][n \div 10]
      <3>1. SUFFICES ASSUME n >= 10 PROVE f[n \div 10] = g[n][n \div 10]
        OBVIOUS
      <3> DEFINE m == n \div 10
      <3>2. m \in Nat /\ m < n
        BY <2>2, <3>1
      <3> HIDE DEF m
      <3>3. IsText(g[m], m) /\ IsText(g[n], n)
        BY <1>1, <3>2
      <3>4. g[m][m] = g[n][m]
        BY <3>2, <3>3, TextUnique
      <3>5. f[m] = g[m][m]
        BY <3>2
      <3> QED
        BY <3>4, <3>5 DEF m
    <2>4. f[n] \in Seq(Digit)
      BY <2>1
    <2> HIDE DEF f
    <2>5. f[n] = TextOf(f, n)
      BY <2>1, <2>3, SameText, Zenon
    <2> QED
      BY <2>4, <2>5
  <1>3. f = [n \in Nat |-> f[n]]
    OBVIOUS
  <1> HIDE DEF f
  <1>7. \A n \in Nat : f[n] = TextOf(f, n)
    BY <1>2, Zenon
  <1>4. f = [n \in Nat |-> TextOf(f, n)]
    BY <1>3, <1>7, Zenon
  <1>5. Text = [n \in Nat |-> TextOf(Text, n)]
    BY <1>4, Zenon DEF Text, TextOf
  <1>6. \A n \in Nat : Text[n] = TextOf(Text, n)
    BY <1>5, Zenon
  <1>8. ASSUME NEW n \in Nat PROVE Text[n] = f[n]
    <2> DEFINE B == {i \in Nat : Text[i] # f[i]}
    <2>1. SUFFICES ASSUME B # {} PROVE FALSE
      OBVIOUS
    <2>2. PICK i \in B : \A j \in B : i <= j
      <3>1. B \subseteq Nat
        OBVIOUS
      <3> HIDE DEF B
      <3> QED
        BY <2>1, <3>1, Least
    <2>3. Text[i] = TextOf(Text, i) /\ f[i] = TextOf(f, i) /\ i \in Nat /\ Text[i] # f[i]
      <3>1. i \in Nat /\ Text[i] # f[i]
        BY <2>2
      <3> QED
        BY <1>6, <1>7, <3>1, Zenon
    <2>4. i >= 10 => Text[i \div 10] = f[i \div 10]
      <3>1. i >= 10 => i \div 10 \in Nat /\ i \div 10 < i
        BY <2>3, Division
      <3>2. i >= 10 => i \div 10 \notin B
        BY <2>2, <2>3, <3>1
      <3> QED
        BY <3>1, <3>2
    <2> QED
      BY <2>3, <2>4, SameText, Zenon
  <1>9. Text = [n \in Nat |-> Text[n]]
    BY <1>5, Zenon
  <1>10. \A n \in Nat : Text[n] \in Seq(Digit)
    BY <1>2, <1>8, Zenon
  <1>11. Text \in [Nat -> Seq(Digit)]
    BY <1>9, <1>10, Zenon
  <1> QED
    BY <1>6, <1>11, Zenon

\* The digits strtol reads.
Leading(text, i) == \A j \in 1 .. i : text[j] \in Digit

Count(text) ==
    CHOOSE i \in 0 .. Len(text) :
       Leading(text, i) /\ \A k \in 0 .. Len(text) : Leading(text, k) => k <= i

\* Their value, with names for the parts of its definition.
LEMMA MagnitudeIs == \A text : Magnitude(text) = Value(text)[Count(text)]
  BY Zenon DEF Magnitude, Value, Count, Leading

\* The digits a text begins with.
LEMMA CountIs ==
    ASSUME NEW text, Len(text) \in Nat
    PROVE  /\ Count(text) \in 0 .. Len(text) /\ Leading(text, Count(text))
           /\ \A k \in 0 .. Len(text) : Leading(text, k) => k <= Count(text)
  <1> DEFINE n == Len(text)
             B == {m \in Nat : m <= n /\ Leading(text, n - m)}
  <1>1. n \in B
    BY DEF Leading
  <1>2. PICK m \in B : \A j \in B : m <= j
    <2>1. B \subseteq Nat /\ B # {}
      BY <1>1
    <2> HIDE DEF B
    <2> QED
      BY <2>1, Least
  <1>3. m \in Nat /\ m <= n /\ Leading(text, n - m) /\ n - m \in 0 .. n
    BY <1>2
  <1>4. ASSUME NEW k \in 0 .. n, Leading(text, k) PROVE k <= n - m
    <2>1. n - (n - k) = k /\ n - k \in Nat /\ n - k <= n
      OBVIOUS
    <2>2. n - k \in B
      BY <1>4, <2>1
    <2>3. m <= n - k
      BY <1>2, <2>2
    <2> QED
      BY <1>3, <2>3
  <1>5. \E i \in 0 .. n : Leading(text, i) /\ \A k \in 0 .. n : Leading(text, k) => k <= i
    BY <1>3, <1>4
  <1> QED
    BY <1>5, Zenon DEF Count

\* What digits stand for is a natural number.
LEMMA LeadingValue ==
    ASSUME NEW text \in Seq(Int), NEW n \in 0 .. Len(text), Leading(text, n)
    PROVE  Value(text)[n] \in Nat
  <1> DEFINE v == Value(text)
             T == {k \in Nat : k <= n => v[k] \in Nat}
  <1>1. IsValue(v, text, Len(text)) /\ Len(text) \in Nat
    BY ValueIs
  <1> HIDE DEF v
  <1>2. 0 \in T
    BY <1>1 DEF IsValue
  <1>3. ASSUME NEW k \in Nat, k \in T PROVE k + 1 \in T
    <2>1. SUFFICES ASSUME k + 1 <= n PROVE v[k + 1] \in Nat
      OBVIOUS
    <2>2. k + 1 \in 1 .. Len(text) /\ (k + 1) - 1 = k /\ k + 1 \in 1 .. n
      BY <1>1, <2>1
    <2>3. v[k] \in Nat
      BY <1>3, <2>1
    <2>4. v[k + 1] = 10 * v[k] + text[k + 1] - 48
      BY <1>1, <2>2 DEF IsValue
    <2>5. text[k + 1] \in 48 .. 57
      BY <2>2 DEF Leading, Digit
    <2>6. PICK x \in Nat, y \in 48 .. 57 : x = v[k] /\ y = text[k + 1]
      BY <2>3, <2>5
    <2>7. v[k + 1] = 10 * x + y - 48
      BY <2>4, <2>6
    <2>8. 10 * x + y - 48 \in Nat
      OBVIOUS
    <2> QED
      BY <2>7, <2>8
  <1> HIDE DEF T
  <1>4. Nat \subseteq T
    BY <1>2, <1>3, Induction
  <1> QED
    BY <1>4 DEF T, v

\* Digits stand for a number that is not negative, whatever is behind them.
LEMMA MagnitudeType ==
    ASSUME NEW text \in Seq(Int)
    PROVE  Magnitude(text) \in Nat
  <1>1. Len(text) \in Nat
    OBVIOUS
  <1>2. Count(text) \in 0 .. Len(text) /\ Leading(text, Count(text))
    BY <1>1, CountIs
  <1> QED
    BY <1>2, LeadingValue, MagnitudeIs

\* A text of digits is read to its end.
LEMMA MagnitudeOfDigits ==
    ASSUME NEW text \in Seq(Digit)
    PROVE  text \in Seq(Int) /\ Magnitude(text) = Value(text)[Len(text)]
  <1>1. Len(text) \in Nat /\ \A i \in 1 .. Len(text) : text[i] \in Digit
    OBVIOUS
  <1>2. text \in Seq(Int)
    BY DEF Digit
  <1>3. Leading(text, Len(text))
    BY <1>1 DEF Leading
  <1>4. Count(text) = Len(text)
    BY <1>1, <1>3, CountIs
  <1> QED
    BY <1>2, <1>4, MagnitudeIs

\* A digit more.
LEMMA MagnitudeAppend ==
    ASSUME NEW s \in Seq(Digit), NEW d \in 0 .. 9
    PROVE  Magnitude(s \o <<48 + d>>) = 10 * Magnitude(s) + d
  <1> DEFINE t == s \o <<48 + d>>
             n == Len(s)
             v == Value(s)
             w == Value(t)
  <1>1. t \in Seq(Digit)
    BY MoreDigits
  <1>2. /\ n \in Nat /\ Len(t) = n + 1 /\ t[n + 1] = 48 + d
        /\ \A i \in 1 .. n : t[i] = s[i]
    OBVIOUS
  <1>3. /\ IsValue(v, s, n) /\ Magnitude(s) = v[n]
        /\ IsValue(w, t, n + 1) /\ Magnitude(t) = w[n + 1]
    <2>1. s \in Seq(Int) /\ t \in Seq(Int)
      BY <1>1, MagnitudeOfDigits
    <2>2. IsValue(v, s, n) /\ IsValue(w, t, Len(t))
      BY <2>1, ValueIs
    <2>3. Magnitude(s) = v[n] /\ Magnitude(t) = w[Len(t)]
      BY <1>1, MagnitudeOfDigits
    <2> QED
      BY <1>2, <2>2, <2>3
  <1> HIDE DEF t, n, v, w
  <1> DEFINE T == {k \in Nat : k <= n => w[k] = v[k]}
  <1>4. 0 \in T
    BY <1>3 DEF IsValue
  <1>5. ASSUME NEW k \in Nat, k \in T PROVE k + 1 \in T
    <2>1. SUFFICES ASSUME k + 1 <= n PROVE w[k + 1] = v[k + 1]
      OBVIOUS
    <2>2. k + 1 \in 1 .. n /\ k + 1 \in 1 .. n + 1 /\ (k + 1) - 1 = k
      BY <1>2, <2>1
    <2>3. v[k + 1] = 10 * v[k] + s[k + 1] - 48 /\ w[k + 1] = 10 * w[k] + t[k + 1] - 48
      BY <1>3, <2>2 DEF IsValue
    <2>4. w[k] = v[k]
      BY <1>2, <1>5, <2>1
    <2> QED
      BY <1>2, <2>2, <2>3, <2>4
  <1> HIDE DEF T
  <1>6. Nat \subseteq T
    BY <1>4, <1>5, Induction
  <1>7. w[n] = v[n]
    BY <1>2, <1>6 DEF T
  <1>8. w[n + 1] = 10 * w[n] + t[n + 1] - 48 /\ v[n] \in Int
    BY <1>2, <1>3 DEF IsValue
  <1> QED
    BY <1>2, <1>3, <1>7, <1>8 DEF t

\* Reading digits undoes writing them.
LEMMA MagnitudeOfText ==
    \A n \in Nat : Text[n] \in Seq(Digit) /\ Text[n] # <<>> /\ Magnitude(Text[n]) = n
  <1> DEFINE B == {n \in Nat : Magnitude(Text[n]) # n}
  <1>1. \A n \in Nat : Text[n] \in Seq(Digit)
    <2>1. Text \in [Nat -> Seq(Digit)]
      BY TextIs, Zenon
    <2> QED
      BY <2>1, Zenon
  <1>6. \A n \in Nat : Text[n] = TextOf(Text, n)
    BY TextIs, Zenon
  <1>2. ASSUME NEW n \in 0 .. 9 PROVE Magnitude(<<48 + n>>) = n
    <2>1. <<>> \in Seq(Digit) /\ <<>> \in Seq(Int) /\ <<>> \o <<48 + n>> = <<48 + n>>
      OBVIOUS
    <2>2. Magnitude(<<>>) = 0
      BY <2>1, MagnitudeOfDigits, ValueIs DEF IsValue
    <2>3. Magnitude(<<>> \o <<48 + n>>) = 10 * Magnitude(<<>>) + n
      BY <2>1, MagnitudeAppend
    <2> QED
      BY <2>1, <2>2, <2>3
  <1>3. ASSUME NEW n \in Nat, n >= 10
        PROVE  Magnitude(Text[n]) = 10 * Magnitude(Text[n \div 10]) + (n % 10)
    <2>1. n \div 10 \in Nat /\ n % 10 \in 0 .. 9
      BY Division
    <2>2. Text[n] = Text[n \div 10] \o <<48 + (n % 10)>>
      <3>1. ~(n < 10)
        BY <1>3
      <3> QED
        BY <1>6, <3>1, Zenon DEF TextOf
    <2> DEFINE s == Text[n \div 10]
               d == n % 10
    <2>3. s \in Seq(Digit) /\ d \in 0 .. 9
      BY <1>1, <2>1
    <2> HIDE DEF s, d
    <2>4. Magnitude(s \o <<48 + d>>) = 10 * Magnitude(s) + d
      BY <2>3, MagnitudeAppend
    <2> QED
      BY <2>2, <2>4 DEF s, d
  <1>4. B = {}
    <2>1. SUFFICES ASSUME B # {} PROVE FALSE
      OBVIOUS
    <2>2. PICK n \in B : \A j \in B : n <= j
      <3>1. B \subseteq Nat
        OBVIOUS
      <3> HIDE DEF B
      <3> QED
        BY <2>1, <3>1, Least
    <2>3. n \in Nat /\ Magnitude(Text[n]) # n
      BY <2>2
    <2>4. CASE n < 10
      <3>1. Text[n] = <<48 + n>>
        BY <1>6, <2>3, <2>4, Zenon DEF TextOf
      <3>2. n \in 0 .. 9
        BY <2>3, <2>4
      <3> QED
        BY <1>2, <2>3, <3>1, <3>2
    <2>5. CASE ~(n < 10)
      <3>1. n >= 10
        BY <2>3, <2>5
      <3>2. n \div 10 \in Nat /\ n = 10 * (n \div 10) + (n % 10) /\ n \div 10 < n
        BY <2>3, <3>1, Division
      <3>3. n \div 10 \notin B
        BY <2>2, <2>3, <3>2
      <3>4. Magnitude(Text[n \div 10]) = n \div 10
        BY <3>2, <3>3
      <3> QED
        BY <1>3, <2>3, <3>1, <3>2, <3>4
    <2> QED
      BY <2>4, <2>5
  <1>5. \A n \in Nat : Text[n] # <<>>
    <2> TAKE n \in Nat
    <2>1. Text[n] = TextOf(Text, n)
      BY <1>6, Zenon
    <2>2. CASE n < 10
      <3>1. Text[n] = <<48 + n>>
        BY <2>1, <2>2, Zenon DEF TextOf
      <3> QED
        BY <3>1
    <2>3. CASE ~(n < 10)
      <3>1. n \div 10 \in Nat
        BY Division
      <3>2. Text[n \div 10] \in Seq(Digit)
        BY <1>1, <3>1
      <3>3. Len(Text[n \div 10] \o <<48 + (n % 10)>>) > 0
        BY <3>2
      <3>4. Text[n] = Text[n \div 10] \o <<48 + (n % 10)>>
        BY <2>1, <2>3, Zenon DEF TextOf
      <3> QED
        BY <3>3, <3>4
    <2> QED
      BY <2>2, <2>3
  <1> QED
    BY <1>1, <1>4, <1>5

\* Blanks are skipped as far as there are any.
LEMMA SkipBlanksIs ==
    ASSUME NEW text \in Seq(Int)
    PROVE  /\ SkipBlanks(text) \in Seq(Int)
           /\ text # <<>> /\ Head(text) \notin Blank => SkipBlanks(text) = text
  <1> DEFINE First(i) == /\ \A j \in 1 .. i - 1 : text[j] \in Blank
                         /\ i <= Len(text) => text[i] \notin Blank
             first == CHOOSE i \in 1 .. Len(text) + 1 : First(i)
  <1>1. Len(text) \in Nat
    OBVIOUS
  <1>2. \E i \in 1 .. Len(text) + 1 : First(i)
    <2> DEFINE B == {i \in Nat : i \in 1 .. Len(text) + 1 /\ (i <= Len(text) => text[i] \notin Blank)}
    <2>1. Len(text) + 1 \in B
      BY <1>1
    <2>2. PICK i \in B : \A j \in B : i <= j
      <3>1. B \subseteq Nat /\ B # {}
        BY <2>1
      <3> HIDE DEF B
      <3> QED
        BY <3>1, Least
    <2>3. i \in 1 .. Len(text) + 1 /\ (i <= Len(text) => text[i] \notin Blank)
      BY <2>2
    <2>4. ASSUME NEW j \in 1 .. i - 1 PROVE text[j] \in Blank
      <3>1. j \in Nat /\ j \in 1 .. Len(text) + 1 /\ j <= Len(text) /\ ~(i <= j)
        BY <1>1, <2>3
      <3>2. j \notin B
        BY <2>2, <3>1
      <3> QED
        BY <3>1, <3>2
    <2> QED
      BY <2>3, <2>4
  <1>3. first \in 1 .. Len(text) + 1 /\ First(first)
    <2> HIDE DEF First
    <2> QED
      BY <1>2, Zenon
  <1>4. SkipBlanks(text) = SubSeq(text, first, Len(text))
    BY Zenon DEF SkipBlanks
  <1>5. text # <<>> /\ Head(text) \notin Blank => first = 1
    <2>1. SUFFICES ASSUME text # <<>>, Head(text) \notin Blank, first # 1 PROVE FALSE
      OBVIOUS
    <2>2. 1 \in 1 .. first - 1
      BY <1>1, <1>3, <2>1
    <2>3. text[1] \in Blank
      BY <1>3, <2>2
    <2> QED
      BY <2>1, <2>3
  <1> HIDE DEF first
  <1>6. SubSeq(text, first, Len(text)) \in Seq(Int)
    BY <1>1, <1>3
  <1>7. SubSeq(text, 1, Len(text)) = text
    BY <1>1
  <1> QED
    BY <1>4, <1>5, <1>6, <1>7

\* What strtol and atoi give is within their range, whatever the text.
LEMMA NumberType ==
    ASSUME NEW text \in Seq(Int)
    PROVE  Number(text) \in CInt
  <1>1. MaxInt \in Nat
    BY CodecAssumption
  <1>2. \A n \in Int : Clamp(n) \in CInt
    BY <1>1 DEF Clamp, CInt, MinInt
  <1> DEFINE rest == SkipBlanks(text)
  <1>3. rest \in Seq(Int)
    BY SkipBlanksIs
  <1> HIDE DEF rest
  <1>4. Magnitude(rest) \in Int
    BY <1>3, MagnitudeType
  <1>5. CASE rest = <<>>
    <2>1. Number(text) = Clamp(Magnitude(rest))
      BY <1>5, Zenon DEF Number, rest
    <2> QED
      BY <1>2, <1>4, <2>1
  <1>6. CASE rest # <<>>
    <2>1. Tail(rest) \in Seq(Int)
      BY <1>3, <1>6
    <2>2. Magnitude(Tail(rest)) \in Int /\ -Magnitude(Tail(rest)) \in Int
      <3> DEFINE m == Magnitude(Tail(rest))
      <3>1. m \in Nat
        BY <2>1, MagnitudeType
      <3> HIDE DEF m
      <3>2. m \in Int /\ -m \in Int
        BY <3>1
      <3> QED
        BY <3>2 DEF m
    <2>3. \/ Number(text) = Clamp(-Magnitude(Tail(rest)))
          \/ Number(text) = Clamp(Magnitude(Tail(rest)))
          \/ Number(text) = Clamp(Magnitude(rest))
      BY Zenon DEF Number, rest
    <2> QED
      BY <1>2, <1>4, <2>2, <2>3, Zenon
  <1> QED
    BY <1>5, <1>6

\* Digits within the range are read as they were written.
LEMMA NumberOfText ==
    ASSUME NEW n \in 0 .. MaxInt
    PROVE  Number(Text[n]) = n
  <1>1. n \in Nat /\ MaxInt \in Nat
    BY CodecAssumption
  <1> DEFINE s == Text[n]
  <1>2. s \in Seq(Digit) /\ s # <<>> /\ Magnitude(s) = n
    BY <1>1, MagnitudeOfText
  <1> HIDE DEF s
  <1>3. s \in Seq(Int) /\ Head(s) \in Digit
    <2>1. Head(s) \in Digit /\ Len(s) \in Nat /\ \A i \in 1 .. Len(s) : s[i] \in Digit
      BY <1>2
    <2>2. s \in Seq(Int)
      BY <1>2 DEF Digit
    <2> QED
      BY <2>1, <2>2
  <1>4. Head(s) \notin Blank /\ Head(s) # Minus /\ Head(s) # Plus
    <2>1. \A d \in Digit : d \notin Blank /\ d # Minus /\ d # Plus
      BY DEF Digit, Blank, Minus, Plus
    <2> QED
      BY <1>3, <2>1, Zenon
  <1>5. SkipBlanks(s) = s
    BY <1>2, <1>3, <1>4, SkipBlanksIs
  <1>6. Number(s) = Clamp(Magnitude(s))
    BY <1>4, <1>5, Zenon DEF Number
  <1>7. Clamp(n) = n
    BY <1>1 DEF Clamp, MinInt
  <1> QED
    BY <1>2, <1>6, <1>7 DEF s

\* Reading a number undoes writing it, whatever its sign: what strtol and atoi
\* make of the text std::to_string gives for an int is that int.
THEOREM NumberOfToString ==
    \A n \in CInt : /\ ToString(n) \in Seq(Digit \cup {Minus}) /\ ToString(n) # <<>>
                    /\ Number(ToString(n)) = n
  <1>1. SUFFICES ASSUME NEW n \in CInt
                 PROVE  /\ ToString(n) \in Seq(Digit \cup {Minus}) /\ ToString(n) # <<>>
                        /\ Number(ToString(n)) = n
    OBVIOUS
  <1>2. MaxInt \in Nat /\ n \in Int /\ MinInt <= n /\ n <= MaxInt
    BY CodecAssumption DEF CInt, MinInt
  <1>3. CASE n < 0
    <2> DEFINE s == Text[-n]
               t == <<Minus>> \o s
    <2>1. -n \in Nat
      BY <1>2, <1>3
    <2>2. s \in Seq(Digit) /\ s # <<>> /\ Magnitude(s) = -n
      BY <2>1, MagnitudeOfText
    <2>3. ToString(n) = t
      BY <1>3 DEF ToString
    <2> HIDE DEF s
    <2>4. /\ t \in Seq(Digit \cup {Minus}) /\ t \in Seq(Int)
          /\ t # <<>> /\ Head(t) = Minus /\ Tail(t) = s
      BY <2>2 DEF Minus, Digit
    <2> HIDE DEF t
    <2>5. SkipBlanks(t) = t
      <3>1. Minus \notin Blank
        BY DEF Minus, Blank
      <3> QED
        BY <2>4, <3>1, SkipBlanksIs
    <2>6. Number(t) = Clamp(-Magnitude(s))
      <3>1. t # <<>> /\ Head(t) = Minus
        BY <2>4
      <3>2. Number(t) = Clamp(-Magnitude(Tail(t)))
        BY <2>5, <3>1, Zenon DEF Number
      <3> QED
        BY <2>4, <3>2, Zenon
    <2>7. Clamp(n) = n /\ -(-n) = n
      BY <1>2, <1>3 DEF Clamp, MinInt
    <2>8. Number(t) = n
      BY <2>2, <2>6, <2>7
    <2> QED
      BY <2>3, <2>4, <2>8
  <1>4. CASE ~(n < 0)
    <2>1. n \in 0 .. MaxInt /\ n \in Nat
      BY <1>2, <1>4
    <2>2. ToString(n) = Text[n]
      BY <1>4 DEF ToString
    <2>3. Text[n] \in Seq(Digit) /\ Text[n] # <<>> /\ Number(Text[n]) = n
      BY <2>1, MagnitudeOfText, NumberOfText
    <2>4. Text[n] \in Seq(Digit \cup {Minus})
      BY <2>3
    <2> QED
      BY <2>2, <2>3, <2>4
  <1> QED
    BY <1>3, <1>4

-----------------------------------------------------------------------------
(* Terminators.                                                            *)

\* A terminator begins here, or half of one is the last byte.
EndsAt(bytes, i) ==
    /\ bytes[i] = TerminatorByte1
    /\ i < Len(bytes) => bytes[i + 1] = TerminatorByte2

\* The first terminator is found, wherever it is.
LEMMA FindsFirst ==
    ASSUME NEW bytes, Len(bytes) \in Nat, NEW begin \in 1 .. Len(bytes) + 1,
           NEW e \in begin .. Len(bytes), EndsAt(bytes, e),
           \A i \in begin .. e - 1 : ~EndsAt(bytes, i)
    PROVE  FindTerminator(bytes, begin) =
             [end |-> e, next |-> IF e = Len(bytes) THEN e + 1 ELSE e + 2]
  <1> DEFINE Ends == {i \in begin .. Len(bytes) :
                        /\ bytes[i] = TerminatorByte1
                        /\ i < Len(bytes) => bytes[i + 1] = TerminatorByte2}
             first == CHOOSE i \in Ends : \A j \in Ends : i <= j
  <1>1. e \in Ends
    BY DEF EndsAt
  <1>2. \A j \in Ends : e <= j
    <2>1. SUFFICES ASSUME NEW j \in Ends, ~(e <= j) PROVE FALSE
      OBVIOUS
    <2>2. j \in begin .. e - 1 /\ EndsAt(bytes, j)
      BY <2>1 DEF EndsAt
    <2> QED
      BY <2>2
  <1>3. Ends # {} /\ Ends \subseteq Nat
    BY <1>1
  <1>4. FindTerminator(bytes, begin) =
          IF Ends = {} THEN [end |-> Len(bytes) + 1, next |-> Len(bytes) + 1]
          ELSE [end |-> first, next |-> IF first = Len(bytes) THEN first + 1 ELSE first + 2]
    BY DEF FindTerminator
  <1> HIDE DEF Ends
  <1>5. first \in Ends /\ \A j \in Ends : first <= j
    BY <1>1, <1>2, Zenon
  <1> HIDE DEF first
  <1>6. first = e
    <2>1. first <= e /\ e <= first
      BY <1>1, <1>2, <1>5
    <2>2. first \in Nat /\ e \in Nat
      BY <1>1, <1>3, <1>5
    <2> QED
      BY <2>1, <2>2
  <1> QED
    BY <1>3, <1>4, <1>6

\* Without one, the text goes on to the last byte.
LEMMA FindsNone ==
    ASSUME NEW bytes, NEW begin, \A i \in begin .. Len(bytes) : ~EndsAt(bytes, i)
    PROVE  FindTerminator(bytes, begin) = [end |-> Len(bytes) + 1, next |-> Len(bytes) + 1]
  BY DEF FindTerminator, EndsAt

\* Wherever it looks, it finds an end that is not before, and nothing that
\* ends the text sooner.
LEMMA Finds ==
    ASSUME NEW bytes, Len(bytes) \in Nat, NEW begin \in 1 .. Len(bytes) + 1
    PROVE  LET found == FindTerminator(bytes, begin)
           IN  /\ found.end \in begin .. Len(bytes) + 1
               /\ found.next \in found.end .. Len(bytes) + 1
               /\ \A i \in begin .. found.end - 1 : ~EndsAt(bytes, i)
  <1> DEFINE found == FindTerminator(bytes, begin)
             B == {i \in begin .. Len(bytes) : EndsAt(bytes, i)}
  <1>1. CASE B = {}
    <2>1. \A i \in begin .. Len(bytes) : ~EndsAt(bytes, i)
      BY <1>1
    <2>2. found = [end |-> Len(bytes) + 1, next |-> Len(bytes) + 1]
      BY <2>1, FindsNone
    <2> HIDE DEF found
    <2> QED
      BY <2>1, <2>2 DEF found
  <1>2. CASE B # {}
    <2>1. PICK e \in B : \A j \in B : e <= j
      <3>1. B \subseteq Nat
        OBVIOUS
      <3> HIDE DEF B
      <3> QED
        BY <1>2, <3>1, Least
    <2>2. e \in begin .. Len(bytes) /\ EndsAt(bytes, e)
      BY <2>1
    <2>3. \A i \in begin .. e - 1 : ~EndsAt(bytes, i)
      <3>1. SUFFICES ASSUME NEW i \in begin .. e - 1, EndsAt(bytes, i) PROVE FALSE
        OBVIOUS
      <3>2. i \in B /\ ~(e <= i)
        BY <2>2, <3>1
      <3> QED
        BY <2>1, <3>2
    <2>4. found = [end |-> e, next |-> IF e = Len(bytes) THEN e + 1 ELSE e + 2]
      BY <2>2, <2>3, FindsFirst
    <2> HIDE DEF found
    <2>5. found.end = e /\ found.next = IF e = Len(bytes) THEN e + 1 ELSE e + 2
      BY <2>4
    <2>6. found.end \in begin .. Len(bytes) + 1 /\ found.next \in found.end .. Len(bytes) + 1
      BY <2>2, <2>5
    <2> QED
      BY <2>3, <2>5, <2>6 DEF found
  <1> QED
    BY <1>1, <1>2

\* A text in which no terminator begins.
Clean(text) ==
    \A i \in 1 .. Len(text) :
       text[i] = TerminatorByte1 => i = Len(text) \/ text[i + 1] # TerminatorByte2

\* What lies before the first terminator is such.
LEMMA FoundIsClean ==
    ASSUME NEW bytes \in Seq(Byte), NEW begin \in 1 .. Len(bytes) + 1,
           NEW e \in begin .. Len(bytes) + 1, \A i \in begin .. e - 1 : ~EndsAt(bytes, i)
    PROVE  /\ SubSeq(bytes, begin, e - 1) \in Seq(Byte)
           /\ Len(SubSeq(bytes, begin, e - 1)) = e - begin
           /\ Clean(SubSeq(bytes, begin, e - 1))
  <1> DEFINE s == SubSeq(bytes, begin, e - 1)
  <1>1. /\ s \in Seq(Byte) /\ Len(s) = e - begin /\ Len(bytes) \in Nat
        /\ \A i \in 1 .. e - begin : s[i] = bytes[begin + i - 1]
    OBVIOUS
  <1> HIDE DEF s
  <1>2. ASSUME NEW i \in 1 .. Len(s), s[i] = TerminatorByte1, i # Len(s)
        PROVE  s[i + 1] # TerminatorByte2
    <2> DEFINE j == begin + i - 1
    <2>1. j \in begin .. e - 1 /\ j < Len(bytes) /\ i \in 1 .. e - begin /\ i + 1 \in 1 .. e - begin
          /\ begin + (i + 1) - 1 = j + 1
      BY <1>1, <1>2
    <2>2. bytes[j] = TerminatorByte1 /\ s[i + 1] = bytes[j + 1]
      BY <1>1, <1>2, <2>1
    <2> HIDE DEF j
    <2>3. ~EndsAt(bytes, j)
      BY <2>1
    <2> QED
      BY <2>1, <2>2, <2>3 DEF EndsAt
  <1> QED
    BY <1>1, <1>2 DEF s, Clean

-----------------------------------------------------------------------------
(* What the parser does with any payload.                                  *)

ThePayload == payload \in Seq(Byte) /\ Len(payload) \in Nat /\ start \in 1 .. Len(payload) + 1

\* A number is written in bytes.
LEMMA TextIsBytes ==
    ASSUME NEW n \in Nat
    PROVE  Text[n] \in Seq(Byte)
  <1>1. Text[n] \in Seq(Digit)
    BY MagnitudeOfText
  <1> QED
    BY <1>1 DEF Digit, Byte

LEMMA ToStringIsBytes ==
    ASSUME NEW n \in CInt
    PROVE  ToString(n) \in Seq(Byte)
  <1>1. ToString(n) \in Seq(Digit \cup {Minus})
    BY NumberOfToString
  <1> QED
    BY <1>1 DEF Digit, Minus, Byte

\* Bytes are numbers.
LEMMA BytesAreNumbers ==
    ASSUME NEW bytes \in Seq(Byte)
    PROVE  bytes \in Seq(Int)
  <1>1. Len(bytes) \in Nat /\ \A i \in 1 .. Len(bytes) : bytes[i] \in Byte
    OBVIOUS
  <1>2. \A byte \in Byte : byte \in Int
    BY DEF Byte
  <1> QED
    BY <1>1, <1>2

\* Whatever it is that atoi makes of a value, it is in the range of int.
LEMMA EncodingsAre ==
    ASSUME NEW value \in Seq(Byte), NEW terminated, NEW encoding \in Encodings(value, terminated)
    PROVE  encoding \in CInt
  <1>1. PICK behind \in Behind \cup {<<>>} : encoding = Number(value \o behind)
    BY Zenon DEF Encodings
  <1>2. value \in Seq(Int) /\ behind \in Seq(Int)
    <2>1. behind \in Seq(Byte)
      <3>1. <<>> \in Seq(Byte)
        OBVIOUS
      <3> QED
        BY <3>1, CodecAssumption
    <2> QED
      BY <2>1, BytesAreNumbers
  <1> DEFINE text == value \o behind
  <1>3. text \in Seq(Int)
    BY <1>2, ConcatProperties
  <1> HIDE DEF text
  <1>4. Number(text) \in CInt
    BY <1>3, NumberType
  <1> QED
    BY <1>1, <1>4 DEF text

\* A stored pair is a text of bytes in which no terminator begins, or a number.
LEMMA FieldsAre ==
    ASSUME fields \in Fields, NEW key, NEW value \in Seq(Byte), NEW terminated,
           OnKeyPair(key, value, terminated)
    PROVE  /\ fields' \in Fields
           /\ fields'.clientId \in {fields.clientId, value}
           /\ fields'.contactId \in {fields.contactId, value}
           /\ fields'.message \in {fields.message, value}
  <1>1. CASE key = 97
    <2>1. PICK encoding \in Encodings(value, terminated) :
            fields' = [fields EXCEPT !.encoding = encoding]
      BY <1>1 DEF OnKeyPair
    <2>2. encoding \in CInt
      BY EncodingsAre
    <2> QED
      BY <2>1, <2>2 DEF Fields
  <1>2. CASE key # 97
    <2> DEFINE S == Seq(Byte)
    <2>1. value \in S /\ fields \in [clientId : S, contactId : S, message : S, encoding : CInt]
      BY DEF Fields
    <2>2. fields' = [fields EXCEPT
                       !.clientId = IF key = 1 THEN value ELSE @,
                       !.contactId = IF key = 5 THEN value ELSE @,
                       !.message = IF key = 14 THEN value ELSE @]
      BY <1>2, Zenon DEF OnKeyPair
    <2>3. Fields = [clientId : S, contactId : S, message : S, encoding : CInt]
      BY Zenon DEF Fields
    <2> HIDE DEF S
    <2> QED
      BY <2>1, <2>2, <2>3
  <1> QED
    BY <1>1, <1>2

\* One round of the parser's loop, in terms of where it finds what.
LEMMA ParsePairIs ==
    ASSUME ThePayload, ParsePair
    PROVE  LET keyAt == FindTerminator(payload, start)
               valueAt == FindTerminator(payload, keyAt.next)
           IN  /\ start \in 1 .. Len(payload)
               /\ keyAt.end \in start .. Len(payload) + 1
               /\ keyAt.next \in keyAt.end .. Len(payload) + 1
               /\ valueAt.end \in keyAt.next .. Len(payload) + 1
               /\ valueAt.next \in valueAt.end .. Len(payload) + 1
               /\ SubSeq(payload, keyAt.next, valueAt.end - 1) \in Seq(Byte)
               /\ Clean(SubSeq(payload, keyAt.next, valueAt.end - 1))
  <1> DEFINE keyAt == FindTerminator(payload, start)
             valueAt == FindTerminator(payload, keyAt.next)
  <1>1. start # Len(payload) + 1
    BY DEF ParsePair, AtEnd
  <1>2. start \in 1 .. Len(payload)
    BY <1>1 DEF ThePayload
  <1>3. keyAt.end \in start .. Len(payload) + 1 /\ keyAt.next \in keyAt.end .. Len(payload) + 1
    BY Finds DEF ThePayload
  <1> DEFINE next == keyAt.next
  <1>4. next \in 1 .. Len(payload) + 1
    BY <1>2, <1>3
  <1> HIDE DEF next
  <1> DEFINE found == FindTerminator(payload, next)
  <1>5. /\ found.end \in next .. Len(payload) + 1 /\ found.next \in found.end .. Len(payload) + 1
        /\ \A i \in next .. found.end - 1 : ~EndsAt(payload, i)
    BY <1>4, Finds DEF ThePayload
  <1> DEFINE e == found.end
  <1>6. e \in next .. Len(payload) + 1 /\ \A i \in next .. e - 1 : ~EndsAt(payload, i)
    BY <1>5
  <1> HIDE DEF e
  <1>7. SubSeq(payload, next, e - 1) \in Seq(Byte) /\ Clean(SubSeq(payload, next, e - 1))
    BY <1>4, <1>6, FoundIsClean DEF ThePayload
  <1> QED
    BY <1>2, <1>3, <1>5, <1>7 DEF next, e

-----------------------------------------------------------------------------
(* The types.                                                              *)

\* What is sent is all that was built, and the header has its size.
SentWhole == status \in {"sent", "reading", "read"} => appended = 5 /\ size = Len(buffer)

CodecTyped == TypeOK /\ SentWhole

PairType == [key : {1, 4, 5, 14, 97}, value : Seq(Byte)]

\* There are five pairs, each with one of five keys and a value of bytes.
LEMMA PairsAre ==
    ASSUME relayed \in Fields
    PROVE  Len(Pairs) = 5 /\ \A n \in 1 .. 5 : Pairs[n] \in PairType
  <1>1. /\ relayed.clientId \in Seq(Byte) /\ relayed.contactId \in Seq(Byte)
        /\ relayed.message \in Seq(Byte) /\ relayed.encoding \in CInt
    BY DEF Fields
  <1>2. ToString(relayed.encoding) \in Seq(Byte)
    BY <1>1, ToStringIsBytes
  <1>3. /\ Len(Pairs) = 5
        /\ Pairs[1] = [key |-> 1, value |-> relayed.clientId]
        /\ Pairs[2] = [key |-> 5, value |-> relayed.contactId]
        /\ Pairs[3] = [key |-> 4, value |-> relayed.clientId]
        /\ Pairs[4] = [key |-> 14, value |-> relayed.message]
        /\ Pairs[5] = [key |-> 97, value |-> ToString(relayed.encoding)]
    BY DEF Pairs
  <1>4. /\ Pairs[1] \in PairType /\ Pairs[2] \in PairType /\ Pairs[3] \in PairType
        /\ Pairs[4] \in PairType /\ Pairs[5] \in PairType
    BY <1>1, <1>2, <1>3 DEF PairType
  <1> QED
    BY <1>3, <1>4

\* A pair in a packet: the key and the value, each with a terminator.
Extend(bytes, pair) == bytes \o Text[pair.key] \o Terminator \o pair.value \o Terminator

\* A packet with a pair more is a packet of bytes.
LEMMA ExtendIs ==
    ASSUME NEW bytes \in Seq(Byte), NEW pair \in PairType
    PROVE  Extend(bytes, pair) \in Seq(Byte)
  <1>1. Text[pair.key] \in Seq(Byte) /\ pair.value \in Seq(Byte)
    BY TextIsBytes DEF PairType
  <1>2. Terminator \in Seq(Byte)
    BY DEF Terminator, TerminatorByte1, TerminatorByte2, Byte
  <1> DEFINE key == Text[pair.key]
             value == pair.value
  <1>3. key \in Seq(Byte) /\ value \in Seq(Byte)
    BY <1>1
  <1> HIDE DEF key, value
  <1>4. bytes \o key \o Terminator \o value \o Terminator \in Seq(Byte)
    BY <1>2, <1>3
  <1> QED
    BY <1>4 DEF Extend, key, value

\* The fields of a message nobody has parsed yet.
LEMMA NewFields ==
    ASSUME NEW f \in [clientId : {<<>>}, contactId : {<<>>}, message : {<<>>}, encoding : Leftovers]
    PROVE  f \in Fields /\ f.clientId = <<>> /\ f.contactId = <<>> /\ f.message = <<>>
  <1>1. <<>> \in Seq(Byte)
    OBVIOUS
  <1> QED
    BY <1>1, CodecAssumption DEF Fields

\* What appending does, in terms of the pair.
LEMMA AppendPairIs ==
    ASSUME TypeOK, AppendPair
    PROVE  /\ appended \in 0 .. 4 /\ status = "building"
           /\ UNCHANGED <<payload, start, fields, relayed, size>>
           /\ \/ status' = "terminated" /\ UNCHANGED <<appended, buffer>>
              \/ /\ status' = "building" /\ appended' = appended + 1
                 /\ buffer' = Extend(buffer, Pairs[appended + 1])
  <1>1. Len(Pairs) = 5 /\ appended \in 0 .. Len(Pairs)
    BY PairsAre DEF TypeOK
  <1>2. appended < Len(Pairs) /\ status = "building" /\ UNCHANGED <<payload, start, fields, relayed, size>>
    BY DEF AppendPair
  <1>3. \/ status' = "terminated" /\ UNCHANGED <<appended, buffer>>
        \/ /\ status' = "building" /\ appended' = appended + 1
           /\ buffer' = Extend(buffer, Pairs[appended + 1])
    BY Zenon DEF AppendPair, Extend
  <1> QED
    BY <1>1, <1>2, <1>3

\* The payload size is at most the size of the buffer, cut to its field.
LEMMA SendIs ==
    ASSUME TypeOK, Send
    PROVE  /\ appended = 5 /\ UNCHANGED <<payload, start, fields, relayed, appended, buffer>>
           /\ \/ status' = "terminated" /\ UNCHANGED size
              \/ status' = "sent" /\ size' = Len(buffer) /\ size' \in 0 .. MaxSize - 1
  <1>1. Len(Pairs) = 5 /\ appended = Len(Pairs)
        /\ UNCHANGED <<payload, start, fields, relayed, appended, buffer>>
    BY PairsAre DEF TypeOK, Send
  <1>2. MaxSize \in Nat \ {0} /\ HeaderSize \in Nat /\ Len(buffer) \in Nat
    BY CodecAssumption DEF TypeOK
  <1>3. CASE HeaderSize + Len(buffer) >= MaxSize
    BY <1>1, <1>3 DEF Send
  <1>4. CASE ~(HeaderSize + Len(buffer) >= MaxSize)
    <2>1. size' = Len(buffer) % MaxSize /\ status' = "sent"
      BY <1>4 DEF Send
    <2>2. Len(buffer) \in 0 .. MaxSize - 1
      BY <1>2, <1>4
    <2> DEFINE n == Len(buffer)
    <2> HIDE DEF n
    <2>3. ASSUME n \in 0 .. MaxSize - 1 PROVE n % MaxSize = n
      BY <1>2, <2>3
    <2>4. size' = Len(buffer)
      BY <2>1, <2>2, <2>3 DEF n
    <2> QED
      BY <1>1, <2>1, <2>2, <2>4
  <1> QED
    BY <1>3, <1>4

\* The types hold at first, ...
LEMMA CodecTypedInit ==
    ASSUME Init
    PROVE  CodecTyped
  <1>1. fields \in Fields /\ relayed \in Fields
    BY NewFields DEF Init
  <1>2. Len(Pairs) = 5
    BY <1>1, PairsAre
  <1>3. /\ status = "idle" /\ payload = <<>> /\ start = 1 /\ appended = 0 /\ buffer = <<>>
        /\ size = 0
    BY DEF Init
  <1>4. <<>> \in Seq(Byte) /\ Len(<<>>) = 0 /\ 0 \in 0 .. MaxSize - 1
    BY CodecAssumption
  <1> QED
    BY <1>1, <1>2, <1>3, <1>4 DEF CodecTyped, TypeOK, SentWhole

\* ... after a round of the parser's loop, ...
LEMMA CodecTypedParse ==
    ASSUME CodecTyped, ParsePair
    PROVE  CodecTyped'
  <1> DEFINE keyAt == FindTerminator(payload, start)
             valueAt == FindTerminator(payload, keyAt.next)
             value == SubSeq(payload, keyAt.next, valueAt.end - 1)
             key == Number(SubSeq(payload, start, keyAt.end - 1))
  <1>1. ThePayload /\ fields \in Fields /\ relayed \in Fields /\ TypeOK
    BY DEF CodecTyped, TypeOK, ThePayload
  <1>2. /\ start \in 1 .. Len(payload) /\ keyAt.end \in start .. Len(payload) + 1
        /\ keyAt.next \in keyAt.end .. Len(payload) + 1
        /\ valueAt.end \in keyAt.next .. Len(payload) + 1
        /\ valueAt.next \in valueAt.end .. Len(payload) + 1
        /\ value \in Seq(Byte)
    BY <1>1, ParsePairIs
  <1>3. /\ status \in {"parsing", "reading"}
        /\ UNCHANGED <<payload, relayed, appended, buffer, size>>
        /\ \/ /\ status' = "terminated"
              /\ UNCHANGED <<start, fields>>
           \/ /\ OnKeyPair(key, value, valueAt.end <= Len(payload))
              /\ start' = valueAt.next
              /\ UNCHANGED status
    BY Zenon DEF ParsePair
  <1>4. fields' \in Fields
    <2>1. CASE UNCHANGED fields
      BY <1>1, <2>1
    <2>2. CASE OnKeyPair(key, value, valueAt.end <= Len(payload))
      <3> HIDE DEF key, value, valueAt
      <3> QED
        BY <1>1, <1>2, <2>2, FieldsAre, Zenon
    <2> QED
      BY <1>3, <2>1, <2>2
  <1>5. start' \in 1 .. Len(payload) + 1
    <2>1. Len(payload) \in Nat
      BY <1>1 DEF ThePayload
    <2> HIDE DEF keyAt, valueAt, key, value
    <2>2. valueAt.next \in 1 .. Len(payload) + 1 /\ start \in 1 .. Len(payload) + 1
      BY <1>2, <2>1
    <2> QED
      BY <1>3, <2>2
  <1>6. status' \in {"parsing", "reading", "terminated"} /\ (status' = "reading" => status = "reading")
    <2> HIDE DEF keyAt, valueAt, key, value
    <2> QED
      BY <1>3
  <1> HIDE DEF keyAt, valueAt, key, value
  <1>7. Pairs' = Pairs
    BY <1>3, Zenon DEF Pairs
  <1> QED
    BY <1>1, <1>3, <1>4, <1>5, <1>6, <1>7 DEF CodecTyped, TypeOK, SentWhole

\* ... when a message arrives, ...
LEMMA CodecTypedArrive ==
    ASSUME CodecTyped, Arrive
    PROVE  CodecTyped'
  <1>1. PICK bytes \in Payload : BeginParse(bytes, "parsing")
    BY DEF Arrive
  <1>2. bytes \in Seq(Byte)
    BY CodecAssumption
  <1>3. /\ payload' = bytes /\ start' = 1 /\ status' = "parsing" /\ relayed' = fields'
        /\ appended' = 0 /\ buffer' = <<>> /\ size' = 0
    BY <1>1 DEF Arrive, BeginParse
  <1>4. fields' \in Fields
    BY <1>1, NewFields DEF BeginParse
  <1>5. Len(Pairs') = 5
    BY <1>3, <1>4 DEF Pairs
  <1>6. <<>> \in Seq(Byte) /\ 0 \in 0 .. MaxSize - 1 /\ 1 \in 1 .. Len(bytes) + 1
    BY <1>2, CodecAssumption
  <1> QED
    BY <1>2, <1>3, <1>4, <1>5, <1>6 DEF CodecTyped, TypeOK, SentWhole

\* ... when the recipient receives, which gives its parser the whole packet, ...
LEMMA CodecTypedReceive ==
    ASSUME CodecTyped, Receive
    PROVE  CodecTyped' /\ payload' = buffer /\ fields' \in Fields
  <1>1. /\ payload' = SubSeq(buffer, 1, size) /\ start' = 1 /\ status' = "reading"
        /\ UNCHANGED <<relayed, appended, buffer, size>> /\ status = "sent"
    BY DEF Receive, BeginParse
  <1>2. fields' \in Fields
    BY NewFields DEF Receive, BeginParse
  <1>3. size = Len(buffer) /\ appended = 5 /\ buffer \in Seq(Byte)
    BY <1>1 DEF CodecTyped, TypeOK, SentWhole
  <1>4. SubSeq(buffer, 1, size) = buffer
    BY <1>3
  <1>5. payload' \in Seq(Byte) /\ 1 \in 1 .. Len(payload') + 1
    BY <1>1, <1>3, <1>4
  <1>6. Pairs' = Pairs
    BY <1>1, Zenon DEF Pairs
  <1> QED
    BY <1>1, <1>2, <1>3, <1>4, <1>5, <1>6 DEF CodecTyped, TypeOK, SentWhole

\* ... while the packet is built and when it has been read, ...
LEMMA CodecTypedBuild ==
    ASSUME CodecTyped, Process \/ AppendPair \/ Send \/ EndRead \/ UNCHANGED vars
    PROVE  CodecTyped'
  <1>1. TypeOK /\ Len(Pairs) = 5 /\ \A n \in 1 .. 5 : Pairs[n] \in PairType
    BY PairsAre DEF CodecTyped, TypeOK
  <1>2. CASE Process
    <2>1. /\ relayed' = fields /\ appended' = 0 /\ buffer' = <<>> /\ status' = "building"
          /\ UNCHANGED <<payload, start, fields, size>>
      BY <1>2 DEF Process
    <2>2. Len(Pairs') = 5
      BY <2>1 DEF Pairs
    <2>3. <<>> \in Seq(Byte)
      OBVIOUS
    <2> QED
      BY <1>1, <2>1, <2>2, <2>3 DEF CodecTyped, TypeOK, SentWhole
  <1>3. CASE AppendPair
    <2>1. /\ appended \in 0 .. 4 /\ status = "building"
          /\ UNCHANGED <<payload, start, fields, relayed, size>>
          /\ \/ status' = "terminated" /\ UNCHANGED <<appended, buffer>>
             \/ /\ status' = "building" /\ appended' = appended + 1
                /\ buffer' = Extend(buffer, Pairs[appended + 1])
      BY <1>1, <1>3, AppendPairIs
    <2>2. Pairs' = Pairs
      BY <2>1, Zenon DEF Pairs
    <2>3. appended + 1 \in 1 .. 5 /\ buffer \in Seq(Byte)
      BY <1>1, <2>1 DEF TypeOK
    <2>4. Extend(buffer, Pairs[appended + 1]) \in Seq(Byte)
      BY <1>1, <2>3, ExtendIs
    <2>5. buffer' \in Seq(Byte) /\ appended' \in 0 .. 5 /\ status' \in {"building", "terminated"}
      BY <2>1, <2>3, <2>4
    <2> QED
      BY <1>1, <2>1, <2>2, <2>5 DEF CodecTyped, TypeOK, SentWhole
  <1>4. CASE Send
    <2>1. /\ appended = 5 /\ UNCHANGED <<payload, start, fields, relayed, appended, buffer>>
          /\ \/ status' = "terminated" /\ UNCHANGED size
             \/ status' = "sent" /\ size' = Len(buffer) /\ size' \in 0 .. MaxSize - 1
      BY <1>1, <1>4, SendIs
    <2>2. Pairs' = Pairs
      BY <2>1, Zenon DEF Pairs
    <2> QED
      BY <1>1, <2>1, <2>2 DEF CodecTyped, TypeOK, SentWhole
  <1>5. CASE EndRead
    <2>1. /\ status = "reading" /\ status' = "read"
          /\ UNCHANGED <<payload, start, fields, relayed, appended, buffer, size>>
      BY <1>5 DEF EndRead
    <2>2. Pairs' = Pairs
      BY <2>1, Zenon DEF Pairs
    <2> QED
      BY <1>1, <2>1, <2>2 DEF CodecTyped, TypeOK, SentWhole
  <1>6. CASE UNCHANGED vars
    <2>1. Pairs' = Pairs
      BY <1>6, Zenon DEF Pairs, vars
    <2> QED
      BY <1>6, <2>1 DEF CodecTyped, TypeOK, SentWhole, vars
  <1> QED
    BY <1>2, <1>3, <1>4, <1>5, <1>6

\* ... so in every step, ...
LEMMA CodecTypedStep ==
    ASSUME CodecTyped, [Next]_vars
    PROVE  CodecTyped'
  BY CodecTypedArrive, CodecTypedParse, CodecTypedReceive, CodecTypedBuild, Zenon DEF Next

\* ... so always.
LEMMA CodecIsTyped == Spec => []CodecTyped
  BY CodecTypedInit, CodecTypedStep, PTL DEF Spec

\* Whatever bytes a sender sends, the parser, the message and the builder hold
\* what they are made for: texts of bytes, an encoding in the range of int (atoi
\* skips blanks, takes a sign and stops at its range), a position in the
\* payload, a size that fits the header.
THEOREM CodecTypeCorrect == Spec => []TypeOK
  <1>1. CodecTyped => TypeOK
    BY DEF CodecTyped
  <1> QED
    BY <1>1, CodecIsTyped, PTL

\* The parser's loop gets on with every pair and never leaves the payload
\* (PacketParser::Parse), whatever the bytes are.
THEOREM CodecParserAdvances == Spec => ParserAdvances
  <1>1. ASSUME CodecTyped, ParsePair
        PROVE  status' = "terminated" \/ (start < start' /\ start' <= Len(payload) + 1)
    <2> DEFINE keyAt == FindTerminator(payload, start)
               valueAt == FindTerminator(payload, keyAt.next)
    <2>1. ThePayload
      BY <1>1 DEF CodecTyped, TypeOK, ThePayload
    <2>2. /\ start \in 1 .. Len(payload) /\ keyAt.end \in start .. Len(payload) + 1
          /\ keyAt.next \in keyAt.end .. Len(payload) + 1
          /\ valueAt.end \in keyAt.next .. Len(payload) + 1
          /\ valueAt.next \in valueAt.end .. Len(payload) + 1
      BY <1>1, <2>1, ParsePairIs
    <2>3. status' = "terminated" \/ (keyAt.end # start /\ start' = valueAt.next)
      BY <1>1, Zenon DEF ParsePair
    <2>4. Len(payload) \in Nat
      BY <2>1 DEF ThePayload
    <2> HIDE DEF keyAt, valueAt
    <2> QED
      BY <2>2, <2>3, <2>4
  <1>2. CodecTyped /\ [Next]_vars
        => [ParsePair => status' = "terminated" \/ (start < start' /\ start' <= Len(payload) + 1)]_vars
    BY <1>1, Zenon
  <1> QED
    BY <1>2, CodecIsTyped, PTL DEF Spec, ParserAdvances

-----------------------------------------------------------------------------
(* Reading a pair that the builder has written.                            *)

\* One packet begins with another.
Begins(long, short) ==
    /\ Len(short) <= Len(long)
    /\ \A i \in 1 .. Len(short) : long[i] = short[i]

\* Where the bytes of a concatenation are.
LEMMA Concatenation ==
    \A s, t \in Seq(Byte) :
       /\ s \o t \in Seq(Byte) /\ Len(s \o t) = Len(s) + Len(t)
       /\ \A i \in 1 .. Len(s) : (s \o t)[i] = s[i]
       /\ \A i \in 1 .. Len(t) : (s \o t)[Len(s) + i] = t[i]
  <1>1. SUFFICES ASSUME NEW s \in Seq(Byte), NEW t \in Seq(Byte)
                 PROVE  /\ s \o t \in Seq(Byte) /\ Len(s \o t) = Len(s) + Len(t)
                        /\ \A i \in 1 .. Len(s) : (s \o t)[i] = s[i]
                        /\ \A i \in 1 .. Len(t) : (s \o t)[Len(s) + i] = t[i]
    BY Zenon
  <1>2. s \o t \in Seq(Byte) /\ Len(s \o t) = Len(s) + Len(t)
    BY ConcatProperties
  <1>3. \A i \in 1 .. Len(s) : (s \o t)[i] = s[i]
    BY ConcatProperties
  <1>4. ASSUME NEW i \in 1 .. Len(t) PROVE (s \o t)[Len(s) + i] = t[i]
    OBVIOUS
  <1> QED
    BY <1>2, <1>3, <1>4

\* A packet begins with what it was before a pair was appended.
LEMMA ExtendBegins ==
    ASSUME NEW bytes \in Seq(Byte), NEW pair \in PairType
    PROVE  Begins(Extend(bytes, pair), bytes)
  <1> DEFINE key == Text[pair.key]
             value == pair.value
  <1>1. key \in Seq(Byte) /\ value \in Seq(Byte) /\ Terminator \in Seq(Byte)
    BY TextIsBytes DEF PairType, Terminator, TerminatorByte1, TerminatorByte2, Byte
  <1> HIDE DEF key, value
  <1> DEFINE whole == bytes \o key \o Terminator \o value \o Terminator
  <1>2. Len(bytes) <= Len(whole) /\ \A i \in 1 .. Len(bytes) : whole[i] = bytes[i]
    BY <1>1
  <1>3. whole = Extend(bytes, pair)
    BY DEF Extend, key, value
  <1> QED
    BY <1>2, <1>3 DEF Begins

\* And with what that began with.
LEMMA BeginsTransitive ==
    ASSUME NEW a \in Seq(Byte), NEW b \in Seq(Byte), NEW c \in Seq(Byte), Begins(b, a), Begins(c, b)
    PROVE  Begins(c, a)
  <1>1. Len(a) \in Nat /\ Len(b) \in Nat /\ Len(c) \in Nat
    OBVIOUS
  <1> QED
    BY <1>1 DEF Begins

\* Where the bytes of a pair are, behind n others.
PairAt(whole, n, key, k, value, v) ==
    /\ Len(whole) = n + k + v + 4
    /\ \A i \in 1 .. k : whole[n + i] = key[i]
    /\ whole[n + k + 1] = 192 /\ whole[n + k + 2] = 128
    /\ \A i \in 1 .. v : whole[n + k + 2 + i] = value[i]
    /\ whole[n + k + v + 3] = 192 /\ whole[n + k + v + 4] = 128

\* That is where the builder puts them.
LEMMA WrittenBytes ==
    \A written, key, value \in Seq(Byte), n, k, v \in Nat :
       Len(written) = n /\ Len(key) = k /\ Len(value) = v
       => PairAt(written \o key \o Terminator \o value \o Terminator, n, key, k, value, v)
  <1> SUFFICES ASSUME NEW written \in Seq(Byte), NEW key \in Seq(Byte), NEW value \in Seq(Byte),
                      NEW n \in Nat, NEW k \in Nat, NEW v \in Nat,
                      Len(written) = n, Len(key) = k, Len(value) = v
               PROVE  PairAt(written \o key \o Terminator \o value \o Terminator,
                             n, key, k, value, v)
    BY Zenon
  <1> DEFINE a == written \o key
             b == a \o Terminator
             c == b \o value
             d == c \o Terminator
             z == Len(Terminator)
             p == n + k
             q == p + z
             r == q + v
  <1>1. z = 2 /\ Terminator[1] = 192 /\ Terminator[2] = 128
    BY DEF Terminator, TerminatorByte1, TerminatorByte2
  <1>2a. Terminator \in Seq(Byte) /\ Len(Terminator) = z
    BY DEF Terminator, TerminatorByte1, TerminatorByte2, Byte
  <1> HIDE DEF z
  <1>2. /\ a \in Seq(Byte) /\ Len(a) = p /\ \A i \in 1 .. k : a[n + i] = key[i]
    BY Concatenation, Zenon
  <1>3. p \in Nat /\ q \in Nat /\ r \in Nat
    BY <1>1
  <1> HIDE DEF a, p
  <1>4. /\ b \in Seq(Byte) /\ Len(b) = q
        /\ \A i \in 1 .. p : b[i] = a[i]
        /\ \A i \in 1 .. z : b[p + i] = Terminator[i]
    BY <1>2, <1>2a, Concatenation, ZenonT(30)
  <1> HIDE DEF b, q
  <1>5. /\ c \in Seq(Byte) /\ Len(c) = r
        /\ \A i \in 1 .. q : c[i] = b[i]
        /\ \A i \in 1 .. v : c[q + i] = value[i]
    BY <1>4, Concatenation, Zenon
  <1> HIDE DEF c, r
  <1>6. /\ Len(d) = r + z
        /\ \A i \in 1 .. r : d[i] = c[i]
        /\ \A i \in 1 .. z : d[r + i] = Terminator[i]
    BY <1>5, <1>2a, Concatenation, ZenonT(30)
  <1> HIDE DEF d
  <1>7. d[r + 1] = 192 /\ d[r + 2] = 128
    BY <1>1, <1>6
  <1>8. \A i \in 1 .. v : d[q + i] = value[i]
    <2>1. \A i \in 1 .. v : q + i \in 1 .. r
      BY <1>3 DEF r
    <2> QED
      BY <1>5, <1>6, <2>1
  <1>9. d[p + 1] = 192 /\ d[p + 2] = 128
    <2>1. p + 1 \in 1 .. q /\ p + 2 \in 1 .. q /\ p + 1 \in 1 .. r /\ p + 2 \in 1 .. r
      BY <1>1, <1>3 DEF q, r
    <2> QED
      BY <1>1, <1>4, <1>5, <1>6, <2>1
  <1>10. \A i \in 1 .. k : d[n + i] = key[i]
    <2> TAKE i \in 1 .. k
    <2> DEFINE j == n + i
    <2>1. j \in 1 .. p /\ j \in 1 .. q /\ j \in 1 .. r
      BY <1>1, <1>3 DEF p, q, r
    <2>2. a[j] = key[i]
      BY <1>2
    <2> HIDE DEF j
    <2>3. d[j] = key[i]
      BY <1>4, <1>5, <1>6, <2>1, <2>2
    <2> QED
      BY <2>3 DEF j
  <1>11. /\ r + 1 = n + k + v + 3 /\ r + 2 = n + k + v + 4
         /\ \A i \in 1 .. v : q + i = n + k + 2 + i
         /\ p + 1 = n + k + 1 /\ p + 2 = n + k + 2
    BY <1>1 DEF p, q, r
  <1>12. d = written \o key \o Terminator \o value \o Terminator
    BY Zenon DEF a, b, c, d
  <1>13. /\ Len(d) = n + k + v + 4
         /\ \A i \in 1 .. k : d[n + i] = key[i]
         /\ d[n + k + 1] = 192 /\ d[n + k + 2] = 128
         /\ \A i \in 1 .. v : d[n + k + 2 + i] = value[i]
         /\ d[n + k + v + 3] = 192 /\ d[n + k + v + 4] = 128
    <2>1. Len(d) = n + k + v + 4
      BY <1>1, <1>6, <1>11, Zenon
    <2>2. \A i \in 1 .. v : d[n + k + 2 + i] = value[i]
      BY <1>8, <1>11, Zenon
    <2>3. /\ d[n + k + 1] = 192 /\ d[n + k + 2] = 128
          /\ d[n + k + v + 3] = 192 /\ d[n + k + v + 4] = 128
      BY <1>7, <1>9, <1>11
    <2> QED
      BY <1>10, <2>1, <2>2, <2>3, Zenon
  <1> QED
    BY <1>12, <1>13, Zenon DEF PairAt

\* A round of the parser's loop reads this key and this value, neither of
\* them cut off, and stands before next.
ReadsAs(bytes, here, key, value, next) ==
    LET keyAt == FindTerminator(bytes, here)
        valueAt == FindTerminator(bytes, keyAt.next)
    IN  /\ here <= Len(bytes) /\ bytes[here] # 0
        /\ keyAt.end # here /\ valueAt.end <= Len(bytes)
        /\ SubSeq(bytes, here, keyAt.end - 1) = key
        /\ SubSeq(bytes, keyAt.next, valueAt.end - 1) = value
        /\ valueAt.next = next

\* The parser reads the pair that was appended: it ends the key and the value
\* where the builder ended them, and stands behind the pair.
LEMMA ReadsPair ==
    \A bytes, written \in Seq(Byte), pair \in PairType :
       Clean(pair.value) /\ Begins(bytes, Extend(written, pair))
       => ReadsAs(bytes, Len(written) + 1, Text[pair.key], pair.value,
                  Len(Extend(written, pair)) + 1)
  <1> SUFFICES ASSUME NEW bytes \in Seq(Byte), NEW written \in Seq(Byte), NEW pair \in PairType,
                      Clean(pair.value), Begins(bytes, Extend(written, pair))
               PROVE  ReadsAs(bytes, Len(written) + 1, Text[pair.key], pair.value,
                              Len(Extend(written, pair)) + 1)
    BY Zenon
  <1> DEFINE key == Text[pair.key]
             value == pair.value
             whole == written \o key \o Terminator \o value \o Terminator
             n == Len(written)
             k == Len(key)
             v == Len(value)
  <1>1. /\ key \in Seq(Digit) /\ key # <<>>
    BY MagnitudeOfText DEF PairType
  <1>2. /\ \A i \in 1 .. Len(key) : key[i] \in 48 .. 57
        /\ key \in Seq(Byte) /\ Len(key) \in Nat /\ Len(key) > 0
    <2>1. \A i \in 1 .. Len(key) : key[i] \in Digit
      BY <1>1
    <2>2. key \in Seq(Byte)
      BY <1>1, TextIsBytes DEF PairType
    <2> HIDE DEF key
    <2>3. Len(key) > 0 /\ Len(key) \in Nat
      BY <1>1
    <2> QED
      BY <2>1, <2>2, <2>3 DEF Digit
  <1>3. value \in Seq(Byte) /\ Clean(value) /\ whole = Extend(written, pair)
    BY DEF PairType, Extend
  <1> HIDE DEF key, value
  <1>4. /\ n \in Nat /\ k \in Nat /\ v \in Nat /\ k > 0 /\ Len(bytes) \in Nat
        /\ Terminator \in Seq(Byte) /\ Len(Terminator) = 2
        /\ Terminator[1] = 192 /\ Terminator[2] = 128
    BY <1>2, <1>3 DEF Terminator, TerminatorByte1, TerminatorByte2, Byte
  <1>5. /\ Len(whole) = n + k + v + 4
        /\ \A i \in 1 .. k : whole[n + i] = key[i]
        /\ whole[n + k + 1] = 192 /\ whole[n + k + 2] = 128
        /\ \A i \in 1 .. v : whole[n + k + 2 + i] = value[i]
        /\ whole[n + k + v + 3] = 192 /\ whole[n + k + v + 4] = 128
    <2>1. Len(written) = n /\ Len(key) = k /\ Len(value) = v
      OBVIOUS
    <2>2. whole = written \o key \o Terminator \o value \o Terminator
      OBVIOUS
    <2> HIDE DEF n, k, v, whole
    <2>3. key \in Seq(Byte) /\ value \in Seq(Byte) /\ n \in Nat /\ k \in Nat /\ v \in Nat
      BY <1>2, <1>3, <1>4, Zenon
    <2>4. PairAt(whole, n, key, k, value, v)
      BY <2>1, <2>2, <2>3, WrittenBytes, Zenon
    <2> QED
      BY <2>4, Zenon DEF PairAt
  <1>6. Len(whole) <= Len(bytes) /\ \A i \in 1 .. Len(whole) : bytes[i] = whole[i]
    BY <1>3 DEF Begins
  <1> HIDE DEF whole
  <1> HIDE DEF n, k, v
  <1>7. /\ n + k + v + 4 <= Len(bytes)
        /\ \A i \in 1 .. k : bytes[n + i] = key[i]
        /\ bytes[n + k + 1] = 192 /\ bytes[n + k + 2] = 128
        /\ \A i \in 1 .. v : bytes[n + k + 2 + i] = value[i]
        /\ bytes[n + k + v + 3] = 192 /\ bytes[n + k + v + 4] = 128
    <2>1. /\ \A i \in 1 .. k : n + i \in 1 .. Len(whole)
          /\ n + k + 1 \in 1 .. Len(whole) /\ n + k + 2 \in 1 .. Len(whole)
          /\ \A i \in 1 .. v : n + k + 2 + i \in 1 .. Len(whole)
          /\ n + k + v + 3 \in 1 .. Len(whole) /\ n + k + v + 4 \in 1 .. Len(whole)
      BY <1>4, <1>5
    <2> QED
      BY <1>5, <1>6, <2>1
  <1> DEFINE begin == n + 1
             e == n + k + 1
             f == n + k + v + 3
  <1>8. FindTerminator(bytes, begin) = [end |-> e, next |-> e + 2]
    <2>1. EndsAt(bytes, e)
      BY <1>4, <1>7 DEF EndsAt, TerminatorByte1, TerminatorByte2
    <2>2. ASSUME NEW i \in begin .. e - 1 PROVE ~EndsAt(bytes, i)
      <3>1. i - n \in 1 .. k /\ n + (i - n) = i
        BY <1>4
      <3>2. bytes[i] = key[i - n]
        BY <1>7, <3>1
      <3>3. bytes[i] \in 48 .. 57
        BY <1>2, <3>1, <3>2 DEF k
      <3> QED
        BY <3>3 DEF EndsAt, TerminatorByte1
    <2>3. begin \in 1 .. Len(bytes) + 1 /\ e \in begin .. Len(bytes) /\ e # Len(bytes)
      BY <1>4, <1>7
    <2> HIDE DEF begin, e
    <2> QED
      BY <1>4, <2>1, <2>2, <2>3, FindsFirst
  <1>9. FindTerminator(bytes, e + 2) = [end |-> f, next |-> f + 2]
    <2>1. EndsAt(bytes, f)
      BY <1>4, <1>7 DEF EndsAt, TerminatorByte1, TerminatorByte2
    <2>2. ASSUME NEW i \in e + 2 .. f - 1 PROVE ~EndsAt(bytes, i)
      <3> DEFINE j == i - (e + 1)
      <3>1. j \in 1 .. v /\ n + k + 2 + j = i /\ i < Len(bytes) /\ j \in Nat
            /\ (j # v => j + 1 \in 1 .. v /\ n + k + 2 + (j + 1) = i + 1)
            /\ (j = v => i + 1 = n + k + v + 3)
        BY <1>4, <1>7
      <3> HIDE DEF j
      <3>2. bytes[i] = value[j]
        BY <1>7, <3>1
      <3>3. j # v => bytes[i + 1] = value[j + 1]
        BY <1>7, <3>1, SMTT(30)
      <3>4. j = v => bytes[i + 1] = 192
        BY <1>7, <3>1
      <3>5. value[j] = 192 => j = v \/ value[j + 1] # 128
        BY <1>3, <3>1 DEF Clean, v, TerminatorByte1, TerminatorByte2
      <3> QED
        BY <3>1, <3>2, <3>3, <3>4, <3>5 DEF EndsAt, TerminatorByte1, TerminatorByte2
    <2>3. e + 2 \in 1 .. Len(bytes) + 1 /\ f \in e + 2 .. Len(bytes) /\ f # Len(bytes)
      BY <1>4, <1>7
    <2> DEFINE next == e + 2
    <2>4. next \in 1 .. Len(bytes) + 1 /\ f \in next .. Len(bytes)
          /\ \A i \in next .. f - 1 : ~EndsAt(bytes, i)
      BY <2>2, <2>3
    <2> HIDE DEF next, f, e
    <2>5. FindTerminator(bytes, next) = [end |-> f, next |-> f + 2]
      BY <1>4, <2>1, <2>3, <2>4, FindsFirst
    <2> QED
      BY <2>5 DEF next
  <1>10. SubSeq(bytes, begin, e - 1) = key
    <2> DEFINE s == SubSeq(bytes, begin, e - 1)
    <2>1. s \in Seq(Byte) /\ Len(s) = k /\ \A i \in 1 .. k : s[i] = bytes[n + i]
      BY <1>4, <1>7
    <2> HIDE DEF s
    <2>2. s = key
      BY <1>2, <1>7, <2>1, SeqEqual DEF k
    <2> QED
      BY <2>2 DEF s
  <1>11. SubSeq(bytes, e + 2, f - 1) = value
    <2> DEFINE s == SubSeq(bytes, e + 2, f - 1)
    <2>1. s \in Seq(Byte) /\ Len(s) = v /\ \A i \in 1 .. v : s[i] = bytes[n + k + 2 + i]
      BY <1>4, <1>7
    <2> HIDE DEF s
    <2>2. s = value
      BY <1>3, <1>7, <2>1, SeqEqual DEF v
    <2> QED
      BY <2>2 DEF s
  <1>12. bytes[begin] # 0
    <2>1. bytes[n + 1] = key[1] /\ key[1] \in 48 .. 57
      BY <1>2, <1>4, <1>7 DEF k
    <2> QED
      BY <2>1
  <1>13. begin <= Len(bytes) /\ e # begin /\ f <= Len(bytes) /\ f + 2 = Len(whole) + 1
    BY <1>4, <1>5, <1>7
  <1> HIDE DEF begin, e, f
  <1>14. begin = Len(written) + 1
    BY DEF begin, n
  <1>15. ReadsAs(bytes, begin, key, value, Len(whole) + 1)
    BY <1>8, <1>9, <1>10, <1>11, <1>12, <1>13 DEF ReadsAs
  <1> QED
    BY <1>3, <1>14, <1>15, Zenon DEF key, value

-----------------------------------------------------------------------------
(* The packet and what has been read of it.                                *)

FieldsClean ==
    \A message \in {fields, relayed} :
       Clean(message.clientId) /\ Clean(message.contactId) /\ Clean(message.message)

\* w has the packet after each of its first n pairs.
Written(w, n) ==
    /\ w \in [0 .. 5 -> Seq(Byte)] /\ w[0] = <<>>
    /\ \A k \in 1 .. n : w[k] = Extend(w[k - 1], Pairs[k])

\* The first k pairs have given the recipient what they were written from.
HasRead(k) ==
    /\ k >= 1 => fields.clientId = relayed.clientId
    /\ k >= 2 => fields.contactId = relayed.contactId
    /\ k >= 4 => fields.message = relayed.message
    /\ k >= 5 => fields.encoding = relayed.encoding

\* The parser stands behind one of the pairs.
ReadUpTo(w) ==
    /\ payload = buffer
    /\ \E k \in 0 .. 5 : start = Len(w[k]) + 1 /\ HasRead(k)

Packet ==
    \E w : /\ Written(w, appended) /\ buffer = w[appended]
           /\ status = "reading" => ReadUpTo(w)

CodecInv == CodecTyped /\ FieldsClean /\ Packet /\ RelayIsFaithful

\* No terminator begins in a number.
LEMMA NumbersAreClean ==
    ASSUME NEW n \in CInt
    PROVE  Clean(ToString(n))
  <1> DEFINE s == ToString(n)
  <1>1. s \in Seq(Digit \cup {Minus})
    BY NumberOfToString
  <1> HIDE DEF s
  <1>2. \A i \in 1 .. Len(s) : s[i] \in Digit \cup {Minus}
    BY <1>1
  <1>3. TerminatorByte1 \notin Digit \cup {Minus}
    BY DEF TerminatorByte1, Digit, Minus
  <1>4. Clean(s)
    BY <1>2, <1>3, Zenon DEF Clean
  <1> QED
    BY <1>4 DEF s

\* No terminator begins in a value that is sent on.
LEMMA PairsClean ==
    ASSUME relayed \in Fields, FieldsClean
    PROVE  \A n \in 1 .. 5 : Clean(Pairs[n].value)
  <1>1. relayed.encoding \in CInt
    BY DEF Fields
  <1>2. Clean(ToString(relayed.encoding))
    BY <1>1, NumbersAreClean
  <1>3. Clean(relayed.clientId) /\ Clean(relayed.contactId) /\ Clean(relayed.message)
    BY Zenon DEF FieldsClean
  <1>4. /\ Pairs[1].value = relayed.clientId /\ Pairs[2].value = relayed.contactId
        /\ Pairs[3].value = relayed.clientId /\ Pairs[4].value = relayed.message
        /\ Pairs[5].value = ToString(relayed.encoding)
    BY DEF Pairs
  <1>5. /\ Clean(Pairs[1].value) /\ Clean(Pairs[2].value) /\ Clean(Pairs[3].value)
        /\ Clean(Pairs[4].value) /\ Clean(Pairs[5].value)
    BY <1>2, <1>3, <1>4, Zenon
  <1>6. \A n \in 1 .. 5 : n = 1 \/ n = 2 \/ n = 3 \/ n = 4 \/ n = 5
    OBVIOUS
  <1> QED
    BY <1>5, <1>6, Zenon

\* The whole packet begins with each of its parts.
LEMMA PacketBegins ==
    ASSUME relayed \in Fields, NEW w, Written(w, 5)
    PROVE  \A k \in 0 .. 4 : Begins(w[5], w[k + 1])
  <1>1. \A k \in 0 .. 5 : w[k] \in Seq(Byte)
    BY DEF Written
  <1>2. \A n \in 1 .. 5 : Pairs[n] \in PairType
    BY PairsAre
  <1>3. ASSUME NEW k \in 1 .. 5 PROVE Begins(w[k], w[k - 1])
    <2>1. w[k - 1] \in Seq(Byte) /\ Pairs[k] \in PairType
      BY <1>1, <1>2
    <2>2. Begins(Extend(w[k - 1], Pairs[k]), w[k - 1])
      BY <2>1, ExtendBegins
    <2>3. w[k] = Extend(w[k - 1], Pairs[k])
      BY Zenon DEF Written
    <2> QED
      BY <2>2, <2>3, Zenon
  <1>4. Begins(w[2], w[1]) /\ Begins(w[3], w[2]) /\ Begins(w[4], w[3]) /\ Begins(w[5], w[4])
    <2>1. /\ 2 \in 1 .. 5 /\ 2 - 1 = 1 /\ 3 \in 1 .. 5 /\ 3 - 1 = 2
          /\ 4 \in 1 .. 5 /\ 4 - 1 = 3 /\ 5 \in 1 .. 5 /\ 5 - 1 = 4
      OBVIOUS
    <2> QED
      BY <1>3, <2>1
  <1>5. w[1] \in Seq(Byte) /\ w[2] \in Seq(Byte) /\ w[3] \in Seq(Byte) /\ w[4] \in Seq(Byte)
        /\ w[5] \in Seq(Byte)
    BY <1>1
  <1>6. Begins(w[5], w[3])
    BY <1>4, <1>5, BeginsTransitive
  <1>7. Begins(w[5], w[2])
    BY <1>4, <1>5, <1>6, BeginsTransitive
  <1>8. Begins(w[5], w[1])
    BY <1>4, <1>5, <1>7, BeginsTransitive
  <1>9. Begins(w[5], w[5])
    BY <1>5 DEF Begins
  <1>10. \A k \in 0 .. 4 : k + 1 = 1 \/ k + 1 = 2 \/ k + 1 = 3 \/ k + 1 = 4 \/ k + 1 = 5
    OBVIOUS
  <1> QED
    BY <1>4, <1>6, <1>7, <1>8, <1>9, <1>10, Zenon

\* A number that is followed by a terminator is read as it was written.
LEMMA EncodingIs ==
    ASSUME NEW n \in CInt, NEW end, NEW last, end <= last,
           NEW encoding \in Encodings(ToString(n), end <= last)
    PROVE  encoding = n
  <1> DEFINE s == ToString(n)
  <1>1. PICK behind \in {<<>>} : encoding = Number(s \o behind)
    BY Zenon DEF Encodings
  <1>2. s \in Seq(Digit \cup {Minus}) /\ Number(s) = n
    BY NumberOfToString
  <1> HIDE DEF s
  <1>3. s \o <<>> = s
    BY <1>2, ConcatEmptySeq
  <1> QED
    BY <1>1, <1>2, <1>3, Zenon

\* Where the recipient's parser stands, and what it finds there.
LEMMA AtPair ==
    ASSUME CodecInv, status = "reading", NEW w, Written(w, 5), payload = w[5],
           NEW k \in 0 .. 4, start = Len(w[k]) + 1
    PROVE  LET pair == Pairs[k + 1]
               keyAt == FindTerminator(payload, start)
               valueAt == FindTerminator(payload, keyAt.next)
           IN  /\ ~AtEnd
               /\ keyAt.end # start /\ valueAt.end <= Len(payload)
               /\ Number(SubSeq(payload, start, keyAt.end - 1)) = pair.key
               /\ SubSeq(payload, keyAt.next, valueAt.end - 1) = pair.value
               /\ valueAt.next = Len(w[k + 1]) + 1
  <1> DEFINE pair == Pairs[k + 1]
             keyAt == FindTerminator(payload, start)
             valueAt == FindTerminator(payload, keyAt.next)
  <1>1. relayed \in Fields /\ payload \in Seq(Byte) /\ FieldsClean
    BY DEF CodecInv, CodecTyped, TypeOK
  <1>2. w[k] \in Seq(Byte)
    BY DEF Written
  <1>3. k + 1 \in 1 .. 5 /\ (k + 1) - 1 = k
    OBVIOUS
  <1>4. pair \in PairType /\ Clean(pair.value)
    BY <1>1, <1>3, PairsAre, PairsClean
  <1>5. w[k + 1] = Extend(w[k], pair)
    BY <1>3, Zenon DEF Written
  <1>6. Begins(payload, w[k + 1])
    BY <1>1, PacketBegins
  <1> DEFINE short == w[k]
  <1>7. short \in Seq(Byte) /\ Begins(payload, Extend(short, pair)) /\ start = Len(short) + 1
    BY <1>2, <1>5, <1>6
  <1> HIDE DEF short, pair
  <1>11. ReadsAs(payload, start, Text[pair.key], pair.value, Len(Extend(short, pair)) + 1)
    BY <1>1, <1>4, <1>7, ReadsPair, Zenon
  <1>8. /\ start <= Len(payload) /\ payload[start] # 0
        /\ keyAt.end # start /\ valueAt.end <= Len(payload)
        /\ SubSeq(payload, start, keyAt.end - 1) = Text[pair.key]
        /\ SubSeq(payload, keyAt.next, valueAt.end - 1) = pair.value
        /\ valueAt.next = Len(Extend(short, pair)) + 1
    BY <1>11, Zenon DEF ReadsAs
  <1>9. Number(Text[pair.key]) = pair.key
    <2>1. pair.key \in 0 .. MaxInt
      BY <1>4, CodecAssumption DEF PairType
    <2> QED
      BY <2>1, NumberOfText
  <1>10. ~AtEnd
    <2>1. Len(payload) \in Nat
      BY <1>1
    <2>2. start \in Nat
      BY <1>7
    <2>3. start # Len(payload) + 1
      BY <1>8, <2>1, <2>2
    <2> QED
      BY <1>8, <2>3 DEF AtEnd
  <1> HIDE DEF keyAt, valueAt
  <1> QED
    BY <1>5, <1>8, <1>9, <1>10 DEF keyAt, valueAt, pair, short

\* Nothing is read before the packet is sent, and the packet is sent whole.
LEMMA ReadingIs ==
    ASSUME CodecInv, status = "reading"
    PROVE  \E w : /\ Written(w, 5) /\ payload = w[5] /\ buffer = w[5] /\ appended = 5
                  /\ \E k \in 0 .. 5 : start = Len(w[k]) + 1 /\ HasRead(k)
  <1>1. appended = 5
    BY DEF CodecInv, CodecTyped, SentWhole
  <1>2. PICK w : Written(w, appended) /\ buffer = w[appended] /\ ReadUpTo(w)
    BY Zenon DEF CodecInv, Packet
  <1>3. payload = buffer /\ \E k \in 0 .. 5 : start = Len(w[k]) + 1 /\ HasRead(k)
    BY <1>2, Zenon DEF ReadUpTo
  <1> QED
    BY <1>1, <1>2, <1>3, Zenon

\* The recipient's parser reads one pair more.
LEMMA ReadOn ==
    ASSUME CodecInv, ParsePair, status = "reading"
    PROVE  status' = "reading" /\ Packet'
  <1>1. PICK w : /\ Written(w, 5) /\ payload = w[5] /\ buffer = w[5] /\ appended = 5
                 /\ \E k \in 0 .. 5 : start = Len(w[k]) + 1 /\ HasRead(k)
    BY ReadingIs
  <1>2. PICK k \in 0 .. 5 : start = Len(w[k]) + 1 /\ HasRead(k)
    BY <1>1, Zenon
  <1>3. k \in 0 .. 4
    <2>1. ~AtEnd
      BY DEF ParsePair
    <2>2. k # 5
      BY <1>1, <1>2, <2>1 DEF AtEnd
    <2> QED
      BY <2>2
  <1> DEFINE pair == Pairs[k + 1]
             keyAt == FindTerminator(payload, start)
             valueAt == FindTerminator(payload, keyAt.next)
             value == SubSeq(payload, keyAt.next, valueAt.end - 1)
             key == Number(SubSeq(payload, start, keyAt.end - 1))
  <1>4. /\ keyAt.end # start /\ valueAt.end <= Len(payload)
        /\ key = pair.key /\ value = pair.value
        /\ valueAt.next = Len(w[k + 1]) + 1
    BY <1>1, <1>2, <1>3, AtPair, Zenon
  <1>5. /\ UNCHANGED <<payload, relayed, appended, buffer, size>>
        /\ \/ /\ keyAt.end = start \/ (key = 97 /\ value = <<>>)
              /\ status' = "terminated"
           \/ /\ OnKeyPair(key, value, valueAt.end <= Len(payload))
              /\ start' = valueAt.next
              /\ UNCHANGED status
    BY Zenon DEF ParsePair
  <1> HIDE DEF keyAt, valueAt, key, value
  <1>6. relayed \in Fields /\ fields \in Fields /\ relayed.encoding \in CInt
    BY DEF CodecInv, CodecTyped, TypeOK, Fields
  <1>7. /\ Pairs[1] = [key |-> 1, value |-> relayed.clientId]
        /\ Pairs[2] = [key |-> 5, value |-> relayed.contactId]
        /\ Pairs[3] = [key |-> 4, value |-> relayed.clientId]
        /\ Pairs[4] = [key |-> 14, value |-> relayed.message]
        /\ Pairs[5] = [key |-> 97, value |-> ToString(relayed.encoding)]
    BY DEF Pairs
  <1>8. k = 0 \/ k = 1 \/ k = 2 \/ k = 3 \/ k = 4
    BY <1>3
  <1>9. ~(pair.key = 97 /\ pair.value = <<>>)
    <2>1. ToString(relayed.encoding) # <<>>
      BY <1>6, NumberOfToString
    <2> QED
      BY <1>7, <1>8, <2>1
  <1>10. /\ OnKeyPair(pair.key, pair.value, valueAt.end <= Len(payload))
         /\ start' = Len(w[k + 1]) + 1 /\ UNCHANGED status
    BY <1>4, <1>5, <1>9, Zenon
  <1>11. HasRead(k + 1)'
    <2>1. CASE k = 4
      <3>1. pair.key = 97 /\ pair.value = ToString(relayed.encoding)
        BY <1>7, <2>1
      <3>2. PICK encoding \in Encodings(ToString(relayed.encoding), valueAt.end <= Len(payload)) :
              fields' = [fields EXCEPT !.encoding = encoding]
        BY <1>10, <3>1, Zenon DEF OnKeyPair
      <3>3. encoding = relayed.encoding
        BY <1>4, <1>6, EncodingIs, Zenon
      <3>4. /\ fields'.clientId = fields.clientId /\ fields'.contactId = fields.contactId
            /\ fields'.message = fields.message /\ fields'.encoding = relayed.encoding
        BY <1>6, <3>2, <3>3 DEF Fields
      <3>5. /\ fields.clientId = relayed.clientId /\ fields.contactId = relayed.contactId
            /\ fields.message = relayed.message
        BY <1>2, <2>1 DEF HasRead
      <3> QED
        BY <1>5, <3>4, <3>5 DEF HasRead
    <2>2. CASE k # 4
      <3>1. pair.key # 97
        BY <1>7, <1>8, <2>2
      <3>2. fields' = [fields EXCEPT
                          !.clientId = IF pair.key = 1 THEN pair.value ELSE @,
                          !.contactId = IF pair.key = 5 THEN pair.value ELSE @,
                          !.message = IF pair.key = 14 THEN pair.value ELSE @]
        BY <1>10, <3>1, Zenon DEF OnKeyPair
      <3>3. /\ fields'.clientId = IF pair.key = 1 THEN pair.value ELSE fields.clientId
            /\ fields'.contactId = IF pair.key = 5 THEN pair.value ELSE fields.contactId
            /\ fields'.message = IF pair.key = 14 THEN pair.value ELSE fields.message
        BY <1>6, <3>2 DEF Fields
      <3>4. CASE k = 0
        BY <1>5, <1>7, <3>3, <3>4 DEF HasRead
      <3>5. CASE k = 1
        BY <1>2, <1>5, <1>7, <3>3, <3>5 DEF HasRead
      <3>6. CASE k = 2
        BY <1>2, <1>5, <1>7, <3>3, <3>6 DEF HasRead
      <3>7. CASE k = 3
        BY <1>2, <1>5, <1>7, <3>3, <3>7 DEF HasRead
      <3> QED
        BY <1>8, <2>2, <3>4, <3>5, <3>6, <3>7
    <2> QED
      BY <2>1, <2>2
  <1>12. k + 1 \in 0 .. 5
    BY <1>3
  <1>13. payload' = buffer' /\ appended' = 5 /\ buffer' = w[5]
    BY <1>1, <1>5
  <1>14. ReadUpTo(w)'
    BY <1>10, <1>11, <1>12, <1>13, Zenon DEF ReadUpTo
  <1>15. Pairs' = Pairs
    BY <1>5, Zenon DEF Pairs
  <1>16. Written(w, 5)'
    BY <1>1, <1>15, Zenon DEF Written
  <1> QED
    BY <1>10, <1>13, <1>14, <1>16, Zenon DEF Packet

\* When its parser is done, it has read all.
LEMMA ReadToTheEnd ==
    ASSUME CodecInv, EndRead
    PROVE  fields = relayed
  <1>1. status = "reading" /\ AtEnd
    BY DEF EndRead
  <1>2. PICK w : /\ Written(w, 5) /\ payload = w[5] /\ buffer = w[5] /\ appended = 5
                 /\ \E k \in 0 .. 5 : start = Len(w[k]) + 1 /\ HasRead(k)
    BY <1>1, ReadingIs
  <1>3. PICK k \in 0 .. 5 : start = Len(w[k]) + 1 /\ HasRead(k)
    BY <1>2, Zenon
  <1>4. k \notin 0 .. 4
    BY <1>1, <1>2, <1>3, AtPair, Zenon
  <1>5. k = 5
    BY <1>4
  <1>6. /\ fields.clientId = relayed.clientId /\ fields.contactId = relayed.contactId
        /\ fields.message = relayed.message /\ fields.encoding = relayed.encoding
    BY <1>3, <1>5 DEF HasRead
  <1>7. fields \in Fields /\ relayed \in Fields
    BY DEF CodecInv, CodecTyped, TypeOK
  <1> QED
    BY <1>6, <1>7 DEF Fields

\* Nor in an empty text.
LEMMA EmptyIsClean == Clean(<<>>)
  BY DEF Clean

\* Before the first pair, the packet is empty.
LEMMA EmptyPacket ==
    ASSUME appended' = 0, buffer' = <<>>, status' # "reading"
    PROVE  Packet'
  <1> DEFINE w == [k \in 0 .. 5 |-> <<>>]
  <1>1. w \in [0 .. 5 -> Seq(Byte)] /\ w[0] = <<>>
    OBVIOUS
  <1> HIDE DEF w
  <1>2. 1 .. 0 = {}
    OBVIOUS
  <1>3. Written(w, 0)'
    BY <1>1, <1>2 DEF Written
  <1> QED
    BY <1>1, <1>3 DEF Packet

\* While the packet stays as it is and nobody reads it, it stays written.
LEMMA SamePacket ==
    ASSUME Packet, UNCHANGED <<relayed, appended, buffer>>, status' # "reading"
    PROVE  Packet'
  <1>1. PICK w : Written(w, appended) /\ buffer = w[appended]
    BY Zenon DEF Packet
  <1>2. Pairs' = Pairs
    BY Zenon DEF Pairs
  <1>3. Written(w, appended)'
    BY <1>1, <1>2, Zenon DEF Written
  <1> QED
    BY <1>1, <1>3, Zenon DEF Packet

\* The invariant holds at first, ...
LEMMA CodecInvInit ==
    ASSUME Init
    PROVE  CodecInv
  <1>1. CodecTyped
    BY CodecTypedInit
  <1>2. status = "idle" /\ relayed = fields /\ appended = 0 /\ buffer = <<>>
    BY DEF Init
  <1>3. fields.clientId = <<>> /\ fields.contactId = <<>> /\ fields.message = <<>>
    BY NewFields DEF Init
  <1>4. FieldsClean
    BY <1>2, <1>3, EmptyIsClean, Zenon DEF FieldsClean
  <1>5. Packet
    <2> DEFINE w == [k \in 0 .. 5 |-> <<>>]
    <2>1. w \in [0 .. 5 -> Seq(Byte)] /\ w[0] = <<>>
      OBVIOUS
    <2> HIDE DEF w
    <2>2. 1 .. 0 = {}
      OBVIOUS
    <2>3. Written(w, 0)
      BY <2>1, <2>2 DEF Written
    <2> QED
      BY <1>2, <2>1, <2>3 DEF Packet
  <1> QED
    BY <1>1, <1>2, <1>4, <1>5 DEF CodecInv, RelayIsFaithful

\* ... and is kept when a message arrives, ...
LEMMA ArriveKeeps ==
    ASSUME CodecInv, Arrive
    PROVE  CodecInv'
  <1>1. CodecTyped'
    BY CodecTypedArrive DEF CodecInv
  <1>2. PICK bytes \in Payload : BeginParse(bytes, "parsing")
    BY DEF Arrive
  <1>3. status' = "parsing" /\ relayed' = fields' /\ appended' = 0 /\ buffer' = <<>>
    BY <1>2 DEF Arrive, BeginParse
  <1>4. fields'.clientId = <<>> /\ fields'.contactId = <<>> /\ fields'.message = <<>>
    BY <1>2, NewFields DEF BeginParse
  <1>5. FieldsClean'
    BY <1>3, <1>4, EmptyIsClean, Zenon DEF FieldsClean
  <1>6. Packet'
    BY <1>3, EmptyPacket
  <1> QED
    BY <1>1, <1>3, <1>5, <1>6 DEF CodecInv, RelayIsFaithful

\* ... by the parser, the server's and the recipient's, ...
LEMMA ParsePairKeeps ==
    ASSUME CodecInv, ParsePair
    PROVE  CodecInv'
  <1>1. CodecTyped'
    BY CodecTypedParse DEF CodecInv
  <1> DEFINE keyAt == FindTerminator(payload, start)
             valueAt == FindTerminator(payload, keyAt.next)
             value == SubSeq(payload, keyAt.next, valueAt.end - 1)
             key == Number(SubSeq(payload, start, keyAt.end - 1))
  <1>2. value \in Seq(Byte) /\ Clean(value)
    BY ParsePairIs DEF CodecInv, CodecTyped, TypeOK, ThePayload
  <1>3. /\ status \in {"parsing", "reading"}
        /\ UNCHANGED <<payload, relayed, appended, buffer, size>>
        /\ \/ /\ status' = "terminated"
              /\ UNCHANGED fields
           \/ /\ OnKeyPair(key, value, valueAt.end <= Len(payload))
              /\ UNCHANGED status
    BY Zenon DEF ParsePair
  <1> HIDE DEF keyAt, valueAt, key, value
  <1>4. /\ Clean(fields.clientId) /\ Clean(fields.contactId) /\ Clean(fields.message)
        /\ Clean(relayed.clientId) /\ Clean(relayed.contactId) /\ Clean(relayed.message)
    BY Zenon DEF CodecInv, FieldsClean
  <1>5. Clean(fields'.clientId) /\ Clean(fields'.contactId) /\ Clean(fields'.message)
    <2>1. CASE UNCHANGED fields
      BY <1>4, <2>1, Zenon
    <2>2. CASE OnKeyPair(key, value, valueAt.end <= Len(payload))
      <3>1. fields \in Fields
        BY DEF CodecInv, CodecTyped, TypeOK
      <3>2. /\ fields'.clientId \in {fields.clientId, value}
            /\ fields'.contactId \in {fields.contactId, value}
            /\ fields'.message \in {fields.message, value}
        BY <1>2, <2>2, <3>1, FieldsAre, Zenon
      <3> QED
        BY <1>2, <1>4, <3>2, Zenon
    <2> QED
      BY <1>3, <2>1, <2>2
  <1>6. FieldsClean'
    BY <1>3, <1>4, <1>5, Zenon DEF FieldsClean
  <1>7. Packet'
    <2>1. CASE status = "reading"
      BY <2>1, ReadOn
    <2>2. CASE status # "reading"
      <3>1. status' # "reading"
        BY <1>3, <2>2
      <3> QED
        BY <1>3, <3>1, SamePacket DEF CodecInv
    <2> QED
      BY <2>1, <2>2
  <1>8. status' # "read"
    BY <1>3
  <1> QED
    BY <1>1, <1>6, <1>7, <1>8 DEF CodecInv, RelayIsFaithful

\* ... when the recipient's parser begins, ...
LEMMA ReceiveKeeps ==
    ASSUME CodecInv, Receive
    PROVE  CodecInv'
  <1>1. CodecTyped' /\ payload' = buffer
    BY CodecTypedReceive DEF CodecInv
  <1>2. /\ start' = 1 /\ status' = "reading" /\ status = "sent"
        /\ UNCHANGED <<relayed, appended, buffer>>
    BY DEF Receive, BeginParse
  <1>3. fields'.clientId = <<>> /\ fields'.contactId = <<>> /\ fields'.message = <<>>
    BY NewFields DEF Receive, BeginParse
  <1>4. Clean(relayed.clientId) /\ Clean(relayed.contactId) /\ Clean(relayed.message)
    BY Zenon DEF CodecInv, FieldsClean
  <1>5. FieldsClean'
    BY <1>2, <1>3, <1>4, EmptyIsClean, Zenon DEF FieldsClean
  <1>6. PICK w : Written(w, appended) /\ buffer = w[appended]
    BY Zenon DEF CodecInv, Packet
  <1>7. Pairs' = Pairs
    BY <1>2, Zenon DEF Pairs
  <1>8. Written(w, appended)' /\ buffer' = w[appended']
    BY <1>2, <1>6, <1>7, Zenon DEF Written
  <1>9. HasRead(0)'
    BY DEF HasRead
  <1>10. start' = Len(w[0]) + 1 /\ 0 \in 0 .. 5
    BY <1>2, <1>6 DEF Written
  <1>11. ReadUpTo(w)'
    BY <1>1, <1>2, <1>9, <1>10, Zenon DEF ReadUpTo
  <1>12. Packet'
    BY <1>8, <1>11, Zenon DEF Packet
  <1> QED
    BY <1>1, <1>2, <1>5, <1>12 DEF CodecInv, RelayIsFaithful

\* ... by Builder::Append, ...
LEMMA AppendPairKeeps ==
    ASSUME CodecInv, AppendPair
    PROVE  CodecInv'
  <1>1. CodecTyped' /\ TypeOK
    BY CodecTypedBuild DEF CodecInv, CodecTyped
  <1>2. /\ appended \in 0 .. 4 /\ status = "building"
        /\ UNCHANGED <<payload, start, fields, relayed, size>>
        /\ \/ status' = "terminated" /\ UNCHANGED <<appended, buffer>>
           \/ /\ status' = "building" /\ appended' = appended + 1
              /\ buffer' = Extend(buffer, Pairs[appended + 1])
    BY <1>1, AppendPairIs
  <1>3. FieldsClean'
    BY <1>2, Zenon DEF CodecInv, FieldsClean
  <1>4. status' # "reading" /\ status' # "read"
    BY <1>2
  <1>5. Packet'
    <2>1. CASE UNCHANGED <<appended, buffer>>
      BY <1>2, <1>4, <2>1, SamePacket DEF CodecInv
    <2>2. CASE appended' = appended + 1 /\ buffer' = Extend(buffer, Pairs[appended + 1])
      <3>1. PICK w : Written(w, appended) /\ buffer = w[appended]
        BY Zenon DEF CodecInv, Packet
      <3> DEFINE n == appended + 1
      <3>2. w \in [0 .. 5 -> Seq(Byte)] /\ w[0] = <<>>
            /\ \A k \in 1 .. appended : w[k] = Extend(w[k - 1], Pairs[k])
        BY <3>1 DEF Written
      <3>3. n \in 1 .. 5 /\ appended \in 0 .. 4 /\ n - 1 = appended
        BY <1>2
      <3>4. buffer' \in Seq(Byte) /\ Pairs' = Pairs
        BY <1>1, <1>2, Zenon DEF CodecTyped, TypeOK, Pairs
      <3> HIDE DEF n
      <3>5. PICK x \in [0 .. 5 -> Seq(Byte)] :
               x[n] = buffer' /\ \A k \in 0 .. 5 : k # n => x[k] = w[k]
        <4> DEFINE y == [w EXCEPT ![n] = buffer']
        <4>1. y \in [0 .. 5 -> Seq(Byte)] /\ y[n] = buffer'
              /\ \A k \in 0 .. 5 : k # n => y[k] = w[k]
          BY <3>2, <3>3, <3>4
        <4> HIDE DEF y
        <4> QED
          BY <4>1
      <3>6. x[0] = <<>>
        <4>1. 0 \in 0 .. 5 /\ 0 # n
          BY <3>3
        <4> QED
          BY <3>2, <3>5, <4>1, Zenon
      <3>7. ASSUME NEW k \in 1 .. n PROVE x[k] = Extend(x[k - 1], Pairs[k])
        <4>1. k - 1 \in 0 .. 5 /\ k - 1 # n /\ x[k - 1] = w[k - 1]
          BY <3>3, <3>5
        <4>2. CASE k = n
          <5>1. x[k - 1] = buffer
            BY <3>1, <3>3, <4>1, <4>2
          <5> QED
            BY <2>2, <3>5, <4>2, <5>1, Zenon DEF n
        <4>3. CASE k # n
          <5>1. k \in 1 .. appended /\ k \in 0 .. 5
            BY <3>3, <4>3
          <5>2. x[k] = w[k] /\ w[k] = Extend(w[k - 1], Pairs[k])
            BY <3>2, <3>5, <4>3, <5>1
          <5> QED
            BY <4>1, <5>2, Zenon
        <4> QED
          BY <4>2, <4>3
      <3>8. appended' = n
        BY <2>2 DEF n
      <3>9. Written(x, appended)'
        BY <3>4, <3>5, <3>6, <3>7, <3>8, Zenon DEF Written
      <3> QED
        BY <1>4, <3>5, <3>8, <3>9, Zenon DEF Packet
    <2> QED
      BY <1>2, <2>1, <2>2
  <1> QED
    BY <1>1, <1>3, <1>4, <1>5 DEF CodecInv, RelayIsFaithful

\* ... and by what is left; EndRead is where the fields are compared.
LEMMA CodecOthersKeep ==
    ASSUME CodecInv, Process \/ Send \/ EndRead \/ UNCHANGED vars
    PROVE  CodecInv'
  <1>1. CodecTyped'
    BY CodecTypedBuild DEF CodecInv
  <1>2. CASE Process
    <2>1. /\ relayed' = fields /\ appended' = 0 /\ buffer' = <<>> /\ status' = "building"
          /\ UNCHANGED fields
      BY <1>2 DEF Process
    <2>2. FieldsClean'
      BY <2>1, Zenon DEF CodecInv, FieldsClean
    <2>3. Packet'
      BY <2>1, EmptyPacket
    <2> QED
      BY <1>1, <2>1, <2>2, <2>3 DEF CodecInv, RelayIsFaithful
  <1>3. CASE Send
    <2>1. UNCHANGED <<fields, relayed, appended, buffer>> /\ status' \in {"terminated", "sent"}
      BY <1>3, SendIs DEF CodecInv, CodecTyped
    <2>2. FieldsClean'
      BY <2>1, Zenon DEF CodecInv, FieldsClean
    <2>3. Packet'
      BY <2>1, SamePacket DEF CodecInv
    <2> QED
      BY <1>1, <2>1, <2>2, <2>3 DEF CodecInv, RelayIsFaithful
  <1>4. CASE EndRead
    <2>1. UNCHANGED <<fields, relayed, appended, buffer>> /\ status' = "read"
      BY <1>4 DEF EndRead
    <2>2. FieldsClean'
      BY <2>1, Zenon DEF CodecInv, FieldsClean
    <2>3. Packet'
      BY <2>1, SamePacket DEF CodecInv
    <2>4. fields' = relayed'
      BY <1>4, <2>1, ReadToTheEnd
    <2> QED
      BY <1>1, <2>2, <2>3, <2>4 DEF CodecInv, RelayIsFaithful
  <1>5. CASE UNCHANGED vars
    <2>1. UNCHANGED <<status, payload, start, fields, relayed, appended, buffer>>
      BY <1>5 DEF vars
    <2>2. FieldsClean' /\ RelayIsFaithful'
      BY <2>1, Zenon DEF CodecInv, FieldsClean, RelayIsFaithful
    <2>3. Packet'
      <3>1. Pairs' = Pairs
        BY <2>1, Zenon DEF Pairs
      <3> QED
        BY <2>1, <3>1, Zenon DEF CodecInv, Packet, Written, ReadUpTo, HasRead
    <2> QED
      BY <1>1, <2>2, <2>3 DEF CodecInv
  <1> QED
    BY <1>2, <1>3, <1>4, <1>5

\* So by every step, ...
LEMMA CodecInvStep ==
    ASSUME CodecInv, [Next]_vars
    PROVE  CodecInv'
  BY ArriveKeeps, ParsePairKeeps, ReceiveKeeps, AppendPairKeeps, CodecOthersKeep, Zenon DEF Next

\* ... and it holds always.
LEMMA CodecInvHolds == Spec => []CodecInv
  BY CodecInvInit, CodecInvStep, PTL DEF Spec

\* Whatever bytes the sender sends, and whatever int an encoding nobody has
\* initialised is, what the recipient of a private message reads is what the
\* server has read or left over (PacketParser::Parse, to_enum, Builder::Append,
\* PrivateMessage::Build).
THEOREM WhatIsReadWasSent == Spec => []RelayIsFaithful
  <1>1. CodecInv => RelayIsFaithful
    BY DEF CodecInv
  <1> QED
    BY <1>1, CodecInvHolds, PTL

\* The recipient's parser never throws on a packet of the server's
\* (PacketParser::Parse, std::atoi), and gets all of it.
THEOREM EveryReplyIsReadable == Spec => ReplyIsReadable
  <1>1. ASSUME CodecInv, [Next]_vars
        PROVE  [status = "reading" => status' # "terminated" /\ size = Len(buffer)]_vars
    <2>1. SUFFICES ASSUME Next, status = "reading"
                   PROVE  status' # "terminated" /\ size = Len(buffer)
      BY <1>1, Zenon
    <2>2. size = Len(buffer)
      BY <1>1, <2>1 DEF CodecInv, CodecTyped, SentWhole
    <2>3. ParsePair \/ EndRead
      BY <2>1 DEF Next, Arrive, Process, AppendPair, Send, Receive
    <2>4. status' # "terminated"
      <3>1. CASE ParsePair
        BY <1>1, <2>1, <3>1, ReadOn
      <3>2. CASE EndRead
        BY <3>2 DEF EndRead
      <3> QED
        BY <2>3, <3>1, <3>2
    <2> QED
      BY <2>2, <2>4
  <1> QED
    BY <1>1, CodecInvHolds, PTL DEF Spec, ReplyIsReadable

=============================================================================
