--------------------------- MODULE AmountsProofs ---------------------------
(***************************************************************************)
(* An amount that was written as a decimal is read back as it was, for     *)
(* every amount, every base and every number of places.  A prefix of the   *)
(* digits of n is n without its last digits; zeros before a number do not  *)
(* change it.  Each induction takes the least counterexample.              *)
(***************************************************************************)
EXTENDS Amounts, TLAPS

ReadingFacts == INSTANCE AccumulateProofs WITH Start <- 0, Step <- Shift
PowerFacts == INSTANCE AccumulateProofs WITH Start <- 1, Step <- Times
-----------------------------------------------------------------------------
(* Arithmetic *)

\* A number is its quotient and its remainder.
LEMMA DivMod ==
    ASSUME NEW n \in Nat, NEW b \in Nat \ {0}
    PROVE  /\ n \div b \in Nat /\ n % b \in 0..(b - 1)
           /\ n = (n \div b) * b + (n % b)
<1>1. n \div b \in Nat /\ n % b \in 0..(b - 1)
      OBVIOUS
<1>2. n = (n \div b) * b + (n % b)
      OBVIOUS
<1>. QED BY <1>1, <1>2

\* A quotient and a remainder that give a number are its own.
LEMMA DivModUnique ==
    ASSUME NEW q \in Nat, NEW b \in Nat \ {0}, NEW r \in 0..(b - 1)
    PROVE  (q * b + r) \div b = q
OBVIOUS

\* To divide by a product is to divide twice.
LEMMA DivTwice ==
    ASSUME NEW n \in Nat, NEW p \in Nat \ {0}, NEW b \in Nat \ {0}
    PROVE  n \div (p * b) = (n \div p) \div b
<1> DEFINE m == n \div p
           q == m \div b
           r == n % p
           s == m % b
<1>1. m \in Nat /\ r \in 0..(p - 1) /\ n = m * p + r
      BY DivMod
<1>2. q \in Nat /\ s \in 0..(b - 1) /\ m = q * b + s
      BY <1>1, DivMod
<1> HIDE DEF m, q, r, s
<1>3. n = q * (p * b) + (s * p + r)
  <2>1. (q * b + s) * p = q * (p * b) + s * p
        BY <1>2, SMT
  <2>2. s * p \in Nat /\ q * (p * b) \in Nat
        BY <1>2, SMT
  <2>. QED BY <1>1, <1>2, <2>1, <2>2
<1>4. p * b \in Nat \ {0}
      BY SMT
<1>5. s * p + r \in 0..(p * b - 1)
  <2>1. s * p \in Nat /\ (s + 1) * p <= b * p
        BY <1>2, SMT
  <2>2. (s + 1) * p = s * p + p /\ b * p = p * b
        BY <1>2, SMT
  <2>. QED BY <1>1, <1>4, <2>1, <2>2
<1>6. n \div (p * b) = q
      BY <1>2, <1>3, <1>4, <1>5, DivModUnique
<1>. QED BY <1>6 DEF q, m
-----------------------------------------------------------------------------
(* Powers *)

LEMMA PowerZero == Power(0) = 1
<1>1. [i \in 1..0 |-> Base] = <<>>
      OBVIOUS
<1>. QED BY <1>1, PowerFacts!AfterEmpty
         DEF Power, Multiplying!After, PowerFacts!After,
             Multiplying!Running, PowerFacts!Running

LEMMA PowerNext ==
    ASSUME NEW k \in Nat
    PROVE  Power(k + 1) = Power(k) * Base
<1> DEFINE s == [i \in 1..k |-> Base]
<1>1. s \in Seq({Base}) /\ Base \in {Base}
      OBVIOUS
<1>2. [i \in 1..(k + 1) |-> Base] = Append(s, Base)
      OBVIOUS
<1> HIDE DEF s
<1>3. Multiplying!After(Append(s, Base)) = Times(Multiplying!After(s), Base)
      BY <1>1, PowerFacts!AfterAppend
      DEF Multiplying!After, PowerFacts!After, Multiplying!Running,
          PowerFacts!Running
<1>. QED BY <1>2, <1>3 DEF Power, Times, s

LEMMA PowerPositive ==
    ASSUME NEW k \in Nat
    PROVE  Power(k) \in Nat \ {0}
<1> DEFINE T == {n \in Nat : Power(n) \in Nat \ {0}}
<1>1. 0 \in T
      BY PowerZero
<1>2. ASSUME NEW n \in 0..(k - 1), n \in T
      PROVE  n + 1 \in T
  <2>1. Power(n) * Base \in Nat \ {0}
        BY <1>2, AmountsAssumption
  <2>. QED BY <2>1, PowerNext
<1>3. 0..k \subseteq T
      BY <1>1, <1>2, ReadingFacts!Induction
<1>. QED BY <1>3

\* A power outgrows its exponent.
LEMMA PowerGrows ==
    ASSUME NEW k \in Nat
    PROVE  k < Power(k)
<1> DEFINE T == {n \in Nat : n < Power(n)}
<1>1. 0 \in T
      BY PowerZero
<1>2. ASSUME NEW n \in 0..(k - 1), n \in T
      PROVE  n + 1 \in T
  <2>1. Power(n) \in Nat \ {0} /\ Power(n + 1) = Power(n) * Base
        BY PowerPositive, PowerNext
  <2>2. Power(n) * Base \in Nat /\ Power(n) * Base >= 2 * Power(n)
        BY <2>1, AmountsAssumption
  <2>. QED BY <1>2, <2>1, <2>2
<1>3. 0..k \subseteq T
      BY <1>1, <1>2, ReadingFacts!Induction
<1>. QED BY <1>3
-----------------------------------------------------------------------------
(* Reading *)

Prefix(s, j) == [i \in 1..j |-> s[i]]

\* A digit more is read as one more shift.
LEMMA NumberPrefix ==
    ASSUME NEW s \in Seq(Nat), NEW j \in Nat, j < Len(s)
    PROVE  Number(Prefix(s, j + 1)) = Number(Prefix(s, j)) * Base + s[j + 1]
<1>1. Prefix(s, j) \in Seq(Nat) /\ s[j + 1] \in Nat
      BY DEF Prefix
<1>2. Prefix(s, j + 1) = Append(Prefix(s, j), s[j + 1])
      BY DEF Prefix
<1>3. Reading!After(Append(Prefix(s, j), s[j + 1]))
          = Shift(Reading!After(Prefix(s, j)), s[j + 1])
      BY <1>1, ReadingFacts!AfterAppend
      DEF Reading!After, ReadingFacts!After, Reading!Running, ReadingFacts!Running
<1>. QED BY <1>2, <1>3 DEF Number, Shift

LEMMA NumberNothing ==
    ASSUME NEW s
    PROVE  Number(Prefix(s, 0)) = 0
<1>1. Prefix(s, 0) = <<>>
      BY DEF Prefix
<1>2. Reading!After(<<>>) = 0
      BY ReadingFacts!AfterEmpty
      DEF Reading!After, ReadingFacts!After, Reading!Running, ReadingFacts!Running
<1>. QED BY <1>1, <1>2 DEF Number

LEMMA PrefixAll ==
    ASSUME NEW s \in Seq(Nat)
    PROVE  Prefix(s, Len(s)) = s
BY DEF Prefix
-----------------------------------------------------------------------------
(* Writing *)

\* There is a width, and it holds all of the number.
LEMMA DigitsWidth ==
    ASSUME NEW n \in Nat
    PROVE  \E w \in Nat \ {0} :
              /\ n < Power(w)
              /\ Digits(n) = [i \in 1..w |-> (n \div Power(w - i)) % Base]
<1> DEFINE Fits(k) == n < Power(k) /\ (k = 1 \/ Power(k - 1) <= n)
           T == {k \in Nat \ {0} : n < Power(k)}
           w == CHOOSE k \in 1..(n + 1) : Fits(k)
<1>1. n + 1 \in T
  <2>1. n + 1 < Power(n + 1) /\ Power(n + 1) \in Nat
        BY PowerGrows, PowerPositive
  <2>. QED BY <2>1
<1>2. PICK k \in T : \A m \in T : k <= m
  <2>1. T \in SUBSET Nat /\ T # {}
        BY <1>1
  <2>. QED BY <2>1, ReadingFacts!LeastNumber
<1>3. k \in 1..(n + 1)
      BY <1>1, <1>2
<1>4. k = 1 \/ Power(k - 1) <= n
  <2>1. CASE k # 1
    <3>1. k - 1 \in Nat \ {0} /\ k - 1 \notin T
          BY <1>2, <2>1
    <3>2. Power(k - 1) \in Nat
          BY <3>1, PowerPositive
    <3>. QED BY <3>1, <3>2
  <2>. QED BY <2>1
<1>5. Fits(k)
      BY <1>2, <1>4
<1>6. w \in 1..(n + 1) /\ Fits(w)
      BY <1>3, <1>5
<1>7. Digits(n) = [i \in 1..w |-> (n \div Power(w - i)) % Base]
      BY DEF Digits
<1> HIDE DEF w
<1>. QED BY <1>6, <1>7

\* BigInt(n.toString()) is n: its first j digits are n without the others.
THEOREM DigitsRead ==
    ASSUME NEW n \in Nat
    PROVE  Digits(n) \in Seq(Nat) /\ Number(Digits(n)) = n
<1>1. PICK w \in Nat \ {0} :
         /\ n < Power(w)
         /\ Digits(n) = [i \in 1..w |-> (n \div Power(w - i)) % Base]
      BY DigitsWidth
<1> DEFINE s == Digits(n)
           T == {j \in 0..w : Number(Prefix(s, j)) = n \div Power(w - j)}
<1>2. \A i \in 0..w : Power(i) \in Nat \ {0}
      BY PowerPositive
<1>3. \A i \in 1..w : (n \div Power(w - i)) % Base \in Nat
  <2>1. TAKE i \in 1..w
  <2>2. n \div Power(w - i) \in Nat
    <3>1. w - i \in 0..w
          OBVIOUS
    <3>. QED BY <1>2, <3>1, DivMod
  <2>. QED BY <2>2, DivMod, AmountsAssumption
<1>4. s \in Seq(Nat) /\ Len(s) = w
      BY <1>1, <1>3
<1> HIDE DEF s
<1>5. 0 \in T
  <2>1. Power(w) \in Nat \ {0} /\ w - 0 = w
        BY <1>2
  <2>2. n \div Power(w) = 0
        BY <1>1, <2>1
  <2>3. Number(Prefix(s, 0)) = 0
        BY NumberNothing
  <2>. QED BY <2>1, <2>2, <2>3
<1>6. ASSUME NEW j \in 0..(w - 1), j \in T
      PROVE  j + 1 \in T
  <2> DEFINE p == Power(w - (j + 1))
             m == n \div p
  <2>1. p \in Nat \ {0} /\ m \in Nat
    <3>1. w - (j + 1) \in 0..w
          OBVIOUS
    <3>2. p \in Nat \ {0}
          BY <1>2, <3>1
    <3>. QED BY <3>2, DivMod
  <2>2. Power(w - j) = p * Base
    <3>1. w - (j + 1) \in Nat /\ (w - (j + 1)) + 1 = w - j
          OBVIOUS
    <3>2. Power((w - (j + 1)) + 1) = p * Base
          BY <3>1, PowerNext
    <3>. QED BY <3>1, <3>2
  <2>3. n \div Power(w - j) = m \div Base
        BY <2>1, <2>2, DivTwice, AmountsAssumption
  <2>4. s[j + 1] = m % Base
        BY <1>1 DEF s
  <2>5. Number(Prefix(s, j + 1)) = Number(Prefix(s, j)) * Base + s[j + 1]
        BY <1>4, NumberPrefix
  <2>6. m = (m \div Base) * Base + (m % Base)
        BY <2>1, DivMod, AmountsAssumption
  <2> HIDE DEF m, p
  <2>7. Number(Prefix(s, j + 1)) = m
        BY <1>6, <2>3, <2>4, <2>5, <2>6
  <2>. QED BY <2>7 DEF m, p
<1>7. 0..w \subseteq T
      BY <1>5, <1>6, ReadingFacts!Induction
<1>8. Number(s) = n \div Power(0)
  <2>1. w \in T /\ Prefix(s, w) = s /\ w - w = 0
        BY <1>4, <1>7, PrefixAll
  <2>. QED BY <2>1
<1>. QED BY <1>4, <1>8, PowerZero DEF s

LEMMA ZerosNone ==
    ASSUME NEW k \in Int, k <= 0, NEW s \in Seq(Nat)
    PROVE  Zeros(k) \o s = s /\ s \o Zeros(k) = s
<1>1. Zeros(k) = <<>>
      BY DEF Zeros
<1>. QED BY <1>1

\* Zeros before a number do not change it.
LEMMA ZerosBefore ==
    ASSUME NEW k \in Int, NEW s \in Seq(Nat)
    PROVE  Zeros(k) \o s \in Seq(Nat) /\ Number(Zeros(k) \o s) = Number(s)
<1>1. CASE k <= 0
      BY <1>1, ZerosNone
<1>2. CASE k > 0
  <2> DEFINE t == Zeros(k) \o s
             n == Len(s)
             T == {j \in 0..k : Number(Prefix(t, j)) = 0}
             U == {j \in 0..n : Number(Prefix(t, k + j)) = Number(Prefix(s, j))}
  <2>1. /\ t \in Seq(Nat) /\ Len(t) = k + n /\ n \in Nat
        /\ \A i \in 1..k : t[i] = 0
        /\ \A i \in 1..n : t[k + i] = s[i]
    <3> DEFINE z == Zeros(k)
    <3>1. k \in Nat /\ n \in Nat
          BY <1>2
    <3>2. z \in Seq(Nat) /\ Len(z) = k /\ \A i \in 1..k : z[i] = 0
          BY <3>1 DEF Zeros
    <3> HIDE DEF z
    <3>3. /\ z \o s \in Seq(Nat) /\ Len(z \o s) = k + Len(s)
          /\ \A i \in 1..k : (z \o s)[i] = z[i]
          /\ \A i \in 1..Len(s) : (z \o s)[k + i] = s[i]
          BY <3>1, <3>2
    <3>. QED BY <3>1, <3>2, <3>3 DEF z
  <2> HIDE DEF t, n
  <2>2. 0 \in T
        BY <1>2, NumberNothing
  <2>3. ASSUME NEW j \in 0..(k - 1), j \in T
        PROVE  j + 1 \in T
    <3>1. Number(Prefix(t, j + 1)) = Number(Prefix(t, j)) * Base + t[j + 1]
      <4>1. j \in Nat /\ j < Len(t)
            BY <1>2, <2>1
      <4>. QED BY <2>1, <4>1, NumberPrefix
    <3>2. t[j + 1] = 0 /\ 0 * Base = 0
          BY <2>1, AmountsAssumption
    <3>. QED BY <2>3, <3>1, <3>2
  <2>4. 0..k \subseteq T
    <3>1. k \in Nat
          BY <1>2
    <3> HIDE DEF T
    <3>. QED BY <2>2, <2>3, <3>1, ReadingFacts!Induction
  <2>5. 0 \in U
    <3>1. k \in T /\ k + 0 = k
          BY <1>2, <2>4
    <3>. QED BY <2>1, <3>1, NumberNothing
  <2>6. ASSUME NEW j \in 0..(n - 1), j \in U
        PROVE  j + 1 \in U
    <3>1. Number(Prefix(s, j + 1)) = Number(Prefix(s, j)) * Base + s[j + 1]
          BY <2>1, NumberPrefix DEF n
    <3>2. Number(Prefix(t, (k + j) + 1))
              = Number(Prefix(t, k + j)) * Base + t[(k + j) + 1]
      <4>1. k + j \in Nat /\ k + j < Len(t)
            BY <1>2, <2>1
      <4>. QED BY <2>1, <4>1, NumberPrefix
    <3>3. (k + j) + 1 = k + (j + 1) /\ j + 1 \in 1..n
          BY <2>1
    <3>. QED BY <2>1, <2>6, <3>1, <3>2, <3>3
  <2>7. 0..n \subseteq U
        BY <2>1, <2>5, <2>6, ReadingFacts!Induction
  <2>8. Number(Prefix(t, k + n)) = Number(Prefix(s, n))
        BY <2>1, <2>7
  <2>9. Prefix(t, k + n) = t /\ Prefix(s, n) = s
        BY <2>1, PrefixAll DEF n
  <2>. QED BY <2>1, <2>8, <2>9 DEF t
<1>. QED BY <1>1, <1>2

\* What formatAmount writes and the client signs, the verifier reads as the
\* amount it was: no place is lost or gained between the two.
THEOREM RoundTrip ==
    ASSUME NEW n \in Nat
    PROVE  AtomicUnits(DecimalText(n)) = n
<1> DEFINE fraction == Digits(n % Unit)
           padded == PadStart(fraction, Places)
<1>1. Unit \in Nat \ {0}
      BY PowerPositive, AmountsAssumption DEF Unit
<1>2. n \div Unit \in Nat /\ n % Unit \in Nat /\ n = (n \div Unit) * Unit + (n % Unit)
      BY <1>1, DivMod
<1>3. fraction \in Seq(Nat) /\ Number(fraction) = n % Unit
      BY <1>2, DigitsRead
<1>4. Places - Len(fraction) \in Int
      BY <1>3, AmountsAssumption
<1>5. padded \in Seq(Nat) /\ Number(padded) = n % Unit
      BY <1>3, <1>4, ZerosBefore DEF PadStart
<1>6. Len(padded) >= Places
  <2>1. CASE Places - Len(fraction) <= 0
        BY <1>3, <1>4, <2>1, ZerosNone, AmountsAssumption DEF PadStart
  <2>2. CASE Places - Len(fraction) > 0
    <3>1. Zeros(Places - Len(fraction)) \in Seq(Nat)
          /\ Len(Zeros(Places - Len(fraction))) = Places - Len(fraction)
          BY <1>4, <2>2 DEF Zeros
    <3>. QED BY <1>3, <3>1, AmountsAssumption DEF PadStart
  <2>. QED BY <1>4, <2>1, <2>2
<1>7. PadEnd(padded, Places) = padded
  <2>1. Places - Len(padded) \in Int /\ Places - Len(padded) <= 0
        BY <1>5, <1>6, AmountsAssumption
  <2>. QED BY <1>5, <2>1, ZerosNone DEF PadEnd
<1>8. Number(Digits(n \div Unit)) = n \div Unit
      BY <1>2, DigitsRead
<1>9. DecimalText(n).whole = Digits(n \div Unit) /\ DecimalText(n).fraction = padded
      BY DEF DecimalText
<1>. QED BY <1>2, <1>5, <1>7, <1>8, <1>9 DEF AtomicUnits
=============================================================================
