-------------------------- MODULE AccumulateProofs --------------------------
(***************************************************************************)
(* What Accumulate computes, for every sequence, every start and every     *)
(* step: the value after one element more is one step more.  Induction     *)
(* rests on the least counterexample: a set of numbers that is not empty   *)
(* has a least member.                                                     *)
(***************************************************************************)
EXTENDS Accumulate, FiniteSetTheorems, TLAPS

\* A set of numbers that is not empty has a least one, because the sets
\* 0..(n - 1) are finite and finite sets do not shrink for ever.
LEMMA LeastNumber ==
    ASSUME NEW T \in SUBSET Nat, T # {}
    PROVE  \E n \in T : \A m \in T : n <= m
<1> DEFINE below == {0..(n - 1) : n \in T}
<1>1. below \subseteq FiniteSubsetsOf(Nat)
  <2>1. \A n \in Nat : 0..(n - 1) \in SUBSET Nat /\ IsFiniteSet(0..(n - 1))
        BY FS_Interval
  <2>. QED BY <2>1 DEF FiniteSubsetsOf
<1>2. below # {}
      OBVIOUS
<1>3. PICK b \in below : \A a \in below : ~ (<<a, b>> \in StrictSubsetOrdering(Nat))
      BY <1>1, <1>2, WFMin, FS_StrictSubsetOrderingWellFounded
<1>4. PICK n \in T : b = 0..(n - 1)
      OBVIOUS
<1>5. ASSUME NEW m \in T, m < n
      PROVE  FALSE
  <2>1. 0..(m - 1) \subseteq 0..(n - 1)
        BY <1>5
  <2>2. m \in 0..(n - 1) /\ m \notin 0..(m - 1)
        BY <1>5
  <2>3. <<0..(m - 1), b>> \in StrictSubsetOrdering(Nat)
        BY <1>4, <2>1, <2>2 DEF StrictSubsetOrdering
  <2>. QED BY <1>3, <2>3
<1>. QED BY <1>5

\* What holds of zero, and of one number more as far as m, holds as far as m.
LEMMA Induction ==
    ASSUME NEW m \in Nat, NEW T, 0 \in T,
           \A n \in 0..(m - 1) : n \in T => n + 1 \in T
    PROVE  0..m \subseteq T
<1> DEFINE missing == {n \in 0..m : n \notin T}
<1>1. SUFFICES ASSUME missing # {} PROVE FALSE
      OBVIOUS
<1>2. PICK n \in missing : \A k \in missing : n <= k
  <2>1. missing \in SUBSET Nat
        OBVIOUS
  <2>. QED BY <1>1, <2>1, LeastNumber
<1>3. n # 0 /\ n - 1 \in 0..(m - 1) /\ n - 1 \notin missing
      BY <1>2
<1>4. n - 1 \in T /\ (n - 1) + 1 = n
      BY <1>3
<1>. QED BY <1>2, <1>3, <1>4

\* g holds the running values of s as far as n.
Upto(g, s, n) == g = [i \in 0..n |-> IF i = 0 THEN Start ELSE Step(g[i - 1], s[i])]

\* Running values exist, for every length.
LEMMA UptoExists ==
    ASSUME NEW s, NEW n \in Nat
    PROVE  \E g : Upto(g, s, n)
<1> DEFINE T == {k \in Nat : \E g : Upto(g, s, k)}
<1>1. 0 \in T
  <2>1. Upto([i \in 0..0 |-> Start], s, 0)
        BY DEF Upto
  <2>. QED BY <2>1
<1>2. ASSUME NEW k \in 0..(n - 1), k \in T
      PROVE  k + 1 \in T
  <2>1. PICK g : Upto(g, s, k)
        BY <1>2
  <2> DEFINE h == [i \in 0..(k + 1) |->
                      IF i = k + 1 THEN Step(g[k], s[k + 1]) ELSE g[i]]
  <2>2. \A i \in 0..k : g[i] = IF i = 0 THEN Start ELSE Step(g[i - 1], s[i])
        BY <2>1 DEF Upto
  <2>3. \A i \in 0..(k + 1) : h[i] = IF i = 0 THEN Start ELSE Step(h[i - 1], s[i])
    <3>1. TAKE i \in 0..(k + 1)
    <3>2. CASE i = k + 1
      <4>1. h[i] = Step(g[k], s[k + 1]) /\ h[i - 1] = g[k] /\ i # 0
            BY <3>2
      <4>. QED BY <3>2, <4>1
    <3>3. CASE i # k + 1
      <4>1. i \in 0..k /\ h[i] = g[i] /\ (i # 0 => h[i - 1] = g[i - 1])
            BY <3>3
      <4>. QED BY <2>2, <4>1
    <3>. QED BY <3>2, <3>3
  <2>4. h = [i \in 0..(k + 1) |-> h[i]]
        OBVIOUS
  <2> HIDE DEF h
  <2>5. Upto(h, s, k + 1)
        BY <2>3, <2>4 DEF Upto
  <2>. QED BY <2>5
<1>3. 0..n \subseteq T
      BY <1>1, <1>2, Induction
<1>. QED BY <1>3

\* So the recursive function Running is what its body says.
LEMMA RunningUpto ==
    ASSUME NEW s, Len(s) \in Nat
    PROVE  Upto(Running(s), s, Len(s))
BY UptoExists DEF Running, Upto

\* Running values of sequences that begin alike agree as far as they are alike.
LEMMA UptoUnique ==
    ASSUME NEW s, NEW t, NEW n \in Nat, NEW m \in Nat, m <= n, NEW g, NEW h,
           Upto(g, s, m), Upto(h, t, n), \A i \in 1..m : s[i] = t[i]
    PROVE  g[m] = h[m]
<1> DEFINE T == {k \in 0..m : g[k] = h[k]}
<1>1. 0 \in T
  <2>1. g[0] = Start /\ h[0] = Start
        BY DEF Upto
  <2>. QED BY <2>1
<1>2. ASSUME NEW k \in 0..(m - 1), k \in T
      PROVE  k + 1 \in T
  <2>1. k + 1 \in 0..m /\ k + 1 \in 0..n /\ k + 1 \in 1..m /\ (k + 1) - 1 = k
        OBVIOUS
  <2>2. g[k + 1] = Step(g[(k + 1) - 1], s[k + 1])
        BY <2>1 DEF Upto
  <2>3. h[k + 1] = Step(h[(k + 1) - 1], t[k + 1])
        BY <2>1 DEF Upto
  <2>. QED BY <1>2, <2>1, <2>2, <2>3
<1>3. 0..m \subseteq T
      BY <1>1, <1>2, Induction
<1>. QED BY <1>3

\* Before any element there is the start.
THEOREM AfterEmpty == After(<<>>) = Start
<1>1. Upto(Running(<<>>), <<>>, 0)
      BY RunningUpto
<1>. QED BY <1>1 DEF After, Upto

\* One element more is one step more: a reader who has read all so far need
\* not begin again.
THEOREM AfterAppend ==
    ASSUME NEW S, NEW s \in Seq(S), NEW e \in S
    PROVE  After(Append(s, e)) = Step(After(s), e)
<1> DEFINE t == Append(s, e)
           n == Len(s)
<1>1. n \in Nat /\ Len(t) = n + 1 /\ t[n + 1] = e /\ \A i \in 1..n : s[i] = t[i]
      OBVIOUS
<1> HIDE DEF t, n
<1>2. Upto(Running(s), s, n)
      BY <1>1, RunningUpto DEF n
<1>3. Upto(Running(t), t, n + 1)
      BY <1>1, RunningUpto
<1>4. Running(s)[n] = Running(t)[n]
      BY <1>1, <1>2, <1>3, UptoUnique
<1>5. Running(t)[n + 1] = Step(Running(t)[n], e)
      BY <1>1, <1>3 DEF Upto
<1>. QED BY <1>1, <1>4, <1>5 DEF After, t, n
=============================================================================
