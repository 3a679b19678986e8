----------------------------- MODULE DataLemmas ------------------------------
(* Facts about numbers and sequences that the proofs of several modules use.  *)
(* The library's induction theorems speak of operators, which the provers     *)
(* cannot instantiate; here induction is about sets, from the fact that < is  *)
(* well founded.                                                              *)
EXTENDS Integers, Sequences, FiniteSets, SequenceTheorems, FiniteSetTheorems,
        WellFoundedInduction, TLAPS

-----------------------------------------------------------------------------
(* Natural numbers *)

LessThan == {pair \in Nat \X Nat : pair[1] < pair[2]}

\* A set of naturals that is not empty has a least element.
LEMMA LeastNat ==
    ASSUME NEW T \in SUBSET Nat, T # {}
    PROVE  \E n \in T : \A m \in T : n <= m
<1>1. IsWellFoundedOn(LessThan, Nat)
  BY NatLessThanWellFounded DEF OpToRel, LessThan
<1>2. PICK n \in T : \A m \in T : <<m, n>> \notin LessThan
  BY <1>1, WFMin
<1>3. \A m \in T : m \in Nat /\ n \in Nat
  OBVIOUS
<1>4. \A m \in T : ~(m < n)
  BY <1>2, <1>3 DEF LessThan
<1> QED
  BY <1>3, <1>4

\* Induction: a set that has 0, and n + 1 when it has n, has every natural.
LEMMA SetInduction ==
    ASSUME NEW T, 0 \in T, \A n \in Nat : n \in T => n + 1 \in T
    PROVE  \A n \in Nat : n \in T
<1> SUFFICES ASSUME NEW k \in Nat, k \notin T PROVE FALSE
  OBVIOUS
<1> DEFINE B == {n \in Nat : n \notin T}
<1>1. PICK n \in B : \A m \in B : n <= m
  <2>1. B # {} /\ B \in SUBSET Nat
    OBVIOUS
  <2> HIDE DEF B
  <2> QED
    BY <2>1, LeastNat
<1>2. n # 0 /\ n - 1 \in Nat /\ n - 1 \notin B
  BY <1>1
<1>3. n - 1 \in T
  BY <1>2
<1> QED
  BY <1>1, <1>2, <1>3

\* The values up to N of a primitive recursion: the first is c, and step[i]
\* makes the i-th of the one before it.
Runs(S, c, step, N) ==
    {f \in [0..N -> S] : f[0] = c /\ \A i \in 1..N : f[i] = step[i][f[i - 1]]}

LEMMA PrimitiveRecursion ==
    ASSUME NEW S, NEW c \in S, NEW N \in Nat, NEW step \in [1..N -> [S -> S]]
    PROVE  Runs(S, c, step, N) # {}
<1> DEFINE T == {n \in Nat : n <= N => Runs(S, c, step, n) # {}}
<1>1. 0 \in T
  <2>1. [i \in 0..0 |-> c] \in Runs(S, c, step, 0)
    BY DEF Runs
  <2> QED
    BY <2>1
<1>2. ASSUME NEW n \in Nat, n \in T PROVE n + 1 \in T
  <2> SUFFICES ASSUME n + 1 <= N PROVE Runs(S, c, step, n + 1) # {}
    OBVIOUS
  <2>1. PICK f \in Runs(S, c, step, n) : TRUE
    BY <1>2
  <2>2. f \in [0..n -> S] /\ f[0] = c /\ \A i \in 1..n : f[i] = step[i][f[i - 1]]
    BY <2>1 DEF Runs
  <2> DEFINE v == step[n + 1][f[n]]
             g == [i \in 0..(n + 1) |-> IF i = n + 1 THEN v ELSE f[i]]
  <2>3. v \in S
    <3>1. n \in 0..n /\ n + 1 \in 1..N
      OBVIOUS
    <3>2. f[n] \in S
      BY <2>2, <3>1
    <3>3. step[n + 1] \in [S -> S]
      BY <3>1
    <3> QED
      BY <3>2, <3>3
  <2>4. g \in [0..(n + 1) -> S]
    <3> HIDE DEF v
    <3> QED
      BY <2>2, <2>3
  <2>5. g[0] = c
    BY <2>2
  <2>6. ASSUME NEW i \in 1..(n + 1) PROVE g[i] = step[i][g[i - 1]]
    <3>1. CASE i = n + 1
      <4>1. g[i] = v /\ i - 1 = n /\ n \in 0..(n + 1) /\ n # n + 1
        BY <3>1
      <4>2. g[i - 1] = f[n]
        BY <4>1
      <4> QED
        BY <3>1, <4>1, <4>2
    <3>2. CASE i # n + 1
      <4>1. i \in 1..n /\ i - 1 \in 0..n /\ i - 1 # n + 1
        BY <3>2
      <4> QED
        BY <2>2, <3>2, <4>1
    <3> QED
      BY <3>1, <3>2
  <2>7. g \in Runs(S, c, step, n + 1)
    <3> HIDE DEF g
    <3> QED
      BY <2>4, <2>5, <2>6 DEF Runs
  <2> HIDE DEF g
  <2> QED
    BY <2>7
<1>3. N \in T
  <2> HIDE DEF T
  <2> QED
    BY <1>1, <1>2, SetInduction
<1> QED
  BY <1>3

-----------------------------------------------------------------------------
(* Finite sets *)

\* Sets between which a function goes one to one have the same size.
LEMMA SameSize ==
    ASSUME NEW A, NEW B, IsFiniteSet(A), NEW f \in [A -> B],
           \A k, m \in A : f[k] = f[m] => k = m,
           \A n \in B : \E k \in A : f[k] = n
    PROVE  IsFiniteSet(B) /\ Cardinality(A) = Cardinality(B)
<1>1. f \in Bijection(A, B)
  BY DEF Bijection, Injection, Surjection, IsInjective
<1> QED
  BY <1>1, FS_Bijection DEF ExistsBijection

-----------------------------------------------------------------------------
(* Sequences *)

\* Replacing one element of a sequence leaves the others and the length alone.
LEMMA SeqExcept ==
    ASSUME NEW S, NEW s \in Seq(S), NEW i \in DOMAIN s, NEW e \in S,
           NEW t, t = [s EXCEPT ![i] = e]
    PROVE  /\ t \in Seq(S)
           /\ Len(t) = Len(s)
           /\ DOMAIN t = DOMAIN s
           /\ t[i] = e
           /\ \A j \in DOMAIN s : j # i => t[j] = s[j]
  BY ExceptSeq

\* Appending to a sequence.
LEMMA SeqAppend ==
    ASSUME NEW S, NEW s \in Seq(S), NEW e \in S, NEW t, t = Append(s, e)
    PROVE  /\ t \in Seq(S)
           /\ Len(t) = Len(s) + 1
           /\ DOMAIN s = 1..Len(s)
           /\ DOMAIN t = 1..(Len(s) + 1)
           /\ t[Len(s) + 1] = e
           /\ \A j \in DOMAIN s : t[j] = s[j]
           /\ t # <<>>
  BY AppendProperties, LenProperties

\* Moving the head of one sequence to the end of the one before it changes
\* nothing of the two in a row.
LEMMA SeqMove ==
    ASSUME NEW S, NEW a \in Seq(S), NEW b \in Seq(S), b # <<>>
    PROVE  Append(a, Head(b)) \o Tail(b) = a \o b
  <1> DEFINE m == Len(a)
             n == Len(b)
             t == Tail(b)
             c == Append(a, Head(b))
             ct == c \o t
             ab == a \o b
  <1>1. m \in Nat /\ n \in Nat \ {0}
    BY LenProperties, EmptySeq
  <1>2. /\ Head(b) \in S /\ t \in Seq(S) /\ Len(t) = n - 1
        /\ \A i \in 1..(n - 1) : t[i] = b[i + 1]
        /\ Head(b) = b[1]
    BY HeadTailProperties
  <1>3. /\ c \in Seq(S) /\ Len(c) = m + 1 /\ c[m + 1] = b[1]
        /\ \A j \in 1..m : c[j] = a[j]
    BY <1>2, SeqAppend
  <1> HIDE DEF t, c
  <1>4. /\ ct \in Seq(S) /\ Len(ct) = Len(c) + Len(t)
        /\ \A i \in 1..(Len(c) + Len(t)) :
             ct[i] = IF i <= Len(c) THEN c[i] ELSE t[i - Len(c)]
    BY <1>2, <1>3, ConcatProperties
  <1>5. /\ ab \in Seq(S) /\ Len(ab) = m + n
        /\ \A i \in 1..(m + n) : ab[i] = IF i <= m THEN a[i] ELSE b[i - m]
    BY ConcatProperties
  <1> HIDE DEF ct, ab, m, n
  <1>6. ASSUME NEW i \in 1..(m + n)
        PROVE  ct[i] = ab[i]
    <2>0. ct[i] = IF i <= m + 1 THEN c[i] ELSE t[i - (m + 1)]
      BY <1>1, <1>2, <1>3, <1>4
    <2>1. CASE i <= m
      BY <1>1, <1>3, <1>5, <2>0, <2>1
    <2>2. CASE i = m + 1
      BY <1>1, <1>3, <1>5, <2>0, <2>2
    <2>3. CASE i > m + 1
      <3>1. i - (m + 1) \in 1..(n - 1) /\ (i - (m + 1)) + 1 = i - m
        BY <1>1, <2>3
      <3>2. t[i - (m + 1)] = b[i - m]
        BY <1>2, <3>1
      <3> QED
        BY <1>1, <1>5, <2>0, <2>3, <3>2
    <2> QED
      BY <1>1, <2>1, <2>2, <2>3
  <1>7. Len(ct) = m + n
    BY <1>1, <1>2, <1>3, <1>4
  <1>8. ct = ab
    BY <1>4, <1>5, <1>6, <1>7, SeqEqual
  <1> QED
    BY <1>8 DEF ct, ab, c, t

\* Appending to the second of two sequences appends to the two in a row.
LEMMA SeqConcatAppend ==
    ASSUME NEW S, NEW a \in Seq(S), NEW b \in Seq(S), NEW e \in S
    PROVE  a \o Append(b, e) = Append(a \o b, e)
  <1> DEFINE m == Len(a)
             n == Len(b)
             c == Append(b, e)
             ac == a \o c
             ab == a \o b
             d == Append(ab, e)
  <1>1. m \in Nat /\ n \in Nat
    BY LenProperties
  <1>2. /\ c \in Seq(S) /\ Len(c) = n + 1 /\ c[n + 1] = e
        /\ \A j \in 1..n : c[j] = b[j]
    BY SeqAppend
  <1> HIDE DEF c
  <1>3. /\ ac \in Seq(S) /\ Len(ac) = m + Len(c)
        /\ \A i \in 1..(m + Len(c)) : ac[i] = IF i <= m THEN a[i] ELSE c[i - m]
    BY <1>2, ConcatProperties
  <1>4. /\ ab \in Seq(S) /\ Len(ab) = m + n
        /\ \A i \in 1..(m + n) : ab[i] = IF i <= m THEN a[i] ELSE b[i - m]
    BY ConcatProperties
  <1> HIDE DEF ac, ab, m, n
  <1>5. /\ d \in Seq(S) /\ Len(d) = m + n + 1 /\ d[m + n + 1] = e
        /\ \A j \in 1..(m + n) : d[j] = ab[j]
    BY <1>4, SeqAppend
  <1> HIDE DEF d
  <1>6. ASSUME NEW i \in 1..(m + n + 1)
        PROVE  ac[i] = d[i]
    <2>0. ac[i] = IF i <= m THEN a[i] ELSE c[i - m]
      BY <1>1, <1>2, <1>3
    <2>1. CASE i <= m
      BY <1>1, <1>4, <1>5, <2>0, <2>1
    <2>2. CASE i > m /\ i # m + n + 1
      <3>1. i - m \in 1..n /\ i \in 1..(m + n)
        BY <1>1, <2>2
      <3> QED
        BY <1>1, <1>2, <1>4, <1>5, <2>0, <2>2, <3>1
    <2>3. CASE i = m + n + 1
      <3>1. i - m = n + 1 /\ ~(i <= m)
        BY <1>1, <2>3
      <3> QED
        BY <1>2, <1>5, <2>0, <2>3, <3>1
    <2> QED
      BY <1>1, <2>1, <2>2, <2>3
  <1>7. Len(ac) = m + n + 1
    BY <1>1, <1>2, <1>3
  <1>8. ac = d
    BY <1>3, <1>5, <1>6, <1>7, SeqEqual
  <1> QED
    BY <1>8 DEF ac, ab, c, d

=============================================================================
