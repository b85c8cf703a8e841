------------------------------- MODULE Lemmas -------------------------------
(***************************************************************************)
(* Facts about numbers and sequences that the proofs of several components *)
(* need.                                                                   *)
(*                                                                         *)
(* The first is induction: a nonempty set of naturals has a least member.  *)
(* An inductive argument takes the set of the counterexamples below some   *)
(* bound and looks at the least of them.                                   *)
(***************************************************************************)
EXTENDS Integers, SequencesExt, FiniteSetTheorems, TLAPS

(***************************************************************************)
(* If T had no least member, the numbers below all of T would be closed    *)
(* under successor, and a finite set would map one-to-one into itself      *)
(* without 0.                                                              *)
(***************************************************************************)
LEMMA LeastNat ==
  ASSUME NEW T, T \subseteq Nat, T # {}
  PROVE  \E n \in T : \A k \in T : n <= k
<1>. SUFFICES ASSUME \A n \in T : \E k \in T : k < n PROVE FALSE
  OBVIOUS
<1>1. PICK t \in T : TRUE
  OBVIOUS
<1>. DEFINE U == {k \in 0..t : \A j \in T : k < j}
            Succ == [k \in U |-> k + 1]
<1>2. IsFiniteSet(U) /\ Cardinality(U) \in Nat
  <2>1. IsFiniteSet(0..t)
    BY <1>1, FS_Interval
  <2>2. U \in SUBSET (0..t)
    OBVIOUS
  <2>. HIDE DEF U
  <2>. QED
    BY <2>1, <2>2, FS_Subset, FS_CardinalityType
<1>3. 0 \in U
  <2>. SUFFICES ASSUME NEW j \in T, ~(0 < j) PROVE FALSE
    BY <1>1
  <2>. QED
    OBVIOUS
<1>4. \A k \in U : k + 1 \in U \ {0}
  <2>. SUFFICES ASSUME NEW k \in U PROVE k + 1 \in U
    OBVIOUS
  <2>1. k \in Nat /\ \A j \in T : k + 1 <= j
    OBVIOUS
  <2>2. \A j \in T : k + 1 # j
    BY <2>1
  <2>3. \A j \in T : k + 1 < j
    BY <2>1, <2>2
  <2>. QED
    BY <2>1, <2>3
<1>5. Succ \in Injection(U, U \ {0})
  <2>. HIDE DEF U
  <2>1. Succ \in [U -> U \ {0}]
    BY <1>4
  <2>2. ASSUME NEW a \in U, NEW b \in U, Succ[a] = Succ[b] PROVE a = b
    BY <2>2 DEF U
  <2>. QED
    BY <2>1, <2>2 DEF Injection, IsInjective
<1>. HIDE DEF U, Succ
<1>6. IsFiniteSet(U \ {0}) /\ Cardinality(U \ {0}) = Cardinality(U) - 1
  BY <1>2, <1>3, FS_RemoveElement
<1>7. Cardinality(U) <= Cardinality(U \ {0})
  BY <1>2, <1>5, <1>6, FS_Injection
<1>. QED
  BY <1>2, <1>6, <1>7

\* What Min picks.
LEMMA MinIsLeast ==
  ASSUME NEW T, T \subseteq Nat, T # {}
  PROVE  /\ Min(T) \in T
         /\ \A k \in T : Min(T) <= k
BY LeastNat DEF Min

\* What SelectInSeq finds, in the set of the positions that pass its test.
LEMMA MinOrZero ==
  ASSUME NEW n \in Nat, NEW I, I \subseteq 1..n, NEW at,
         at = IF I # {} THEN Min(I) ELSE 0
  PROVE  /\ at = 0 <=> I = {}
         /\ at # 0 => at \in I /\ \A j \in I : at <= j
<1>. I \subseteq Nat
  OBVIOUS
<1>1. I # {} => Min(I) \in I /\ \A j \in I : Min(I) <= j
  BY MinIsLeast
<1>2. \A j \in I : j # 0
  OBVIOUS
<1>. QED
  BY <1>1, <1>2

\* The places of a concatenation.
LEMMA ConcatFacts ==
  ASSUME NEW D, NEW s \in Seq(D), NEW t \in Seq(D), NEW r, r = s \o t
  PROVE  /\ r \in Seq(D)
         /\ Len(r) = Len(s) + Len(t) /\ Len(s) \in Nat /\ Len(t) \in Nat
         /\ \A i \in 1..Len(s) : r[i] = s[i]
         /\ \A i \in 1..Len(t) : r[Len(s) + i] = t[i]
OBVIOUS

Avoids(s, c) == \A i \in 1..Len(s) : s[i] # c

\* What is in neither of two sequences is not in their concatenation.
LEMMA ConcatAvoids ==
  ASSUME NEW D, NEW s \in Seq(D), NEW t \in Seq(D), NEW c, Avoids(s, c), Avoids(t, c)
  PROVE  s \o t \in Seq(D) /\ Len(s \o t) = Len(s) + Len(t) /\ Avoids(s \o t, c)
<1>. DEFINE r == s \o t
<1>1. /\ r \in Seq(D)
      /\ Len(r) = Len(s) + Len(t) /\ Len(s) \in Nat /\ Len(t) \in Nat
      /\ \A i \in 1..Len(s) : r[i] = s[i]
      /\ \A i \in 1..Len(t) : r[Len(s) + i] = t[i]
  BY ConcatFacts
<1>2. \A m, n \in Nat : \A i \in 1..(m + n) :
        i \in 1..m \/ (i - m \in 1..n /\ m + (i - m) = i)
  OBVIOUS
<1>. HIDE DEF r
<1>3. ASSUME NEW i \in 1..Len(r) PROVE r[i] # c
  <2>1. i \in 1..Len(s) \/ (i - Len(s) \in 1..Len(t) /\ Len(s) + (i - Len(s)) = i)
    <3>1. i \in 1..(Len(s) + Len(t)) /\ Len(s) \in Nat /\ Len(t) \in Nat
      BY <1>1, Zenon
    <3>. HIDE DEF r
    <3>. QED
      BY <1>2, <3>1, Zenon
  <2>2. CASE i \in 1..Len(s)
    BY <1>1, <2>2, Zenon DEF Avoids
  <2>3. CASE i - Len(s) \in 1..Len(t) /\ Len(s) + (i - Len(s)) = i
    BY <1>1, <2>3, Zenon DEF Avoids
  <2>. QED
    BY <2>1, <2>2, <2>3, Zenon
<1>. QED
  BY <1>1, <1>3, Zenon DEF Avoids, r

StartsWith(s, p) == Len(p) <= Len(s) /\ \A i \in 1..Len(p) : s[i] = p[i]

\* A prefix of s is one of what extends s.
LEMMA ConcatExtends ==
  \A D : \A s, t, p \in Seq(D) : \A r :
    r = s \o t /\ StartsWith(s, p) => StartsWith(r, p)
<1>. SUFFICES ASSUME NEW D, NEW s \in Seq(D), NEW t \in Seq(D), NEW p \in Seq(D), NEW r,
                     r = s \o t, StartsWith(s, p)
              PROVE  StartsWith(r, p)
  OBVIOUS
<1>1. Len(r) = Len(s) + Len(t) /\ Len(s) \in Nat /\ Len(t) \in Nat
      /\ \A i \in 1..Len(s) : r[i] = s[i]
  BY ConcatFacts
<1>2. Len(p) \in Nat
  OBVIOUS
<1>3. Len(p) <= Len(s) /\ \A i \in 1..Len(p) : s[i] = p[i]
  BY DEF StartsWith
<1>4. Len(p) <= Len(r) /\ \A i \in 1..Len(p) : i \in 1..Len(s)
  BY <1>1, <1>2, <1>3
<1>. QED
  BY <1>1, <1>3, <1>4, Zenon DEF StartsWith

-----------------------------------------------------------------------------
(***************************************************************************)
(* FlattenSeq, by its definition: the concatenation of the first i for     *)
(* every i. That such a function exists is the induction.                  *)
(***************************************************************************)
Concatenations(D, s, f) ==
  /\ f \in [1..Len(s) -> Seq(D)]
  /\ f[1] = s[1]
  /\ \A i \in 2..Len(s) : f[i] = f[i - 1] \o s[i]

\* It is the last of the concatenations.
LEMMA FlattenUnrolls ==
  ASSUME NEW D, NEW s \in Seq(Seq(D)), Len(s) > 0
  PROVE  \E f : Concatenations(D, s, f) /\ FlattenSeq(s) = f[Len(s)]
<1>. DEFINE N == Len(s)
            Step(i, x) == IF i = 1 THEN s[i] ELSE x \o s[i]
            Is(f, m) == f = [i \in 1..m |-> Step(i, f[i - 1])]
<1>1. N \in Nat \ {0} /\ \A i \in 1..N : s[i] \in Seq(D)
  OBVIOUS
<1>2. /\ \A x : Step(1, x) = s[1]
      /\ \A x, i : i # 1 => Step(i, x) = x \o s[i]
  OBVIOUS
<1>3. FlattenSeq(s) = (CHOOSE f : Is(f, N))[N]
  <2>1. Len(s) # 0
    OBVIOUS
  <2>. QED
    BY <2>1, Zenon DEF FlattenSeq
<1>. HIDE DEF Step, N
<1>4. \A m \in 1..N : \E f : Is(f, m)
  <2>. DEFINE T == {m \in 1..N : ~ \E f : Is(f, m)}
  <2>. SUFFICES ASSUME T # {} PROVE FALSE
    OBVIOUS
  <2>1. PICK m \in T : \A j \in T : m <= j
    <3>. T \subseteq Nat
      OBVIOUS
    <3>. HIDE DEF T
    <3>. QED
      BY LeastNat
  <2>2. CASE m = 1
    <3>. DEFINE f == [i \in 1..1 |-> s[1]]
    <3>1. Is(f, 1)
      BY <1>2
    <3>. QED
      BY <2>1, <2>2, <3>1
  <2>3. CASE m # 1
    <3>m. m \in Nat /\ m - 1 \in 1..N /\ m - 1 \notin T
      <4>1. T \subseteq 1..N
        BY Zenon
      <4>. HIDE DEF T
      <4>. QED
        BY <1>1, <2>1, <2>3, <4>1
    <3>1. PICK g : Is(g, m - 1)
      BY <3>m
    <3>. DEFINE h == [i \in 1..m |-> IF i = m THEN Step(m, g[m - 1]) ELSE g[i]]
    <3>2. ASSUME NEW i \in 1..m PROVE h[i] = Step(i, h[i - 1])
      <4>1. CASE i = m
        BY <4>1, <2>3, <3>m
      <4>2. CASE i # m /\ i # 1
        BY <4>2, <2>3, <3>m, <3>1
      <4>3. CASE i = 1
        <5>1. h[i] = g[1] /\ g[1] = Step(1, g[0])
          BY <4>3, <3>m, <2>3, <3>1, SMTT(40)
        <5>. QED
          BY <4>3, <5>1, <1>2
      <4>. QED
        BY <4>1, <4>2, <4>3
    <3>3. Is(h, m)
      BY <3>2
    <3>. QED
      BY <2>1, <3>3
  <2>. QED
    BY <2>2, <2>3
<1>5. PICK f : Is(f, N) /\ FlattenSeq(s) = f[N]
  <2>. HIDE DEF Is
  <2>1. N \in 1..N
    BY <1>1
  <2>. QED
    BY <1>3, <1>4, <2>1, Zenon
<1>6. f[1] = s[1] /\ \A i \in 2..N : f[i] = f[i - 1] \o s[i]
  <2>1. \A i \in 1..N : f[i] = Step(i, f[i - 1])
    BY <1>5
  <2>. HIDE DEF Is
  <2>2. 1 \in 1..N /\ \A i \in 2..N : i \in 1..N /\ i # 1
    BY <1>1
  <2>. QED
    BY <1>2, <2>1, <2>2
<1>7. \A i \in 1..N : f[i] \in Seq(D)
  <2>. DEFINE T == {i \in 1..N : f[i] \notin Seq(D)}
  <2>. SUFFICES ASSUME T # {} PROVE FALSE
    OBVIOUS
  <2>1. PICK i \in T : \A j \in T : i <= j
    <3>. T \subseteq Nat
      OBVIOUS
    <3>. HIDE DEF T
    <3>. QED
      BY LeastNat
  <2>2. i # 1 /\ i - 1 \in 1..N
    BY <1>1, <1>6, <2>1
  <2>3. f[i - 1] \in Seq(D)
    BY <2>1, <2>2
  <2>4. i \in 2..N /\ f[i] \notin Seq(D) /\ s[i] \in Seq(D)
    BY <1>1, <2>1, <2>2
  <2>5. f[i] = f[i - 1] \o s[i]
    BY <1>6, <2>4
  <2>. QED
    BY <2>3, <2>4, <2>5
<1>8. f \in [1..N -> Seq(D)]
  BY <1>5, <1>7
<1>. QED
  BY <1>5, <1>6, <1>8 DEF Concatenations, N

\* What a prefix is flattened to.
LEMMA FlattenPrefix ==
  ASSUME NEW D, NEW s \in Seq(Seq(D)), NEW f, Concatenations(D, s, f),
         NEW k \in 1..Len(s)
  PROVE  FlattenSeq(SubSeq(s, 1, k)) = f[k]
<1>. DEFINE p == SubSeq(s, 1, k)
<1>1. /\ p \in Seq(Seq(D)) /\ Len(p) = k /\ k \in Nat \ {0} /\ k <= Len(s)
      /\ Len(s) \in Nat
      /\ \A i \in 1..k : p[i] = s[i]
  OBVIOUS
<1>. HIDE DEF p
<1>2. PICK g : Concatenations(D, p, g) /\ FlattenSeq(p) = g[Len(p)]
  <2>1. Len(p) > 0
    BY <1>1
  <2>. QED
    BY <1>1, <2>1, FlattenUnrolls, Zenon
<1>3. \A i \in 1..k : g[i] = f[i]
  <2>. DEFINE T == {i \in 1..k : g[i] # f[i]}
  <2>. SUFFICES ASSUME T # {} PROVE FALSE
    OBVIOUS
  <2>1. PICK i \in T : \A j \in T : i <= j
    <3>. T \subseteq Nat
      OBVIOUS
    <3>. HIDE DEF T
    <3>. QED
      BY LeastNat
  <2>2. g[1] = f[1]
    BY <1>1, <1>2 DEF Concatenations
  <2>3. i \in 2..k /\ i - 1 \in 1..k /\ i - 1 \notin T
    BY <1>1, <2>1, <2>2
  <2>4. g[i] = g[i - 1] \o p[i] /\ f[i] = f[i - 1] \o s[i]
    <3>1. i \in 2..Len(p) /\ i \in 2..Len(s) /\ Len(p) = k
      BY <1>1, <2>3
    <3>2. \A j \in 2..Len(p) : g[j] = g[j - 1] \o p[j]
      BY <1>2, Zenon DEF Concatenations
    <3>3. \A j \in 2..Len(s) : f[j] = f[j - 1] \o s[j]
      BY Zenon DEF Concatenations
    <3>. QED
      BY <3>1, <3>2, <3>3, Zenon
  <2>. QED
    BY <1>1, <2>1, <2>3, <2>4
<1>. QED
  BY <1>1, <1>2, <1>3 DEF p

\* How much of a flattened sequence comes from the first k of its parts.
Before(s, k) == Len(FlattenSeq(SubSeq(s, 1, k)))

(***************************************************************************)
(* Where the elements of a flattened sequence come from.                   *)
(***************************************************************************)
LEMMA FlattenPlaces ==
  ASSUME NEW D, NEW s \in Seq(Seq(D))
  PROVE  /\ FlattenSeq(s) \in Seq(D)
         /\ Before(s, 0) = 0
         /\ \A k \in 0..Len(s) : Before(s, k) \in Nat
         /\ \A k \in 1..Len(s) : Before(s, k) = Before(s, k - 1) + Len(s[k])
         /\ Before(s, Len(s)) = Len(FlattenSeq(s))
         /\ \A k \in 1..Len(s) : \A n \in 1..Len(s[k]) :
              FlattenSeq(s)[Before(s, k - 1) + n] = s[k][n]
<1>0. FlattenSeq(<<>>) = <<>>
  BY DEF FlattenSeq
<1>1. SubSeq(s, 1, 0) = <<>> /\ Len(s) \in Nat
  OBVIOUS
<1>2. Before(s, 0) = 0
  <2>1. Len(<<>>) = 0
    OBVIOUS
  <2>. QED
    BY <1>0, <1>1, <2>1, Zenon DEF Before
<1>3. CASE Len(s) = 0
  <2>1. s = <<>>
    BY <1>3
  <2>2. 1..Len(s) = {} /\ 0..Len(s) = {0}
    BY <1>3
  <2>3. FlattenSeq(s) \in Seq(D) /\ Len(FlattenSeq(s)) = 0
    <3>1. FlattenSeq(s) = <<>>
      BY <1>0, <2>1, Zenon
    <3>2. <<>> \in Seq(D) /\ Len(<<>>) = 0
      OBVIOUS
    <3>. QED
      BY <3>1, <3>2, Zenon
  <2>4. \A k \in 0..Len(s) : Before(s, k) \in Nat
    <3>1. 0 \in Nat
      OBVIOUS
    <3>. QED
      BY <1>2, <2>2, <3>1, Zenon
  <2>. QED
    BY <1>2, <1>3, <2>2, <2>3, <2>4, Zenon
<1>4. CASE Len(s) > 0
  <2>1. PICK f : Concatenations(D, s, f) /\ FlattenSeq(s) = f[Len(s)]
    BY <1>4, FlattenUnrolls
  <2>. DEFINE N == Len(s)
  <2>2. N \in Nat \ {0} /\ \A k \in 1..N : f[k] \in Seq(D) /\ s[k] \in Seq(D)
    <3>1. f \in [1..N -> Seq(D)]
      BY <2>1, Zenon DEF Concatenations
    <3>2. \A k \in 1..N : f[k] \in Seq(D)
      BY <3>1, Zenon
    <3>. QED
      BY <1>4, <3>2
  <2>3. f[1] = s[1] /\ \A k \in 2..N : f[k] = f[k - 1] \o s[k]
    BY <2>1 DEF Concatenations
  <2>4. \A k \in 1..N : Before(s, k) = Len(f[k])
    BY <2>1, FlattenPrefix DEF Before
  <2>. HIDE DEF N
  <2>5. \A k \in 0..N : Before(s, k) \in Nat
    <3>1. \A k \in 1..N : Len(f[k]) \in Nat
      BY <2>2
    <3>. QED
      BY <1>2, <2>2, <2>4, <3>1
  <2>6. \A k \in 1..N : Before(s, k) = Before(s, k - 1) + Len(s[k])
    <3>. SUFFICES ASSUME NEW k \in 1..N
                  PROVE  Before(s, k) = Before(s, k - 1) + Len(s[k])
      OBVIOUS
    <3>1. CASE k = 1
      BY <1>2, <2>2, <2>3, <2>4, <3>1
    <3>2. CASE k # 1
      <4>1. k \in 2..N /\ k - 1 \in 1..N
        BY <2>2, <3>2
      <4>2. Len(f[k]) = Len(f[k - 1]) + Len(s[k])
        <5>1. f[k] = f[k - 1] \o s[k] /\ f[k - 1] \in Seq(D) /\ s[k] \in Seq(D)
          BY <2>2, <2>3, <4>1
        <5>. QED
          BY <5>1, ConcatFacts
      <4>. QED
        BY <2>4, <4>1, <4>2
    <3>. QED
      BY <3>1, <3>2
  \* What the first k parts make up is a prefix of all that follows.
  <2>7. ASSUME NEW k \in 1..N
        PROVE  \A m \in k..N : StartsWith(f[m], f[k])
    <3>. DEFINE Ok(m) == StartsWith(f[m], f[k])
                T == {m \in k..N : ~Ok(m)}
    <3>1. ASSUME T # {} PROVE FALSE
      <4>1. PICK m \in T : \A j \in T : m <= j
        <5>. T \subseteq Nat
          BY <2>2
        <5>. HIDE DEF T
        <5>. QED
          BY <3>1, LeastNat
      <4>2. Ok(k)
        BY <2>2 DEF StartsWith
      <4>3. T \subseteq k..N
        BY Zenon
      <4>4. m \in k..N /\ ~Ok(m)
        BY Zenon
      <4>5. m # k
        BY <4>2, <4>4, Zenon
      <4>6. m \in 2..N /\ m - 1 \in k..N /\ m - 1 \in 1..N /\ m \in 1..N
        BY <2>2, <4>4, <4>5
      <4>7. m - 1 \notin T
        <5>. HIDE DEF T
        <5>. QED
          BY <4>1, <4>6
      <4>8. Ok(m - 1)
        BY <4>6, <4>7, Zenon
      <4>9. /\ f[m] = f[m - 1] \o s[m]
            /\ f[m - 1] \in Seq(D) /\ s[m] \in Seq(D) /\ f[k] \in Seq(D)
        BY <2>2, <2>3, <4>6
      <4>10. Ok(m)
        <5>. HIDE DEF T
        <5>1. StartsWith(f[m - 1], f[k])
          BY <4>8, Zenon
        <5>2. StartsWith(f[m], f[k])
          BY <4>9, <5>1, ConcatExtends, Zenon
        <5>. QED
          BY <5>2, Zenon
      <4>. QED
        BY <4>4, <4>10
    <3>. QED
      BY <3>1
  <2>8. ASSUME NEW k \in 1..N, NEW n \in 1..Len(s[k])
        PROVE  FlattenSeq(s)[Before(s, k - 1) + n] = s[k][n]
    <3>. DEFINE b == Before(s, k - 1)
    <3>1. f[k][b + n] = s[k][n]
      <4>1. CASE k = 1
        BY <1>2, <2>3, <4>1
      <4>2. CASE k # 1
        <5>1. k \in 2..N /\ k - 1 \in 1..N
          BY <2>2, <4>2
        <5>2. f[k] = f[k - 1] \o s[k] /\ b = Len(f[k - 1])
          BY <2>3, <2>4, <5>1
        <5>3. f[k - 1] \in Seq(D) /\ s[k] \in Seq(D)
          BY <2>2, <5>1
        <5>4. \A a, c \in Seq(D) : \A r : r = a \o c =>
                \A i \in 1..Len(c) : r[Len(a) + i] = c[i]
          BY ConcatFacts
        <5>5. f[k][Len(f[k - 1]) + n] = s[k][n]
          BY <5>2, <5>3, <5>4, ZenonT(60)
        <5>. QED
          BY <5>2, <5>5
      <4>. QED
        BY <4>1, <4>2
    <3>2. b + n \in 1..Len(f[k])
      <4>1. Len(f[k]) = b + Len(s[k])
        BY <2>4, <2>6
      <4>2. b \in Nat
        BY <2>2, <2>5
      <4>3. Len(s[k]) \in Nat
        BY <2>2
      <4>. HIDE DEF b
      <4>. QED
        BY <4>1, <4>2, <4>3
    <3>3. N \in k..N
      BY <2>2
    <3>. HIDE DEF b
    <3>4. f[N][b + n] = f[k][b + n]
      BY <2>7, <3>2, <3>3 DEF StartsWith
    <3>. QED
      BY <2>1, <3>1, <3>4 DEF b, N
  <2>9. FlattenSeq(s) \in Seq(D) /\ Before(s, N) = Len(FlattenSeq(s))
    BY <2>1, <2>2, <2>4 DEF N
  <2>. QED
    BY <1>2, <2>5, <2>6, <2>8, <2>9 DEF N
<1>. QED
  BY <1>1, <1>3, <1>4

\* Later parts have later positions.
LEMMA BeforeGrows ==
  ASSUME NEW D, NEW s \in Seq(Seq(D)), NEW j \in 1..Len(s), NEW m \in 1..Len(s), j < m
  PROVE  Before(s, j) <= Before(s, m - 1)
<1>. DEFINE N == Len(s)
            B(k) == Before(s, k)
            T == {i \in j..N : B(i) < B(j)}
<1>1. /\ N \in Nat /\ \A k \in 0..N : B(k) \in Nat
      /\ \A k \in 1..N : B(k) = B(k - 1) + Len(s[k]) /\ Len(s[k]) \in Nat
  BY FlattenPlaces
<1>. HIDE DEF N, B
<1>2. ASSUME T # {} PROVE FALSE
  <2>1. T \subseteq Nat /\ T \subseteq j..N
    BY <1>1
  <2>. HIDE DEF T
  <2>2. PICK i \in T : \A o \in T : i <= o
    BY <1>2, <2>1, LeastNat
  <2>3. i \in j..N /\ B(i) < B(j)
    BY <2>2 DEF T
  <2>4. j \in Nat \ {0} /\ j \in 0..N /\ i \in 0..N
    BY <1>1, <2>3 DEF N
  <2>5. i # j
    BY <1>1, <2>3, <2>4
  <2>6. i - 1 \in j..N /\ i \in 1..N /\ i - 1 \in 0..N
    BY <1>1, <2>3, <2>4, <2>5
  <2>7. i - 1 \notin T
    BY <2>1, <2>2, <2>6
  <2>8. B(i - 1) >= B(j)
    BY <1>1, <2>4, <2>6, <2>7 DEF T
  <2>9. /\ B(i) = B(i - 1) + Len(s[i]) /\ Len(s[i]) \in Nat
        /\ B(i - 1) \in Nat /\ B(j) \in Nat
    BY <1>1, <2>4, <2>6, Zenon
  <2>10. ASSUME NEW a \in Nat, NEW b \in Nat, NEW c \in Nat, a >= b PROVE ~(a + c < b)
    BY <2>10
  <2>. QED
    BY <2>3, <2>8, <2>9, <2>10, Zenon
<1>3. m - 1 \in j..N /\ m - 1 \in 0..N /\ j \in 0..N
  BY <1>1 DEF N
<1>4. m - 1 \notin T
  <2>. HIDE DEF T
  <2>. QED
    BY <1>2, Zenon
<1>. QED
  BY <1>1, <1>3, <1>4 DEF B

\* Every position of a flattened sequence lies in one of its parts, and in one only.
LEMMA FlattenOwner ==
  ASSUME NEW D, NEW s \in Seq(Seq(D)), NEW idx \in 1..Len(FlattenSeq(s))
  PROVE  /\ \E k \in 1..Len(s) : Before(s, k - 1) < idx /\ idx <= Before(s, k)
         /\ \A j, k \in 1..Len(s) :
              /\ Before(s, j - 1) < idx /\ idx <= Before(s, j)
              /\ Before(s, k - 1) < idx /\ idx <= Before(s, k)
              => j = k
<1>. DEFINE N == Len(s)
            B(k) == Before(s, k)
<1>1. /\ N \in Nat /\ B(0) = 0
      /\ \A k \in 0..N : B(k) \in Nat
      /\ B(N) = Len(FlattenSeq(s))
      /\ \A j, m \in 1..N : j < m => B(j) <= B(m - 1)
  BY FlattenPlaces, BeforeGrows
<1>. HIDE DEF N, B
<1>2. PICK k \in 0..N : idx <= B(k) /\ \A j \in 0..N : idx <= B(j) => k <= j
  <2>. DEFINE T == {k \in 0..N : idx <= B(k)}
  <2>1. N \in T
    BY <1>1
  <2>2. T \subseteq Nat
    BY <1>1
  <2>. HIDE DEF T
  <2>3. PICK k \in T : \A j \in T : k <= j
    BY <2>1, <2>2, LeastNat
  <2>. QED
    BY <2>3 DEF T
<1>3. k \in 1..N /\ B(k - 1) < idx
  <2>1. k # 0
    BY <1>1, <1>2
  <2>2. k - 1 \in 0..N /\ B(k - 1) \in Nat
    BY <1>1, <2>1
  <2>. QED
    BY <1>1, <1>2, <2>1, <2>2
<1>4. ASSUME NEW j \in 1..N, NEW m \in 1..N,
             B(j - 1) < idx /\ idx <= B(j), B(m - 1) < idx /\ idx <= B(m)
      PROVE  j = m
  <2>1. /\ j - 1 \in 0..N /\ m - 1 \in 0..N /\ j \in 0..N /\ m \in 0..N /\ idx \in Nat
        /\ B(j) \in Nat /\ B(m) \in Nat /\ B(j - 1) \in Nat /\ B(m - 1) \in Nat
    BY <1>1
  <2>2. ~(j < m) /\ ~(m < j)
    BY <1>1, <1>4, <2>1
  <2>. QED
    BY <2>2
<1>. QED
  BY <1>2, <1>3, <1>4 DEF N, B

\* Every place of a flattened sequence comes from a place in one of its parts.
LEMMA FlattenSource ==
  ASSUME NEW D, NEW s \in Seq(Seq(D)), NEW idx \in 1..Len(FlattenSeq(s))
  PROVE  \E k \in 1..Len(s) : \E n \in 1..Len(s[k]) :
           /\ Before(s, k - 1) < idx /\ idx <= Before(s, k)
           /\ FlattenSeq(s)[idx] = s[k][n]
<1>1. Len(s) \in Nat /\ \A k \in 1..Len(s) : k - 1 \in 0..Len(s) /\ Len(s[k]) \in Nat
  OBVIOUS
<1>2. /\ \A k \in 0..Len(s) : Before(s, k) \in Nat
      /\ \A k \in 1..Len(s) : Before(s, k) = Before(s, k - 1) + Len(s[k])
      /\ \A k \in 1..Len(s) : \A n \in 1..Len(s[k]) :
           FlattenSeq(s)[Before(s, k - 1) + n] = s[k][n]
  BY FlattenPlaces
<1>3. PICK k \in 1..Len(s) : Before(s, k - 1) < idx /\ idx <= Before(s, k)
  BY FlattenOwner
<1>. DEFINE b == Before(s, k - 1)
            n == idx - b
<1>4. b \in Nat /\ Before(s, k) = b + Len(s[k]) /\ Len(s[k]) \in Nat /\ b < idx
  BY <1>1, <1>2, <1>3
<1>5. \A i \in 1..Len(s[k]) : FlattenSeq(s)[b + i] = s[k][i]
  BY <1>2
<1>. HIDE DEF b
<1>6. n \in 1..Len(s[k]) /\ b + n = idx
  BY <1>1, <1>3, <1>4
<1>. HIDE DEF n
<1>7. FlattenSeq(s)[idx] = s[k][n]
  BY <1>5, <1>6
<1>. QED
  BY <1>3, <1>6, <1>7

\* The first parts of a flattened sequence are no longer than all of it.
LEMMA BeforeWithin ==
  ASSUME NEW D, NEW s \in Seq(Seq(D)), NEW k \in 0..Len(s)
  PROVE  Before(s, k) <= Len(FlattenSeq(s))
<1>. DEFINE N == Len(s)
            B(j) == Before(s, j)
<1>1. N \in Nat /\ \A j \in 1..N : Len(s[j]) \in Nat
  OBVIOUS
<1>2. /\ B(0) = 0
      /\ \A j \in 0..N : B(j) \in Nat
      /\ \A j \in 1..N : B(j) = B(j - 1) + Len(s[j])
      /\ B(N) = Len(FlattenSeq(s))
  BY FlattenPlaces, Zenon
<1>3. \A j, m \in 1..N : j < m => B(j) <= B(m - 1)
  BY BeforeGrows, Zenon
<1>4. k \in 0..N
  OBVIOUS
<1>. HIDE DEF N, B
<1>5. CASE k = 0 \/ k = N
  <2>1. B(k) <= B(N)
    BY <1>1, <1>2, <1>5
  <2>. QED
    BY <1>2, <2>1 DEF B
<1>6. CASE k # 0 /\ k # N
  <2>1. k \in 1..N /\ N \in 1..N /\ k < N /\ N - 1 \in 0..N /\ N \in 0..N
    BY <1>1, <1>4, <1>6
  <2>2. B(k) <= B(N - 1)
    BY <1>3, <2>1
  <2>3. B(N) = B(N - 1) + Len(s[N]) /\ Len(s[N]) \in Nat
    BY <1>1, <1>2, <2>1
  <2>4. B(k) \in Nat /\ B(N - 1) \in Nat
    BY <1>2, <1>4, <2>1
  <2>5. \A x, y, z \in Nat : x <= y => x <= y + z
    OBVIOUS
  <2>6. B(k) <= B(N)
    BY <2>2, <2>3, <2>4, <2>5, Zenon
  <2>. QED
    BY <1>2, <2>6 DEF B
<1>. QED
  BY <1>5, <1>6

\* Every place in a part has one in the flattened sequence.
LEMMA FlattenTarget ==
  ASSUME NEW D, NEW s \in Seq(Seq(D)), NEW k \in 1..Len(s), NEW n \in 1..Len(s[k])
  PROVE  \E idx \in 1..Len(FlattenSeq(s)) :
           /\ Before(s, k - 1) < idx /\ idx <= Before(s, k)
           /\ FlattenSeq(s)[idx] = s[k][n]
<1>. DEFINE N == Len(s)
            b == Before(s, k - 1)
<1>1. /\ N \in Nat /\ \A i \in 1..N : i \in 0..N /\ i - 1 \in 0..N /\ Len(s[i]) \in Nat
      /\ Len(FlattenSeq(s)) \in Nat
  <2>1. N \in Nat /\ \A i \in 1..N : i \in 0..N /\ i - 1 \in 0..N /\ Len(s[i]) \in Nat
    OBVIOUS
  <2>2. FlattenSeq(s) \in Seq(D)
    BY FlattenPlaces
  <2>. QED
    BY <2>1, <2>2
<1>2. /\ \A i \in 0..N : Before(s, i) \in Nat
      /\ \A i \in 1..N : Before(s, i) = Before(s, i - 1) + Len(s[i])
      /\ Before(s, N) = Len(FlattenSeq(s))
      /\ FlattenSeq(s)[b + n] = s[k][n]
  BY FlattenPlaces
<1>. HIDE DEF N
<1>3. k \in 1..N /\ b \in Nat /\ Before(s, k) = b + Len(s[k]) /\ Len(s[k]) \in Nat
  BY <1>1, <1>2 DEF N
<1>4. Before(s, k) <= Len(FlattenSeq(s))
  BY <1>1, BeforeWithin
<1>. HIDE DEF b
<1>5. b + n \in 1..Len(FlattenSeq(s)) /\ b < b + n /\ b + n <= Before(s, k)
  BY <1>1, <1>3, <1>4
<1>. QED
  BY <1>2, <1>5 DEF b
=============================================================================
