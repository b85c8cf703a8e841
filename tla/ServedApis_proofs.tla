-------------------------- MODULE ServedApis_proofs --------------------------
(***************************************************************************)
(* The router that into_router and choice build answers every request as   *)
(* the endpoints of the API do in the order they are written, for every    *)
(* API and every request.                                                  *)
(*                                                                         *)
(* A router is taken to serve a set of items <<i, m>>, endpoint i with its *)
(* first m steps behind it.  Serves is the largest relation that each kind *)
(* of node asks of the nodes inside it, so that no induction over routers  *)
(* is needed: choice keeps it because a set of pairs that contains all its *)
(* calls is such a relation (ChoiceServes).  dispatch, at a node with some *)
(* segments left, stands where those items stand (Stands), and what it has *)
(* on its stack covers the endpoints still to be tried (Searches).         *)
(***************************************************************************)
EXTENDS ServedApis, Dispatch_proofs, SequenceTheorems

-----------------------------------------------------------------------------
(***************************************************************************)
(* The steps of an endpoint that shape its router, from the outside in.    *)
(***************************************************************************)
Ahead(ep, m) ==
  {j \in (m + 1)..Len(ep.steps) : ep.steps[j].c \in {"Path", "Capture", "CaptureAll"}}

NextStep(ep, m) == First(Ahead(ep, m))

\* What the router of the steps after the first m is.
KindAt(ep, m) ==
  IF Ahead(ep, m) # {} THEN ep.steps[NextStep(ep, m)].c
  ELSE IF IsRaw(ep) THEN "Raw" ELSE "Leaf"

LEMMA NextStepFacts ==
  ASSUME NEW ep, IsEndpoint(ep), NEW m \in 0..Len(ep.steps), Ahead(ep, m) # {}
  PROVE  /\ NextStep(ep, m) \in (m + 1)..Len(ep.steps)
         /\ NextStep(ep, m) \in Nat
         /\ KindAt(ep, m) = ep.steps[NextStep(ep, m)].c
         /\ KindAt(ep, m) \in {"Path", "Capture", "CaptureAll"}
         /\ \A j \in (m + 1)..(NextStep(ep, m) - 1) :
              ep.steps[j].c \notin {"Path", "Capture", "CaptureAll"}
<1>. DEFINE S == Ahead(ep, m)
<1>1. S \subseteq Nat /\ S # {} /\ Len(ep.steps) \in Nat
  BY DEF Ahead, IsEndpoint
<1>2. PICK i \in S : \A j \in S : i <= j
  <2>. HIDE DEF S
  <2>. QED
    BY <1>1, LeastNat
<1>3. NextStep(ep, m) = i
  BY <1>1, <1>2, FirstIsLeast DEF NextStep
<1>4. /\ i \in (m + 1)..Len(ep.steps) /\ i \in Nat
      /\ ep.steps[i].c \in {"Path", "Capture", "CaptureAll"}
  BY <1>2 DEF Ahead
<1>5. ASSUME NEW j \in (m + 1)..(i - 1)
      PROVE  ep.steps[j].c \notin {"Path", "Capture", "CaptureAll"}
  <2>1. j \in (m + 1)..Len(ep.steps) /\ ~(i <= j)
    BY <1>1, <1>4
  <2>. QED
    BY <1>2, <2>1 DEF Ahead
<1>. QED
  BY <1>3, <1>4, <1>5 DEF KindAt

(***************************************************************************)
(* Shape, by its definition: s[i + 1] is the router of the steps after the *)
(* first i.                                                                *)
(***************************************************************************)
Shapes(ep, s) ==
  /\ s[Len(ep.steps) + 1] = Innermost(ep)
  /\ \A i \in 1..Len(ep.steps) : s[i] = ShapeStep(ep.steps[i], s[i + 1])

\* There is such a function: built from the last step outwards.
LEMMA ShapeUnrolls ==
  ASSUME NEW ep, IsEndpoint(ep)
  PROVE  \E s : Shapes(ep, s) /\ Shape(ep) = s[1]
<1>. DEFINE N == Len(ep.steps)
            Wrap(i, x) == IF i = N + 1 THEN Innermost(ep) ELSE ShapeStep(ep.steps[i], x)
            Is(f, m) == f = [i \in m..(N + 1) |-> Wrap(i, f[i + 1])]
            IsShape(f) == f = [i \in 1..(N + 1) |-> Wrap(i, f[i + 1])]
<1>1. N \in Nat
  BY DEF IsEndpoint
<1>2. /\ \A x : Wrap(N + 1, x) = Innermost(ep)
      /\ \A x : \A i \in 1..N : Wrap(i, x) = ShapeStep(ep.steps[i], x)
  BY <1>1
<1>3. Shape(ep) = (CHOOSE f : IsShape(f))[1]
  BY Zenon DEF Shape
<1>4. \A f : IsShape(f) <=> Is(f, 1)
  BY Zenon
<1>. HIDE DEF Wrap, N, IsShape
<1>5. \A d \in 0..N : \E f : Is(f, N + 1 - d)
  <2>. DEFINE T == {d \in 0..N : ~ \E f : Is(f, N + 1 - d)}
  <2>. SUFFICES ASSUME T # {} PROVE FALSE
    OBVIOUS
  <2>1. PICK d \in T : \A j \in T : d <= j
    <3>. T \subseteq Nat
      OBVIOUS
    <3>. HIDE DEF T
    <3>. QED
      BY LeastNat
  <2>2. CASE d = 0
    <3>. DEFINE f == [i \in (N + 1)..(N + 1) |-> Innermost(ep)]
    <3>1. Is(f, N + 1)
      BY <1>1, <1>2
    <3>2. N + 1 - 0 = N + 1
      BY <1>1
    <3>. QED
      BY <2>1, <2>2, <3>1, <3>2
  <2>3. CASE d # 0
    <3>. DEFINE m == N + 1 - d
    <3>a. d \in 0..N
      BY <2>1
    <3>m. /\ d \in Nat /\ d - 1 \in 0..N /\ ~(d <= d - 1)
          /\ m \in 1..N /\ N + 1 - (d - 1) = m + 1
      <4>. HIDE DEF T
      <4>. QED
        BY <1>1, <2>3, <3>a
    <3>b. d - 1 \notin T
      <4>. HIDE DEF T
      <4>. QED
        BY <2>1, <3>m
    <3>1. PICK g : Is(g, m + 1)
      BY <3>m, <3>b
    <3>. HIDE DEF T
    <3>. DEFINE h == [i \in m..(N + 1) |-> IF i = m THEN Wrap(m, g[m + 1]) ELSE g[i]]
    <3>. HIDE DEF m
    <3>2. ASSUME NEW i \in m..(N + 1) PROVE h[i] = Wrap(i, h[i + 1])
      <4>1. CASE i = m
        <5>1. m + 1 \in m..(N + 1) /\ m + 1 # m
          BY <1>1, <3>m
        <5>. QED
          BY <4>1, <5>1
      <4>2. CASE i # m /\ i # N + 1
        <5>1. i + 1 \in m..(N + 1) /\ i + 1 # m /\ i \in (m + 1)..(N + 1)
          BY <1>1, <3>m, <4>2
        <5>2. h[i] = g[i] /\ h[i + 1] = g[i + 1]
          BY <4>2, <5>1
        <5>3. g[i] = Wrap(i, g[i + 1])
          BY <3>1, <5>1
        <5>. QED
          BY <5>2, <5>3
      <4>3. CASE i = N + 1
        <5>1. i # m /\ i \in (m + 1)..(N + 1)
          BY <1>1, <3>m, <4>3
        <5>2. h[i] = g[i] /\ g[i] = Wrap(i, g[i + 1])
          BY <3>1, <5>1
        <5>. QED
          BY <1>2, <4>3, <5>2
      <4>. QED
        BY <4>1, <4>2, <4>3
    <3>3. Is(h, m)
      BY <3>2
    <3>. QED
      BY <2>1, <3>3 DEF m, T
  <2>. QED
    BY <2>2, <2>3
<1>6. PICK f : Is(f, 1) /\ Shape(ep) = f[1]
  <2>1. N \in 0..N /\ N + 1 - N = 1
    BY <1>1
  <2>2. \E f : Is(f, 1)
    BY <1>5, <2>1
  <2>. HIDE DEF Is
  <2>. QED
    BY <1>3, <1>4, <2>2, Zenon
<1>7. \A i \in 1..(N + 1) : f[i] = Wrap(i, f[i + 1])
  BY <1>6
<1>8. N + 1 \in 1..(N + 1) /\ \A i \in 1..N : i \in 1..(N + 1)
  BY <1>1
<1>9. f[N + 1] = Innermost(ep) /\ \A i \in 1..N : f[i] = ShapeStep(ep.steps[i], f[i + 1])
  <2>. HIDE DEF Is
  <2>. QED
    BY <1>2, <1>7, <1>8
<1>. QED
  BY <1>6, <1>9 DEF Shapes, N

\* Steps that shape no router change nothing between m and n.
LEMMA ShapeSkips ==
  ASSUME NEW ep, IsEndpoint(ep), NEW s, Shapes(ep, s),
         NEW m \in 0..Len(ep.steps), NEW n \in m..Len(ep.steps),
         \A j \in (m + 1)..n : ep.steps[j].c \notin {"Path", "Capture", "CaptureAll"}
  PROVE  s[m + 1] = s[n + 1]
<1>. DEFINE T == {d \in 0..(n - m) : s[m + d + 1] # s[m + 1]}
<1>1. Len(ep.steps) \in Nat /\ m \in Nat /\ n \in Nat
  BY DEF IsEndpoint
<1>2. CASE T # {}
  <2>1. PICK d \in T : \A j \in T : d <= j
    <3>. T \subseteq Nat
      BY <1>1
    <3>. HIDE DEF T
    <3>. QED
      BY <1>2, LeastNat
  <2>2. d \in 1..(n - m) /\ d - 1 \in 0..(n - m)
    <3>1. d # 0
      BY <1>1, <2>1
    <3>. QED
      BY <1>1, <2>1, <3>1
  <2>3. s[m + (d - 1) + 1] = s[m + 1]
    BY <1>1, <2>1, <2>2
  <2>4. m + d \in (m + 1)..n /\ m + d \in 1..Len(ep.steps) /\ m + (d - 1) + 1 = m + d
    BY <1>1, <2>2
  <2>5. s[m + d] = s[m + d + 1]
    BY <2>4 DEF Shapes, ShapeStep
  <2>. QED
    BY <2>1, <2>3, <2>4, <2>5
<1>3. CASE T = {}
  <2>1. n - m \in 0..(n - m) /\ m + (n - m) = n
    BY <1>1
  <2>. QED
    BY <1>3, <2>1
<1>. QED
  BY <1>2, <1>3

-----------------------------------------------------------------------------
(***************************************************************************)
(* What a router serves.  The item <<i, m>> is endpoint i with its first m *)
(* steps behind it.  A relation between routers and sets of items is a     *)
(* simulation when each router does at its root what its items call for    *)
(* next, and its parts are again related to the items that get there.      *)
(* choice merges what it can: the items of a merged part are those of both *)
(* parts.  So a router is understood without an induction over its shape.  *)
(***************************************************************************)
Items(eps) == {x \in (DOMAIN eps) \X Nat : x[2] \in 0..Len(eps[x[1]].steps)}

Kind(eps, x) == KindAt(eps[x[1]], x[2])
NextOf(eps, x) == NextStep(eps[x[1]], x[2])

\* The items behind their next step; those of them behind a Path segment.
Onward(eps, X) == {<<x[1], NextOf(eps, x)>> : x \in X}

Under(eps, X, s) ==
  Onward(eps, {x \in X : Kind(eps, x) = "Path"
                          /\ eps[x[1]].steps[NextOf(eps, x)].seg = s})

\* The endpoints all of whose steps are behind.
Ended(eps, X) == {x[1] : x \in {y \in X : Kind(eps, y) = "Leaf"}}

\* All of X comes before all of Y in the order of the endpoints.
Precede(X, Y) == \A x \in X : \A y \in Y : x[1] < y[1]

\* e lists I in order.
Enumerates(e, I) ==
  /\ e \in Seq(Nat)
  /\ \A i, j \in 1..Len(e) : i < j => e[i] < e[j]
  /\ I = {e[i] : i \in 1..Len(e)}

LeavesAt(eps, e) == [i \in 1..Len(e) |-> LeafOf(eps[e[i]])]

StaticRule(eps, n, X, R) ==
  /\ \A x \in X : Kind(eps, x) \in {"Leaf", "Path"}
  /\ \E e : Enumerates(e, Ended(eps, X)) /\ n.leaves = LeavesAt(eps, e)
  /\ \A s \in DOMAIN n.map : <<n.map[s], Under(eps, X, s)>> \in R
  /\ \A s : s \notin DOMAIN n.map => Under(eps, X, s) = {}

CaptureRule(eps, n, X, R) ==
  /\ \A x \in X : Kind(eps, x) = n.t
  /\ <<n.inner, Onward(eps, X)>> \in R

RawRule(eps, n, X) ==
  \E x \in X : X = {x} /\ Kind(eps, x) = "Raw" /\ n.leaf = LeafOf(eps[x[1]])

ChoiceRule(eps, n, X, R) ==
  \E Y, Z : /\ X = Y \cup Z /\ Precede(Y, Z)
            /\ <<n.left, Y>> \in R /\ <<n.right, Z>> \in R

Rule(eps, n, X, R) ==
  /\ X \subseteq Items(eps)
  /\ n.t \in NodeTypes
  /\ n.t = "Static" => StaticRule(eps, n, X, R)
  /\ n.t \in {"Capture", "CaptureAll"} => CaptureRule(eps, n, X, R)
  /\ n.t = "Raw" => RawRule(eps, n, X)
  /\ n.t = "Choice" => ChoiceRule(eps, n, X, R)

Simulates(eps, R) == \A p \in R : p = <<p[1], p[2]>> /\ Rule(eps, p[1], p[2], R)

Serves(eps, n, X) == \E R : Simulates(eps, R) /\ <<n, X>> \in R

\* The endpoints of a served API.
AreEndpoints(eps) == Len(eps) \in Nat /\ DOMAIN eps = 1..Len(eps)
                     /\ \A i \in DOMAIN eps : IsEndpoint(eps[i])

-----------------------------------------------------------------------------
LEMMA RuleGrows ==
  ASSUME NEW eps, NEW n, NEW X, NEW Q, NEW R, Q \subseteq R, Rule(eps, n, X, Q)
  PROVE  Rule(eps, n, X, R)
<1>1. n.t = "Static" => StaticRule(eps, n, X, R)
  BY DEF Rule, StaticRule
<1>2. n.t \in {"Capture", "CaptureAll"} => CaptureRule(eps, n, X, R)
  BY DEF Rule, CaptureRule
<1>3. n.t = "Choice" => ChoiceRule(eps, n, X, R)
  BY DEF Rule, ChoiceRule
<1>. QED
  BY <1>1, <1>2, <1>3 DEF Rule

\* One list after the other, when all of one comes before the other.
LEMMA EnumerateBoth ==
  ASSUME NEW d, NEW e, NEW I, NEW J, Enumerates(d, I), Enumerates(e, J),
         \A i \in I : \A j \in J : i < j
  PROVE  Enumerates(d \o e, I \cup J)
<1>. DEFINE f == d \o e
<1>1. /\ d \in Seq(Nat) /\ e \in Seq(Nat) /\ f \in Seq(Nat)
      /\ Len(f) = Len(d) + Len(e) /\ Len(d) \in Nat /\ Len(e) \in Nat
      /\ \A i \in 1..Len(d) : f[i] = d[i] /\ f[i] \in I
      /\ \A i \in 1..Len(e) : f[Len(d) + i] = e[i] /\ e[i] \in J
  BY DEF Enumerates
<1>. HIDE DEF f
<1>2. ASSUME NEW i \in 1..Len(f)
      PROVE  \/ i \in 1..Len(d) /\ f[i] = d[i]
             \/ i - Len(d) \in 1..Len(e) /\ f[i] = e[i - Len(d)]
  <2>1. CASE i > Len(d)
    <3>1. i - Len(d) \in 1..Len(e) /\ Len(d) + (i - Len(d)) = i
      BY <1>1, <2>1
    <3>. QED
      BY <1>1, <3>1
  <2>2. CASE ~(i > Len(d))
    BY <1>1, <2>2
  <2>. QED
    BY <2>1, <2>2
<1>3. ASSUME NEW i \in 1..Len(f), NEW j \in 1..Len(f), i < j
      PROVE  f[i] < f[j]
  <2>1. CASE j \in 1..Len(d)
    <3>1. i \in 1..Len(d)
      BY <1>1, <1>3, <2>1
    <3>. QED
      BY <1>1, <1>3, <2>1, <3>1 DEF Enumerates
  <2>2. CASE j \notin 1..Len(d) /\ i \in 1..Len(d)
    BY <1>1, <1>2, <2>2
  <2>3. CASE j \notin 1..Len(d) /\ i \notin 1..Len(d)
    <3>1. i - Len(d) < j - Len(d)
      BY <1>1, <1>3
    <3>. QED
      BY <1>2, <2>3, <3>1 DEF Enumerates
  <2>. QED
    BY <2>1, <2>2, <2>3
<1>4. {f[i] : i \in 1..Len(f)} = I \cup J
  <2>1. ASSUME NEW i \in 1..Len(f) PROVE f[i] \in I \cup J
    BY <1>1, <1>2
  <2>2. ASSUME NEW a \in I PROVE \E i \in 1..Len(f) : f[i] = a
    <3>1. PICK i \in 1..Len(d) : d[i] = a
      BY DEF Enumerates
    <3>. QED
      BY <1>1, <3>1
  <2>3. ASSUME NEW a \in J PROVE \E i \in 1..Len(f) : f[i] = a
    <3>1. PICK i \in 1..Len(e) : e[i] = a
      BY DEF Enumerates
    <3>2. Len(d) + i \in 1..Len(f)
      BY <1>1
    <3>. QED
      BY <1>1, <3>1, <3>2
  <2>. QED
    BY <2>1, <2>2, <2>3
<1>. QED
  BY <1>1, <1>3, <1>4 DEF Enumerates, f

LEMMA LeavesAtFacts ==
  ASSUME NEW eps, NEW e \in Seq(Nat), NEW S, \A i \in 1..Len(e) : LeafOf(eps[e[i]]) \in S
  PROVE  /\ LeavesAt(eps, e) \in Seq(S)
         /\ Len(LeavesAt(eps, e)) = Len(e)
         /\ \A i \in 1..Len(e) : LeavesAt(eps, e)[i] = LeafOf(eps[e[i]])
BY DEF LeavesAt

LEMMA LeavesOfBoth ==
  ASSUME NEW eps, NEW d \in Seq(Nat), NEW e \in Seq(Nat)
  PROVE  LeavesAt(eps, d) \o LeavesAt(eps, e) = LeavesAt(eps, d \o e)
<1>. DEFINE f == d \o e
            S == {LeafOf(eps[n]) : n \in Nat}
            u == LeavesAt(eps, d)
            v == LeavesAt(eps, e)
            w == LeavesAt(eps, f)
<1>1. f \in Seq(Nat) /\ Len(f) = Len(d) + Len(e) /\ Len(d) \in Nat /\ Len(e) \in Nat
  OBVIOUS
<1>2. \A g \in Seq(Nat) : \A i \in 1..Len(g) : g[i] \in Nat
  OBVIOUS
<1>3. \A g \in Seq(Nat) : \A i \in 1..Len(g) : LeafOf(eps[g[i]]) \in S
  BY <1>2
<1>. HIDE DEF S, f
<1>4. \A g \in Seq(Nat) :
        /\ LeavesAt(eps, g) \in Seq(S) /\ Len(LeavesAt(eps, g)) = Len(g)
        /\ \A i \in 1..Len(g) : LeavesAt(eps, g)[i] = LeafOf(eps[g[i]])
  BY <1>3, LeavesAtFacts, Zenon
<1>5. /\ u \in Seq(S) /\ v \in Seq(S) /\ w \in Seq(S)
      /\ Len(u) = Len(d) /\ Len(v) = Len(e) /\ Len(w) = Len(f)
      /\ u \o v \in Seq(S) /\ Len(u \o v) = Len(f)
  <2>. HIDE DEF u, v, w
  <2>1. /\ u \in Seq(S) /\ v \in Seq(S) /\ w \in Seq(S)
        /\ Len(u) = Len(d) /\ Len(v) = Len(e) /\ Len(w) = Len(f)
    BY <1>1, <1>4 DEF u, v, w
  <2>. QED
    BY <1>1, <2>1
<1>6. ASSUME NEW i \in 1..Len(f) PROVE (u \o v)[i] = w[i]
  <2>1. w[i] = LeafOf(eps[f[i]])
    BY <1>1, <1>4
  <2>2. CASE i \in 1..Len(d)
    <3>1. f[i] = d[i]
      BY <2>2 DEF f
    <3>2. u[i] = LeafOf(eps[d[i]])
      BY <1>4, <2>2
    <3>. HIDE DEF u, v, w
    <3>3. (u \o v)[i] = u[i]
      BY <1>5, <2>2
    <3>. QED
      BY <2>1, <3>1, <3>2, <3>3
  <2>3. CASE i \notin 1..Len(d)
    <3>1. i - Len(d) \in 1..Len(e) /\ i \in Len(d) + 1 .. Len(d) + Len(e)
      BY <1>1, <2>3
    <3>2. f[i] = e[i - Len(d)]
      BY <1>1, <3>1 DEF f
    <3>3. v[i - Len(d)] = LeafOf(eps[e[i - Len(d)]])
      BY <1>4, <3>1
    <3>. HIDE DEF u, v, w
    <3>4. (u \o v)[i] = v[i - Len(d)]
      <4>1. \A j \in 1..Len(e) : (u \o v)[Len(d) + j] = v[j]
        BY <1>5, ConcatFacts
      <4>2. Len(d) + (i - Len(d)) = i
        BY <1>1, <3>1
      <4>. QED
        BY <3>1, <4>1, <4>2
    <3>. QED
      BY <2>1, <3>2, <3>3, <3>4
  <2>. QED
    BY <2>2, <2>3
<1>7. u \o v = w
  <2>. HIDE DEF u, v, w
  <2>. QED
    BY <1>5, <1>6, SeqEqual
<1>. QED
  BY <1>7 DEF f

-----------------------------------------------------------------------------
(***************************************************************************)
(* choice keeps the order of the endpoints.                                *)
(***************************************************************************)
LEMMA OrderIsKept ==
  ASSUME NEW eps, NEW X, NEW Y, Precede(X, Y)
  PROVE  /\ Precede(Onward(eps, X), Onward(eps, Y))
         /\ \A s : Precede(Under(eps, X, s), Under(eps, Y, s))
         /\ \A i \in Ended(eps, X) : \A j \in Ended(eps, Y) : i < j
BY DEF Precede, Onward, Under, Ended

\* R with what choice makes of any two it relates, one before the other.
Pairs(R) == {z \in R \X R : /\ <<z[1][1], z[2][1]>> \in DOMAIN Merged
                            /\ Precede(z[1][2], z[2][2])}

WithChoices(R) ==
  R \cup {<<Merged[<<z[1][1], z[2][1]>>], z[1][2] \cup z[2][2]>> : z \in Pairs(R)}

LEMMA ChoiceOfTwo ==
  ASSUME NEW R, NEW a, NEW X, NEW b, NEW Y, <<a, X>> \in R, <<b, Y>> \in R,
         <<a, b>> \in DOMAIN Merged, Precede(X, Y)
  PROVE  <<Merged[<<a, b>>], X \cup Y>> \in WithChoices(R)
<1>1. <<<<a, X>>, <<b, Y>>>> \in Pairs(R)
  BY DEF Pairs
<1>2. \E z \in Pairs(R) :
        <<Merged[<<a, b>>], X \cup Y>> = <<Merged[<<z[1][1], z[2][1]>>], z[1][2] \cup z[2][2]>>
  BY <1>1
<1>. QED
  BY <1>2 DEF WithChoices

\* One merged router, from the relations of the two it was made of.
LEMMA ChoiceRules ==
  ASSUME NEW eps, NEW R, Simulates(eps, R),
         NEW a, NEW X, NEW b, NEW Y, <<a, X>> \in R, <<b, Y>> \in R,
         <<a, b>> \in DOMAIN Merged, Precede(X, Y)
  PROVE  Rule(eps, Merged[<<a, b>>], X \cup Y, WithChoices(R))
<1>. DEFINE n == Merged[<<a, b>>]
            Z == X \cup Y
            W == WithChoices(R)
            both == [s \in DOMAIN a.map \cap DOMAIN b.map |-> Merged[<<a.map[s], b.map[s]>>]]
<1>1. /\ Rule(eps, a, X, R) /\ Rule(eps, b, Y, R)
  BY DEF Simulates
<1>2. /\ Z \subseteq Items(eps) /\ a.t \in NodeTypes /\ b.t \in NodeTypes /\ R \subseteq W
  BY <1>1 DEF Rule, WithChoices
<1>3. n = ChoiceStep(LAMBDA c, d : Merged[<<c, d>>], a, b)
  BY MergedIsChoice
<1>s. ASSUME a.t = "Static", b.t = "Static"
      PROVE  /\ \A s \in DOMAIN a.map \cap DOMAIN b.map : <<a.map[s], b.map[s]>> \in DOMAIN Merged
             /\ n = Static(UniteMaps(both, a.map, b.map), a.leaves \o b.leaves)
  BY <1>3, <1>s, MergedIsChoice DEF ChoiceStep
<1>c. ASSUME a.t = "Capture", b.t = "Capture"
      PROVE  <<a.inner, b.inner>> \in DOMAIN Merged /\ n = CaptureNode(Merged[<<a.inner, b.inner>>])
  BY <1>3, <1>c, MergedIsChoice DEF ChoiceStep
<1>h. ASSUME b.t = "Choice"
      PROVE  <<a, b.left>> \in DOMAIN Merged /\ n = ChoiceNode(Merged[<<a, b.left>>], b.right)
  BY <1>3, <1>h, MergedIsChoice DEF ChoiceStep
<1>o. ASSUME ~(a.t = "Static" /\ b.t = "Static"), ~(a.t = "Capture" /\ b.t = "Capture"),
             b.t # "Choice"
      PROVE  n = ChoiceNode(a, b)
  BY <1>3, <1>o DEF ChoiceStep
<1>b. /\ Onward(eps, Z) = Onward(eps, X) \cup Onward(eps, Y)
      /\ \A s : Under(eps, Z, s) = Under(eps, X, s) \cup Under(eps, Y, s)
      /\ Ended(eps, Z) = Ended(eps, X) \cup Ended(eps, Y)
  BY Zenon DEF Onward, Under, Ended
<1>z. \A x \in Z : x \in X \/ x \in Y
  OBVIOUS
<1>. HIDE DEF n, W, both, Z
<1>4. CASE a.t = "Static" /\ b.t = "Static"
  <2>1. StaticRule(eps, a, X, R) /\ StaticRule(eps, b, Y, R)
    BY <1>1, <1>4 DEF Rule
  <2>2. n.t = "Static" /\ n.map = UniteMaps(both, a.map, b.map) /\ n.leaves = a.leaves \o b.leaves
    <3>1. n = Static(UniteMaps(both, a.map, b.map), a.leaves \o b.leaves)
      BY <1>s, <1>4
    <3>. QED
      BY <3>1 DEF Static
  <2>3. \A x \in Z : Kind(eps, x) \in {"Leaf", "Path"}
    BY <1>z, <2>1 DEF StaticRule
  <2>4. \E e : Enumerates(e, Ended(eps, Z)) /\ n.leaves = LeavesAt(eps, e)
    <3>1. PICK d : Enumerates(d, Ended(eps, X)) /\ a.leaves = LeavesAt(eps, d)
      BY <2>1 DEF StaticRule
    <3>2. PICK e : Enumerates(e, Ended(eps, Y)) /\ b.leaves = LeavesAt(eps, e)
      BY <2>1 DEF StaticRule
    <3>o. \A i \in Ended(eps, X) : \A j \in Ended(eps, Y) : i < j
      BY OrderIsKept
    <3>3. Enumerates(d \o e, Ended(eps, Z))
      BY <1>b, <3>1, <3>2, <3>o, EnumerateBoth
    <3>4. d \in Seq(Nat) /\ e \in Seq(Nat)
      BY <3>1, <3>2 DEF Enumerates
    <3>5. n.leaves = LeavesAt(eps, d \o e)
      BY <2>2, <3>1, <3>2, <3>4, LeavesOfBoth
    <3>. QED
      BY <3>3, <3>5
  <2>5. DOMAIN n.map = DOMAIN a.map \cup DOMAIN b.map
    BY <2>2 DEF UniteMaps
  <2>6. ASSUME NEW s \in DOMAIN n.map PROVE <<n.map[s], Under(eps, Z, s)>> \in W
    <3>0. Under(eps, Z, s) = Under(eps, X, s) \cup Under(eps, Y, s)
      BY <1>b
    <3>1. CASE s \notin DOMAIN b.map
      <4>1. s \in DOMAIN a.map /\ n.map[s] = a.map[s]
        BY <2>2, <2>5, <3>1 DEF UniteMaps
      <4>2. <<a.map[s], Under(eps, X, s)>> \in R /\ Under(eps, Y, s) = {}
        BY <2>1, <3>1, <4>1 DEF StaticRule
      <4>. QED
        BY <1>2, <3>0, <4>1, <4>2
    <3>2. CASE s \notin DOMAIN a.map
      <4>1. s \in DOMAIN b.map /\ n.map[s] = b.map[s]
        BY <2>2, <2>5, <3>2 DEF UniteMaps
      <4>2. <<b.map[s], Under(eps, Y, s)>> \in R /\ Under(eps, X, s) = {}
        BY <2>1, <3>2, <4>1 DEF StaticRule
      <4>. QED
        BY <1>2, <3>0, <4>1, <4>2
    <3>3. CASE s \in DOMAIN a.map /\ s \in DOMAIN b.map
      <4>1. n.map[s] = Merged[<<a.map[s], b.map[s]>>]
        BY <2>2, <2>5, <3>3 DEF UniteMaps, both
      <4>2. <<a.map[s], Under(eps, X, s)>> \in R /\ <<b.map[s], Under(eps, Y, s)>> \in R
        BY <2>1, <3>3 DEF StaticRule
      <4>3. <<a.map[s], b.map[s]>> \in DOMAIN Merged
        BY <1>s, <1>4, <3>3
      <4>4. Precede(Under(eps, X, s), Under(eps, Y, s))
        BY OrderIsKept
      <4>. QED
        BY <3>0, <4>1, <4>2, <4>3, <4>4, ChoiceOfTwo DEF W
    <3>. QED
      BY <2>5, <3>1, <3>2, <3>3
  <2>7. ASSUME NEW s, s \notin DOMAIN n.map PROVE Under(eps, Z, s) = {}
    <3>1. Under(eps, X, s) = {} /\ Under(eps, Y, s) = {}
      BY <2>1, <2>5, <2>7 DEF StaticRule
    <3>. QED
      BY <1>b, <3>1
  <2>8. StaticRule(eps, n, Z, W)
    BY <2>3, <2>4, <2>6, <2>7 DEF StaticRule
  <2>. QED
    BY <1>2, <2>2, <2>8 DEF Rule, NodeTypes, n, W, Z
<1>5. CASE a.t = "Capture" /\ b.t = "Capture"
  <2>1. n.t = "Capture" /\ n.inner = Merged[<<a.inner, b.inner>>]
    BY <1>c, <1>5 DEF CaptureNode
  <2>2. /\ <<a.inner, Onward(eps, X)>> \in R /\ <<b.inner, Onward(eps, Y)>> \in R
        /\ \A x \in Z : Kind(eps, x) = "Capture"
    BY <1>1, <1>z, <1>5 DEF Rule, CaptureRule
  <2>3. <<n.inner, Onward(eps, X) \cup Onward(eps, Y)>> \in W
    BY <1>c, <1>5, <2>1, <2>2, OrderIsKept, ChoiceOfTwo DEF W
  <2>4. CaptureRule(eps, n, Z, W)
    BY <1>b, <2>1, <2>2, <2>3 DEF CaptureRule
  <2>. QED
    BY <1>2, <2>1, <2>4 DEF Rule, NodeTypes, n, W, Z
<1>6. CASE b.t = "Choice"
  <2>1. n.t = "Choice" /\ n.left = Merged[<<a, b.left>>] /\ n.right = b.right
    BY <1>h, <1>6 DEF ChoiceNode
  <2>2. PICK Y1, Y2 : /\ Y = Y1 \cup Y2 /\ Precede(Y1, Y2)
                      /\ <<b.left, Y1>> \in R /\ <<b.right, Y2>> \in R
    BY <1>1, <1>6 DEF Rule, ChoiceRule
  <2>3. Precede(X, Y1) /\ Precede(X \cup Y1, Y2) /\ Z = (X \cup Y1) \cup Y2
    BY <2>2 DEF Precede, Z
  <2>4. <<n.left, X \cup Y1>> \in W
    BY <1>h, <1>6, <2>1, <2>2, <2>3, ChoiceOfTwo DEF W
  <2>5. ChoiceRule(eps, n, Z, W)
    BY <1>2, <2>1, <2>2, <2>3, <2>4 DEF ChoiceRule
  <2>. QED
    BY <1>2, <2>1, <2>5 DEF Rule, NodeTypes, n, W, Z
<1>7. CASE /\ ~(a.t = "Static" /\ b.t = "Static") /\ ~(a.t = "Capture" /\ b.t = "Capture")
           /\ b.t # "Choice"
  <2>1. n.t = "Choice" /\ n.left = a /\ n.right = b
    BY <1>o, <1>7 DEF ChoiceNode
  <2>2. ChoiceRule(eps, n, Z, W)
    BY <1>2, <2>1 DEF ChoiceRule, Z
  <2>. QED
    BY <1>2, <2>1, <2>2 DEF Rule, NodeTypes, n, W, Z
<1>. QED
  BY <1>4, <1>5, <1>6, <1>7

\* What choice makes of two routers serves the endpoints of the first, then
\* those of the second, whatever it merges (router.rs:78-107).
THEOREM ChoiceServes ==
  ASSUME NEW eps, NEW a, NEW X, NEW b, NEW Y, Serves(eps, a, X), Serves(eps, b, Y),
         <<a, b>> \in DOMAIN Merged, Precede(X, Y)
  PROVE  Serves(eps, Merged[<<a, b>>], X \cup Y)
<1>1. PICK V : Simulates(eps, V) /\ <<a, X>> \in V
  BY DEF Serves
<1>2. PICK Q : Simulates(eps, Q) /\ <<b, Y>> \in Q
  BY DEF Serves
<1>. DEFINE R == V \cup Q
            W == WithChoices(R)
<1>3. Simulates(eps, R)
  <2>. SUFFICES ASSUME NEW p \in R PROVE p = <<p[1], p[2]>> /\ Rule(eps, p[1], p[2], R)
    BY DEF Simulates
  <2>1. V \subseteq R /\ Q \subseteq R
    OBVIOUS
  <2>2. \/ p = <<p[1], p[2]>> /\ Rule(eps, p[1], p[2], V)
        \/ p = <<p[1], p[2]>> /\ Rule(eps, p[1], p[2], Q)
    BY <1>1, <1>2 DEF Simulates
  <2>. HIDE DEF R
  <2>. QED
    BY <2>1, <2>2, RuleGrows
<1>4. <<a, X>> \in R /\ <<b, Y>> \in R
  BY <1>1, <1>2
<1>. HIDE DEF R
<1>5. Simulates(eps, W)
  <2>. SUFFICES ASSUME NEW p \in W PROVE p = <<p[1], p[2]>> /\ Rule(eps, p[1], p[2], W)
    BY DEF Simulates
  <2>1. CASE p \in R
    <3>1. p = <<p[1], p[2]>> /\ Rule(eps, p[1], p[2], R) /\ R \subseteq W
      BY <1>3, <2>1 DEF Simulates, WithChoices
    <3>. HIDE DEF W
    <3>. QED
      BY <3>1, RuleGrows
  <2>2. CASE p \notin R
    <3>1. PICK z \in Pairs(R) : p = <<Merged[<<z[1][1], z[2][1]>>], z[1][2] \cup z[2][2]>>
      BY <2>2 DEF WithChoices
    <3>2. /\ z[1] \in R /\ z[2] \in R /\ <<z[1][1], z[2][1]>> \in DOMAIN Merged
          /\ Precede(z[1][2], z[2][2])
      BY DEF Pairs
    <3>3. z[1] = <<z[1][1], z[1][2]>> /\ z[2] = <<z[2][1], z[2][2]>>
      BY <1>3, <3>2 DEF Simulates
    <3>4. Rule(eps, Merged[<<z[1][1], z[2][1]>>], z[1][2] \cup z[2][2], W)
      BY <1>3, <3>2, <3>3, ChoiceRules
    <3>. QED
      BY <3>1, <3>4
  <2>. QED
    BY <2>1, <2>2
<1>6. <<Merged[<<a, b>>], X \cup Y>> \in W
  BY <1>4, ChoiceOfTwo
<1>. QED
  BY <1>5, <1>6 DEF Serves

-----------------------------------------------------------------------------
(***************************************************************************)
(* into_router gives each endpoint its shape and choice the rest.          *)
(***************************************************************************)
LEMMA ShapeServes ==
  ASSUME NEW eps, AreEndpoints(eps), NEW i \in DOMAIN eps
  PROVE  Serves(eps, Shape(eps[i]), {<<i, 0>>})
<1>. DEFINE ep == eps[i]
            N == Len(ep.steps)
            At(m) == {<<i, m>>}
<1>1. IsEndpoint(ep) /\ i \in Nat
  BY DEF AreEndpoints
<1>2. N \in Nat /\ DOMAIN ep.steps = 1..N /\ (ep.kind = "endpoint" \/ IsRaw(ep))
  BY <1>1 DEF IsEndpoint
<1>3. PICK s : Shapes(ep, s) /\ Shape(ep) = s[1]
  BY <1>1, ShapeUnrolls
<1>. DEFINE R == {<<s[m + 1], At(m)>> : m \in 0..N}
<1>4. ASSUME NEW m \in 0..N PROVE Rule(eps, s[m + 1], At(m), R)
  <2>1. At(m) \subseteq Items(eps)
    BY <1>1, <1>2 DEF Items
  <2>2. \A x \in At(m) : Kind(eps, x) = KindAt(ep, m) /\ x[1] = i
    BY DEF Kind
  <2>3. CASE Ahead(ep, m) = {}
    <3>1. s[m + 1] = Innermost(ep)
      <4>1. \A j \in (m + 1)..N : ep.steps[j].c \notin {"Path", "Capture", "CaptureAll"}
        BY <2>3 DEF Ahead
      <4>2. N \in m..N
        BY <1>2
      <4>3. s[m + 1] = s[N + 1]
        BY <1>1, <1>3, <4>1, <4>2, ShapeSkips
      <4>. QED
        BY <1>3, <4>3 DEF Shapes
    <3>2. CASE ep.kind = "endpoint"
      <4>1. KindAt(ep, m) = "Leaf"
        BY <2>3, <3>2 DEF KindAt, IsRaw
      <4>2. s[m + 1] = Static(NoMap, <<LeafOf(ep)>>)
        BY <3>1, <3>2 DEF Innermost, LeafRouter
      <4>3. Ended(eps, At(m)) = {i} /\ \A seg : Under(eps, At(m), seg) = {}
        BY <2>2, <4>1 DEF Ended, Under, Onward
      <4>4. Enumerates(<<i>>, {i}) /\ <<LeafOf(ep)>> = LeavesAt(eps, <<i>>)
        BY <1>1 DEF Enumerates, LeavesAt
      <4>5. /\ s[m + 1].t = "Static" /\ DOMAIN s[m + 1].map = {}
            /\ s[m + 1].leaves = <<LeafOf(ep)>>
        BY <4>2 DEF Static, NoMap
      <4>6. StaticRule(eps, s[m + 1], At(m), R)
        BY <2>2, <4>1, <4>3, <4>4, <4>5 DEF StaticRule
      <4>. QED
        BY <2>1, <4>5, <4>6 DEF Rule, NodeTypes
    <3>3. CASE ep.kind # "endpoint"
      <4>1. KindAt(ep, m) = "Raw" /\ s[m + 1] = RawNode(LeafOf(ep))
        BY <1>2, <2>3, <3>1, <3>3 DEF KindAt, Innermost
      <4>2. s[m + 1].t = "Raw" /\ s[m + 1].leaf = LeafOf(ep)
        BY <4>1 DEF RawNode
      <4>3. RawRule(eps, s[m + 1], At(m))
        BY <2>2, <4>1, <4>2 DEF RawRule
      <4>. QED
        BY <2>1, <4>2, <4>3 DEF Rule, NodeTypes
    <3>. QED
      BY <3>2, <3>3
  <2>4. CASE Ahead(ep, m) # {}
    <3>. DEFINE q == NextStep(ep, m)
                step == ep.steps[q]
    <3>1. /\ q \in (m + 1)..N /\ q \in Nat /\ KindAt(ep, m) = step.c
          /\ step.c \in {"Path", "Capture", "CaptureAll"}
          /\ \A j \in (m + 1)..(q - 1) :
               ep.steps[j].c \notin {"Path", "Capture", "CaptureAll"}
      BY <1>1, <2>4, NextStepFacts
    <3>2. \A x \in At(m) : NextOf(eps, x) = q
      BY DEF NextOf
    <3>. HIDE DEF q
    <3>3. s[m + 1] = ShapeStep(step, s[q + 1])
      <4>1. q - 1 \in m..N /\ (q - 1) + 1 = q /\ q \in 1..N
        BY <1>2, <3>1
      <4>2. s[m + 1] = s[(q - 1) + 1]
        BY <1>1, <1>3, <3>1, <4>1, ShapeSkips
      <4>. QED
        BY <1>3, <4>1, <4>2 DEF Shapes
    <3>4. q \in 0..N /\ <<s[q + 1], At(q)>> \in R
      BY <1>2, <3>1
    <3>5. Onward(eps, At(m)) = At(q)
      BY <3>2 DEF Onward
    <3>. HIDE DEF R
    <3>6. CASE step.c = "Path"
      <4>1. s[m + 1] = Static([seg \in {step.seg} |-> s[q + 1]], <<>>)
        BY <3>3, <3>6 DEF ShapeStep, PathRouter
      <4>2. /\ s[m + 1].t = "Static" /\ DOMAIN s[m + 1].map = {step.seg}
            /\ s[m + 1].map[step.seg] = s[q + 1] /\ s[m + 1].leaves = <<>>
        BY <4>1 DEF Static
      <4>3. Ended(eps, At(m)) = {}
        BY <2>2, <3>1, <3>6 DEF Ended
      <4>4. Enumerates(<<>>, {}) /\ LeavesAt(eps, <<>>) = <<>>
        BY DEF Enumerates, LeavesAt
      <4>5. \A seg : Under(eps, At(m), seg) = IF seg = step.seg THEN At(q) ELSE {}
        BY <2>2, <3>1, <3>2, <3>6 DEF Under, Onward
      <4>6. StaticRule(eps, s[m + 1], At(m), R)
        BY <2>2, <3>1, <3>4, <3>6, <4>2, <4>3, <4>4, <4>5 DEF StaticRule
      <4>. QED
        BY <2>1, <4>2, <4>6 DEF Rule, NodeTypes
    <3>7. CASE step.c # "Path"
      <4>1. s[m + 1].t = step.c /\ s[m + 1].inner = s[q + 1]
        BY <3>1, <3>3, <3>7 DEF ShapeStep, CaptureNode, CaptureAllNode
      <4>2. CaptureRule(eps, s[m + 1], At(m), R)
        BY <2>2, <3>1, <3>4, <3>5, <4>1 DEF CaptureRule
      <4>. QED
        BY <2>1, <3>1, <3>7, <4>1, <4>2 DEF Rule, NodeTypes
    <3>. QED
      BY <3>6, <3>7
  <2>. QED
    BY <2>3, <2>4
<1>5. Simulates(eps, R)
  <2>. SUFFICES ASSUME NEW m \in 0..N, NEW p, p = <<s[m + 1], At(m)>>
                PROVE  p = <<p[1], p[2]>> /\ Rule(eps, p[1], p[2], R)
    BY DEF Simulates
  <2>1. p[1] = s[m + 1] /\ p[2] = At(m)
    OBVIOUS
  <2>. HIDE DEF R, At
  <2>. QED
    BY <1>4, <2>1
<1>6. <<s[1], {<<i, 0>>}>> \in R
  <2>1. 0 \in 0..N /\ 0 + 1 = 1
    BY <1>2
  <2>. QED
    BY <2>1
<1>. QED
  BY <1>3, <1>5, <1>6 DEF Serves

\* The endpoints of w stand in eps after the first lo.
StandsAt(eps, w, lo) ==
  \A j \in 1..Len(ListOf[w]) : lo + j \in DOMAIN eps /\ eps[lo + j] = ListOf[w][j]

FreshItems(w, lo) == {<<lo + j, 0>> : j \in 1..Len(ListOf[w])}

LEMMA ListFacts ==
  ASSUME NEW w \in Written
  PROVE  /\ Len(ListOf[w]) \in Nat \ {0} /\ AreEndpoints(ListOf[w])
         /\ w.a = "alt" =>
              /\ w.left \in Written /\ w.right \in Written
              /\ Len(ListOf[w]) = Len(ListOf[w.left]) + Len(ListOf[w.right])
              /\ \A j \in 1..Len(ListOf[w.left]) : ListOf[w][j] = ListOf[w.left][j]
              /\ \A j \in 1..Len(ListOf[w.right]) :
                   ListOf[w][Len(ListOf[w.left]) + j] = ListOf[w.right][j]
         /\ w.a # "alt" => IsEndpoint(w) /\ Len(ListOf[w]) = 1 /\ ListOf[w][1] = w
<1>. DEFINE D == {v \in Written : v.a = "endpoint"}
<1>1. \A v \in Written : ListOf[v] \in Seq(D) /\ ListOf[v] # <<>>
  BY ListOfIsTheEndpoints
<1>2. \A v \in D : IsEndpoint(v)
  BY WrittenAreApis
<1>3. ListOf[w] = IF w.a = "alt" THEN ListOf[w.left] \o ListOf[w.right] ELSE <<w>>
  BY ListOfIsTheEndpoints
<1>4. w.a = "alt" => w.left \in Written /\ w.right \in Written
  BY WrittenAreApis DEF IsEndpoint
<1>5. w.a # "alt" => IsEndpoint(w)
  BY WrittenAreApis
<1>. HIDE DEF D
<1>6. Len(ListOf[w]) \in Nat \ {0} /\ AreEndpoints(ListOf[w])
  BY <1>1, <1>2 DEF AreEndpoints
<1>7. ASSUME w.a = "alt"
      PROVE  /\ w.left \in Written /\ w.right \in Written
             /\ Len(ListOf[w]) = Len(ListOf[w.left]) + Len(ListOf[w.right])
             /\ \A j \in 1..Len(ListOf[w.left]) : ListOf[w][j] = ListOf[w.left][j]
             /\ \A j \in 1..Len(ListOf[w.right]) :
                  ListOf[w][Len(ListOf[w.left]) + j] = ListOf[w.right][j]
  <2>1. ListOf[w.left] \in Seq(D) /\ ListOf[w.right] \in Seq(D)
    BY <1>1, <1>4, <1>7
  <2>2. ListOf[w] = ListOf[w.left] \o ListOf[w.right]
    BY <1>3, <1>7
  <2>. DEFINE u == ListOf[w.left]
              v == ListOf[w.right]
  <2>. HIDE DEF u, v
  <2>3. u \in Seq(D) /\ v \in Seq(D) /\ ListOf[w] = u \o v
    BY <2>1, <2>2 DEF u, v
  <2>4. /\ Len(ListOf[w]) = Len(u) + Len(v)
        /\ \A j \in 1..Len(u) : ListOf[w][j] = u[j]
        /\ \A j \in 1..Len(v) : ListOf[w][Len(u) + j] = v[j]
    BY <2>3, ConcatFacts
  <2>. QED
    BY <1>4, <1>7, <2>4 DEF u, v
<1>8. w.a # "alt" => Len(ListOf[w]) = 1 /\ ListOf[w][1] = w
  BY <1>3
<1>. QED
  BY <1>5, <1>6, <1>7, <1>8, Zenon

\* By the least list of endpoints whose router would not serve them.
LEMMA RouterServes ==
  ASSUME NEW eps, AreEndpoints(eps)
  PROVE  \A w \in Written : \A lo \in Nat :
           StandsAt(eps, w, lo) => Serves(eps, RouterOf[w], FreshItems(w, lo))
<1>. DEFINE Fails(w) == \E lo \in Nat : StandsAt(eps, w, lo)
                                        /\ ~Serves(eps, RouterOf[w], FreshItems(w, lo))
            T == {Len(ListOf[w]) : w \in {v \in Written : Fails(v)}}
<1>. SUFFICES ASSUME T # {} PROVE FALSE
  OBVIOUS
<1>1. PICK n \in T : \A m \in T : n <= m
  <2>. T \subseteq Nat
    BY ListFacts
  <2>. HIDE DEF T
  <2>. QED
    BY LeastNat
<1>2. PICK w \in Written : Fails(w) /\ Len(ListOf[w]) = n
  BY <1>1
<1>3. PICK lo \in Nat : StandsAt(eps, w, lo) /\ ~Serves(eps, RouterOf[w], FreshItems(w, lo))
  BY <1>2
<1>4. ASSUME NEW v \in Written, Len(ListOf[v]) < n PROVE ~Fails(v)
  <2>1. Len(ListOf[v]) \in Nat /\ n \in Nat
    BY <1>2, ListFacts
  <2>2. Len(ListOf[v]) \notin T
    <3>. HIDE DEF T
    <3>. QED
      BY <1>1, <1>4, <2>1
  <2>. HIDE DEF Fails
  <2>. QED
    BY <2>2
<1>. HIDE DEF T
<1>5. CASE w.a # "alt"
  <2>1. Len(ListOf[w]) = 1 /\ ListOf[w][1] = w /\ RouterOf[w] = Shape(w)
    BY <1>5, ListFacts, RouterOfIsIntoRouter
  <2>2. lo + 1 \in DOMAIN eps /\ eps[lo + 1] = w
    BY <1>3, <2>1 DEF StandsAt
  <2>3. FreshItems(w, lo) = {<<lo + 1, 0>>}
    BY <2>1 DEF FreshItems
  <2>. QED
    BY <1>3, <2>1, <2>2, <2>3, ShapeServes
<1>6. CASE w.a = "alt"
  <2>. DEFINE a == w.left
              b == w.right
              A == Len(ListOf[a])
              B == Len(ListOf[b])
              p == <<RouterOf[a], RouterOf[b]>>
  <2>1. /\ a \in Written /\ b \in Written /\ A \in Nat \ {0} /\ B \in Nat \ {0} /\ n = A + B
        /\ \A j \in 1..A : ListOf[w][j] = ListOf[a][j]
        /\ \A j \in 1..B : ListOf[w][A + j] = ListOf[b][j]
    BY <1>2, <1>6, ListFacts
  <2>2. p \in DOMAIN Merged /\ RouterOf[w] = Merged[p]
    BY <1>6, RouterOfIsIntoRouter
  <2>. HIDE DEF a, b, A, B
  <2>3. StandsAt(eps, a, lo) /\ StandsAt(eps, b, lo + A)
    <3>1. ASSUME NEW j \in 1..A PROVE lo + j \in DOMAIN eps /\ eps[lo + j] = ListOf[a][j]
      <4>1. j \in 1..n
        BY <2>1
      <4>. QED
        BY <1>2, <1>3, <2>1, <4>1 DEF StandsAt
    <3>2. ASSUME NEW j \in 1..B
          PROVE  (lo + A) + j \in DOMAIN eps /\ eps[(lo + A) + j] = ListOf[b][j]
      <4>1. A + j \in 1..n /\ lo + (A + j) = (lo + A) + j
        BY <2>1
      <4>2. lo + (A + j) \in DOMAIN eps /\ eps[lo + (A + j)] = ListOf[w][A + j]
        BY <1>2, <1>3, <4>1 DEF StandsAt
      <4>. QED
        BY <2>1, <4>1, <4>2
    <3>. QED
      BY <3>1, <3>2 DEF StandsAt, A, B
  <2>4. /\ Serves(eps, RouterOf[a], FreshItems(a, lo))
        /\ Serves(eps, RouterOf[b], FreshItems(b, lo + A))
    <3>1. A < n /\ B < n /\ lo + A \in Nat
      BY <2>1
    <3>. QED
      BY <1>4, <2>1, <2>3, <3>1 DEF A, B
  <2>5. Precede(FreshItems(a, lo), FreshItems(b, lo + A))
    <3>. SUFFICES ASSUME NEW i \in 1..A, NEW j \in 1..B PROVE lo + i < (lo + A) + j
      BY DEF Precede, FreshItems, A, B
    <3>. QED
      BY <2>1
  <2>6. FreshItems(w, lo) = FreshItems(a, lo) \cup FreshItems(b, lo + A)
    <3>1. ASSUME NEW j \in 1..n
          PROVE  <<lo + j, 0>> \in FreshItems(a, lo) \cup FreshItems(b, lo + A)
      <4>1. CASE j \in 1..A
        BY <4>1 DEF FreshItems, A
      <4>2. CASE j \notin 1..A
        <5>1. j - A \in 1..B /\ (lo + A) + (j - A) = lo + j
          BY <2>1, <4>2
        <5>. QED
          BY <5>1 DEF FreshItems, B
      <4>. QED
        BY <4>1, <4>2
    <3>2. ASSUME NEW j \in 1..A PROVE <<lo + j, 0>> \in FreshItems(w, lo)
      <4>1. j \in 1..n
        BY <2>1
      <4>. QED
        BY <1>2, <4>1 DEF FreshItems
    <3>3. ASSUME NEW j \in 1..B PROVE <<(lo + A) + j, 0>> \in FreshItems(w, lo)
      <4>1. A + j \in 1..n /\ lo + (A + j) = (lo + A) + j
        BY <2>1
      <4>. QED
        BY <1>2, <4>1 DEF FreshItems
    <3>4. FreshItems(w, lo) \subseteq FreshItems(a, lo) \cup FreshItems(b, lo + A)
      <4>1. FreshItems(w, lo) = {<<lo + j, 0>> : j \in 1..n}
        BY <1>2 DEF FreshItems
      <4>. QED
        BY <3>1, <4>1
    <3>5. FreshItems(a, lo) \subseteq FreshItems(w, lo)
      <4>1. FreshItems(a, lo) = {<<lo + j, 0>> : j \in 1..A}
        BY DEF FreshItems, A
      <4>. QED
        BY <3>2, <4>1
    <3>6. FreshItems(b, lo + A) \subseteq FreshItems(w, lo)
      <4>1. FreshItems(b, lo + A) = {<<(lo + A) + j, 0>> : j \in 1..B}
        BY DEF FreshItems, B
      <4>. QED
        BY <3>3, <4>1
    <3>. QED
      BY <3>4, <3>5, <3>6
  <2>. QED
    BY <1>3, <2>2, <2>4, <2>5, <2>6, ChoiceServes DEF p
<1>. QED
  BY <1>5, <1>6

\* The router that into_router makes of an API serves its endpoints in the
\* order they are written (serve.rs:158-186, router.rs:78-107).
THEOREM RoutersServeTheirEndpoints ==
  ASSUME NEW w \in Written
  PROVE  Serves(ListOf[w], RouterOf[w], {<<i, 0>> : i \in DOMAIN ListOf[w]})
<1>. DEFINE eps == ListOf[w]
<1>1. AreEndpoints(eps) /\ DOMAIN eps = 1..Len(eps)
  BY ListFacts DEF AreEndpoints
<1>2. \A j \in 1..Len(eps) : 0 + j = j
  OBVIOUS
<1>3. StandsAt(eps, w, 0) /\ FreshItems(w, 0) = {<<i, 0>> : i \in DOMAIN eps}
  BY <1>1, <1>2 DEF StandsAt, FreshItems
<1>. HIDE DEF eps
<1>. QED
  BY <1>1, <1>3, RouterServes DEF eps

-----------------------------------------------------------------------------
(***************************************************************************)
(* Where a dispatch call stands: what it has left of the path, and what    *)
(* it has captured, are those of the endpoint whose router it is in, after *)
(* the steps behind it.                                                    *)
(***************************************************************************)
Passes(ep, i, path) ==
  /\ ~AfterAll(ep, i)
  /\ ~IsEmptyPath(Drop(path, Taken(ep, i) - 1))
  /\ ep.steps[i].c = "Path" => path[Taken(ep, i)] = ep.steps[i].seg

Passed(ep, m, path) ==
  \A i \in 1..m : ep.steps[i].c \in {"Path", "Capture"} => Passes(ep, i, path)

Left(ep, m, path) == IF AfterAll(ep, m + 1) THEN <<>> ELSE Drop(path, Taken(ep, m))

Stands(ep, m, pos, path) ==
  /\ Passed(ep, m, path)
  /\ pos.segs = Left(ep, m, path)
  /\ pos.caps = CapturesUpTo(ep, m, path)
  /\ pos.rest = RestUpTo(ep, m, path)

LEMMA TakenStep ==
  ASSUME NEW ep, NEW i \in Nat \ {0}
  PROVE  /\ Taken(ep, 0) = 0
         /\ Taken(ep, i - 1) \in Nat
         /\ ep.steps[i].c \in {"Path", "Capture"} => Taken(ep, i) = Taken(ep, i - 1) + 1
         /\ ep.steps[i].c \notin {"Path", "Capture"} => Taken(ep, i) = Taken(ep, i - 1)
<1>. DEFINE S(n) == {j \in 1..n : ep.steps[j].c \in {"Path", "Capture"}}
<1>1. S(0) = {}
  OBVIOUS
<1>2. IsFiniteSet(S(i - 1))
  <2>1. IsFiniteSet(1..(i - 1))
    BY FS_Interval
  <2>. QED
    BY <2>1, FS_Subset
<1>3. i \notin S(i - 1)
  OBVIOUS
<1>4. ep.steps[i].c \in {"Path", "Capture"} => S(i) = S(i - 1) \cup {i}
  OBVIOUS
<1>5. ep.steps[i].c \notin {"Path", "Capture"} => S(i) = S(i - 1)
  OBVIOUS
<1>6. Cardinality(S(i - 1)) \in Nat
  BY <1>2, FS_CardinalityType
<1>7. ep.steps[i].c \in {"Path", "Capture"} =>
        Cardinality(S(i)) = Cardinality(S(i - 1)) + 1
  BY <1>2, <1>3, <1>4, FS_AddElement
<1>8. Cardinality(S(0)) = 0
  BY <1>1, FS_EmptySet
<1>. QED
  BY <1>5, <1>6, <1>7, <1>8 DEF Taken

\* What the first n steps have captured, where those after m capture nothing.
LEMMA NoCapture ==
  ASSUME NEW ep, NEW path, NEW m \in Nat, NEW n \in Nat, m <= n,
         \A j \in (m + 1)..n : ep.steps[j].c # "Capture"
  PROVE  CapturesUpTo(ep, n, path) = CapturesUpTo(ep, m, path)
<1>. DEFINE Takes(j) == ep.steps[j].c = "Capture"
            Q(j, i) == CaptureIndex(ep.steps, j) = i
<1>1. \A j : j \in 1..n /\ Takes(j) <=> j \in 1..m /\ Takes(j)
  OBVIOUS
<1>. HIDE DEF Takes, Q
<1>2. /\ {j \in 1..n : Takes(j)} = {j \in 1..m : Takes(j)}
      /\ \A i : {j \in 1..n : Takes(j) /\ Q(j, i)} = {j \in 1..m : Takes(j) /\ Q(j, i)}
  BY <1>1, Zenon
<1>3. CaptureIndex(ep.steps, n) = CaptureIndex(ep.steps, m)
  BY <1>2 DEF CaptureIndex, Takes
<1>. DEFINE F(h, i) == First({j \in 1..h : Takes(j) /\ Q(j, i)})
<1>4. \A i : F(n, i) = F(m, i)
  BY <1>2
<1>5. \A h : CapturesUpTo(ep, h, path) =
              [i \in 1..CaptureIndex(ep.steps, h) |-> path[Taken(ep, F(h, i))]]
  BY Zenon DEF CapturesUpTo, Takes, Q
<1>. HIDE DEF F
<1>6. CapturesUpTo(ep, n, path) =
        [i \in 1..CaptureIndex(ep.steps, m) |-> path[Taken(ep, F(m, i))]]
  BY <1>3, <1>4, <1>5
<1>. QED
  BY <1>5, <1>6

LEMMA NothingBetween ==
  ASSUME NEW ep, NEW path, NEW m \in Nat, NEW n \in Nat, m <= n,
         \A j \in (m + 1)..n : ep.steps[j].c \notin {"Path", "Capture", "CaptureAll"}
  PROVE  /\ Taken(ep, n) = Taken(ep, m)
         /\ AfterAll(ep, n + 1) <=> AfterAll(ep, m + 1)
         /\ Passed(ep, n, path) <=> Passed(ep, m, path)
         /\ Left(ep, n, path) = Left(ep, m, path)
         /\ CapturesUpTo(ep, n, path) = CapturesUpTo(ep, m, path)
         /\ RestUpTo(ep, n, path) = RestUpTo(ep, m, path)
<1>1. \A j : \A c \in {"Path", "Capture", "CaptureAll"} :
        j \in 1..n /\ ep.steps[j].c = c <=> j \in 1..m /\ ep.steps[j].c = c
  OBVIOUS
<1>2. Taken(ep, n) = Taken(ep, m)
  <2>1. {j \in 1..n : ep.steps[j].c \in {"Path", "Capture"}}
        = {j \in 1..m : ep.steps[j].c \in {"Path", "Capture"}}
    BY <1>1
  <2>. QED
    BY <2>1 DEF Taken
<1>3. AfterAll(ep, n + 1) <=> AfterAll(ep, m + 1)
  <2>1. \A h \in Nat : 1..((h + 1) - 1) = 1..h
    OBVIOUS
  <2>. QED
    BY <1>1, <2>1 DEF AfterAll, Earlier
<1>4. Passed(ep, n, path) <=> Passed(ep, m, path)
  BY <1>1, Zenon DEF Passed
<1>5. CapturesUpTo(ep, n, path) = CapturesUpTo(ep, m, path)
  <2>1. \A j \in (m + 1)..n : ep.steps[j].c # "Capture"
    OBVIOUS
  <2>. QED
    BY <2>1, NoCapture, Zenon
<1>6. RestUpTo(ep, n, path) = RestUpTo(ep, m, path)
  <2>1. {j \in 1..n : ep.steps[j].c = "CaptureAll"} = {j \in 1..m : ep.steps[j].c = "CaptureAll"}
    BY <1>1
  <2>. QED
    BY <1>2, <2>1, Zenon DEF RestUpTo
<1>. QED
  BY <1>2, <1>3, <1>4, <1>5, <1>6 DEF Left

\* What is left of a path that is not empty.
LEMMA DropFacts ==
  ASSUME NEW S, NEW path \in Seq(S), NEW n \in Nat
  PROVE  /\ Drop(path, n) \in Seq(S)
         /\ Drop(path, n) # <<>> =>
              /\ n + 1 \in 1..Len(path)
              /\ Head(Drop(path, n)) = path[n + 1]
              /\ Tail(Drop(path, n)) = Drop(path, n + 1)
<1>1. Drop(path, n) \in Seq(S) /\ (Drop(path, n) # <<>> => n + 1 \in 1..Len(path))
  BY DEF Drop
<1>. QED
  BY <1>1, RestOfSequence DEF Drop

\* A step that takes a segment.
LEMMA SegmentTaken ==
  ASSUME NEW ep, NEW S, NEW path \in Seq(S), NEW q \in Nat \ {0},
         ep.steps[q].c \in {"Path", "Capture"},
         NEW pos, pos.caps \in Seq(S), Stands(ep, q - 1, pos, path)
  PROVE  /\ Passes(ep, q, path) =>
              /\ ~IsEmptyPath(pos.segs)
              /\ ep.steps[q].c = "Path" => Head(pos.segs) = ep.steps[q].seg
         /\ \A new :
              /\ ~IsEmptyPath(pos.segs)
              /\ ep.steps[q].c = "Path" => Head(pos.segs) = ep.steps[q].seg
              /\ new.segs = Tail(pos.segs) /\ new.rest = pos.rest
              /\ new.caps = IF ep.steps[q].c = "Path" THEN pos.caps
                            ELSE Append(pos.caps, Head(pos.segs))
              => Stands(ep, q, new, path)
<1>. DEFINE n == Taken(ep, q - 1)
<1>1. /\ n \in Nat /\ Taken(ep, q) = n + 1 /\ q \in Nat /\ q - 1 \in Nat /\ (q - 1) + 1 = q
  BY TakenStep
<1>. HIDE DEF n
<1>2. pos.segs = IF AfterAll(ep, q) THEN <<>> ELSE Drop(path, n)
  BY <1>1 DEF Stands, Left, n
<1>3. Taken(ep, q) - 1 = n
  BY <1>1
<1>4. /\ Drop(path, n) # <<>> => /\ n + 1 \in 1..Len(path)
                                 /\ Head(Drop(path, n)) = path[n + 1]
                                 /\ Tail(Drop(path, n)) = Drop(path, n + 1)
  BY <1>1, DropFacts
<1>5. ASSUME Passes(ep, q, path)
      PROVE  /\ ~IsEmptyPath(pos.segs)
             /\ ep.steps[q].c = "Path" => Head(pos.segs) = ep.steps[q].seg
  BY <1>1, <1>2, <1>3, <1>4, <1>5 DEF Passes, IsEmptyPath
<1>6. ASSUME NEW new, ~IsEmptyPath(pos.segs),
             ep.steps[q].c = "Path" => Head(pos.segs) = ep.steps[q].seg,
             new.segs = Tail(pos.segs), new.rest = pos.rest,
             new.caps = IF ep.steps[q].c = "Path" THEN pos.caps
                        ELSE Append(pos.caps, Head(pos.segs))
      PROVE  Stands(ep, q, new, path)
  <2>1. ~AfterAll(ep, q) /\ pos.segs = Drop(path, n) /\ pos.segs # <<>>
    BY <1>2, <1>6 DEF IsEmptyPath
  <2>2. Head(pos.segs) = path[n + 1] /\ new.segs = Drop(path, n + 1) /\ path[n + 1] \in S
    BY <1>4, <1>6, <2>1
  <2>3. Passes(ep, q, path)
    BY <1>1, <1>3, <1>6, <2>1, <2>2 DEF Passes
  <2>4. Passed(ep, q, path)
    <3>1. \A i \in 1..q : i = q \/ i \in 1..(q - 1)
      BY <1>1
    <3>. QED
      BY <2>3, <3>1 DEF Stands, Passed
  <2>5. ~AfterAll(ep, q + 1)
    <3>1. \A i \in 1..((q + 1) - 1) : i = q \/ i \in 1..(q - 1)
      BY <1>1
    <3>. QED
      BY <2>1, <3>1 DEF AfterAll, Earlier
  <2>6. new.segs = Left(ep, q, path)
    BY <1>1, <2>2, <2>5 DEF Left
  <2>7. new.rest = RestUpTo(ep, q, path)
    <3>1. pos.rest = RestUpTo(ep, q - 1, path)
      BY DEF Stands
    <3>2. {j \in 1..q : ep.steps[j].c = "CaptureAll"} = {}
      BY <1>1, <2>5 DEF AfterAll, Earlier
    <3>3. {j \in 1..(q - 1) : ep.steps[j].c = "CaptureAll"} = {}
      BY <2>1 DEF AfterAll, Earlier
    <3>4. RestUpTo(ep, q, path) = None /\ RestUpTo(ep, q - 1, path) = None
      BY <3>2, <3>3 DEF RestUpTo
    <3>. QED
      BY <1>6, <3>1, <3>4
  <2>8. new.caps = CapturesUpTo(ep, q, path)
    <3>0. pos.caps = CapturesUpTo(ep, q - 1, path)
      BY DEF Stands
    <3>1. CASE ep.steps[q].c = "Path"
      <4>1. \A j \in ((q - 1) + 1)..q : ep.steps[j].c # "Capture"
        BY <1>1, <3>1
      <4>2. CapturesUpTo(ep, q, path) = CapturesUpTo(ep, q - 1, path)
        BY <1>1, <4>1, NoCapture
      <4>. QED
        BY <1>6, <3>0, <3>1, <4>2
    <3>2. CASE ep.steps[q].c = "Capture"
      <4>. DEFINE K == CaptureIndex(ep.steps, q - 1)
                  At(h, i) == {j \in 1..h : /\ ep.steps[j].c = "Capture"
                                            /\ CaptureIndex(ep.steps, j) = i}
      <4>1. K \in Nat /\ CaptureIndex(ep.steps, q) = K + 1
        BY <3>2, CaptureIndexStep
      <4>2. \A h : CapturesUpTo(ep, h, path) =
                     [i \in 1..CaptureIndex(ep.steps, h) |-> path[Taken(ep, First(At(h, i)))]]
        BY Zenon DEF CapturesUpTo
      <4>3. \A j \in 1..(q - 1) : CaptureIndex(ep.steps, j) \in Nat /\ CaptureIndex(ep.steps, j) <= K
        <5>1. \A j \in 1..(q - 1) :
                /\ Index(ep.steps, "Capture", j) \in Nat
                /\ Index(ep.steps, "Capture", j) <= Index(ep.steps, "Capture", q - 1)
          BY <1>1, IndexGrows
        <5>. QED
          BY <5>1 DEF Index, CaptureIndex
      <4>4. ASSUME NEW i \in 1..K PROVE At(q, i) = At(q - 1, i)
        <5>1. \A j \in 1..q : j \in 1..(q - 1) \/ j = q
          BY <1>1
        <5>2. 1..(q - 1) \subseteq 1..q /\ K + 1 # i
          BY <1>1, <4>1
        <5>. HIDE DEF K
        <5>. QED
          BY <4>1, <5>1, <5>2
      <4>5. First(At(q, K + 1)) = q
        <5>1. q \in At(q, K + 1) /\ At(q, K + 1) \subseteq Nat
          BY <1>1, <3>2, <4>1
        <5>2. \A j \in At(q, K + 1) : j = q
          <6>1. \A j \in 1..q : j \in 1..(q - 1) \/ j = q
            BY <1>1
          <6>. HIDE DEF K
          <6>. QED
            BY <4>1, <4>3, <6>1
        <5>. HIDE DEF At
        <5>. QED
          BY <5>1, <5>2, FirstIsLeast
      <4>. HIDE DEF At, K
      <4>6. CapturesUpTo(ep, q, path) =
              [i \in 1..(K + 1) |-> path[Taken(ep, First(At(q, i)))]]
        BY <4>1, <4>2
      <4>7. CapturesUpTo(ep, q - 1, path) =
              [i \in 1..K |-> path[Taken(ep, First(At(q - 1, i)))]]
        BY <4>2 DEF K
      <4>8. Len(pos.caps) = K /\ \A i \in 1..K : pos.caps[i] = path[Taken(ep, First(At(q, i)))]
        BY <3>0, <4>1, <4>4, <4>7
      <4>9. new.caps = Append(pos.caps, path[n + 1])
        BY <1>6, <2>2, <3>2
      <4>10. /\ new.caps \in Seq(S) /\ Len(new.caps) = K + 1
             /\ \A i \in 1..K : new.caps[i] = pos.caps[i]
             /\ new.caps[K + 1] = path[n + 1]
        BY <2>2, <4>1, <4>8, <4>9
      <4>11. ASSUME NEW i \in 1..(K + 1)
             PROVE  new.caps[i] = path[Taken(ep, First(At(q, i)))]
        <5>1. CASE i = K + 1
          BY <1>1, <4>5, <4>10, <5>1
        <5>2. CASE i # K + 1
          <6>1. i \in 1..K
            BY <4>1, <5>2
          <6>. QED
            BY <4>8, <4>10, <6>1
        <5>. QED
          BY <5>1, <5>2
      <4>12. new.caps = [i \in 1..(K + 1) |-> new.caps[i]]
        BY <4>10
      <4>. QED
        BY <4>6, <4>11, <4>12
    <3>. QED
      BY <3>1, <3>2
  <2>. QED
    BY <2>4, <2>6, <2>7, <2>8 DEF Stands
<1>. QED
  BY <1>5, <1>6

\* A step that takes all that is left.
LEMMA RestTaken ==
  ASSUME NEW ep, NEW path, NEW q \in Nat \ {0}, ep.steps[q].c = "CaptureAll",
         NEW pos, Stands(ep, q - 1, pos, path),
         NEW new, new.segs = <<>>, new.caps = pos.caps,
         new.rest = DropLeadingEmpty(pos.segs)
  PROVE  Stands(ep, q, new, path)
<1>1. /\ Taken(ep, q) = Taken(ep, q - 1) /\ q \in Nat /\ q - 1 \in Nat /\ (q - 1) + 1 = q
      /\ \A i \in 1..q : i = q \/ i \in 1..(q - 1)
  <2>1. Taken(ep, q) = Taken(ep, q - 1)
    BY TakenStep
  <2>. QED
    BY <2>1
<1>2. Passed(ep, q, path)
  BY <1>1 DEF Stands, Passed
<1>3. AfterAll(ep, q + 1)
  <2>1. q \in 1..((q + 1) - 1)
    BY <1>1
  <2>. QED
    BY <2>1 DEF AfterAll, Earlier
<1>4. new.segs = Left(ep, q, path)
  BY <1>3 DEF Left
<1>5. new.caps = CapturesUpTo(ep, q, path)
  <2>1. \A j \in ((q - 1) + 1)..q : ep.steps[j].c # "Capture"
    BY <1>1
  <2>2. CapturesUpTo(ep, q, path) = CapturesUpTo(ep, q - 1, path)
    BY <1>1, <2>1, NoCapture
  <2>. QED
    BY <2>2 DEF Stands
<1>6. new.rest = RestUpTo(ep, q, path)
  <2>. DEFINE alls == {j \in 1..q : ep.steps[j].c = "CaptureAll"}
  <2>0. q \in alls
    BY <1>1
  <2>1. pos.segs = IF AfterAll(ep, q) THEN <<>> ELSE Drop(path, Taken(ep, q))
    BY <1>1 DEF Stands, Left
  <2>2. CASE AfterAll(ep, q)
    <3>1. RestUpTo(ep, q, path) = <<>>
      BY <2>0, <2>2 DEF RestUpTo
    <3>. QED
      BY <2>1, <2>2, <3>1 DEF DropLeadingEmpty
  <2>3. CASE ~AfterAll(ep, q)
    <3>1. \A j \in alls : j = q
      BY <1>1, <2>3 DEF AfterAll, Earlier
    <3>2. RestUpTo(ep, q, path) = DropLeadingEmpty(Drop(path, Taken(ep, q)))
      BY <2>0, <2>3, <3>1 DEF RestUpTo
    <3>. QED
      BY <2>1, <2>3, <3>2
  <2>. QED
    BY <2>2, <2>3
<1>. QED
  BY <1>2, <1>4, <1>5, <1>6 DEF Stands

\* An endpoint matches when all its steps pass and nothing is left over.
LEMMA MatchesMeans ==
  ASSUME NEW ep, IsEndpoint(ep), NEW path
  PROVE  /\ Matches(ep, path) <=>
              /\ Passed(ep, Len(ep.steps), path)
              /\ IsRaw(ep) \/ IsEmptyPath(Left(ep, Len(ep.steps), path))
         /\ Matches(ep, path) =>
              \A q \in 1..Len(ep.steps) :
                ep.steps[q].c \in {"Path", "Capture"} => Passes(ep, q, path)
<1>1. DOMAIN ep.steps = 1..Len(ep.steps)
  BY DEF IsEndpoint
<1>2. Passed(ep, Len(ep.steps), path) <=>
        \A i \in DOMAIN ep.steps :
          ep.steps[i].c \in {"Path", "Capture"} =>
            /\ ~AfterAll(ep, i)
            /\ ~IsEmptyPath(Drop(path, Taken(ep, i) - 1))
            /\ ep.steps[i].c = "Path" => path[Taken(ep, i)] = ep.steps[i].seg
  BY <1>1, Zenon DEF Passed, Passes
<1>3. (IsRaw(ep) \/ IsEmptyPath(Left(ep, Len(ep.steps), path)))
      <=> (TakesRest(ep) \/ IsEmptyPath(Drop(path, Taken(ep, Len(ep.steps)))))
  BY DEF TakesRest, Left, IsEmptyPath
<1>4. Matches(ep, path) <=>
        /\ Passed(ep, Len(ep.steps), path)
        /\ IsRaw(ep) \/ IsEmptyPath(Left(ep, Len(ep.steps), path))
  BY <1>2, <1>3, Zenon DEF Matches
<1>. QED
  BY <1>4 DEF Passed

\* Steps that shape no router leave a call where it stands.
LEMMA StandsStill ==
  ASSUME NEW ep, IsEndpoint(ep), NEW m \in 0..Len(ep.steps), NEW pos, NEW path,
         Stands(ep, m, pos, path)
  PROVE  /\ Ahead(ep, m) # {} => Stands(ep, NextStep(ep, m) - 1, pos, path)
         /\ Ahead(ep, m) = {} => Stands(ep, Len(ep.steps), pos, path)
<1>1. Len(ep.steps) \in Nat /\ m \in Nat /\ m <= Len(ep.steps)
  BY DEF IsEndpoint
<1>2. ASSUME NEW n \in Nat, m <= n,
             \A j \in (m + 1)..n : ep.steps[j].c \notin {"Path", "Capture", "CaptureAll"}
      PROVE  Stands(ep, n, pos, path)
  BY <1>1, <1>2, NothingBetween DEF Stands
<1>3. ASSUME Ahead(ep, m) # {} PROVE Stands(ep, NextStep(ep, m) - 1, pos, path)
  <2>1. /\ NextStep(ep, m) \in (m + 1)..Len(ep.steps)
        /\ \A j \in (m + 1)..(NextStep(ep, m) - 1) :
             ep.steps[j].c \notin {"Path", "Capture", "CaptureAll"}
    BY <1>3, NextStepFacts
  <2>2. NextStep(ep, m) - 1 \in Nat /\ m <= NextStep(ep, m) - 1
    BY <1>1, <2>1
  <2>. QED
    BY <1>2, <2>1, <2>2
<1>4. ASSUME Ahead(ep, m) = {} PROVE Stands(ep, Len(ep.steps), pos, path)
  <2>1. \A j \in (m + 1)..Len(ep.steps) :
          ep.steps[j].c \notin {"Path", "Capture", "CaptureAll"}
    BY <1>4 DEF Ahead
  <2>. QED
    BY <1>1, <1>2, <2>1
<1>. QED
  BY <1>3, <1>4

\* What stands behind all its steps, matches if nothing is left or it is raw.
LEMMA AtTheEnd ==
  ASSUME NEW ep, IsEndpoint(ep), NEW m \in 0..Len(ep.steps), NEW pos, NEW path,
         Stands(ep, m, pos, path), Ahead(ep, m) = {}
  PROVE  /\ Matches(ep, path) <=> IsRaw(ep) \/ IsEmptyPath(pos.segs)
         /\ pos.caps = CapturesOf(ep, path) /\ pos.rest = RestOf(ep, path)
<1>1. Stands(ep, Len(ep.steps), pos, path)
  BY StandsStill
<1>. QED
  BY <1>1, MatchesMeans DEF Stands, CapturesOf, RestOf

-----------------------------------------------------------------------------
(***************************************************************************)
(* What one dispatch call has to settle.  It covers the endpoints after lo *)
(* and up to hi when it stands where its items are, and they include every *)
(* one of these endpoints that matches.                                    *)
(***************************************************************************)
Found(eps, r, lo, hi) == {i \in Candidates(eps, r) : lo < i /\ i <= hi}

ItemsCover(eps, r, X, pos, lo, hi) ==
  /\ \A x \in X : lo < x[1] /\ x[1] <= hi /\ Stands(eps[x[1]], x[2], pos, r.path)
  /\ \A i \in Found(eps, r, lo, hi) : \E x \in X : x[1] = i

Covers(eps, r, pos, lo, hi) ==
  \E X : Serves(eps, pos.node, X) /\ ItemsCover(eps, r, X, pos, lo, hi)

\* A list of leaves to call for the endpoints after lo up to hi that match.
LeavesCover(eps, r, todo, caps, rest, lo, hi) ==
  /\ \E e : Enumerates(e, Found(eps, r, lo, hi)) /\ todo = LeavesAt(eps, e)
  /\ \A i \in Found(eps, r, lo, hi) :
       caps = CapturesOf(eps[i], r.path) /\ rest = RestOf(eps[i], r.path)

\* A leaf call for endpoint i.
CallsFor(eps, r, cl, i) ==
  /\ cl.leaf = LeafOf(eps[i])
  /\ cl.caps = CapturesOf(eps[i], r.path) /\ cl.rest = RestOf(eps[i], r.path)

\* The parts of what serves X serve what X becomes.
LEMMA ServesUnfolds ==
  ASSUME NEW eps, NEW n, NEW X, Serves(eps, n, X)
  PROVE  /\ X \subseteq Items(eps) /\ n.t \in NodeTypes
         /\ n.t = "Static" =>
              /\ \A x \in X : Kind(eps, x) \in {"Leaf", "Path"}
              /\ \E e : Enumerates(e, Ended(eps, X)) /\ n.leaves = LeavesAt(eps, e)
              /\ \A s \in DOMAIN n.map : Serves(eps, n.map[s], Under(eps, X, s))
              /\ \A s : s \notin DOMAIN n.map => Under(eps, X, s) = {}
         /\ n.t \in {"Capture", "CaptureAll"} =>
              /\ \A x \in X : Kind(eps, x) = n.t
              /\ Serves(eps, n.inner, Onward(eps, X))
         /\ n.t = "Raw" => RawRule(eps, n, X)
         /\ n.t = "Choice" =>
              \E Y, Z : /\ X = Y \cup Z /\ Precede(Y, Z)
                        /\ Serves(eps, n.left, Y) /\ Serves(eps, n.right, Z)
<1>1. PICK R : Simulates(eps, R) /\ <<n, X>> \in R
  BY DEF Serves
<1>2. Rule(eps, n, X, R)
  BY <1>1 DEF Simulates
<1>3. \A m, Y : <<m, Y>> \in R => Serves(eps, m, Y)
  BY <1>1 DEF Serves
<1>4. n.t = "Static" =>
        /\ \A x \in X : Kind(eps, x) \in {"Leaf", "Path"}
        /\ \E e : Enumerates(e, Ended(eps, X)) /\ n.leaves = LeavesAt(eps, e)
        /\ \A s \in DOMAIN n.map : Serves(eps, n.map[s], Under(eps, X, s))
        /\ \A s : s \notin DOMAIN n.map => Under(eps, X, s) = {}
  BY <1>2, <1>3 DEF Rule, StaticRule
<1>5. n.t \in {"Capture", "CaptureAll"} =>
        /\ \A x \in X : Kind(eps, x) = n.t
        /\ Serves(eps, n.inner, Onward(eps, X))
  BY <1>2, <1>3 DEF Rule, CaptureRule
<1>6. n.t = "Choice" =>
        \E Y, Z : /\ X = Y \cup Z /\ Precede(Y, Z)
                  /\ Serves(eps, n.left, Y) /\ Serves(eps, n.right, Z)
  BY <1>2, <1>3 DEF Rule, ChoiceRule
<1>. QED
  BY <1>2, <1>4, <1>5, <1>6 DEF Rule

\* An item of a call: where it stands, and what is ahead of it.
LEMMA ItemFacts ==
  ASSUME NEW eps, AreEndpoints(eps), NEW X, X \subseteq Items(eps), NEW x \in X
  PROVE  /\ x = <<x[1], x[2]>> /\ x[1] \in DOMAIN eps /\ x[1] \in Nat
         /\ IsEndpoint(eps[x[1]]) /\ x[2] \in 0..Len(eps[x[1]].steps)
         /\ Kind(eps, x) = "Path" \/ Kind(eps, x) = "Capture" \/ Kind(eps, x) = "CaptureAll"
              => /\ Ahead(eps[x[1]], x[2]) # {}
                 /\ NextOf(eps, x) \in 1..Len(eps[x[1]].steps)
                 /\ eps[x[1]].steps[NextOf(eps, x)].c = Kind(eps, x)
         /\ Kind(eps, x) = "Leaf" => Ahead(eps[x[1]], x[2]) = {} /\ ~IsRaw(eps[x[1]])
         /\ Kind(eps, x) = "Raw" => Ahead(eps[x[1]], x[2]) = {} /\ IsRaw(eps[x[1]])
<1>. DEFINE ep == eps[x[1]]
            m == x[2]
<1>1. x \in (DOMAIN eps) \X Nat /\ m \in 0..Len(ep.steps)
  BY DEF Items
<1>2. x = <<x[1], x[2]>> /\ x[1] \in DOMAIN eps
  BY <1>1
<1>3. x[1] \in Nat /\ IsEndpoint(ep)
  BY <1>2 DEF AreEndpoints
<1>4. Len(ep.steps) \in Nat
  BY <1>3 DEF IsEndpoint
<1>5. Kind(eps, x) = KindAt(ep, m) /\ NextOf(eps, x) = NextStep(ep, m)
  BY DEF Kind, NextOf
<1>. HIDE DEF ep, m
<1>6. CASE Ahead(ep, m) # {}
  <2>1. /\ NextStep(ep, m) \in (m + 1)..Len(ep.steps)
        /\ KindAt(ep, m) = ep.steps[NextStep(ep, m)].c
        /\ KindAt(ep, m) \in {"Path", "Capture", "CaptureAll"}
    BY <1>1, <1>3, <1>6, NextStepFacts
  <2>2. NextStep(ep, m) \in 1..Len(ep.steps)
    BY <1>1, <1>4, <2>1
  <2>. QED
    BY <1>1, <1>2, <1>3, <1>5, <1>6, <2>1, <2>2 DEF ep, m
<1>7. CASE Ahead(ep, m) = {}
  <2>1. KindAt(ep, m) = IF IsRaw(ep) THEN "Raw" ELSE "Leaf"
    BY <1>7 DEF KindAt
  <2>. QED
    BY <1>1, <1>2, <1>3, <1>5, <1>7, <2>1 DEF ep, m
<1>. QED
  BY <1>6, <1>7

\* An endpoint found is one that matches.
LEMMA FoundFacts ==
  ASSUME NEW eps, AreEndpoints(eps), NEW r, NEW lo, NEW hi
  PROVE  /\ Found(eps, r, lo, hi) \subseteq DOMAIN eps
         /\ DOMAIN eps \subseteq Nat
         /\ \A i \in DOMAIN eps :
              i \in Found(eps, r, lo, hi) <=> Matches(eps[i], r.path) /\ lo < i /\ i <= hi
BY DEF Found, Candidates, AreEndpoints

\* What each kind of item needs, and where it goes next.
LEMMA ItemMoves ==
  ASSUME NEW eps, AreEndpoints(eps), NEW X, X \subseteq Items(eps), NEW x \in X,
         NEW S, NEW path \in Seq(S), NEW pos, pos.caps \in Seq(S),
         Stands(eps[x[1]], x[2], pos, path)
  PROVE  /\ Kind(eps, x) \in {"Leaf", "Raw"} =>
              /\ Matches(eps[x[1]], path) <=> Kind(eps, x) = "Raw" \/ IsEmptyPath(pos.segs)
              /\ pos.caps = CapturesOf(eps[x[1]], path)
              /\ pos.rest = RestOf(eps[x[1]], path)
         /\ Kind(eps, x) \in {"Path", "Capture"} =>
              /\ Matches(eps[x[1]], path) =>
                   /\ ~IsEmptyPath(pos.segs)
                   /\ Kind(eps, x) = "Path" =>
                        Head(pos.segs) = eps[x[1]].steps[NextOf(eps, x)].seg
              /\ \A new :
                   /\ ~IsEmptyPath(pos.segs)
                   /\ Kind(eps, x) = "Path" =>
                        Head(pos.segs) = eps[x[1]].steps[NextOf(eps, x)].seg
                   /\ new.segs = Tail(pos.segs) /\ new.rest = pos.rest
                   /\ new.caps = IF Kind(eps, x) = "Path" THEN pos.caps
                                 ELSE Append(pos.caps, Head(pos.segs))
                   => Stands(eps[x[1]], NextOf(eps, x), new, path)
         /\ Kind(eps, x) = "CaptureAll" =>
              \A new : /\ new.segs = <<>> /\ new.caps = pos.caps
                       /\ new.rest = DropLeadingEmpty(pos.segs)
                       => Stands(eps[x[1]], NextOf(eps, x), new, path)
<1>. DEFINE ep == eps[x[1]]
            m == x[2]
            q == NextOf(eps, x)
            c == Kind(eps, x)
<1>1. /\ IsEndpoint(ep) /\ m \in 0..Len(ep.steps)
      /\ c \in {"Path", "Capture", "CaptureAll"} =>
           Ahead(ep, m) # {} /\ q \in 1..Len(ep.steps) /\ ep.steps[q].c = c
      /\ c \in {"Leaf", "Raw"} => Ahead(ep, m) = {} /\ (IsRaw(ep) <=> c = "Raw")
  BY ItemFacts
<1>2. q = NextStep(ep, m)
  BY DEF NextOf
<1>. HIDE DEF ep, m, q, c
<1>3. Stands(ep, m, pos, path)
  BY DEF ep, m
<1>4. ASSUME c \in {"Leaf", "Raw"}
      PROVE  /\ Matches(ep, path) <=> c = "Raw" \/ IsEmptyPath(pos.segs)
             /\ pos.caps = CapturesOf(ep, path) /\ pos.rest = RestOf(ep, path)
  BY <1>1, <1>3, <1>4, AtTheEnd
<1>5. ASSUME c \in {"Path", "Capture", "CaptureAll"}
      PROVE  Stands(ep, q - 1, pos, path) /\ q \in Nat \ {0}
  <2>1. Stands(ep, q - 1, pos, path)
    BY <1>1, <1>2, <1>3, <1>5, StandsStill
  <2>. QED
    BY <1>1, <1>5, <2>1
<1>6. ASSUME c \in {"Path", "Capture"}
      PROVE  /\ Matches(ep, path) =>
                  ~IsEmptyPath(pos.segs) /\ (c = "Path" => Head(pos.segs) = ep.steps[q].seg)
             /\ \A new :
                  /\ ~IsEmptyPath(pos.segs)
                  /\ c = "Path" => Head(pos.segs) = ep.steps[q].seg
                  /\ new.segs = Tail(pos.segs) /\ new.rest = pos.rest
                  /\ new.caps = IF c = "Path" THEN pos.caps
                                ELSE Append(pos.caps, Head(pos.segs))
                  => Stands(ep, q, new, path)
  <2>1. /\ Stands(ep, q - 1, pos, path) /\ q \in Nat \ {0}
        /\ ep.steps[q].c = c /\ q \in 1..Len(ep.steps)
    BY <1>1, <1>5, <1>6
  <2>2. Matches(ep, path) => Passes(ep, q, path)
    BY <1>1, <1>6, <2>1, MatchesMeans
  <2>3. /\ Passes(ep, q, path) =>
             ~IsEmptyPath(pos.segs) /\ (c = "Path" => Head(pos.segs) = ep.steps[q].seg)
        /\ \A new :
             /\ ~IsEmptyPath(pos.segs)
             /\ c = "Path" => Head(pos.segs) = ep.steps[q].seg
             /\ new.segs = Tail(pos.segs) /\ new.rest = pos.rest
             /\ new.caps = IF c = "Path" THEN pos.caps
                           ELSE Append(pos.caps, Head(pos.segs))
             => Stands(ep, q, new, path)
    BY <1>6, <2>1, SegmentTaken
  <2>. QED
    BY <2>2, <2>3
<1>7. ASSUME c = "CaptureAll", NEW new, new.segs = <<>>, new.caps = pos.caps,
             new.rest = DropLeadingEmpty(pos.segs)
      PROVE  Stands(ep, q, new, path)
  <2>1. Stands(ep, q - 1, pos, path) /\ q \in Nat \ {0} /\ ep.steps[q].c = "CaptureAll"
    BY <1>1, <1>5, <1>7
  <2>. QED
    BY <1>7, <2>1, RestTaken
<1>8. c \in {"Leaf", "Raw"} =>
        /\ Matches(ep, path) <=> c = "Raw" \/ IsEmptyPath(pos.segs)
        /\ pos.caps = CapturesOf(ep, path)
        /\ pos.rest = RestOf(ep, path)
  BY <1>4
<1>9. c = "CaptureAll" =>
        \A new : /\ new.segs = <<>> /\ new.caps = pos.caps
                 /\ new.rest = DropLeadingEmpty(pos.segs)
                 => Stands(ep, q, new, path)
  BY <1>7
<1>. QED
  BY <1>6, <1>8, <1>9, Zenon DEF ep, q, c

-----------------------------------------------------------------------------
(***************************************************************************)
(* dispatch, one arm each: what the calls it makes cover.                  *)
(***************************************************************************)
\* A static node where the path ends calls the leaves of all that match.
LEMMA CoveredHere ==
  ASSUME NEW eps, AreEndpoints(eps), NEW r, NEW S, r.path \in Seq(S),
         NEW pos, pos.caps \in Seq(S), NEW lo, NEW hi, Covers(eps, r, pos, lo, hi),
         pos.node.t = "Static", IsEmptyPath(pos.segs)
  PROVE  LeavesCover(eps, r, pos.node.leaves, pos.caps, pos.rest, lo, hi)
<1>. DEFINE F == Found(eps, r, lo, hi)
<1>1. PICK X : Serves(eps, pos.node, X) /\ ItemsCover(eps, r, X, pos, lo, hi)
  BY DEF Covers
<1>2. /\ X \subseteq Items(eps)
      /\ \A x \in X : Kind(eps, x) \in {"Leaf", "Path"}
      /\ \E e : Enumerates(e, Ended(eps, X)) /\ pos.node.leaves = LeavesAt(eps, e)
  BY <1>1, ServesUnfolds
<1>3. ASSUME NEW x \in X
      PROVE  /\ Kind(eps, x) = "Leaf" =>
                  /\ x[1] \in F
                  /\ pos.caps = CapturesOf(eps[x[1]], r.path)
                  /\ pos.rest = RestOf(eps[x[1]], r.path)
             /\ Kind(eps, x) = "Path" => x[1] \notin F
  <2>1. Stands(eps[x[1]], x[2], pos, r.path) /\ lo < x[1] /\ x[1] <= hi
    BY <1>1 DEF ItemsCover
  <2>2. /\ Kind(eps, x) = "Leaf" => /\ Matches(eps[x[1]], r.path)
                                    /\ pos.caps = CapturesOf(eps[x[1]], r.path)
                                    /\ pos.rest = RestOf(eps[x[1]], r.path)
        /\ Kind(eps, x) = "Path" => ~Matches(eps[x[1]], r.path)
    BY <1>2, <2>1, ItemMoves
  <2>3. x[1] \in DOMAIN eps
    BY <1>2, ItemFacts
  <2>. QED
    BY <2>1, <2>2, <2>3, FoundFacts
<1>4. Ended(eps, X) = F
  <2>1. Ended(eps, X) \subseteq F
    BY <1>3 DEF Ended
  <2>2. ASSUME NEW i \in F PROVE i \in Ended(eps, X)
    <3>1. PICK x \in X : x[1] = i
      BY <1>1 DEF ItemsCover
    <3>2. Kind(eps, x) = "Leaf"
      BY <1>2, <1>3, <3>1
    <3>. QED
      BY <3>1, <3>2 DEF Ended
  <2>. QED
    BY <2>1, <2>2
<1>5. ASSUME NEW i \in F
      PROVE  pos.caps = CapturesOf(eps[i], r.path) /\ pos.rest = RestOf(eps[i], r.path)
  <2>1. PICK x \in X : x[1] = i
    BY <1>1 DEF ItemsCover
  <2>. QED
    BY <1>2, <1>3, <2>1
<1>. QED
  BY <1>2, <1>4, <1>5 DEF LeavesCover

\* Where it goes on, one segment deeper covers the same endpoints.
LEMMA CoveredDeeper ==
  ASSUME NEW eps, AreEndpoints(eps), NEW r, NEW S, r.path \in Seq(S),
         NEW pos, pos.caps \in Seq(S), NEW lo, NEW hi, Covers(eps, r, pos, lo, hi),
         pos.node.t = "Static", ~IsEmptyPath(pos.segs)
  PROVE  /\ Head(pos.segs) \notin DOMAIN pos.node.map => Found(eps, r, lo, hi) = {}
         /\ Head(pos.segs) \in DOMAIN pos.node.map =>
              \A new :
                /\ new.node = pos.node.map[Head(pos.segs)] /\ new.segs = Tail(pos.segs)
                /\ new.caps = pos.caps /\ new.rest = pos.rest
                => Covers(eps, r, new, lo, hi)
<1>. DEFINE s == Head(pos.segs)
            F == Found(eps, r, lo, hi)
<1>1. PICK X : Serves(eps, pos.node, X) /\ ItemsCover(eps, r, X, pos, lo, hi)
  BY DEF Covers
<1>. DEFINE Y == Under(eps, X, s)
<1>2. /\ X \subseteq Items(eps)
      /\ \A x \in X : Kind(eps, x) \in {"Leaf", "Path"}
      /\ s \in DOMAIN pos.node.map => Serves(eps, pos.node.map[s], Y)
      /\ s \notin DOMAIN pos.node.map => Y = {}
  BY <1>1, ServesUnfolds
<1>3. ASSUME NEW x \in X
      PROVE  /\ x[1] \in F => Kind(eps, x) = "Path"
                              /\ eps[x[1]].steps[NextOf(eps, x)].seg = s
             /\ lo < x[1] /\ x[1] <= hi
             /\ Kind(eps, x) = "Path" /\ eps[x[1]].steps[NextOf(eps, x)].seg = s =>
                  \A new : new.segs = Tail(pos.segs) /\ new.caps = pos.caps
                           /\ new.rest = pos.rest
                           => Stands(eps[x[1]], NextOf(eps, x), new, r.path)
  <2>1. Stands(eps[x[1]], x[2], pos, r.path) /\ lo < x[1] /\ x[1] <= hi
    BY <1>1 DEF ItemsCover
  <2>2. x[1] \in F => Matches(eps[x[1]], r.path)
    BY FoundFacts
  <2>3. /\ Kind(eps, x) = "Leaf" => ~Matches(eps[x[1]], r.path)
        /\ Kind(eps, x) = "Path" =>
             /\ Matches(eps[x[1]], r.path) => s = eps[x[1]].steps[NextOf(eps, x)].seg
             /\ \A new : /\ s = eps[x[1]].steps[NextOf(eps, x)].seg
                         /\ new.segs = Tail(pos.segs) /\ new.rest = pos.rest
                         /\ new.caps = pos.caps
                         => Stands(eps[x[1]], NextOf(eps, x), new, r.path)
    BY <1>2, <2>1, ItemMoves
  <2>. QED
    BY <1>2, <2>1, <2>2, <2>3
<1>4. ASSUME NEW i \in F PROVE \E y \in Y : y[1] = i
  <2>1. PICK x \in X : x[1] = i
    BY <1>1 DEF ItemsCover
  <2>2. Kind(eps, x) = "Path" /\ eps[x[1]].steps[NextOf(eps, x)].seg = s
    BY <1>3, <2>1
  <2>3. <<x[1], NextOf(eps, x)>> \in Y
    BY <2>2 DEF Under, Onward
  <2>. QED
    BY <2>1, <2>3
<1>5. ASSUME NEW y \in Y, NEW new, new.segs = Tail(pos.segs), new.caps = pos.caps,
             new.rest = pos.rest
      PROVE  lo < y[1] /\ y[1] <= hi /\ Stands(eps[y[1]], y[2], new, r.path)
  <2>1. PICK x \in X : /\ Kind(eps, x) = "Path" /\ eps[x[1]].steps[NextOf(eps, x)].seg = s
                       /\ y = <<x[1], NextOf(eps, x)>>
    BY DEF Under, Onward
  <2>2. y[1] = x[1] /\ y[2] = NextOf(eps, x)
    BY <2>1
  <2>. QED
    BY <1>3, <1>5, <2>1, <2>2
<1>. HIDE DEF Y, F
<1>6. ASSUME s \in DOMAIN pos.node.map, NEW new, new.node = pos.node.map[s],
             new.segs = Tail(pos.segs), new.caps = pos.caps, new.rest = pos.rest
      PROVE  Covers(eps, r, new, lo, hi)
  <2>1. ItemsCover(eps, r, Y, new, lo, hi)
    BY <1>4, <1>5, <1>6 DEF ItemsCover, F
  <2>2. Serves(eps, new.node, Y)
    BY <1>2, <1>6
  <2>. QED
    BY <2>1, <2>2 DEF Covers
<1>7. s \notin DOMAIN pos.node.map => F = {}
  BY <1>2, <1>4
<1>. QED
  BY <1>6, <1>7 DEF F

\* A capture takes a segment of all that match, or there is none.
LEMMA CoveredCapture ==
  ASSUME NEW eps, AreEndpoints(eps), NEW r, NEW S, r.path \in Seq(S),
         NEW pos, pos.caps \in Seq(S), NEW lo, NEW hi, Covers(eps, r, pos, lo, hi),
         pos.node.t = "Capture"
  PROVE  /\ IsEmptyPath(pos.segs) => Found(eps, r, lo, hi) = {}
         /\ ~IsEmptyPath(pos.segs) =>
              \A new :
                /\ new.node = pos.node.inner /\ new.segs = Tail(pos.segs)
                /\ new.caps = Append(pos.caps, Head(pos.segs)) /\ new.rest = pos.rest
                => Covers(eps, r, new, lo, hi)
<1>. DEFINE F == Found(eps, r, lo, hi)
<1>1. PICK X : Serves(eps, pos.node, X) /\ ItemsCover(eps, r, X, pos, lo, hi)
  BY DEF Covers
<1>. DEFINE Y == Onward(eps, X)
<1>2. /\ X \subseteq Items(eps)
      /\ \A x \in X : Kind(eps, x) = "Capture"
      /\ Serves(eps, pos.node.inner, Y)
  BY <1>1, ServesUnfolds
<1>3. ASSUME NEW x \in X
      PROVE  /\ x[1] \in F => ~IsEmptyPath(pos.segs)
             /\ lo < x[1] /\ x[1] <= hi
             /\ ~IsEmptyPath(pos.segs) =>
                  \A new : /\ new.segs = Tail(pos.segs) /\ new.rest = pos.rest
                           /\ new.caps = Append(pos.caps, Head(pos.segs))
                           => Stands(eps[x[1]], NextOf(eps, x), new, r.path)
  <2>1. Stands(eps[x[1]], x[2], pos, r.path) /\ lo < x[1] /\ x[1] <= hi
    BY <1>1 DEF ItemsCover
  <2>2. x[1] \in F => Matches(eps[x[1]], r.path)
    BY FoundFacts
  <2>3. /\ Matches(eps[x[1]], r.path) => ~IsEmptyPath(pos.segs)
        /\ \A new : /\ ~IsEmptyPath(pos.segs)
                    /\ new.segs = Tail(pos.segs) /\ new.rest = pos.rest
                    /\ new.caps = Append(pos.caps, Head(pos.segs))
                    => Stands(eps[x[1]], NextOf(eps, x), new, r.path)
    <3>1. Kind(eps, x) = "Capture"
      BY <1>2
    <3>2. Kind(eps, x) \in {"Path", "Capture"} =>
            /\ Matches(eps[x[1]], r.path) =>
                 /\ ~IsEmptyPath(pos.segs)
                 /\ Kind(eps, x) = "Path" =>
                      Head(pos.segs) = eps[x[1]].steps[NextOf(eps, x)].seg
            /\ \A new :
                 /\ ~IsEmptyPath(pos.segs)
                 /\ Kind(eps, x) = "Path" =>
                      Head(pos.segs) = eps[x[1]].steps[NextOf(eps, x)].seg
                 /\ new.segs = Tail(pos.segs) /\ new.rest = pos.rest
                 /\ new.caps = IF Kind(eps, x) = "Path" THEN pos.caps
                               ELSE Append(pos.caps, Head(pos.segs))
                 => Stands(eps[x[1]], NextOf(eps, x), new, r.path)
      BY <1>2, <2>1, ItemMoves
    <3>. QED
      BY <3>1, <3>2
  <2>. QED
    BY <2>1, <2>2, <2>3
<1>4. ASSUME NEW i \in F PROVE ~IsEmptyPath(pos.segs) /\ \E y \in Y : y[1] = i
  <2>1. PICK x \in X : x[1] = i
    BY <1>1 DEF ItemsCover
  <2>2. <<x[1], NextOf(eps, x)>> \in Y
    BY DEF Onward
  <2>. QED
    BY <1>3, <2>1, <2>2
<1>5. ASSUME NEW y \in Y, ~IsEmptyPath(pos.segs), NEW new, new.segs = Tail(pos.segs),
             new.caps = Append(pos.caps, Head(pos.segs)), new.rest = pos.rest
      PROVE  lo < y[1] /\ y[1] <= hi /\ Stands(eps[y[1]], y[2], new, r.path)
  <2>1. PICK x \in X : y = <<x[1], NextOf(eps, x)>>
    BY DEF Onward
  <2>2. y[1] = x[1] /\ y[2] = NextOf(eps, x)
    BY <2>1
  <2>. QED
    BY <1>3, <1>5, <2>2
<1>. HIDE DEF Y, F
<1>6. ASSUME ~IsEmptyPath(pos.segs), NEW new, new.node = pos.node.inner,
             new.segs = Tail(pos.segs), new.caps = Append(pos.caps, Head(pos.segs)),
             new.rest = pos.rest
      PROVE  Covers(eps, r, new, lo, hi)
  <2>1. ItemsCover(eps, r, Y, new, lo, hi)
    BY <1>4, <1>5, <1>6 DEF ItemsCover, F
  <2>2. Serves(eps, new.node, Y)
    BY <1>2, <1>6
  <2>. QED
    BY <2>1, <2>2 DEF Covers
<1>7. IsEmptyPath(pos.segs) => F = {}
  BY <1>4
<1>. QED
  BY <1>6, <1>7 DEF F

\* A capture of all takes what is left for all of them.
LEMMA CoveredCaptureAll ==
  ASSUME NEW eps, AreEndpoints(eps), NEW r, NEW S, r.path \in Seq(S),
         NEW pos, pos.caps \in Seq(S), NEW lo, NEW hi, Covers(eps, r, pos, lo, hi),
         pos.node.t = "CaptureAll",
         NEW new, new.node = pos.node.inner, new.segs = <<>>, new.caps = pos.caps,
         new.rest = DropLeadingEmpty(pos.segs)
  PROVE  Covers(eps, r, new, lo, hi)
<1>1. PICK X : Serves(eps, pos.node, X) /\ ItemsCover(eps, r, X, pos, lo, hi)
  BY DEF Covers
<1>. DEFINE Y == Onward(eps, X)
<1>2. /\ X \subseteq Items(eps)
      /\ \A x \in X : Kind(eps, x) = "CaptureAll"
      /\ Serves(eps, new.node, Y)
  BY <1>1, ServesUnfolds
<1>3. ASSUME NEW y \in Y
      PROVE  lo < y[1] /\ y[1] <= hi /\ Stands(eps[y[1]], y[2], new, r.path)
  <2>1. PICK x \in X : y = <<x[1], NextOf(eps, x)>>
    BY DEF Onward
  <2>2. y[1] = x[1] /\ y[2] = NextOf(eps, x)
    BY <2>1
  <2>3. Stands(eps[x[1]], x[2], pos, r.path) /\ lo < x[1] /\ x[1] <= hi
    BY <1>1 DEF ItemsCover
  <2>4. Stands(eps[x[1]], NextOf(eps, x), new, r.path)
    BY <1>2, <2>3, ItemMoves
  <2>. QED
    BY <2>2, <2>3, <2>4
<1>4. ASSUME NEW i \in Found(eps, r, lo, hi) PROVE \E y \in Y : y[1] = i
  <2>1. PICK x \in X : x[1] = i
    BY <1>1 DEF ItemsCover
  <2>2. <<x[1], NextOf(eps, x)>> \in Y
    BY DEF Onward
  <2>. QED
    BY <2>1, <2>2
<1>. HIDE DEF Y
<1>5. ItemsCover(eps, r, Y, new, lo, hi)
  BY <1>3, <1>4 DEF ItemsCover
<1>. QED
  BY <1>2, <1>5 DEF Covers

\* A raw node is there for one endpoint, which takes what is left.
LEMMA CoveredRaw ==
  ASSUME NEW eps, AreEndpoints(eps), NEW r, NEW S, r.path \in Seq(S),
         NEW pos, pos.caps \in Seq(S), NEW lo, NEW hi, Covers(eps, r, pos, lo, hi),
         pos.node.t = "Raw"
  PROVE  \E i \in DOMAIN eps :
           /\ Found(eps, r, lo, hi) = {i}
           /\ pos.node.leaf = LeafOf(eps[i])
           /\ pos.caps = CapturesOf(eps[i], r.path) /\ pos.rest = RestOf(eps[i], r.path)
<1>1. PICK X : Serves(eps, pos.node, X) /\ ItemsCover(eps, r, X, pos, lo, hi)
  BY DEF Covers
<1>2. X \subseteq Items(eps) /\ RawRule(eps, pos.node, X)
  BY <1>1, ServesUnfolds
<1>3. PICK x \in X : /\ X = {x} /\ Kind(eps, x) = "Raw"
                     /\ pos.node.leaf = LeafOf(eps[x[1]])
  BY <1>2 DEF RawRule
<1>4. Stands(eps[x[1]], x[2], pos, r.path) /\ lo < x[1] /\ x[1] <= hi
  BY <1>1 DEF ItemsCover
<1>5. /\ Matches(eps[x[1]], r.path)
      /\ pos.caps = CapturesOf(eps[x[1]], r.path) /\ pos.rest = RestOf(eps[x[1]], r.path)
  BY <1>2, <1>3, <1>4, ItemMoves
<1>6. x[1] \in DOMAIN eps
  BY <1>2, ItemFacts
<1>7. Found(eps, r, lo, hi) = {x[1]}
  <2>1. x[1] \in Found(eps, r, lo, hi)
    BY <1>4, <1>5, <1>6, FoundFacts
  <2>2. \A i \in Found(eps, r, lo, hi) : i = x[1]
    BY <1>1, <1>3 DEF ItemsCover
  <2>. QED
    BY <2>1, <2>2
<1>. QED
  BY <1>3, <1>5, <1>6, <1>7

\* A choice covers some with its left and the later ones with its right.
LEMMA CoveredChoice ==
  ASSUME NEW eps, AreEndpoints(eps), NEW r, NEW pos,
         NEW lo \in Nat, NEW hi \in Nat, lo <= hi, Covers(eps, r, pos, lo, hi),
         pos.node.t = "Choice"
  PROVE  \E mid \in Nat :
           /\ lo <= mid /\ mid <= hi
           /\ \A new : /\ new.segs = pos.segs /\ new.caps = pos.caps /\ new.rest = pos.rest
                       => /\ new.node = pos.node.left => Covers(eps, r, new, lo, mid)
                          /\ new.node = pos.node.right => Covers(eps, r, new, mid, hi)
<1>1. PICK X : Serves(eps, pos.node, X) /\ ItemsCover(eps, r, X, pos, lo, hi)
  BY DEF Covers
<1>2. X \subseteq Items(eps)
  BY <1>1, ServesUnfolds
<1>3. PICK Y, Z : /\ X = Y \cup Z /\ Precede(Y, Z)
                  /\ Serves(eps, pos.node.left, Y) /\ Serves(eps, pos.node.right, Z)
  BY <1>1, ServesUnfolds
<1>4. \A x \in X : x[1] \in Nat /\ lo < x[1] /\ x[1] <= hi
  BY <1>1, <1>2, ItemFacts DEF ItemsCover
<1>5. PICK mid \in Nat : /\ lo <= mid /\ mid <= hi
                         /\ \A y \in Y : y[1] <= mid
                         /\ \A z \in Z : mid < z[1]
  <2>1. CASE Z = {}
    BY <1>3, <1>4, <2>1
  <2>2. CASE Z # {}
    <3>. DEFINE I == {z[1] : z \in Z}
    <3>1. I \subseteq Nat /\ I # {}
      BY <1>3, <1>4, <2>2
    <3>. HIDE DEF I
    <3>2. PICK n \in I : \A i \in I : n <= i
      BY <3>1, LeastNat
    <3>3. PICK z \in Z : n = z[1]
      BY <3>2 DEF I
    <3>4. n \in Nat /\ lo < n /\ n <= hi
      BY <1>3, <1>4, <3>3
    <3>5. \A y \in Y : y[1] \in Nat /\ y[1] < n
      BY <1>3, <1>4, <3>3 DEF Precede
    <3>6. \A y \in Z : y[1] \in Nat /\ n <= y[1]
      BY <1>3, <1>4, <3>2 DEF I
    <3>7. n - 1 \in Nat /\ lo <= n - 1 /\ n - 1 <= hi
      BY <3>4
    <3>8. (\A y \in Y : y[1] <= n - 1) /\ (\A y \in Z : n - 1 < y[1])
      BY <3>4, <3>5, <3>6
    <3>. QED
      BY <3>7, <3>8
  <2>. QED
    BY <2>1, <2>2
<1>6. ASSUME NEW new, new.segs = pos.segs, new.caps = pos.caps, new.rest = pos.rest
      PROVE  \A x \in X : Stands(eps[x[1]], x[2], new, r.path)
  BY <1>1, <1>6 DEF ItemsCover, Stands
<1>7. \A i : /\ i \in Found(eps, r, lo, mid) => i \in Found(eps, r, lo, hi) /\ i <= mid
             /\ i \in Found(eps, r, mid, hi) => i \in Found(eps, r, lo, hi) /\ mid < i
  <2>1. \A i \in Candidates(eps, r) : i \in Nat
    BY DEF Candidates, AreEndpoints
  <2>. QED
    BY <1>5, <2>1 DEF Found
<1>8. /\ \A i \in Found(eps, r, lo, mid) : \E y \in Y : y[1] = i
      /\ \A i \in Found(eps, r, mid, hi) : \E z \in Z : z[1] = i
  <2>1. \A i \in Found(eps, r, lo, hi) : \E x \in X : x[1] = i
    BY <1>1 DEF ItemsCover
  <2>2. /\ \A y \in Y : y[1] \in Nat /\ ~(mid < y[1])
        /\ \A z \in Z : z[1] \in Nat /\ ~(z[1] <= mid)
    BY <1>3, <1>4, <1>5
  <2>. QED
    BY <1>3, <1>7, <2>1, <2>2
<1>9. ASSUME NEW new, new.segs = pos.segs, new.caps = pos.caps, new.rest = pos.rest
      PROVE  /\ new.node = pos.node.left => Covers(eps, r, new, lo, mid)
             /\ new.node = pos.node.right => Covers(eps, r, new, mid, hi)
  <2>1. ItemsCover(eps, r, Y, new, lo, mid) /\ ItemsCover(eps, r, Z, new, mid, hi)
    BY <1>3, <1>4, <1>5, <1>6, <1>8, <1>9 DEF ItemsCover
  <2>. QED
    BY <1>3, <2>1 DEF Covers
<1>. QED
  BY <1>5, <1>9

-----------------------------------------------------------------------------
(***************************************************************************)
(* run_choice_leaves: the first of the list is the next that matches.      *)
(***************************************************************************)
LEMMA NoneLeft ==
  ASSUME NEW eps, NEW r, NEW caps, NEW rest, NEW lo, NEW hi,
         LeavesCover(eps, r, <<>>, caps, rest, lo, hi)
  PROVE  Found(eps, r, lo, hi) = {}
<1>1. PICK e : Enumerates(e, Found(eps, r, lo, hi)) /\ <<>> = LeavesAt(eps, e)
  BY DEF LeavesCover
<1>2. e \in Seq(Nat) /\ Len(e) = 0
  <2>1. e \in Seq(Nat)
    BY <1>1 DEF Enumerates
  <2>2. DOMAIN LeavesAt(eps, e) = 1..Len(e)
    BY DEF LeavesAt
  <2>3. Len(e) \in Nat /\ 1..Len(e) = {}
    <3>1. DOMAIN LeavesAt(eps, e) = {}
      BY <1>1
    <3>. QED
      BY <2>1, <2>2, <3>1
  <2>4. Len(e) = 0
    BY <2>3
  <2>. QED
    BY <2>1, <2>4
<1>. QED
  BY <1>1, <1>2 DEF Enumerates

LEMMA NextIsFirst ==
  ASSUME NEW eps, AreEndpoints(eps), NEW r, NEW S, NEW todo \in Seq(S), todo # <<>>,
         NEW caps, NEW rest, NEW lo \in Nat, NEW hi \in Nat,
         LeavesCover(eps, r, todo, caps, rest, lo, hi)
  PROVE  \E i \in DOMAIN eps :
           /\ lo < i /\ i <= hi /\ i \in Nat
           /\ Found(eps, r, lo, i) = {i}
           /\ Head(todo) = LeafOf(eps[i])
           /\ caps = CapturesOf(eps[i], r.path) /\ rest = RestOf(eps[i], r.path)
           /\ LeavesCover(eps, r, Tail(todo), caps, rest, i, hi)
<1>. DEFINE F == Found(eps, r, lo, hi)
<1>1. PICK e : Enumerates(e, F) /\ todo = LeavesAt(eps, e)
  BY DEF LeavesCover
<1>2. /\ e \in Seq(Nat) /\ Len(e) \in Nat
      /\ \A i, j \in 1..Len(e) : i < j => e[i] < e[j]
      /\ F = {e[j] : j \in 1..Len(e)}
  BY <1>1 DEF Enumerates
<1>3. Len(todo) = Len(e) /\ \A j \in 1..Len(e) : todo[j] = LeafOf(eps[e[j]])
  BY <1>1, <1>2 DEF LeavesAt
<1>4. Len(e) >= 1 /\ 1 \in 1..Len(e) /\ e # <<>>
  BY <1>2, <1>3
<1>. DEFINE i == e[1]
            G == Found(eps, r, i, hi)
<1>5. i \in F /\ i \in DOMAIN eps /\ i \in Nat /\ lo < i /\ i <= hi
  <2>1. i \in F
    BY <1>2, <1>4
  <2>. QED
    BY <2>1, FoundFacts
<1>6. \A j \in F : j \in Nat /\ i <= j
  <2>1. \A h \in 1..Len(e) : e[h] \in Nat /\ (h = 1 \/ 1 < h)
    BY <1>2
  <2>2. \A h \in 1..Len(e) : e[h] \in Nat /\ i <= e[h]
    BY <1>2, <1>4, <2>1
  <2>. HIDE DEF F, i
  <2>. QED
    BY <1>2, <2>2
<1>. HIDE DEF i
<1>7. Found(eps, r, lo, i) = {i}
  <2>1. i \in Found(eps, r, lo, i)
    BY <1>5 DEF Found
  <2>2. \A j \in Found(eps, r, lo, i) : j \in F /\ j <= i
    <3>1. \A j \in Candidates(eps, r) : j \in Nat
      BY DEF Candidates, AreEndpoints
    <3>. QED
      BY <1>5, <3>1 DEF Found
  <2>. HIDE DEF F
  <2>. QED
    BY <1>5, <1>6, <2>1, <2>2
<1>8. G = F \ {i}
  <2>1. \A j \in Candidates(eps, r) : j \in Nat
    BY DEF Candidates, AreEndpoints
  <2>2. G \subseteq F \ {i}
    BY <1>5, <2>1 DEF Found
  <2>3. \A j \in F \ {i} : j \in Candidates(eps, r) /\ j <= hi /\ i < j
    <3>1. \A j \in F : j \in Candidates(eps, r) /\ j <= hi
      BY DEF Found
    <3>. HIDE DEF F
    <3>. QED
      BY <1>5, <1>6, <3>1
  <2>4. F \ {i} \subseteq G
    <3>. HIDE DEF F
    <3>. QED
      BY <2>3 DEF Found
  <2>. QED
    BY <2>2, <2>4
<1>9. Head(todo) = LeafOf(eps[i])
  BY <1>3, <1>4 DEF i
<1>10. caps = CapturesOf(eps[i], r.path) /\ rest = RestOf(eps[i], r.path)
  BY <1>5 DEF LeavesCover
<1>11. LeavesCover(eps, r, Tail(todo), caps, rest, i, hi)
  <2>. DEFINE d == Tail(e)
  <2>1. /\ d \in Seq(Nat) /\ Len(d) = Len(e) - 1
        /\ \A j \in 1..(Len(e) - 1) : d[j] = e[j + 1]
    BY <1>2, <1>4
  <2>. HIDE DEF d
  <2>2. \A j \in 1..(Len(e) - 1) : j + 1 \in 1..Len(e) /\ 1 < j + 1
    BY <1>2
  <2>3. \A j, h \in 1..Len(d) : j < h => d[j] < d[h]
    <3>. SUFFICES ASSUME NEW j \in 1..Len(d), NEW h \in 1..Len(d), j < h
                  PROVE  d[j] < d[h]
      OBVIOUS
    <3>1. /\ d[j] = e[j + 1] /\ d[h] = e[h + 1] /\ j + 1 < h + 1
          /\ j + 1 \in 1..Len(e) /\ h + 1 \in 1..Len(e)
      BY <1>2, <2>1
    <3>. QED
      BY <1>2, <3>1
  <2>4. G = {d[j] : j \in 1..Len(d)}
    <3>1. ASSUME NEW j \in 1..Len(d) PROVE d[j] \in G
      <4>1. d[j] = e[j + 1] /\ j + 1 \in 1..Len(e) /\ e[1] < e[j + 1]
        BY <1>2, <1>4, <2>1, <2>2
      <4>2. e[j + 1] # i /\ e[j + 1] \in F
        BY <1>2, <1>5, <4>1 DEF i
      <4>. QED
        BY <1>8, <4>1, <4>2
    <3>2. ASSUME NEW g \in G PROVE \E j \in 1..Len(d) : d[j] = g
      <4>1. g \in F /\ g # i
        BY <1>8
      <4>2. PICK h \in 1..Len(e) : g = e[h]
        BY <1>2, <4>1
      <4>3. h # 1
        BY <4>1, <4>2 DEF i
      <4>4. h - 1 \in 1..Len(d) /\ (h - 1) + 1 = h
        BY <1>2, <2>1, <4>3
      <4>. QED
        BY <2>1, <4>2, <4>4
    <3>. HIDE DEF G
    <3>. QED
      BY <3>1, <3>2
  <2>5. Enumerates(d, G)
    BY <2>1, <2>3, <2>4 DEF Enumerates
  <2>6. Tail(todo) = LeavesAt(eps, d)
    <3>. DEFINE t == Tail(todo)
    <3>1. /\ t \in Seq(S) /\ Len(t) = Len(e) - 1
          /\ \A j \in 1..(Len(e) - 1) : t[j] = todo[j + 1]
      BY <1>3
    <3>2. \A j \in 1..(Len(e) - 1) : todo[j + 1] = LeafOf(eps[d[j]])
      BY <1>3, <2>1, <2>2
    <3>. HIDE DEF t
    <3>3. t = [j \in 1..(Len(e) - 1) |-> t[j]]
      BY <3>1
    <3>. QED
      BY <2>1, <3>1, <3>2, <3>3 DEF LeavesAt, t
  <2>7. \A j \in G : caps = CapturesOf(eps[j], r.path) /\ rest = RestOf(eps[j], r.path)
    BY <1>8 DEF LeavesCover
  <2>. QED
    BY <2>5, <2>6, <2>7 DEF LeavesCover
<1>. QED
  BY <1>5, <1>7, <1>9, <1>10, <1>11

-----------------------------------------------------------------------------
(***************************************************************************)
(* The endpoints that have declined: all that match up to the c-th, and    *)
(* best is the first error of highest priority among theirs, but for a 404 *)
(* of the router, which only counts while there is no higher one.          *)
(***************************************************************************)
Rank(eps, r, i) == Priority(DeclineOf(eps[i], r))

DeclinedWith(eps, r, c, b) ==
  /\ \A i \in Candidates(eps, r) : i <= c =>
       DeclineOf(eps[i], r) # None /\ b # None /\ Rank(eps, r, i) <= Priority(b.code)
  /\ b # None /\ b.code # 404 =>
       \E i \in Candidates(eps, r) :
         /\ i <= c
         /\ b = Error(DeclineOf(eps[i], r), eps[i].id)
         /\ \A j \in Candidates(eps, r) : j < i => Rank(eps, r, j) < Rank(eps, r, i)

LEMMA PriorityFacts == \A code : Priority(code) \in Nat /\ (Priority(code) = 0 <=> code = 404)
BY DEF Priority

LEMMA CandidateFacts ==
  ASSUME NEW eps, AreEndpoints(eps), NEW r
  PROVE  /\ Candidates(eps, r) \subseteq Nat /\ Candidates(eps, r) \subseteq DOMAIN eps
         /\ \A i \in Candidates(eps, r) : 0 < i /\ i <= Len(eps)
         /\ \A i : Rank(eps, r, i) \in Nat
BY PriorityFacts DEF Candidates, AreEndpoints, Rank

LEMMA NoneDeclined ==
  ASSUME NEW eps, AreEndpoints(eps), NEW r
  PROVE  DeclinedWith(eps, r, 0, None)
<1>1. \A i \in Candidates(eps, r) : i \in Nat /\ 0 < i
  BY CandidateFacts
<1>. QED
  BY <1>1 DEF DeclinedWith

\* Where none matches there is none to decline.
LEMMA NoneBetween ==
  ASSUME NEW eps, AreEndpoints(eps), NEW r, NEW c \in Nat, NEW hi \in Nat, c <= hi,
         NEW b, DeclinedWith(eps, r, c, b), Found(eps, r, c, hi) = {}
  PROVE  DeclinedWith(eps, r, hi, b)
<1>1. \A i \in Candidates(eps, r) : i \in Nat /\ (i <= hi => i <= c) /\ (i <= c => i <= hi)
  BY CandidateFacts DEF Found
<1>. QED
  BY <1>1 DEF DeclinedWith

\* A 404 of the router counts only if it is the first error.
LEMMA RouterDeclines ==
  ASSUME NEW eps, AreEndpoints(eps), NEW r, NEW c, NEW b, DeclinedWith(eps, r, c, b)
  PROVE  DeclinedWith(eps, r, c, CombineFail(b, NotFound))
<1>1. CASE b = None
  <2>1. CombineFail(b, NotFound) = NotFound /\ NotFound.code = 404
    BY <1>1 DEF CombineFail, NotFound, Error
  <2>2. \A i \in Candidates(eps, r) : ~(i <= c)
    BY <1>1 DEF DeclinedWith
  <2>. QED
    BY <2>1, <2>2 DEF DeclinedWith
<1>2. CASE b # None
  <2>1. NotFound.code = 404
    BY DEF NotFound, Error
  <2>2. ~(Priority(404) > Priority(b.code))
    BY PriorityFacts
  <2>3. CombineFail(b, NotFound) = b
    BY <1>2, <2>1, <2>2 DEF CombineFail
  <2>. QED
    BY <2>3
<1>. QED
  BY <1>1, <1>2

\* The next that matches declines: a later error needs a higher priority.
LEMMA NextDeclines ==
  ASSUME NEW eps, AreEndpoints(eps), NEW r, NEW c \in Nat, NEW hi \in Nat, c <= hi,
         NEW b, DeclinedWith(eps, r, c, b), NEW i, Found(eps, r, c, hi) = {i},
         DeclineOf(eps[i], r) # None, Error(DeclineOf(eps[i], r), eps[i].id) # None
  PROVE  DeclinedWith(eps, r, hi, CombineFail(b, Error(DeclineOf(eps[i], r), eps[i].id)))
<1>. DEFINE C == Candidates(eps, r)
            code == DeclineOf(eps[i], r)
            err == Error(code, eps[i].id)
            new == CombineFail(b, err)
<1>1. /\ i \in C /\ C \subseteq Nat /\ c < i /\ i <= hi
      /\ \A j \in C : j <= hi => j <= c \/ j = i
      /\ \A j \in C : j <= c => j <= hi
      /\ \A j \in C : j < i => j <= c
      /\ \A j : Rank(eps, r, j) \in Nat
  <2>1. C \subseteq Nat /\ \A j : Rank(eps, r, j) \in Nat
    BY CandidateFacts
  <2>2. i \in Found(eps, r, c, hi) /\ \A j \in Found(eps, r, c, hi) : j = i
    OBVIOUS
  <2>3. i \in C /\ c < i /\ i <= hi
    BY <2>2 DEF Found
  <2>4. \A j \in C : c < j /\ j <= hi => j = i
    BY <2>2 DEF Found
  <2>. HIDE DEF C
  <2>. QED
    BY <2>1, <2>3, <2>4
<1>2. err.code = code /\ err # None /\ Rank(eps, r, i) = Priority(code)
  BY DEF Error, Rank
<1>3. Priority(code) \in Nat /\ \A e : Priority(e.code) \in Nat
  BY PriorityFacts
<1>. HIDE DEF err, C, code
<1>4. CASE b = None
  <2>1. new = err
    BY <1>4 DEF CombineFail
  <2>2. \A j \in C : ~(j <= c)
    BY <1>4 DEF DeclinedWith, C
  <2>3. \A j \in C : j <= hi => j = i
    BY <1>1, <2>2
  <2>4. \A j \in C : ~(j < i)
    BY <1>1, <2>2
  <2>5. \A j \in C : j <= hi => DeclineOf(eps[j], r) # None /\ Rank(eps, r, j) <= Priority(err.code)
    BY <1>1, <1>2, <1>3, <2>3 DEF code
  <2>6. \E j \in C : /\ j <= hi
                     /\ err = Error(DeclineOf(eps[j], r), eps[j].id)
                     /\ \A h \in C : h < j => Rank(eps, r, h) < Rank(eps, r, j)
    BY <1>1, <2>4 DEF err, code
  <2>. QED
    BY <1>2, <2>1, <2>5, <2>6 DEF DeclinedWith, C, err, code
<1>5. CASE b # None /\ Priority(code) > Priority(b.code)
  <2>1. new = err
    BY <1>2, <1>5 DEF CombineFail
  <2>2. \A j \in C : j <= c => DeclineOf(eps[j], r) # None /\ Rank(eps, r, j) <= Priority(b.code)
    BY DEF DeclinedWith, C
  <2>3. \A j \in C : j <= c => Rank(eps, r, j) < Rank(eps, r, i)
    BY <1>1, <1>2, <1>3, <1>5, <2>2
  <2>4. \A j \in C : j < i => Rank(eps, r, j) < Rank(eps, r, i)
    BY <1>1, <2>3
  <2>5. \A j \in C : j <= hi => DeclineOf(eps[j], r) # None /\ Rank(eps, r, j) <= Rank(eps, r, i)
    BY <1>1, <2>2, <2>3 DEF code
  <2>. QED
    BY <1>1, <1>2, <2>1, <2>4, <2>5 DEF DeclinedWith, C, code, err
<1>6. CASE b # None /\ ~(Priority(code) > Priority(b.code))
  <2>1. new = b
    BY <1>2, <1>6 DEF CombineFail
  <2>2. \A j \in C : j <= c => DeclineOf(eps[j], r) # None /\ Rank(eps, r, j) <= Priority(b.code)
    BY DEF DeclinedWith, C
  <2>3. \A j \in C : j <= hi => DeclineOf(eps[j], r) # None /\ Rank(eps, r, j) <= Priority(b.code)
    BY <1>1, <1>2, <1>3, <1>6, <2>2 DEF code
  <2>4. b.code # 404 =>
          \E j \in C : /\ j <= hi
                       /\ b = Error(DeclineOf(eps[j], r), eps[j].id)
                       /\ \A h \in C : h < j => Rank(eps, r, h) < Rank(eps, r, j)
    BY <1>1, <1>6 DEF DeclinedWith, C
  <2>. QED
    BY <1>6, <2>1, <2>3, <2>4 DEF DeclinedWith, C, err, code
<1>. QED
  BY <1>4, <1>5, <1>6 DEF err, code

\* The next that matches does not decline: it is the first that does not.
LEMMA NextTakes ==
  ASSUME NEW eps, AreEndpoints(eps), NEW r, NEW c \in Nat, NEW hi \in Nat,
         NEW b, DeclinedWith(eps, r, c, b), NEW i, Found(eps, r, c, hi) = {i},
         DeclineOf(eps[i], r) = None
  PROVE  Takers(eps, r) # {} /\ First(Takers(eps, r)) = i /\ i \in DOMAIN eps
<1>. DEFINE T == Takers(eps, r)
<1>1. Candidates(eps, r) \subseteq Nat /\ Candidates(eps, r) \subseteq DOMAIN eps
  BY CandidateFacts
<1>2. i \in Candidates(eps, r) /\ i <= hi
  <2>1. i \in Found(eps, r, c, hi)
    OBVIOUS
  <2>. QED
    BY <2>1 DEF Found
<1>3. i \in T
  BY <1>2 DEF Takers
<1>4. ASSUME NEW j \in T PROVE i <= j
  <2>1. j \in Candidates(eps, r) /\ DeclineOf(eps[j], r) = None /\ j \in Nat /\ i \in Nat
    BY <1>1, <1>2 DEF Takers
  <2>2. ~(j <= c)
    BY <2>1 DEF DeclinedWith
  <2>3. CASE j <= hi
    <3>1. j \in Found(eps, r, c, hi)
      BY <2>1, <2>2, <2>3 DEF Found
    <3>. QED
      BY <2>1, <3>1
  <2>4. CASE ~(j <= hi)
    BY <1>2, <2>1, <2>4
  <2>. QED
    BY <2>3, <2>4
<1>5. T \subseteq Nat
  BY <1>1 DEF Takers
<1>. HIDE DEF T
<1>. QED
  BY <1>1, <1>2, <1>3, <1>4, <1>5, FirstIsLeast DEF T

\* When all have declined, the best error is the one promised.
LEMMA AllDeclined ==
  ASSUME NEW eps, AreEndpoints(eps), NEW r, NEW b, b # None,
         DeclinedWith(eps, r, Len(eps), b)
  PROVE  /\ Takers(eps, r) = {}
         /\ Candidates(eps, r) = {} => b.code = 404
         /\ Candidates(eps, r) # {} =>
              /\ b.code = BestDecline(eps, r).code
              /\ b.code # 404 => b.by = BestDecline(eps, r).by
<1>. DEFINE C == Candidates(eps, r)
            H == {i \in C : \A j \in C : Rank(eps, r, j) <= Rank(eps, r, i)}
<1>1. /\ C \subseteq Nat /\ \A i : Rank(eps, r, i) \in Nat
      /\ \A i \in C : i <= Len(eps)
  BY CandidateFacts
<1>2. \A i \in C : DeclineOf(eps[i], r) # None /\ Rank(eps, r, i) <= Priority(b.code)
  BY <1>1 DEF DeclinedWith
<1>3. Takers(eps, r) = {}
  BY <1>2 DEF Takers
<1>4. C = {} => b.code = 404
  BY DEF DeclinedWith
<1>5. /\ BestDecline(eps, r).code = DeclineOf(eps[First(H)], r)
      /\ BestDecline(eps, r).by = eps[First(H)].id
  <2>1. BestDecline(eps, r) = Error(DeclineOf(eps[First(H)], r), eps[First(H)].id)
    BY Zenon DEF BestDecline, Rank
  <2>. QED
    BY <2>1 DEF Error
<1>. HIDE DEF C
<1>6. CASE b.code # 404
  <2>1. PICK i \in C : /\ b = Error(DeclineOf(eps[i], r), eps[i].id)
                       /\ \A j \in C : j < i => Rank(eps, r, j) < Rank(eps, r, i)
    BY <1>6 DEF DeclinedWith, C
  <2>2. b.code = DeclineOf(eps[i], r) /\ b.by = eps[i].id
    BY <2>1 DEF Error
  <2>3. Priority(b.code) = Rank(eps, r, i)
    BY <2>2 DEF Rank
  <2>4. i \in H
    BY <1>2, <2>3
  <2>5. ASSUME NEW j \in H PROVE i <= j
    <3>1. j \in C /\ Rank(eps, r, i) <= Rank(eps, r, j)
      OBVIOUS
    <3>. HIDE DEF H
    <3>. QED
      BY <1>1, <2>1, <3>1
  <2>6. First(H) = i
    <3>1. H \subseteq Nat
      BY <1>1
    <3>. HIDE DEF H
    <3>. QED
      BY <2>4, <2>5, <3>1, FirstIsLeast
  <2>. QED
    BY <1>3, <1>4, <1>5, <2>2, <2>6 DEF C
<1>7. CASE b.code = 404 /\ C # {}
  <2>1. \A i \in C : Rank(eps, r, i) = 0
    BY <1>1, <1>2, <1>7, PriorityFacts
  <2>2. H = C
    BY <1>1, <2>1
  <2>3. PICK i \in C : \A j \in C : i <= j
    BY <1>1, <1>7, LeastNat
  <2>4. First(C) = i
    BY <1>1, <2>3, FirstIsLeast
  <2>5. DeclineOf(eps[i], r) = 404
    BY <2>1, PriorityFacts DEF Rank
  <2>6. BestDecline(eps, r).code = 404
    <3>. HIDE DEF H
    <3>. QED
      BY <1>5, <2>2, <2>4, <2>5
  <2>. QED
    BY <1>3, <1>7, <2>6 DEF C
<1>8. CASE C = {}
  BY <1>3, <1>4, <1>8 DEF C
<1>9. b.code # 404 \/ (b.code = 404 /\ C # {}) \/ C = {}
  OBVIOUS
<1>. QED
  BY <1>6, <1>7, <1>8, <1>9, Zenon
-----------------------------------------------------------------------------
(***************************************************************************)
(* The stack, from its top: its frames cover the endpoints after the x-th, *)
(* one stretch each, and nothing is left after the last frame's.           *)
(***************************************************************************)
FrameCovers(eps, r, fr, lo, hi) ==
  /\ fr.f = "left" => Covers(eps, r, fr.then, lo, hi)
  /\ fr.f = "right" => lo = hi
  /\ fr.f = "leaves" => LeavesCover(eps, r, fr.todo, fr.caps, fr.rest, lo, hi)

StackCovers(eps, r, stk, x) ==
  \E cut \in [0..Len(stk) -> Nat] :
    /\ cut[0] = x /\ cut[Len(stk)] = Len(eps)
    /\ \A j \in 1..Len(stk) : /\ cut[j - 1] <= cut[j]
                              /\ FrameCovers(eps, r, stk[j], cut[j - 1], cut[j])

LEMMA EmptyCovers ==
  ASSUME NEW eps, AreEndpoints(eps), NEW r
  PROVE  /\ StackCovers(eps, r, <<>>, Len(eps))
         /\ \A x : StackCovers(eps, r, <<>>, x) => x = Len(eps)
<1>1. Len(<<>>) = 0
  OBVIOUS
<1>2. StackCovers(eps, r, <<>>, Len(eps))
  <2>. DEFINE cut == [j \in 0..0 |-> Len(eps)]
  <2>1. cut \in [0..0 -> Nat] /\ cut[0] = Len(eps)
    BY DEF AreEndpoints
  <2>. HIDE DEF cut
  <2>. QED
    BY <1>1, <2>1 DEF StackCovers
<1>3. \A x : StackCovers(eps, r, <<>>, x) => x = Len(eps)
  BY <1>1 DEF StackCovers
<1>. QED
  BY <1>2, <1>3

LEMMA PushCovers ==
  ASSUME NEW eps, NEW r, NEW s \in Seq(Frames), NEW fr \in Frames,
         NEW x \in Nat, NEW y \in Nat, x <= y,
         FrameCovers(eps, r, fr, x, y), StackCovers(eps, r, s, y)
  PROVE  StackCovers(eps, r, <<fr>> \o s, x)
<1>1. PICK cut \in [0..Len(s) -> Nat] :
        /\ cut[0] = y /\ cut[Len(s)] = Len(eps)
        /\ \A j \in 1..Len(s) : /\ cut[j - 1] <= cut[j]
                                /\ FrameCovers(eps, r, s[j], cut[j - 1], cut[j])
  BY DEF StackCovers
<1>. DEFINE t == <<fr>> \o s
            n == Len(s)
            new == [j \in 0..(n + 1) |-> IF j = 0 THEN x ELSE cut[j - 1]]
<1>2. /\ Len(t) = n + 1 /\ t[1] = fr /\ n \in Nat
      /\ \A i \in 1..n : t[i + 1] = s[i]
  BY ConsFacts
<1>3. new \in [0..(n + 1) -> Nat] /\ new[0] = x /\ \A j \in 1..(n + 1) : new[j] = cut[j - 1]
  BY <1>1, <1>2
<1>. HIDE DEF t, n, new
<1>4. new[n + 1] = Len(eps)
  BY <1>1, <1>2, <1>3 DEF n
<1>5. ASSUME NEW j \in 1..(n + 1)
      PROVE  new[j - 1] <= new[j] /\ FrameCovers(eps, r, t[j], new[j - 1], new[j])
  <2>1. CASE j = 1
    BY <1>1, <1>2, <1>3, <2>1
  <2>2. CASE j # 1
    <3>1. j - 1 \in 1..n /\ j - 1 \in 1..(n + 1) /\ j = (j - 1) + 1
      BY <1>2, <2>2
    <3>2. new[j] = cut[j - 1] /\ new[j - 1] = cut[(j - 1) - 1]
      BY <1>3, <3>1, Zenon
    <3>3. t[j] = s[j - 1]
      BY <1>2, <3>1, Zenon
    <3>. QED
      BY <1>1, <3>1, <3>2, <3>3 DEF n
  <2>. QED
    BY <2>1, <2>2
<1>. QED
  BY <1>2, <1>3, <1>4, <1>5 DEF StackCovers, t

LEMMA PopCovers ==
  ASSUME NEW eps, NEW r, NEW s \in Seq(Frames), s # <<>>, NEW x \in Nat,
         StackCovers(eps, r, s, x)
  PROVE  \E y \in Nat : /\ x <= y
                        /\ FrameCovers(eps, r, Head(s), x, y)
                        /\ StackCovers(eps, r, Tail(s), y)
<1>1. PICK cut \in [0..Len(s) -> Nat] :
        /\ cut[0] = x /\ cut[Len(s)] = Len(eps)
        /\ \A j \in 1..Len(s) : /\ cut[j - 1] <= cut[j]
                                /\ FrameCovers(eps, r, s[j], cut[j - 1], cut[j])
  BY DEF StackCovers
<1>. DEFINE t == Tail(s)
            n == Len(s)
            new == [j \in 0..(n - 1) |-> cut[j + 1]]
<1>2. /\ n \in Nat \ {0} /\ Len(t) = n - 1 /\ Head(s) = s[1]
      /\ \A i \in 1..(n - 1) : t[i] = s[i + 1]
  BY UnconsFacts
<1>3. new \in [0..(n - 1) -> Nat] /\ \A j \in 0..(n - 1) : new[j] = cut[j + 1]
  BY <1>1, <1>2
<1>. HIDE DEF t, n, new
<1>4. new[0] = cut[1] /\ new[n - 1] = Len(eps) /\ cut[1] \in Nat
  BY <1>1, <1>2, <1>3 DEF n
<1>5. x <= cut[1] /\ FrameCovers(eps, r, Head(s), x, cut[1])
  <2>1. 1 \in 1..n /\ 1 - 1 = 0
    BY <1>2
  <2>. QED
    BY <1>1, <1>2, <2>1 DEF n
<1>6. ASSUME NEW j \in 1..(n - 1)
      PROVE  new[j - 1] <= new[j] /\ FrameCovers(eps, r, t[j], new[j - 1], new[j])
  <2>1. j + 1 \in 1..n /\ (j + 1) - 1 = j /\ (j - 1) + 1 = j
    BY <1>2
  <2>2. new[j - 1] = cut[j] /\ new[j] = cut[j + 1] /\ t[j] = s[j + 1]
    BY <1>2, <1>3, <2>1
  <2>. QED
    BY <1>1, <2>1, <2>2 DEF n
<1>7. StackCovers(eps, r, t, cut[1])
  BY <1>2, <1>3, <1>4, <1>6 DEF StackCovers
<1>. QED
  BY <1>4, <1>5, <1>7 DEF t
-----------------------------------------------------------------------------
(***************************************************************************)
(* The invariant.  While the request is not settled, the endpoints up to   *)
(* some c have declined with the best error so far, the dispatch or the    *)
(* call being run covers those from c to hi, and the stack the rest.       *)
(***************************************************************************)
Searches(c, hi) ==
  /\ c <= hi
  /\ DeclinedWith(api.endpoints, req, c, best)
  /\ StackCovers(api.endpoints, req, stack, hi)
  /\ pc = "route" => Covers(api.endpoints, req, at, c, hi)
  /\ pc \in {"leaves", "return"} => c = hi
  /\ pc \in CallPhases =>
       \E i \in DOMAIN api.endpoints :
         Found(api.endpoints, req, c, hi) = {i} /\ CallsFor(api.endpoints, req, call, i)

Searching == Open => \E c, hi \in Nat : Searches(c, hi)

\* What a leaf that does not decline leaves behind.
EndsAs(i) ==
  LET fatal == FatalCode(call.leaf, req, api.context) IN
  IF fatal = None
  THEN ret.tag = "Route" /\ ret.val.by = api.endpoints[i].id /\ ran # <<>>
  ELSE ret = FailFatal(Error(fatal, api.endpoints[i].id)) /\ ran = <<>>

Settled ==
  pc \in {"return", "done"} /\ ret.tag # "Fail" =>
    \E i \in DOMAIN api.endpoints :
      /\ Takers(api.endpoints, req) # {} /\ First(Takers(api.endpoints, req)) = i
      /\ CallsFor(api.endpoints, req, call, i)
      /\ EndsAs(i)

GivenUp ==
  pc = "done" /\ ret.tag = "Fail" =>
    best # None /\ ret = Fail(best)
    /\ DeclinedWith(api.endpoints, req, Len(api.endpoints), best)

Answered ==
  pc = "done" => answer = IF ret.tag = "Route" THEN ret.val
                          ELSE Response(ret.val.code, ret.val.by, TRUE)

SInv == LeafInv /\ BestIsFirst /\ Searching /\ Settled /\ GivenUp /\ Answered

-----------------------------------------------------------------------------
LEMMA ServedHere ==
  ASSUME api \in Apis, req \in Requests
  PROVE  /\ AreEndpoints(api.endpoints) /\ Len(api.endpoints) \in Nat
         /\ req.path \in Seq(Segments)
         /\ Serves(api.endpoints, api.router, {<<i, 0>> : i \in DOMAIN api.endpoints})
<1>1. PICK w \in Written : api.router = RouterOf[w] /\ api.endpoints = ListOf[w]
  BY ApisAreServed
<1>. QED
  BY <1>1, ListFacts, RoutersServeTheirEndpoints, RequestsHavePaths

\* At the start, every endpoint stands before its first step.
LEMMA StandsAtStart ==
  ASSUME NEW ep, NEW S, NEW path \in Seq(S), NEW pos,
         pos.segs = path, pos.caps = <<>>, pos.rest = None
  PROVE  Stands(ep, 0, pos, path)
<1>1. 1..0 = {} /\ \A j : j \notin 1..(1 - 1)
  OBVIOUS
<1>2. Taken(ep, 0) = 0
  <2>1. {j \in 1..0 : ep.steps[j].c \in {"Path", "Capture"}} = {}
    BY <1>1
  <2>. QED
    BY <2>1, FS_EmptySet DEF Taken
<1>3. CaptureIndex(ep.steps, 0) = 0
  <2>1. {j \in 1..0 : ep.steps[j].c = "Capture"} = {}
    BY <1>1
  <2>. QED
    BY <2>1, FS_EmptySet DEF CaptureIndex
<1>4. Passed(ep, 0, path)
  BY <1>1 DEF Passed
<1>5. Left(ep, 0, path) = path
  <2>1. ~AfterAll(ep, 1) /\ 0 + 1 = 1
    BY <1>1 DEF AfterAll, Earlier
  <2>2. Drop(path, 0) = path
    BY DEF Drop
  <2>. QED
    BY <1>2, <2>1, <2>2 DEF Left
<1>6. CapturesUpTo(ep, 0, path) = <<>>
  BY <1>3 DEF CapturesUpTo
<1>7. RestUpTo(ep, 0, path) = None
  BY <1>1 DEF RestUpTo
<1>. QED
  BY <1>4, <1>5, <1>6, <1>7 DEF Stands

LEMMA SearchStarts == Init => Searching /\ Settled /\ GivenUp /\ Answered
<1>. SUFFICES ASSUME Init PROVE Searching /\ Settled /\ GivenUp /\ Answered
  OBVIOUS
<1>. DEFINE eps == api.endpoints
            X == {<<i, 0>> : i \in DOMAIN eps}
<1>1. /\ api \in Apis /\ req \in Requests /\ pc = "route" /\ best = None /\ stack = <<>>
      /\ at.node = api.router /\ at.segs = req.path /\ at.caps = <<>> /\ at.rest = None
      /\ pc \notin CallPhases
  BY Phases DEF Init
<1>2. /\ AreEndpoints(eps) /\ Len(eps) \in Nat /\ req.path \in Seq(Segments)
      /\ Serves(eps, at.node, X)
  BY <1>1, ServedHere
<1>3. DeclinedWith(eps, req, 0, best)
  BY <1>1, <1>2, NoneDeclined
<1>4. StackCovers(eps, req, stack, Len(eps))
  BY <1>1, <1>2, EmptyCovers
<1>5. ItemsCover(eps, req, X, at, 0, Len(eps))
  <2>1. ASSUME NEW x \in X PROVE 0 < x[1] /\ x[1] <= Len(eps) /\ Stands(eps[x[1]], x[2], at, req.path)
    <3>1. x[1] \in 1..Len(eps) /\ x[2] = 0
      BY <1>2 DEF AreEndpoints
    <3>2. Stands(eps[x[1]], 0, at, req.path)
      BY <1>1, <1>2, StandsAtStart
    <3>. QED
      BY <1>2, <3>1, <3>2
  <2>2. ASSUME NEW i \in Found(eps, req, 0, Len(eps)) PROVE \E x \in X : x[1] = i
    <3>1. i \in DOMAIN eps
      BY DEF Found, Candidates
    <3>2. <<i, 0>> \in X /\ <<i, 0>>[1] = i
      BY <3>1
    <3>. QED
      BY <3>2
  <2>. HIDE DEF X, eps
  <2>. QED
    BY <2>1, <2>2 DEF ItemsCover
<1>6. Covers(eps, req, at, 0, Len(eps))
  BY <1>2, <1>5 DEF Covers
<1>7. Searches(0, Len(eps))
  BY <1>1, <1>2, <1>3, <1>4, <1>6 DEF Searches
<1>. QED
  BY <1>1, <1>2, <1>7 DEF Searching, Settled, GivenUp, Answered
-----------------------------------------------------------------------------
\* An error already reported to a waiting call is counted in the best one.
LEMMA ReportedIsCounted ==
  ASSUME TypeOK, BestIsFirst, Open, stack # <<>>, Head(stack).f = "leaves",
         Head(stack).err # None
  PROVE  CombineFail(best, Head(stack).err) = best
<1>1. stack \in Seq(Frames) /\ Len(stack) \in Nat \ {0} /\ Head(stack) = stack[1]
  <2>1. stack \in Seq(Frames)
    BY DEF TypeOK
  <2>. QED
    BY <2>1, UnconsFacts
<1>2. Line[1] = Head(stack).err
  BY <1>1, LineFacts DEF FrameErr
<1>3. 1 \in 0..Len(stack)
  BY <1>1
<1>4. best # None /\ P(Line[1]) <= P(best)
  BY <1>2, <1>3 DEF BestIsFirst, FirstBest
<1>. QED
  BY <1>2, <1>4, Combined

\* What holds of the new state once it is searched from c to hi.
LEMMA GoesOnSearching ==
  ASSUME NEW c \in Nat, NEW hi \in Nat, c <= hi,
         api' = api, req' = req, pc' # "done",
         DeclinedWith(api.endpoints, req, c, best'),
         StackCovers(api.endpoints, req, stack', hi),
         pc' = "route" => Covers(api.endpoints, req, at', c, hi),
         pc' \in {"leaves", "return"} => c = hi,
         pc' \in CallPhases =>
           \E i \in DOMAIN api.endpoints :
             Found(api.endpoints, req, c, hi) = {i} /\ CallsFor(api.endpoints, req, call', i),
         pc' = "return" => ret'.tag = "Fail"
  PROVE  Searching' /\ Settled' /\ GivenUp' /\ Answered'
<1>1. Searches(c, hi)'
  BY DEF Searches
<1>. QED
  BY <1>1 DEF Searching, Settled, GivenUp, Answered

\* dispatch declines: none of what it was to cover matches.
LEMMA RouteDeclines ==
  ASSUME NEW c \in Nat, NEW hi \in Nat, c <= hi, api \in Apis, req \in Requests,
         api' = api, req' = req, ReturnFail(NotFound),
         DeclinedWith(api.endpoints, req, c, best),
         StackCovers(api.endpoints, req, stack', hi),
         Found(api.endpoints, req, c, hi) = {}
  PROVE  Searching' /\ Settled' /\ GivenUp' /\ Answered'
<1>1. AreEndpoints(api.endpoints)
  BY ServedHere
<1>2. DeclinedWith(api.endpoints, req, hi, CombineFail(best, NotFound))
  BY <1>1, NoneBetween, RouterDeclines
<1>3. pc' = "return" /\ ret'.tag = "Fail" /\ best' = CombineFail(best, NotFound)
  BY DEF ReturnFail, Fail
<1>4. pc' \notin CallPhases
  BY <1>3, Phases
<1>. QED
  BY <1>2, <1>3, <1>4, GoesOnSearching

LEMMA DispatchSearches ==
  ASSUME TypeOK, Searching,
         RouteStaticHere \/ RouteStaticDeeper \/ RouteCapture \/ RouteCaptureAll \/ RouteChoice
  PROVE  Searching' /\ Settled' /\ GivenUp' /\ Answered'
<1>. DEFINE eps == api.endpoints
<1>1. pc = "route" /\ api' = api /\ req' = req
  BY DEF RouteStaticHere, RouteStaticDeeper, RouteCapture, RouteCaptureAll, RouteChoice, fixed
<1>2. /\ api \in Apis /\ req \in Requests /\ at \in Positions /\ at.caps \in Seq(Segments)
      /\ stack \in Seq(Frames)
      /\ DOMAIN at = {"node", "segs", "caps", "rest"}
  BY DEF TypeOK, Positions, Paths
<1>3. AreEndpoints(eps) /\ req.path \in Seq(Segments)
  BY <1>2, ServedHere
<1>4. PICK c \in Nat, hi \in Nat :
        /\ c <= hi
        /\ DeclinedWith(eps, req, c, best)
        /\ StackCovers(eps, req, stack, hi)
        /\ Covers(eps, req, at, c, hi)
  BY <1>1 DEF Searching, Open, Searches
<1>5. "route" \notin CallPhases /\ "leaves" \notin CallPhases
  BY Phases
<1>. HIDE DEF eps
<1>6. CASE RouteStaticHere
  <2>. DEFINE fr == [f |-> "leaves", todo |-> at.node.leaves, err |-> None,
                     caps |-> at.caps, rest |-> at.rest]
  <2>1. /\ at.node.t = "Static" /\ IsEmptyPath(at.segs) /\ pc' = "leaves" /\ best' = best
        /\ stack' = <<fr>> \o stack
    BY <1>6 DEF RouteStaticHere
  <2>2. LeavesCover(eps, req, at.node.leaves, at.caps, at.rest, c, hi)
    BY <1>2, <1>3, <1>4, <2>1, CoveredHere
  <2>3. FrameCovers(eps, req, fr, c, hi)
    BY <2>2 DEF FrameCovers
  <2>4. fr \in Frames
    <3>1. at.node \in Nodes /\ at.rest \in {None} \cup Paths /\ at.caps \in Paths
      BY <1>2 DEF Positions
    <3>2. at.node.leaves \in Seq(Leaves)
      BY <2>1, <3>1, NodesAreClosed
    <3>. QED
      BY <3>1, <3>2 DEF Frames
  <2>. HIDE DEF fr
  <2>5. StackCovers(eps, req, stack', c)
    BY <1>2, <1>4, <2>1, <2>3, <2>4, PushCovers
  <2>. QED
    BY <1>1, <1>4, <1>5, <2>1, <2>5, GoesOnSearching DEF eps
<1>7. CASE RouteStaticDeeper
  <2>1. at.node.t = "Static" /\ ~IsEmptyPath(at.segs) /\ stack' = stack
    BY <1>7 DEF RouteStaticDeeper
  <2>2. CASE Head(at.segs) \in DOMAIN at.node.map
    <3>1. /\ pc' = pc /\ best' = best
          /\ at' = [at EXCEPT !.node = at.node.map[Head(at.segs)], !.segs = Tail(at.segs)]
      BY <1>7, <2>2 DEF RouteStaticDeeper
    <3>2. /\ at'.node = at.node.map[Head(at.segs)] /\ at'.segs = Tail(at.segs)
          /\ at'.caps = at.caps /\ at'.rest = at.rest
      BY <1>2, <3>1
    <3>3. Covers(eps, req, at', c, hi)
      BY <1>2, <1>3, <1>4, <2>1, <2>2, <3>2, CoveredDeeper
    <3>. QED
      BY <1>1, <1>4, <1>5, <2>1, <3>1, <3>3, GoesOnSearching DEF eps
  <2>3. CASE Head(at.segs) \notin DOMAIN at.node.map
    <3>1. ReturnFail(NotFound)
      BY <1>7, <2>3 DEF RouteStaticDeeper
    <3>2. Found(eps, req, c, hi) = {}
      BY <1>2, <1>3, <1>4, <2>1, <2>3, CoveredDeeper
    <3>. QED
      BY <1>1, <1>2, <1>4, <2>1, <3>1, <3>2, RouteDeclines DEF eps
  <2>. QED
    BY <2>2, <2>3
<1>8. CASE RouteCapture
  <2>1. at.node.t = "Capture" /\ stack' = stack
    BY <1>8 DEF RouteCapture
  <2>2. CASE ~IsEmptyPath(at.segs)
    <3>1. /\ pc' = pc /\ best' = best
          /\ at' = [at EXCEPT !.node = at.node.inner, !.segs = Tail(at.segs),
                              !.caps = Append(at.caps, Head(at.segs))]
      BY <1>8, <2>2 DEF RouteCapture
    <3>2. /\ at'.node = at.node.inner /\ at'.segs = Tail(at.segs)
          /\ at'.caps = Append(at.caps, Head(at.segs)) /\ at'.rest = at.rest
      BY <1>2, <3>1
    <3>3. Covers(eps, req, at', c, hi)
      BY <1>2, <1>3, <1>4, <2>1, <2>2, <3>2, CoveredCapture
    <3>. QED
      BY <1>1, <1>4, <1>5, <2>1, <3>1, <3>3, GoesOnSearching DEF eps
  <2>3. CASE IsEmptyPath(at.segs)
    <3>1. ReturnFail(NotFound)
      BY <1>8, <2>3 DEF RouteCapture
    <3>2. Found(eps, req, c, hi) = {}
      BY <1>2, <1>3, <1>4, <2>1, <2>3, CoveredCapture
    <3>. QED
      BY <1>1, <1>2, <1>4, <2>1, <3>1, <3>2, RouteDeclines DEF eps
  <2>. QED
    BY <2>2, <2>3
<1>9. CASE RouteCaptureAll
  <2>1. /\ at.node.t = "CaptureAll" /\ stack' = stack /\ pc' = pc /\ best' = best
        /\ at' = [at EXCEPT !.node = at.node.inner, !.segs = <<>>,
                            !.rest = DropLeadingEmpty(at.segs)]
    BY <1>9 DEF RouteCaptureAll
  <2>2. /\ at'.node = at.node.inner /\ at'.segs = <<>>
        /\ at'.caps = at.caps /\ at'.rest = DropLeadingEmpty(at.segs)
    BY <1>2, <2>1
  <2>3. Covers(eps, req, at', c, hi)
    BY <1>2, <1>3, <1>4, <2>1, <2>2, CoveredCaptureAll
  <2>. QED
    BY <1>1, <1>4, <1>5, <2>1, <2>3, GoesOnSearching DEF eps
<1>10. CASE RouteChoice
  <2>. DEFINE then == [at EXCEPT !.node = at.node.right]
              fr == [f |-> "left", then |-> then]
  <2>1. /\ at.node.t = "Choice" /\ pc' = pc /\ best' = best
        /\ stack' = <<fr>> \o stack /\ at' = [at EXCEPT !.node = at.node.left]
    BY <1>10 DEF RouteChoice
  <2>2. /\ at'.node = at.node.left /\ at'.segs = at.segs
        /\ at'.caps = at.caps /\ at'.rest = at.rest
        /\ then.node = at.node.right /\ then.segs = at.segs
        /\ then.caps = at.caps /\ then.rest = at.rest
    BY <1>2, <2>1
  <2>3. PICK mid \in Nat :
          /\ c <= mid /\ mid <= hi
          /\ \A new : /\ new.segs = at.segs /\ new.caps = at.caps /\ new.rest = at.rest
                      => /\ new.node = at.node.left => Covers(eps, req, new, c, mid)
                         /\ new.node = at.node.right => Covers(eps, req, new, mid, hi)
    BY <1>3, <1>4, <2>1, CoveredChoice
  <2>4. Covers(eps, req, at', c, mid) /\ Covers(eps, req, then, mid, hi)
    BY <2>2, <2>3
  <2>5. fr \in Frames
    <3>1. then \in Positions
      <4>1. at.node.right \in Nodes
        BY <1>2, <2>1, NodesAreClosed DEF Positions
      <4>. QED
        BY <1>2, <4>1 DEF Positions
    <3>. QED
      BY <3>1 DEF Frames
  <2>6. FrameCovers(eps, req, fr, mid, hi)
    BY <2>4 DEF FrameCovers
  <2>. HIDE DEF fr, then
  <2>7. StackCovers(eps, req, stack', mid)
    BY <1>2, <1>4, <2>1, <2>3, <2>5, <2>6, PushCovers
  <2>. QED
    BY <1>1, <1>4, <1>5, <2>1, <2>3, <2>4, <2>7, GoesOnSearching DEF eps
<1>. QED
  BY <1>6, <1>7, <1>8, <1>9, <1>10
-----------------------------------------------------------------------------
\* A call begins: the endpoint it is for is the next that matches.
LEMMA CallSearches ==
  ASSUME NEW leaf, NEW caps, NEW rest, NEW tail, BeginCall(leaf, caps, rest, tail),
         NEW c \in Nat, NEW hi \in Nat, c <= hi, api' = api, req' = req, best' = best,
         DeclinedWith(api.endpoints, req, c, best),
         StackCovers(api.endpoints, req, stack', hi),
         NEW i \in DOMAIN api.endpoints, Found(api.endpoints, req, c, hi) = {i},
         leaf = LeafOf(api.endpoints[i]),
         caps = CapturesOf(api.endpoints[i], req.path),
         rest = RestOf(api.endpoints[i], req.path)
  PROVE  Searching' /\ Settled' /\ GivenUp' /\ Answered'
<1>1. /\ pc' \in {"host", "captures"}
      /\ call'.leaf = leaf /\ call'.caps = caps /\ call'.rest = rest
  BY DEF BeginCall
<1>2. CallsFor(api.endpoints, req, call', i)
  BY <1>1 DEF CallsFor
<1>. QED
  BY <1>1, <1>2, GoesOnSearching

LEMMA RawSearches ==
  ASSUME TypeOK, Searching, RouteRaw
  PROVE  Searching' /\ Settled' /\ GivenUp' /\ Answered'
<1>. DEFINE eps == api.endpoints
<1>1. /\ pc = "route" /\ at.node.t = "Raw" /\ stack' = stack /\ best' = best
      /\ api' = api /\ req' = req
      /\ \E tail : BeginCall(at.node.leaf, at.caps, at.rest, tail)
  BY DEF RouteRaw, fixed, routing
<1>2. /\ at.caps \in Seq(Segments) /\ AreEndpoints(eps) /\ req.path \in Seq(Segments)
  BY ServedHere DEF TypeOK, Positions, Paths
<1>3. PICK c \in Nat, hi \in Nat :
        /\ c <= hi
        /\ DeclinedWith(eps, req, c, best)
        /\ StackCovers(eps, req, stack, hi)
        /\ Covers(eps, req, at, c, hi)
  BY <1>1 DEF Searching, Open, Searches
<1>. HIDE DEF eps
<1>4. PICK i \in DOMAIN eps :
        /\ Found(eps, req, c, hi) = {i} /\ at.node.leaf = LeafOf(eps[i])
        /\ at.caps = CapturesOf(eps[i], req.path) /\ at.rest = RestOf(eps[i], req.path)
  BY <1>1, <1>2, <1>3, CoveredRaw
<1>5. PICK tail : BeginCall(at.node.leaf, at.caps, at.rest, tail)
  BY <1>1
<1>. QED
  BY <1>1, <1>3, <1>4, <1>5, CallSearches DEF eps

LEMMA NextTodo ==
  ASSUME NEW fr \in Frames, fr.f = "leaves", NEW todo
  PROVE  [fr EXCEPT !.todo = todo] = [f |-> "leaves", todo |-> todo, err |-> fr.err,
                                      caps |-> fr.caps, rest |-> fr.rest]
BY FrameKinds

\* The leaves at the end of a path: the next one is called, or all declined.
LEMMA LeavesSearch ==
  ASSUME TypeOK, BestIsFirst, Searching, NextLeaf
  PROVE  Searching' /\ Settled' /\ GivenUp' /\ Answered'
<1>. DEFINE eps == api.endpoints
            top == Head(stack)
<1>1. pc = "leaves" /\ api' = api /\ req' = req /\ Open
  BY DEF NextLeaf, fixed, Open
<1>2. /\ AreEndpoints(eps) /\ stack \in Seq(Frames) /\ stack # <<>> /\ top.f = "leaves"
      /\ api \in Apis /\ req \in Requests
  BY <1>1, ServedHere DEF TypeOK
<1>3. top \in Frames /\ Tail(stack) \in Seq(Frames)
  BY <1>2, StackTypes
<1>4. PICK c \in Nat : DeclinedWith(eps, req, c, best) /\ StackCovers(eps, req, stack, c)
  BY <1>1 DEF Searching, Searches
<1>5. PICK y \in Nat : /\ c <= y
                       /\ FrameCovers(eps, req, top, c, y)
                       /\ StackCovers(eps, req, Tail(stack), y)
  BY <1>2, <1>4, PopCovers
<1>6. LeavesCover(eps, req, top.todo, top.caps, top.rest, c, y)
  BY <1>2, <1>5 DEF FrameCovers
<1>. HIDE DEF eps
<1>7. CASE top.todo # <<>>
  <2>. DEFINE fr == [top EXCEPT !.todo = Tail(@)]
  <2>1. /\ BeginCall(Head(top.todo), top.caps, top.rest, <<>>)
        /\ stack' = <<fr>> \o Tail(stack) /\ best' = best
    BY <1>7 DEF NextLeaf
  <2>2. /\ top.todo \in Seq(Leaves) /\ top.err \in {None} \cup Errors
        /\ top = [f |-> "leaves", todo |-> top.todo, err |-> top.err,
                  caps |-> top.caps, rest |-> top.rest]
    BY <1>2, <1>3, FrameKinds
  <2>3. PICK i \in DOMAIN eps :
          /\ c < i /\ i <= y /\ i \in Nat
          /\ Found(eps, req, c, i) = {i}
          /\ Head(top.todo) = LeafOf(eps[i])
          /\ top.caps = CapturesOf(eps[i], req.path) /\ top.rest = RestOf(eps[i], req.path)
          /\ LeavesCover(eps, req, Tail(top.todo), top.caps, top.rest, i, y)
    BY <1>2, <1>5, <1>6, <1>7, <2>2, NextIsFirst
  <2>4. Tail(top.todo) \in Seq(Leaves)
    BY <1>7, <2>2
  <2>5. /\ fr \in Frames /\ fr.f = "leaves"
        /\ fr.todo = Tail(top.todo) /\ fr.caps = top.caps /\ fr.rest = top.rest
    <3>. HIDE DEF top
    <3>1. fr = [top EXCEPT !.todo = Tail(top.todo)]
      BY <2>2
    <3>. HIDE DEF fr
    <3>2. fr = [f |-> "leaves", todo |-> Tail(top.todo), err |-> top.err,
                caps |-> top.caps, rest |-> top.rest]
      BY <1>2, <1>3, <3>1, NextTodo
    <3>3. fr \in Frames
      BY <1>2, <1>3, <2>2, <2>4, <3>1, LeavesFrame
    <3>. QED
      BY <3>2, <3>3
  <2>. HIDE DEF top, fr
  <2>6. FrameCovers(eps, req, fr, i, y)
    BY <2>3, <2>5 DEF FrameCovers
  <2>7. StackCovers(eps, req, stack', i)
    BY <1>3, <1>5, <2>1, <2>3, <2>5, <2>6, PushCovers
  <2>. QED
    BY <1>1, <1>4, <2>1, <2>3, <2>7, CallSearches DEF eps
<1>8. CASE top.todo = <<>>
  <2>1. /\ stack' = Tail(stack)
        /\ ReturnFail(IF top.err = None THEN NotFound ELSE top.err)
    BY <1>8 DEF NextLeaf
  <2>2. Found(eps, req, c, y) = {}
    BY <1>6, <1>8, NoneLeft
  <2>3. CASE top.err = None
    <3>1. ReturnFail(NotFound)
      BY <2>1, <2>3
    <3>. QED
      BY <1>1, <1>2, <1>4, <1>5, <2>1, <2>2, <3>1, RouteDeclines DEF eps
  <2>4. CASE top.err # None
    <3>1. best' = best
      BY <1>1, <1>2, <2>1, <2>4, ReportedIsCounted DEF ReturnFail
    <3>2. DeclinedWith(eps, req, y, best')
      BY <1>2, <1>4, <1>5, <2>2, <3>1, NoneBetween
    <3>3. pc' = "return" /\ ret'.tag = "Fail"
      BY <2>1 DEF ReturnFail, Fail
    <3>4. pc' \notin CallPhases
      BY <3>3, Phases
    <3>. QED
      BY <1>1, <1>5, <2>1, <3>2, <3>3, <3>4, GoesOnSearching DEF eps
  <2>. QED
    BY <2>3, <2>4
<1>. QED
  BY <1>7, <1>8

-----------------------------------------------------------------------------
\* A leaf call goes on, declines, or settles the request (LeafAnswersAsSpecified).
LEMMA LeafSearches ==
  ASSUME LeafInv, Searching, CallStep
  PROVE  Searching' /\ Settled' /\ GivenUp' /\ Answered'
<1>. DEFINE eps == api.endpoints
<1>1. TypeOK /\ CallSummary /\ OneHandlerAnswers
  BY CallSteps DEF LeafInv, IInv, CallInv
<1>2. /\ pc \in CallPhases /\ Open
      /\ api' = api /\ req' = req /\ stack' = stack /\ call' = call /\ ran' = ran
  BY <1>1, Phases DEF CallSummary, Open, fixed, routing
<1>3. AreEndpoints(eps) /\ api \in Apis /\ req \in Requests /\ call \in Calls
  BY <1>1, <1>2, ServedHere DEF TypeOK
<1>4. PICK c \in Nat, hi \in Nat : Searches(c, hi)
  BY <1>2 DEF Searching
<1>5. PICK i \in DOMAIN eps : Found(eps, req, c, hi) = {i} /\ CallsFor(eps, req, call, i)
  BY <1>2, <1>4 DEF Searches
<1>6. c <= hi /\ DeclinedWith(eps, req, c, best) /\ StackCovers(eps, req, stack, hi)
  BY <1>4 DEF Searches
<1>7. /\ DeclineOf(eps[i], req) = Decline /\ call.leaf.id = eps[i].id
      /\ LeafError(Decline) = Error(Decline, eps[i].id)
      /\ LeafError(Fatal) = Error(Fatal, eps[i].id)
  BY <1>5 DEF CallsFor, DeclineOf, Decline, LeafOf, LeafError
<1>8. ran = <<>>
  BY <1>1, <1>2, Phases DEF OneHandlerAnswers
<1>. HIDE DEF eps
<1>9. CASE pc' \in CallPhases
  <2>1. best' = best /\ pc' \notin {"route", "leaves", "return", "done"}
    BY <1>1, <1>9, Phases
       DEF CallSummary, GoesOn, Declines, Settles, ReturnFail, ReturnFatal
  <2>. QED
    BY <1>2, <1>5, <1>6, <2>1, GoesOnSearching DEF eps
<1>10. CASE pc' \notin CallPhases
  <2>1. pc' = "return" /\ (Declines \/ Settles)
    BY <1>1, <1>10, Phases
       DEF CallSummary, GoesOn, Declines, Settles, ReturnFail, ReturnFatal
  <2>2. Outcome(ret')
    BY <2>1, CheckOutcome, PreBodyOutcome, BufferOutcome, ExtractOutcome DEF CallStep
  <2>3. CASE Declines
    <3>1. PICK err \in Errors : ret' = Fail(err) /\ best' = CombineFail(best, err)
      BY <2>3 DEF Declines, ReturnFail
    <3>2. Decline # None /\ ret' = Fail(LeafError(Decline))
      BY <2>2, <3>1 DEF Outcome, Fail, FailFatal, Decline
    <3>3. err = LeafError(Decline) /\ err # None /\ ret'.tag = "Fail"
      BY <3>1, <3>2, NoneIsNoError DEF Fail
    <3>4. DeclinedWith(eps, req, hi, best')
      BY <1>3, <1>5, <1>6, <1>7, <3>1, <3>2, <3>3, NextDeclines
    <3>. QED
      BY <1>2, <1>6, <1>10, <2>1, <3>3, <3>4, GoesOnSearching DEF eps
  <2>4. CASE Settles
    <3>1. ret'.tag = "FailFatal"
      BY <2>4 DEF Settles, ReturnFatal, FailFatal
    <3>2. Decline = None /\ Fatal # None /\ ret' = FailFatal(LeafError(Fatal))
      BY <2>2, <3>1 DEF Outcome, Fail, Decline, Fatal
    <3>3. Takers(eps, req) # {} /\ First(Takers(eps, req)) = i
      BY <1>3, <1>5, <1>6, <1>7, <3>2, NextTakes
    <3>4. EndsAs(i)'
      BY <1>2, <1>7, <1>8, <3>2 DEF EndsAs, Fatal, eps
    <3>5. Settled'
      BY <1>2, <1>5, <3>3, <3>4 DEF Settled, eps
    <3>. QED
      BY <2>1, <3>1, <3>5 DEF Searching, Open, GivenUp, Answered
  <2>. QED
    BY <2>1, <2>3, <2>4
<1>. QED
  BY <1>9, <1>10

\* A handler runs for the first endpoint that does not decline.
LEMMA HandlerSettles ==
  ASSUME LeafInv, Searching, RunHandler
  PROVE  Searching' /\ Settled' /\ GivenUp' /\ Answered'
<1>. DEFINE eps == api.endpoints
<1>1. /\ TypeOK /\ pc = "handler" /\ pc' = "return" /\ pc \in CallPhases /\ Open
      /\ api' = api /\ req' = req /\ call' = call
      /\ ran' = Append(ran, [leaf |-> call.leaf, args |-> args, tail |-> call.tail])
  BY Phases DEF LeafInv, IInv, RunHandler, fixed, calling, Open
<1>2. AreEndpoints(eps)
  BY <1>1, ServedHere DEF TypeOK
<1>3. PICK c \in Nat, hi \in Nat : Searches(c, hi)
  BY <1>1 DEF Searching
<1>4. PICK i \in DOMAIN eps : Found(eps, req, c, hi) = {i} /\ CallsFor(eps, req, call, i)
  BY <1>1, <1>3 DEF Searches
<1>5. DeclinedWith(eps, req, c, best)
  BY <1>3 DEF Searches
<1>6. DeclineOf(eps[i], req) = Decline /\ call.leaf.id = eps[i].id
  BY <1>4 DEF CallsFor, DeclineOf, Decline, LeafOf
<1>7. ret'.tag = "Route" /\ ret'.val.by = call.leaf.id
  BY <1>1, RunHandlerType
<1>8. Decline = None /\ Fatal = None
  BY <1>7, HandlerOutcome DEF Outcome, Decline, Fatal, Fail, FailFatal
<1>9. ran' # <<>>
  <2>1. ran = <<>>
    BY <1>1 DEF LeafInv, IInv, OneHandlerAnswers
  <2>. QED
    BY <1>1, <2>1
<1>. HIDE DEF eps
<1>10. Takers(eps, req) # {} /\ First(Takers(eps, req)) = i
  BY <1>2, <1>4, <1>5, <1>6, <1>8, NextTakes
<1>11. EndsAs(i)'
  BY <1>1, <1>6, <1>7, <1>8, <1>9 DEF EndsAs, Fatal, eps
<1>12. Settled'
  BY <1>1, <1>4, <1>10, <1>11 DEF Settled, eps
<1>. QED
  BY <1>1, <1>7, <1>12 DEF Searching, Open, GivenUp, Answered
-----------------------------------------------------------------------------
\* A result comes back to the call on top of the stack, or out of the router.
LEMMA ReturnSearches ==
  ASSUME RInv, Searching, Settled, ReturnStep
  PROVE  Searching' /\ Settled' /\ GivenUp' /\ Answered'
<1>. DEFINE eps == api.endpoints
            top == Head(stack)
<1>1. /\ pc = "return" /\ TypeOK
      /\ api' = api /\ req' = req /\ call' = call /\ ran' = ran /\ best' = best
  BY ReturnStepFacts DEF RInv, IInv
<1>2. /\ AreEndpoints(eps) /\ stack \in Seq(Frames) /\ ret \in Results
      /\ stack # <<>> => top \in Frames /\ Tail(stack) \in Seq(Frames)
  BY <1>1, ServedHere, StackTypes DEF TypeOK
<1>3. ASSUME ret.tag = "Fail"
      PROVE  \E c \in Nat : DeclinedWith(eps, req, c, best) /\ StackCovers(eps, req, stack, c)
  BY <1>1, <1>3 DEF Searching, Open, Searches
<1>4. ASSUME ret.tag = "Fail", stack # <<>>
      PROVE  \E c, y \in Nat : /\ c <= y /\ DeclinedWith(eps, req, c, best)
                               /\ FrameCovers(eps, req, top, c, y)
                               /\ StackCovers(eps, req, Tail(stack), y)
  <2>. HIDE DEF eps, top
  <2>1. PICK c \in Nat : DeclinedWith(eps, req, c, best) /\ StackCovers(eps, req, stack, c)
    BY <1>3, <1>4
  <2>. QED
    BY <1>2, <1>4, <2>1, PopCovers DEF top
<1>5. \A p \in {"route", "leaves", "return"} : p \notin CallPhases
  BY Phases
<1>6. ASSUME ret.tag # "Fail", ret' = ret, pc' \in {"return", "done"}
      PROVE  Settled'
  <2>1. PICK i \in DOMAIN eps :
          /\ Takers(eps, req) # {} /\ First(Takers(eps, req)) = i
          /\ CallsFor(eps, req, call, i) /\ EndsAs(i)
    BY <1>1, <1>6 DEF Settled
  <2>2. EndsAs(i)'
    BY <1>1, <1>6, <2>1 DEF EndsAs
  <2>. HIDE DEF eps
  <2>. QED
    BY <1>1, <2>1, <2>2 DEF Settled, eps
<1>. HIDE DEF eps
<1>7. CASE ReturnThrough
  <2>1. ret.tag # "Fail" /\ ret' = ret /\ pc' = "return"
    BY <1>7 DEF ReturnThrough
  <2>. QED
    BY <1>6, <2>1 DEF Searching, Open, GivenUp, Answered
<1>8. CASE ReturnFromLeft
  <2>. DEFINE fr == [f |-> "right", err |-> ret.val]
  <2>1. /\ stack # <<>> /\ top.f = "left" /\ ret.tag = "Fail" /\ pc' = "route"
        /\ stack' = <<fr>> \o Tail(stack) /\ at' = top.then
    BY <1>8 DEF ReturnFromLeft, Returning
  <2>. HIDE DEF top
  <2>2. PICK c \in Nat, y \in Nat :
          /\ c <= y /\ DeclinedWith(eps, req, c, best)
          /\ FrameCovers(eps, req, top, c, y) /\ StackCovers(eps, req, Tail(stack), y)
    BY <1>4, <2>1
  <2>3. Covers(eps, req, at', c, y)
    BY <2>1, <2>2 DEF FrameCovers
  <2>4. fr \in Frames /\ FrameCovers(eps, req, fr, y, y)
    <3>1. ret.val \in Errors
      BY <1>2, <2>1, ResultKinds
    <3>. QED
      BY <3>1 DEF Frames, FrameCovers
  <2>. HIDE DEF fr
  <2>5. StackCovers(eps, req, stack', y)
    <3>1. Tail(stack) \in Seq(Frames) /\ y <= y
      BY <1>2, <2>1
    <3>2. StackCovers(eps, req, <<fr>> \o Tail(stack), y)
      BY <2>2, <2>4, <3>1, PushCovers
    <3>. QED
      BY <2>1, <3>2
  <2>. QED
    BY <1>1, <1>5, <2>1, <2>2, <2>3, <2>5, GoesOnSearching DEF eps
<1>9. CASE ReturnFromRight
  <2>1. /\ stack # <<>> /\ top.f = "right" /\ ret.tag = "Fail"
        /\ pc' = "return" /\ ret'.tag = "Fail" /\ stack' = Tail(stack)
    BY <1>1, <1>9 DEF ReturnFromRight, Returning, Fail
  <2>. HIDE DEF top
  <2>2. PICK c \in Nat, y \in Nat :
          /\ c <= y /\ DeclinedWith(eps, req, c, best)
          /\ FrameCovers(eps, req, top, c, y) /\ StackCovers(eps, req, Tail(stack), y)
    BY <1>4, <2>1
  <2>3. c = y
    BY <2>1, <2>2 DEF FrameCovers
  <2>. QED
    BY <1>1, <1>5, <2>1, <2>2, <2>3, GoesOnSearching DEF eps
<1>10. CASE ReturnFromLeaf
  <2>. DEFINE fr == [top EXCEPT !.err = CombineFail(@, ret.val)]
  <2>1. /\ stack # <<>> /\ top.f = "leaves" /\ ret.tag = "Fail" /\ pc' = "leaves"
        /\ stack' = <<fr>> \o Tail(stack)
    BY <1>10 DEF ReturnFromLeaf, Returning
  <2>2. /\ top.todo \in Seq(Leaves) /\ top.err \in {None} \cup Errors
        /\ top = [f |-> "leaves", todo |-> top.todo, err |-> top.err,
                  caps |-> top.caps, rest |-> top.rest]
    BY <1>2, <2>1, FrameKinds
  <2>. HIDE DEF top
  <2>3. CombineFail(top.err, ret.val) \in {None} \cup Errors
    <3>1. ret.val \in Errors
      BY <1>2, <2>1, ResultKinds
    <3>. QED
      BY <2>2, <3>1 DEF CombineFail
  <2>4. /\ fr \in Frames /\ fr.f = "leaves"
        /\ fr.todo = top.todo /\ fr.caps = top.caps /\ fr.rest = top.rest
    <3>1. fr = [f |-> "leaves", todo |-> top.todo, err |-> CombineFail(top.err, ret.val),
                caps |-> top.caps, rest |-> top.rest]
      BY <2>2
    <3>2. fr \in Frames
      BY <1>2, <2>1, <2>2, <2>3, LeavesFrame
    <3>. QED
      BY <3>1, <3>2
  <2>. HIDE DEF fr
  <2>5. PICK c \in Nat, y \in Nat :
          /\ c <= y /\ DeclinedWith(eps, req, c, best)
          /\ FrameCovers(eps, req, top, c, y) /\ StackCovers(eps, req, Tail(stack), y)
    BY <1>4, <2>1
  <2>6. FrameCovers(eps, req, fr, c, y)
    BY <2>1, <2>4, <2>5 DEF FrameCovers
  <2>7. StackCovers(eps, req, stack', c)
    BY <1>2, <2>1, <2>4, <2>5, <2>6, PushCovers
  <2>. QED
    BY <1>1, <1>5, <2>1, <2>5, <2>7, GoesOnSearching DEF eps
<1>11. CASE Respond
  <2>1. /\ stack = <<>> /\ pc' = "done" /\ ret' = ret
        /\ answer' = IF ret.tag = "Route" THEN ret.val
                     ELSE Response(ret.val.code, ret.val.by, TRUE)
    BY <1>11 DEF Respond
  <2>2. Searching' /\ Answered'
    BY <2>1 DEF Searching, Open, Answered
  <2>3. Settled'
    <3>1. CASE ret.tag = "Fail"
      BY <2>1, <3>1 DEF Settled
    <3>2. CASE ret.tag # "Fail"
      BY <1>6, <2>1, <3>2
    <3>. QED
      BY <3>1, <3>2
  <2>4. GivenUp'
    <3>. SUFFICES ASSUME ret.tag = "Fail"
                  PROVE  best # None /\ ret = Fail(best)
                         /\ DeclinedWith(eps, req, Len(eps), best)
      BY <1>1, <2>1 DEF GivenUp, eps
    <3>1. best # None /\ ret = Fail(best)
      BY <1>1, <2>1, LastError
    <3>2. PICK c \in Nat : DeclinedWith(eps, req, c, best) /\ StackCovers(eps, req, stack, c)
      BY <1>3
    <3>3. c = Len(eps)
      BY <1>2, <2>1, <3>2, EmptyCovers
    <3>. QED
      BY <3>1, <3>2, <3>3
  <2>. QED
    BY <2>2, <2>3, <2>4
<1>. QED
  BY <1>7, <1>8, <1>9, <1>10, <1>11 DEF ReturnStep

-----------------------------------------------------------------------------
LEMMA SearchNext == SInv /\ [Next]_vars => SInv'
<1>. SUFFICES ASSUME SInv, [Next]_vars PROVE SInv'
  OBVIOUS
<1>1. /\ LeafInv /\ BestIsFirst /\ Searching /\ Settled /\ GivenUp /\ Answered
      /\ IInv /\ TypeOK /\ CapturesHold /\ RInv
  BY DEF SInv, LeafInv, IInv, RInv
<1>2. LeafInv' /\ BestIsFirst'
  <2>1. LeafInv' /\ TypeOK'
    BY <1>1, LeafNextInv DEF LeafInv, IInv
  <2>. QED
    BY <1>1, <2>1, NextBest
<1>3. Searching' /\ Settled' /\ GivenUp' /\ Answered'
  <2>1. CASE RouteStep
    BY <1>1, <2>1, DispatchSearches, RawSearches, LeavesSearch DEF RouteStep
  <2>2. CASE CallStep
    BY <1>1, <2>2, LeafSearches
  <2>3. CASE RunHandler
    BY <1>1, <2>3, HandlerSettles
  <2>4. CASE ReturnStep
    BY <1>1, <2>4, ReturnSearches
  <2>5. CASE Done \/ UNCHANGED vars
    <3>1. UNCHANGED vars
      BY <2>5 DEF Done
    <3>. QED
      BY <1>1, <3>1 DEF vars, Searching, Searches, Open, Settled, EndsAs, GivenUp, Answered
  <2>. QED
    BY <2>1, <2>2, <2>3, <2>4, <2>5 DEF Next, Step, CallStep
<1>. QED
  BY <1>2, <1>3 DEF SInv

THEOREM SearchInvariance == Spec => []SInv
<1>1. Init => SInv
  BY LeafInitInv, InitBest, SearchStarts DEF SInv
<1>. QED
  BY <1>1, SearchNext, PTL DEF Spec
-----------------------------------------------------------------------------
LEMMA AnswerAsSpecified == SInv => AnswersAsSpecified
<1>. SUFFICES ASSUME SInv, pc = "done" PROVE AnswersAsSpecified
  BY DEF AnswersAsSpecified
<1>. DEFINE eps == api.endpoints
            found == Candidates(eps, req)
            takers == Takers(eps, req)
            taker == eps[First(takers)]
            worst == BestDecline(eps, req)
            fatal == FatalCode(LeafOf(taker), req, api.context)
<1>1. /\ TypeOK /\ OneHandlerAnswers /\ Settled /\ GivenUp
      /\ answer = IF ret.tag = "Route" THEN ret.val
                  ELSE Response(ret.val.code, ret.val.by, TRUE)
  BY DEF SInv, LeafInv, IInv, Answered
<1>2. AreEndpoints(eps) /\ takers \subseteq found
  <2>1. AreEndpoints(eps)
    BY <1>1, ServedHere DEF TypeOK
  <2>. QED
    BY <2>1 DEF Takers
<1>3. CASE ret.tag = "Fail"
  <2>1. best # None /\ ret.val = best /\ DeclinedWith(eps, req, Len(eps), best)
    BY <1>1, <1>3 DEF GivenUp, Fail
  <2>2. ran = <<>> /\ answer.code = best.code /\ answer.by = best.by
    BY <1>1, <1>3, <2>1 DEF OneHandlerAnswers, Response
  <2>3. /\ takers = {} /\ (found = {} => best.code = 404)
        /\ found # {} => best.code = worst.code /\ (best.code # 404 => best.by = worst.by)
    BY <1>2, <2>1, AllDeclined
  <2>. HIDE DEF eps, found, takers, taker, worst, fatal
  <2>4. CASE found = {}
    <3>1. answer.code = 404 /\ ran = <<>>
      BY <2>2, <2>3, <2>4
    <3>. QED
      BY <2>4, <3>1 DEF AnswersAsSpecified, found, eps
  <2>5. CASE found # {}
    <3>1. /\ answer.code = worst.code /\ ran = <<>>
          /\ worst.code # 404 => answer.by = worst.by
      BY <2>2, <2>3, <2>5
    <3>. QED
      BY <2>3, <2>5, <3>1 DEF AnswersAsSpecified, found, takers, worst, eps
  <2>. QED
    BY <2>4, <2>5
<1>4. CASE ret.tag # "Fail"
  <2>1. PICK i \in DOMAIN eps : /\ takers # {} /\ First(takers) = i
                                /\ CallsFor(eps, req, call, i) /\ EndsAs(i)
    BY <1>1, <1>4 DEF Settled
  <2>2. taker = eps[i] /\ call.leaf = LeafOf(taker) /\ found # {}
    BY <1>2, <2>1 DEF CallsFor
  <2>3. IF fatal = None
        THEN ret.tag = "Route" /\ ret.val.by = taker.id /\ ran # <<>>
        ELSE ret = FailFatal(Error(fatal, taker.id)) /\ ran = <<>>
    BY <2>1, <2>2 DEF EndsAs
  <2>. HIDE DEF eps, found, takers, taker, worst, fatal
  <2>4. /\ answer.by = taker.id
        /\ IF fatal = None THEN ran # <<>> /\ ret.tag = "Route"
           ELSE ran = <<>> /\ ret = FailFatal(Error(fatal, taker.id))
    <3>1. CASE fatal = None
      BY <1>1, <2>3, <3>1
    <3>2. CASE fatal # None
      <4>1. ret.tag # "Route" /\ ret.val.by = taker.id
        BY <2>3, <3>2 DEF FailFatal, Error
      <4>. QED
        BY <1>1, <2>3, <3>2, <4>1 DEF Response
    <3>. QED
      BY <3>1, <3>2
  <2>. QED
    BY <2>1, <2>2, <2>4 DEF AnswersAsSpecified, found, takers, taker, fatal, eps
<1>. QED
  BY <1>3, <1>4

LEMMA ArgumentsAsSpecified == SInv => HandlerGetsItsArguments
<1>. SUFFICES ASSUME SInv, ran # <<>>, ~IsRaw(ran[1].leaf) PROVE HandlerGetsItsArguments
  BY DEF HandlerGetsItsArguments
<1>. DEFINE eps == api.endpoints
            leaf == ran[1].leaf
            chain == leaf.chain
<1>1. /\ api \in Apis /\ pc \in {"return", "done"} /\ ret.tag # "Fail" /\ Settled
      /\ call.leaf = leaf /\ Len(ran[1].args) = Len(chain)
      /\ \A j \in DOMAIN chain :
           ran[1].args[j] = Argument(chain, call.caps, call.rest, req, api.context, j)
  BY DEF SInv, LeafInv, IInv, TypeOK, OneHandlerAnswers, ArgumentsOfTheCall, Chain
<1>2. PICK i \in DOMAIN eps : CallsFor(eps, req, call, i)
  BY <1>1 DEF Settled
<1>3. /\ leaf.id = eps[i].id
      /\ call.caps = CapturesOf(eps[i], req.path) /\ call.rest = RestOf(eps[i], req.path)
  BY <1>1, <1>2 DEF CallsFor, LeafOf
<1>4. EndpointOf(leaf) = eps[i]
  <2>1. \A j \in DOMAIN eps : eps[j].id = leaf.id => j = i
    BY <1>1, <1>3, EndpointsAreNamed
  <2>. HIDE DEF leaf
  <2>. QED
    BY <1>3, <2>1 DEF EndpointOf
<1>5. /\ Len(ran[1].args) = Len(chain)
      /\ \A j \in DOMAIN chain :
           ran[1].args[j] = Argument(chain, CapturesOf(EndpointOf(leaf), req.path),
                                     RestOf(EndpointOf(leaf), req.path), req, api.context, j)
  BY <1>1, <1>3, <1>4
<1>. QED
  BY <1>5 DEF HandlerGetsItsArguments

-----------------------------------------------------------------------------
\* Every request, to every router that into_router and choice make of an API
\* (serve.rs:158-186, router.rs:78-107), is answered as the API's endpoints in
\* the order they are written promise: nothing that choice merges, and nothing
\* dispatch does with its stack of results (router.rs:119-197), is visible.
THEOREM AnswersFollowTheApi == Spec => []AnswersAsSpecified
<1>. QED
  BY SearchInvariance, AnswerAsSpecified, PTL

\* Whatever the API, a handler gets the captures of its own endpoint's steps
\* (router.rs:128-145, captures.rs) and the user of its own check.
THEOREM HandlersGetTheirArguments == Spec => []HandlerGetsItsArguments
<1>. QED
  BY SearchInvariance, ArgumentsAsSpecified, PTL
=============================================================================
