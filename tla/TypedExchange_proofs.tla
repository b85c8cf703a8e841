------------------------ MODULE TypedExchange_proofs ------------------------
(***************************************************************************)
(* TypedExchange's safety for all endpoints, headers and content types     *)
(* that satisfy its assumptions.                                           *)
(*                                                                         *)
(* Four searches must agree: the server chooses a representation by a loop *)
(* over ranges in a loop over media types, and writes it with the codec it *)
(* finds by counting media types; the client finds a codec by matching the *)
(* type of the response. The key is ReadAsRendered: if an earlier marker   *)
(* matched the chosen type, then its type would have been wanted as much   *)
(* as the chosen one, and would have been chosen before it.                *)
(***************************************************************************)
EXTENDS TypedExchange, Lemmas

Keys == Nat \X Nat

\* The order of the keys is total, and NoKey its least.
LEMMA ExceedsOrders ==
  /\ NoKey \in Keys /\ \A a \in Keys : ~Exceeds(a, NoKey) => a = NoKey
  /\ \A a \in Keys : ~Exceeds(a, a)
  /\ \A a, b, c \in Keys :
       /\ ~Exceeds(a, b) /\ Exceeds(c, b) => ~Exceeds(a, c) /\ Exceeds(c, a)
       /\ ~Exceeds(a, b) /\ ~Exceeds(b, c) => ~Exceeds(a, c)
       /\ Exceeds(a, b) /\ Exceeds(b, c) => Exceeds(a, c)
BY DEF Keys, NoKey, Exceeds

(***************************************************************************)
(* The first of the greatest keys, whichever way the loop came to it.      *)
(***************************************************************************)
LEMMA ForemostIsFirstOfGreatest ==
  ASSUME NEW keys \in Seq(Keys)
  PROVE  LET k == Foremost(keys)
         IN  /\ k \in 0..Len(keys)
             /\ k = 0 => \A j \in 1..Len(keys) : keys[j] = NoKey
             /\ k # 0 => /\ Exceeds(keys[k], NoKey)
                         /\ \A j \in 1..Len(keys) : ~Exceeds(keys[j], keys[k])
                         /\ \A j \in 1..(k - 1) : Exceeds(keys[k], keys[j])
<1>. DEFINE N == Len(keys)
            Step(i, x) == IF i = 0 THEN 0
                          ELSE IF Exceeds(keys[i], KeyAt(keys, x)) THEN i ELSE x
            Is(f, m) == f = [i \in 0..m |-> Step(i, f[i - 1])]
<1>1. N \in Nat /\ \A i \in 1..N : keys[i] \in Keys
  OBVIOUS
<1>2. Foremost(keys) = (CHOOSE f : Is(f, N))[N]
  BY Zenon DEF Foremost
<1>3. /\ \A x : Step(0, x) = 0
      /\ \A x, i : i # 0 => Step(i, x) = IF Exceeds(keys[i], KeyAt(keys, x)) THEN i ELSE x
  OBVIOUS
<1>. HIDE DEF Step, N
<1>4. \A m \in 0..N : \E f : Is(f, m)
  <2>. DEFINE T == {m \in 0..N : ~ \E f : Is(f, m)}
  <2>. SUFFICES ASSUME T # {} PROVE FALSE
    OBVIOUS
  <2>1. PICK m \in T : \A j \in T : m <= j
    <3>. T \subseteq Nat
      OBVIOUS
    <3>. HIDE DEF T
    <3>. QED
      BY LeastNat
  <2>2. CASE m = 0
    <3>. DEFINE f == [i \in 0..0 |-> 0]
    <3>1. Is(f, 0)
      BY <1>3
    <3>. QED
      BY <2>1, <2>2, <3>1
  <2>3. CASE m # 0
    <3>m. m \in Nat /\ m - 1 \in 0..N /\ m - 1 \notin T
      <4>1. T \subseteq 0..N
        BY Zenon
      <4>. HIDE DEF T
      <4>. QED
        BY <1>1, <2>1, <2>3, <4>1
    <3>1. PICK g : Is(g, m - 1)
      BY <3>m
    <3>. DEFINE h == [i \in 0..m |-> IF i = m THEN Step(m, g[m - 1]) ELSE g[i]]
    <3>2. ASSUME NEW i \in 0..m PROVE h[i] = Step(i, h[i - 1])
      <4>1. CASE i = m
        BY <4>1, <2>3, <3>m
      <4>2. CASE i # m /\ i # 0
        BY <4>2, <2>3, <3>m, <3>1
      <4>3. CASE i = 0
        <5>1. h[i] = g[0] /\ g[0] = Step(0, g[0 - 1])
          BY <4>3, <3>m, <2>3, <3>1
        <5>. QED
          BY <4>3, <5>1, <1>3
      <4>. QED
        BY <4>1, <4>2, <4>3
    <3>3. Is(h, m)
      BY <3>2
    <3>. QED
      BY <2>1, <3>3
  <2>. QED
    BY <2>2, <2>3
<1>5. PICK f : Is(f, N) /\ Foremost(keys) = f[N]
  <2>. HIDE DEF Is
  <2>1. N \in 0..N
    BY <1>1
  <2>. QED
    BY <1>2, <1>4, <2>1, Zenon
<1>6. /\ f[0] = 0
      /\ \A i \in 1..N : f[i] = IF Exceeds(keys[i], KeyAt(keys, f[i - 1])) THEN i ELSE f[i - 1]
  <2>1. \A i \in 0..N : f[i] = Step(i, f[i - 1])
    BY <1>5
  <2>. HIDE DEF Is
  <2>2. 0 \in 0..N /\ \A i \in 1..N : i \in 0..N /\ i # 0
    BY <1>1
  <2>. QED
    BY <1>3, <2>1, <2>2, Zenon
<1>. HIDE DEF Is
\* The invariant of the loop.
<1>. DEFINE Good(i, k) ==
       /\ k \in 0..i
       /\ k = 0 => \A j \in 1..i : keys[j] = NoKey
       /\ k # 0 => /\ Exceeds(keys[k], NoKey)
                   /\ \A j \in 1..i : ~Exceeds(keys[j], keys[k])
                   /\ \A j \in 1..(k - 1) : Exceeds(keys[k], keys[j])
<1>7. ASSUME NEW i \in 1..N, NEW k, Good(i - 1, k), Exceeds(keys[i], KeyAt(keys, k))
      PROVE  Good(i, i)
  <2>1. CASE k = 0
    <3>1. Exceeds(keys[i], NoKey) /\ \A j \in 1..(i - 1) : keys[j] = NoKey
      BY <1>7, <2>1 DEF KeyAt
    <3>2. \A j \in 1..i : j = i \/ j \in 1..(i - 1)
      BY <1>1
    <3>3. \A j \in 1..i : ~Exceeds(keys[j], keys[i])
      BY <1>1, <3>1, <3>2, ExceedsOrders, ZenonT(60)
    <3>4. i \in 0..i /\ i # 0
      BY <1>1
    <3>. QED
      BY <3>1, <3>3, <3>4, ExceedsOrders, Zenon
  <2>2. CASE k # 0
    <3>0. k \in 0..(i - 1)
      BY <1>7, Zenon
    <3>1. k \in 1..(i - 1) /\ k \in 1..N
      BY <1>1, <2>2, <3>0
    <3>2. /\ Exceeds(keys[i], keys[k]) /\ Exceeds(keys[k], NoKey)
          /\ \A j \in 1..(i - 1) : ~Exceeds(keys[j], keys[k])
      BY <1>7, <2>2, Zenon DEF KeyAt
    <3>3. \A j \in 1..i : j \in 1..N /\ (j = i \/ j \in 1..(i - 1))
      BY <1>1
    <3>4. \A j \in 1..i : ~Exceeds(keys[j], keys[i])
      BY <1>1, <3>1, <3>2, <3>3, ExceedsOrders, Zenon
    <3>5. \A j \in 1..(i - 1) : Exceeds(keys[i], keys[j])
      <4>1. \A j \in 1..(i - 1) : j \in 1..N
        BY <1>1
      <4>. QED
        BY <1>1, <3>1, <3>2, <4>1, ExceedsOrders, Zenon
    <3>6. Exceeds(keys[i], NoKey)
      BY <1>1, <3>1, <3>2, ExceedsOrders, Zenon
    <3>7. i \in 0..i /\ i # 0
      BY <1>1
    <3>. QED
      BY <3>4, <3>5, <3>6, <3>7, Zenon
  <2>. QED
    BY <2>1, <2>2
<1>8. ASSUME NEW i \in 1..N, NEW k, Good(i - 1, k), ~Exceeds(keys[i], KeyAt(keys, k))
      PROVE  Good(i, k)
  <2>0. /\ k \in 0..i /\ k \in 0..(i - 1)
        /\ \A j \in 1..i : j \in 1..N /\ (j = i \/ j \in 1..(i - 1))
    <3>1. k \in 0..(i - 1)
      BY <1>8, Zenon
    <3>. QED
      BY <1>1, <3>1
  <2>1. CASE k = 0
    <3>1. ~Exceeds(keys[i], NoKey) /\ \A j \in 1..(i - 1) : keys[j] = NoKey
      BY <1>8, <2>1 DEF KeyAt
    <3>2. \A j \in 1..i : keys[j] = NoKey
      BY <1>1, <2>0, <3>1, ExceedsOrders, Zenon
    <3>. QED
      BY <2>0, <2>1, <3>2, Zenon
  <2>2. CASE k # 0
    <3>1. ~Exceeds(keys[i], keys[k])
      BY <1>8, <2>2, Zenon DEF KeyAt
    <3>2. /\ Exceeds(keys[k], NoKey)
          /\ \A j \in 1..(i - 1) : ~Exceeds(keys[j], keys[k])
          /\ \A j \in 1..(k - 1) : Exceeds(keys[k], keys[j])
      BY <1>8, <2>2, Zenon
    <3>3. \A j \in 1..i : ~Exceeds(keys[j], keys[k])
      BY <2>0, <3>1, <3>2, Zenon
    <3>. QED
      BY <2>0, <2>2, <3>2, <3>3, Zenon
  <2>. QED
    BY <2>1, <2>2
<1>. HIDE DEF Good
<1>9. \A i \in 0..N : Good(i, f[i])
  <2>. DEFINE T == {i \in 0..N : ~Good(i, f[i])}
  <2>. SUFFICES ASSUME T # {} PROVE FALSE
    OBVIOUS
  <2>1. PICK i \in T : \A j \in T : i <= j
    <3>. T \subseteq Nat
      OBVIOUS
    <3>. HIDE DEF T
    <3>. QED
      BY LeastNat
  <2>2. Good(0, f[0])
    BY <1>6 DEF Good
  <2>3. i \in 1..N /\ i - 1 \in 0..N
    BY <1>1, <2>1, <2>2
  <2>4. i - 1 \notin T
    <3>. HIDE DEF T
    <3>. QED
      BY <2>1, <2>3
  <2>5. Good(i - 1, f[i - 1])
    BY <2>3, <2>4
  <2>6. Good(i, f[i])
    BY <1>6, <1>7, <1>8, <2>3, <2>5
  <2>. QED
    BY <2>1, <2>6
<1>10. Good(N, f[N])
  BY <1>1, <1>9
<1>. QED
  BY <1>5, <1>10 DEF Good, N

-----------------------------------------------------------------------------
(* What a header says of a media type *)

Headers == {None} \cup Seq({None} \cup MediaRanges)
GoodRanges == [type : Tokens, subtype : Tokens \X Tokens, qs : Seq(Nat)]

\* What parse_accept keeps: the parts that are ranges without a malformed q.
LEMMA ParsedRangesAreGood ==
  ASSUME NEW parts \in Seq({None} \cup MediaRanges)
  PROVE  /\ ParseAccept(parts) \in Seq(GoodRanges)
         /\ \A r \in GoodRanges :
              r \in ToSet(ParseAccept(parts)) <=>
                \E i \in DOMAIN parts :
                  parts[i] = r /\ r # None /\ Malformed \notin ToSet(r.qs)
<1>. DEFINE kept == [i \in DOMAIN parts |->
                       IF parts[i] = None \/ Malformed \in ToSet(parts[i].qs)
                         THEN <<>> ELSE <<parts[i]>>]
<1>1. ASSUME NEW p \in MediaRanges, Malformed \notin ToSet(p.qs) PROVE p \in GoodRanges
  <2>1. p.qs \in Seq(Nat \cup {Malformed})
    BY DEF MediaRanges
  <2>2. \A i \in DOMAIN p.qs : p.qs[i] # Malformed
    BY <1>1 DEF ToSet
  <2>3. p.qs \in Seq(Nat)
    <3>. DEFINE qs == p.qs
    <3>1. Len(qs) \in Nat /\ DOMAIN qs = 1..Len(qs) /\ qs = [i \in 1..Len(qs) |-> qs[i]]
      BY <2>1
    <3>2. \A i \in 1..Len(qs) : qs[i] \in Nat
      BY <2>1, <2>2
    <3>. QED
      BY <3>1, <3>2
  <2>. QED
    BY <2>3 DEF MediaRanges, GoodRanges
<1>2. kept \in Seq(Seq(GoodRanges))
  <2>1. \A i \in 1..Len(parts) : kept[i] \in Seq(GoodRanges)
    <3>. SUFFICES ASSUME NEW i \in 1..Len(parts) PROVE kept[i] \in Seq(GoodRanges)
      OBVIOUS
    <3>1. parts[i] \in {None} \cup MediaRanges
      OBVIOUS
    <3>2. CASE parts[i] = None \/ Malformed \in ToSet(parts[i].qs)
      BY <3>2
    <3>3. CASE ~(parts[i] = None \/ Malformed \in ToSet(parts[i].qs))
      <4>1. parts[i] \in GoodRanges
        BY <1>1, <3>1, <3>3
      <4>. QED
        BY <3>3, <4>1
    <3>. QED
      BY <3>2, <3>3
  <2>2. Len(parts) \in Nat /\ kept = [i \in 1..Len(parts) |-> kept[i]]
    OBVIOUS
  <2>. HIDE DEF kept
  <2>. QED
    BY <2>1, <2>2
<1>3. \A i \in DOMAIN parts :
        kept[i] = IF parts[i] = None \/ Malformed \in ToSet(parts[i].qs)
                    THEN <<>> ELSE <<parts[i]>>
  OBVIOUS
<1>4. DOMAIN parts = 1..Len(kept)
  OBVIOUS
<1>5. ParseAccept(parts) = FlattenSeq(kept)
  BY Zenon DEF ParseAccept
<1>. HIDE DEF kept
<1>6. FlattenSeq(kept) \in Seq(GoodRanges)
  BY <1>2, FlattenPlaces
<1>7. ASSUME NEW r \in ToSet(FlattenSeq(kept))
      PROVE  \E i \in DOMAIN parts :
               parts[i] = r /\ r # None /\ Malformed \notin ToSet(r.qs)
  <2>1. PICK i \in 1..Len(kept) : \E n \in 1..Len(kept[i]) : r = kept[i][n]
    <3>1. PICK idx \in 1..Len(FlattenSeq(kept)) : r = FlattenSeq(kept)[idx]
      BY <1>6 DEF ToSet
    <3>. QED
      BY <1>2, <3>1, FlattenSource
  <2>2. kept[i] = <<parts[i]>> /\ parts[i] # None /\ Malformed \notin ToSet(parts[i].qs)
    <3>1. kept[i] # <<>>
      BY <2>1
    <3>. QED
      BY <1>3, <1>4, <3>1
  <2>3. r = parts[i]
    BY <2>1, <2>2
  <2>. QED
    BY <1>4, <2>2, <2>3
<1>8. ASSUME NEW i \in DOMAIN parts, parts[i] # None, Malformed \notin ToSet(parts[i].qs)
      PROVE  parts[i] \in ToSet(FlattenSeq(kept))
  <2>0. kept[i] = <<parts[i]>>
    BY <1>3, <1>8, Zenon
  <2>1. 1 \in 1..Len(kept[i]) /\ kept[i][1] = parts[i]
    BY <2>0
  <2>2. PICK idx \in 1..Len(FlattenSeq(kept)) : FlattenSeq(kept)[idx] = kept[i][1]
    BY <1>2, <1>4, <2>1, FlattenTarget
  <2>. QED
    BY <1>6, <2>1, <2>2 DEF ToSet
<1>. QED
  BY <1>5, <1>6, <1>7, <1>8

\* The ranges the loop over a media type sees, whatever the header.
LEMMA RangesAreGood ==
  ASSUME NEW accept \in Headers
  PROVE  Ranges(accept) \in Seq(GoodRanges)
<1>1. StarRange \in GoodRanges
  <2>1. "*" \in Tokens /\ "" \in Tokens
    BY TokensOfRanges
  <2>2. \A t, s, u \in Tokens :
          [type |-> t, subtype |-> <<s, u>>, qs |-> <<>>] \in GoodRanges
    BY DEF GoodRanges
  <2>. QED
    BY <2>1, <2>2, Zenon DEF StarRange, AnySubtype
<1>2. <<StarRange>> \in Seq(GoodRanges)
  BY <1>1
<1>. QED
  BY <1>2, ParsedRangesAreGood DEF Ranges, Headers

\* range_specificity is an u8 up to 3; 0 stands for its None.
LEMMA SpecificityIsSmall ==
  ASSUME NEW r, NEW media
  PROVE  Specificity(r, media) \in 0..3
BY DEF Specificity

\* The quality of a range that was kept.
LEMMA QualityIsNumber ==
  ASSUME NEW r \in GoodRanges
  PROVE  Quality(r) \in Nat
<1>1. r.qs \in Seq(Nat)
  BY DEF GoodRanges
<1>. QED
  BY <1>1 DEF Quality, Last

(***************************************************************************)
(* The loop over the ranges finds what Wanted says without one.            *)
(***************************************************************************)
LEMMA RangeForIsWanted ==
  ASSUME NEW accept \in Headers, NEW media
  PROVE  /\ Wanted(accept, media) \in Keys
         /\ RangeFor(Ranges(accept), media)
              = <<Wanted(accept, media)[2], Wanted(accept, media)[1]>>
         /\ Wanted(accept, media)[1] \in Nat
         /\ Wanted(accept, media)[1] > 0 => Wanted(accept, media)[2] > 0
<1>. DEFINE R == Ranges(accept)
            N == Len(R)
            spec(r) == Specificity(r, media)
            keys == [i \in DOMAIN R |-> IF spec(R[i]) = 0 THEN NoKey
                                        ELSE <<spec(R[i]), Quality(R[i])>>]
            matching == {r \in ToSet(R) : spec(r) # 0}
            closest == {r \in matching : \A s \in matching : spec(s) <= spec(r)}
            best == CHOOSE r \in closest : \A s \in closest : Quality(s) <= Quality(r)
<1>1. /\ N \in Nat /\ DOMAIN R = 1..N
      /\ \A i \in 1..N : R[i] \in GoodRanges
      /\ \A i \in 1..N : spec(R[i]) \in Nat /\ Quality(R[i]) \in Nat
  <2>1. R \in Seq(GoodRanges)
    BY RangesAreGood
  <2>. HIDE DEF R
  <2>2. N \in Nat /\ DOMAIN R = 1..N /\ \A i \in 1..N : R[i] \in GoodRanges
    BY <2>1
  <2>3. \A i \in 1..N : spec(R[i]) \in Nat
    <3>1. \A i \in 1..N : spec(R[i]) \in 0..3
      BY SpecificityIsSmall
    <3>. HIDE DEF spec
    <3>. QED
      BY <3>1
  <2>. QED
    BY <2>2, <2>3, QualityIsNumber
<1>2. Wanted(accept, media) = IF matching = {} THEN <<0, 0>> ELSE <<Quality(best), spec(best)>>
  BY Zenon DEF Wanted
<1>3. RangeFor(R, media) = KeyAt(keys, Foremost(keys))
  BY Zenon DEF RangeFor
<1>4. ToSet(R) = {R[i] : i \in 1..N}
  BY <1>1, Zenon DEF ToSet
<1>. HIDE DEF R, N, spec
<1>5. /\ keys \in Seq(Keys) /\ Len(keys) = N
      /\ \A i \in 1..N : keys[i] = IF spec(R[i]) = 0 THEN <<0, 0>> ELSE <<spec(R[i]), Quality(R[i])>>
  BY <1>1 DEF Keys, NoKey
<1>. HIDE DEF keys
<1>. DEFINE k == Foremost(keys)
<1>6. /\ k \in 0..N
      /\ k = 0 => \A j \in 1..N : keys[j] = NoKey
      /\ k # 0 => /\ Exceeds(keys[k], NoKey)
                  /\ \A j \in 1..N : ~Exceeds(keys[j], keys[k])
  BY <1>5, ForemostIsFirstOfGreatest
<1>. HIDE DEF k
<1>7. CASE k = 0
  <2>1. \A i \in 1..N : spec(R[i]) = 0
    BY <1>1, <1>5, <1>6, <1>7 DEF NoKey
  <2>2. matching = {}
    BY <1>4, <2>1, Zenon
  <2>3. Wanted(accept, media) = <<0, 0>> /\ RangeFor(R, media) = <<0, 0>>
    BY <1>2, <1>3, <1>7, <2>2 DEF KeyAt, NoKey, k
  <2>. QED
    BY <2>3 DEF R, Keys
<1>8. CASE k # 0
  <2>1. k \in 1..N /\ spec(R[k]) # 0 /\ keys[k] = <<spec(R[k]), Quality(R[k])>>
    <3>1. k \in 1..N
      BY <1>1, <1>6, <1>8
    <3>2. keys[k] # <<0, 0>>
      BY <1>6, <1>8 DEF Exceeds, NoKey
    <3>. QED
      BY <1>5, <3>1, <3>2
  <2>2. ASSUME NEW i \in 1..N, spec(R[i]) # 0
        PROVE  \/ spec(R[i]) < spec(R[k])
               \/ spec(R[i]) = spec(R[k]) /\ Quality(R[i]) <= Quality(R[k])
    <3>1. keys[i] = <<spec(R[i]), Quality(R[i])>> /\ ~Exceeds(keys[i], keys[k])
      BY <1>5, <1>6, <1>8, <2>2
    <3>. QED
      BY <1>1, <2>1, <3>1 DEF Exceeds
  <2>3. R[k] \in closest
    <3>1. R[k] \in matching
      BY <1>4, <2>1, Zenon
    <3>2. \A i \in 1..N : spec(R[i]) # 0 => spec(R[i]) <= spec(R[k])
      BY <1>1, <2>1, <2>2, SMTT(40)
    <3>3. \A s \in matching : spec(s) <= spec(R[k])
      BY <1>4, <3>2, Zenon
    <3>. QED
      BY <3>1, <3>3, Zenon
  <2>4. \A s \in closest : Quality(s) <= Quality(R[k])
    <3>1. \A s \in closest : \E i \in 1..N : s = R[i] /\ spec(s) # 0 /\ spec(R[k]) <= spec(s)
      BY <1>4, <2>3, Zenon
    <3>2. \A i \in 1..N : spec(R[i]) # 0 /\ spec(R[k]) <= spec(R[i])
                            => Quality(R[i]) <= Quality(R[k])
      BY <1>1, <2>1, <2>2
    <3>. QED
      BY <3>1, <3>2, Zenon
  <2>5. best \in closest /\ \A s \in closest : Quality(s) <= Quality(best)
    BY <2>3, <2>4, Zenon
  <2>. HIDE DEF best
  <2>6. PICK i \in 1..N : best = R[i]
    BY <1>4, <2>5, Zenon
  <2>7. spec(best) = spec(R[k])
    <3>1. spec(best) <= spec(R[k]) /\ spec(R[k]) <= spec(best)
      BY <2>3, <2>5, Zenon
    <3>2. spec(best) \in Nat /\ spec(R[k]) \in Nat
      BY <1>1, <2>1, <2>6
    <3>. QED
      BY <3>1, <3>2
  <2>8. Quality(best) = Quality(R[k])
    <3>1. Quality(best) <= Quality(R[k]) /\ Quality(R[k]) <= Quality(best)
      BY <2>3, <2>4, <2>5, Zenon
    <3>2. Quality(best) \in Nat /\ Quality(R[k]) \in Nat
      BY <1>1, <2>1, <2>6
    <3>. QED
      BY <3>1, <3>2
  <2>9. matching # {}
    BY <2>3, Zenon
  <2>10. Wanted(accept, media) = <<Quality(R[k]), spec(R[k])>>
    BY <1>2, <2>7, <2>8, <2>9, Zenon
  <2>11. RangeFor(R, media) = <<spec(R[k]), Quality(R[k])>>
    BY <1>3, <1>8, <2>1 DEF KeyAt, k
  <2>. QED
    BY <1>1, <2>1, <2>10, <2>11 DEF R, Keys
<1>. QED
  BY <1>7, <1>8

-----------------------------------------------------------------------------
(* What is negotiated *)

(***************************************************************************)
(* The loop over the media types ends at the first of the Preferred.       *)
(***************************************************************************)
LEMMA NegotiatesFirstPreferred ==
  ASSUME NEW accept \in Headers, NEW media, NEW D, media \in Seq(D)
  PROVE  LET idx == NegotiateMediaIndex(accept, media)
             first == Min(Preferred(accept, media))
         IN  /\ idx = None <=> Admissible(accept, media) = {}
             /\ idx # None => /\ idx = first
                              /\ first \in Preferred(accept, media)
                              /\ \A j \in Preferred(accept, media) : first <= j
<1>. DEFINE N == Len(media)
            offer(i) == RangeFor(Ranges(accept), media[i])
            keys == [i \in DOMAIN media |->
                       IF offer(i)[2] = 0 THEN NoKey ELSE <<offer(i)[2], offer(i)[1]>>]
            wanted(i) == Wanted(accept, media[i])
            A == Admissible(accept, media)
            P == Preferred(accept, media)
            k == Foremost(keys)
<1>1. N \in Nat /\ DOMAIN media = 1..N
  OBVIOUS
<1>2. \A i \in 1..N : /\ wanted(i) \in Keys /\ wanted(i)[1] \in Nat
                      /\ offer(i) = <<wanted(i)[2], wanted(i)[1]>>
  BY RangeForIsWanted
<1>3. A = {i \in 1..N : wanted(i)[1] > 0}
  BY <1>1, Zenon DEF Admissible
<1>4. P = {i \in A : \A j \in A : ~Exceeds(wanted(j), wanted(i))}
  BY Zenon DEF Preferred
<1>5. NegotiateMediaIndex(accept, media) = IF k = 0 THEN None ELSE k
  BY Zenon DEF NegotiateMediaIndex
<1>. HIDE DEF N, wanted, A, P, offer
<1>6. /\ keys \in Seq(Keys) /\ Len(keys) = N
      /\ \A i \in 1..N : keys[i] = IF i \in A THEN wanted(i) ELSE NoKey
  <2>1. \A i \in 1..N : keys[i] = IF i \in A THEN wanted(i) ELSE NoKey
    <3>. SUFFICES ASSUME NEW i \in 1..N PROVE keys[i] = IF i \in A THEN wanted(i) ELSE NoKey
      OBVIOUS
    <3>1. offer(i)[2] = wanted(i)[1] /\ <<offer(i)[2], offer(i)[1]>> = wanted(i)
      BY <1>2 DEF Keys
    <3>2. keys[i] = IF offer(i)[2] = 0 THEN NoKey ELSE <<offer(i)[2], offer(i)[1]>>
      BY <1>1, Zenon
    <3>3. i \in A <=> offer(i)[2] # 0
      BY <1>2, <1>3, <3>1
    <3>. QED
      BY <3>1, <3>2, <3>3
  <2>2. DOMAIN keys = 1..N /\ keys = [i \in 1..N |-> keys[i]]
    BY <1>1
  <2>. HIDE DEF keys
  <2>3. \A i \in 1..N : keys[i] \in Keys
    <3>1. NoKey \in Keys
      BY DEF NoKey, Keys
    <3>2. \A i \in 1..N : wanted(i) \in Keys
      BY <1>2, Zenon
    <3>. QED
      BY <2>1, <3>1, <3>2, Zenon
  <2>. QED
    BY <1>1, <2>1, <2>2, <2>3
<1>. HIDE DEF keys
<1>7. /\ k \in 0..N
      /\ k = 0 => \A j \in 1..N : keys[j] = NoKey
      /\ k # 0 => /\ Exceeds(keys[k], NoKey)
                  /\ \A j \in 1..N : ~Exceeds(keys[j], keys[k])
                  /\ \A j \in 1..(k - 1) : Exceeds(keys[k], keys[j])
  BY <1>6, ForemostIsFirstOfGreatest
<1>. HIDE DEF k
<1>8. \A i \in A : i \in 1..N /\ keys[i] = wanted(i) /\ wanted(i) # NoKey /\ wanted(i) \in Keys
  <2>1. \A i \in A : i \in 1..N /\ wanted(i)[1] # 0
    BY <1>2, <1>3
  <2>2. NoKey[1] = 0
    BY DEF NoKey
  <2>. QED
    BY <1>2, <1>6, <2>1, <2>2, Zenon
<1>9. CASE k = 0
  <2>1. A = {}
    BY <1>7, <1>8, <1>9, Zenon
  <2>. QED
    BY <1>5, <1>9, <2>1 DEF A
<1>10. CASE k # 0
  <2>1. k \in 1..N /\ k \in Nat
    BY <1>1, <1>7, <1>10
  <2>2. k \in A /\ keys[k] = wanted(k)
    <3>1. keys[k] # NoKey
      BY <1>7, <1>10, ExceedsOrders, Zenon
    <3>. QED
      BY <1>6, <1>8, <2>1, <3>1, Zenon
  <2>3. k \in P
    <3>1. \A j \in A : ~Exceeds(wanted(j), wanted(k))
      BY <1>7, <1>8, <1>10, <2>2, Zenon
    <3>. QED
      BY <1>4, <2>2, <3>1, Zenon
  <2>4. ASSUME NEW j \in P PROVE k <= j
    <3>1. j \in A /\ ~Exceeds(wanted(k), wanted(j)) /\ j \in 1..N
      BY <1>4, <1>8, <2>2, <2>4, Zenon
    <3>2. j \notin 1..(k - 1)
      BY <1>7, <1>8, <1>10, <2>2, <3>1, Zenon
    <3>. QED
      BY <1>1, <2>1, <3>1, <3>2
  <2>5. Min(P) = k
    <3>1. P \subseteq Nat
      BY <1>1, <1>3, <1>4
    <3>2. Min(P) \in P /\ \A j \in P : Min(P) <= j
      BY <2>3, <3>1, MinIsLeast
    <3>3. Min(P) <= k /\ k <= Min(P) /\ Min(P) \in Nat
      BY <2>3, <2>4, <3>1, <3>2
    <3>. QED
      BY <2>1, <3>3
  <2>6. k # None
    BY <2>1, NoneIsNoValue
  <2>. QED
    BY <1>5, <1>10, <2>2, <2>3, <2>4, <2>5, <2>6 DEF A, P
<1>. QED
  BY <1>9, <1>10

-----------------------------------------------------------------------------
(* Who writes and who reads a media type *)

Parts(list) == [k \in DOMAIN list |-> list[k].media]
Owns(list, k, idx) == Before(Parts(list), k - 1) < idx /\ idx <= Before(Parts(list), k)

\* The media types of a list are those of its markers, one after another.
LEMMA PartsAreSequences ==
  ASSUME NEW list \in Seq(MarkerTypes)
  PROVE  /\ Parts(list) \in Seq(Seq(Mimes)) /\ Len(Parts(list)) = Len(list)
         /\ Len(list) \in Nat /\ DOMAIN list = 1..Len(list)
         /\ \A k \in 1..Len(list) :
              /\ Parts(list)[k] = list[k].media
              /\ list[k] \in MarkerTypes /\ list[k].codec \in Tokens
              /\ list[k].media \in Seq(Mimes) /\ list[k].media # <<>>
         /\ AllMediaTypes(list) = FlattenSeq(Parts(list))
         /\ AllMediaTypes(list) \in Seq(Mimes)
<1>1. /\ Len(list) \in Nat /\ DOMAIN list = 1..Len(list)
      /\ \A k \in 1..Len(list) : list[k] \in MarkerTypes
  OBVIOUS
<1>2. \A c \in MarkerTypes : c.codec \in Tokens /\ c.media \in Seq(Mimes) /\ c.media # <<>>
  BY DEF MarkerTypes
<1>3. Parts(list) \in Seq(Seq(Mimes)) /\ Len(Parts(list)) = Len(list)
  BY <1>1, <1>2 DEF Parts
<1>4. \A k \in 1..Len(list) : Parts(list)[k] = list[k].media
  BY <1>1 DEF Parts
<1>5. AllMediaTypes(list) = FlattenSeq(Parts(list))
  BY Zenon DEF AllMediaTypes, Parts
<1>6. FlattenSeq(Parts(list)) \in Seq(Mimes)
  BY <1>3, FlattenPlaces
<1>. QED
  BY <1>1, <1>2, <1>3, <1>4, <1>5, <1>6

\* render_index finds the marker that owns the idx-th media type.
LEMMA OwnerOfIndex ==
  ASSUME NEW list \in Seq(MarkerTypes), NEW idx \in 1..Len(AllMediaTypes(list))
  PROVE  \E k \in 1..Len(list) :
           /\ Owns(list, k, idx)
           /\ RenderIndex(list, idx) = list[k].codec
           /\ \E n \in 1..Len(list[k].media) : AllMediaTypes(list)[idx] = list[k].media[n]
<1>. DEFINE s == Parts(list)
            B(k) == Len(AllMediaTypes(SubSeq(list, 1, k)))
<1>1. /\ s \in Seq(Seq(Mimes)) /\ Len(s) = Len(list)
      /\ Len(list) \in Nat /\ DOMAIN list = 1..Len(list)
      /\ \A k \in 1..Len(list) : s[k] = list[k].media /\ Len(s[k]) \in Nat
      /\ AllMediaTypes(list) = FlattenSeq(s)
  <2>1. \A k \in 1..Len(list) : Len(list[k].media) \in Nat
    BY PartsAreSequences
  <2>. QED
    BY <2>1, PartsAreSequences
<1>2. \A k \in 0..Len(list) : B(k) = Before(s, k)
  <2>. SUFFICES ASSUME NEW k \in 0..Len(list) PROVE B(k) = Before(s, k)
    OBVIOUS
  <2>. DEFINE p == SubSeq(list, 1, k)
  <2>1. DOMAIN p = 1..k /\ \A i \in 1..k : p[i] = list[i] /\ i \in 1..Len(list)
    BY <1>1
  <2>2. SubSeq(s, 1, k) = [i \in 1..k |-> s[i]]
    BY <1>1
  <2>. HIDE DEF p, s
  <2>3. SubSeq(s, 1, k) = [i \in DOMAIN p |-> p[i].media]
    BY <1>1, <2>1, <2>2
  <2>4. AllMediaTypes(p) = FlattenSeq(SubSeq(s, 1, k))
    BY <2>3, Zenon DEF AllMediaTypes
  <2>. QED
    BY <2>4, Zenon DEF Before, p
<1>3. RenderIndex(list, idx)
        = list[CHOOSE k \in DOMAIN list : B(k - 1) < idx /\ idx <= B(k)].codec
  BY Zenon DEF RenderIndex
<1>. HIDE DEF B, s
<1>4. /\ \E k \in 1..Len(list) : Before(s, k - 1) < idx /\ idx <= Before(s, k)
      /\ \A j, k \in 1..Len(list) :
           /\ Before(s, j - 1) < idx /\ idx <= Before(s, j)
           /\ Before(s, k - 1) < idx /\ idx <= Before(s, k)
           => j = k
  BY <1>1, FlattenOwner
<1>5. \A k \in 1..Len(list) : k \in 0..Len(list) /\ k - 1 \in 0..Len(list)
  BY <1>1
<1>6. PICK k \in 1..Len(s) : \E n \in 1..Len(s[k]) :
        /\ Before(s, k - 1) < idx /\ idx <= Before(s, k)
        /\ FlattenSeq(s)[idx] = s[k][n]
  <2>1. idx \in 1..Len(FlattenSeq(s))
    BY <1>1
  <2>. QED
    BY <1>1, <2>1, FlattenSource
<1>7. RenderIndex(list, idx) = list[k].codec
  <2>1. \A j \in DOMAIN list :
          B(j - 1) < idx /\ idx <= B(j) <=> Before(s, j - 1) < idx /\ idx <= Before(s, j)
    BY <1>1, <1>2, <1>5, Zenon
  <2>2. (CHOOSE j \in DOMAIN list : B(j - 1) < idx /\ idx <= B(j)) = k
    BY <1>1, <1>4, <1>6, <2>1, Zenon
  <2>. QED
    BY <1>3, <2>2, Zenon
<1>. QED
  BY <1>1, <1>6, <1>7 DEF Owns, s

\* Every media type of a marker has an index the marker owns.
LEMMA IndexOfMember ==
  ASSUME NEW list \in Seq(MarkerTypes), NEW k \in 1..Len(list),
         NEW n \in 1..Len(list[k].media)
  PROVE  \E idx \in 1..Len(AllMediaTypes(list)) :
           Owns(list, k, idx) /\ AllMediaTypes(list)[idx] = list[k].media[n]
<1>. DEFINE s == Parts(list)
<1>1. /\ s \in Seq(Seq(Mimes)) /\ Len(s) = Len(list) /\ s[k] = list[k].media
      /\ AllMediaTypes(list) = FlattenSeq(s)
  BY PartsAreSequences
<1>. HIDE DEF s
<1>. QED
  BY <1>1, FlattenTarget, SMTT(40) DEF Owns, s

MatchesMarker(c, content) == \E m \in ToSet(c.media) : MediaMatches(m, content)

\* unrender takes the first marker with a type that matches.
LEMMA UnrenderIsFirstMatch ==
  ASSUME NEW list \in Seq(MarkerTypes), NEW content
  PROVE  \/ /\ Unrender(list, content) = None
            /\ \A j \in 1..Len(list) : ~MatchesMarker(list[j], content)
         \/ \E k \in 1..Len(list) :
              /\ Unrender(list, content) = list[k].codec
              /\ list[k].codec # None
              /\ MatchesMarker(list[k], content)
              /\ \A j \in 1..Len(list) : MatchesMarker(list[j], content) => k <= j
<1>. DEFINE I == {i \in 1..Len(list) : MatchesMarker(list[i], content)}
            at == IF I # {} THEN Min(I) ELSE 0
<1>1. Unrender(list, content) = IF at = 0 THEN None ELSE list[at].codec
  BY Zenon DEF Unrender, SelectInSeq, MatchesMarker
<1>2. Len(list) \in Nat /\ \A k \in 1..Len(list) : list[k].codec # None
  BY PartsAreSequences, NoneIsNoValue
<1>3. I \subseteq 1..Len(list)
  OBVIOUS
<1>4. /\ at = 0 <=> I = {}
      /\ at # 0 => at \in I /\ \A j \in I : at <= j
  <2>. HIDE DEF I
  <2>. QED
    BY <1>2, <1>3, MinOrZero
<1>. HIDE DEF at
<1>5. CASE at = 0
  BY <1>1, <1>4, <1>5
<1>6. CASE at # 0
  BY <1>1, <1>2, <1>4, <1>6
<1>. QED
  BY <1>5, <1>6

\* A type is in the list exactly if it is one of a marker's.
LEMMA MediaHasOwner ==
  ASSUME NEW list \in Seq(MarkerTypes), NEW m
  PROVE  m \in ToSet(AllMediaTypes(list))
           <=> \E k \in 1..Len(list) : m \in ToSet(list[k].media)
<1>1. DOMAIN AllMediaTypes(list) = 1..Len(AllMediaTypes(list))
  BY PartsAreSequences
<1>2. \A k \in 1..Len(list) : DOMAIN list[k].media = 1..Len(list[k].media)
  BY PartsAreSequences
<1>3. ASSUME m \in ToSet(AllMediaTypes(list))
      PROVE  \E k \in 1..Len(list) : m \in ToSet(list[k].media)
  <2>1. PICK idx \in 1..Len(AllMediaTypes(list)) : AllMediaTypes(list)[idx] = m
    BY <1>1, <1>3 DEF ToSet
  <2>2. PICK k \in 1..Len(list) : \E n \in 1..Len(list[k].media) :
          AllMediaTypes(list)[idx] = list[k].media[n]
    BY OwnerOfIndex
  <2>. QED
    BY <1>2, <2>1, <2>2 DEF ToSet
<1>4. ASSUME NEW k \in 1..Len(list), m \in ToSet(list[k].media)
      PROVE  m \in ToSet(AllMediaTypes(list))
  <2>1. PICK n \in 1..Len(list[k].media) : list[k].media[n] = m
    BY <1>2, <1>4 DEF ToSet
  <2>2. PICK idx \in 1..Len(AllMediaTypes(list)) : AllMediaTypes(list)[idx] = list[k].media[n]
    BY IndexOfMember
  <2>. QED
    BY <1>1, <2>1, <2>2 DEF ToSet
<1>. QED
  BY <1>3, <1>4

\* What a header says of a media type, it says of all that match it.
LEMMA MatchingIsWantedAlike ==
  ASSUME NEW accept, NEW m, NEW n, MediaMatches(m, n)
  PROVE  Wanted(accept, m) = Wanted(accept, n)
<1>1. \A r : Specificity(r, m) = Specificity(r, n)
  BY DEF MediaMatches, Specificity
<1>. DEFINE matching(x) == {r \in ToSet(Ranges(accept)) : Specificity(r, x) # 0}
            closest(x) == {r \in matching(x) :
                             \A s \in matching(x) : Specificity(s, x) <= Specificity(r, x)}
            Best(C) == CHOOSE r \in C : \A s \in C : Quality(s) <= Quality(r)
<1>2. \A x : Wanted(accept, x) = IF matching(x) = {} THEN <<0, 0>>
                               ELSE <<Quality(Best(closest(x))), Specificity(Best(closest(x)), x)>>
  BY Zenon DEF Wanted
<1>3. matching(m) = matching(n)
  BY <1>1, Zenon
<1>4. closest(m) = closest(n)
  <2>. HIDE DEF matching
  <2>. QED
    BY <1>1, <1>3
<1>. HIDE DEF matching, closest, Best
<1>. QED
  BY <1>1, <1>2, <1>3, <1>4, Zenon

(***************************************************************************)
(* The codec that is found by media type is the one that was found by      *)
(* position: had an earlier marker a matching type, the client would have  *)
(* wanted that as much, and its earlier position would have been chosen.   *)
(***************************************************************************)
LEMMA ReadAsRendered ==
  ASSUME NEW accept \in Headers, NEW list \in Seq(MarkerTypes), NEW idx,
         idx = NegotiateMediaIndex(accept, AllMediaTypes(list)), idx # None
  PROVE  /\ idx \in 1..Len(AllMediaTypes(list))
         /\ AllMediaTypes(list)[idx] \in Mimes
         /\ RenderIndex(list, idx) \in Tokens
         /\ Unrender(list, AllMediaTypes(list)[idx]) = RenderIndex(list, idx)
<1>. DEFINE media == AllMediaTypes(list)
            N == Len(list)
            P == Preferred(accept, media)
<1>1. media \in Seq(Mimes) /\ N \in Nat /\ DOMAIN media = 1..Len(media)
  BY PartsAreSequences
<1>2. idx \in P /\ \A j \in P : idx <= j
  BY <1>1, NegotiatesFirstPreferred
<1>3. idx \in 1..Len(media) /\ media[idx] \in Mimes
  <2>1. idx \in DOMAIN media
    BY <1>2 DEF Preferred, Admissible
  <2>. QED
    BY <1>1, <2>1
<1>4. PICK k \in 1..N : /\ Owns(list, k, idx)
                        /\ RenderIndex(list, idx) = list[k].codec
                        /\ \E n \in 1..Len(list[k].media) : media[idx] = list[k].media[n]
  BY <1>3, OwnerOfIndex
<1>5. MatchesMarker(list[k], media[idx])
  <2>1. DOMAIN list[k].media = 1..Len(list[k].media)
    BY PartsAreSequences
  <2>2. media[idx] \in ToSet(list[k].media)
    BY <1>4, <2>1 DEF ToSet
  <2>. QED
    BY <2>2 DEF MatchesMarker, MediaMatches
<1>6. ASSUME NEW j \in 1..N, j < k, MatchesMarker(list[j], media[idx]) PROVE FALSE
  <2>1. DOMAIN list[j].media = 1..Len(list[j].media)
    BY PartsAreSequences
  <2>2. PICK n \in 1..Len(list[j].media) : MediaMatches(list[j].media[n], media[idx])
    BY <1>6, <2>1 DEF MatchesMarker, ToSet
  <2>3. PICK i \in 1..Len(media) : Owns(list, j, i) /\ media[i] = list[j].media[n]
    BY IndexOfMember
  <2>4. Wanted(accept, media[i]) = Wanted(accept, media[idx])
    BY <2>2, <2>3, MatchingIsWantedAlike
  <2>5. i \in P
    BY <1>1, <1>2, <2>4, Zenon DEF Preferred, Admissible
  <2>6. i < idx
    <3>1. i <= Before(Parts(list), j) /\ Before(Parts(list), k - 1) < idx
      BY <1>4, <2>3 DEF Owns
    <3>2. Parts(list) \in Seq(Seq(Mimes)) /\ Len(Parts(list)) = N
      BY PartsAreSequences
    <3>3. Before(Parts(list), j) <= Before(Parts(list), k - 1)
      BY <1>6, <3>2, BeforeGrows
    <3>4. Before(Parts(list), j) \in Nat /\ Before(Parts(list), k - 1) \in Nat
      <4>1. j \in 0..N /\ k - 1 \in 0..N
        BY <1>1
      <4>. QED
        BY <3>2, <4>1, FlattenPlaces
    <3>. QED
      BY <1>3, <3>1, <3>3, <3>4
  <2>. QED
    BY <1>2, <1>3, <2>3, <2>5, <2>6
<1>7. Unrender(list, media[idx]) = list[k].codec
  <2>1. PICK f \in 1..N : /\ Unrender(list, media[idx]) = list[f].codec
                          /\ MatchesMarker(list[f], media[idx])
                          /\ \A j \in 1..N : MatchesMarker(list[j], media[idx]) => f <= j
    BY <1>5, UnrenderIsFirstMatch, Zenon
  <2>2. f <= k /\ ~(f < k)
    BY <1>5, <1>6, <2>1, Zenon
  <2>. QED
    BY <1>1, <2>1, <2>2
<1>8. list[k].codec \in Tokens
  BY PartsAreSequences
<1>. QED
  BY <1>3, <1>4, <1>7, <1>8

-----------------------------------------------------------------------------
(* The inductive invariant *)

Checked == {"accepted", "typed", "read", "returned"}
Sent == Checked \cup {"sent"}

\* The headers build_request sets.
OwnHeaders ==
  /\ req.accept = OwnAccept
  /\ ep.body # <<>> => /\ req.ctype = AllMediaTypes(ep.body)[1]
                       /\ req.codec = RenderIndex(ep.body, 1)

BodyRead ==
  /\ \E c \in ToSet(ep.body) : c.codec = read /\ MatchesMarker(c, BodyType)
  /\ req.own => read = req.codec

Rendered == AllMediaTypes(Markers(Returned))
ChosenIndex == NegotiateMediaIndex(req.accept, Rendered)

\* How what the handler returned is rendered.
Served ==
  /\ ran \in DOMAIN ep.arms
  /\ resp.status = Returned.status
  /\ Returned.kind \in {"negotiated", "fixed"} =>
       /\ ChosenIndex # None
       /\ resp.ctype = Rendered[ChosenIndex]
       /\ ~req.head => resp.codec = RenderIndex(Markers(Returned), ChosenIndex)
  /\ Returned.kind = "stream" =>
       /\ resp.ctype = Returned.marker.media[1]
       /\ ~req.head => resp.codec = Returned.marker.codec
  /\ Returned.kind = "noBody" => resp.ctype = None /\ (~req.head => resp.codec = None)

\* How it comes to any other response.
NotServed ==
  /\ resp.status \in ErrorStatuses \cup {400, 406, 415, 500}
  /\ resp.reason \in {"refused", "unparsable", "handlerError", "notAcceptable",
                      "unserializable"}
  /\ resp.reason = "refused" /\ resp.status = 406 =>
       /\ ep.terminal # "noContent"
       /\ NegotiateMediaIndex(req.accept, Offered) = None
  /\ req.own => /\ resp.reason = "refused" => resp.status = 406
                /\ resp.reason # "unparsable"
  /\ resp.reason = "notAcceptable" =>
       ran \in DOMAIN ep.arms /\ Returned.kind = "fixed" /\ ChosenIndex = None

(***************************************************************************)
(* What holds of a call at every point between the caller and the caller:  *)
(* what was settled by an earlier check is still so when it is used.       *)
(***************************************************************************)
IInv ==
  /\ ep \in Endpoints
  /\ req.accept \in Headers
  /\ pc \in Sent \/ ran # None \/ resp # None => (req.own => OwnHeaders)
  /\ pc \in Checked \/ ran # None =>
       ep.terminal = "noContent" \/ NegotiateMediaIndex(req.accept, Offered) # None
  /\ pc = "typed" => ep.body = <<>> \/ ContentTypeAcceptable
  /\ pc = "read" \/ ran # None => ep.body = <<>> \/ BodyRead
  /\ pc \in {"call", "sent", "accepted", "typed", "read"} => ran = None
  /\ pc = "returned" => ran \in DOMAIN ep.arms
  /\ pc \notin {"answered", "done"} => resp = None
  /\ pc = "answered" \/ resp # None =>
       IF resp.reason = "served" THEN Served ELSE NotServed
  /\ pc \in Sent \cup {"call", "answered", "panicked"} => result = None
  /\ pc # "panicked"
  /\ CallerGetsWhatHandlerReturned

\* The client offers what accept_check negotiates over.
LEMMA OwnAcceptIsHeader ==
  ASSUME ep \in Endpoints
  PROVE  /\ OwnMediaTypes \in Seq(Mimes)
         /\ OwnAccept \in Headers
         /\ ep.terminal # "noContent" => Offered = OwnMediaTypes /\ Offered # <<>>
<1>1. /\ ep.ctypes \in Seq(MarkerTypes)
      /\ ep.terminal \in {"verb", "uverb"} => ep.ctypes # <<>>
      /\ ep.arms \in Seq(Arms)
      /\ ep.terminal \in {"verb", "uverb", "stream", "noContent"}
  BY EndpointsAreTyped
<1>2. ASSUME ep.terminal = "stream"
      PROVE  ep.arms[1].marker.media[1] \in Mimes
  <2>1. Len(ep.arms) = 1 /\ 1 \in DOMAIN ep.arms /\ ep.arms[1] \in Arms
    BY <1>1, <1>2, ArmsOfTerminals
  <2>2. ep.arms[1].kind = "stream" /\ ep.arms[1].marker # None
    BY <1>2, <2>1, ArmsOfTerminals, EndpointsAreTyped
  <2>3. ep.arms[1].marker \in MarkerTypes
    BY <2>1, <2>2 DEF Arms
  <2>4. ep.arms[1].marker.media \in Seq(Mimes) /\ ep.arms[1].marker.media # <<>>
    BY <2>3 DEF MarkerTypes
  <2>. QED
    BY <2>4
<1>3. AllMediaTypes(ep.ctypes) \in Seq(Mimes)
  BY <1>1, PartsAreSequences
<1>4. ASSUME ep.ctypes # <<>>
      PROVE  AllMediaTypes(ep.ctypes) # <<>>
  <2>1. 1 \in 1..Len(ep.ctypes)
    BY <1>1, <1>4
  <2>2. 1 \in 1..Len(ep.ctypes[1].media)
    <3>1. ep.ctypes[1].media \in Seq(Mimes) /\ ep.ctypes[1].media # <<>>
      BY <1>1, <2>1, PartsAreSequences
    <3>. QED
      BY <3>1
  <2>3. 1..Len(AllMediaTypes(ep.ctypes)) # {}
    BY <1>1, <2>1, <2>2, IndexOfMember
  <2>. QED
    BY <2>3
<1>5. OwnMediaTypes \in Seq(Mimes)
  BY <1>2, <1>3 DEF OwnMediaTypes
<1>6. ep.terminal # "noContent" => Offered = OwnMediaTypes /\ Offered # <<>>
  BY <1>1, <1>2, <1>4 DEF Offered, OwnMediaTypes
<1>7. \A m \in Mimes : AsRange(m) \in MediaRanges
  BY DEF Mimes, AsRange, MediaRanges
<1>8. OwnAccept \in Headers
  <2>. DEFINE M == OwnMediaTypes
  <2>1. /\ Len(M) \in Nat /\ DOMAIN M = 1..Len(M)
        /\ \A i \in 1..Len(M) : M[i] \in Mimes
    BY <1>5
  <2>2. OwnAccept = IF M = <<>> THEN None ELSE [i \in DOMAIN M |-> AsRange(M[i])]
    BY Zenon DEF OwnAccept
  <2>. HIDE DEF M
  <2>3. [i \in DOMAIN M |-> AsRange(M[i])] \in Seq({None} \cup MediaRanges)
    BY <1>7, <2>1
  <2>. QED
    BY <2>2, <2>3, Zenon DEF Headers
<1>. QED
  BY <1>5, <1>6, <1>8

\* What a response says survives is_head, but for its body.
LEMMA RespondEffect ==
  ASSUME NEW s, NEW t, NEW c, NEW why, Respond(Response(s, t, c, why))
  PROVE  /\ pc' = "answered"
         /\ resp'.status = s /\ resp'.ctype = t /\ resp'.reason = why
         /\ ~req.head => resp'.codec = c
BY DEF Respond, Response

\* The body of the generated client is read as it was written.
LEMMA OwnBodyIsTyped ==
  ASSUME ep \in Endpoints, ep.body # <<>>, OwnHeaders
  PROVE  /\ ContentTypeAcceptable
         /\ BodyType = AllMediaTypes(ep.body)[1]
         /\ Unrender(ep.body, BodyType) = req.codec
<1>. DEFINE list == ep.body
            media == AllMediaTypes(list)
<1>1. list \in Seq(MarkerTypes) /\ Len(list) \in Nat
  BY EndpointsAreTyped
<1>2. 1 \in 1..Len(list)
  BY <1>1
<1>3. /\ list[1].media \in Seq(Mimes) /\ 1 \in 1..Len(list[1].media)
      /\ media \in Seq(Mimes) /\ DOMAIN media = 1..Len(media)
  <2>1. list[1].media \in Seq(Mimes) /\ list[1].media # <<>> /\ media \in Seq(Mimes)
    BY <1>1, <1>2, PartsAreSequences
  <2>. HIDE DEF media, list
  <2>. QED
    BY <2>1
<1>. HIDE DEF list
<1>4. 1 \in 1..Len(media)
  <2>1. 1..Len(media) # {}
    BY <1>1, <1>2, <1>3, IndexOfMember
  <2>. HIDE DEF media
  <2>. QED
    BY <1>3, <2>1
<1>5. media[1] \in Mimes
  <2>. HIDE DEF media
  <2>. QED
    BY <1>3, <1>4
<1>6. PICK k \in 1..Len(list) : /\ Owns(list, k, 1)
                                /\ RenderIndex(list, 1) = list[k].codec
                                /\ \E n \in 1..Len(list[k].media) : media[1] = list[k].media[n]
  BY <1>1, <1>4, OwnerOfIndex
<1>7. k = 1
  <2>1. Parts(list) \in Seq(Seq(Mimes)) /\ Len(Parts(list)) = Len(list) /\ Parts(list)[1] = list[1].media
    BY <1>1, <1>2, PartsAreSequences
  <2>2. k # 1 => Before(Parts(list), 1) <= Before(Parts(list), k - 1)
    BY <1>1, <1>2, <2>1, BeforeGrows
  <2>3. Before(Parts(list), 0) = 0
    BY <2>1, FlattenPlaces
  <2>4. Before(Parts(list), 1) = Before(Parts(list), 1 - 1) + Len(Parts(list)[1])
    BY <1>2, <2>1, FlattenPlaces
  <2>5. Before(Parts(list), 1) >= 1
    BY <1>3, <2>1, <2>3, <2>4
  <2>6. k # 1 => Before(Parts(list), k - 1) \in Nat
    <3>1. k - 1 \in 0..Len(list)
      BY <1>1
    <3>. QED
      BY <2>1, <3>1, FlattenPlaces
  <2>7. Before(Parts(list), k - 1) < 1
    BY <1>6 DEF Owns
  <2>8. Before(Parts(list), 1) \in Nat
    BY <1>3, <2>1, <2>3, <2>4
  <2>. QED
    BY <2>2, <2>5, <2>6, <2>7, <2>8
<1>8. BodyType = media[1] /\ BodyType # Malformed
  <2>1. req.ctype = media[1]
    BY Zenon DEF OwnHeaders, list
  <2>2. media[1] # None /\ media[1] # Malformed
    BY <1>5, NoneIsNoValue
  <2>. QED
    BY <2>1, <2>2, Zenon DEF BodyType
<1>9. media[1] \in ToSet(list[1].media) /\ MatchesMarker(list[1], media[1])
  <2>1. PICK n \in 1..Len(list[1].media) : media[1] = list[1].media[n]
    BY <1>6, <1>7
  <2>2. media[1] \in ToSet(list[1].media)
    BY <1>3, <2>1 DEF ToSet
  <2>. QED
    BY <2>2 DEF MatchesMarker, MediaMatches
<1>10. ContentTypeAcceptable
  <2>1. media[1] \in ToSet(media)
    <3>. HIDE DEF media
    <3>. QED
      BY <1>3, <1>4 DEF ToSet
  <2>. QED
    BY <1>8, <2>1 DEF ContentTypeAcceptable, MediaMatches, list
<1>11. Unrender(list, media[1]) = list[1].codec
  <2>1. PICK f \in 1..Len(list) :
          /\ Unrender(list, media[1]) = list[f].codec
          /\ \A j \in 1..Len(list) : MatchesMarker(list[j], media[1]) => f <= j
    BY <1>1, <1>2, <1>9, UnrenderIsFirstMatch, Zenon
  <2>2. f = 1
    <3>1. f <= 1
      BY <1>2, <1>9, <2>1, Zenon
    <3>. QED
      BY <1>1, <3>1
  <2>. QED
    BY <2>1, <2>2
<1>12. req.codec = RenderIndex(list, 1)
  BY Zenon DEF OwnHeaders, list
<1>. QED
  BY <1>6, <1>7, <1>8, <1>10, <1>11, <1>12 DEF list

-----------------------------------------------------------------------------
(* The steps *)

\* Before the call nothing is settled.
LEMMA InitIInv == Init => IInv
<1>. SUFFICES ASSUME Init PROVE IInv
  OBVIOUS
<1>1. None \in Headers
  BY DEF Headers
<1>. QED
  BY <1>1 DEF Init, IInv, Sent, Checked, CallerGetsWhatHandlerReturned

\* What is derived from the endpoint and the request stays while these do.
LEMMA RequestKept ==
  ASSUME UNCHANGED <<ep, req>>
  PROVE  /\ Offered' = Offered /\ OwnHeaders' = OwnHeaders
         /\ BodyType' = BodyType /\ ContentTypeAcceptable' = ContentTypeAcceptable
         /\ (read' = read => BodyRead' = BodyRead)
         /\ (ran' = ran => /\ Returned' = Returned /\ Markers(Returned)' = Markers(Returned)
                           /\ Rendered' = Rendered /\ ChosenIndex' = ChosenIndex)
BY DEF Offered, OwnHeaders, OwnAccept, OwnMediaTypes, BodyType, ContentTypeAcceptable,
       BodyRead, Returned, Markers, Rendered, ChosenIndex

\* What is said of a response stays while it does.
LEMMA ResponseKept ==
  ASSUME UNCHANGED <<ep, req, ran, resp>>
  PROVE  Served' = Served /\ NotServed' = NotServed /\ \A why : Answered(why)' = Answered(why)
BY DEF Served, NotServed, Offered, Returned, Markers, Rendered, ChosenIndex, Answered

\* The request carries the client's own headers, or is not sent.
LEMMA CallKeepsIInv == IInv /\ Call => IInv'
<1>. SUFFICES ASSUME IInv, Call PROVE IInv'
  OBVIOUS
<1>1. /\ ep \in Endpoints /\ ep' = ep /\ read' = read /\ ran' = None /\ resp' = None
      /\ result = None /\ req.accept \in Headers
  BY DEF IInv, Call, Sent, Checked
<1>2. CASE /\ req' = [own |-> TRUE, head |-> ep.method = "HEAD", accept |-> OwnAccept,
                      ctype |-> IF ep.body = <<>> THEN None ELSE AllMediaTypes(ep.body)[1],
                      codec |-> IF ep.body = <<>> THEN None ELSE RenderIndex(ep.body, 1)]
           /\ pc' = "sent" /\ result' = None
  <2>1. req'.accept \in Headers
    BY <1>1, <1>2, OwnAcceptIsHeader
  <2>2. OwnHeaders'
    BY <1>1, <1>2 DEF OwnHeaders, OwnAccept, OwnMediaTypes
  <2>. QED
    BY <1>1, <1>2, <2>1, <2>2 DEF IInv, Sent, Checked, CallerGetsWhatHandlerReturned
<1>3. CASE Result([tag |-> "EncodeFailure"]) /\ req' = req
  <2>1. CallerGetsWhatHandlerReturned'
    BY <1>1, <1>3 DEF Result, CallerGetsWhatHandlerReturned, Answered
  <2>. QED
    BY <1>1, <1>3, <2>1 DEF IInv, Sent, Checked, Result
<1>. QED
  BY <1>1, <1>2, <1>3 DEF Call

\* The request of another transport carries some header.
LEMMA OtherRequestKeepsIInv == IInv /\ OtherRequest => IInv'
<1>. SUFFICES ASSUME IInv, OtherRequest PROVE IInv'
  OBVIOUS
<1>1. /\ ep \in Endpoints /\ ep' = ep /\ read' = read /\ ran' = None /\ resp' = None
      /\ result' = None /\ pc' = "sent"
  BY DEF IInv, OtherRequest, Sent, Checked
<1>2. req'.accept \in Headers /\ ~req'.own
  BY HeadersAreTyped DEF OtherRequest, Headers
<1>. QED
  BY <1>1, <1>2 DEF IInv, Sent, Checked, CallerGetsWhatHandlerReturned

\* A failed transport leaves the caller with an error.
LEMMA TransportFailsKeepsIInv == IInv /\ TransportFails => IInv'
<1>. SUFFICES ASSUME IInv, TransportFails PROVE IInv'
  OBVIOUS
<1>1. UNCHANGED <<ep, req, read, ran, resp>> /\ pc' = "done" /\ result'.tag = "ConnectionError"
  BY DEF TransportFails, Result
<1>2. CallerGetsWhatHandlerReturned'
  BY <1>1 DEF CallerGetsWhatHandlerReturned
<1>. QED
  BY <1>1, <1>2, RequestKept, ResponseKept DEF IInv, Sent, Checked

(***************************************************************************)
(* An answer ends the server's part: what it must satisfy is said of the   *)
(* response alone.                                                         *)
(***************************************************************************)
LEMMA AnswerKeepsIInv ==
  ASSUME IInv, pc \in Sent, UNCHANGED <<ep, req, result>>, pc' = "answered",
         ran' # None => /\ ep.terminal = "noContent" \/ NegotiateMediaIndex(req.accept, Offered) # None
                        /\ ep.body = <<>> \/ BodyRead',
         (IF resp.reason = "served" THEN Served ELSE NotServed)'
  PROVE  IInv'
<1>1. result' = None
  BY DEF IInv
<1>2. CallerGetsWhatHandlerReturned'
  BY <1>1 DEF CallerGetsWhatHandlerReturned
<1>. QED
  BY <1>1, <1>2, RequestKept DEF IInv, Sent, Checked

\* What accept_check lets pass negotiates; a 406 means that nothing does.
LEMMA CheckAcceptKeepsIInv == IInv /\ CheckAccept => IInv'
<1>. SUFFICES ASSUME IInv, CheckAccept PROVE IInv'
  OBVIOUS
<1>1. /\ UNCHANGED <<ep, req, read, ran, result>> /\ pc = "sent" /\ ran = None /\ resp = None
  BY DEF CheckAccept, IInv, Sent, Checked
<1>2. CASE /\ ep.terminal = "noContent" \/ NegotiateMediaIndex(req.accept, Offered) # None
           /\ Goto("accepted")
  <2>1. pc' = "accepted" /\ resp' = None /\ result' = None
    BY <1>1, <1>2 DEF Goto, IInv, Sent
  <2>2. CallerGetsWhatHandlerReturned'
    BY <2>1 DEF CallerGetsWhatHandlerReturned
  <2>. QED
    BY <1>1, <1>2, <2>1, <2>2, RequestKept DEF IInv, Sent, Checked
<1>3. CASE /\ ep.terminal # "noContent" /\ NegotiateMediaIndex(req.accept, Offered) = None
           /\ Respond(Response(406, None, None, "refused"))
  <2>1. pc' = "answered" /\ resp'.status = 406 /\ resp'.reason = "refused"
    BY <1>3, RespondEffect
  <2>2. NotServed'
    BY <1>1, <1>3, <2>1, RequestKept DEF NotServed
  <2>. QED
    BY <1>1, <2>1, <2>2, AnswerKeepsIInv DEF Sent
<1>. QED
  BY <1>2, <1>3 DEF CheckAccept

\* content_type_acceptable refuses no body of the generated client.
LEMMA CheckContentTypeKeepsIInv == IInv /\ CheckContentType => IInv'
<1>. SUFFICES ASSUME IInv, CheckContentType PROVE IInv'
  OBVIOUS
<1>1. /\ UNCHANGED <<ep, req, read, ran, result>> /\ pc = "accepted" /\ ran = None /\ resp = None
  BY DEF CheckContentType, IInv, Sent, Checked
<1>2. CASE /\ ep.body = <<>> \/ ContentTypeAcceptable
           /\ Goto("typed")
  <2>1. pc' = "typed" /\ resp' = None /\ result' = None
    BY <1>1, <1>2 DEF Goto, IInv, Sent, Checked
  <2>2. CallerGetsWhatHandlerReturned'
    BY <2>1 DEF CallerGetsWhatHandlerReturned
  <2>. QED
    BY <1>1, <1>2, <2>1, <2>2, RequestKept DEF IInv, Sent, Checked
<1>3. CASE /\ ep.body # <<>> /\ ~ContentTypeAcceptable
           /\ Respond(Response(415, None, None, "refused"))
  <2>1. pc' = "answered" /\ resp'.status = 415 /\ resp'.reason = "refused"
    BY <1>3, RespondEffect
  <2>2. ~req.own
    BY <1>1, <1>3, OwnBodyIsTyped DEF IInv, Sent, Checked
  <2>3. NotServed'
    BY <1>1, <2>1, <2>2 DEF NotServed
  <2>. QED
    BY <1>1, <2>1, <2>3, AnswerKeepsIInv DEF Sent, Checked
<1>. QED
  BY <1>2, <1>3 DEF CheckContentType

\* A body whose type was accepted finds its codec.
LEMMA ReadBodyKeepsIInv == IInv /\ ReadBody => IInv'
<1>. SUFFICES ASSUME IInv, ReadBody PROVE IInv'
  OBVIOUS
<1>1. /\ UNCHANGED <<ep, req, ran, result>> /\ pc = "typed" /\ ran = None /\ resp = None
      /\ ep \in Endpoints /\ result = None
  BY DEF ReadBody, IInv, Sent, Checked
<1>. DEFINE codec == IF BodyType = Malformed THEN None ELSE Unrender(ep.body, BodyType)
<1>2. ASSUME pc' = "read", resp' = None, ep.body = <<>> \/ BodyRead'
      PROVE  IInv'
  <2>1. CallerGetsWhatHandlerReturned'
    BY <1>1 DEF CallerGetsWhatHandlerReturned
  <2>. QED
    BY <1>1, <1>2, <2>1, RequestKept DEF IInv, Sent, Checked
<1>3. CASE ep.body = <<>>
  <2>1. pc' = "read" /\ resp' = None
    BY <1>1, <1>3 DEF ReadBody, Goto
  <2>. QED
    BY <1>2, <1>3, <2>1
<1>4. CASE ep.body # <<>>
  <2>1. ContentTypeAcceptable /\ ep.body \in Seq(MarkerTypes)
    BY <1>1, <1>4, EndpointsAreTyped DEF IInv
  <2>2. PICK k \in 1..Len(ep.body) : /\ codec = ep.body[k].codec /\ codec # None
                                     /\ MatchesMarker(ep.body[k], BodyType)
    <3>1. PICK m \in ToSet(AllMediaTypes(ep.body)) : MediaMatches(m, BodyType)
      BY <2>1 DEF ContentTypeAcceptable
    <3>2. \E j \in 1..Len(ep.body) : m \in ToSet(ep.body[j].media)
      BY <2>1, MediaHasOwner
    <3>3. \E j \in 1..Len(ep.body) : MatchesMarker(ep.body[j], BodyType)
      BY <3>1, <3>2, Zenon DEF MatchesMarker
    <3>4. codec = Unrender(ep.body, BodyType)
      BY <2>1 DEF ContentTypeAcceptable
    <3>. HIDE DEF codec
    <3>. QED
      BY <2>1, <3>3, <3>4, UnrenderIsFirstMatch, Zenon
  <2>3. req.own => codec = req.codec
    <3>1. req.own => OwnHeaders
      BY <1>1 DEF IInv, Sent, Checked
    <3>2. codec = Unrender(ep.body, BodyType)
      BY <2>1 DEF ContentTypeAcceptable
    <3>. HIDE DEF codec
    <3>. QED
      BY <1>1, <1>4, <3>1, <3>2, OwnBodyIsTyped
  <2>4. \/ read' = codec /\ Goto("read")
        \/ codec \notin {None, req.codec} /\ Respond(Response(400, None, None, "unparsable"))
    <3>1. \/ /\ codec = None
             /\ Respond(Response(415, None, None, "readWithoutCodec"))
             /\ UNCHANGED read
          \/ /\ codec # None
             /\ read' = codec
             /\ Goto("read")
          \/ /\ codec \notin {None, req.codec}
             /\ read' = codec
             /\ Respond(Response(400, None, None, "unparsable"))
      BY <1>4, Zenon DEF ReadBody
    <3>. HIDE DEF codec
    <3>. QED
      BY <2>2, <3>1
  <2>. HIDE DEF codec
  <2>5. CASE read' = codec /\ Goto("read")
    <3>1. ep.body[k] \in ToSet(ep.body)
      BY <2>1 DEF ToSet
    <3>2. BodyType' = BodyType
      BY <1>1, RequestKept
    <3>3. BodyRead'
      BY <1>1, <2>2, <2>3, <2>5, <3>1, <3>2 DEF BodyRead
    <3>. QED
      BY <1>1, <1>2, <2>5, <3>3 DEF Goto
  <2>6. CASE codec \notin {None, req.codec} /\ Respond(Response(400, None, None, "unparsable"))
    <3>1. pc' = "answered" /\ resp'.status = 400 /\ resp'.reason = "unparsable" /\ ~req.own
      BY <2>3, <2>6, RespondEffect
    <3>2. NotServed'
      BY <1>1, <3>1 DEF NotServed
    <3>. QED
      BY <1>1, <3>1, <3>2, AnswerKeepsIInv DEF Sent, Checked
  <2>. QED
    BY <2>4, <2>5, <2>6
<1>. QED
  BY <1>3, <1>4

\* The handler returns one of the endpoint's arms.
LEMMA HandlerReturnsKeepsIInv == IInv /\ HandlerReturns => IInv'
<1>. SUFFICES ASSUME IInv, HandlerReturns PROVE IInv'
  OBVIOUS
<1>1. /\ UNCHANGED <<ep, req, read, result>> /\ pc = "read" /\ pc' = "returned"
      /\ ran' \in DOMAIN ep.arms /\ resp' = None /\ result = None
  BY DEF HandlerReturns, Goto, IInv, Sent, Checked
<1>2. CallerGetsWhatHandlerReturned'
  BY <1>1 DEF CallerGetsWhatHandlerReturned
<1>. QED
  BY <1>1, <1>2, RequestKept DEF IInv, Sent, Checked

\* Its error is answered with one of the handler's statuses.
LEMMA HandlerFailsKeepsIInv == IInv /\ HandlerFails => IInv'
<1>. SUFFICES ASSUME IInv, HandlerFails PROVE IInv'
  OBVIOUS
<1>1. /\ UNCHANGED <<ep, req, read, result>> /\ pc = "read"
      /\ ep.terminal = "noContent" \/ NegotiateMediaIndex(req.accept, Offered) # None
      /\ ep.body = <<>> \/ BodyRead
  BY DEF HandlerFails, IInv, Checked
<1>2. PICK status \in ErrorStatuses : Respond(Response(status, None, None, "handlerError"))
  BY DEF HandlerFails
<1>3. pc' = "answered" /\ resp'.status = status /\ resp'.reason = "handlerError"
  BY <1>2, RespondEffect
<1>4. NotServed'
  BY <1>3 DEF NotServed
<1>5. BodyRead' = BodyRead
  BY <1>1, RequestKept
<1>. QED
  BY <1>1, <1>3, <1>4, <1>5, AnswerKeepsIInv DEF Sent, Checked

\* The content types an arm is written in are a list of markers.
LEMMA MarkersAreTyped ==
  ASSUME ep \in Endpoints, ran \in DOMAIN ep.arms
  PROVE  /\ Returned \in Arms /\ Returned.status \in Nat
         /\ Returned.kind \in {"negotiated", "fixed", "stream"} =>
              Markers(Returned) \in Seq(MarkerTypes)
         /\ Returned.kind \in {"fixed", "stream"} =>
              Returned.marker \in MarkerTypes /\ Markers(Returned) = <<Returned.marker>>
         /\ ep.terminal = "verb" => Returned.kind = "negotiated"
         /\ ep.terminal = "stream" => Returned.kind = "stream"
         /\ ep.terminal = "noContent" => Returned.kind = "noBody"
         /\ ep.terminal # "uverb" => ran = 1
<1>1. ep.arms \in Seq(Arms) /\ ep.ctypes \in Seq(MarkerTypes)
  BY EndpointsAreTyped
<1>2. Returned \in Arms /\ Returned.status \in Nat
  <2>1. \A a \in Seq(Arms) : \A i \in DOMAIN a : a[i] \in Arms
    OBVIOUS
  <2>2. Returned \in Arms
    BY <1>1, <2>1 DEF Returned
  <2>. QED
    BY <2>2 DEF Arms
<1>3. Returned.kind \in {"fixed", "stream"} => Returned.marker \in MarkerTypes
  BY <1>2, EndpointsAreTyped DEF Returned, Arms
<1>4. ep.terminal # "uverb" => ran = 1
  BY <1>1, ArmsOfTerminals
<1>. QED
  BY <1>1, <1>2, <1>3, <1>4, ArmsOfTerminals DEF Returned, Markers

\* The second negotiation cannot fail for what accept_check looked at.
LEMMA RenderKeepsIInv == IInv /\ Render => IInv'
<1>. SUFFICES ASSUME IInv, Render PROVE IInv'
  OBVIOUS
<1>1. /\ UNCHANGED <<ep, req, read, ran, result>> /\ pc = "returned" /\ ran \in DOMAIN ep.arms
      /\ ep \in Endpoints /\ ran # None
      /\ ep.terminal = "noContent" \/ NegotiateMediaIndex(req.accept, Offered) # None
      /\ ep.body = <<>> \/ BodyRead
  <2>1. \A k \in DOMAIN ep.arms : k \in Nat
    BY EndpointsAreTyped DEF IInv
  <2>2. /\ UNCHANGED <<ep, req, read, ran, result>> /\ pc = "returned"
        /\ ran \in DOMAIN ep.arms /\ ep \in Endpoints
    BY DEF Render, IInv
  <2>3. ran # None
    BY <2>1, <2>2, NoneIsNoValue
  <2>. QED
    BY <2>2, <2>3 DEF IInv
<1>2. /\ Returned' = Returned /\ Markers(Returned)' = Markers(Returned)
      /\ Rendered' = Rendered /\ ChosenIndex' = ChosenIndex /\ BodyRead' = BodyRead
  BY <1>1, RequestKept
<1>3. ASSUME pc' = "answered", IF resp'.reason = "served" THEN Served' ELSE NotServed'
      PROVE  IInv'
  BY <1>1, <1>2, <1>3, AnswerKeepsIInv DEF Sent, Checked
<1>4. ASSUME NEW status \in {500}, NEW why \in {"notAcceptable", "unserializable"},
             Respond(Response(status, None, None, why)),
             why = "notAcceptable" => Returned.kind = "fixed" /\ ChosenIndex = None
      PROVE  IInv'
  <2>1. pc' = "answered" /\ resp'.status = 500 /\ resp'.reason = why
    BY <1>4, RespondEffect
  <2>2. NotServed'
    BY <1>1, <1>2, <1>4, <2>1 DEF NotServed
  <2>. QED
    BY <1>3, <1>4, <2>1, <2>2
<1>5. CASE RenderBuffered
  <2>1. /\ Returned.kind \in {"negotiated", "fixed"}
        /\ \/ ChosenIndex = None /\ ep.terminal = "verb" /\ Goto("panicked")
           \/ /\ ChosenIndex = None /\ ep.terminal = "uverb"
              /\ Respond(Response(500, None, None, "notAcceptable"))
           \/ /\ ChosenIndex # None
              /\ Respond(Response(Returned.status, Rendered[ChosenIndex],
                                  RenderIndex(Markers(Returned), ChosenIndex), "served"))
           \/ /\ ChosenIndex # None
              /\ Respond(Response(500, None, None, "unserializable"))
    BY <1>5, Zenon DEF RenderBuffered, Rendered, ChosenIndex
  \* What is negotiated again was negotiated by accept_check.
  <2>2. Returned.kind = "negotiated" => ChosenIndex # None
    <3>1. ASSUME Returned.kind = "negotiated" PROVE Rendered = Offered /\ ep.terminal # "noContent"
      BY <1>1, <3>1, MarkersAreTyped DEF Rendered, Markers, Offered
    <3>. QED
      BY <1>1, <3>1 DEF ChosenIndex
  <2>3. CASE ChosenIndex = None /\ ep.terminal = "verb"
    BY <1>1, <2>2, <2>3, MarkersAreTyped
  <2>4. CASE ChosenIndex = None /\ Respond(Response(500, None, None, "notAcceptable"))
    BY <1>4, <2>1, <2>2, <2>4
  <2>5. CASE /\ ChosenIndex # None
             /\ Respond(Response(Returned.status, Rendered[ChosenIndex],
                                 RenderIndex(Markers(Returned), ChosenIndex), "served"))
    <3>1. /\ pc' = "answered" /\ resp'.status = Returned.status /\ resp'.reason = "served"
          /\ resp'.ctype = Rendered[ChosenIndex]
          /\ ~req.head => resp'.codec = RenderIndex(Markers(Returned), ChosenIndex)
      BY <2>5, RespondEffect
    <3>2. Served'
      BY <1>1, <1>2, <2>1, <2>5, <3>1 DEF Served
    <3>. QED
      BY <1>3, <3>1, <3>2
  <2>6. CASE Respond(Response(500, None, None, "unserializable"))
    BY <1>4, <2>6
  <2>. QED
    BY <2>1, <2>3, <2>4, <2>5, <2>6
<1>6. CASE RenderStream
  <2>1. /\ Returned.kind = "stream"
        /\ pc' = "answered" /\ resp'.status = Returned.status /\ resp'.reason = "served"
        /\ resp'.ctype = Returned.marker.media[1]
        /\ ~req.head => resp'.codec = Returned.marker.codec
    BY <1>6, RespondEffect DEF RenderStream
  <2>2. Served'
    BY <1>1, <1>2, <2>1 DEF Served
  <2>. QED
    BY <1>3, <2>1, <2>2
<1>7. CASE RenderEmpty
  <2>1. /\ Returned.kind = "noBody"
        /\ pc' = "answered" /\ resp'.status = Returned.status /\ resp'.reason = "served"
        /\ resp'.ctype = None
        /\ ~req.head => resp'.codec = None
    BY <1>7, RespondEffect DEF RenderEmpty
  <2>2. Served'
    BY <1>1, <1>2, <2>1 DEF Served
  <2>. QED
    BY <1>3, <2>1, <2>2
<1>. QED
  BY <1>5, <1>6, <1>7 DEF Render

(***************************************************************************)
(* What was served is decodable: the codec found for the type of the       *)
(* response is the one it was written with.                                *)
(***************************************************************************)
LEMMA ServedDecodes ==
  ASSUME IInv, Served, ~req.head
  PROVE  /\ Returned.kind \in {"negotiated", "fixed", "stream"} =>
              /\ resp.ctype # None
              /\ Unrender(Markers(Returned), resp.ctype) = resp.codec /\ resp.codec # None
         /\ Returned.kind = "noBody" => resp.codec = None
         /\ Returned.kind \in {"negotiated", "fixed", "stream", "noBody"}
<1>0. ep \in Endpoints /\ ran \in DOMAIN ep.arms /\ req.accept \in Headers
  BY DEF IInv, Served
<1>1. CASE Returned.kind \in {"negotiated", "fixed"}
  <2>1. Markers(Returned) \in Seq(MarkerTypes)
    BY <1>0, <1>1, MarkersAreTyped
  <2>2. /\ ChosenIndex # None /\ resp.ctype = Rendered[ChosenIndex]
        /\ resp.codec = RenderIndex(Markers(Returned), ChosenIndex)
    BY <1>1 DEF Served
  <2>3. /\ Rendered[ChosenIndex] \in Mimes
        /\ RenderIndex(Markers(Returned), ChosenIndex) \in Tokens
        /\ Unrender(Markers(Returned), Rendered[ChosenIndex])
             = RenderIndex(Markers(Returned), ChosenIndex)
    BY <1>0, <2>1, <2>2, ReadAsRendered DEF Rendered, ChosenIndex
  <2>. QED
    BY <1>1, <2>2, <2>3, NoneIsNoValue
<1>2. CASE Returned.kind = "stream"
  <2>. DEFINE c == Returned.marker
  <2>1. c \in MarkerTypes /\ Markers(Returned) = <<c>>
    BY <1>0, <1>2, MarkersAreTyped
  <2>2. resp.ctype = c.media[1] /\ resp.codec = c.codec
    BY <1>2 DEF Served
  <2>. HIDE DEF c
  <2>3. /\ c.media \in Seq(Mimes) /\ c.media # <<>> /\ c.codec \in Tokens
        /\ <<c>> \in Seq(MarkerTypes) /\ Len(<<c>>) = 1 /\ <<c>>[1] = c
    BY <2>1 DEF MarkerTypes
  <2>4. c.media[1] \in Mimes /\ 1 \in DOMAIN c.media
    BY <2>3
  <2>5. MatchesMarker(c, c.media[1])
    BY <2>4 DEF MatchesMarker, MediaMatches, ToSet
  <2>6. \A k \in 1..1 : <<c>>[k] = c
    BY <2>3
  <2>7. 1 \in 1..1
    OBVIOUS
  <2>8. Unrender(<<c>>, c.media[1]) = c.codec
    BY <2>3, <2>5, <2>6, <2>7, UnrenderIsFirstMatch, Zenon
  <2>9. c.codec # None /\ c.media[1] # None
    BY <2>3, <2>4, NoneIsNoValue
  <2>. QED
    BY <1>2, <2>1, <2>2, <2>8, <2>9, Zenon
<1>3. CASE Returned.kind = "noBody"
  BY <1>3 DEF Served
<1>4. Returned.kind \in {"negotiated", "fixed", "stream", "noBody"}
  BY <1>0, MarkersAreTyped DEF Arms
<1>. QED
  BY <1>1, <1>2, <1>3, <1>4

\* The arm that is found by the status of the response.
LEMMA ArmIsFoundByStatus ==
  ASSUME ep \in Endpoints
  PROVE  LET k == SelectInSeq(ep.arms, LAMBDA arm : arm.status = resp.status)
         IN  /\ k = 0 => \A j \in DOMAIN ep.arms : ep.arms[j].status # resp.status
             /\ k # 0 => k \in DOMAIN ep.arms /\ ep.arms[k].status = resp.status
<1>. DEFINE I == {i \in 1..Len(ep.arms) : ep.arms[i].status = resp.status}
            at == IF I # {} THEN Min(I) ELSE 0
            k == SelectInSeq(ep.arms, LAMBDA arm : arm.status = resp.status)
<1>1. k = at
  BY Zenon DEF SelectInSeq
<1>2. Len(ep.arms) \in Nat /\ DOMAIN ep.arms = 1..Len(ep.arms)
  BY EndpointsAreTyped
<1>3. /\ at = 0 <=> I = {}
      /\ at # 0 => at \in I /\ \A j \in I : at <= j
  <2>1. I \subseteq 1..Len(ep.arms)
    OBVIOUS
  <2>. HIDE DEF I
  <2>. QED
    BY <1>2, <2>1, MinOrZero
<1>4. /\ at = 0 => \A j \in DOMAIN ep.arms : ep.arms[j].status # resp.status
      /\ at # 0 => at \in DOMAIN ep.arms /\ ep.arms[at].status = resp.status
  <2>. HIDE DEF at
  <2>. QED
    BY <1>2, <1>3
<1>. QED
  BY <1>1, <1>4, Zenon

\* The caller's decoding, terminal by terminal.
LEMMA ReceiveKeepsIInv == IInv /\ Receive => IInv'
<1>. SUFFICES ASSUME IInv, Receive PROVE IInv'
  OBVIOUS
<1>1. /\ UNCHANGED <<ep, req, read, ran, resp>> /\ pc = "answered" /\ pc' = "done"
      /\ ep \in Endpoints /\ result = None
      /\ IF resp.reason = "served" THEN Served ELSE NotServed
      /\ Served' = Served /\ NotServed' = NotServed
  <2>1. UNCHANGED <<ep, req, read, ran, resp>> /\ pc = "answered"
    BY DEF Receive
  <2>2. pc' = "done"
    BY DEF Receive, ReceiveVerb, ReceiveNoContent, ReceiveStream, ReceiveUnion, Fails, Decode,
           Result
  <2>. QED
    BY <2>1, <2>2, ResponseKept DEF IInv, Sent, Checked
<1>. DEFINE Right == result'.tag = "Ok" /\ result'.arm = ran /\ result'.codec = resp.codec
            Found == SelectInSeq(ep.arms, LAMBDA arm : arm.status = resp.status)
\* An arm that is served is decoded by what wrote it.
<1>2. ASSUME Distinguishable, ~req.head, resp.reason = "served" PROVE Right
  <2>1. Served /\ ran \in DOMAIN ep.arms /\ resp.status = Returned.status
    BY <1>1, <1>2 DEF Served
  <2>2. /\ Returned.kind \in {"negotiated", "fixed", "stream"} =>
              /\ resp.ctype # None
              /\ Unrender(Markers(Returned), resp.ctype) = resp.codec /\ resp.codec # None
        /\ Returned.kind = "noBody" => resp.codec = None
        /\ Returned.kind \in {"negotiated", "fixed", "stream", "noBody"}
    BY <1>2, <2>1, ServedDecodes
  <2>3. /\ ep.terminal = "verb" => Returned.kind = "negotiated"
        /\ ep.terminal = "stream" => Returned.kind = "stream"
        /\ ep.terminal = "noContent" => Returned.kind = "noBody"
        /\ ep.terminal # "uverb" => ran = 1
    BY <1>1, <2>1, MarkersAreTyped
  <2>4. ASSUME Decode(ran, resp.codec) PROVE Right
    BY <2>4 DEF Decode, Result
  <2>5. CASE ReceiveVerb
    <3>1. ep.terminal = "verb" /\ ran = 1 /\ ep.arms[1].status = resp.status
      BY <2>1, <2>3, <2>5 DEF ReceiveVerb, Returned
    <3>2. Unrender(ep.ctypes, ReceivedType) = resp.codec /\ resp.codec # None
      BY <2>2, <2>3, <3>1 DEF ReceivedType, Markers
    <3>3. Decode(1, resp.codec)
      BY <2>5, <3>1, <3>2 DEF ReceiveVerb
    <3>. QED
      BY <2>4, <3>1, <3>3
  <2>6. CASE ReceiveNoContent
    <3>1. ep.terminal = "noContent" /\ ran = 1 /\ resp.codec = None
      BY <2>2, <2>3, <2>6 DEF ReceiveNoContent
    <3>2. resp.status = 204
      BY <1>1, <2>1, <3>1, ArmsOfTerminals DEF Returned
    <3>3. Decode(1, None)
      BY <2>6, <3>2 DEF ReceiveNoContent
    <3>. QED
      BY <2>4, <3>1, <3>3
  <2>7. CASE ReceiveStream
    <3>1. ep.terminal = "stream" /\ ran = 1 /\ ep.arms[1].status = resp.status
      BY <2>1, <2>3, <2>7 DEF ReceiveStream, Returned
    <3>2. /\ Unrender(<<ep.arms[1].marker>>, resp.ctype) = resp.codec
          /\ resp.codec # None /\ resp.ctype # None
      BY <1>1, <2>1, <2>2, <2>3, <3>1, MarkersAreTyped DEF Returned
    <3>3. Decode(1, resp.codec)
      BY <2>7, <3>1, <3>2 DEF ReceiveStream
    <3>. QED
      BY <2>4, <3>1, <3>3
  <2>8. CASE ReceiveUnion
    <3>1. Found = ran /\ Found # 0
      <4>1. Found # 0 => Found \in DOMAIN ep.arms /\ ep.arms[Found].status = resp.status
        BY <1>1, ArmIsFoundByStatus, Zenon
      <4>2. Found # 0
        BY <1>1, <2>1, ArmIsFoundByStatus, Zenon DEF Returned
      <4>. HIDE DEF Found
      <4>. QED
        BY <1>2, <2>1, <4>1, <4>2 DEF Distinguishable, Returned
    <3>2. /\ \/ Found = 0 /\ Fails("FailureResponse")
             \/ /\ Found # 0 /\ ep.arms[Found].kind = "noBody"
                /\ Result([tag |-> "Ok", arm |-> Found, codec |-> None])
             \/ /\ Found # 0 /\ ep.arms[Found].kind # "noBody"
                /\ \/ /\ Unrender(Markers(ep.arms[Found]), ReceivedType) = None
                      /\ Fails("DecodeFailure")
                   \/ /\ Unrender(Markers(ep.arms[Found]), ReceivedType) # None
                      /\ Decode(Found, Unrender(Markers(ep.arms[Found]), ReceivedType))
      BY <2>8, Zenon DEF ReceiveUnion
    <3>. HIDE DEF Found
    <3>3. CASE Returned.kind = "noBody"
      <4>1. Result([tag |-> "Ok", arm |-> ran, codec |-> None]) /\ resp.codec = None
        BY <2>2, <3>1, <3>2, <3>3 DEF Returned
      <4>. QED
        BY <4>1 DEF Result
    <3>4. CASE Returned.kind # "noBody"
      <4>1. /\ Unrender(Markers(ep.arms[Found]), ReceivedType) = resp.codec
            /\ resp.codec # None /\ ep.arms[Found].kind # "noBody"
        BY <2>2, <3>1, <3>4 DEF Returned, ReceivedType
      <4>2. Decode(Found, resp.codec)
        BY <3>1, <3>2, <4>1
      <4>. QED
        BY <2>4, <3>1, <4>2
    <3>. QED
      BY <3>3, <3>4
  <2>. QED
    BY <2>5, <2>6, <2>7, <2>8 DEF Receive
\* What is not an arm's response is not taken for one.
<1>3. ASSUME Distinguishable, resp.reason # "served" PROVE result'.tag # "Ok"
  <2>1. \A k \in DOMAIN ep.arms : ep.arms[k].status # resp.status
    BY <1>1, <1>3 DEF NotServed, Distinguishable
  <2>2. ep.terminal # "uverb" => 1 \in DOMAIN ep.arms
    <3>1. ep.terminal # "uverb" => Len(ep.arms) = 1
      BY <1>1, ArmsOfTerminals
    <3>. QED
      BY <1>1, <3>1, EndpointsAreTyped
  <2>3. ASSUME Fails("FailureResponse") PROVE result'.tag # "Ok"
    BY <2>3 DEF Fails, Result
  <2>4. CASE ReceiveVerb
    BY <2>1, <2>2, <2>3, <2>4 DEF ReceiveVerb
  <2>5. CASE ReceiveNoContent
    <3>1. resp.status # 204
      BY <1>1, <2>1, <2>2, <2>5, ArmsOfTerminals DEF ReceiveNoContent
    <3>. QED
      BY <2>3, <2>5, <3>1 DEF ReceiveNoContent
  <2>6. CASE ReceiveStream
    BY <2>1, <2>2, <2>3, <2>6 DEF ReceiveStream
  <2>7. CASE ReceiveUnion
    <3>1. Found = 0
      BY <1>1, <2>1, ArmIsFoundByStatus, Zenon
    <3>2. Fails("FailureResponse")
      BY <2>7, <3>1, Zenon DEF ReceiveUnion
    <3>. QED
      BY <2>3, <3>2
  <2>. QED
    BY <2>4, <2>5, <2>6, <2>7 DEF Receive
<1>4. CallerGetsWhatHandlerReturned'
  <2>1. Distinguishable' = Distinguishable /\ \A why : Answered(why)' = Answered(why)
    BY <1>1 DEF Distinguishable, Answered
  <2>. QED
    BY <1>1, <1>2, <1>3, <2>1 DEF CallerGetsWhatHandlerReturned, Answered
<1>. QED
  BY <1>1, <1>4, RequestKept DEF IInv, Sent, Checked

\* Every step keeps the invariant.
LEMMA NextIInv == IInv /\ [Next]_vars => IInv'
<1>1. IInv /\ UNCHANGED vars => IInv'
  <2>. SUFFICES ASSUME IInv, UNCHANGED vars PROVE IInv'
    OBVIOUS
  <2>1. UNCHANGED <<ep, req, pc, read, ran, resp, result>>
    BY DEF vars
  <2>2. CallerGetsWhatHandlerReturned'
    BY <2>1 DEF IInv, CallerGetsWhatHandlerReturned, Distinguishable, Answered
  <2>. QED
    BY <2>1, <2>2, RequestKept, ResponseKept DEF IInv, Sent, Checked
<1>. QED
  BY <1>1, CallKeepsIInv, OtherRequestKeepsIInv, TransportFailsKeepsIInv, CheckAcceptKeepsIInv,
     CheckContentTypeKeepsIInv, ReadBodyKeepsIInv, HandlerReturnsKeepsIInv, HandlerFailsKeepsIInv,
     RenderKeepsIInv, ReceiveKeepsIInv DEF Next

\* The invariant holds throughout every call.
LEMMA CallIsConsistent == Spec => []IInv
BY InitIInv, NextIInv, PTL DEF Spec

-----------------------------------------------------------------------------
(* The theorems *)

(***************************************************************************)
(* The expect in render_body never fails, and of all arms only one of      *)
(* fixed content type can go unrendered for want of a representation: for  *)
(* every API, header and content type (terminal.rs:69, uverb/render.rs).   *)
(***************************************************************************)
THEOREM AcceptanceIsLasting == Spec => []AcceptCheckSuffices
<1>1. IInv => AcceptCheckSuffices
  BY DEF IInv, AcceptCheckSuffices, Answered, NotServed
<1>. QED
  BY CallIsConsistent, <1>1, PTL

(***************************************************************************)
(* negotiate_media_index and the calls before and after the handler: what  *)
(* is sent is the first of the representations the client prefers, and 406 *)
(* means that it would have none, for every list of media types and every  *)
(* Accept header, whatever its order and its dropped parts.                *)
(***************************************************************************)
THEOREM BestRepresentation == Spec => []SendsWhatIsPreferred
<1>1. IInv => SendsWhatIsPreferred
  <2>. SUFFICES ASSUME IInv PROVE SendsWhatIsPreferred
    OBVIOUS
  <2>0. ep \in Endpoints /\ req.accept \in Headers
    BY DEF IInv
  <2>1. ep.terminal # "noContent" =>
          (NegotiateMediaIndex(req.accept, Offered) = None
             <=> Admissible(req.accept, Offered) = {})
    <3>1. ep.terminal # "noContent" => Offered \in Seq(Mimes)
      BY <2>0, OwnAcceptIsHeader
    <3>. QED
      BY <2>0, <3>1, NegotiatesFirstPreferred
  <2>2. Answered("refused") /\ resp.status = 406 => Admissible(req.accept, Offered) = {}
    BY <2>1 DEF IInv, Answered, NotServed
  <2>3. ran # None /\ ep.terminal # "noContent" => Admissible(req.accept, Offered) # {}
    BY <2>1 DEF IInv
  <2>4. ASSUME Answered("served"), Returned.kind \in {"negotiated", "fixed"}
        PROVE  resp.ctype = Rendered[Min(Preferred(req.accept, Rendered))]
    <3>1. /\ ran \in DOMAIN ep.arms /\ ChosenIndex # None
          /\ resp.ctype = Rendered[ChosenIndex]
      BY <2>4 DEF IInv, Answered, Served
    <3>2. Rendered \in Seq(Mimes)
      BY <2>0, <2>4, <3>1, MarkersAreTyped, PartsAreSequences DEF Rendered
    <3>3. ChosenIndex = Min(Preferred(req.accept, Rendered))
      BY <2>0, <3>1, <3>2, NegotiatesFirstPreferred DEF ChosenIndex
    <3>. QED
      BY <3>1, <3>3
  <2>. QED
    BY <2>2, <2>3, <2>4 DEF SendsWhatIsPreferred, Rendered
<1>. QED
  BY CallIsConsistent, <1>1, PTL

(***************************************************************************)
(* The client's decoding by status and content type (uverb.rs:7,           *)
(* client/decode.rs) inverts the server's rendering by arm and index: the  *)
(* caller gets the arm the handler returned, read with the codec that      *)
(* wrote it, for every API whose statuses can be told apart and whatever   *)
(* Accept header the transport sends.                                      *)
(***************************************************************************)
THEOREM DecodingInvertsRendering == Spec => []CallerGetsWhatHandlerReturned
<1>1. IInv => CallerGetsWhatHandlerReturned
  BY DEF IInv
<1>. QED
  BY CallIsConsistent, <1>1, PTL

(***************************************************************************)
(* The content-type check of phase 5 and the search for a codec agree      *)
(* (extractors.rs:238): a handler is given a body read as its Content-Type *)
(* says, and the generated client's body as it was written.                *)
(***************************************************************************)
THEOREM CheckedTypeIsRead == Spec => []BodyIsReadAsTyped
<1>1. IInv => BodyIsReadAsTyped
  BY DEF IInv, BodyIsReadAsTyped, Answered, Served, NotServed, BodyRead, MatchesMarker
<1>. QED
  BY CallIsConsistent, <1>1, PTL

\* No marker has a media type with a +suffix.
NoSuffixes ==
  \A e \in Endpoints :
    /\ \A k \in DOMAIN e.ctypes : \A m \in ToSet(e.ctypes[k].media) : m.suffix = ""
    /\ \A k \in DOMAIN e.arms : e.arms[k].kind = "stream" =>
         e.arms[k].marker.media[1].suffix = ""

\* The client's Accept names each of its types, all with quality 1.
LEMMA OwnRangeMatches ==
  ASSUME ep \in Endpoints, OwnHeaders, ep.terminal # "noContent", NoSuffixes,
         NEW m \in ToSet(Offered)
  PROVE  Wanted(req.accept, m)[1] > 0
<1>. DEFINE M == OwnMediaTypes
<1>1. /\ M \in Seq(Mimes) /\ Len(M) \in Nat /\ DOMAIN M = 1..Len(M)
      /\ OwnAccept \in Headers /\ Offered = M /\ M # <<>>
  BY OwnAcceptIsHeader
<1>2. m.suffix = ""
  <2>1. CASE ep.terminal = "stream"
    <3>1. M = <<ep.arms[1].marker.media[1]>>
      BY <2>1 DEF OwnMediaTypes
    <3>2. m = ep.arms[1].marker.media[1]
      BY <1>1, <3>1 DEF ToSet
    <3>3. 1 \in DOMAIN ep.arms /\ ep.arms[1].kind = "stream"
      <4>1. Len(ep.arms) = 1 /\ ep.arms \in Seq(Arms)
        BY <2>1, ArmsOfTerminals, EndpointsAreTyped
      <4>2. 1 \in DOMAIN ep.arms
        BY <4>1
      <4>. QED
        BY <2>1, <4>2, ArmsOfTerminals
    <3>. QED
      BY <3>2, <3>3 DEF NoSuffixes
  <2>2. CASE ep.terminal # "stream"
    <3>1. M = AllMediaTypes(ep.ctypes) /\ ep.ctypes \in Seq(MarkerTypes)
      BY <2>2, EndpointsAreTyped DEF OwnMediaTypes
    <3>2. PICK k \in 1..Len(ep.ctypes) : m \in ToSet(ep.ctypes[k].media)
      BY <1>1, <3>1, MediaHasOwner
    <3>3. k \in DOMAIN ep.ctypes
      BY <3>1
    <3>. QED
      BY <3>2, <3>3 DEF NoSuffixes
  <2>. QED
    BY <2>1, <2>2
<1>3. req.accept = OwnAccept
  BY DEF OwnHeaders
<1>4. PICK i \in 1..Len(M) : m = M[i]
  BY <1>1 DEF ToSet
<1>5. m \in Mimes
  BY <1>1, <1>4
<1>6. OwnAccept = [j \in DOMAIN M |-> AsRange(M[j])]
  BY <1>1, Zenon DEF OwnAccept
<1>7. \A x \in Mimes : AsRange(x) \in GoodRanges /\ Quality(AsRange(x)) = 10
  BY DEF Mimes, AsRange, GoodRanges, Quality
<1>8. Specificity(AsRange(m), m) # 0
  <2>1. AsRange(m).type = m.type /\ AsRange(m).subtype = <<m.subtype, "">>
    BY <1>2 DEF AsRange
  <2>. QED
    <3>1. ASSUME NEW r, NEW x, r.type = x.type, r.subtype = <<x.subtype, "">>
          PROVE  Specificity(r, x) # 0
      <4>1. CASE r.type = "*" /\ r.subtype = AnySubtype
        <5>1. Specificity(r, x) = 1
          BY <4>1, Zenon DEF Specificity
        <5>. QED
          BY <5>1
      <4>2. CASE ~(r.type = "*" /\ r.subtype = AnySubtype) /\ r.subtype = AnySubtype
        <5>1. Specificity(r, x) = 2
          BY <3>1, <4>2, Zenon DEF Specificity
        <5>. QED
          BY <5>1
      <4>3. CASE r.subtype # AnySubtype
        <5>1. Specificity(r, x) = 3
          BY <3>1, <4>3, Zenon DEF Specificity
        <5>. QED
          BY <5>1
      <4>. QED
        BY <4>1, <4>2, <4>3
    <3>. QED
      BY <2>1, <3>1
\* No part of the client's header is dropped.
<1>9. /\ AsRange(m) \in ToSet(Ranges(req.accept))
      /\ \A r \in ToSet(Ranges(req.accept)) : Quality(r) = 10
  <2>. DEFINE A == [j \in 1..Len(M) |-> AsRange(M[j])]
  <2>1. A \in Seq({None} \cup MediaRanges) /\ A # <<>> /\ DOMAIN A = 1..Len(M)
    <3>0. \A x \in Mimes : AsRange(x) \in MediaRanges
      BY DEF Mimes, AsRange, MediaRanges
    <3>1. \A j \in 1..Len(M) : AsRange(M[j]) \in MediaRanges
      BY <1>1, <3>0
    <3>2. Len(M) # 0
      BY <1>1
    <3>. HIDE DEF M
    <3>3. A \in Seq({None} \cup MediaRanges) /\ Len(A) = Len(M) /\ DOMAIN A = 1..Len(M)
      BY <1>1, <3>1
    <3>. QED
      BY <3>2, <3>3
  <2>2. req.accept = A /\ A # None
    BY <1>1, <1>3, <1>6, <2>1, NoneIsNoValue
  <2>3. Ranges(req.accept) = ParseAccept(A)
    BY <2>1, <2>2 DEF Ranges
  <2>4. \A r \in GoodRanges :
          r \in ToSet(ParseAccept(A)) <=>
            \E j \in DOMAIN A : A[j] = r /\ r # None /\ Malformed \notin ToSet(r.qs)
    BY <2>1, ParsedRangesAreGood
  <2>5. \A j \in DOMAIN A : A[j] = AsRange(M[j]) /\ M[j] \in Mimes
    BY <1>1
  <2>6. ToSet(ParseAccept(A)) \subseteq GoodRanges
    <3>1. ParseAccept(A) \in Seq(GoodRanges)
      BY <2>1, ParsedRangesAreGood
    <3>. HIDE DEF A
    <3>. QED
      BY <3>1 DEF ToSet
  <2>7. AsRange(m) # None /\ Malformed \notin ToSet(AsRange(m).qs)
    <3>1. AsRange(m) \in MediaRanges /\ AsRange(m).qs = <<>>
      BY <1>5 DEF Mimes, AsRange, MediaRanges
    <3>. QED
      BY <3>1, NoneIsNoValue DEF ToSet
  <2>8. AsRange(m) \in ToSet(ParseAccept(A))
    <3>1. i \in DOMAIN A /\ A[i] = AsRange(m)
      BY <1>4, <2>1, <2>5
    <3>. HIDE DEF A, M
    <3>. QED
      BY <1>5, <1>7, <2>4, <2>7, <3>1, Zenon
  <2>9. \A r \in ToSet(ParseAccept(A)) : Quality(r) = 10
    <3>. HIDE DEF A, M
    <3>. SUFFICES ASSUME NEW r \in ToSet(ParseAccept(A)) PROVE Quality(r) = 10
      OBVIOUS
    <3>1. PICK j \in DOMAIN A : A[j] = r
      BY <2>4, <2>6, Zenon
    <3>. QED
      BY <1>7, <2>5, <3>1, Zenon
  <2>. QED
    BY <2>3, <2>8, <2>9
<1>. QED
  <2>. DEFINE spec(r) == Specificity(r, m)
              matching == {r \in ToSet(Ranges(req.accept)) : spec(r) # 0}
              closest == {r \in matching : \A s \in matching : spec(s) <= spec(r)}
              best == CHOOSE r \in closest : \A s \in closest : Quality(s) <= Quality(r)
  <2>1. Wanted(req.accept, m) = IF matching = {} THEN <<0, 0>> ELSE <<Quality(best), spec(best)>>
    BY Zenon DEF Wanted
  <2>2. matching # {}
    BY <1>8, <1>9, Zenon
  <2>3. PICK r \in matching : \A s \in matching : spec(s) <= spec(r)
    <3>. DEFINE T == {3 - spec(r) : r \in matching}
    <3>1. \A r : spec(r) \in 0..3
      BY SpecificityIsSmall
    <3>. HIDE DEF spec
    <3>2. \A r : 3 - spec(r) \in Nat
      BY <3>1
    <3>. HIDE DEF matching
    <3>3. T \subseteq Nat /\ T # {}
      BY <2>2, <3>2
    <3>4. PICK t \in T : \A u \in T : t <= u
      <4>. HIDE DEF T
      <4>. QED
        BY <3>3, LeastNat
    <3>5. PICK r \in matching : t = 3 - spec(r)
      OBVIOUS
    <3>6. \A s \in matching : 3 - spec(r) <= 3 - spec(s)
      BY <3>4, <3>5
    <3>7. \A s \in matching : spec(s) <= spec(r)
      BY <3>1, <3>6
    <3>. QED
      BY <3>7
  <2>4. r \in closest
    BY <2>3, Zenon
  <2>5. \A s \in closest : Quality(s) <= Quality(r)
    <3>1. \A s \in closest : Quality(s) = 10
      BY <1>9, Zenon
    <3>. HIDE DEF closest
    <3>. QED
      BY <2>4, <3>1
  <2>6. best \in closest
    BY <2>4, <2>5, Zenon
  <2>7. Quality(best) = 10
    BY <1>9, <2>6, Zenon
  <2>. HIDE DEF best, matching
  <2>. QED
    BY <2>1, <2>2, <2>7

(***************************************************************************)
(* The generated client offers what the server matches on                  *)
(* (docs/DESIGN.md:217): its own requests are served, for every API whose  *)
(* media types have no suffix. With a suffix they are not: the run         *)
(* vendor_type shows that this hypothesis is needed.                       *)
(***************************************************************************)
THEOREM OwnRequestsAreServed ==
  ASSUME NoSuffixes
  PROVE  Spec => []OwnRequestIsServed
<1>1. IInv => OwnRequestIsServed
  <2>. SUFFICES ASSUME IInv, req.own, resp # None
                PROVE  /\ resp.reason \notin {"refused", "readWithoutCodec", "unparsable"}
                       /\ resp.reason = "notAcceptable" =>
                            ToSet(Returned.marker.media) \cap ToSet(Offered) = {}
    BY DEF OwnRequestIsServed
  <2>1. /\ ep \in Endpoints /\ req.accept \in Headers /\ OwnHeaders
        /\ resp.reason # "served" => NotServed
    BY DEF IInv
  <2>2. ASSUME resp.reason = "refused" PROVE FALSE
    <3>1. /\ ep.terminal # "noContent"
          /\ NegotiateMediaIndex(req.accept, Offered) = None
      BY <2>1, <2>2 DEF NotServed
    <3>2. Offered \in Seq(Mimes) /\ Offered # <<>>
      BY <2>1, <3>1, OwnAcceptIsHeader
    <3>3. 1 \in DOMAIN Offered /\ Offered[1] \in ToSet(Offered)
      BY <3>2 DEF ToSet
    <3>4. 1 \in Admissible(req.accept, Offered)
      BY <2>1, <3>1, <3>3, OwnRangeMatches DEF Admissible
    <3>. QED
      BY <2>1, <3>1, <3>2, <3>4, NegotiatesFirstPreferred
  <2>3. ASSUME resp.reason = "notAcceptable",
               NEW m \in ToSet(Returned.marker.media), m \in ToSet(Offered)
        PROVE  FALSE
    <3>1. ran \in DOMAIN ep.arms /\ Returned.kind = "fixed" /\ ChosenIndex = None
      BY <2>1, <2>3 DEF NotServed
    <3>2. /\ ep.terminal # "noContent"
          /\ Markers(Returned) \in Seq(MarkerTypes) /\ Markers(Returned) = <<Returned.marker>>
      BY <2>1, <3>1, MarkersAreTyped
    <3>3. Rendered \in Seq(Mimes) /\ m \in ToSet(Rendered)
      <4>1. \E k \in 1..Len(Markers(Returned)) : m \in ToSet(Markers(Returned)[k].media)
        BY <2>3, <3>2
      <4>. QED
        BY <3>2, <4>1, MediaHasOwner, PartsAreSequences DEF Rendered
    <3>4. PICK i \in DOMAIN Rendered : Rendered[i] = m
      BY <3>3 DEF ToSet
    <3>5. Wanted(req.accept, m)[1] > 0
      BY <2>1, <2>3, <3>2, OwnRangeMatches
    <3>6. i \in Admissible(req.accept, Rendered)
      BY <3>4, <3>5 DEF Admissible
    <3>. QED
      BY <2>1, <3>1, <3>3, <3>6, NegotiatesFirstPreferred DEF ChosenIndex
  <2>4. resp.reason \notin {"readWithoutCodec", "unparsable"}
    BY <2>1 DEF NotServed
  <2>. QED
    BY <2>2, <2>3, <2>4
<1>. QED
  BY CallIsConsistent, <1>1, PTL
=============================================================================
