---------------------------- MODULE Streams_proofs ----------------------------
(***************************************************************************)
(* Both readers of a streamed body, for every set of items, framings and   *)
(* junk that satisfies the assumptions, however the connection cuts and    *)
(* loses bytes: the handler's (StreamBody) and the caller's                *)
(* (StreamResponse) give their items as ItemStream promises.               *)
(*                                                                         *)
(* The first part is about bytes: what each framing makes of a buffer that *)
(* starts with a frame, and of one that ends within it.  The second is     *)
(* about Flow, the relation between the items that were sent and the bytes *)
(* in the buffer and on the wire: how a reader moves along it, and how     *)
(* every step of the sender and of the connection keeps it.  The last two  *)
(* are the inductive invariants BodyInv and ResponseInv of the two sides   *)
(* and, with the same case distinctions, their refinement of ItemStream.   *)
(***************************************************************************)
EXTENDS StreamBody, StreamResponse, Lemmas

-----------------------------------------------------------------------------
(***************************************************************************)
(* Concatenation.                                                          *)
(***************************************************************************)
LEMMA SameSequence ==
  ASSUME NEW D, NEW s \in Seq(D), NEW t \in Seq(D), Len(s) = Len(t),
         \A i \in 1..Len(s) : s[i] = t[i]
  PROVE  s = t
<1>1. s = [i \in 1..Len(s) |-> s[i]] /\ t = [i \in 1..Len(t) |-> t[i]]
  OBVIOUS
<1>2. [i \in 1..Len(s) |-> s[i]] = [i \in 1..Len(t) |-> t[i]]
  BY Zenon
<1>. QED
  BY <1>1, <1>2, Zenon

\* What concatenation makes of sequences, and of empty ones.
LEMMA Concat ==
  \A D : \A s, t \in Seq(D) :
    /\ s \o t \in Seq(D) /\ Len(s) \in Nat
    /\ Len(s \o t) = Len(s) + Len(t)
    /\ s \o <<>> = s /\ <<>> \o s = s
    /\ s \o t = <<>> => s = <<>> /\ t = <<>>
<1>. SUFFICES ASSUME NEW D, NEW s \in Seq(D), NEW t \in Seq(D)
              PROVE  /\ s \o t \in Seq(D) /\ Len(s) \in Nat
                     /\ Len(s \o t) = Len(s) + Len(t)
                     /\ s \o <<>> = s /\ <<>> \o s = s
                     /\ s \o t = <<>> => s = <<>> /\ t = <<>>
  BY Zenon
<1>1. s \o t \in Seq(D) /\ Len(s) \in Nat /\ Len(s \o t) = Len(s) + Len(t) /\ Len(t) \in Nat
  OBVIOUS
<1>2. s \o <<>> = s /\ <<>> \o s = s
  <2>. DEFINE e == <<>>
  <2>1. e \in Seq(D) /\ Len(e) = 0
    OBVIOUS
  <2>. HIDE DEF e
  <2>2. /\ s \o e \in Seq(D) /\ Len(s \o e) = Len(s)
        /\ \A i \in 1..Len(s) : (s \o e)[i] = s[i]
    BY <2>1
  <2>3. /\ e \o s \in Seq(D) /\ Len(e \o s) = Len(s)
        /\ \A i \in 1..Len(s) : (e \o s)[i] = s[i]
    BY <2>1
  <2>. QED
    BY <2>2, <2>3, SameSequence DEF e
<1>3. \A u \in Seq(D) : Len(u) = 0 => u = <<>>
  OBVIOUS
<1>4. s \o t = <<>> => Len(s) = 0 /\ Len(t) = 0
  BY <1>1
<1>. QED
  BY <1>1, <1>2, <1>3, <1>4

\* r is s with t behind it.
Joins(r, s, t) == r = s \o t

\* Where the members of a join are.
LEMMA ConcatAt ==
  ASSUME NEW D, NEW s \in Seq(D), NEW t \in Seq(D), NEW r, Joins(r, s, t)
  PROVE  /\ r \in Seq(D)
         /\ Len(r) = Len(s) + Len(t) /\ Len(s) \in Nat /\ Len(t) \in Nat
         /\ \A i \in 1..Len(s) : r[i] = s[i]
         /\ \A i \in 1..Len(t) : r[Len(s) + i] = t[i]
BY DEF Joins

\* Concatenation is associative.
LEMMA ConcatAssoc ==
  \A D : \A s, t, u \in Seq(D) : (s \o t) \o u = s \o (t \o u)
<1>. SUFFICES ASSUME NEW D, NEW s \in Seq(D), NEW t \in Seq(D), NEW u \in Seq(D)
              PROVE  (s \o t) \o u = s \o (t \o u)
  BY Zenon
<1>. DEFINE a == s \o t
            b == t \o u
<1>1. /\ a \in Seq(D) /\ Len(a) = Len(s) + Len(t) /\ b \in Seq(D) /\ Len(b) = Len(t) + Len(u)
      /\ \A i \in 1..Len(s) : a[i] = s[i]
      /\ \A i \in 1..Len(t) : a[Len(s) + i] = t[i]
      /\ \A i \in 1..Len(t) : b[i] = t[i]
      /\ \A i \in 1..Len(u) : b[Len(t) + i] = u[i]
      /\ Len(s) \in Nat /\ Len(t) \in Nat /\ Len(u) \in Nat
  OBVIOUS
<1>. HIDE DEF a, b
<1>. DEFINE l == a \o u
            r == s \o b
<1>2. /\ l \in Seq(D) /\ Len(l) = Len(s) + Len(t) + Len(u)
      /\ \A i \in 1..Len(a) : l[i] = a[i]
      /\ \A i \in 1..Len(u) : l[Len(a) + i] = u[i]
  <2>1. /\ l \in Seq(D) /\ Len(l) = Len(a) + Len(u)
        /\ \A i \in 1..Len(a) : l[i] = a[i]
        /\ \A i \in 1..Len(u) : l[Len(a) + i] = u[i]
    <3>1. a \in Seq(D) /\ u \in Seq(D) /\ Joins(l, a, u)
      BY <1>1 DEF l, Joins
    <3>. QED
      BY <3>1, ConcatAt
  <2>. QED
    BY <1>1, <2>1
<1>3. /\ r \in Seq(D) /\ Len(r) = Len(s) + Len(t) + Len(u)
      /\ \A i \in 1..Len(s) : r[i] = s[i]
      /\ \A i \in 1..Len(b) : r[Len(s) + i] = b[i]
  <2>1. /\ r \in Seq(D) /\ Len(r) = Len(s) + Len(b)
        /\ \A i \in 1..Len(s) : r[i] = s[i]
        /\ \A i \in 1..Len(b) : r[Len(s) + i] = b[i]
    <3>1. s \in Seq(D) /\ b \in Seq(D) /\ Joins(r, s, b)
      BY <1>1 DEF r, Joins
    <3>. QED
      BY <3>1, ConcatAt
  <2>. QED
    BY <1>1, <2>1
<1>. HIDE DEF l, r
<1>4. ASSUME NEW i \in 1..Len(l) PROVE l[i] = r[i]
  <2>1. CASE i \in 1..Len(s)
    <3>1. i \in 1..Len(a)
      BY <1>1, <2>1
    <3>. QED
      BY <1>1, <1>2, <1>3, <2>1, <3>1
  <2>2. CASE i - Len(s) \in 1..Len(t)
    <3>. DEFINE m == i - Len(s)
    <3>1. m \in 1..Len(t) /\ m \in 1..Len(b) /\ i \in 1..Len(a) /\ i = Len(s) + m
      BY <1>1, <1>2, <2>2
    <3>2. l[i] = a[i] /\ a[i] = t[m]
      BY <1>1, <1>2, <3>1
    <3>3. r[i] = b[m] /\ b[m] = t[m]
      BY <1>1, <1>3, <3>1
    <3>. QED
      BY <3>2, <3>3
  <2>3. CASE i - (Len(s) + Len(t)) \in 1..Len(u)
    <3>. DEFINE m == i - (Len(s) + Len(t))
    <3>1. /\ m \in 1..Len(u) /\ Len(t) + m \in 1..Len(b)
          /\ i = Len(a) + m /\ i = Len(s) + (Len(t) + m)
      BY <1>1, <1>2, <2>3
    <3>2. l[i] = u[m]
      BY <1>2, <3>1
    <3>3. r[i] = b[Len(t) + m] /\ b[Len(t) + m] = u[m]
      BY <1>1, <1>3, <3>1
    <3>. QED
      BY <3>2, <3>3
  <2>. QED
    BY <1>1, <1>2, <2>1, <2>2, <2>3
<1>5. l = r
  BY <1>2, <1>3, <1>4, SameSequence
<1>. QED
  BY <1>5 DEF l, r, a, b

\* A sequence is what is before a place and what comes after it.
LEMMA CutAt ==
  ASSUME NEW D, NEW s \in Seq(D), NEW n \in 0..Len(s)
  PROVE  /\ SubSeq(s, 1, n) \in Seq(D) /\ From(s, n + 1) \in Seq(D)
         /\ s = SubSeq(s, 1, n) \o From(s, n + 1)
         /\ Len(SubSeq(s, 1, n)) = n /\ Len(From(s, n + 1)) = Len(s) - n
<1>. DEFINE a == SubSeq(s, 1, n)
            b == SubSeq(s, n + 1, Len(s))
<1>1. /\ a \in Seq(D) /\ Len(a) = n /\ Len(s) \in Nat /\ n \in Nat
      /\ \A i \in 1..n : a[i] = s[i]
  OBVIOUS
<1>2. /\ b \in Seq(D) /\ Len(b) = Len(s) - n
      /\ \A i \in 1..(Len(s) - n) : b[i] = s[n + i]
  OBVIOUS
<1>. HIDE DEF a, b
<1>. DEFINE r == a \o b
<1>3. /\ r \in Seq(D) /\ Len(r) = Len(s)
      /\ \A i \in 1..n : r[i] = a[i]
      /\ \A i \in 1..Len(b) : r[n + i] = b[i]
  BY <1>1, <1>2
<1>. HIDE DEF r
<1>4. ASSUME NEW i \in 1..Len(s) PROVE s[i] = r[i]
  <2>1. CASE i \in 1..n
    BY <1>1, <1>3, <2>1
  <2>2. CASE i - n \in 1..Len(b)
    <3>1. i = n + (i - n)
      BY <1>1
    <3>2. r[i] = b[i - n]
      BY <1>3, <2>2, <3>1
    <3>3. b[i - n] = s[i]
      BY <1>2, <2>2, <3>1
    <3>. QED
      BY <3>2, <3>3
  <2>. QED
    BY <1>1, <1>2, <2>1, <2>2
<1>5. s = r
  BY <1>3, <1>4, SameSequence
<1>. QED
  BY <1>1, <1>2, <1>5 DEF a, b, r, From

\* Of two ways to cut one sequence, the earlier cut cuts the longer part too.
LEMMA TwoCuts ==
  ASSUME NEW D, NEW a \in Seq(D), NEW u \in Seq(D), NEW b \in Seq(D), NEW v \in Seq(D),
         NEW w, Joins(w, a, u), Joins(w, b, v), Len(a) <= Len(b)
  PROVE  \E z \in Seq(D) : Joins(b, a, z) /\ Joins(u, z, v)
<1>. DEFINE z == From(b, Len(a) + 1)
            a2 == SubSeq(b, 1, Len(a))
<1>1. /\ w \in Seq(D) /\ Len(w) = Len(a) + Len(u) /\ Len(w) = Len(b) + Len(v)
      /\ \A i \in 1..Len(a) : w[i] = a[i]
      /\ \A i \in 1..Len(u) : w[Len(a) + i] = u[i]
      /\ \A i \in 1..Len(b) : w[i] = b[i]
      /\ \A i \in 1..Len(v) : w[Len(b) + i] = v[i]
      /\ Len(a) \in Nat /\ Len(b) \in Nat /\ Len(u) \in Nat /\ Len(v) \in Nat
  <2>1. /\ w \in Seq(D) /\ Len(w) = Len(a) + Len(u)
        /\ \A i \in 1..Len(a) : w[i] = a[i]
        /\ \A i \in 1..Len(u) : w[Len(a) + i] = u[i]
        /\ Len(a) \in Nat /\ Len(u) \in Nat
    BY ConcatAt
  <2>2. /\ Len(w) = Len(b) + Len(v)
        /\ \A i \in 1..Len(b) : w[i] = b[i]
        /\ \A i \in 1..Len(v) : w[Len(b) + i] = v[i]
        /\ Len(b) \in Nat /\ Len(v) \in Nat
    BY ConcatAt
  <2>. QED
    BY <2>1, <2>2
<1>2. /\ a2 \in Seq(D) /\ z \in Seq(D) /\ b = a2 \o z
      /\ Len(a2) = Len(a) /\ Len(z) = Len(b) - Len(a)
      /\ \A i \in 1..Len(a) : a2[i] = b[i]
  <2>1. Len(a) \in 0..Len(b)
    BY <1>1
  <2>2. \A i \in 1..Len(a) : a2[i] = b[i]
    BY <1>1
  <2>. QED
    BY <2>1, <2>2, CutAt
<1>. HIDE DEF a2, z
<1>3. a2 = a
  <2>1. \A i \in 1..Len(a) : i \in 1..Len(b)
    BY <1>1
  <2>2. \A i \in 1..Len(a) : a2[i] = a[i]
    BY <1>1, <1>2, <2>1
  <2>. QED
    BY <1>2, <2>2, SameSequence
<1>4. b = a \o z
  BY <1>2, <1>3
<1>5. /\ \A i \in 1..Len(z) : b[Len(a) + i] = z[i]
      /\ Len(z) \in Nat
  BY <1>2, <1>4, ConcatFacts
<1>. DEFINE u2 == z \o v
<1>6. /\ u2 \in Seq(D) /\ Len(u2) = Len(u)
      /\ \A i \in 1..Len(z) : u2[i] = z[i]
      /\ \A i \in 1..Len(v) : u2[Len(z) + i] = v[i]
  <2>0. /\ Len(a) \in Nat /\ Len(u) \in Nat /\ Len(b) \in Nat /\ Len(v) \in Nat
        /\ Len(a) + Len(u) = Len(b) + Len(v) /\ Len(z) = Len(b) - Len(a)
    BY <1>1, <1>2, Zenon
  <2>1. Len(z) + Len(v) = Len(u)
    BY <2>0
  <2>. QED
    BY <1>1, <1>2, <2>1, ConcatFacts, SMTT(40)
<1>. HIDE DEF u2
<1>7. ASSUME NEW i \in 1..Len(u) PROVE u[i] = u2[i]
  <2>1. CASE i \in 1..Len(z)
    <3>1. Len(a) + i \in 1..Len(b)
      BY <1>1, <1>2, <2>1
    <3>. QED
      BY <1>1, <1>5, <1>6, <2>1, <3>1
  <2>2. CASE i - Len(z) \in 1..Len(v)
    <3>. DEFINE m == i - Len(z)
    <3>1. m \in 1..Len(v) /\ i = Len(z) + m /\ Len(a) + i = Len(b) + m
      <4>1. i \in Int /\ Len(z) \in Int /\ Len(a) \in Int /\ Len(b) = Len(a) + Len(z)
        BY <1>1, <1>2, <1>5
      <4>. QED
        BY <4>1, <2>2
    <3>2. u2[i] = v[m]
      BY <1>6, <3>1
    <3>3. u[i] = w[Len(a) + i] /\ w[Len(a) + i] = v[m]
      BY <1>1, <3>1
    <3>. QED
      BY <3>2, <3>3
  <2>. QED
    BY <1>1, <1>2, <1>6, <2>1, <2>2
<1>8. u = u2
  BY <1>6, <1>7, SameSequence
<1>. QED
  BY <1>2, <1>4, <1>8, Zenon DEF u2, Joins

\* The same facts, of concatenations that have a name.
LEMMA JoinedExists ==
  ASSUME NEW D, NEW a \in Seq(D), NEW b \in Seq(D)
  PROVE  \E r \in Seq(D) : Joins(r, a, b)
<1>1. a \o b \in Seq(D)
  BY Concat, Zenon
<1>. QED
  BY <1>1, Zenon DEF Joins

\* A join with nothing, and a join that is nothing.
LEMMA JoinedFacts ==
  ASSUME NEW D, NEW a \in Seq(D), NEW b \in Seq(D), NEW r, Joins(r, a, b)
  PROVE  /\ r \in Seq(D)
         /\ b = <<>> => r = a
         /\ a = <<>> => r = b
         /\ r = <<>> => a = <<>> /\ b = <<>>
<1>1. a \o b \in Seq(D) /\ a \o <<>> = a /\ <<>> \o b = b
  BY Concat, Zenon
<1>2. a \o b = <<>> => a = <<>> /\ b = <<>>
  <2>1. Len(a \o b) = Len(a) + Len(b) /\ Len(a) \in Nat /\ Len(b) \in Nat
    OBVIOUS
  <2>2. ASSUME a \o b = <<>> PROVE Len(a) = 0 /\ Len(b) = 0
    BY <2>1, <2>2
  <2>3. Len(a) = 0 => a = <<>>
    OBVIOUS
  <2>4. Len(b) = 0 => b = <<>>
    OBVIOUS
  <2>. QED
    BY <2>2, <2>3, <2>4, Zenon
<1>. QED
  BY <1>1, <1>2, Zenon DEF Joins

\* Three parts joined from either side.
LEMMA JoinedAssoc ==
  ASSUME NEW D, NEW a \in Seq(D), NEW b \in Seq(D), NEW c \in Seq(D),
         NEW ab, NEW bc, Joins(ab, a, b), Joins(bc, b, c), NEW r
  PROVE  Joins(r, ab, c) <=> Joins(r, a, bc)
<1>1. (a \o b) \o c = a \o (b \o c)
  BY ConcatAssoc
<1>. QED
  BY <1>1, Zenon DEF Joins

-----------------------------------------------------------------------------
(***************************************************************************)
(* What each framing makes of a buffer that starts with a frame, or with   *)
(* part of one.                                                            *)
(***************************************************************************)
FrameOf(f, item) == Frame(f, Rendered(f, item))
Framed(fr, f, item) == fr = FrameOf(f, item)

\* What ItemsAreShort and ItemsSuitTheirFraming say of one item.
LEMMA ItemFacts ==
  ASSUME NEW f \in Framings, NEW item \in Items[f]
  PROVE  /\ item \in Seq(Bytes) /\ Len(item) \in 0..9
         /\ UsizeMax \in Nat /\ UsizeMax >= 12
         /\ f \in FramingNames
         /\ f = "none" => item # <<>>
         /\ f = "newline" => \A i \in 1..Len(item) : item[i] # "LF"
         /\ f = "eventStream" => \A i \in 1..Len(item) : ~BlankLineAt(Rendered(f, item), i)
<1>1. item \in Seq(Bytes) /\ Len(item) < 10 /\ UsizeMax >= 12
  BY ItemsAreShort
<1>2. Len(item) \in 0..9 /\ DOMAIN item = 1..Len(item)
  <2>1. Len(item) \in Nat /\ DOMAIN item = 1..Len(item)
    <3>1. item \in Seq(Bytes)
      BY <1>1
    <3>. QED
      BY <3>1
  <2>2. \A n \in Nat : n < 10 => n \in 0..9
    OBVIOUS
  <2>. QED
    BY <1>1, <2>1, <2>2, Zenon
<1>3. /\ f = "none" => item # <<>>
      /\ f = "newline" => \A i \in DOMAIN item : item[i] # "LF"
      /\ f = "eventStream" => \A i \in DOMAIN item : ~BlankLineAt(Rendered(f, item), i)
  BY ItemsSuitTheirFraming
<1>. QED
  BY <1>1, <1>2, <1>3, FramingsKnown, UsizeMaxNat

\* What the framings add to an item is bytes.
LEMMA DelimitersSent ==
  /\ ":" \in Bytes /\ "LF" \in Bytes /\ Comma \in Bytes
  /\ \A i \in 1..10 : DigitChars[i] \in Bytes
<1>1. \A i \in 1..10 : DigitChars[i] \in Range(DigitChars)
  BY DEF Range, DigitChars
<1>. QED
  BY <1>1, DelimitersAreBytes

\* Position finds the first of its bytes.
LEMMA PositionIs ==
  ASSUME NEW D, NEW b \in Seq(D), NEW byte, NEW p \in 1..Len(b),
         b[p] = byte, \A i \in 1..(p - 1) : b[i] # byte
  PROVE  Position(b, byte) = p
<1>. DEFINE First(i) == b[i] = byte /\ \A j \in 1..(i - 1) : b[j] # byte
<1>1. DOMAIN b = 1..Len(b) /\ Len(b) \in Nat
  OBVIOUS
<1>2. p \in DOMAIN b /\ First(p)
  BY <1>1
<1>3. ASSUME NEW i \in DOMAIN b, First(i) PROVE i = p
  BY <1>1, <1>3
<1>4. Position(b, byte) = CHOOSE i \in DOMAIN b : First(i)
  BY <1>2 DEF Position
<1>. HIDE DEF First
<1>. QED
  BY <1>2, <1>3, <1>4

\* Position finds nothing where the byte is not.
LEMMA PositionNone ==
  ASSUME NEW D, NEW b \in Seq(D), NEW byte, \A i \in 1..Len(b) : b[i] # byte
  PROVE  Position(b, byte) = 0
BY DEF Position

\* Position answers a place of the buffer, or 0.
LEMMA PositionRange ==
  ASSUME NEW D, NEW b \in Seq(D), NEW byte
  PROVE  Position(b, byte) \in 0..Len(b)
<1>. DEFINE P(i) == b[i] = byte /\ \A j \in 1..(i - 1) : b[j] # byte
            T == {i \in 1..Len(b) : b[i] = byte}
<1>1. DOMAIN b = 1..Len(b) /\ Len(b) \in Nat
  OBVIOUS
<1>2. CASE T = {}
  <2>1. Position(b, byte) = 0
    BY <1>1, <1>2, PositionNone
  <2>. QED
    BY <1>1, <2>1
<1>3. CASE T # {}
  <2>1. T \subseteq Nat
    OBVIOUS
  <2>2. PICK i \in T : \A k \in T : i <= k
    <3>. HIDE DEF T
    <3>. QED
      BY <1>3, <2>1, LeastNat
  <2>3. \A j \in 1..(i - 1) : j \in 1..Len(b) /\ ~(i <= j)
    BY <1>1, <2>2
  <2>4. \A j \in 1..(i - 1) : b[j] # byte
    BY <2>2, <2>3
  <2>5. Position(b, byte) = i
    BY <2>2, <2>4, PositionIs
  <2>. QED
    BY <1>1, <2>2, <2>5
<1>. QED
  BY <1>2, <1>3

\* A decimal of one digit is read back.
LEMMA DigitIsRead ==
  ASSUME NEW n \in 0..9, NEW raw, raw = <<DigitChars[n + 1]>>
  PROVE  ParseUsize(raw) = n /\ ParseNetstringLen(raw) = n
<1>1. raw # <<>> /\ Len(raw) = 1 /\ raw[1] = DigitChars[n + 1] /\ raw[1] # "+" /\ DOMAIN raw = {1}
  BY DEF DigitChars
<1>2. AllDigits(raw)
  BY <1>1 DEF AllDigits, Contains, DigitChars
<1>3. DigitValue(raw[1]) = n
  <2>. DEFINE I == {i \in 1..Len(DigitChars) : DigitChars[i] = raw[1]}
  <2>1. I = {n + 1}
    BY <1>1 DEF DigitChars
  <2>2. DigitValue(raw[1]) = (IF I # {} THEN Min(I) ELSE 0) - 1
    BY Zenon DEF DigitValue, SelectInSeq
  <2>. HIDE DEF I
  <2>3. Min(I) = n + 1
    BY <2>1, MinIsLeast
  <2>. QED
    BY <2>1, <2>2, <2>3
<1>4. DecimalValue(raw) = n
  <2>. DEFINE Is(g) == g = [i \in 0..Len(raw) |->
                              IF i = 0 THEN 0 ELSE 10 * g[i - 1] + DigitValue(raw[i])]
              h == [i \in 0..Len(raw) |-> IF i = 0 THEN 0 ELSE n]
  <2>1. DecimalValue(raw) = (CHOOSE g : Is(g))[Len(raw)]
    BY Zenon DEF DecimalValue
  <2>2. Is(h)
    <3>1. 0..Len(raw) = {0, 1}
      BY <1>1
    <3>. QED
      BY <1>1, <1>3, <3>1
  <2>3. ASSUME NEW g, Is(g) PROVE g[1] = n
    <3>1. 0..Len(raw) = {0, 1}
      BY <1>1
    <3>2. g[0] = 0 /\ g[1] = 10 * g[0] + DigitValue(raw[1])
      BY <2>3, <3>1
    <3>. QED
      BY <1>3, <3>2
  <2>. HIDE DEF Is, h
  <2>. QED
    BY <1>1, <2>1, <2>2, <2>3
<1>5. n <= UsizeMax
  BY ItemsAreShort, UsizeMaxNat
<1>. QED
  BY <1>1, <1>2, <1>4, <1>5 DEF ParseUsize, ParseNetstringLen

\* A part of a sequence, by its places.
LEMMA PartIs ==
  ASSUME NEW D, NEW b \in Seq(D), NEW t \in Seq(D), NEW p \in Nat, NEW q, q = p + Len(t),
         q <= Len(b), \A i \in 1..Len(t) : b[p + i] = t[i]
  PROVE  SubSeq(b, p + 1, q) = t
<1>. DEFINE u == SubSeq(b, p + 1, q)
<1>1. Len(t) \in Nat /\ Len(b) \in Nat
  OBVIOUS
<1>2. u \in Seq(D) /\ Len(u) = Len(t) /\ \A i \in 1..Len(t) : u[i] = b[p + i]
  BY <1>1
<1>. HIDE DEF u
<1>3. u = t
  BY <1>2, SameSequence
<1>. QED
  BY <1>3 DEF u

\* What follows the first n.
After(b, n) == From(b, n + 1)

\* What follows a frame is the rest.
LEMMA AfterFrame ==
  ASSUME NEW D, NEW b \in Seq(D), NEW fr \in Seq(D), NEW z \in Seq(D), Joins(b, fr, z)
  PROVE  After(b, Len(fr)) = z
<1>1. /\ Len(b) = Len(fr) + Len(z) /\ Len(fr) \in Nat /\ Len(z) \in Nat
      /\ \A i \in 1..Len(z) : b[Len(fr) + i] = z[i]
  BY ConcatAt
<1>2. SubSeq(b, Len(fr) + 1, Len(b)) = z
  <2>1. Len(b) <= Len(b)
    BY <1>1
  <2>. QED
    BY <1>1, <2>1, PartIs
<1>. QED
  BY <1>2 DEF After, From

(***************************************************************************)
(* The bytes of a frame.                                                   *)
(***************************************************************************)
LEMMA NewlineShape ==
  ASSUME NEW item \in Seq(Bytes), NEW fr, Framed(fr, "newline", item)
  PROVE  /\ fr \in Seq(Bytes) /\ Len(item) \in Nat
         /\ Len(fr) = Len(item) + 1 /\ fr[Len(item) + 1] = "LF"
         /\ \A i \in 1..Len(item) : fr[i] = item[i]
<1>1. fr = Append(item, "LF")
  BY DEF Framed, FrameOf, Frame, Rendered
<1>2. "LF" \in Bytes
  BY DelimitersSent
<1>. QED
  BY <1>1, <1>2

\* The places of an event's frame.
LEMMA EventShape ==
  ASSUME NEW item \in Seq(Bytes), NEW fr, Framed(fr, "eventStream", item)
  PROVE  /\ fr \in Seq(Bytes) /\ Len(item) \in Nat
         /\ Len(fr) = Len(item) + 2
         /\ fr[Len(item) + 1] = "LF" /\ fr[Len(item) + 2] = "LF"
         /\ \A i \in 1..Len(item) : fr[i] = item[i]
<1>. DEFINE end == <<"LF", "LF">>
<1>1. Joins(fr, item, end)
  BY DEF Framed, FrameOf, Frame, Rendered, Joins
<1>2. end \in Seq(Bytes)
  BY DelimitersSent
<1>3. Len(end) = 2 /\ end[1] = "LF" /\ end[2] = "LF"
  OBVIOUS
<1>. HIDE DEF end
<1>4. /\ fr \in Seq(Bytes) /\ Len(fr) = Len(item) + Len(end) /\ Len(item) \in Nat
      /\ \A i \in 1..Len(item) : fr[i] = item[i]
      /\ \A i \in 1..Len(end) : fr[Len(item) + i] = end[i]
  BY <1>1, <1>2, ConcatAt
<1>5. 1 \in 1..Len(end) /\ 2 \in 1..Len(end)
  BY <1>3
<1>. QED
  BY <1>3, <1>4, <1>5

\* The places of a netstring.
LEMMA NetstringShape ==
  ASSUME NEW item \in Seq(Bytes), Len(item) \in 0..9, NEW fr, Framed(fr, "netstring", item)
  PROVE  /\ fr \in Seq(Bytes) /\ Len(item) \in Nat
         /\ Len(fr) = Len(item) + 3
         /\ fr[1] = DigitChars[Len(item) + 1] /\ fr[2] = ":"
         /\ \A i \in 1..Len(item) : fr[2 + i] = item[i]
         /\ fr[Len(item) + 3] = Comma
<1>. DEFINE L == Len(item)
            d == DigitChars[L + 1]
            single == <<d>>
            colon == <<":">>
            head == single \o colon
            end == <<Comma>>
            body == head \o item
<1>1. Joins(fr, body, end) /\ Joins(body, head, item) /\ Joins(head, single, colon)
  BY DEF Framed, FrameOf, Frame, Rendered, LengthPrefix, Joins
<1>2. d \in Bytes /\ ":" \in Bytes /\ Comma \in Bytes
  <2>1. L + 1 \in 1..10
    <3>1. \A n \in 0..9 : n + 1 \in 1..10
      OBVIOUS
    <3>. QED
      BY <3>1, Zenon
  <2>. QED
    BY <2>1, DelimitersSent
<1>3. L \in Nat /\ L = Len(item)
  OBVIOUS
<1>. HIDE DEF L, d
<1>4. single \in Seq(Bytes) /\ colon \in Seq(Bytes) /\ end \in Seq(Bytes)
  BY <1>2
<1>5. /\ Len(single) = 1 /\ single[1] = d
      /\ Len(colon) = 1 /\ colon[1] = ":"
      /\ Len(end) = 1 /\ end[1] = Comma
  OBVIOUS
<1>. HIDE DEF single, colon, head, end, body
<1>6. /\ head \in Seq(Bytes) /\ Len(head) = Len(single) + Len(colon)
      /\ \A i \in 1..Len(single) : head[i] = single[i]
      /\ \A i \in 1..Len(colon) : head[Len(single) + i] = colon[i]
  BY <1>1, <1>4, ConcatAt
<1>7. Len(head) = 2 /\ head[1] = d /\ head[2] = ":"
  <2>1. 1 \in 1..Len(single) /\ 1 \in 1..Len(colon) /\ Len(single) + 1 = 2
    BY <1>5
  <2>. QED
    BY <1>5, <1>6, <2>1
<1>8. /\ body \in Seq(Bytes) /\ Len(body) = Len(head) + L
      /\ \A i \in 1..Len(head) : body[i] = head[i]
      /\ \A i \in 1..L : body[Len(head) + i] = item[i]
  <2>1. head \in Seq(Bytes)
    BY <1>6
  <2>. QED
    BY <1>1, <1>3, <2>1, ConcatAt
<1>9. Len(body) = L + 2
  BY <1>3, <1>7, <1>8
<1>10. /\ fr \in Seq(Bytes) /\ Len(fr) = Len(body) + Len(end)
       /\ \A i \in 1..Len(body) : fr[i] = body[i]
       /\ \A i \in 1..Len(end) : fr[Len(body) + i] = end[i]
  <2>1. body \in Seq(Bytes) /\ end \in Seq(Bytes)
    BY <1>4, <1>8
  <2>. QED
    BY <1>1, <2>1, ConcatAt
<1>11. \A i \in 1..L : fr[2 + i] = item[i]
  <2>. SUFFICES ASSUME NEW i \in 1..L PROVE fr[2 + i] = item[i]
    OBVIOUS
  <2>1. 2 + i \in 1..Len(body)
    BY <1>3, <1>9
  <2>2. body[2 + i] = item[i]
    BY <1>7, <1>8
  <2>. QED
    BY <1>10, <2>1, <2>2
<1>12. fr[1] = d /\ fr[2] = ":"
  <2>1. 1 \in 1..Len(body) /\ 2 \in 1..Len(body) /\ 1 \in 1..Len(head) /\ 2 \in 1..Len(head)
    BY <1>3, <1>7, <1>9
  <2>. QED
    BY <1>7, <1>8, <1>10, <2>1
<1>13. fr[L + 3] = Comma /\ Len(fr) = L + 3
  <2>1. Len(body) + 1 = L + 3 /\ 1 \in 1..Len(end)
    BY <1>3, <1>5, <1>9
  <2>. QED
    BY <1>5, <1>10, <2>1
<1>. QED
  BY <1>3, <1>10, <1>11, <1>12, <1>13 DEF L, d

\* A frame has bytes.
LEMMA FrameIsText ==
  ASSUME NEW f \in Framings, NEW item \in Items[f], NEW fr, Framed(fr, f, item)
  PROVE  fr \in Seq(Bytes) /\ fr # <<>>
<1>1. /\ item \in Seq(Bytes) /\ Len(item) \in 0..9 /\ f \in FramingNames
      /\ f = "none" => item # <<>>
  BY ItemFacts
<1>2. CASE f = "none"
  BY <1>1, <1>2 DEF Framed, FrameOf, Frame, Rendered
<1>3. CASE f = "newline"
  <2>1. fr \in Seq(Bytes) /\ Len(fr) = Len(item) + 1 /\ Len(item) \in Nat
    BY <1>1, <1>3, NewlineShape
  <2>. QED
    BY <2>1
<1>4. CASE f = "eventStream"
  <2>1. fr \in Seq(Bytes) /\ Len(fr) = Len(item) + 2 /\ Len(item) \in Nat
    BY <1>1, <1>4, EventShape
  <2>. QED
    BY <2>1
<1>5. CASE f = "netstring"
  <2>1. fr \in Seq(Bytes) /\ Len(fr) = Len(item) + 3 /\ Len(item) \in Nat
    BY <1>1, <1>5, NetstringShape
  <2>. QED
    BY <2>1
<1>. QED
  BY <1>1, <1>2, <1>3, <1>4, <1>5 DEF FramingNames

\* The places of a buffer that starts with a frame.
LEMMA WholeShape ==
  ASSUME NEW fr \in Seq(Bytes), NEW z \in Seq(Bytes), NEW b, Joins(b, fr, z)
  PROVE  /\ b \in Seq(Bytes) /\ Len(fr) \in Nat /\ Len(b) \in Nat /\ Len(fr) <= Len(b)
         /\ \A i \in 1..Len(fr) : b[i] = fr[i]
         /\ After(b, Len(fr)) = z
<1>2. /\ b \in Seq(Bytes)
      /\ Len(b) = Len(fr) + Len(z) /\ Len(fr) \in Nat /\ Len(z) \in Nat
      /\ \A i \in 1..Len(fr) : b[i] = fr[i]
  BY ConcatAt
<1>3. After(b, Len(fr)) = z
  BY <1>2, AfterFrame
<1>4. Len(fr) <= Len(b) /\ Len(b) \in Nat
  BY <1>2
<1>. QED
  BY <1>2, <1>3, <1>4

\* DeframeNewline takes an item without a line feed out of its frame.
LEMMA NewlineWhole ==
  ASSUME "newline" \in Framings, NEW item \in Items["newline"], NEW fr, Framed(fr, "newline", item),
         NEW z \in Seq(Bytes), NEW b, Joins(b, fr, z), NEW e
  PROVE  DeframeNewline(b, e) = Deframed(item, z)
<1>. DEFINE L == Len(item)
<1>1. /\ L \in Nat /\ item \in Seq(Bytes) /\ Len(fr) = L + 1 /\ fr[L + 1] = "LF"
      /\ \A i \in 1..L : fr[i] = item[i]
      /\ \A i \in 1..L : item[i] # "LF"
  <2>1. item \in Seq(Bytes) /\ \A i \in 1..L : item[i] # "LF"
    BY ItemFacts
  <2>. QED
    BY <2>1, NewlineShape
<1>2. /\ b \in Seq(Bytes) /\ Len(b) \in Nat /\ L + 1 <= Len(b)
      /\ \A i \in 1..(L + 1) : b[i] = fr[i]
      /\ After(b, L + 1) = z
  <2>1. fr \in Seq(Bytes)
    BY FrameIsText
  <2>. QED
    BY <1>1, <2>1, WholeShape
<1>. HIDE DEF L
<1>3. L + 1 \in 1..Len(b) /\ b[L + 1] = "LF" /\ (L + 1) - 1 = L /\ L + 1 # 0
  BY <1>1, <1>2
<1>4. \A i \in 1..L : b[i] = item[i]
  BY <1>1, <1>2
<1>5. Position(b, "LF") = L + 1
  <2>1. \A i \in 1..(L + 1 - 1) : b[i] # "LF"
    BY <1>1, <1>3, <1>4
  <2>. QED
    BY <1>2, <1>3, <2>1, PositionIs
<1>6. SubSeq(b, 1, L) = item
  <2>1. L = Len(item) /\ L <= Len(b) /\ 0 + L = L /\ 0 + 1 = 1 /\ \A i \in 1..L : 0 + i = i
    BY <1>1, <1>2 DEF L
  <2>2. \A i \in 1..Len(item) : b[0 + i] = item[i]
    BY <1>4, <2>1
  <2>3. SubSeq(b, 0 + 1, L) = item
    BY <1>1, <1>2, <2>1, <2>2, PartIs
  <2>. QED
    BY <2>1, <2>3
<1>. QED
  BY <1>2, <1>3, <1>5, <1>6 DEF DeframeNewline, After

\* Whether a text stands at a place of a buffer.
FitsAt(s, i, p) == i + Len(p) - 1 <= Len(s) /\ \A j \in 1..Len(p) : s[i + j - 1] = p[j]

\* A prefix of what is left, place by place.
LEMMA PrefixAt ==
  ASSUME NEW D, NEW s \in Seq(D), NEW i \in 1..Len(s), NEW E, NEW p \in Seq(E)
  PROVE  IsPrefix(p, From(s, i)) <=> FitsAt(s, i, p)
<1>. DEFINE t == SubSeq(s, i, Len(s))
            n == Len(p)
            pn == SubSeq(p, 1, n)
            tn == SubSeq(t, 1, n)
<1>1. /\ t \in Seq(D) /\ Len(t) = Len(s) - i + 1 /\ Len(s) \in Nat /\ n \in Nat /\ i \in Nat
      /\ \A j \in 1..Len(t) : t[j] = s[i + j - 1]
  OBVIOUS
<1>2. pn = [j \in 1..n |-> p[j]]
  <2>1. pn \in Seq(E) /\ Len(pn) = n /\ \A j \in 1..n : pn[j] = p[j]
    OBVIOUS
  <2>. HIDE DEF pn
  <2>2. pn = [j \in 1..Len(pn) |-> pn[j]]
    BY <2>1
  <2>. QED
    BY <2>1, <2>2
<1>. HIDE DEF t
<1>3. ASSUME n <= Len(t) PROVE tn = [j \in 1..n |-> s[i + j - 1]]
  <2>1. tn \in Seq(D) /\ Len(tn) = n /\ \A j \in 1..n : tn[j] = t[j] /\ j \in 1..Len(t)
    BY <1>1, <1>3
  <2>. HIDE DEF tn, n
  <2>2. tn = [j \in 1..Len(tn) |-> tn[j]]
    BY <2>1
  <2>3. \A j \in 1..n : tn[j] = s[i + j - 1]
    BY <1>1, <2>1
  <2>. QED
    BY <2>1, <2>2, <2>3
<1>4. n <= Len(t) <=> i + n - 1 <= Len(s)
  <2>. HIDE DEF n
  <2>. QED
    BY <1>1
<1>5. IsPrefix(p, t) <=> n <= Len(t) /\ pn = tn
  BY DEF IsPrefix
<1>. HIDE DEF n, pn, tn
<1>6. ASSUME n <= Len(t) PROVE pn = tn <=> \A j \in 1..n : s[i + j - 1] = p[j]
  <2>1. pn = tn => \A j \in 1..n : s[i + j - 1] = p[j]
    <3>. SUFFICES ASSUME pn = tn, NEW j \in 1..n PROVE s[i + j - 1] = p[j]
      OBVIOUS
    <3>1. pn[j] = p[j] /\ tn[j] = s[i + j - 1]
      BY <1>2, <1>3, <1>6, Zenon
    <3>. QED
      BY <3>1
  <2>2. (\A j \in 1..n : s[i + j - 1] = p[j]) => pn = tn
    BY <1>2, <1>3, <1>6, Zenon
  <2>. QED
    BY <2>1, <2>2
<1>. QED
  BY <1>4, <1>5, <1>6 DEF FitsAt, From, t, n

\* What the four blank lines have in common.
LEMMA BlankFacts ==
  ASSUME NEW blank \in BlankLines
  PROVE  /\ blank \in Seq({"LF", "CR"}) /\ Len(blank) \in 2..4
         /\ Len(blank) = 4 => blank[3] = "CR"
         /\ blank[1] = "LF" /\ blank[2] = "LF" => Len(blank) = 2
<1>1. CASE blank = <<"LF", "LF">>
  <2>1. blank \in Seq({"LF", "CR"})
    BY <1>1
  <2>2. Len(blank) = 2 /\ blank[1] = "LF" /\ blank[2] = "LF"
    BY <1>1
  <2>. QED
    BY <2>1, <2>2
<1>2. CASE blank = <<"LF", "CR", "LF">>
  <2>1. blank \in Seq({"LF", "CR"})
    BY <1>2
  <2>2. Len(blank) = 3 /\ blank[1] = "LF" /\ blank[2] = "CR" /\ blank[3] = "LF"
    BY <1>2
  <2>. QED
    BY <2>1, <2>2
<1>3. CASE blank = <<"CR", "CR">>
  <2>1. blank \in Seq({"LF", "CR"})
    BY <1>3
  <2>2. Len(blank) = 2 /\ blank[1] = "CR" /\ blank[2] = "CR"
    BY <1>3
  <2>. QED
    BY <2>1, <2>2
<1>4. CASE blank = <<"CR", "LF", "CR", "LF">>
  <2>1. blank \in Seq({"LF", "CR"})
    BY <1>4
  <2>2. Len(blank) = 4 /\ blank[1] = "CR" /\ blank[2] = "LF" /\ blank[3] = "CR" /\ blank[4] = "LF"
    BY <1>4
  <2>. QED
    BY <2>1, <2>2
<1>. QED
  BY <1>1, <1>2, <1>3, <1>4 DEF BlankLines

\* find_event_end, place by place.
LEMMA BlankFits ==
  ASSUME NEW D, NEW s \in Seq(D), NEW i \in 1..Len(s)
  PROVE  /\ BlankLineAt(s, i) <=> \E blank \in BlankLines : FitsAt(s, i, blank)
         /\ \A blank \in BlankLines : IsPrefix(blank, From(s, i)) => FitsAt(s, i, blank)
<1>1. \A blank \in BlankLines : IsPrefix(blank, From(s, i)) <=> FitsAt(s, i, blank)
  BY BlankFacts, PrefixAt
<1>. QED
  BY <1>1, Zenon DEF BlankLineAt

\* Before the end of a rendered event that starts a buffer, no blank line.
LEMMA NoEarlyBlank ==
  ASSUME "eventStream" \in Framings, NEW item \in Items["eventStream"],
         NEW fr, Framed(fr, "eventStream", item), NEW b \in Seq(Bytes),
         \A i \in 1..Len(b) : i <= Len(fr) => b[i] = fr[i],
         NEW i \in 1..Len(b), i <= Len(item)
  PROVE  ~BlankLineAt(b, i)
<1>. DEFINE L == Len(item)
<1>1. /\ L \in Nat /\ fr \in Seq(Bytes) /\ Len(fr) = L + 2 /\ fr[L + 1] = "LF" /\ fr[L + 2] = "LF"
      /\ \A j \in 1..L : ~BlankLineAt(fr, j)
  <2>1. fr = Rendered("eventStream", item)
    BY DEF Framed, FrameOf, Frame
  <2>2. \A j \in 1..L : ~BlankLineAt(fr, j)
    BY <2>1, ItemFacts
  <2>3. item \in Seq(Bytes)
    BY ItemFacts
  <2>. QED
    BY <2>2, <2>3, EventShape
<1>. HIDE DEF L
<1>2. i \in 1..L /\ i \in 1..Len(fr) /\ i \in Nat /\ Len(b) \in Nat
  BY <1>1 DEF L
<1>3. SUFFICES ASSUME NEW blank \in BlankLines, FitsAt(b, i, blank) PROVE FALSE
  BY BlankFits, Zenon
<1>4. Len(blank) \in 2..4 /\ (Len(blank) = 4 => blank[3] = "CR")
  BY BlankFacts
<1>5. CASE i + Len(blank) - 1 <= L + 2
  <2>1. ASSUME NEW j \in 1..Len(blank) PROVE fr[i + j - 1] = blank[j]
    <3>1. i + j - 1 \in 1..Len(b) /\ i + j - 1 <= Len(fr)
      BY <1>1, <1>2, <1>3, <1>4, <1>5 DEF FitsAt
    <3>2. b[i + j - 1] = blank[j]
      BY <1>3 DEF FitsAt
    <3>. QED
      BY <3>1, <3>2
  <2>2. FitsAt(fr, i, blank)
    BY <1>1, <1>5, <2>1 DEF FitsAt
  <2>3. BlankLineAt(fr, i)
    BY <1>1, <1>2, <2>2, BlankFits
  <2>. QED
    BY <1>1, <1>2, <2>3
<1>6. CASE ~(i + Len(blank) - 1 <= L + 2)
  <2>1. i = L /\ Len(blank) = 4
    <3>1. \A k \in 2..4 : ~(i + k - 1 <= L + 2) => i = L /\ k = 4
      <4>1. i \in Nat /\ L \in Nat /\ i <= L
        BY <1>1, <1>2
      <4>. QED
        BY <4>1
    <3>. QED
      BY <1>4, <1>6, <3>1, Zenon
  <2>2. 3 \in 1..Len(blank) /\ i + 3 - 1 = L + 2
    BY <1>1, <2>1
  <2>3. L + 2 \in 1..Len(b) /\ L + 2 <= Len(fr)
    BY <1>1, <1>2, <1>3, <2>1 DEF FitsAt
  <2>4. b[L + 2] = "LF"
    BY <1>1, <2>3
  <2>5. b[L + 2] = "CR"
    <3>1. b[i + 3 - 1] = blank[3]
      BY <1>3, <2>2 DEF FitsAt
    <3>. QED
      BY <1>4, <2>1, <2>2, <3>1
  <2>. QED
    BY <2>4, <2>5
<1>. QED
  BY <1>5, <1>6

\* find_event_end finds the blank line after a rendered event.
LEMMA EventWhole ==
  ASSUME "eventStream" \in Framings, NEW item \in Items["eventStream"],
         NEW fr, Framed(fr, "eventStream", item),
         NEW z \in Seq(Bytes), NEW b, Joins(b, fr, z), NEW e
  PROVE  DeframeEvent(b, e) = Deframed(item, z)
<1>. DEFINE L == Len(item)
            p == L + 1
            ends == {i \in DOMAIN b : BlankLineAt(b, i)}
            first == CHOOSE i \in ends : \A j \in ends : i <= j
            blank == CHOOSE bl \in BlankLines : IsPrefix(bl, From(b, first))
            end == <<"LF", "LF">>
<1>1. /\ L \in Nat /\ item \in Seq(Bytes) /\ Len(fr) = L + 2
      /\ fr[L + 1] = "LF" /\ fr[L + 2] = "LF"
      /\ \A i \in 1..L : fr[i] = item[i]
  <2>1. item \in Seq(Bytes)
    BY ItemFacts
  <2>. QED
    BY <2>1, EventShape
<1>2. /\ b \in Seq(Bytes) /\ Len(b) \in Nat /\ L + 2 <= Len(b)
      /\ \A i \in 1..(L + 2) : b[i] = fr[i]
      /\ After(b, L + 2) = z
  <2>1. fr \in Seq(Bytes)
    BY FrameIsText
  <2>. QED
    BY <1>1, <2>1, WholeShape
<1>. HIDE DEF L
<1>3. /\ p \in 1..Len(b) /\ p \in Nat /\ DOMAIN b = 1..Len(b)
      /\ b[L + 1] = "LF" /\ b[L + 2] = "LF" /\ p + 1 = L + 2 /\ p - 1 = L
  BY <1>1, <1>2
<1>4. BlankLineAt(b, p)
  <2>1. end \in BlankLines /\ Len(end) = 2 /\ end[1] = "LF" /\ end[2] = "LF"
    BY DEF BlankLines
  <2>. HIDE DEF end
  <2>2. \A j \in 1..2 : j = 1 \/ j = 2
    OBVIOUS
  <2>3. p + 1 - 1 = L + 1 /\ p + 2 - 1 = L + 2
    BY <1>1
  <2>. HIDE DEF p
  <2>4. \A j \in 1..Len(end) : b[p + j - 1] = end[j]
    BY <1>3, <2>1, <2>2, <2>3
  <2>5. p + Len(end) - 1 <= Len(b)
    BY <1>2, <2>1, <2>3
  <2>6. FitsAt(b, p, end)
    BY <2>4, <2>5 DEF FitsAt
  <2>. QED
    BY <1>2, <1>3, <2>1, <2>6, BlankFits
<1>5. ASSUME NEW i \in 1..Len(b), BlankLineAt(b, i) PROVE p <= i
  <2>1. \A k \in 1..Len(b) : k <= Len(fr) => b[k] = fr[k]
    BY <1>1, <1>2
  <2>2. ~(i <= Len(item))
    BY <1>2, <1>5, <2>1, NoEarlyBlank
  <2>. QED
    BY <1>1, <2>2 DEF L
<1>6. first = p
  <2>1. p \in ends /\ ends \subseteq 1..Len(b)
    BY <1>3, <1>4
  <2>2. \A i \in ends : p <= i
    BY <1>3, <1>5
  <2>. HIDE DEF ends, p
  <2>3. \A i \in ends : (\A j \in ends : i <= j) => i = p
    BY <1>2, <1>3, <2>1, <2>2
  <2>. QED
    BY <2>1, <2>2, <2>3
<1>7. Len(blank) = 2
  <2>1. \E bl \in BlankLines : IsPrefix(bl, From(b, first))
    BY <1>4, <1>6, Zenon DEF BlankLineAt
  <2>2. blank \in BlankLines /\ IsPrefix(blank, From(b, first))
    BY <2>1, Zenon
  <2>. HIDE DEF blank, first, p
  <2>3. FitsAt(b, p, blank)
    BY <1>2, <1>3, <1>6, <2>2, BlankFits
  <2>4. Len(blank) \in 2..4
    BY <2>2, BlankFacts
  <2>5. b[p + 1 - 1] = blank[1] /\ b[p + 2 - 1] = blank[2]
    <3>1. 1 \in 1..Len(blank) /\ 2 \in 1..Len(blank)
      <4>1. \A k \in 2..4 : 1 \in 1..k /\ 2 \in 1..k
        OBVIOUS
      <4>. QED
        BY <2>4, <4>1, Zenon
    <3>. QED
      BY <2>3, <3>1 DEF FitsAt
  <2>6. p + 1 - 1 = L + 1 /\ p + 2 - 1 = L + 2
    BY <1>1 DEF p
  <2>. QED
    BY <1>3, <2>2, <2>5, <2>6, BlankFacts
<1>8. SubSeq(b, 1, L) = item
  <2>1. L = Len(item) /\ L <= Len(b) /\ 0 + L = L /\ 0 + 1 = 1 /\ \A i \in 1..L : 0 + i = i
    BY <1>1, <1>2 DEF L
  <2>2. \A i \in 1..Len(item) : b[0 + i] = item[i]
    BY <1>1, <1>2, <2>1
  <2>3. SubSeq(b, 0 + 1, L) = item
    BY <1>1, <1>2, <2>1, <2>2, PartIs
  <2>. QED
    BY <2>1, <2>3
<1>9. ends # {}
  BY <1>3, <1>4
<1>10. DeframeEvent(b, e) = Deframed(SubSeq(b, 1, first - 1), From(b, first + Len(blank)))
  BY <1>9, Zenon DEF DeframeEvent
<1>11. first - 1 = L /\ first + Len(blank) = L + 2 + 1
  <2>. HIDE DEF first, blank
  <2>. QED
    BY <1>1, <1>6, <1>7
<1>. QED
  BY <1>2, <1>8, <1>10, <1>11, Zenon DEF After

\* The places of a buffer that holds part of a frame only.
LEMMA PartPlaces ==
  ASSUME NEW fr \in Seq(Bytes), NEW b \in Seq(Bytes), NEW y \in Seq(Bytes), y # <<>>,
         Joins(fr, b, y)
  PROVE  /\ Len(b) \in Nat /\ Len(fr) \in Nat /\ Len(b) < Len(fr)
         /\ \A i \in 1..Len(b) : b[i] = fr[i]
<1>1. /\ Len(fr) = Len(b) + Len(y) /\ Len(b) \in Nat /\ Len(y) \in Nat
      /\ \A i \in 1..Len(b) : fr[i] = b[i]
  BY ConcatAt
<1>2. Len(y) # 0
  OBVIOUS
<1>3. Len(b) < Len(fr) /\ Len(fr) \in Nat
  BY <1>1, <1>2
<1>. QED
  BY <1>1, <1>3

\* Without its line feed, an item is not taken out.
LEMMA NewlinePart ==
  ASSUME "newline" \in Framings, NEW item \in Items["newline"], NEW fr, Framed(fr, "newline", item),
         NEW b \in Seq(Bytes), NEW y \in Seq(Bytes), y # <<>>, Joins(fr, b, y), NEW e
  PROVE  DeframeNewline(b, e) = Flush(b, e)
<1>1. item \in Seq(Bytes) /\ \A i \in 1..Len(item) : item[i] # "LF"
  BY ItemFacts
<1>2. /\ fr \in Seq(Bytes) /\ Len(item) \in Nat /\ Len(fr) = Len(item) + 1
      /\ \A i \in 1..Len(item) : fr[i] = item[i]
  BY <1>1, NewlineShape
<1>3. /\ Len(b) \in Nat /\ Len(b) < Len(fr)
      /\ \A i \in 1..Len(b) : b[i] = fr[i]
  BY <1>2, PartPlaces
<1>4. ASSUME NEW i \in 1..Len(b) PROVE b[i] # "LF"
  <2>1. i \in 1..Len(item)
    BY <1>2, <1>3
  <2>. QED
    BY <1>1, <1>2, <1>3, <2>1
<1>5. Position(b, "LF") = 0
  BY <1>4, PositionNone
<1>. QED
  BY <1>5 DEF DeframeNewline

\* Without its blank line, an event is not taken out.
LEMMA EventPart ==
  ASSUME "eventStream" \in Framings, NEW item \in Items["eventStream"],
         NEW fr, Framed(fr, "eventStream", item),
         NEW b \in Seq(Bytes), NEW y \in Seq(Bytes), y # <<>>, Joins(fr, b, y), NEW e
  PROVE  DeframeEvent(b, e) = Flush(b, e)
<1>. DEFINE ends == {i \in DOMAIN b : BlankLineAt(b, i)}
<1>1. item \in Seq(Bytes)
  BY ItemFacts
<1>2. fr \in Seq(Bytes) /\ Len(item) \in Nat /\ Len(fr) = Len(item) + 2
  BY <1>1, EventShape
<1>3. /\ Len(b) \in Nat /\ Len(b) < Len(fr)
      /\ \A i \in 1..Len(b) : b[i] = fr[i]
  BY <1>2, PartPlaces
<1>4. ASSUME NEW i \in 1..Len(b) PROVE ~BlankLineAt(b, i)
  <2>1. CASE i <= Len(item)
    BY <1>3, <2>1, NoEarlyBlank
  <2>2. CASE ~(i <= Len(item))
    <3>1. SUFFICES ASSUME NEW blank \in BlankLines, FitsAt(b, i, blank) PROVE FALSE
      BY BlankFits, Zenon
    <3>2. i + Len(blank) - 1 <= Len(b)
      BY <3>1 DEF FitsAt
    <3>3. \A k \in 2..4 : ~(i + k - 1 <= Len(b))
      <4>1. i \in Nat /\ Len(item) \in Nat /\ Len(b) \in Nat /\ Len(b) < Len(item) + 2 /\ ~(i <= Len(item))
        BY <1>2, <1>3, <2>2
      <4>. QED
        BY <4>1
    <3>. QED
      BY <3>2, <3>3, BlankFacts, Zenon
  <2>. QED
    BY <2>1, <2>2
<1>5. ends = {}
  <2>1. DOMAIN b = 1..Len(b)
    OBVIOUS
  <2>. QED
    BY <1>4, <2>1, Zenon
<1>. QED
  BY <1>5, Zenon DEF DeframeEvent

\* How a netstring begins.
LEMMA NetstringHead ==
  ASSUME NEW item \in Seq(Bytes), Len(item) \in 0..9, NEW fr, Framed(fr, "netstring", item),
         NEW b \in Seq(Bytes), \A i \in 1..Len(b) : i <= Len(fr) => b[i] = fr[i]
  PROVE  /\ Len(b) < 2 => Position(b, ":") = 0
         /\ Len(b) >= 2 =>
              /\ Position(b, ":") = 2
              /\ ParseUsize(SubSeq(b, 1, 2 - 1)) = Len(item)
              /\ ParseNetstringLen(SubSeq(b, 1, 2 - 1)) = Len(item)
         /\ NetstringEnd(2, Len(item)) = Len(item) + 3
         /\ Len(item) # None /\ Len(item) + 3 # None
<1>1. /\ Len(item) \in Nat /\ Len(fr) = Len(item) + 3
      /\ fr[1] = DigitChars[Len(item) + 1] /\ fr[2] = ":"
  BY NetstringShape
<1>2. fr[1] # ":"
  <2>1. \A n \in 0..9 : DigitChars[n + 1] # ":"
    BY DEF DigitChars
  <2>. QED
    BY <1>1, <2>1
<1>3. Len(b) \in Nat /\ 1 <= Len(fr) /\ 2 <= Len(fr)
  BY <1>1
<1>4. ASSUME Len(b) < 2 PROVE Position(b, ":") = 0
  <2>1. \A i \in 1..Len(b) : i = 1
    BY <1>3, <1>4
  <2>2. \A i \in 1..Len(b) : b[i] # ":"
    BY <1>2, <1>3, <2>1
  <2>. QED
    BY <2>2, PositionNone
<1>5. ASSUME Len(b) >= 2
      PROVE  /\ Position(b, ":") = 2
             /\ SubSeq(b, 1, 2 - 1) = <<DigitChars[Len(item) + 1]>>
  <2>1. 1 \in 1..Len(b) /\ 2 \in 1..Len(b)
    BY <1>3, <1>5
  <2>2. b[1] = fr[1] /\ b[2] = fr[2]
    BY <1>3, <2>1
  <2>3. \A i \in 1..(2 - 1) : b[i] # ":"
    BY <1>2, <2>2
  <2>4. Position(b, ":") = 2
    BY <1>1, <2>1, <2>2, <2>3, PositionIs
  <2>5. SubSeq(b, 1, 2 - 1) = <<b[1]>>
    <3>. DEFINE t == <<b[1]>>
    <3>1. t \in Seq(Bytes) /\ Len(t) = 1 /\ t[1] = b[1]
      BY <2>1
    <3>. HIDE DEF t
    <3>2. 2 - 1 = 0 + Len(t) /\ 2 - 1 <= Len(b) /\ 0 + 1 = 1
      BY <1>3, <1>5, <3>1
    <3>3. \A i \in 1..Len(t) : b[0 + i] = t[i]
      BY <3>1
    <3>4. SubSeq(b, 0 + 1, 2 - 1) = t
      BY <3>1, <3>2, <3>3, PartIs
    <3>. QED
      BY <3>2, <3>4 DEF t
  <2>. QED
    BY <1>1, <2>2, <2>4, <2>5
<1>6. NetstringEnd(2, Len(item)) = Len(item) + 3
  <2>1. \A n \in 0..9 : 2 + n + 1 = n + 3 /\ n + 3 <= 12
    OBVIOUS
  <2>2. \A n \in 0..12 : ~(n > UsizeMax)
    BY ItemsAreShort, UsizeMaxNat
  <2>3. \A n \in 0..9 : n + 3 \in 0..12
    OBVIOUS
  <2>4. 2 + Len(item) + 1 = Len(item) + 3 /\ ~(Len(item) + 3 > UsizeMax)
    BY <2>1, <2>2, <2>3
  <2>. QED
    BY <2>4, Zenon DEF NetstringEnd
<1>7. Len(item) # None /\ Len(item) + 3 # None
  <2>1. \A n \in Nat : n + 3 \in Nat
    OBVIOUS
  <2>. QED
    BY <1>1, <2>1, NoneIsNoFrame, Zenon
<1>. QED
  BY <1>4, <1>5, <1>6, <1>7, DigitIsRead

(***************************************************************************)
(* A netstring is taken out of a buffer that starts with it; a longer one  *)
(* than the limit is refused.                                              *)
(***************************************************************************)
LEMMA NetstringWhole ==
  ASSUME NEW item \in Seq(Bytes), Len(item) \in 0..9, NEW fr, Framed(fr, "netstring", item),
         NEW z \in Seq(Bytes), NEW b, Joins(b, fr, z), NEW e, NEW max \in Nat
  PROVE  /\ DeframeNetstring(b) = Deframed(item, z)
         /\ Len(item) <= max => DeframeLimitedNetstring(b, e, max) = Got(Deframed(item, z))
         /\ ~(Len(item) <= max) => DeframeLimitedNetstring(b, e, max) = Refusal("FrameTooLarge")
<1>. DEFINE L == Len(item)
<1>1. /\ L \in Nat /\ fr \in Seq(Bytes) /\ Len(fr) = L + 3
      /\ \A i \in 1..L : fr[2 + i] = item[i]
      /\ fr[L + 3] = Comma
  BY NetstringShape
<1>2. /\ b \in Seq(Bytes) /\ Len(b) \in Nat /\ Len(fr) <= Len(b)
      /\ \A i \in 1..Len(fr) : b[i] = fr[i]
      /\ After(b, Len(fr)) = z
  BY <1>1, WholeShape
<1>3. /\ Position(b, ":") = 2
      /\ ParseUsize(SubSeq(b, 1, 2 - 1)) = L
      /\ ParseNetstringLen(SubSeq(b, 1, 2 - 1)) = L
      /\ NetstringEnd(2, L) = L + 3
      /\ L # None /\ L + 3 # None
  <2>1. \A i \in 1..Len(b) : i <= Len(fr) => b[i] = fr[i]
    BY <1>1, <1>2
  <2>2. Len(b) >= 2
    BY <1>1, <1>2
  <2>. QED
    BY <1>2, <2>1, <2>2, NetstringHead
<1>. HIDE DEF L
<1>4. /\ ~(Len(b) < L + 3) /\ b[L + 3] = Comma
      /\ From(b, L + 3 + 1) = z
  <2>1. L + 3 \in 1..Len(fr) /\ ~(Len(b) < L + 3)
    BY <1>1, <1>2
  <2>. QED
    BY <1>1, <1>2, <2>1 DEF After
<1>5. SubSeq(b, 2 + 1, (L + 3) - 1) = item
  <2>1. (L + 3) - 1 = 2 + Len(item) /\ (L + 3) - 1 <= Len(b) /\ L = Len(item)
    BY <1>1, <1>2 DEF L
  <2>2. \A i \in 1..Len(item) : b[2 + i] = item[i]
    <3>. SUFFICES ASSUME NEW i \in 1..L PROVE b[2 + i] = item[i]
      BY <2>1
    <3>1. 2 + i \in 1..Len(fr)
      BY <1>1
    <3>. QED
      BY <1>1, <1>2, <3>1
  <2>. QED
    BY <1>2, <2>1, <2>2, PartIs
<1>6. NetstringAt(b, 2, L + 3) = Deframed(item, z)
  <2>. DEFINE total == L + 3
  <2>1. ~(Len(b) < total) /\ b[total] = Comma /\ From(b, total + 1) = z /\ SubSeq(b, 2 + 1, total - 1) = item
    BY <1>4, <1>5
  <2>. HIDE DEF total
  <2>2. NetstringAt(b, 2, total) = Deframed(item, z)
    BY <2>1 DEF NetstringAt
  <2>. QED
    BY <2>2 DEF total
<1>7. DeframeNetstring(b) = Deframed(item, z)
  <2>1. 2 # 0
    OBVIOUS
  <2>. QED
    BY <1>3, <1>6, <2>1, Zenon DEF DeframeNetstring
<1>8. LimitedNetstringAt(b, e, 2, L + 3) = Got(Deframed(item, z))
  BY <1>4, <1>6, Zenon DEF LimitedNetstringAt
<1>9. (L <= max) \/ (L > max /\ ~(L <= max))
  BY <1>1
<1>10. ~(L <= max) \/ ~(L > max)
  BY <1>1
<1>11. DeframeLimitedNetstring(b, e, max) =
         CASE L = None -> Refusal("MalformedFrame")
           [] L # None /\ L > max -> Refusal("FrameTooLarge")
           [] L # None /\ L <= max ->
                IF NetstringEnd(2, L) = None
                THEN Refusal("MalformedFrame")
                ELSE LimitedNetstringAt(b, e, 2, NetstringEnd(2, L))
  <2>1. 2 # 0
    OBVIOUS
  <2>. QED
    BY <1>3, <2>1, Zenon DEF DeframeLimitedNetstring
<1>12. L <= max => DeframeLimitedNetstring(b, e, max) = Got(Deframed(item, z))
  BY <1>3, <1>8, <1>10, <1>11
<1>13. ~(L <= max) => DeframeLimitedNetstring(b, e, max) = Refusal("FrameTooLarge")
  BY <1>3, <1>9, <1>11
<1>. QED
  BY <1>7, <1>12, <1>13 DEF L

\* Of a part of a netstring nothing is made: it is awaited, or too long.
LEMMA NetstringPart ==
  ASSUME NEW item \in Seq(Bytes), Len(item) \in 0..9, NEW fr, Framed(fr, "netstring", item),
         NEW b \in Seq(Bytes), NEW y \in Seq(Bytes), y # <<>>, Joins(fr, b, y),
         NEW max \in Nat \ {0}
  PROVE  /\ DeframeNetstring(b) = None
         /\ \/ DeframeLimitedNetstring(b, FALSE, max) = More
            \/ ~(Len(item) <= max) /\ DeframeLimitedNetstring(b, FALSE, max) = Refusal("FrameTooLarge")
<1>. DEFINE L == Len(item)
<1>1. /\ L \in Nat /\ fr \in Seq(Bytes) /\ Len(fr) = L + 3
  BY NetstringShape
<1>2. /\ Len(b) \in Nat /\ Len(b) < Len(fr)
      /\ \A i \in 1..Len(b) : b[i] = fr[i]
  BY <1>1, PartPlaces
<1>3. \A i \in 1..Len(b) : i <= Len(fr) => b[i] = fr[i]
  BY <1>2
<1>4. /\ Len(b) < 2 => Position(b, ":") = 0
      /\ Len(b) >= 2 =>
           /\ Position(b, ":") = 2
           /\ ParseUsize(SubSeq(b, 1, 2 - 1)) = L
           /\ ParseNetstringLen(SubSeq(b, 1, 2 - 1)) = L
      /\ NetstringEnd(2, L) = L + 3
      /\ L # None /\ L + 3 # None
  BY <1>3, NetstringHead
<1>. HIDE DEF L
<1>5. CASE Len(b) < 2
  <2>1. DeframeNetstring(b) = None
    BY <1>4, <1>5, Zenon DEF DeframeNetstring
  <2>2. ~(Len(b) > max) /\ Len(b) <= max
    BY <1>2, <1>5
  <2>3. DeframeLimitedNetstring(b, FALSE, max) = More
    BY <1>4, <1>5, <2>2 DEF DeframeLimitedNetstring
  <2>. QED
    BY <2>1, <2>3
<1>6. CASE Len(b) >= 2
  <2>0. 2 # 0
    OBVIOUS
  <2>1. Len(b) < L + 3
    BY <1>1, <1>2
  <2>2. NetstringAt(b, 2, L + 3) = None
    BY <2>1, Zenon DEF NetstringAt
  <2>3. DeframeNetstring(b) = None
    BY <1>4, <1>6, <2>0, <2>2, Zenon DEF DeframeNetstring
  <2>4. LimitedNetstringAt(b, FALSE, 2, L + 3) = More
    BY <2>1, Zenon DEF LimitedNetstringAt
  <2>5. DeframeLimitedNetstring(b, FALSE, max) =
          CASE L = None -> Refusal("MalformedFrame")
            [] L # None /\ L > max -> Refusal("FrameTooLarge")
            [] L # None /\ L <= max ->
                 IF NetstringEnd(2, L) = None
                 THEN Refusal("MalformedFrame")
                 ELSE LimitedNetstringAt(b, FALSE, 2, NetstringEnd(2, L))
    BY <1>4, <1>6, <2>0, Zenon DEF DeframeLimitedNetstring
  <2>6. (L <= max /\ ~(L > max)) \/ (L > max /\ ~(L <= max))
    BY <1>1
  <2>. QED
    BY <1>4, <2>3, <2>4, <2>5, <2>6 DEF L
<1>7. Len(b) < 2 \/ Len(b) >= 2
  BY <1>2
<1>. QED
  BY <1>5, <1>6, <1>7, Zenon

\* An empty buffer holds no frame.
LEMMA NothingInNothing ==
  ASSUME NEW f \in FramingNames, NEW e
  PROVE  Deframe(f, <<>>, e) = None
<1>. DEFINE b == <<>>
<1>1. b \in Seq(Bytes) /\ Len(b) = 0 /\ DOMAIN b = {}
  OBVIOUS
<1>2. \A byte : Position(b, byte) = 0
  BY <1>1 DEF Position
<1>3. Flush(b, e) = None
  BY DEF Flush
<1>. HIDE DEF b
<1>4. DeframeNewline(b, e) = None
  BY <1>2, <1>3 DEF DeframeNewline
<1>5. DeframeNetstring(b) = None
  BY <1>2, Zenon DEF DeframeNetstring
<1>6. DeframeEvent(b, e) = None
  <2>. DEFINE ends == {i \in DOMAIN b : BlankLineAt(b, i)}
  <2>1. ends = {}
    BY <1>1, Zenon
  <2>. QED
    BY <1>3, <2>1, Zenon DEF DeframeEvent
<1>7. Deframe(f, b, e) = None
  BY <1>3, <1>4, <1>5, <1>6 DEF Deframe, FramingNames
<1>. QED
  BY <1>7 DEF b

-----------------------------------------------------------------------------
(***************************************************************************)
(* A stream on its way.  The bytes of one item are its frame or, for the   *)
(* last item of a sender that leaves the last delimiter out, the item.     *)
(* Chain says that ws[i] is what the sender has sent after its i-th item,  *)
(* and Flow that a reader that has been given n items holds, or can still  *)
(* read, what was sent after them: less q, which a broken connection lost. *)
(***************************************************************************)
Pieces(f, item, last) ==
  {FrameOf(f, item)} \cup
  (IF last /\ f \in {"newline", "eventStream"} /\ item # <<>> THEN {item} ELSE {})

Chain(f, s, l, j, ws) ==
  /\ ws \in [0..Len(s) -> Seq(Bytes)]
  /\ \A i \in 1..Len(s) :
       \E piece \in Pieces(f, s[i], i = Len(s) /\ l # "open") : Joins(ws[i - 1], piece, ws[i])
  /\ ws[Len(s)] \in IF j THEN Junk[f] ELSE {<<>>}

Flow(f, s, l, j, held, n) ==
  /\ n \in 0..Len(s)
  /\ \E ws, q :
       /\ Chain(f, s, l, j, ws)
       /\ q \in Seq(Bytes) /\ (l # "broken" => q = <<>>)
       /\ Joins(ws[n], held, q)

\* The bytes of an item are bytes, and at least one.
LEMMA PieceFacts ==
  ASSUME NEW f \in Framings, NEW item \in Items[f], NEW last, NEW piece \in Pieces(f, item, last)
  PROVE  /\ piece \in Seq(Bytes) /\ piece # <<>>
         /\ \/ Framed(piece, f, item)
            \/ last /\ f \in {"newline", "eventStream"} /\ piece = item
<1>1. \/ Framed(piece, f, item)
      \/ last /\ f \in {"newline", "eventStream"} /\ piece = item /\ item # <<>>
  BY DEF Pieces, Framed
<1>2. item \in Seq(Bytes)
  BY ItemFacts
<1>. QED
  BY <1>1, <1>2, FrameIsText

\* What is sent last, or not at all, follows every item.
LEMMA ChainEnds ==
  ASSUME NEW f \in Framings, NEW s, NEW l, NEW j \in BOOLEAN, NEW ws, Chain(f, s, l, j, ws)
  PROVE  /\ ws[Len(s)] \in Seq(Bytes)
         /\ ~j => ws[Len(s)] = <<>>
         /\ j => ws[Len(s)] \in Junk[f] /\ ws[Len(s)] # <<>> /\ f = "netstring"
BY JunkIsForeign DEF Chain

\* Nothing is sent, and nothing is held.
LEMMA FlowBegins ==
  ASSUME NEW f \in Framings
  PROVE  Flow(f, <<>>, "open", FALSE, <<>>, 0)
<1>. DEFINE s == <<>>
            ws == [i \in 0..0 |-> <<>>]
<1>1. Len(s) = 0 /\ 0 \in 0..0 /\ <<>> \in Seq(Bytes)
  OBVIOUS
<1>2. ws \in [0..0 -> Seq(Bytes)] /\ ws[0] = <<>>
  BY <1>1
<1>3. \A i \in 1..0 : FALSE
  OBVIOUS
<1>. HIDE DEF ws, s
<1>4. Chain(f, s, "open", FALSE, ws)
  <2>1. ws \in [0..Len(s) -> Seq(Bytes)]
    BY <1>1, <1>2, Zenon
  <2>2. \A i \in 1..Len(s) : FALSE
    BY <1>1, <1>3, Zenon
  <2>3. ws[Len(s)] = <<>>
    BY <1>1, <1>2, Zenon
  <2>. QED
    BY <2>1, <2>2, <2>3 DEF Chain
<1>5. Joins(ws[0], <<>>, <<>>)
  BY <1>1, <1>2, Concat, Zenon DEF Joins
<1>6. Flow(f, s, "open", FALSE, <<>>, 0)
  BY <1>1, <1>4, <1>5, Zenon DEF Flow
<1>. QED
  BY <1>6 DEF s

(***************************************************************************)
(* While an item is missing, the buffer starts with all of its bytes, or   *)
(* holds some of them and the rest is still to be read or lost.            *)
(***************************************************************************)
LEMMA NextPiece ==
  ASSUME NEW f \in Framings, NEW s \in Seq(Items[f]), NEW l, NEW j \in BOOLEAN,
         NEW b \in Seq(Bytes), NEW w \in Seq(Bytes), NEW h, Joins(h, b, w),
         NEW n, Flow(f, s, l, j, h, n), n # Len(s)
  PROVE  /\ n + 1 \in 1..Len(s)
         /\ \E piece \in Pieces(f, s[n + 1], n + 1 = Len(s) /\ l # "open") :
              \/ \E z \in Seq(Bytes), h2 \in Seq(Bytes) :
                   /\ Joins(b, piece, z) /\ Joins(h2, z, w) /\ Flow(f, s, l, j, h2, n + 1)
                   /\ n + 1 = Len(s) /\ ~j => z = <<>>
              \/ /\ w # <<>> \/ l = "broken"
                 /\ \E y \in Seq(Bytes) : y # <<>> /\ Joins(piece, b, y)
<1>1. PICK ws, q : /\ Chain(f, s, l, j, ws)
                   /\ q \in Seq(Bytes) /\ (l # "broken" => q = <<>>)
                   /\ Joins(ws[n], h, q)
  BY Zenon DEF Flow
<1>2. n \in 0..Len(s) /\ Len(s) \in Nat
  BY DEF Flow
<1>. DEFINE k == n + 1
            here == ws[n]
            next == ws[k]
<1>3. k \in 1..Len(s) /\ k \in 0..Len(s) /\ k - 1 = n
  BY <1>2
<1>. HIDE DEF k
<1>4. PICK piece \in Pieces(f, s[k], k = Len(s) /\ l # "open") : Joins(here, piece, next)
  BY <1>1, <1>3, Zenon DEF Chain
<1>5. s[k] \in Items[f]
  BY <1>3
<1>6. piece \in Seq(Bytes)
  BY <1>4, <1>5, PieceFacts
<1>7. next \in Seq(Bytes) /\ (k = Len(s) /\ ~j => next = <<>>)
  <2>1. ws \in [0..Len(s) -> Seq(Bytes)]
    BY <1>1, Zenon DEF Chain
  <2>2. ~j => ws[Len(s)] = <<>>
    BY <1>1, ChainEnds
  <2>. QED
    BY <1>3, <2>1, <2>2, Zenon
<1>. HIDE DEF here, next
<1>8. PICK t \in Seq(Bytes) : Joins(t, w, q)
  BY <1>1, JoinedExists
<1>9. Joins(here, b, t)
  <2>1. Joins(here, h, q)
    BY <1>1 DEF here
  <2>. QED
    BY <1>1, <1>8, <2>1, JoinedAssoc
<1>10. Len(piece) \in Nat /\ Len(b) \in Nat
  BY <1>6, Concat, Zenon
<1>11. CASE Len(piece) <= Len(b)
  <2>1. PICK z \in Seq(Bytes) : Joins(b, piece, z) /\ Joins(next, z, t)
    BY <1>4, <1>6, <1>7, <1>8, <1>9, <1>11, TwoCuts
  <2>2. PICK h2 \in Seq(Bytes) : Joins(h2, z, w)
    BY JoinedExists
  <2>3. Joins(next, h2, q)
    BY <1>1, <1>8, <2>1, <2>2, JoinedAssoc
  <2>4. Flow(f, s, l, j, h2, k)
    BY <1>1, <1>3, <2>3, Zenon DEF Flow, next
  <2>5. k = Len(s) /\ ~j => z = <<>>
    BY <1>7, <1>8, <2>1, JoinedFacts
  <2>. QED
    BY <1>3, <1>4, <2>1, <2>2, <2>4, <2>5, Zenon DEF k
<1>12. CASE Len(b) <= Len(piece) /\ ~(Len(piece) <= Len(b))
  <2>1. PICK y \in Seq(Bytes) : Joins(piece, b, y) /\ Joins(t, y, next)
    BY <1>4, <1>6, <1>7, <1>8, <1>9, <1>12, TwoCuts
  <2>2. y # <<>>
    <3>1. y = <<>> => piece = b
      BY <2>1, JoinedFacts
    <3>2. piece = b => Len(piece) <= Len(b)
      BY <1>10
    <3>. QED
      BY <1>12, <3>1, <3>2
  <2>3. w # <<>> \/ l = "broken"
    <3>1. t # <<>>
      BY <1>7, <2>1, <2>2, JoinedFacts
    <3>2. q = <<>> => t = w
      BY <1>1, <1>8, JoinedFacts
    <3>. QED
      BY <1>1, <3>1, <3>2
  <2>. QED
    BY <1>3, <1>4, <2>1, <2>2, <2>3, Zenon DEF k
<1>13. Len(piece) <= Len(b) \/ (Len(b) <= Len(piece) /\ ~(Len(piece) <= Len(b)))
  BY <1>10
<1>. QED
  BY <1>11, <1>12, <1>13, Zenon

\* What a frame in the buffer is to the reader.
LEMMA FrameTaken ==
  ASSUME NEW f \in Framings, f # "none", NEW item \in Items[f], NEW fr, Framed(fr, f, item),
         NEW z \in Seq(Bytes), NEW b, Joins(b, fr, z), NEW e
  PROVE  Deframe(f, b, e) = Deframed(item, z)
<1>1. item \in Seq(Bytes) /\ Len(item) \in 0..9 /\ f \in FramingNames
  BY ItemFacts
<1>2. CASE f = "newline"
  BY <1>2, NewlineWhole DEF Deframe
<1>3. CASE f = "eventStream"
  BY <1>3, EventWhole DEF Deframe
<1>4. CASE f = "netstring"
  <2>1. 0 \in Nat
    OBVIOUS
  <2>2. DeframeNetstring(b) = Deframed(item, z)
    BY <1>1, <1>4, <2>1, NetstringWhole
  <2>. QED
    BY <1>4, <2>2 DEF Deframe
<1>. QED
  BY <1>1, <1>2, <1>3, <1>4 DEF FramingNames

\* What part of a frame is to the reader: an item only at the end.
LEMMA PartKept ==
  ASSUME NEW f \in Framings, NEW item \in Items[f], NEW fr, Framed(fr, f, item),
         NEW b \in Seq(Bytes), NEW y \in Seq(Bytes), y # <<>>, Joins(fr, b, y), NEW e
  PROVE  /\ f # "netstring" => Deframe(f, b, e) = Flush(b, e)
         /\ f = "netstring" => Deframe(f, b, e) = None
<1>1. item \in Seq(Bytes) /\ Len(item) \in 0..9 /\ f \in FramingNames
  BY ItemFacts
<1>2. CASE f = "newline"
  BY <1>2, NewlinePart DEF Deframe
<1>3. CASE f = "eventStream"
  BY <1>3, EventPart DEF Deframe
<1>4. CASE f = "netstring"
  <2>1. 1 \in Nat \ {0}
    OBVIOUS
  <2>2. DeframeNetstring(b) = None
    BY <1>1, <1>4, <2>1, NetstringPart
  <2>. QED
    BY <1>4, <2>2 DEF Deframe
<1>5. CASE f = "none"
  BY <1>5 DEF Deframe
<1>. QED
  BY <1>1, <1>2, <1>3, <1>4, <1>5 DEF FramingNames

\* An item whose delimiter is left out is part of its frame.
LEMMA ItemIsPart ==
  ASSUME NEW f \in Framings, f \in {"newline", "eventStream"}, NEW item \in Items[f]
  PROVE  \E fr \in Seq(Bytes), y \in Seq(Bytes) : Framed(fr, f, item) /\ y # <<>> /\ Joins(fr, item, y)
<1>. DEFINE fr == FrameOf(f, item)
            y == IF f = "newline" THEN <<"LF">> ELSE <<"LF", "LF">>
<1>1. item \in Seq(Bytes)
  BY ItemFacts
<1>2. y \in Seq(Bytes) /\ y # <<>>
  BY DelimitersSent
<1>3. Joins(fr, item, y)
  <2>1. CASE f = "newline"
    BY <1>1, <2>1 DEF FrameOf, Frame, Rendered, Joins
  <2>2. CASE f = "eventStream"
    BY <2>2 DEF FrameOf, Frame, Rendered, Joins
  <2>. QED
    BY <2>1, <2>2
<1>4. fr \in Seq(Bytes) /\ Framed(fr, f, item)
  <2>1. Framed(fr, f, item)
    BY DEF Framed
  <2>. QED
    BY <2>1, FrameIsText
<1>. HIDE DEF fr, y
<1>. QED
  BY <1>2, <1>3, <1>4

\* After the last item there is nothing in the buffer, or part of the junk.
LEMMA LastPiece ==
  ASSUME NEW f \in Framings, NEW s \in Seq(Items[f]), NEW l, NEW j \in BOOLEAN,
         NEW b \in Seq(Bytes), NEW w \in Seq(Bytes), NEW h, Joins(h, b, w),
         Flow(f, s, l, j, h, Len(s))
  PROVE  \/ b = <<>>
         \/ j /\ f = "netstring" /\ \E junk \in Junk[f] : \E k \in 0..Len(junk) : b = SubSeq(junk, 1, k)
<1>1. PICK ws, q : /\ Chain(f, s, l, j, ws)
                   /\ q \in Seq(Bytes)
                   /\ Joins(ws[Len(s)], h, q)
  BY Zenon DEF Flow
<1>. DEFINE last == ws[Len(s)]
<1>2. /\ last \in Seq(Bytes)
      /\ ~j => last = <<>>
      /\ j => last \in Junk[f] /\ f = "netstring"
  BY <1>1, ChainEnds
<1>3. Joins(last, h, q) /\ q \in Seq(Bytes)
  BY <1>1
<1>. HIDE DEF last
<1>4. PICK t \in Seq(Bytes) : Joins(t, w, q)
  BY <1>3, JoinedExists
<1>5. Joins(last, b, t)
  BY <1>3, <1>4, JoinedAssoc
<1>6. CASE ~j
  BY <1>2, <1>4, <1>5, <1>6, JoinedFacts, SMTT(40)
<1>7. CASE j
  <2>1. /\ Len(last) = Len(b) + Len(t) /\ Len(b) \in Nat /\ Len(t) \in Nat
        /\ \A i \in 1..Len(b) : last[i] = b[i]
    BY <1>4, <1>5, ConcatAt
  <2>2. Len(b) \in 0..Len(last) /\ Len(b) = 0 + Len(b) /\ Len(b) <= Len(last) /\ 0 + 1 = 1
    BY <2>1
  <2>3. \A i \in 1..Len(b) : last[0 + i] = b[i]
    BY <2>1
  <2>4. SubSeq(last, 0 + 1, Len(b)) = b
    BY <1>2, <2>2, <2>3, PartIs
  <2>. QED
    BY <1>2, <1>7, <2>2, <2>4
<1>. QED
  BY <1>6, <1>7

\* At the end an empty buffer means that everything has been given.
LEMMA NothingLeft ==
  ASSUME NEW f \in Framings, NEW s \in Seq(Items[f]), NEW l, NEW j \in BOOLEAN,
         NEW h, h = <<>>, NEW n, Flow(f, s, l, j, h, n), l # "broken"
  PROVE  n = Len(s) /\ ~j
<1>1. <<>> \in Seq(Bytes)
  OBVIOUS
<1>. DEFINE b == <<>>
<1>2. b \in Seq(Bytes) /\ Joins(h, b, b)
  BY <1>1, Concat, Zenon DEF Joins
<1>3. b = <<>>
  OBVIOUS
<1>. HIDE DEF b
<1>4. n = Len(s)
  <2>. SUFFICES ASSUME n # Len(s) PROVE FALSE
    OBVIOUS
  <2>1. PICK piece \in Pieces(f, s[n + 1], n + 1 = Len(s) /\ l # "open") :
          \/ \E z \in Seq(Bytes) : Joins(b, piece, z)
          \/ b # <<>> \/ l = "broken"
    BY <1>2, NextPiece
  <2>2. n + 1 \in 1..Len(s)
    BY <1>2, NextPiece
  <2>3. s[n + 1] \in Items[f]
    BY <2>2
  <2>4. piece \in Seq(Bytes) /\ piece # <<>>
    BY <2>1, <2>3, PieceFacts
  <2>. QED
    BY <1>3, <2>1, <2>4, JoinedFacts
<1>5. ~j
  <2>1. PICK ws, q : /\ Chain(f, s, l, j, ws)
                     /\ q = <<>>
                     /\ Joins(ws[Len(s)], h, q)
    BY <1>4, Zenon DEF Flow
  <2>2. ws[Len(s)] = <<>>
    BY <1>2, <1>3, <2>1, JoinedFacts
  <2>. QED
    BY <2>1, <2>2, ChainEnds
<1>. QED
  BY <1>4, <1>5

(***************************************************************************)
(* What deframe takes out of the buffer is the next item, and the buffer   *)
(* then starts after it.                                                   *)
(***************************************************************************)
LEMMA TakesNext ==
  ASSUME NEW f \in Framings, NEW s \in Seq(Items[f]), NEW l, NEW j \in BOOLEAN,
         f = "none" => Len(s) <= 1,
         NEW b \in Seq(Bytes), NEW w \in Seq(Bytes), NEW h, Joins(h, b, w),
         NEW n, Flow(f, s, l, j, h, n),
         NEW e \in BOOLEAN, e => w = <<>> /\ l # "broken",
         Deframe(f, b, e) # None
  PROVE  \E z \in Seq(Bytes), h2 \in Seq(Bytes) :
           /\ n + 1 \in 1..Len(s) /\ s[n + 1] \in Items[f]
           /\ Deframe(f, b, e) = Deframed(s[n + 1], z)
           /\ Joins(h2, z, w) /\ Flow(f, s, l, j, h2, n + 1)
<1>0. f \in FramingNames
  BY FramingsKnown
<1>1. n # Len(s)
  <2>. SUFFICES ASSUME n = Len(s) PROVE FALSE
    OBVIOUS
  <2>1. b # <<>>
    BY <1>0, NothingInNothing
  <2>2. PICK junk \in Junk[f] : \E k \in 0..Len(junk) : b = SubSeq(junk, 1, k)
    BY <2>1, LastPiece
  <2>. QED
    BY <2>2, JunkIsNoItem
<1>. DEFINE k == n + 1
            item == s[k]
<1>2. PICK piece \in Pieces(f, item, k = Len(s) /\ l # "open") :
        \/ \E z \in Seq(Bytes), h2 \in Seq(Bytes) :
             /\ Joins(b, piece, z) /\ Joins(h2, z, w) /\ Flow(f, s, l, j, h2, k)
             /\ k = Len(s) /\ ~j => z = <<>>
        \/ /\ w # <<>> \/ l = "broken"
           /\ \E y \in Seq(Bytes) : y # <<>> /\ Joins(piece, b, y)
  BY <1>1, NextPiece
<1>3. k \in 1..Len(s) /\ item \in Items[f]
  <2>1. k \in 1..Len(s)
    BY <1>1, NextPiece
  <2>. QED
    BY <2>1
<1>. HIDE DEF k, item
<1>4. /\ piece \in Seq(Bytes) /\ piece # <<>>
      /\ \/ Framed(piece, f, item)
         \/ k = Len(s) /\ f \in {"newline", "eventStream"} /\ piece = item
  <2>. DEFINE last == k = Len(s) /\ l # "open"
  <2>1. piece \in Pieces(f, item, last)
    BY <1>2
  <2>2. last => k = Len(s)
    OBVIOUS
  <2>. HIDE DEF last
  <2>. QED
    BY <1>3, <2>1, <2>2, PieceFacts
<1>5. item \in Seq(Bytes)
  BY <1>3, ItemFacts
<1>6. f # "netstring" => ~j
  <2>1. PICK ws : Chain(f, s, l, j, ws)
    BY Zenon DEF Flow
  <2>. QED
    BY <2>1, ChainEnds
<1>7. Flush(b, FALSE) = None
  BY DEF Flush
<1>8. ASSUME NEW y \in Seq(Bytes), y # <<>>, Joins(piece, b, y), ~e PROVE FALSE
  <2>1. CASE Framed(piece, f, item)
    <3>1. Deframe(f, b, FALSE) = None
      BY <1>3, <1>7, <1>8, <2>1, PartKept
    <3>. QED
      BY <1>8, <3>1
  <2>2. CASE f \in {"newline", "eventStream"} /\ piece = item
    <3>1. PICK fr \in Seq(Bytes), y2 \in Seq(Bytes) : Framed(fr, f, item) /\ y2 # <<>> /\ Joins(fr, item, y2)
      BY <1>3, <2>2, ItemIsPart
    <3>2. PICK y3 \in Seq(Bytes) : Joins(y3, y, y2)
      BY JoinedExists
    <3>3. Joins(fr, b, y3)
      BY <1>5, <1>8, <2>2, <3>1, <3>2, JoinedAssoc
    <3>4. y3 # <<>>
      BY <1>8, <3>2, JoinedFacts
    <3>5. Deframe(f, b, FALSE) = None
      BY <1>3, <1>7, <2>2, <3>1, <3>3, <3>4, PartKept, ZenonT(60)
    <3>. QED
      BY <1>8, <3>5
  <2>. QED
    BY <1>4, <2>1, <2>2
<1>9. PICK z \in Seq(Bytes), h2 \in Seq(Bytes) :
        /\ Joins(b, piece, z) /\ Joins(h2, z, w) /\ Flow(f, s, l, j, h2, k)
        /\ k = Len(s) /\ ~j => z = <<>>
  BY <1>2, <1>8
<1>10. ASSUME z = <<>>, Deframe(f, b, e) = Flush(b, e), piece = item
       PROVE  Deframe(f, b, e) = Deframed(item, z)
  <2>1. b = item
    BY <1>4, <1>9, <1>10, JoinedFacts
  <2>2. Flush(b, e) = Deframed(b, <<>>)
    BY <1>10 DEF Flush
  <2>. QED
    BY <1>10, <2>1, <2>2
<1>11. CASE Framed(piece, f, item) /\ f # "none"
  <2>1. Deframe(f, b, e) = Deframed(item, z)
    BY <1>3, <1>9, <1>11, FrameTaken
  <2>. QED
    BY <1>3, <1>9, <2>1, Zenon DEF k, item
<1>12. CASE Framed(piece, f, item) /\ f = "none"
  <2>1. piece = item
    BY <1>12 DEF Framed, FrameOf, Frame, Rendered
  <2>2. Deframe(f, b, e) = Flush(b, e)
    BY <1>12 DEF Deframe
  <2>3. k = Len(s)
    BY <1>3, <1>12
  <2>4. z = <<>>
    BY <1>6, <1>9, <1>12, <2>3
  <2>5. Deframe(f, b, e) = Deframed(item, z)
    BY <1>10, <2>1, <2>2, <2>4
  <2>. QED
    BY <1>3, <1>9, <2>5, Zenon DEF k, item
<1>13. CASE k = Len(s) /\ f \in {"newline", "eventStream"} /\ piece = item
  <2>1. z = <<>>
    BY <1>6, <1>9, <1>13
  <2>2. b = item
    BY <1>4, <1>9, <1>13, <2>1, JoinedFacts
  <2>3. PICK fr \in Seq(Bytes), y2 \in Seq(Bytes) : Framed(fr, f, item) /\ y2 # <<>> /\ Joins(fr, item, y2)
    BY <1>3, <1>13, ItemIsPart
  <2>4. Deframe(f, b, e) = Flush(b, e)
    BY <1>3, <1>13, <2>2, <2>3, PartKept
  <2>5. Deframe(f, b, e) = Deframed(item, z)
    BY <1>10, <1>13, <2>1, <2>4
  <2>. QED
    BY <1>3, <1>9, <2>5, Zenon DEF k, item
<1>. QED
  BY <1>4, <1>11, <1>12, <1>13

\* What is sent now follows every item that was sent before.
LEMMA ChainGrows ==
  ASSUME NEW f \in Framings, NEW s \in Seq(Items[f]), NEW ws, Chain(f, s, "open", FALSE, ws),
         NEW tail \in Seq(Bytes)
  PROVE  \E g \in [0..Len(s) -> Seq(Bytes)] :
           /\ \A i \in 0..Len(s) : Joins(g[i], ws[i], tail)
           /\ \A i \in 1..Len(s) : Joins(g[i - 1], FrameOf(f, s[i]), g[i])
           /\ g[Len(s)] = tail
<1>. DEFINE g == [i \in 0..Len(s) |-> ws[i] \o tail]
<1>1. ws \in [0..Len(s) -> Seq(Bytes)]
  BY Zenon DEF Chain
<1>2. ws[Len(s)] = <<>>
  BY ChainEnds
<1>3. \A i \in 0..Len(s) : ws[i] \in Seq(Bytes)
  BY <1>1
<1>4. \A i \in 0..Len(s) : Joins(g[i], ws[i], tail)
  BY Zenon DEF Joins
<1>5. \A i \in 0..Len(s) : ws[i] \o tail \in Seq(Bytes)
  BY <1>3, Concat, Zenon
<1>6. g \in [0..Len(s) -> Seq(Bytes)]
  BY <1>5, Zenon
<1>. HIDE DEF g
<1>7. Len(s) \in 0..Len(s)
  OBVIOUS
<1>8. g[Len(s)] = tail
  BY <1>2, <1>3, <1>4, <1>7, JoinedFacts
<1>9. ASSUME NEW i \in 1..Len(s) PROVE Joins(g[i - 1], FrameOf(f, s[i]), g[i])
  <2>1. i \in 0..Len(s) /\ i - 1 \in 0..Len(s) /\ s[i] \in Items[f]
    BY <1>7
  <2>. DEFINE p == i - 1
              whole == FrameOf(f, s[i])
  <2>2. p \in 0..Len(s)
    BY <2>1
  <2>3. Joins(ws[p], whole, ws[i])
    <3>1. PICK piece \in Pieces(f, s[i], i = Len(s) /\ "open" # "open") : Joins(ws[i - 1], piece, ws[i])
      BY Zenon DEF Chain
    <3>2. piece = whole
      BY <3>1 DEF Pieces
    <3>. QED
      BY <3>1, <3>2
  <2>4. whole \in Seq(Bytes)
    <3>1. Framed(whole, f, s[i])
      BY DEF Framed
    <3>. HIDE DEF whole
    <3>. QED
      BY <2>1, <3>1, FrameIsText
  <2>. HIDE DEF p, whole
  <2>5. Joins(g[p], ws[p], tail) /\ Joins(g[i], ws[i], tail) /\ ws[i] \in Seq(Bytes)
    BY <1>3, <1>4, <2>1, <2>2
  <2>6. Joins(g[p], whole, g[i])
    BY <2>3, <2>4, <2>5, JoinedAssoc
  <2>. QED
    BY <2>6 DEF p, whole
<1>. QED
  BY <1>4, <1>6, <1>8, <1>9

\* An item is sent behind what is held.
LEMMA FlowSent ==
  ASSUME NEW f \in Framings, NEW s \in Seq(Items[f]), NEW h \in Seq(Bytes), NEW n,
         Flow(f, s, "open", FALSE, h, n),
         NEW item \in Items[f], NEW l \in {"open", "ended"},
         NEW piece \in Pieces(f, item, l # "open"), NEW h2, Joins(h2, h, piece)
  PROVE  Flow(f, Append(s, item), l, FALSE, h2, n)
<1>. DEFINE N == Len(s)
            t == Append(s, item)
<1>1. /\ N \in Nat /\ Len(t) = N + 1 /\ t[N + 1] = item
      /\ \A i \in 1..N : t[i] = s[i]
  OBVIOUS
<1>2. PICK ws, q : Chain(f, s, "open", FALSE, ws) /\ q = <<>> /\ Joins(ws[n], h, q)
  BY Zenon DEF Flow
<1>3. n \in 0..N
  BY DEF Flow
<1>4. piece \in Seq(Bytes)
  BY PieceFacts
<1>5. PICK g \in [0..N -> Seq(Bytes)] :
        /\ \A i \in 0..N : Joins(g[i], ws[i], piece)
        /\ \A i \in 1..N : Joins(g[i - 1], FrameOf(f, s[i]), g[i])
        /\ g[N] = piece
  BY <1>2, <1>4, ChainGrows
<1>. HIDE DEF N, t
<1>. DEFINE u == [i \in 0..Len(t) |-> IF i = N + 1 THEN <<>> ELSE g[i]]
<1>6. <<>> \in Seq(Bytes)
  OBVIOUS
<1>7. \A i \in 0..Len(t) : i = N + 1 \/ i \in 0..N
  BY <1>1
<1>8. u \in [0..Len(t) -> Seq(Bytes)]
  BY <1>5, <1>6, <1>7
<1>9. u[N + 1] = <<>> /\ \A i \in 0..N : u[i] = g[i]
  BY <1>1
<1>. HIDE DEF u
<1>10. ASSUME NEW i \in 1..Len(t)
       PROVE  \E whole \in Pieces(f, t[i], i = Len(t) /\ l # "open") : Joins(u[i - 1], whole, u[i])
  <2>1. CASE i \in 1..N
    <3>1. i \in 0..N /\ i - 1 \in 0..N
      BY <1>1, <2>1
    <3>2. Joins(u[i - 1], FrameOf(f, t[i]), u[i])
      BY <1>1, <1>5, <1>9, <2>1, <3>1
    <3>3. FrameOf(f, t[i]) \in Pieces(f, t[i], i = Len(t) /\ l # "open")
      BY Zenon DEF Pieces
    <3>. QED
      BY <3>2, <3>3
  <2>2. CASE i = N + 1
    <3>1. i - 1 = N /\ N \in 0..N
      BY <1>1, <2>2
    <3>2. u[i - 1] = piece /\ u[i] = <<>>
      BY <1>5, <1>9, <2>2, <3>1
    <3>3. Joins(u[i - 1], piece, u[i])
      BY <1>4, <3>2, Concat, Zenon DEF Joins
    <3>4. piece \in Pieces(f, t[i], i = Len(t) /\ l # "open")
      BY <1>1, <2>2, Zenon
    <3>. QED
      BY <3>3, <3>4
  <2>. QED
    BY <1>1, <2>1, <2>2
<1>11. u[Len(t)] = <<>>
  BY <1>1, <1>9
<1>12. Chain(f, t, l, FALSE, u)
  BY <1>8, <1>10, <1>11 DEF Chain
<1>13. Joins(u[n], h2, q)
  <2>1. ws[n] = h
    BY <1>2, <1>6, JoinedFacts
  <2>2. u[n] = h2
    BY <1>3, <1>5, <1>9, <2>1 DEF Joins
  <2>3. h2 \in Seq(Bytes)
    BY <1>4, JoinedFacts
  <2>. QED
    BY <1>2, <2>2, <2>3, Concat, Zenon DEF Joins
<1>14. n \in 0..Len(t)
  BY <1>1, <1>3
<1>. QED
  BY <1>2, <1>6, <1>12, <1>13, <1>14, Zenon DEF Flow, t

\* Junk is sent behind what is held.
LEMMA FlowJunk ==
  ASSUME NEW f \in Framings, NEW s \in Seq(Items[f]), NEW h \in Seq(Bytes), NEW n,
         Flow(f, s, "open", FALSE, h, n),
         NEW junk \in Junk[f], NEW h2, Joins(h2, h, junk)
  PROVE  Flow(f, s, "ended", TRUE, h2, n)
<1>1. PICK ws, q : Chain(f, s, "open", FALSE, ws) /\ q = <<>> /\ Joins(ws[n], h, q)
  BY Zenon DEF Flow
<1>2. n \in 0..Len(s)
  BY DEF Flow
<1>3. junk \in Seq(Bytes)
  BY JunkIsForeign
<1>4. PICK g \in [0..Len(s) -> Seq(Bytes)] :
        /\ \A i \in 0..Len(s) : Joins(g[i], ws[i], junk)
        /\ \A i \in 1..Len(s) : Joins(g[i - 1], FrameOf(f, s[i]), g[i])
        /\ g[Len(s)] = junk
  BY <1>1, <1>3, ChainGrows
<1>5. \A i : FrameOf(f, s[i]) \in Pieces(f, s[i], i = Len(s) /\ "ended" # "open")
  BY Zenon DEF Pieces
<1>6. Chain(f, s, "ended", TRUE, g)
  BY <1>4, <1>5, Zenon DEF Chain
<1>7. <<>> \in Seq(Bytes)
  OBVIOUS
<1>8. Joins(g[n], h2, q)
  <2>1. ws[n] = h
    BY <1>1, <1>7, JoinedFacts
  <2>2. g[n] = h2
    BY <1>2, <1>4, <2>1 DEF Joins
  <2>3. h2 \in Seq(Bytes)
    BY <1>3, JoinedFacts
  <2>. QED
    BY <1>1, <2>2, <2>3, Concat, Zenon DEF Joins
<1>. QED
  BY <1>1, <1>2, <1>6, <1>7, <1>8, Zenon DEF Flow

\* When the sender stops or the connection breaks, the bytes stay the same.
LEMMA ChainCloses ==
  ASSUME NEW f, NEW s, NEW l, NEW j, NEW ws, Chain(f, s, l, j, ws), NEW l2, l2 # "open"
  PROVE  Chain(f, s, l2, j, ws)
<1>1. \A item, a : Pieces(f, item, a) \subseteq Pieces(f, item, TRUE)
  BY DEF Pieces
<1>2. \A item : Pieces(f, item, FALSE) \subseteq Pieces(f, item, FALSE)
  OBVIOUS
<1>3. ASSUME NEW i \in 1..Len(s)
      PROVE  Pieces(f, s[i], i = Len(s) /\ l # "open") \subseteq Pieces(f, s[i], i = Len(s) /\ l2 # "open")
  BY DEF Pieces
<1>. QED
  BY <1>3, Zenon DEF Chain

\* The sender closes, and what is held stays.
LEMMA FlowCloses ==
  ASSUME NEW f, NEW s, NEW j, NEW h, NEW n, Flow(f, s, "open", j, h, n),
         NEW l, l # "open"
  PROVE  Flow(f, s, l, j, h, n)
BY ChainCloses, Zenon DEF Flow

\* Of the bytes in flight those that are lost come last.
LEMMA FlowLoses ==
  ASSUME NEW f, NEW s, NEW l, NEW j, NEW n, NEW h, Flow(f, s, l, j, h, n),
         NEW h1 \in Seq(Bytes), NEW h2 \in Seq(Bytes), Joins(h, h1, h2)
  PROVE  Flow(f, s, "broken", j, h1, n)
<1>1. PICK ws, q : /\ Chain(f, s, l, j, ws)
                   /\ q \in Seq(Bytes)
                   /\ Joins(ws[n], h, q)
  BY Zenon DEF Flow
<1>2. PICK q2 \in Seq(Bytes) : Joins(q2, h2, q)
  BY <1>1, JoinedExists
<1>3. Joins(ws[n], h1, q2)
  <2>. DEFINE here == ws[n]
  <2>1. Joins(here, h, q)
    BY <1>1
  <2>. HIDE DEF here
  <2>2. Joins(here, h1, q2)
    BY <1>1, <1>2, <2>1, JoinedAssoc
  <2>. QED
    BY <2>2 DEF here
<1>4. Chain(f, s, "broken", j, ws)
  BY <1>1, ChainCloses
<1>. QED
  BY <1>2, <1>3, <1>4, Zenon DEF Flow

-----------------------------------------------------------------------------
(***************************************************************************)
(* deframe_limited: a frame of deframe's, or the reason why there is none. *)
(***************************************************************************)

\* A decimal is a number, however long it is.
LEMMA DecimalIsNat ==
  ASSUME NEW D, NEW digits \in Seq(D), AllDigits(digits)
  PROVE  DecimalValue(digits) \in Nat
<1>. DEFINE N == Len(digits)
            d == [i \in 1..N |-> DigitValue(digits[i])]
            Is(g, n) == g = [i \in 0..n |-> IF i = 0 THEN 0 ELSE 10 * g[i - 1] + d[i]]
<1>1. N \in Nat /\ DOMAIN digits = 1..N
  OBVIOUS
<1>2. ASSUME NEW i \in 1..N PROVE d[i] \in Nat
  <2>. DEFINE I == {k \in 1..Len(DigitChars) : DigitChars[k] = digits[i]}
  <2>1. d[i] = (IF I # {} THEN Min(I) ELSE 0) - 1
    BY Zenon DEF DigitValue, SelectInSeq
  <2>2. I # {}
    BY <1>1 DEF AllDigits, Contains, DigitChars
  <2>3. I \subseteq 1..10
    BY DEF DigitChars
  <2>. HIDE DEF I, d
  <2>4. Min(I) \in 1..10
    <3>1. I \subseteq Nat
      BY <2>3
    <3>. QED
      BY <2>2, <2>3, <3>1, MinIsLeast
  <2>5. \A m \in 1..10 : m - 1 \in Nat
    OBVIOUS
  <2>. QED
    BY <2>1, <2>2, <2>4, <2>5, Zenon
<1>3. DecimalValue(digits) = (CHOOSE g : Is(g, N))[N]
  <2>1. DecimalValue(digits) =
          (CHOOSE g : g = [i \in 0..N |-> IF i = 0 THEN 0 ELSE 10 * g[i - 1] + DigitValue(digits[i])])[N]
    BY Zenon DEF DecimalValue
  <2>2. ASSUME NEW g
        PROVE  [i \in 0..N |-> IF i = 0 THEN 0 ELSE 10 * g[i - 1] + DigitValue(digits[i])]
               = [i \in 0..N |-> IF i = 0 THEN 0 ELSE 10 * g[i - 1] + d[i]]
    <3>1. \A i \in 0..N : i # 0 => i \in 1..N
      BY <1>1
    <3>. QED
      BY <3>1
  <2>. QED
    BY <2>1, <2>2, Zenon
<1>. HIDE DEF d
<1>4. \A n \in 0..N : \E g : Is(g, n) /\ g[n] \in Nat
  <2>. DEFINE T == {n \in 0..N : ~\E g : Is(g, n) /\ g[n] \in Nat}
  <2>. SUFFICES ASSUME T # {} PROVE FALSE
    BY Zenon
  <2>1. PICK n \in T : \A k \in T : n <= k
    <3>1. T \subseteq Nat
      BY <1>1
    <3>. HIDE DEF T
    <3>. QED
      BY <3>1, LeastNat
  <2>2. n # 0
    <3>. DEFINE g == [i \in 0..0 |-> 0]
    <3>1. g = [i \in 0..0 |-> IF i = 0 THEN 0 ELSE 10 * g[i - 1] + d[i]] /\ g[0] \in Nat
      OBVIOUS
    <3>2. \E h : Is(h, 0) /\ h[0] \in Nat
      BY <3>1
    <3>. QED
      BY <2>1, <3>2
  <2>3. n \in 1..N /\ n - 1 \in 0..N /\ n \in Nat /\ n - 1 < n
    BY <1>1, <2>1, <2>2
  <2>. DEFINE p == n - 1
  <2>4. \E g : Is(g, p) /\ g[p] \in Nat
    <3>1. p \notin T
      <4>1. ~(n <= p)
        BY <2>3
      <4>. HIDE DEF p, T
      <4>. QED
        BY <2>1, <4>1
    <3>. HIDE DEF p
    <3>2. p \in 0..N
      BY <2>3 DEF p
    <3>. QED
      BY <3>1, <3>2, Zenon
  <2>5. PICK g : Is(g, p) /\ g[p] \in Nat
    BY <2>4, Zenon
  <2>. DEFINE h == [i \in 0..n |-> IF i = n THEN 10 * g[p] + d[n] ELSE g[i]]
  <2>6. h[n] \in Nat /\ h[n] = 10 * h[n - 1] + d[n]
    BY <1>2, <2>3, <2>5
  <2>7. ASSUME NEW i \in 0..n PROVE h[i] = IF i = 0 THEN 0 ELSE 10 * h[i - 1] + d[i]
    <3>1. CASE i = n
      BY <2>2, <2>6, <3>1
    <3>2. CASE i # n
      <4>1. i \in 0..p /\ h[i] = g[i] /\ (i # 0 => h[i - 1] = g[i - 1])
        BY <2>3, <3>2
      <4>2. g[i] = IF i = 0 THEN 0 ELSE 10 * g[i - 1] + d[i]
        BY <2>5, <4>1
      <4>. QED
        BY <4>1, <4>2
    <3>. QED
      BY <3>1, <3>2
  <2>8. h = [i \in 0..n |-> h[i]]
    OBVIOUS
  <2>. HIDE DEF h
  <2>9. Is(h, n)
    BY <2>7, <2>8
  <2>. QED
    BY <2>1, <2>6, <2>9
<1>5. ASSUME NEW g, Is(g, N) PROVE g[N] \in Nat
  <2>. DEFINE T == {i \in 0..N : g[i] \notin Nat}
  <2>. SUFFICES ASSUME T # {} PROVE FALSE
    BY <1>1
  <2>1. PICK i \in T : \A k \in T : i <= k
    <3>1. T \subseteq Nat
      BY <1>1
    <3>. HIDE DEF T
    <3>. QED
      BY <3>1, LeastNat
  <2>2. g[0] = 0
    BY <1>1, <1>5
  <2>3. i \in 1..N /\ i - 1 \in 0..N /\ i - 1 < i
    BY <1>1, <2>1, <2>2
  <2>4. g[i] = 10 * g[i - 1] + d[i]
    BY <1>1, <1>5, <2>3
  <2>5. g[i - 1] \in Nat
    <3>. DEFINE p == i - 1
    <3>1. p \in 0..N /\ ~(i <= p)
      BY <2>3
    <3>. HIDE DEF p
    <3>2. g[p] \in Nat
      BY <2>1, <3>1
    <3>. QED
      BY <3>2 DEF p
  <2>6. d[i] \in Nat
    BY <1>2, <2>3
  <2>. QED
    BY <2>1, <2>4, <2>5, <2>6
<1>6. N \in 0..N
  BY <1>1
<1>. HIDE DEF Is, N
<1>7. Is(CHOOSE g : Is(g, N), N)
  BY <1>4, <1>6
<1>. QED
  BY <1>3, <1>5, <1>7

\* A netstring's announced length is a number.
LEMMA NetstringLenIsNat ==
  ASSUME NEW D, NEW raw \in Seq(D), ParseNetstringLen(raw) # None
  PROVE  ParseNetstringLen(raw) \in Nat
<1>1. AllDigits(raw) /\ ParseNetstringLen(raw) = ParseUsize(raw) /\ raw # <<>>
  BY DEF ParseNetstringLen, AllDigits
<1>2. Tail(raw) \in Seq(D)
  BY <1>1
<1>. DEFINE digits == IF raw # <<>> /\ raw[1] = "+" THEN Tail(raw) ELSE raw
<1>3. digits \in Seq(D)
  BY <1>2
<1>4. ParseUsize(raw) = IF AllDigits(digits) /\ DecimalValue(digits) <= UsizeMax
                        THEN DecimalValue(digits) ELSE None
  BY Zenon DEF ParseUsize
<1>. HIDE DEF digits
<1>. QED
  BY <1>1, <1>3, <1>4, DecimalIsNat

(***************************************************************************)
(* A netstring's outcomes; at the end of the body a netstring that is not  *)
(* complete is refused.                                                    *)
(***************************************************************************)
LEMMA NetstringOutcomes ==
  ASSUME NEW b \in Seq(Bytes), NEW e \in BOOLEAN, NEW max \in Nat,
         NEW found, found = DeframeLimitedNetstring(b, e, max)
  PROVE  /\ \/ found.tag = "frame"
            \/ found \in {More, Refusal("FrameTooLarge"), Refusal("MalformedFrame")}
         /\ e /\ found = More => b = <<>>
<1>. DEFINE colon == Position(b, ":")
            len == ParseNetstringLen(SubSeq(b, 1, colon - 1))
            end == NetstringEnd(colon, len)
<1>1. Len(b) \in Nat /\ (Len(b) = 0 => b = <<>>)
  OBVIOUS
<1>2. len # None => len \in Nat
  <2>. DEFINE raw == SubSeq(b, 1, colon - 1)
  <2>1. raw \in Seq(Bytes)
    <3>1. colon \in 0..Len(b)
      BY PositionRange
    <3>. HIDE DEF colon
    <3>. QED
      BY <3>1
  <2>. HIDE DEF raw
  <2>. QED
    BY <2>1, NetstringLenIsNat DEF raw
<1>3. found = IF colon = 0
              THEN CASE Len(b) > max -> Refusal("FrameTooLarge")
                     [] Len(b) <= max /\ e /\ b # <<>> -> Refusal("MalformedFrame")
                     [] OTHER -> More
              ELSE CASE len = None -> Refusal("MalformedFrame")
                     [] len # None /\ len > max -> Refusal("FrameTooLarge")
                     [] len # None /\ len <= max ->
                          IF end = None THEN Refusal("MalformedFrame")
                          ELSE LimitedNetstringAt(b, e, colon, end)
  BY Zenon DEF DeframeLimitedNetstring
<1>4. Refusal("FrameTooLarge") # More /\ Refusal("MalformedFrame") # More
  <2>1. Refusal("FrameTooLarge").tag = "error" /\ Refusal("MalformedFrame").tag = "error" /\ More.tag = "more"
    BY DEF Refusal, More
  <2>. QED
    BY <2>1
<1>. HIDE DEF colon, len, end
<1>5. CASE colon = 0
  <2>1. Len(b) > max \/ (Len(b) <= max /\ ~(Len(b) > max))
    BY <1>1
  <2>2. CASE Len(b) > max
    <3>1. ~(Len(b) <= max)
      BY <1>1, <2>2
    <3>2. found = Refusal("FrameTooLarge")
      BY <1>3, <1>5, <2>2, <3>1
    <3>. QED
      BY <1>4, <3>2
  <2>3. CASE Len(b) <= max /\ ~(Len(b) > max) /\ e /\ b # <<>>
    <3>1. found = Refusal("MalformedFrame")
      BY <1>3, <1>5, <2>3
    <3>. QED
      BY <1>4, <3>1
  <2>4. CASE Len(b) <= max /\ ~(Len(b) > max) /\ ~(e /\ b # <<>>)
    <3>1. found = More
      BY <1>3, <1>5, <2>4
    <3>. QED
      BY <2>4, <3>1
  <2>. QED
    BY <2>1, <2>2, <2>3, <2>4
<1>6. CASE colon # 0
  <2>1. CASE len = None
    <3>1. found = Refusal("MalformedFrame")
      BY <1>3, <1>6, <2>1
    <3>. QED
      BY <1>4, <3>1
  <2>2. CASE len # None
    <3>1. (len > max /\ ~(len <= max)) \/ (len <= max /\ ~(len > max))
      <4>1. len \in Nat
        BY <1>2, <2>2
      <4>. QED
        BY <4>1
    <3>2. CASE len > max /\ ~(len <= max)
      <4>1. found = Refusal("FrameTooLarge")
        BY <1>3, <1>6, <2>2, <3>2
      <4>. QED
        BY <1>4, <4>1
    <3>3. CASE len <= max /\ ~(len > max) /\ end = None
      <4>1. found = Refusal("MalformedFrame")
        BY <1>3, <1>6, <2>2, <3>3
      <4>. QED
        BY <1>4, <4>1
    <3>4. CASE len <= max /\ ~(len > max) /\ end # None
      <4>1. found = LimitedNetstringAt(b, e, colon, end)
        BY <1>3, <1>6, <2>2, <3>4
      <4>2. \/ LimitedNetstringAt(b, e, colon, end) = Got(NetstringAt(b, colon, end))
            \/ LimitedNetstringAt(b, e, colon, end) = Refusal("MalformedFrame")
            \/ LimitedNetstringAt(b, e, colon, end) = More /\ ~e
        BY Zenon DEF LimitedNetstringAt
      <4>3. Got(NetstringAt(b, colon, end)).tag = "frame" /\ More.tag = "more"
        BY DEF Got, More
      <4>. QED
        BY <1>4, <4>1, <4>2, <4>3
    <3>. QED
      BY <3>1, <3>2, <3>3, <3>4
  <2>. QED
    BY <2>1, <2>2
<1>. QED
  BY <1>5, <1>6

\* The default's.
LEMMA DefaultOutcomes ==
  ASSUME NEW f, NEW b \in Seq(Bytes), NEW e \in BOOLEAN, NEW max \in Nat,
         NEW found, found = DeframeLimitedDefault(f, b, e, max)
  PROVE  \/ Deframe(f, b, e) # None /\ found = Got(Deframe(f, b, e))
         \/ found = More /\ (e => b = <<>>)
         \/ found \in {Refusal("FrameTooLarge"), Refusal("MalformedFrame")}
<1>. DEFINE d == Deframe(f, b, e)
<1>1. found = CASE Len(b) > max -> Refusal("FrameTooLarge")
                [] Len(b) <= max /\ d # None -> Got(d)
                [] Len(b) <= max /\ d = None ->
                     IF e /\ b # <<>> THEN Refusal("MalformedFrame") ELSE More
  BY Zenon DEF DeframeLimitedDefault
<1>2. (Len(b) > max /\ ~(Len(b) <= max)) \/ (Len(b) <= max /\ ~(Len(b) > max))
  OBVIOUS
<1>. HIDE DEF d
<1>3. CASE Len(b) > max /\ ~(Len(b) <= max)
  BY <1>1, <1>3
<1>4. CASE Len(b) <= max /\ ~(Len(b) > max) /\ d # None
  <2>1. found = Got(d)
    BY <1>1, <1>4
  <2>. QED
    BY <1>4, <2>1 DEF d
<1>5. CASE Len(b) <= max /\ ~(Len(b) > max) /\ d = None
  BY <1>1, <1>5
<1>. QED
  BY <1>2, <1>3, <1>4, <1>5

(***************************************************************************)
(* What deframe_limited takes out of the buffer is the next item; and a    *)
(* netstring is refused while an item is missing only if it is too long.   *)
(***************************************************************************)
LEMMA LimitedNext ==
  ASSUME NEW f \in Framings, NEW s \in Seq(Items[f]), NEW l, NEW j \in BOOLEAN,
         f = "none" => Len(s) <= 1,
         NEW b \in Seq(Bytes), NEW w \in Seq(Bytes), NEW h, Joins(h, b, w),
         NEW n, Flow(f, s, l, j, h, n),
         NEW e \in BOOLEAN, e => w = <<>> /\ l # "broken",
         NEW found, found = DeframeLimited(f, b, e, MaxFrame)
  PROVE  \/ \E z \in Seq(Bytes), h2 \in Seq(Bytes) :
              /\ n + 1 \in 1..Len(s) /\ s[n + 1] \in Items[f]
              /\ found = Got(Deframed(s[n + 1], z))
              /\ Joins(h2, z, w) /\ Flow(f, s, l, j, h2, n + 1)
         \/ found = More /\ (e => b = <<>>)
         \/ /\ found \in {Refusal("FrameTooLarge"), Refusal("MalformedFrame")}
            /\ f = "netstring" /\ n # Len(s) =>
                 n + 1 \in 1..Len(s) /\ ~(Len(s[n + 1]) <= MaxFrame)
            /\ f = "netstring" /\ n = Len(s) => j
<1>0. MaxFrame \in Nat /\ MaxFrame \in Nat \ {0}
  BY MaxFrameNat
<1>1. CASE f # "netstring"
  <2>1. found = DeframeLimitedDefault(f, b, e, MaxFrame)
    BY <1>1 DEF DeframeLimited
  <2>2. CASE Deframe(f, b, e) # None /\ found = Got(Deframe(f, b, e))
    <3>1. PICK z \in Seq(Bytes), h2 \in Seq(Bytes) :
            /\ n + 1 \in 1..Len(s) /\ s[n + 1] \in Items[f]
            /\ Deframe(f, b, e) = Deframed(s[n + 1], z)
            /\ Joins(h2, z, w) /\ Flow(f, s, l, j, h2, n + 1)
      BY <2>2, TakesNext
    <3>. QED
      BY <2>2, <3>1, Zenon
  <2>3. CASE found = More /\ (e => b = <<>>)
    BY <2>3
  <2>4. CASE found \in {Refusal("FrameTooLarge"), Refusal("MalformedFrame")}
    BY <1>1, <2>4
  <2>. QED
    BY <1>0, <2>1, <2>2, <2>3, <2>4, DefaultOutcomes
<1>2. CASE f = "netstring"
  <2>1. found = DeframeLimitedNetstring(b, e, MaxFrame)
    BY <1>2 DEF DeframeLimited
  <2>2. /\ \/ found.tag = "frame"
           \/ found \in {More, Refusal("FrameTooLarge"), Refusal("MalformedFrame")}
        /\ e /\ found = More => b = <<>>
    BY <1>0, <2>1, NetstringOutcomes
  <2>3. CASE n = Len(s)
    <3>1. found.tag # "frame" /\ (found # More => j)
      <4>1. CASE b = <<>>
        <5>1. Position(b, ":") = 0 /\ ~(Len(b) > MaxFrame)
          <6>1. Len(b) = 0
            BY <4>1
          <6>2. Position(b, ":") \in 0..0
            BY <6>1, PositionRange
          <6>3. ~(0 > MaxFrame)
            BY <1>0
          <6>. QED
            BY <6>1, <6>2, <6>3
        <5>2. found = More
          BY <2>1, <4>1, <5>1 DEF DeframeLimitedNetstring
        <5>. QED
          BY <5>2 DEF More
      <4>2. CASE b # <<>>
        <5>1. PICK junk \in Junk[f] : j /\ \E k \in 0..Len(junk) : b = SubSeq(junk, 1, k)
          BY <2>3, <4>2, LastPiece
        <5>2. PICK k \in 0..Len(junk) : b = SubSeq(junk, 1, k)
          BY <5>1
        <5>3. DeframeLimited(f, SubSeq(junk, 1, k), e, MaxFrame).tag # "frame"
          BY JunkIsNoFrame
        <5>. QED
          BY <5>1, <5>2, <5>3
      <4>. QED
        BY <4>1, <4>2
    <3>2. Refusal("FrameTooLarge") # More /\ Refusal("MalformedFrame") # More
      <4>1. Refusal("FrameTooLarge").tag = "error" /\ Refusal("MalformedFrame").tag = "error" /\ More.tag = "more"
        BY DEF Refusal, More
      <4>. QED
        BY <4>1
    <3>. QED
      BY <2>2, <2>3, <3>1, <3>2
  <2>4. CASE n # Len(s)
    <3>. DEFINE k == n + 1
                item == s[k]
    <3>1. k \in 1..Len(s) /\ item \in Items[f]
      <4>1. k \in 1..Len(s)
        BY <2>4, NextPiece
      <4>. QED
        BY <4>1
    <3>2. PICK piece \in Pieces(f, item, k = Len(s) /\ l # "open") :
            \/ \E z \in Seq(Bytes), h2 \in Seq(Bytes) :
                 Joins(b, piece, z) /\ Joins(h2, z, w) /\ Flow(f, s, l, j, h2, k)
            \/ /\ w # <<>> \/ l = "broken"
               /\ \E y \in Seq(Bytes) : y # <<>> /\ Joins(piece, b, y)
      BY <2>4, NextPiece
    <3>. HIDE DEF k, item
    <3>3. Framed(piece, "netstring", item)
      <4>1. piece = FrameOf(f, item)
        BY <1>2, <3>2 DEF Pieces
      <4>. QED
        BY <1>2, <4>1 DEF Framed
    <3>4. item \in Seq(Bytes) /\ Len(item) \in 0..9
      BY <3>1, ItemFacts
    <3>5. piece \in Seq(Bytes)
      BY <3>3, <3>4, NetstringShape
    <3>6. ASSUME NEW z \in Seq(Bytes), NEW h2 \in Seq(Bytes),
                 Joins(b, piece, z), Joins(h2, z, w), Flow(f, s, l, j, h2, k)
          PROVE  \/ found = Got(Deframed(item, z))
                 \/ found = Refusal("FrameTooLarge") /\ ~(Len(item) <= MaxFrame)
      <4>1. /\ Len(item) <= MaxFrame => DeframeLimitedNetstring(b, e, MaxFrame) = Got(Deframed(item, z))
            /\ ~(Len(item) <= MaxFrame) =>
                 DeframeLimitedNetstring(b, e, MaxFrame) = Refusal("FrameTooLarge")
        BY <1>0, <3>3, <3>4, <3>6, NetstringWhole
      <4>. QED
        BY <2>1, <4>1, Zenon
    <3>7. ASSUME NEW y \in Seq(Bytes), y # <<>>, Joins(piece, b, y), ~e
          PROVE  \/ found = More
                 \/ found = Refusal("FrameTooLarge") /\ ~(Len(item) <= MaxFrame)
      <4>1. e = FALSE
        BY <3>7
      <4>2. \/ DeframeLimitedNetstring(b, FALSE, MaxFrame) = More
            \/ /\ ~(Len(item) <= MaxFrame)
               /\ DeframeLimitedNetstring(b, FALSE, MaxFrame) = Refusal("FrameTooLarge")
        BY <1>0, <3>3, <3>4, <3>5, <3>7, NetstringPart
      <4>. QED
        BY <2>1, <4>1, <4>2, Zenon
    <3>8. CASE \E z \in Seq(Bytes), h2 \in Seq(Bytes) :
                 Joins(b, piece, z) /\ Joins(h2, z, w) /\ Flow(f, s, l, j, h2, k)
      <4>1. PICK z \in Seq(Bytes), h2 \in Seq(Bytes) :
                   Joins(b, piece, z) /\ Joins(h2, z, w) /\ Flow(f, s, l, j, h2, k)
        BY <3>8
      <4>2. CASE found = Got(Deframed(item, z))
        BY <3>1, <4>1, <4>2, Zenon DEF k, item
      <4>3. CASE found = Refusal("FrameTooLarge") /\ ~(Len(item) <= MaxFrame)
        BY <2>4, <3>1, <4>3, Zenon DEF k, item
      <4>. QED
        BY <3>6, <4>1, <4>2, <4>3
    <3>9. CASE ~e /\ \E y \in Seq(Bytes) : y # <<>> /\ Joins(piece, b, y)
      <4>1. CASE found = More
        BY <3>9, <4>1
      <4>2. CASE found = Refusal("FrameTooLarge") /\ ~(Len(item) <= MaxFrame)
        BY <2>4, <3>1, <4>2, Zenon DEF k, item
      <4>. QED
        BY <3>7, <3>9, <4>1, <4>2
    <3>. QED
      BY <3>2, <3>8, <3>9
  <2>. QED
    BY <2>3, <2>4
<1>. QED
  BY <1>1, <1>2

-----------------------------------------------------------------------------
(***************************************************************************)
(* What a reader has yielded: the outcomes of the first n items, until a   *)
(* failure of the stream.                                                  *)
(***************************************************************************)
Given(s, n) == [i \in 1..n |-> Unrender(s[i])]

Entries ==
  Outcomes \cup {Unrender(b) : b \in Seq(Bytes)} \cup {Err(error) : error \in StreamErrors}

FailedIn(o) == \E i \in DOMAIN o : IsFailure(o[i])

UpTo(o) ==
  LET failed == SelectInSeq(o, IsFailure) IN
  IF failed = 0 THEN o ELSE SubSeq(o, 1, failed - 1)

\* What mime_unrender makes of an item is no failure of the stream.
LEMMA OutcomeFacts ==
  ASSUME NEW item
  PROVE  /\ ~IsFailure(Unrender(item))
         /\ Unrender(item).tag = "Err" => Unrender(item) = Err("Decode")
         /\ \A f \in Framings : item \in Items[f] => Unrender(item) \in Outcomes
         /\ Unrender(item) # Err("FrameTooLarge")
<1>1. Unrender(item) = Ok(item) \/ Unrender(item) = Err("Decode")
  BY DEF Unrender
<1>2. /\ Ok(item).tag = "Ok" /\ Err("Decode").tag = "Err" /\ Err("Decode").val = "Decode"
      /\ Err("FrameTooLarge").tag = "Err" /\ Err("FrameTooLarge").val = "FrameTooLarge"
  BY DEF Ok, Err
<1>3. "Decode" \notin StreamErrors
  BY DEF StreamErrors
<1>4. ~IsFailure(Unrender(item))
  BY <1>1, <1>2, <1>3 DEF IsFailure
<1>5. Unrender(item).tag = "Err" => Unrender(item) = Err("Decode")
  BY <1>1, <1>2
<1>6. \A f \in Framings : item \in Items[f] => Unrender(item) \in Outcomes
  BY DEF Outcomes
<1>7. Unrender(item) # Err("FrameTooLarge")
  <2>1. Ok(item) # Err("FrameTooLarge")
    BY <1>2
  <2>2. Err("Decode") # Err("FrameTooLarge")
    BY <1>2
  <2>. QED
    BY <1>1, <2>1, <2>2
<1>. QED
  BY <1>4, <1>5, <1>6, <1>7

\* A stream error is an entry, and a failure.
LEMMA FailureFacts ==
  ASSUME NEW error \in StreamErrors
  PROVE  Err(error) \in Entries /\ IsFailure(Err(error)) /\ Err(error).tag = "Err"
BY DEF Entries, IsFailure, Err

\* UpTo stops at the first failure.
LEMMA UpToFacts ==
  ASSUME NEW D, NEW o \in Seq(D), NEW x \in D
  PROVE  /\ ~FailedIn(o) => UpTo(o) = o
         /\ FailedIn(o) => FailedIn(Append(o, x)) /\ UpTo(Append(o, x)) = UpTo(o)
         /\ ~FailedIn(o) /\ ~IsFailure(x) => ~FailedIn(Append(o, x))
         /\ ~FailedIn(o) /\ IsFailure(x) => FailedIn(Append(o, x)) /\ UpTo(Append(o, x)) = o
<1>. DEFINE N == Len(o)
            p == Append(o, x)
            I == {i \in 1..N : IsFailure(o[i])}
            J == {i \in 1..Len(p) : IsFailure(p[i])}
            first == IF I # {} THEN Min(I) ELSE 0
            second == IF J # {} THEN Min(J) ELSE 0
<1>1. /\ N \in Nat /\ DOMAIN o = 1..N /\ p \in Seq(D) /\ Len(p) = N + 1 /\ p[N + 1] = x
      /\ \A i \in 1..N : p[i] = o[i]
      /\ DOMAIN p = 1..(N + 1)
  OBVIOUS
<1>2. UpTo(o) = IF first = 0 THEN o ELSE SubSeq(o, 1, first - 1)
  BY Zenon DEF UpTo, SelectInSeq
<1>3. UpTo(p) = IF second = 0 THEN p ELSE SubSeq(p, 1, second - 1)
  BY Zenon DEF UpTo, SelectInSeq
<1>4. FailedIn(o) <=> I # {}
  BY <1>1 DEF FailedIn
<1>5. FailedIn(p) <=> J # {}
  BY <1>1 DEF FailedIn
<1>6. \A i \in 1..(N + 1) : i \in J <=> IF i = N + 1 THEN IsFailure(x) ELSE i \in I
  BY <1>1
<1>7. I \subseteq 1..N /\ J \subseteq 1..(N + 1)
  BY <1>1
<1>. HIDE DEF I, J
<1>8. /\ first = 0 <=> I = {}
      /\ first # 0 => first \in I /\ \A k \in I : first <= k
  BY <1>1, <1>7, MinOrZero
<1>9. /\ second = 0 <=> J = {}
      /\ second # 0 => second \in J /\ \A k \in J : second <= k
  <2>1. N + 1 \in Nat
    BY <1>1
  <2>. QED
    BY <1>7, <2>1, MinOrZero
<1>. HIDE DEF first, second, N, p
<1>10. ~FailedIn(o) => UpTo(o) = o
  BY <1>2, <1>4, <1>8
<1>11. ASSUME FailedIn(o) PROVE FailedIn(p) /\ UpTo(p) = UpTo(o)
  <2>1. first \in I /\ first \in 1..N /\ first # 0
    BY <1>4, <1>7, <1>8, <1>11
  <2>2. first \in J /\ first \in 1..(N + 1)
    BY <1>1, <1>6, <2>1
  <2>3. second # 0 /\ second \in J /\ second <= first /\ second \in 1..(N + 1)
    BY <1>7, <1>9, <2>2
  <2>4. second \in 1..N /\ second # N + 1
    BY <1>1, <2>1, <2>3
  <2>5. second \in I
    BY <1>6, <2>3, <2>4
  <2>6. first = second
    <3>1. first <= second
      BY <1>8, <2>1, <2>5
    <3>. QED
      BY <2>1, <2>3, <2>4, <3>1
  <2>7. SubSeq(p, 1, first - 1) = SubSeq(o, 1, first - 1)
    <3>. DEFINE m == first - 1
                t == SubSeq(o, 1, m)
    <3>1. m \in Nat /\ m <= N /\ m <= Len(p)
      BY <1>1, <2>1
    <3>. HIDE DEF m
    <3>2. t \in Seq(D) /\ Len(t) = m /\ \A i \in 1..m : t[i] = o[i]
      BY <3>1 DEF N
    <3>. HIDE DEF t
    <3>3. \A i \in 1..m : i \in 1..N
      BY <1>1, <3>1
    <3>4. \A i \in 1..Len(t) : p[0 + i] = t[i]
      BY <1>1, <3>2, <3>3
    <3>5. m = 0 + Len(t) /\ 0 + 1 = 1
      BY <3>1, <3>2
    <3>6. SubSeq(p, 0 + 1, m) = t
      BY <1>1, <3>1, <3>2, <3>4, <3>5, PartIs
    <3>. QED
      BY <3>5, <3>6 DEF m, t
  <2>. QED
    BY <1>2, <1>3, <1>5, <2>1, <2>2, <2>3, <2>6, <2>7
<1>12. ~FailedIn(o) /\ ~IsFailure(x) => ~FailedIn(p)
  <2>. SUFFICES ASSUME ~FailedIn(o), ~IsFailure(x), NEW i \in J PROVE FALSE
    BY <1>5
  <2>1. i \in 1..(N + 1) /\ i \notin I
    BY <1>4, <1>7
  <2>. QED
    BY <1>6, <2>1
<1>13. ASSUME ~FailedIn(o), IsFailure(x) PROVE FailedIn(p) /\ UpTo(p) = o
  <2>1. N + 1 \in 1..(N + 1) /\ \A i \in 1..(N + 1) : i \notin I
    BY <1>1, <1>4, <1>13
  <2>2. N + 1 \in J
    BY <1>6, <1>13, <2>1
  <2>3. second # 0 /\ second \in J /\ second \in 1..(N + 1)
    BY <1>7, <1>9, <2>2
  <2>4. second = N + 1
    BY <1>6, <2>1, <2>3
  <2>5. SubSeq(p, 1, N) = o
    <3>1. N = 0 + Len(o) /\ 0 + 1 = 1 /\ N <= Len(p)
      BY <1>1 DEF N
    <3>2. \A i \in 1..Len(o) : p[0 + i] = o[i]
      BY <1>1, <3>1
    <3>3. SubSeq(p, 0 + 1, N) = o
      BY <1>1, <3>1, <3>2, PartIs
    <3>. QED
      BY <3>1, <3>3
  <2>6. (N + 1) - 1 = N
    BY <1>1
  <2>. QED
    BY <1>3, <1>5, <2>2, <2>3, <2>4, <2>5, <2>6
<1>. QED
  BY <1>10, <1>11, <1>12, <1>13 DEF p

\* The outcomes of one item more.
LEMMA GivenNext ==
  ASSUME NEW f \in Framings, NEW s \in Seq(Items[f]), NEW n \in 0..Len(s)
  PROVE  /\ Given(s, n) \in Seq(Outcomes) /\ Len(Given(s, n)) = n
         /\ ~FailedIn(Given(s, n))
         /\ n + 1 \in 1..Len(s) => Append(Given(s, n), Unrender(s[n + 1])) = Given(s, n + 1)
<1>1. Len(s) \in Nat /\ \A i \in 1..Len(s) : s[i] \in Items[f]
  OBVIOUS
<1>2. \A i \in 1..Len(s) : Unrender(s[i]) \in Outcomes
  BY <1>1, OutcomeFacts
<1>3. \A m \in 0..Len(s) : Given(s, m) \in Seq(Outcomes) /\ Len(Given(s, m)) = m
  <2>. SUFFICES ASSUME NEW m \in 0..Len(s)
                PROVE  Given(s, m) \in Seq(Outcomes) /\ Len(Given(s, m)) = m
    OBVIOUS
  <2>1. m \in Nat /\ \A i \in 1..m : i \in 1..Len(s)
    BY <1>1
  <2>2. Given(s, m) \in [1..m -> Outcomes]
    BY <1>2, <2>1 DEF Given
  <2>. QED
    BY <2>1, <2>2
<1>4. ~FailedIn(Given(s, n))
  <2>1. DOMAIN Given(s, n) = 1..n /\ \A i \in 1..n : Given(s, n)[i] = Unrender(s[i])
    BY DEF Given
  <2>. QED
    BY <2>1, OutcomeFacts DEF FailedIn
<1>5. ASSUME n + 1 \in 1..Len(s) PROVE Append(Given(s, n), Unrender(s[n + 1])) = Given(s, n + 1)
  <2>. DEFINE g == Given(s, n)
              x == Unrender(s[n + 1])
              a == Append(g, x)
              b == Given(s, n + 1)
  <2>1. g \in Seq(Outcomes) /\ Len(g) = n /\ x \in Outcomes /\ n \in Nat
    BY <1>2, <1>3, <1>5
  <2>2. b \in Seq(Outcomes) /\ Len(b) = n + 1
    BY <1>1, <1>3, <1>5
  <2>3. /\ \A i \in 1..n : g[i] = Unrender(s[i])
        /\ \A i \in 1..(n + 1) : b[i] = Unrender(s[i])
    BY DEF Given
  <2>4. x = Unrender(s[n + 1])
    OBVIOUS
  <2>. HIDE DEF g, x, b
  <2>5. a \in Seq(Outcomes) /\ Len(a) = n + 1 /\ a[n + 1] = x /\ \A i \in 1..n : a[i] = g[i]
    BY <2>1
  <2>. HIDE DEF a
  <2>6. \A i \in 1..Len(a) : a[i] = b[i]
    <3>. SUFFICES ASSUME NEW i \in 1..(n + 1) PROVE a[i] = b[i]
      BY <2>5
    <3>1. CASE i = n + 1
      BY <2>1, <2>3, <2>4, <2>5, <3>1
    <3>2. CASE i \in 1..n
      BY <2>3, <2>5, <3>2
    <3>. QED
      BY <2>1, <3>1, <3>2
  <2>7. a = b
    BY <2>2, <2>5, <2>6, SameSequence
  <2>. QED
    BY <2>7 DEF a, b, g, x
<1>. QED
  BY <1>3, <1>4, <1>5

\* t is s with one item more.
Grows(t, s, item) == t = Append(s, item)

\* What is owed grows by the item that was sent.
LEMMA GivenStays ==
  ASSUME NEW f \in Framings, NEW s \in Seq(Items[f]), NEW item \in Items[f],
         NEW t, Grows(t, s, item)
  PROVE  /\ t \in Seq(Items[f]) /\ Len(t) = Len(s) + 1 /\ Len(s) \in Nat
         /\ \A i \in 1..Len(s) : t[i] = s[i] /\ i \in 1..Len(t)
         /\ \A n \in 0..Len(s) : n \in 0..Len(t) /\ Given(t, n) = Given(s, n)
         /\ Given(t, Len(t)) = Append(Given(s, Len(s)), Unrender(item))
         /\ Unrender(item) \in Outcomes
<1>1. /\ t \in Seq(Items[f]) /\ Len(t) = Len(s) + 1 /\ Len(s) \in Nat /\ t[Len(s) + 1] = item
      /\ \A i \in 1..Len(s) : t[i] = s[i]
  BY DEF Grows
<1>2. \A i \in 1..Len(s) : i \in 1..Len(t)
  BY <1>1
<1>3. ASSUME NEW n \in 0..Len(s) PROVE n \in 0..Len(t) /\ Given(t, n) = Given(s, n)
  <2>1. n \in 0..Len(t) /\ \A i \in 1..n : i \in 1..Len(s)
    BY <1>1
  <2>2. \A i \in 1..n : Unrender(t[i]) = Unrender(s[i])
    BY <1>1, <2>1
  <2>. QED
    BY <2>1, <2>2, Zenon DEF Given
<1>4. Given(t, Len(t)) = Append(Given(s, Len(s)), Unrender(item))
  <2>. DEFINE n == Len(s)
  <2>1. n \in 0..n /\ n \in 0..Len(t) /\ n + 1 \in 1..Len(t) /\ Len(t) = n + 1
    BY <1>1
  <2>2. Append(Given(t, n), Unrender(t[n + 1])) = Given(t, n + 1)
    BY <1>1, <2>1, GivenNext
  <2>3. Given(t, n) = Given(s, n)
    BY <1>3, <2>1
  <2>. QED
    BY <1>1, <2>1, <2>2, <2>3
<1>. QED
  BY <1>1, <1>2, <1>3, <1>4, OutcomeFacts

-----------------------------------------------------------------------------
(***************************************************************************)
(* The channel.                                                            *)
(***************************************************************************)
StreamsTyped ==
  /\ framing \in Framings
  /\ sent \in Seq(Items[framing]) /\ (framing = "none" => Len(sent) <= 1)
  /\ wire \in Seq(Bytes)
  /\ link \in {"open", "ended", "broken"}
  /\ junked \in BOOLEAN /\ (junked => link # "open")
  /\ buf \in Seq(Bytes)
  /\ eof \in BOOLEAN
  /\ out \in Seq(Entries)

\* After n items the rest is in the buffer, on the wire, or lost.
Coming(n) ==
  \E h \in Seq(Bytes) : Joins(h, buf, wire) /\ Flow(framing, sent, link, junked, h, n)

\* What every step of the sender's side keeps.
SenderKeeps ==
  /\ UNCHANGED <<framing, buf, eof, out, pc>>
  /\ \A i \in 1..Len(sent) : i \in 1..Len(sent') /\ sent'[i] = sent[i]
  /\ \A n \in 0..Len(sent) : n \in 0..Len(sent') /\ Given(sent', n) = Given(sent, n)
  /\ \A n : Coming(n) => Coming(n)'
  /\ link # "open" => link' # "open" /\ sent' = sent /\ junked' = junked
  /\ eof /\ link = "ended" /\ wire = <<>> => link' = "ended" /\ wire' = <<>>

\* What they are to the items alone.
SenderProduces ==
  \/ link = "open" /\ link' = "open" /\ \E o \in Outcomes : Owed' = Append(Owed, o)
  \/ link' # "open" /\ (Owed' = Owed \/ \E o \in Outcomes : Owed' = Append(Owed, o))

\* All that is owed.
LEMMA OwedIsGiven ==
  ASSUME NEW f \in Framings, NEW s \in Seq(Items[f])
  PROVE  Given(s, Len(s)) = [i \in DOMAIN s |-> Unrender(s[i])]
BY DEF Given

\* One item more, whole or without its delimiter.
LEMMA SendKeeps ==
  ASSUME StreamsTyped, MaySend, NEW item \in Items[framing],
         NEW l \in {"open", "ended"}, NEW piece \in Pieces(framing, item, l # "open"),
         sent' = Append(sent, item), wire' = wire \o piece, link' = l,
         UNCHANGED <<framing, junked, reader>>
  PROVE  StreamsTyped' /\ SenderKeeps /\ SenderProduces
<1>1. /\ framing \in Framings /\ sent \in Seq(Items[framing]) /\ wire \in Seq(Bytes)
      /\ buf \in Seq(Bytes) /\ link = "open" /\ ~junked
  BY DEF StreamsTyped, MaySend
<1>2. piece \in Seq(Bytes)
  BY <1>1, PieceFacts
<1>3. UNCHANGED <<framing, junked, buf, eof, out, pc>>
  BY DEF reader
<1>4. /\ sent' \in Seq(Items[framing]) /\ Len(sent') = Len(sent) + 1 /\ Len(sent) \in Nat
      /\ \A i \in 1..Len(sent) : sent'[i] = sent[i] /\ i \in 1..Len(sent')
      /\ \A n \in 0..Len(sent) : n \in 0..Len(sent') /\ Given(sent', n) = Given(sent, n)
      /\ Given(sent', Len(sent')) = Append(Given(sent, Len(sent)), Unrender(item))
      /\ Unrender(item) \in Outcomes
  <2>. DEFINE t == Append(sent, item)
  <2>1. sent' = t
    OBVIOUS
  <2>3. Grows(t, sent, item)
    BY DEF Grows
  <2>. HIDE DEF t
  <2>2. /\ t \in Seq(Items[framing]) /\ Len(t) = Len(sent) + 1 /\ Len(sent) \in Nat
        /\ \A i \in 1..Len(sent) : t[i] = sent[i] /\ i \in 1..Len(t)
        /\ \A n \in 0..Len(sent) : n \in 0..Len(t) /\ Given(t, n) = Given(sent, n)
        /\ Given(t, Len(t)) = Append(Given(sent, Len(sent)), Unrender(item))
        /\ Unrender(item) \in Outcomes
    BY <1>1, <2>3, GivenStays
  <2>. QED
    BY <2>1, <2>2, Zenon
<1>5. wire' \in Seq(Bytes)
  BY <1>1, <1>2, Concat, Zenon
<1>6. framing = "none" => Len(sent') <= 1
  <2>1. framing = "none" => Len(sent) < 1
    BY DEF MaySend
  <2>. QED
    BY <1>4, <2>1
<1>7. StreamsTyped'
  BY <1>1, <1>3, <1>4, <1>5, <1>6 DEF StreamsTyped
<1>8. ASSUME NEW n, Coming(n) PROVE Coming(n)'
  <2>1. PICK h \in Seq(Bytes) : Joins(h, buf, wire) /\ Flow(framing, sent, link, junked, h, n)
    BY <1>8 DEF Coming
  <2>2. PICK h2 \in Seq(Bytes) : Joins(h2, h, piece)
    BY <1>2, JoinedExists
  <2>3. Flow(framing, Append(sent, item), l, FALSE, h2, n)
    <3>1. Flow(framing, sent, "open", FALSE, h, n)
      <4>1. junked = FALSE
        BY <1>1
      <4>. QED
        BY <1>1, <2>1, <4>1
    <3>. QED
      BY <1>1, <2>2, <3>1, FlowSent
  <2>4. Joins(h2, buf, wire')
    <3>1. Joins(wire', wire, piece)
      BY DEF Joins
    <3>. QED
      BY <1>1, <1>2, <2>1, <2>2, <3>1, JoinedAssoc
  <2>5. Flow(framing', sent', link', junked', h2, n)
    <3>1. junked' = FALSE
      BY <1>1, <1>3
    <3>. QED
      BY <1>3, <2>3, <3>1
  <2>6. Joins(h2, buf', wire')
    BY <1>3, <2>4
  <2>. QED
    BY <2>2, <2>5, <2>6 DEF Coming
<1>9. SenderKeeps
  BY <1>1, <1>3, <1>4, <1>8 DEF SenderKeeps
<1>10. SenderProduces
  <2>1. Owed = Given(sent, Len(sent))
    BY <1>1, OwedIsGiven DEF Owed
  <2>2. Owed' = Given(sent', Len(sent'))
    BY <1>1, <1>4, OwedIsGiven DEF Owed
  <2>3. \E o \in Outcomes : Owed' = Append(Owed, o)
    BY <1>4, <2>1, <2>2
  <2>. QED
    BY <1>1, <2>3 DEF SenderProduces
<1>. QED
  BY <1>7, <1>9, <1>10

\* The sender stops, or what it sent is lost.
LEMMA StopKeeps ==
  ASSUME StreamsTyped, UNCHANGED <<framing, sent, reader>>,
         link' \in {"ended", "broken"}, wire' \in Seq(Bytes), junked' \in BOOLEAN,
         link # "open" => junked' = junked /\ ~(eof /\ link = "ended"),
         \A n : Coming(n) => Coming(n)'
  PROVE  StreamsTyped' /\ SenderKeeps /\ SenderProduces
<1>1. UNCHANGED <<framing, sent, buf, eof, out, pc>>
  BY DEF reader
<1>2. StreamsTyped'
  BY <1>1 DEF StreamsTyped
<1>3. SenderKeeps
  <2>1. \A i \in 1..Len(sent) : i \in 1..Len(sent') /\ sent'[i] = sent[i]
    BY <1>1
  <2>2. \A n \in 0..Len(sent) : n \in 0..Len(sent') /\ Given(sent', n) = Given(sent, n)
    BY <1>1
  <2>3. link = "ended" => link # "open"
    OBVIOUS
  <2>. QED
    BY <1>1, <2>1, <2>2, <2>3 DEF SenderKeeps
<1>4. SenderProduces
  <2>1. Owed' = Owed
    BY <1>1 DEF Owed
  <2>. QED
    BY <2>1 DEF SenderProduces
<1>. QED
  BY <1>2, <1>3, <1>4

\* A foreign sender ends with junk.
LEMMA JunkKeeps ==
  ASSUME StreamsTyped, NEW junk \in Junk[framing], SendJunk(junk)
  PROVE  StreamsTyped' /\ SenderKeeps /\ SenderProduces
<1>1. /\ framing \in Framings /\ sent \in Seq(Items[framing]) /\ wire \in Seq(Bytes)
      /\ buf \in Seq(Bytes) /\ link = "open" /\ junked = FALSE
  BY DEF StreamsTyped, SendJunk
<1>2. /\ UNCHANGED <<framing, sent, reader>> /\ wire' = wire \o junk
      /\ link' = "ended" /\ junked' = TRUE
  BY DEF SendJunk
<1>3. junk \in Seq(Bytes)
  BY <1>1, JunkIsForeign
<1>4. wire' \in Seq(Bytes)
  BY <1>1, <1>2, <1>3, Concat, Zenon
<1>5. buf' = buf
  BY <1>2 DEF reader
<1>6. ASSUME NEW n, Coming(n) PROVE Coming(n)'
  <2>1. PICK h \in Seq(Bytes) : Joins(h, buf, wire) /\ Flow(framing, sent, link, junked, h, n)
    BY <1>6 DEF Coming
  <2>2. PICK h2 \in Seq(Bytes) : Joins(h2, h, junk)
    BY <1>3, JoinedExists
  <2>3. Flow(framing, sent, "ended", TRUE, h2, n)
    <3>1. Flow(framing, sent, "open", FALSE, h, n)
      BY <1>1, <2>1
    <3>. QED
      BY <1>1, <2>2, <3>1, FlowJunk
  <2>4. Joins(h2, buf, wire')
    <3>1. Joins(wire', wire, junk)
      BY <1>2 DEF Joins
    <3>. QED
      BY <1>1, <1>3, <2>1, <2>2, <3>1, JoinedAssoc
  <2>5. Flow(framing', sent', link', junked', h2, n)
    BY <1>2, <2>3
  <2>6. Joins(h2, buf', wire')
    BY <1>5, <2>4
  <2>. QED
    BY <2>2, <2>5, <2>6 DEF Coming
<1>. QED
  BY <1>1, <1>2, <1>4, <1>6, StopKeeps

\* The sender ends, or fails.
LEMMA EndKeeps ==
  ASSUME StreamsTyped, SenderEnds \/ SenderFails
  PROVE  StreamsTyped' /\ SenderKeeps /\ SenderProduces
<1>1. wire \in Seq(Bytes) /\ junked \in BOOLEAN /\ link = "open"
  BY DEF StreamsTyped, SenderEnds, SenderFails
<1>2. UNCHANGED <<framing, sent, wire, junked, reader>> /\ link' \in {"ended", "broken"}
  BY DEF SenderEnds, SenderFails
<1>3. ASSUME NEW n, Coming(n) PROVE Coming(n)'
  <2>1. PICK h \in Seq(Bytes) : Joins(h, buf, wire) /\ Flow(framing, sent, link, junked, h, n)
    BY <1>3 DEF Coming
  <2>2. Flow(framing, sent, link', junked, h, n)
    BY <1>1, <1>2, <2>1, FlowCloses
  <2>. QED
    BY <1>2, <2>1, <2>2 DEF Coming, reader
<1>. QED
  BY <1>1, <1>2, <1>3, StopKeeps

\* The connection breaks and loses a part of what was sent.
LEMMA BreakKeeps ==
  ASSUME StreamsTyped, ConnectionBreaks
  PROVE  StreamsTyped' /\ SenderKeeps /\ SenderProduces
<1>1. wire \in Seq(Bytes) /\ buf \in Seq(Bytes) /\ junked \in BOOLEAN /\ ~eof
  BY DEF StreamsTyped, ConnectionBreaks
<1>2. UNCHANGED <<framing, sent, junked, reader>> /\ link' = "broken"
  BY DEF ConnectionBreaks
<1>3. PICK k \in 0..Len(wire) : wire' = SubSeq(wire, 1, k)
  BY DEF ConnectionBreaks
<1>. DEFINE lost == From(wire, k + 1)
<1>4. wire' \in Seq(Bytes) /\ lost \in Seq(Bytes) /\ Joins(wire, wire', lost)
  BY <1>1, <1>3, CutAt DEF Joins
<1>. HIDE DEF lost
<1>5. ASSUME NEW n, Coming(n) PROVE Coming(n)'
  <2>1. PICK h \in Seq(Bytes) : Joins(h, buf, wire) /\ Flow(framing, sent, link, junked, h, n)
    BY <1>5 DEF Coming
  <2>2. PICK h1 \in Seq(Bytes) : Joins(h1, buf, wire')
    BY <1>1, <1>4, JoinedExists
  <2>3. Joins(h, h1, lost)
    BY <1>1, <1>4, <2>1, <2>2, JoinedAssoc
  <2>4. Flow(framing, sent, "broken", junked, h1, n)
    BY <1>4, <2>1, <2>3, FlowLoses
  <2>. QED
    BY <1>2, <2>2, <2>4 DEF Coming, reader
<1>. QED
  BY <1>1, <1>2, <1>4, <1>5, StopKeeps

\* Every step of the sender's side.
LEMMA SenderStepKeeps ==
  ASSUME StreamsTyped, SenderStep
  PROVE  StreamsTyped' /\ SenderKeeps /\ SenderProduces
<1>1. ASSUME NEW item \in Items[framing], Send(item)
      PROVE  StreamsTyped' /\ SenderKeeps /\ SenderProduces
  <2>. DEFINE piece == FrameOf(framing, item)
  <2>1. /\ MaySend /\ sent' = Append(sent, item) /\ wire' = wire \o piece
        /\ link' = link /\ link = "open" /\ UNCHANGED <<framing, junked, reader>>
    BY <1>1 DEF Send, MaySend, FrameOf
  <2>2. piece \in Pieces(framing, item, "open" # "open")
    BY DEF Pieces
  <2>. HIDE DEF piece
  <2>. QED
    BY <2>1, <2>2, SendKeeps
<1>2. ASSUME NEW item \in Items[framing], SendUnterminated(item)
      PROVE  StreamsTyped' /\ SenderKeeps /\ SenderProduces
  <2>1. /\ MaySend /\ sent' = Append(sent, item) /\ wire' = wire \o item
        /\ link' = "ended" /\ UNCHANGED <<framing, junked, reader>>
    BY <1>2 DEF SendUnterminated
  <2>2. item \in Pieces(framing, item, "ended" # "open")
    BY <1>2 DEF Pieces, SendUnterminated
  <2>. QED
    BY <2>1, <2>2, SendKeeps
<1>. QED
  BY <1>1, <1>2, JunkKeeps, EndKeeps, BreakKeeps DEF SenderStep

-----------------------------------------------------------------------------
(***************************************************************************)
(* The reader's half of the channel.                                       *)
(***************************************************************************)

\* A chunk changes hands, however it is cut.
LEMMA ChunkKeeps ==
  ASSUME StreamsTyped, UNCHANGED channel, NEW k \in 0..Len(wire),
         buf' = buf \o SubSeq(wire, 1, k), wire' = From(wire, k + 1)
  PROVE  /\ buf' \in Seq(Bytes) /\ wire' \in Seq(Bytes)
         /\ \A n : Coming(n) => Coming(n)'
<1>1. wire \in Seq(Bytes) /\ buf \in Seq(Bytes)
  BY DEF StreamsTyped
<1>. DEFINE chunk == SubSeq(wire, 1, k)
<1>2. chunk \in Seq(Bytes) /\ wire' \in Seq(Bytes) /\ Joins(wire, chunk, wire')
  <2>1. /\ SubSeq(wire, 1, k) \in Seq(Bytes) /\ From(wire, k + 1) \in Seq(Bytes)
        /\ wire = SubSeq(wire, 1, k) \o From(wire, k + 1)
    BY <1>1, CutAt
  <2>. QED
    BY <2>1, Zenon DEF Joins
<1>3. Joins(buf', buf, chunk)
  BY DEF Joins
<1>. HIDE DEF chunk
<1>4. buf' \in Seq(Bytes)
  BY <1>1, <1>2, <1>3, JoinedFacts
<1>5. ASSUME NEW n, Coming(n) PROVE Coming(n)'
  <2>1. PICK h \in Seq(Bytes) : Joins(h, buf, wire) /\ Flow(framing, sent, link, junked, h, n)
    BY <1>5 DEF Coming
  <2>2. Joins(h, buf', wire')
    BY <1>1, <1>2, <1>3, <2>1, JoinedAssoc
  <2>. QED
    BY <2>1, <2>2 DEF Coming, channel
<1>. QED
  BY <1>2, <1>4, <1>5

\* A frame is taken out.
LEMMA TakenKeeps ==
  ASSUME StreamsTyped, UNCHANGED <<channel, wire>>, NEW n, NEW z \in Seq(Bytes),
         buf' = z, NEW h2 \in Seq(Bytes), Joins(h2, z, wire),
         Flow(framing, sent, link, junked, h2, n)
  PROVE  Coming(n)'
BY DEF Coming, channel

\* What one entry more changes.
ErrIn(o) == \E i \in DOMAIN o : o[i].tag = "Err"

\* An entry more, and the errors among the entries.
LEMMA ErrFacts ==
  ASSUME NEW D, NEW o \in Seq(D), NEW x \in D
  PROVE  /\ Append(o, x) \in Seq(D)
         /\ ErrIn(Append(o, x)) <=> ErrIn(o) \/ x.tag = "Err"
         /\ FailedIn(o) => ErrIn(o)
         /\ \A y : y \in Range(Append(o, x)) <=> y \in Range(o) \/ y = x
<1>. DEFINE p == Append(o, x)
<1>1. /\ p \in Seq(D) /\ Len(o) \in Nat /\ DOMAIN o = 1..Len(o) /\ DOMAIN p = 1..(Len(o) + 1)
      /\ p[Len(o) + 1] = x /\ \A i \in 1..Len(o) : p[i] = o[i]
  OBVIOUS
<1>2. \A i \in 1..(Len(o) + 1) : i \in 1..Len(o) \/ i = Len(o) + 1
  BY <1>1
<1>3. /\ Len(o) + 1 \in 1..(Len(o) + 1)
      /\ \A i \in 1..Len(o) : i \in 1..(Len(o) + 1)
  BY <1>1
<1>. HIDE DEF p
<1>4. ErrIn(p) <=> ErrIn(o) \/ x.tag = "Err"
  BY <1>1, <1>2, <1>3, Zenon DEF ErrIn
<1>5. FailedIn(o) => ErrIn(o)
  BY Zenon DEF FailedIn, ErrIn, IsFailure
<1>6. ASSUME NEW y PROVE y \in Range(p) <=> y \in Range(o) \/ y = x
  BY <1>1, <1>2, <1>3, Zenon DEF Range
<1>. QED
  BY <1>1, <1>4, <1>5, <1>6 DEF p

\* The outcomes of items are no refusals.
LEMMA GivenRefusesNone ==
  ASSUME NEW s, NEW n
  PROVE  Err("FrameTooLarge") \notin Range(Given(s, n))
<1>. SUFFICES ASSUME NEW i \in 1..n, Given(s, n)[i] = Err("FrameTooLarge") PROVE FALSE
  BY DEF Range, Given
<1>1. Given(s, n)[i] = Unrender(s[i])
  BY DEF Given
<1>. QED
  BY <1>1, OutcomeFacts

-----------------------------------------------------------------------------
(***************************************************************************)
(* The handler's side.  Its stream goes on, with the outcomes of the first *)
(* n items given and the rest coming; or it has stopped with an error; or  *)
(* it is over, and everything was given.                                   *)
(***************************************************************************)
GoesOn ==
  /\ pc \in {"loop", "body"} /\ ~ErrIn(out)
  /\ \E n \in 0..Len(sent) : out = Given(sent, n) /\ Coming(n)
  /\ eof => link = "ended" /\ wire = <<>>
  /\ pc = "body" => ~eof

\* What FrameTooLarge says of the item after the first n.
TooLarge(n) ==
  \/ n = Len(sent) /\ link # "open"
  \/ n + 1 \in 1..Len(sent) /\ ~(Len(sent[n + 1]) <= MaxFrame)

Stopped ==
  /\ pc \in {"done", "over"} /\ ErrIn(out)
  /\ \E n \in 0..Len(sent) :
       /\ UpTo(out) = Given(sent, n)
       /\ Err("FrameTooLarge") \in Range(out) /\ framing = "netstring" => TooLarge(n)

Completed ==
  /\ pc = "over" /\ ~ErrIn(out) /\ out = Given(sent, Len(sent))
  /\ link # "open" /\ ~junked

BodyInv == StreamsTyped /\ (GoesOn \/ Stopped \/ Completed)

\* Nothing is sent, nothing is given.
LEMMA BodyInitially ==
  ASSUME Init PROVE BodyInv
<1>1. /\ framing \in Framings /\ sent = <<>> /\ wire = <<>> /\ link = "open" /\ junked = FALSE
      /\ buf = <<>> /\ eof = FALSE /\ out = <<>> /\ pc = "loop"
  BY DEF Init
<1>2. StreamsTyped
  <2>1. /\ sent \in Seq(Items[framing]) /\ Len(sent) <= 1
        /\ wire \in Seq(Bytes) /\ buf \in Seq(Bytes) /\ out \in Seq(Entries)
    BY <1>1
  <2>2. /\ link \in {"open", "ended", "broken"} /\ junked \in BOOLEAN /\ ~junked
        /\ eof \in BOOLEAN
    BY <1>1
  <2>. QED
    BY <1>1, <2>1, <2>2, Zenon DEF StreamsTyped
<1>3. ~ErrIn(out)
  BY <1>1 DEF ErrIn
<1>4. 0 \in 0..Len(sent) /\ out = Given(sent, 0)
  <2>1. Given(sent, 0) \in Seq(Outcomes) /\ Len(Given(sent, 0)) = 0
    <3>1. sent \in Seq(Items[framing]) /\ 0 \in 0..Len(sent)
      BY <1>1
    <3>. QED
      BY <1>1, <3>1, GivenNext
  <2>. QED
    BY <1>1, <2>1
<1>5. Coming(0)
  <2>. DEFINE h == <<>>
  <2>1. h \in Seq(Bytes) /\ h \o h = h
    <3>1. h \in Seq(Bytes)
      OBVIOUS
    <3>. QED
      BY <3>1, Concat, Zenon
  <2>2. Flow(framing, sent, link, junked, h, 0)
    BY <1>1, FlowBegins
  <2>3. buf = h /\ wire = h
    BY <1>1
  <2>. HIDE DEF h
  <2>4. Joins(h, buf, wire)
    BY <2>1, <2>3, Zenon DEF Joins
  <2>. QED
    BY <2>1, <2>2, <2>4, Zenon DEF Coming
<1>. QED
  BY <1>1, <1>2, <1>3, <1>4, <1>5 DEF BodyInv, GoesOn

\* What the sender does leaves the handler's side as it is.
LEMMA BodySenderStep ==
  ASSUME BodyInv, SenderStep PROVE BodyInv' /\ Abstract!ItemNext
<1>1. StreamsTyped /\ (GoesOn \/ Stopped \/ Completed)
  BY DEF BodyInv
<1>2. StreamsTyped' /\ SenderKeeps /\ SenderProduces
  BY <1>1, SenderStepKeeps
<1>3. UNCHANGED <<framing, buf, eof, out, pc>>
  BY <1>2 DEF SenderKeeps
<1>4. GoesOn => GoesOn'
  <2>. SUFFICES ASSUME GoesOn PROVE GoesOn'
    OBVIOUS
  <2>1. PICK n \in 0..Len(sent) : out = Given(sent, n) /\ Coming(n)
    BY DEF GoesOn
  <2>2. n \in 0..Len(sent') /\ Given(sent', n) = Given(sent, n) /\ Coming(n)'
    BY <1>2, <2>1, Zenon DEF SenderKeeps
  <2>3. \E m \in 0..Len(sent') : out' = Given(sent', m) /\ Coming(m)'
    BY <1>3, <2>1, <2>2
  <2>4. eof => link' = "ended" /\ wire' = <<>>
    BY <1>2 DEF SenderKeeps, GoesOn
  <2>5. ErrIn(out') <=> ErrIn(out)
    BY <1>3
  <2>. QED
    BY <1>3, <2>3, <2>4, <2>5 DEF GoesOn
<1>5. Stopped => Stopped'
  <2>. SUFFICES ASSUME Stopped PROVE Stopped'
    OBVIOUS
  <2>1. PICK n \in 0..Len(sent) :
          /\ UpTo(out) = Given(sent, n)
          /\ Err("FrameTooLarge") \in Range(out) /\ framing = "netstring" => TooLarge(n)
    BY DEF Stopped
  <2>2. n \in 0..Len(sent') /\ Given(sent', n) = Given(sent, n)
    BY <1>2, <2>1, Zenon DEF SenderKeeps
  <2>3. TooLarge(n) => TooLarge(n)'
    <3>1. n = Len(sent) /\ link # "open" => n = Len(sent') /\ link' # "open"
      BY <1>2 DEF SenderKeeps
    <3>2. n + 1 \in 1..Len(sent) => n + 1 \in 1..Len(sent') /\ sent'[n + 1] = sent[n + 1]
      BY <1>2, Zenon DEF SenderKeeps
    <3>. QED
      BY <3>1, <3>2, Zenon DEF TooLarge
  <2>4. UpTo(out') = Given(sent', n) /\ (Range(out') = Range(out)) /\ (ErrIn(out') <=> ErrIn(out))
    BY <1>3, <2>1, <2>2
  <2>. QED
    BY <1>3, <2>1, <2>2, <2>3, <2>4 DEF Stopped
<1>6. Completed => Completed'
  <2>1. link # "open" => link' # "open" /\ sent' = sent /\ junked' = junked
    BY <1>2 DEF SenderKeeps
  <2>. QED
    BY <1>3, <2>1 DEF Completed
<1>7. BodyInv'
  BY <1>1, <1>2, <1>4, <1>5, <1>6 DEF BodyInv
<1>8. Abstract!ItemNext
  <2>. DEFINE got == UpToFailure
              end == IF Failed \/ (pc = "over" /\ Erred) THEN "failed"
                     ELSE IF pc = "over" THEN "complete" ELSE "open"
  <2>1. got' = got /\ end' = end
    BY <1>3 DEF UpToFailure, Failed, Erred
  <2>. HIDE DEF got, end
  <2>2. CASE link = "open" /\ link' = "open" /\ \E o \in Outcomes : Owed' = Append(Owed, o)
    BY <2>1, <2>2 DEF Abstract!ItemNext, Abstract!Produce, got, end
  <2>3. CASE link' # "open" /\ (Owed' = Owed \/ \E o \in Outcomes : Owed' = Append(Owed, o))
    BY <2>1, <2>3 DEF Abstract!ItemNext, Abstract!Close, got, end
  <2>. QED
    BY <1>2, <2>2, <2>3 DEF SenderProduces
<1>. QED
  BY <1>7, <1>8

\* One entry more, and the next item's outcome as one.
Adds(o2, o, x) == o2 = Append(o, x)
AddsNext(o2, s, n, x) == x = Unrender(s[n + 1]) /\ Adds(o2, Given(s, n), x)

\* The next item's outcome, after the first n.
LEMMA GivenOne ==
  ASSUME NEW f \in Framings, NEW s \in Seq(Items[f]), NEW n \in 0..Len(s),
         n + 1 \in 1..Len(s), NEW o2, NEW x, AddsNext(o2, s, n, x)
  PROVE  /\ o2 = Given(s, n + 1) /\ n + 1 \in 0..Len(s)
         /\ o2 \in Seq(Entries) /\ x \in Outcomes
         /\ ~FailedIn(Given(s, n)) /\ UpTo(Given(s, n)) = Given(s, n)
         /\ ~FailedIn(o2) /\ UpTo(o2) = o2
         /\ ErrIn(o2) <=> ErrIn(Given(s, n)) \/ x.tag = "Err"
         /\ Len(Given(s, n)) < Len(Given(s, Len(s)))
         /\ Given(s, Len(s))[Len(Given(s, n)) + 1] = x
<1>. x = Unrender(s[n + 1]) /\ Adds(o2, Given(s, n), x)
  BY DEF AddsNext
<1>1. s[n + 1] \in Items[f] /\ Len(s) \in Nat /\ Len(s) \in 0..Len(s) /\ n + 1 \in 0..Len(s)
  OBVIOUS
<1>2. x \in Outcomes
  BY <1>1, OutcomeFacts
<1>3. /\ Given(s, n) \in Seq(Outcomes) /\ Len(Given(s, n)) = n /\ ~FailedIn(Given(s, n))
      /\ Append(Given(s, n), Unrender(s[n + 1])) = Given(s, n + 1)
  BY GivenNext
<1>4. o2 = Given(s, n + 1)
  BY <1>3, Zenon DEF Adds
<1>5. Given(s, n + 1) \in Seq(Outcomes) /\ ~FailedIn(Given(s, n + 1))
  BY <1>1, GivenNext
<1>6. Given(s, n + 1) \in Seq(Entries)
  <2>1. Outcomes \subseteq Entries
    BY DEF Entries
  <2>. HIDE DEF Outcomes, Entries
  <2>. DEFINE g == Given(s, n + 1)
  <2>2. g \in Seq(Outcomes)
    BY <1>5
  <2>. HIDE DEF g
  <2>3. g \in Seq(Entries)
    BY <2>1, <2>2
  <2>. QED
    BY <2>3 DEF g
<1>7. UpTo(Given(s, n)) = Given(s, n) /\ UpTo(Given(s, n + 1)) = Given(s, n + 1)
  BY <1>2, <1>3, <1>5, UpToFacts
<1>8. ErrIn(Append(Given(s, n), x)) <=> ErrIn(Given(s, n)) \/ x.tag = "Err"
  <2>. DEFINE g == Given(s, n)
  <2>1. g \in Seq(Outcomes)
    BY <1>3
  <2>. HIDE DEF g
  <2>2. ErrIn(Append(g, x)) <=> ErrIn(g) \/ x.tag = "Err"
    BY <1>2, <2>1, ErrFacts
  <2>. QED
    BY <2>2 DEF g
<1>9. /\ Len(Given(s, Len(s))) = Len(s)
      /\ Given(s, Len(s))[n + 1] = Unrender(s[n + 1])
  <2>1. Len(Given(s, Len(s))) = Len(s)
    BY <1>1, GivenNext
  <2>2. Given(s, Len(s))[n + 1] = Unrender(s[n + 1])
    BY DEF Given
  <2>. QED
    BY <2>1, <2>2
<1>10. n < Len(s)
  BY <1>1
<1>. QED
  BY <1>1, <1>2, <1>3, <1>4, <1>5, <1>6, <1>7, <1>8, <1>9, <1>10, Zenon DEF Adds

\* An error of the stream itself is handed over.
LEMMA GivenFailure ==
  ASSUME NEW f \in Framings, NEW s \in Seq(Items[f]), NEW n \in 0..Len(s),
         NEW error \in StreamErrors, NEW o2, Adds(o2, Given(s, n), Err(error))
  PROVE  /\ o2 \in Seq(Entries)
         /\ ~FailedIn(Given(s, n)) /\ UpTo(Given(s, n)) = Given(s, n)
         /\ FailedIn(o2) /\ ErrIn(o2) /\ UpTo(o2) = Given(s, n)
         /\ Err("FrameTooLarge") \in Range(o2) => error = "FrameTooLarge"
<1>1. Given(s, n) \in Seq(Outcomes) /\ ~FailedIn(Given(s, n))
  BY GivenNext
<1>2. Given(s, n) \in Seq(Entries)
  <2>1. Outcomes \subseteq Entries
    BY DEF Entries
  <2>. HIDE DEF Outcomes, Entries
  <2>. DEFINE g == Given(s, n)
  <2>2. g \in Seq(Outcomes)
    BY <1>1
  <2>. HIDE DEF g
  <2>3. g \in Seq(Entries)
    BY <2>1, <2>2
  <2>. QED
    BY <2>3 DEF g
<1>3. Err(error) \in Entries /\ IsFailure(Err(error)) /\ Err(error).tag = "Err"
  BY FailureFacts
<1>. DEFINE p == Append(Given(s, n), Err(error))
<1>4. p \in Seq(Entries) /\ ErrIn(p)
  BY <1>2, <1>3, ErrFacts
<1>5. FailedIn(p) /\ UpTo(p) = Given(s, n) /\ UpTo(Given(s, n)) = Given(s, n)
  BY <1>1, <1>2, <1>3, UpToFacts
<1>6. Err("FrameTooLarge") \in Range(p) => error = "FrameTooLarge"
  <2>1. Err("FrameTooLarge") \in Range(p) =>
          Err("FrameTooLarge") \in Range(Given(s, n)) \/ Err("FrameTooLarge") = Err(error)
    BY <1>2, <1>3, ErrFacts
  <2>2. Err("FrameTooLarge") \notin Range(Given(s, n))
    BY GivenRefusesNone
  <2>3. Err("FrameTooLarge") = Err(error) => error = "FrameTooLarge"
    BY DEF Err
  <2>. QED
    BY <2>1, <2>2, <2>3
<1>. QED
  BY <1>1, <1>4, <1>5, <1>6, Zenon DEF Adds

\* The items themselves, their outcomes given so far, and the rest of them.
LEMMA GoingOn ==
  ASSUME StreamsTyped, NEW n, Coming(n)
  PROVE  /\ framing \in Framings /\ sent \in Seq(Items[framing]) /\ n \in 0..Len(sent)
         /\ Owed = Given(sent, Len(sent))
         /\ ~FailedIn(Given(sent, n)) /\ UpTo(Given(sent, n)) = Given(sent, n)
<1>1. framing \in Framings /\ sent \in Seq(Items[framing])
  BY DEF StreamsTyped
<1>2. n \in 0..Len(sent)
  BY DEF Coming, Flow
<1>3. Owed = Given(sent, Len(sent))
  BY <1>1, OwedIsGiven DEF Owed
<1>4. Given(sent, n) \in Seq(Outcomes) /\ ~FailedIn(Given(sent, n))
  BY <1>1, <1>2, GivenNext
<1>5. UpTo(Given(sent, n)) = Given(sent, n)
  <2>. DEFINE D == {Err("Decode")} \cup Outcomes
  <2>2. Given(sent, n) \in Seq(D) /\ Err("Decode") \in D
    <3>. DEFINE g == Given(sent, n)
    <3>1. g \in Seq(Outcomes) /\ Outcomes \subseteq D
      BY <1>4
    <3>. HIDE DEF g, D
    <3>2. g \in Seq(D)
      BY <3>1
    <3>. QED
      BY <3>2 DEF g, D
  <2>. HIDE DEF D
  <2>. QED
    BY <1>4, <2>2, UpToFacts
<1>. QED
  BY <1>1, <1>2, <1>3, <1>4, <1>5

\* A frame is given, and what is not an item ends the stream.
LEMMA BodyFrame ==
  ASSUME BodyInv, pc = "loop", NEW found, found = DeframeLimited(framing, buf, eof, MaxFrame),
         YieldFrame(found), UNCHANGED <<channel, wire, eof>>
  PROVE  BodyInv' /\ Abstract!ItemNext
<1>1. StreamsTyped /\ GoesOn
  BY DEF BodyInv, Stopped, Completed
<1>2. PICK n \in 0..Len(sent) : out = Given(sent, n) /\ Coming(n)
  BY <1>1 DEF GoesOn
<1>3. /\ framing \in Framings /\ sent \in Seq(Items[framing]) /\ (framing = "none" => Len(sent) <= 1)
      /\ wire \in Seq(Bytes) /\ buf \in Seq(Bytes) /\ junked \in BOOLEAN /\ eof \in BOOLEAN
  BY <1>1 DEF StreamsTyped
<1>4. PICK h \in Seq(Bytes) : Joins(h, buf, wire) /\ Flow(framing, sent, link, junked, h, n)
  BY <1>2 DEF Coming
<1>5. eof => wire = <<>> /\ link # "broken"
  BY <1>1 DEF GoesOn
<1>6. found.tag = "frame"
  BY DEF YieldFrame
<1>7. PICK z \in Seq(Bytes), h2 \in Seq(Bytes) :
        /\ n + 1 \in 1..Len(sent) /\ sent[n + 1] \in Items[framing]
        /\ found = Got(Deframed(sent[n + 1], z))
        /\ Joins(h2, z, wire) /\ Flow(framing, sent, link, junked, h2, n + 1)
  <2>1. /\ found # More /\ found # Refusal("FrameTooLarge") /\ found # Refusal("MalformedFrame")
    BY <1>6 DEF More, Refusal
  <2>. QED
    BY <1>3, <1>4, <1>5, <2>1, LimitedNext, SMTT(40)
<1>. DEFINE x == Unrender(sent[n + 1])
<1>8. found.frame = sent[n + 1] /\ found.rest = z
  BY <1>7 DEF Got, Deframed
<1>9. /\ Adds(out', out, x) /\ buf' = z
      /\ pc' = IF x.tag = "Ok" THEN "loop" ELSE "done"
  BY <1>8 DEF YieldFrame, Yield, Goto, Adds
<1>10. UNCHANGED <<framing, sent, link, junked, wire, eof>>
  BY DEF channel
<1>11. x \in Outcomes /\ (x.tag # "Ok" => x.tag = "Err") /\ (x.tag = "Ok" => x.tag # "Err")
  <2>1. x.tag \in {"Ok", "Err"}
    BY DEF Unrender, Ok, Err
  <2>2. x \in Outcomes
    BY <1>3, <1>7, OutcomeFacts
  <2>. QED
    BY <2>1, <2>2
<1>12. /\ out' = Given(sent, n + 1) /\ n + 1 \in 0..Len(sent) /\ out' \in Seq(Entries)
       /\ ~FailedIn(out) /\ UpTo(out) = out /\ ~FailedIn(out') /\ UpTo(out') = out'
       /\ ErrIn(out') <=> ErrIn(out) \/ x.tag = "Err"
       /\ Len(out) < Len(Given(sent, Len(sent)))
       /\ Given(sent, Len(sent))[Len(out) + 1] = x
  <2>. DEFINE o2 == out'
  <2>1. AddsNext(o2, sent, n, x)
    BY <1>2, <1>9 DEF AddsNext
  <2>. HIDE DEF o2, x
  <2>3. /\ o2 = Given(sent, n + 1) /\ n + 1 \in 0..Len(sent)
        /\ o2 \in Seq(Entries) /\ x \in Outcomes
        /\ ~FailedIn(Given(sent, n)) /\ UpTo(Given(sent, n)) = Given(sent, n)
        /\ ~FailedIn(o2) /\ UpTo(o2) = o2
        /\ ErrIn(o2) <=> ErrIn(Given(sent, n)) \/ x.tag = "Err"
        /\ Len(Given(sent, n)) < Len(Given(sent, Len(sent)))
        /\ Given(sent, Len(sent))[Len(Given(sent, n)) + 1] = x
    BY <1>3, <1>7, <2>1, GivenOne
  <2>. QED
    BY <1>2, <2>3, Zenon DEF o2
<1>. HIDE DEF x
<1>13. StreamsTyped'
  BY <1>1, <1>9, <1>10, <1>12 DEF StreamsTyped
<1>14. ~ErrIn(out)
  BY <1>1 DEF GoesOn
<1>15. BodyInv'
  <2>1. CASE x.tag = "Ok"
    <3>1. Coming(n + 1)'
      BY <1>1, <1>7, <1>9, TakenKeeps
    <3>2. pc' \in {"loop", "body"} /\ pc' # "body" /\ ~ErrIn(out')
      BY <1>9, <1>11, <1>12, <1>14, <2>1
    <3>3. eof' => link' = "ended" /\ wire' = <<>>
      BY <1>1, <1>10 DEF GoesOn
    <3>4. GoesOn'
      BY <1>10, <1>12, <3>1, <3>2, <3>3 DEF GoesOn
    <3>. QED
      BY <1>13, <3>4 DEF BodyInv
  <2>2. CASE x.tag = "Err"
    <3>1. pc' = "done" /\ ErrIn(out')
      BY <1>9, <1>11, <1>12, <2>2
    <3>2. Err("FrameTooLarge") \notin Range(out')
      BY <1>12, GivenRefusesNone
    <3>3. Stopped'
      BY <1>10, <1>12, <3>1, <3>2 DEF Stopped
    <3>. QED
      BY <1>13, <3>3 DEF BodyInv
  <2>. QED
    BY <1>11, <2>1, <2>2
<1>16. Abstract!ItemNext
  <2>1. UpToFailure = UpTo(out) /\ UpToFailure' = UpTo(out') /\ Owed' = Owed
    BY <1>10, Zenon DEF UpToFailure, UpTo, Owed
  <2>2. ~Failed /\ ~Failed'
    BY <1>12, Zenon DEF Failed, FailedIn
  <2>3. pc # "over" /\ pc' # "over"
    BY <1>9
  <2>4. Owed = Given(sent, Len(sent))
    BY <1>1, <1>2, GoingOn
  <2>5. UpToFailure' = Append(UpToFailure, x)
    BY <1>9, <1>12, <2>1, Zenon DEF Adds
  <2>6. Len(UpToFailure) < Len(Owed) /\ Owed[Len(UpToFailure) + 1] = x
    BY <1>12, <2>1, <2>4
  <2>. QED
    BY <1>10, <2>1, <2>2, <2>3, <2>5, <2>6, Zenon DEF Abstract!ItemNext, Abstract!Deliver
<1>. QED
  BY <1>15, <1>16

\* An error of the stream itself is its last entry.
LEMMA FailureStops ==
  ASSUME StreamsTyped, GoesOn, NEW n \in 0..Len(sent), out = Given(sent, n), Coming(n),
         NEW error \in StreamErrors, Adds(out', out, Err(error)), pc' = "done",
         UNCHANGED <<channel, wire, buf, eof>>,
         error = "FrameTooLarge" /\ framing = "netstring" => TooLarge(n)
  PROVE  BodyInv' /\ Abstract!ItemNext
<1>1. framing \in Framings /\ sent \in Seq(Items[framing])
  BY DEF StreamsTyped
<1>2. /\ out' \in Seq(Entries) /\ ~FailedIn(out) /\ UpTo(out) = out
      /\ FailedIn(out') /\ ErrIn(out') /\ UpTo(out') = Given(sent, n)
      /\ Err("FrameTooLarge") \in Range(out') => error = "FrameTooLarge"
  <2>. DEFINE o2 == out'
  <2>1. Adds(o2, Given(sent, n), Err(error))
    OBVIOUS
  <2>. HIDE DEF o2
  <2>2. /\ o2 \in Seq(Entries)
        /\ ~FailedIn(Given(sent, n)) /\ UpTo(Given(sent, n)) = Given(sent, n)
        /\ FailedIn(o2) /\ ErrIn(o2) /\ UpTo(o2) = Given(sent, n)
        /\ Err("FrameTooLarge") \in Range(o2) => error = "FrameTooLarge"
    BY <1>1, <2>1, GivenFailure
  <2>. QED
    BY <2>2, Zenon DEF o2
<1>3. UNCHANGED <<framing, sent, link, junked, wire, buf, eof>>
  BY DEF channel
<1>4. StreamsTyped'
  BY <1>2, <1>3 DEF StreamsTyped
<1>5. TooLarge(n) => TooLarge(n)'
  BY <1>3 DEF TooLarge
<1>6. Stopped'
  <2>1. Err("FrameTooLarge") \in Range(out') /\ framing' = "netstring" => TooLarge(n)'
    BY <1>2, <1>3, <1>5
  <2>2. n \in 0..Len(sent') /\ UpTo(out') = Given(sent', n)
    BY <1>2, <1>3
  <2>. QED
    BY <1>2, <2>1, <2>2 DEF Stopped
<1>7. Abstract!ItemNext
  <2>1. UpToFailure = UpTo(out) /\ UpToFailure' = UpTo(out') /\ Owed' = Owed
    BY <1>3, Zenon DEF UpToFailure, UpTo, Owed
  <2>2. ~Failed /\ Failed' /\ pc # "over"
    BY <1>2 DEF Failed, FailedIn, GoesOn
  <2>. QED
    BY <1>2, <1>3, <2>1, <2>2, Zenon DEF Abstract!ItemNext, Abstract!FailOpenly
<1>. QED
  BY <1>4, <1>6, <1>7 DEF BodyInv

\* A refusal of deframe_limited ends the stream.
LEMMA BodyRefusal ==
  ASSUME BodyInv, pc = "loop", NEW found, found = DeframeLimited(framing, buf, eof, MaxFrame),
         Refuse(found), UNCHANGED <<channel, wire, eof>>
  PROVE  BodyInv' /\ Abstract!ItemNext
<1>1. StreamsTyped /\ GoesOn
  BY DEF BodyInv, Stopped, Completed
<1>2. PICK n \in 0..Len(sent) : out = Given(sent, n) /\ Coming(n)
  BY <1>1 DEF GoesOn
<1>3. /\ framing \in Framings /\ sent \in Seq(Items[framing]) /\ (framing = "none" => Len(sent) <= 1)
      /\ wire \in Seq(Bytes) /\ buf \in Seq(Bytes) /\ junked \in BOOLEAN /\ eof \in BOOLEAN
      /\ (junked => link # "open")
  BY <1>1 DEF StreamsTyped
<1>4. PICK h \in Seq(Bytes) : Joins(h, buf, wire) /\ Flow(framing, sent, link, junked, h, n)
  BY <1>2 DEF Coming
<1>5. eof => wire = <<>> /\ link # "broken"
  BY <1>1 DEF GoesOn
<1>6. found.tag = "error" /\ Adds(out', out, Err(found.error)) /\ pc' = "done" /\ buf' = buf
  BY DEF Refuse, Yield, Goto, Adds
<1>7. /\ found \in {Refusal("FrameTooLarge"), Refusal("MalformedFrame")}
      /\ framing = "netstring" /\ n # Len(sent) =>
           n + 1 \in 1..Len(sent) /\ ~(Len(sent[n + 1]) <= MaxFrame)
      /\ framing = "netstring" /\ n = Len(sent) => junked
  <2>1. found # More /\ \A d : found # Got(d)
    BY <1>6 DEF More, Got
  <2>. QED
    BY <1>3, <1>4, <1>5, <2>1, LimitedNext
<1>8. found.error \in StreamErrors
  BY <1>7 DEF Refusal, StreamErrors
<1>9. framing = "netstring" => TooLarge(n)
  BY <1>3, <1>7, Zenon DEF TooLarge
<1>10. UNCHANGED <<channel, wire, buf, eof>>
  BY <1>6
<1>. DEFINE error == found.error
<1>11. error \in StreamErrors /\ Adds(out', out, Err(error))
  BY <1>6, <1>8
<1>. HIDE DEF error
<1>. QED
  BY <1>1, <1>2, <1>6, <1>9, <1>10, <1>11, FailureStops

\* An error of the body ends the stream.
LEMMA BodyError ==
  ASSUME BodyInv, ReadError PROVE BodyInv' /\ Abstract!ItemNext
<1>1. StreamsTyped /\ GoesOn
  BY DEF BodyInv, Stopped, Completed, ReadError, BodyFails
<1>2. PICK n \in 0..Len(sent) : out = Given(sent, n) /\ Coming(n)
  BY <1>1 DEF GoesOn
<1>3. /\ Adds(out', out, Err("Transport")) /\ pc' = "done" /\ UNCHANGED <<channel, wire, buf, eof>>
  BY DEF ReadError, Yield, Goto, Adds
<1>4. "Transport" \in StreamErrors /\ "Transport" # "FrameTooLarge"
  BY DEF StreamErrors
<1>. QED
  BY <1>1, <1>2, <1>3, <1>4, FailureStops

\* No frame yet: more is awaited, or nothing is missing.
LEMMA BodyNothing ==
  ASSUME BodyInv, pc = "loop", NEW found, found = DeframeLimited(framing, buf, eof, MaxFrame),
         NothingYet(found), UNCHANGED <<channel, wire, eof>>
  PROVE  BodyInv' /\ [Abstract!ItemNext]_(Abstract!itemVars)
<1>1. StreamsTyped /\ GoesOn
  BY DEF BodyInv, Stopped, Completed
<1>2. PICK n \in 0..Len(sent) : out = Given(sent, n) /\ Coming(n)
  BY <1>1 DEF GoesOn
<1>3. /\ framing \in Framings /\ sent \in Seq(Items[framing]) /\ (framing = "none" => Len(sent) <= 1)
      /\ wire \in Seq(Bytes) /\ buf \in Seq(Bytes) /\ junked \in BOOLEAN /\ eof \in BOOLEAN
  BY <1>1 DEF StreamsTyped
<1>4. PICK h \in Seq(Bytes) : Joins(h, buf, wire) /\ Flow(framing, sent, link, junked, h, n)
  BY <1>2 DEF Coming
<1>5. eof => wire = <<>> /\ link = "ended" /\ link # "broken"
  BY <1>1 DEF GoesOn
<1>6. found.tag = "more" /\ UNCHANGED <<buf, out>> /\ pc' = IF eof THEN "over" ELSE "body"
  BY DEF NothingYet, Goto
<1>7. found = More /\ (eof => buf = <<>>)
  <2>1. /\ \A d : found # Got(d)
        /\ found # Refusal("FrameTooLarge") /\ found # Refusal("MalformedFrame")
    BY <1>6 DEF Got, Refusal
  <2>. QED
    BY <1>3, <1>4, <1>5, <2>1, LimitedNext
<1>8. UNCHANGED <<framing, sent, link, junked, wire, buf, eof, out>>
  BY <1>6 DEF channel
<1>9. StreamsTyped'
  BY <1>1, <1>8 DEF StreamsTyped
<1>10. ~ErrIn(out) /\ ~ErrIn(out')
  BY <1>1, <1>8 DEF GoesOn
<1>11. Owed = Given(sent, Len(sent)) /\ ~FailedIn(out) /\ UpTo(out) = out
  BY <1>1, <1>2, GoingOn
<1>12. /\ UpToFailure = out /\ UpToFailure' = out /\ Owed' = Owed
       /\ ~Failed /\ ~Failed' /\ ~Erred /\ ~Erred'
  <2>1. UpToFailure = out
    BY <1>11, Zenon DEF UpToFailure, UpTo
  <2>2. UpToFailure' = UpToFailure /\ Owed' = Owed
    BY <1>8 DEF UpToFailure, Owed
  <2>3. ~Failed /\ ~Failed' /\ ~Erred /\ ~Erred'
    BY <1>8, <1>10, <1>11, Zenon DEF Failed, FailedIn, Erred, ErrIn
  <2>. QED
    BY <2>1, <2>2, <2>3
<1>13. CASE eof
  <2>1. h = <<>>
    BY <1>3, <1>4, <1>5, <1>7, <1>13, JoinedFacts
  <2>2. n = Len(sent) /\ ~junked
    BY <1>3, <1>4, <1>5, <1>13, <2>1, NothingLeft
  <2>3. Completed'
    BY <1>2, <1>5, <1>6, <1>8, <1>10, <1>13, <2>2 DEF Completed
  <2>4. Abstract!Complete
    <3>1. pc # "over" /\ pc' = "over" /\ link # "open" /\ link' # "open"
      BY <1>5, <1>6, <1>8, <1>13
    <3>2. UpToFailure = Owed
      BY <1>2, <1>11, <1>12, <2>2
    <3>. QED
      BY <1>12, <3>1, <3>2, Zenon DEF Abstract!Complete
  <2>. QED
    BY <1>9, <2>3, <2>4 DEF BodyInv, Abstract!ItemNext
<1>14. CASE ~eof
  <2>1. Coming(n)'
    BY <1>2, <1>8 DEF Coming
  <2>2. GoesOn'
    BY <1>2, <1>6, <1>8, <1>10, <1>14, <2>1 DEF GoesOn
  <2>3. UNCHANGED Abstract!itemVars
    <3>1. pc # "over" /\ pc' # "over" /\ link' = link
      BY <1>6, <1>8, <1>14
    <3>. QED
      BY <1>12, <3>1, Zenon DEF Abstract!itemVars
  <2>. QED
    BY <1>9, <2>2, <2>3 DEF BodyInv
<1>. QED
  BY <1>13, <1>14

\* A chunk or the end of the body is only buffered.
LEMMA BodyReads ==
  ASSUME BodyInv, ReadChunk \/ ReadEnd
  PROVE  BodyInv' /\ [Abstract!ItemNext]_(Abstract!itemVars)
<1>1. /\ StreamsTyped /\ GoesOn /\ pc = "body"
  BY DEF BodyInv, Stopped, Completed, ReadChunk, ReadEnd, BodyEnds
<1>2. PICK n \in 0..Len(sent) : out = Given(sent, n) /\ Coming(n)
  BY <1>1 DEF GoesOn
<1>3. UNCHANGED <<framing, sent, link, junked, out>> /\ pc' = "loop"
  BY DEF ReadChunk, ReadEnd, channel, Goto
<1>4. /\ buf' \in Seq(Bytes) /\ wire' \in Seq(Bytes) /\ Coming(n)' /\ eof' \in BOOLEAN
      /\ eof' => link = "ended" /\ wire' = <<>>
  <2>1. CASE ReadChunk
    <3>1. PICK k \in 1..Len(wire) : buf' = buf \o SubSeq(wire, 1, k) /\ wire' = From(wire, k + 1)
      BY <2>1 DEF ReadChunk
    <3>2. k \in 0..Len(wire)
      OBVIOUS
    <3>3. UNCHANGED channel /\ eof' = eof /\ ~eof /\ eof \in BOOLEAN
      BY <1>1, <2>1 DEF ReadChunk, GoesOn, StreamsTyped
    <3>4. buf' \in Seq(Bytes) /\ wire' \in Seq(Bytes) /\ \A m : Coming(m) => Coming(m)'
      BY <1>1, <3>1, <3>2, <3>3, ChunkKeeps
    <3>. QED
      BY <1>2, <3>3, <3>4
  <2>2. CASE ReadEnd
    <3>1. UNCHANGED <<channel, wire, buf>> /\ eof' = TRUE /\ wire = <<>> /\ link = "ended"
      BY <2>2 DEF ReadEnd, BodyEnds
    <3>2. wire \in Seq(Bytes) /\ buf \in Seq(Bytes)
      BY <1>1 DEF StreamsTyped
    <3>3. Coming(n)'
      BY <1>2, <3>1 DEF Coming, channel
    <3>. QED
      BY <3>1, <3>2, <3>3
  <2>. QED
    BY <2>1, <2>2
<1>5. StreamsTyped'
  BY <1>1, <1>3, <1>4 DEF StreamsTyped
<1>6. GoesOn'
  <2>1. ~ErrIn(out') /\ out' = Given(sent', n) /\ n \in 0..Len(sent')
    BY <1>1, <1>2, <1>3 DEF GoesOn
  <2>. QED
    BY <1>3, <1>4, <2>1 DEF GoesOn
<1>7. UNCHANGED Abstract!itemVars
  <2>1. UpToFailure' = UpToFailure /\ Owed' = Owed /\ link' = link /\ pc # "over" /\ pc' # "over"
    BY <1>1, <1>3 DEF UpToFailure, Owed
  <2>2. Failed' <=> Failed
    BY <1>3 DEF Failed
  <2>. QED
    BY <2>1, <2>2, Zenon DEF Abstract!itemVars
<1>. QED
  BY <1>5, <1>6, <1>7 DEF BodyInv

\* The stream that a decode error ended is only now over.
LEMMA BodyFinishes ==
  ASSUME BodyInv, Finish
  PROVE  BodyInv' /\ [Abstract!ItemNext]_(Abstract!itemVars)
<1>1. StreamsTyped /\ Stopped /\ pc = "done"
  BY DEF BodyInv, GoesOn, Completed, Finish
<1>2. UNCHANGED <<framing, sent, link, junked, wire, buf, eof, out>> /\ pc' = "over"
  BY DEF Finish, channel, Goto
<1>3. StreamsTyped'
  BY <1>1, <1>2 DEF StreamsTyped
<1>4. Stopped'
  <2>1. PICK n \in 0..Len(sent) :
          /\ UpTo(out) = Given(sent, n)
          /\ Err("FrameTooLarge") \in Range(out) /\ framing = "netstring" => TooLarge(n)
    BY <1>1 DEF Stopped
  <2>2. TooLarge(n) => TooLarge(n)'
    BY <1>2 DEF TooLarge
  <2>3. ErrIn(out') /\ UpTo(out') = Given(sent', n) /\ n \in 0..Len(sent') /\ Range(out') = Range(out)
    BY <1>1, <1>2, <2>1 DEF Stopped
  <2>. QED
    BY <1>2, <2>1, <2>2, <2>3 DEF Stopped
<1>5. UpToFailure' = UpToFailure /\ Owed' = Owed /\ (Failed' <=> Failed) /\ Erred' /\ link' = link
  <2>1. UpToFailure' = UpToFailure /\ Owed' = Owed
    BY <1>2 DEF UpToFailure, Owed
  <2>2. Failed' <=> Failed
    BY <1>2 DEF Failed
  <2>3. Erred'
    BY <1>1, <1>2 DEF Stopped, ErrIn, Erred
  <2>. QED
    BY <1>2, <2>1, <2>2, <2>3
<1>6. CASE Failed
  <2>1. UNCHANGED Abstract!itemVars
    BY <1>5, <1>6, Zenon DEF Abstract!itemVars
  <2>. QED
    BY <1>3, <1>4, <2>1 DEF BodyInv
<1>7. CASE ~Failed
  <2>1. pc # "over"
    BY <1>1
  <2>2. Abstract!FailOpenly
    BY <1>2, <1>5, <1>7, <2>1, Zenon DEF Abstract!FailOpenly
  <2>. QED
    BY <1>3, <1>4, <2>2 DEF BodyInv, Abstract!ItemNext
<1>. QED
  BY <1>6, <1>7

\* Without a step nothing changes.
LEMMA BodyStutters ==
  ASSUME BodyInv, UNCHANGED vars
  PROVE  BodyInv' /\ [Abstract!ItemNext]_(Abstract!itemVars)
<1>1. UNCHANGED <<framing, sent, link, junked, wire, buf, eof, out, pc>>
  BY DEF vars, channel, reader
<1>2. BodyInv'
  <2>1. StreamsTyped => StreamsTyped'
    BY <1>1 DEF StreamsTyped
  <2>2. \A n : (Coming(n) => Coming(n)') /\ (TooLarge(n) => TooLarge(n)')
    BY <1>1 DEF Coming, TooLarge
  <2>3. GoesOn => GoesOn'
    BY <1>1, <2>2 DEF GoesOn
  <2>4. Stopped => Stopped'
    BY <1>1, <2>2 DEF Stopped
  <2>5. Completed => Completed'
    BY <1>1 DEF Completed
  <2>. QED
    BY <2>1, <2>3, <2>4, <2>5 DEF BodyInv
<1>3. UNCHANGED Abstract!itemVars
  <2>1. UpToFailure' = UpToFailure /\ Owed' = Owed
    BY <1>1 DEF UpToFailure, Owed
  <2>2. (Failed' <=> Failed) /\ (Erred' <=> Erred)
    BY <1>1 DEF Failed, Erred
  <2>. QED
    BY <1>1, <2>1, <2>2, Zenon DEF Abstract!itemVars
<1>. QED
  BY <1>2, <1>3

\* Every step of the handler's side keeps the invariant and implements ItemStream.
LEMMA BodyStep ==
  ASSUME BodyInv, [Next]_vars
  PROVE  BodyInv' /\ [Abstract!ItemNext]_(Abstract!itemVars)
<1>1. CASE SenderStep
  BY <1>1, BodySenderStep
<1>2. CASE DeframeNext
  <2>1. pc = "loop" /\ UNCHANGED <<channel, wire, eof>>
    BY <1>2 DEF DeframeNext
  <2>2. PICK found : /\ found = DeframeLimited(framing, buf, eof, MaxFrame)
                     /\ YieldFrame(found) \/ Refuse(found) \/ NothingYet(found)
    BY <1>2 DEF DeframeNext
  <2>3. CASE YieldFrame(found)
    BY <2>1, <2>2, <2>3, BodyFrame
  <2>4. CASE Refuse(found)
    BY <2>1, <2>2, <2>4, BodyRefusal
  <2>5. CASE NothingYet(found)
    BY <2>1, <2>2, <2>5, BodyNothing
  <2>. QED
    BY <2>2, <2>3, <2>4, <2>5
<1>3. CASE ReadChunk \/ ReadEnd
  BY <1>3, BodyReads
<1>4. CASE ReadError
  BY <1>4, BodyError
<1>5. CASE Finish
  BY <1>5, BodyFinishes
<1>6. CASE UNCHANGED vars
  BY <1>6, BodyStutters
<1>. QED
  BY <1>1, <1>2, <1>3, <1>4, <1>5, <1>6 DEF Next, Poll

\* The invariant of the handler's side.
LEMMA BodyInvariant == Spec => []BodyInv
<1>1. Init => BodyInv
  BY BodyInitially
<1>2. BodyInv /\ [Next]_vars => BodyInv'
  BY BodyStep
<1>. QED
  BY <1>1, <1>2, PTL DEF Spec

(***************************************************************************)
(* NetstringFraming::deframe_limited says FrameTooLarge only of an item    *)
(* whose announced length is beyond the cap, whatever else the buffer      *)
(* holds when the chunks are large.                                        *)
(***************************************************************************)
THEOREM NetstringRefusals == Spec => []NetstringRefusalsAreTrue
<1>1. BodyInv => NetstringRefusalsAreTrue
  <2>. SUFFICES ASSUME BodyInv, framing = "netstring", Err("FrameTooLarge") \in Range(out),
                       Len(UpToFailure) < Len(sent)
                PROVE  Len(sent[Len(UpToFailure) + 1]) > MaxFrame
    BY DEF NetstringRefusalsAreTrue, RefusalsAreTrue
  <2>1. framing \in Framings /\ sent \in Seq(Items[framing])
    BY DEF BodyInv, StreamsTyped
  <2>2. Stopped
    BY GivenRefusesNone DEF BodyInv, GoesOn, Completed
  <2>3. PICK n \in 0..Len(sent) : UpTo(out) = Given(sent, n) /\ TooLarge(n)
    BY <2>2 DEF Stopped
  <2>4. UpToFailure = Given(sent, n)
    BY <2>3, Zenon DEF UpToFailure, UpTo
  <2>5. Len(UpToFailure) = n
    BY <2>1, <2>4, GivenNext
  <2>6. n + 1 \in 1..Len(sent) /\ ~(Len(sent[n + 1]) <= MaxFrame)
    <3>1. n # Len(sent)
      BY <2>1, <2>5
    <3>. QED
      BY <2>3, <3>1 DEF TooLarge
  <2>7. sent[n + 1] \in Items[framing]
    BY <2>1, <2>6
  <2>8. Len(sent[n + 1]) \in 0..9 /\ MaxFrame \in Nat
    BY <2>1, <2>7, ItemFacts, MaxFrameNat
  <2>9. Len(sent[n + 1]) > MaxFrame
    BY <2>6, <2>8
  <2>. QED
    BY <2>5, <2>9
<1>. QED
  BY <1>1, BodyInvariant, PTL

(***************************************************************************)
(* A stream of decode_stream that ends without an error leaves nothing     *)
(* behind: MalformedFrame is said of what the end cuts off, or makes no    *)
(* frame of.                                                               *)
(***************************************************************************)
THEOREM HandlerHearsOfJunk == Spec => []JunkIsReported
<1>1. BodyInv => JunkIsReported
  BY DEF BodyInv, GoesOn, Stopped, Completed, JunkIsReported, Erred, ErrIn
<1>. QED
  BY <1>1, BodyInvariant, PTL

(***************************************************************************)
(* However the chunks are cut and wherever the connection breaks,          *)
(* decode_stream gives its handler the items that were sent, whole, in     *)
(* order and once, and ends without an error only after all of them.       *)
(***************************************************************************)
THEOREM HandlerGetsTheItems == Spec => DeliversItems
<1>1. Init => Abstract!ItemInit
  <2>. SUFFICES ASSUME Init PROVE Abstract!ItemInit
    OBVIOUS
  <2>1. /\ sent = <<>> /\ link = "open" /\ out = <<>> /\ pc = "loop"
    BY DEF Init
  <2>2. ~Failed
    BY <2>1 DEF Failed
  <2>3. BodyInv
    BY BodyInitially
  <2>4. PICK n : n \in 0..Len(sent) /\ out = Given(sent, n) /\ Coming(n)
    BY <2>1, <2>3 DEF BodyInv, GoesOn, Stopped, Completed
  <2>5. UpTo(out) = out /\ Owed = Given(sent, Len(sent))
    BY <2>3, <2>4, GoingOn DEF BodyInv
  <2>6. UpToFailure = <<>>
    BY <2>1, <2>5, Zenon DEF UpToFailure, UpTo
  <2>7. Owed = <<>>
    <3>1. n = Len(sent)
      BY <2>1, <2>4
    <3>. QED
      BY <2>1, <2>4, <2>5, <3>1
  <2>8. pc # "over"
    BY <2>1
  <2>. QED
    BY <2>1, <2>2, <2>6, <2>7, <2>8, Zenon DEF Abstract!ItemInit
<1>2. BodyInv /\ [Next]_vars => [Abstract!ItemNext]_(Abstract!itemVars)
  BY BodyStep
<1>. QED
  BY <1>1, <1>2, BodyInvariant, PTL DEF Spec, DeliversItems, Abstract!ItemSpec

-----------------------------------------------------------------------------
(***************************************************************************)
(* The caller's side.  Its stream goes on, with the outcomes of the first  *)
(* n items given and the rest coming; or it has failed and runs out of its *)
(* buffer; or it is over, and everything was given.                        *)
(***************************************************************************)
Flowing ==
  /\ pc \in {"loop", "body"}
  /\ \E n \in 0..Len(sent) : out = Given(sent, n) /\ Coming(n)
  /\ eof => link = "ended" /\ wire = <<>>
  /\ pc = "body" => ~eof

Cut ==
  /\ pc \in {"loop", "over"} /\ eof /\ FailedIn(out)
  /\ \E n \in 0..Len(sent) : UpTo(out) = Given(sent, n)

Delivered ==
  /\ pc = "over" /\ out = Given(sent, Len(sent))
  /\ link # "open" /\ ~junked

\* Of a netstring that failed, the buffer holds no frame.
NothingAfter(o) == \A i, j \in DOMAIN o : i < j /\ IsFailure(o[i]) => o[j].tag # "Ok"

NetstringStops ==
  framing = "netstring" =>
    /\ NothingAfter(out)
    /\ FailedIn(out) \/ pc = "body" => DeframeNetstring(buf) = None

ResponseInv == StreamsTyped /\ (Flowing \/ Cut \/ Delivered) /\ NetstringStops

\* An entry more after a failure is no item.
LEMMA NothingAfterFacts ==
  ASSUME NEW D, NEW o \in Seq(D), NEW x \in D, NEW o2, Adds(o2, o, x),
         NothingAfter(o) \/ ~FailedIn(o), ~FailedIn(o) \/ x.tag # "Ok"
  PROVE  NothingAfter(o2)
<1>1. /\ Len(o) \in Nat /\ DOMAIN o = 1..Len(o) /\ DOMAIN o2 = 1..(Len(o) + 1)
      /\ o2[Len(o) + 1] = x /\ \A i \in 1..Len(o) : o2[i] = o[i]
  BY DEF Adds
<1>. SUFFICES ASSUME NEW i \in 1..(Len(o) + 1), NEW j \in 1..(Len(o) + 1), i < j, IsFailure(o2[i])
              PROVE  o2[j].tag # "Ok"
  BY <1>1 DEF NothingAfter
<1>2. i \in 1..Len(o)
  BY <1>1
<1>3. IsFailure(o[i]) /\ FailedIn(o)
  BY <1>1, <1>2, Zenon DEF FailedIn
<1>4. CASE j = Len(o) + 1
  BY <1>1, <1>3, <1>4
<1>5. CASE j \in 1..Len(o)
  <2>1. NothingAfter(o)
    BY <1>3
  <2>2. o[j].tag # "Ok"
    BY <1>1, <1>2, <1>3, <1>5, <2>1 DEF NothingAfter
  <2>. QED
    BY <1>1, <1>5, <2>2
<1>. QED
  BY <1>1, <1>4, <1>5

\* What is taken out of the bytes of a failed stream is bytes.
LEMMA PartsAreText ==
  ASSUME NEW f \in FramingNames, f # "netstring", NEW b \in Seq(Bytes), NEW e,
         NEW found, found = Deframe(f, b, e), found # None
  PROVE  found.frame \in Seq(Bytes) /\ found.rest \in Seq(Bytes)
<1>1. \A i \in Nat, k \in Nat : 1 <= i /\ k <= Len(b) => SubSeq(b, i, k) \in Seq(Bytes)
  OBVIOUS
<1>2. \A i \in Nat : 1 <= i => From(b, i) \in Seq(Bytes)
  <2>1. Len(b) \in Nat /\ Len(b) <= Len(b)
    OBVIOUS
  <2>. QED
    BY <1>1, <2>1 DEF From
<1>3. ASSUME found = Flush(b, e) PROVE found.frame \in Seq(Bytes) /\ found.rest \in Seq(Bytes)
  <2>1. found = Deframed(b, <<>>)
    BY <1>3 DEF Flush
  <2>2. <<>> \in Seq(Bytes)
    OBVIOUS
  <2>. QED
    BY <2>1, <2>2 DEF Deframed
<1>4. CASE f = "none"
  BY <1>3, <1>4 DEF Deframe
<1>5. CASE f = "newline"
  <2>. DEFINE nl == Position(b, "LF")
  <2>1. nl \in 0..Len(b) /\ Len(b) \in Nat
    BY PositionRange
  <2>2. found = IF nl = 0 THEN Flush(b, e) ELSE Deframed(SubSeq(b, 1, nl - 1), From(b, nl + 1))
    BY <1>5 DEF Deframe, DeframeNewline
  <2>. HIDE DEF nl
  <2>3. CASE nl # 0
    <3>1. nl - 1 \in Nat /\ nl - 1 <= Len(b) /\ nl + 1 \in Nat /\ 1 <= nl + 1
      BY <2>1, <2>3
    <3>2. SubSeq(b, 1, nl - 1) \in Seq(Bytes) /\ From(b, nl + 1) \in Seq(Bytes)
      BY <1>1, <1>2, <3>1
    <3>. QED
      BY <2>2, <2>3, <3>2 DEF Deframed
  <2>. QED
    BY <1>3, <2>2, <2>3
<1>6. CASE f = "eventStream"
  <2>. DEFINE ends == {i \in DOMAIN b : BlankLineAt(b, i)}
              first == CHOOSE i \in ends : \A j \in ends : i <= j
              blank == CHOOSE p \in BlankLines : IsPrefix(p, From(b, first))
  <2>1. found = IF ends = {} THEN Flush(b, e)
                ELSE Deframed(SubSeq(b, 1, first - 1), From(b, first + Len(blank)))
    BY <1>6 DEF Deframe, DeframeEvent
  <2>2. CASE ends # {}
    <3>1. ends \subseteq 1..Len(b) /\ ends \subseteq Nat /\ Len(b) \in Nat
      OBVIOUS
    <3>. HIDE DEF ends
    <3>2. \E i \in ends : \A j \in ends : i <= j
      BY <2>2, <3>1, LeastNat
    <3>3. first \in ends
      BY <3>2
    <3>. HIDE DEF first
    <3>4. BlankLineAt(b, first) /\ first \in 1..Len(b)
      BY <3>1, <3>3 DEF ends
    <3>5. blank \in BlankLines
      BY <3>4 DEF BlankLineAt
    <3>. HIDE DEF blank
    <3>6. Len(blank) \in 2..4
      BY <3>5, BlankFacts
    <3>7. /\ first - 1 \in Nat /\ first - 1 <= Len(b)
          /\ first + Len(blank) \in Nat /\ 1 <= first + Len(blank)
      BY <3>1, <3>4, <3>6
    <3>8. SubSeq(b, 1, first - 1) \in Seq(Bytes) /\ From(b, first + Len(blank)) \in Seq(Bytes)
      BY <1>1, <1>2, <3>7
    <3>. QED
      BY <2>1, <2>2, <3>8 DEF Deframed
  <2>. QED
    BY <1>3, <2>1, <2>2
<1>. QED
  BY <1>4, <1>5, <1>6 DEF FramingNames

\* Nothing is sent, nothing is given.
LEMMA ResponseInitially ==
  ASSUME Init PROVE ResponseInv
<1>1. BodyInv /\ pc = "loop" /\ out = <<>>
  BY BodyInitially DEF Init
<1>2. StreamsTyped /\ Flowing
  BY <1>1 DEF BodyInv, GoesOn, Stopped, Completed, Flowing
<1>3. NothingAfter(out) /\ ~FailedIn(out)
  BY <1>1 DEF NothingAfter, FailedIn
<1>. QED
  BY <1>1, <1>2, <1>3 DEF ResponseInv, NetstringStops

\* What the sender does leaves the caller's side as it is.
LEMMA ResponseSenderStep ==
  ASSUME ResponseInv, SenderStep PROVE ResponseInv' /\ Response!ItemNext
<1>1. StreamsTyped /\ (Flowing \/ Cut \/ Delivered) /\ NetstringStops
  BY DEF ResponseInv
<1>2. StreamsTyped' /\ SenderKeeps /\ SenderProduces
  BY <1>1, SenderStepKeeps
<1>3. UNCHANGED <<framing, buf, eof, out, pc>>
  BY <1>2 DEF SenderKeeps
<1>4. Flowing => Flowing'
  <2>. SUFFICES ASSUME Flowing PROVE Flowing'
    OBVIOUS
  <2>1. PICK n \in 0..Len(sent) : out = Given(sent, n) /\ Coming(n)
    BY DEF Flowing
  <2>2. n \in 0..Len(sent') /\ Given(sent', n) = Given(sent, n) /\ Coming(n)'
    BY <1>2, <2>1, Zenon DEF SenderKeeps
  <2>3. \E m \in 0..Len(sent') : out' = Given(sent', m) /\ Coming(m)'
    BY <1>3, <2>1, <2>2
  <2>4. eof => link' = "ended" /\ wire' = <<>>
    BY <1>2 DEF SenderKeeps, Flowing
  <2>. QED
    BY <1>3, <2>3, <2>4 DEF Flowing
<1>5. Cut => Cut'
  <2>. SUFFICES ASSUME Cut PROVE Cut'
    OBVIOUS
  <2>1. PICK n \in 0..Len(sent) : UpTo(out) = Given(sent, n)
    BY DEF Cut
  <2>2. n \in 0..Len(sent') /\ Given(sent', n) = Given(sent, n)
    BY <1>2, <2>1, Zenon DEF SenderKeeps
  <2>3. UpTo(out') = Given(sent', n) /\ (FailedIn(out') <=> FailedIn(out))
    BY <1>3, <2>1, <2>2
  <2>. QED
    BY <1>3, <2>2, <2>3 DEF Cut
<1>6. Delivered => Delivered'
  <2>1. link # "open" => link' # "open" /\ sent' = sent /\ junked' = junked
    BY <1>2 DEF SenderKeeps
  <2>. QED
    BY <1>3, <2>1 DEF Delivered
<1>7. NetstringStops'
  BY <1>1, <1>3 DEF NetstringStops
<1>8. ResponseInv'
  BY <1>1, <1>2, <1>4, <1>5, <1>6, <1>7 DEF ResponseInv
<1>9. Response!ItemNext
  <2>. DEFINE got == UpToFailure
              end == IF Failed THEN "failed" ELSE IF pc = "over" THEN "complete" ELSE "open"
  <2>1. got' = got /\ end' = end
    BY <1>3 DEF UpToFailure, Failed
  <2>. HIDE DEF got, end
  <2>2. CASE link = "open" /\ link' = "open" /\ \E o \in Outcomes : Owed' = Append(Owed, o)
    BY <2>1, <2>2 DEF Response!ItemNext, Response!Produce, got, end
  <2>3. CASE link' # "open" /\ (Owed' = Owed \/ \E o \in Outcomes : Owed' = Append(Owed, o))
    BY <2>1, <2>3 DEF Response!ItemNext, Response!Close, got, end
  <2>. QED
    BY <1>2, <2>2, <2>3 DEF SenderProduces
<1>. QED
  BY <1>8, <1>9

\* What the caller has when its stream flows.
LEMMA FlowingOn ==
  ASSUME ResponseInv, Flowing
  PROVE  /\ StreamsTyped /\ NetstringStops /\ ~FailedIn(out) /\ UpTo(out) = out
         /\ \E n \in 0..Len(sent) : out = Given(sent, n) /\ Coming(n)
<1>1. StreamsTyped /\ NetstringStops
  BY DEF ResponseInv
<1>2. PICK n \in 0..Len(sent) : out = Given(sent, n) /\ Coming(n)
  BY DEF Flowing
<1>3. ~FailedIn(out) /\ UpTo(out) = out
  BY <1>1, <1>2, GoingOn
<1>. QED
  BY <1>1, <1>2, <1>3

\* The first failure of the stream.
LEMMA FailureCuts ==
  ASSUME ResponseInv, Flowing, NEW error \in StreamErrors, Adds(out', out, Err(error)),
         pc' = "loop", eof' = TRUE, UNCHANGED channel,
         buf' \in Seq(Bytes), wire' \in Seq(Bytes),
         framing = "netstring" => DeframeNetstring(buf') = None
  PROVE  ResponseInv' /\ Response!ItemNext
<1>1. /\ StreamsTyped /\ NetstringStops /\ ~FailedIn(out) /\ UpTo(out) = out
      /\ framing \in Framings /\ sent \in Seq(Items[framing]) /\ out \in Seq(Entries)
  BY FlowingOn DEF StreamsTyped
<1>2. PICK n \in 0..Len(sent) : out = Given(sent, n)
  BY FlowingOn
<1>3. out' \in Seq(Entries) /\ FailedIn(out') /\ UpTo(out') = Given(sent, n)
  <2>. DEFINE o2 == out'
  <2>1. Adds(o2, Given(sent, n), Err(error))
    BY <1>2
  <2>. HIDE DEF o2
  <2>2. o2 \in Seq(Entries) /\ FailedIn(o2) /\ UpTo(o2) = Given(sent, n)
    BY <1>1, <2>1, GivenFailure
  <2>. QED
    BY <2>2, Zenon DEF o2
<1>4. UNCHANGED <<framing, sent, link, junked>>
  BY DEF channel
<1>5. StreamsTyped'
  BY <1>1, <1>3, <1>4 DEF StreamsTyped
<1>6. Cut'
  BY <1>3, <1>4 DEF Cut
<1>7. NothingAfter(out')
  <2>1. Err(error) \in Entries
    BY FailureFacts
  <2>. DEFINE o2 == out'
  <2>2. Adds(o2, out, Err(error))
    OBVIOUS
  <2>. HIDE DEF o2
  <2>3. NothingAfter(o2)
    BY <1>1, <2>1, <2>2, NothingAfterFacts
  <2>. QED
    BY <2>3 DEF o2
<1>8. NetstringStops'
  BY <1>4, <1>7 DEF NetstringStops
<1>9. Response!ItemNext
  <2>1. UpToFailure = UpTo(out) /\ UpToFailure' = UpTo(out') /\ Owed' = Owed
    BY <1>4, Zenon DEF UpToFailure, UpTo, Owed
  <2>2. ~Failed /\ Failed' /\ pc # "over"
    BY <1>1, <1>3 DEF Failed, FailedIn, Flowing
  <2>. QED
    BY <1>1, <1>2, <1>3, <1>4, <2>1, <2>2, Zenon DEF Response!ItemNext, Response!FailOpenly
<1>. QED
  BY <1>5, <1>6, <1>8, <1>9 DEF ResponseInv

\* What follows a failure.
LEMMA CutStays ==
  ASSUME ResponseInv, Cut, UNCHANGED <<channel, wire, eof>>,
         pc' \in {"loop", "over"}, buf' \in Seq(Bytes),
         out' = out \/ \E x \in Entries : /\ Adds(out', out, x)
                                          /\ framing = "netstring" => x.tag # "Ok",
         framing = "netstring" => DeframeNetstring(buf') = None
  PROVE  ResponseInv' /\ UNCHANGED Response!itemVars
<1>1. /\ StreamsTyped /\ NetstringStops /\ FailedIn(out) /\ eof /\ out \in Seq(Entries)
  BY DEF ResponseInv, StreamsTyped, Cut
<1>2. UNCHANGED <<framing, sent, link, junked, wire, eof>>
  BY DEF channel
<1>3. /\ out' \in Seq(Entries) /\ FailedIn(out') /\ UpTo(out') = UpTo(out)
      /\ framing = "netstring" => NothingAfter(out')
  <2>1. CASE out' = out
    BY <1>1, <2>1 DEF NetstringStops
  <2>2. ASSUME NEW x \in Entries, Adds(out', out, x), framing = "netstring" => x.tag # "Ok"
        PROVE  /\ out' \in Seq(Entries) /\ FailedIn(out') /\ UpTo(out') = UpTo(out)
               /\ framing = "netstring" => NothingAfter(out')
    <3>. DEFINE o2 == out'
    <3>1. Adds(o2, out, x)
      BY <2>2
    <3>. HIDE DEF o2
    <3>. HIDE DEF Entries
    <3>2. FailedIn(o2) /\ UpTo(o2) = UpTo(out)
      BY <1>1, <2>2, <3>1, UpToFacts, Zenon DEF Adds
    <3>3. o2 \in Seq(Entries)
      BY <1>1, <3>1, ErrFacts, Zenon DEF Adds
    <3>4. framing = "netstring" => NothingAfter(out)
      BY <1>1 DEF NetstringStops
    <3>5. framing = "netstring" => NothingAfter(o2)
      BY <1>1, <2>2, <3>1, <3>4, NothingAfterFacts
    <3>. QED
      BY <3>2, <3>3, <3>5 DEF o2
  <2>. QED
    BY <2>1, <2>2
<1>4. StreamsTyped'
  BY <1>1, <1>2, <1>3 DEF StreamsTyped
<1>5. Cut'
  <2>1. PICK n \in 0..Len(sent) : UpTo(out) = Given(sent, n)
    BY DEF Cut
  <2>2. n \in 0..Len(sent') /\ UpTo(out') = Given(sent', n)
    BY <1>2, <1>3, <2>1
  <2>. QED
    BY <1>1, <1>2, <1>3, <2>2 DEF Cut
<1>6. NetstringStops'
  BY <1>2, <1>3 DEF NetstringStops
<1>7. UNCHANGED Response!itemVars
  <2>1. UpToFailure = UpTo(out) /\ UpToFailure' = UpTo(out') /\ Owed' = Owed
    BY <1>2, Zenon DEF UpToFailure, UpTo, Owed
  <2>2. Failed /\ Failed'
    BY <1>1, <1>3, Zenon DEF Failed, FailedIn
  <2>. QED
    BY <1>2, <1>3, <2>1, <2>2, Zenon DEF Response!itemVars
<1>. QED
  BY <1>4, <1>5, <1>6, <1>7 DEF ResponseInv

\* A frame is given; after a failure it may be part of one.
LEMMA DecodedStep ==
  ASSUME ResponseInv, pc = "loop", NEW found, found = Deframe(framing, buf, eof),
         YieldDecoded(found), UNCHANGED <<channel, wire, eof>>
  PROVE  ResponseInv' /\ [Response!ItemNext]_(Response!itemVars)
<1>1. /\ StreamsTyped /\ NetstringStops /\ (Flowing \/ Cut)
      /\ framing \in Framings /\ framing \in FramingNames /\ sent \in Seq(Items[framing])
      /\ (framing = "none" => Len(sent) <= 1)
      /\ wire \in Seq(Bytes) /\ buf \in Seq(Bytes) /\ junked \in BOOLEAN /\ eof \in BOOLEAN
  BY FramingsKnown DEF ResponseInv, StreamsTyped, Delivered
<1>2. /\ found # None /\ buf' = found.rest /\ pc' = "loop"
      /\ Adds(out', out, Unrender(found.frame))
  BY DEF YieldDecoded, Yield, Goto, Adds
<1>3. UNCHANGED <<framing, sent, link, junked, wire, eof>>
  BY DEF channel
<1>4. CASE Flowing
  <2>1. /\ ~FailedIn(out) /\ UpTo(out) = out
        /\ eof => wire = <<>> /\ link # "broken"
    BY <1>4, FlowingOn DEF Flowing
  <2>2. PICK n \in 0..Len(sent) : out = Given(sent, n) /\ Coming(n)
    BY <1>4 DEF Flowing
  <2>3. PICK h \in Seq(Bytes) : Joins(h, buf, wire) /\ Flow(framing, sent, link, junked, h, n)
    BY <2>2 DEF Coming
  <2>4. PICK z \in Seq(Bytes), h2 \in Seq(Bytes) :
          /\ n + 1 \in 1..Len(sent) /\ sent[n + 1] \in Items[framing]
          /\ Deframe(framing, buf, eof) = Deframed(sent[n + 1], z)
          /\ Joins(h2, z, wire) /\ Flow(framing, sent, link, junked, h2, n + 1)
    BY <1>1, <1>2, <2>1, <2>3, TakesNext
  <2>5. found.frame = sent[n + 1] /\ buf' = z
    BY <1>2, <2>4 DEF Deframed
  <2>. DEFINE x == Unrender(sent[n + 1])
              o2 == out'
  <2>6. AddsNext(o2, sent, n, x) /\ Adds(o2, out, x)
    BY <1>2, <2>2, <2>5 DEF AddsNext
  <2>7. ~IsFailure(x)
    BY OutcomeFacts
  <2>. HIDE DEF o2, x
  <2>8. /\ o2 = Given(sent, n + 1) /\ n + 1 \in 0..Len(sent)
        /\ o2 \in Seq(Entries) /\ x \in Outcomes
        /\ ~FailedIn(o2) /\ UpTo(o2) = o2
        /\ Len(Given(sent, n)) < Len(Given(sent, Len(sent)))
        /\ Given(sent, Len(sent))[Len(Given(sent, n)) + 1] = x
    BY <1>1, <2>4, <2>6, GivenOne
  <2>9. StreamsTyped'
    BY <1>1, <1>3, <2>5, <2>8 DEF StreamsTyped, o2
  <2>10. Flowing'
    <3>1. Coming(n + 1)'
      BY <1>1, <2>4, <2>5, TakenKeeps
    <3>2. eof' => link' = "ended" /\ wire' = <<>>
      BY <1>3, <1>4 DEF Flowing
    <3>. QED
      BY <1>2, <1>3, <2>8, <3>1, <3>2 DEF Flowing, o2
  <2>11. NetstringStops'
    <3>1. NothingAfter(o2)
      BY <2>8, Zenon DEF NothingAfter, FailedIn
    <3>. QED
      BY <1>2, <2>8, <3>1 DEF NetstringStops, o2
  <2>12. Response!Deliver
    <3>1. UpToFailure = out /\ UpToFailure' = o2 /\ Owed' = Owed
      BY <1>3, <2>1, <2>8, Zenon DEF UpToFailure, UpTo, Owed, o2
    <3>2. ~Failed /\ ~Failed'
      BY <2>1, <2>8, Zenon DEF Failed, FailedIn, o2
    <3>3. pc # "over" /\ pc' # "over"
      BY <1>2
    <3>4. Owed = Given(sent, Len(sent))
      BY <1>1, <2>2, GoingOn
    <3>5. UpToFailure' = Append(UpToFailure, x)
      BY <2>6, <3>1, Zenon DEF Adds
    <3>6. Len(UpToFailure) < Len(Owed) /\ Owed[Len(UpToFailure) + 1] = x
      BY <2>2, <2>8, <3>1, <3>4
    <3>. QED
      BY <1>3, <3>1, <3>2, <3>3, <3>5, <3>6, Zenon DEF Response!Deliver
  <2>. QED
    BY <2>9, <2>10, <2>11, <2>12 DEF ResponseInv, Response!ItemNext
<1>5. CASE Cut
  <2>1. framing # "netstring"
    <3>1. FailedIn(out)
      BY <1>5 DEF Cut
    <3>. QED
      BY <1>1, <1>2, <3>1 DEF NetstringStops, Deframe
  <2>2. found.frame \in Seq(Bytes) /\ found.rest \in Seq(Bytes)
    BY <1>1, <1>2, <2>1, PartsAreText
  <2>3. Unrender(found.frame) \in Entries
    BY <2>2, Zenon DEF Entries
  <2>4. ResponseInv' /\ UNCHANGED Response!itemVars
    BY <1>2, <1>5, <2>1, <2>2, <2>3, CutStays
  <2>. QED
    BY <2>4
<1>. QED
  BY <1>1, <1>4, <1>5

\* An empty buffer holds no netstring.
LEMMA NoNetstring == DeframeNetstring(<<>>) = None
<1>1. "netstring" \in FramingNames
  BY DEF FramingNames
<1>2. Deframe("netstring", <<>>, FALSE) = None
  BY <1>1, NothingInNothing
<1>. QED
  BY <1>2 DEF Deframe

\* At the end nothing is left, or what is left is reported.
LEMMA AtEndStep ==
  ASSUME ResponseInv, pc = "loop", NEW found, found = Deframe(framing, buf, eof),
         AtEnd(found), UNCHANGED <<channel, wire, eof>>
  PROVE  ResponseInv' /\ [Response!ItemNext]_(Response!itemVars)
<1>1. /\ StreamsTyped /\ NetstringStops /\ (Flowing \/ Cut)
      /\ framing \in Framings /\ sent \in Seq(Items[framing])
      /\ wire \in Seq(Bytes) /\ buf \in Seq(Bytes) /\ junked \in BOOLEAN /\ eof
  BY DEF ResponseInv, StreamsTyped, Delivered, AtEnd
<1>2. UNCHANGED <<framing, sent, link, junked, wire, eof>>
  BY DEF channel
<1>3. "Incomplete" \in StreamErrors
  BY DEF StreamErrors
<1>4. CASE buf # <<>>
  <2>1. buf' = <<>> /\ Adds(out', out, Err("Incomplete")) /\ pc' = "loop"
    BY <1>4 DEF AtEnd, Yield, Goto, Adds
  <2>2. buf' \in Seq(Bytes)
    BY <2>1
  <2>3. framing = "netstring" => DeframeNetstring(buf') = None
    BY <2>1, NoNetstring
  <2>4. CASE Flowing
    <3>1. UNCHANGED channel /\ eof' = TRUE /\ wire' \in Seq(Bytes)
      BY <1>1, <1>2
    <3>2. ResponseInv' /\ Response!ItemNext
      BY <1>3, <2>1, <2>2, <2>3, <2>4, <3>1, FailureCuts
    <3>. QED
      BY <3>2
  <2>5. CASE Cut
    <3>1. Err("Incomplete") \in Entries /\ Err("Incomplete").tag # "Ok"
      BY <1>3, FailureFacts
    <3>2. ResponseInv' /\ UNCHANGED Response!itemVars
      BY <2>1, <2>2, <2>3, <2>5, <3>1, CutStays
    <3>. QED
      BY <3>2
  <2>. QED
    BY <1>1, <2>4, <2>5
<1>5. CASE buf = <<>>
  <2>1. UNCHANGED <<buf, out>> /\ pc' = "over"
    BY <1>5 DEF AtEnd, Goto
  <2>2. CASE Flowing
    <3>1. /\ ~FailedIn(out) /\ UpTo(out) = out
          /\ wire = <<>> /\ link = "ended" /\ link # "broken"
      BY <1>1, <2>2, FlowingOn DEF Flowing
    <3>2. PICK n \in 0..Len(sent) : out = Given(sent, n) /\ Coming(n)
      BY <2>2 DEF Flowing
    <3>3. PICK h \in Seq(Bytes) : Joins(h, buf, wire) /\ Flow(framing, sent, link, junked, h, n)
      BY <3>2 DEF Coming
    <3>4. h = <<>>
      BY <1>1, <1>5, <3>1, <3>3, JoinedFacts
    <3>5. n = Len(sent) /\ ~junked
      BY <1>1, <3>1, <3>3, <3>4, NothingLeft
    <3>6. StreamsTyped'
      BY <1>1, <1>2, <2>1 DEF StreamsTyped
    <3>7. Delivered'
      BY <1>2, <2>1, <3>1, <3>2, <3>5 DEF Delivered
    <3>8. NetstringStops'
      BY <1>1, <1>2, <2>1, <3>1 DEF NetstringStops
    <3>9. Response!Complete
      <4>1. UpToFailure = out /\ UpToFailure' = UpToFailure /\ Owed' = Owed
        BY <1>2, <2>1, <3>1, Zenon DEF UpToFailure, UpTo, Owed
      <4>2. ~Failed /\ ~Failed'
        BY <2>1, <3>1, Zenon DEF Failed, FailedIn
      <4>3. pc # "over" /\ pc' = "over" /\ link # "open" /\ link' # "open"
        BY <1>2, <2>1, <3>1
      <4>4. Owed = Given(sent, Len(sent))
        BY <1>1, <3>2, GoingOn
      <4>5. UpToFailure = Owed
        BY <3>2, <3>5, <4>1, <4>4
      <4>. QED
        BY <4>1, <4>2, <4>3, <4>5, Zenon DEF Response!Complete
    <3>. QED
      BY <3>6, <3>7, <3>8, <3>9 DEF ResponseInv, Response!ItemNext
  <2>3. CASE Cut
    <3>1. /\ buf' \in Seq(Bytes)
          /\ framing = "netstring" => DeframeNetstring(buf') = None
      BY <1>1, <1>5, <2>1, NoNetstring
    <3>2. ResponseInv' /\ UNCHANGED Response!itemVars
      BY <2>1, <2>3, <3>1, CutStays
    <3>. QED
      BY <3>2
  <2>. QED
    BY <1>1, <2>2, <2>3
<1>. QED
  BY <1>4, <1>5

\* The caller's stream only moves on.
LEMMA FlowingMoves ==
  ASSUME ResponseInv, Flowing, UNCHANGED <<channel, out>>, pc' \in {"loop", "body"},
         buf' \in Seq(Bytes), wire' \in Seq(Bytes), eof' \in BOOLEAN,
         \A n : Coming(n) => Coming(n)',
         eof' => link = "ended" /\ wire' = <<>>, pc' = "body" => ~eof',
         framing = "netstring" /\ pc' = "body" => DeframeNetstring(buf') = None
  PROVE  ResponseInv' /\ UNCHANGED Response!itemVars
<1>1. /\ StreamsTyped /\ NetstringStops /\ ~FailedIn(out)
  BY FlowingOn
<1>2. PICK n \in 0..Len(sent) : out = Given(sent, n) /\ Coming(n)
  BY DEF Flowing
<1>3. UNCHANGED <<framing, sent, link, junked, out>>
  BY DEF channel
<1>4. StreamsTyped'
  BY <1>1, <1>3 DEF StreamsTyped
<1>5. Flowing'
  <2>1. Coming(n)' /\ n \in 0..Len(sent') /\ out' = Given(sent', n)
    BY <1>2, <1>3
  <2>. QED
    BY <1>3, <2>1 DEF Flowing
<1>6. NetstringStops'
  BY <1>1, <1>3 DEF NetstringStops
<1>7. UNCHANGED Response!itemVars
  <2>1. UpToFailure' = UpToFailure /\ Owed' = Owed /\ link' = link /\ pc # "over" /\ pc' # "over"
    BY <1>3 DEF UpToFailure, Owed, Flowing
  <2>2. Failed' <=> Failed
    BY <1>3 DEF Failed
  <2>. QED
    BY <2>1, <2>2, Zenon DEF Response!itemVars
<1>. QED
  BY <1>4, <1>5, <1>6, <1>7 DEF ResponseInv

\* No frame yet: more is awaited.
LEMMA AwaitStep ==
  ASSUME ResponseInv, pc = "loop", NEW found, found = Deframe(framing, buf, eof),
         AwaitMore(found), UNCHANGED <<channel, wire, eof>>
  PROVE  ResponseInv' /\ UNCHANGED Response!itemVars
<1>1. Flowing /\ StreamsTyped
  BY DEF ResponseInv, Cut, Delivered, AwaitMore
<1>2. /\ buf' = buf /\ UNCHANGED <<channel, wire, eof, out>> /\ pc' = "body" /\ ~eof
  BY DEF AwaitMore, Goto
<1>3. framing = "netstring" => DeframeNetstring(buf) = None
  BY DEF AwaitMore, Deframe
<1>4. buf \in Seq(Bytes) /\ wire \in Seq(Bytes) /\ eof \in BOOLEAN
  BY <1>1 DEF StreamsTyped
<1>5. \A n : Coming(n) => Coming(n)'
  BY <1>2 DEF Coming, channel
<1>. QED
  BY <1>1, <1>2, <1>3, <1>4, <1>5, FlowingMoves

\* A chunk is buffered, or is too much.
LEMMA ChunkStep ==
  ASSUME ResponseInv, ReceiveChunk
  PROVE  ResponseInv' /\ [Response!ItemNext]_(Response!itemVars)
<1>1. Flowing /\ StreamsTyped /\ pc = "body" /\ ~eof
  BY DEF ResponseInv, Cut, Delivered, ReceiveChunk, Flowing
<1>2. UNCHANGED channel /\ pc' = "loop"
  BY DEF ReceiveChunk, Goto
<1>3. PICK k \in 1..Len(wire) :
        /\ wire' = From(wire, k + 1)
        /\ \/ /\ buf' = <<>> /\ eof' = TRUE
              /\ Adds(out', out, Err("FrameTooLarge"))
           \/ /\ buf' = buf \o SubSeq(wire, 1, k)
              /\ UNCHANGED <<eof, out>>
  BY DEF ReceiveChunk, Yield, Adds
<1>4. k \in 0..Len(wire) /\ wire \in Seq(Bytes)
  BY <1>1 DEF StreamsTyped
<1>5. wire' \in Seq(Bytes)
  BY <1>3, <1>4, CutAt
<1>6. CASE buf' = <<>> /\ eof' = TRUE /\ Adds(out', out, Err("FrameTooLarge"))
  <2>1. /\ buf' \in Seq(Bytes)
        /\ framing = "netstring" => DeframeNetstring(buf') = None
    BY <1>6, NoNetstring
  <2>2. "FrameTooLarge" \in StreamErrors
    BY DEF StreamErrors
  <2>3. ResponseInv' /\ Response!ItemNext
    BY <1>1, <1>2, <1>5, <1>6, <2>1, <2>2, FailureCuts
  <2>. QED
    BY <2>3
<1>7. CASE buf' = buf \o SubSeq(wire, 1, k) /\ UNCHANGED <<eof, out>>
  <2>1. buf' \in Seq(Bytes) /\ \A n : Coming(n) => Coming(n)'
    BY <1>1, <1>2, <1>3, <1>4, <1>7, ChunkKeeps
  <2>2. eof' \in BOOLEAN /\ ~eof' /\ UNCHANGED <<channel, out>> /\ pc' \in {"loop", "body"}
    BY <1>1, <1>2, <1>7 DEF StreamsTyped
  <2>3. ResponseInv' /\ UNCHANGED Response!itemVars
    BY <1>1, <1>2, <1>5, <2>1, <2>2, FlowingMoves
  <2>. QED
    BY <2>3
<1>. QED
  BY <1>3, <1>6, <1>7

\* The body has ended.
LEMMA EndStep ==
  ASSUME ResponseInv, ReceiveEnd
  PROVE  ResponseInv' /\ UNCHANGED Response!itemVars
<1>1. Flowing /\ StreamsTyped
  BY DEF ResponseInv, Cut, Delivered, ReceiveEnd, BodyEnds
<1>2. /\ UNCHANGED <<channel, wire, buf, out>> /\ eof' = TRUE /\ pc' = "loop"
      /\ wire = <<>> /\ link = "ended"
  BY DEF ReceiveEnd, BodyEnds, Goto
<1>3. buf \in Seq(Bytes) /\ wire \in Seq(Bytes)
  BY <1>1 DEF StreamsTyped
<1>4. \A n : Coming(n) => Coming(n)'
  BY <1>2 DEF Coming, channel
<1>. QED
  BY <1>1, <1>2, <1>3, <1>4, FlowingMoves

\* The body has failed.
LEMMA ErrorStep ==
  ASSUME ResponseInv, ReceiveError
  PROVE  ResponseInv' /\ Response!ItemNext
<1>1. Flowing /\ StreamsTyped /\ NetstringStops /\ pc = "body"
  BY DEF ResponseInv, Cut, Delivered, ReceiveError, BodyFails
<1>2. /\ UNCHANGED <<channel, wire, buf>> /\ eof' = TRUE /\ pc' = "loop"
      /\ Adds(out', out, Err("Transport"))
  BY DEF ReceiveError, Goto, Yield, Adds
<1>3. buf \in Seq(Bytes) /\ wire \in Seq(Bytes)
  BY <1>1 DEF StreamsTyped
<1>4. framing = "netstring" => DeframeNetstring(buf) = None
  BY <1>1 DEF NetstringStops
<1>5. "Transport" \in StreamErrors
  BY DEF StreamErrors
<1>. QED
  BY <1>1, <1>2, <1>3, <1>4, <1>5, FailureCuts

\* Without a step nothing changes.
LEMMA ResponseStutters ==
  ASSUME ResponseInv, UNCHANGED vars
  PROVE  ResponseInv' /\ UNCHANGED Response!itemVars
<1>1. UNCHANGED <<framing, sent, link, junked, wire, buf, eof, out, pc>>
  BY DEF vars, channel, reader
<1>2. ResponseInv'
  <2>1. StreamsTyped => StreamsTyped'
    BY <1>1 DEF StreamsTyped
  <2>2. \A n : Coming(n) => Coming(n)'
    BY <1>1 DEF Coming
  <2>3. Flowing => Flowing'
    BY <1>1, <2>2 DEF Flowing
  <2>4. Cut => Cut'
    BY <1>1 DEF Cut
  <2>5. Delivered => Delivered'
    BY <1>1 DEF Delivered
  <2>6. NetstringStops => NetstringStops'
    BY <1>1 DEF NetstringStops
  <2>. QED
    BY <2>1, <2>3, <2>4, <2>5, <2>6 DEF ResponseInv
<1>3. UNCHANGED Response!itemVars
  <2>1. UpToFailure' = UpToFailure /\ Owed' = Owed
    BY <1>1 DEF UpToFailure, Owed
  <2>2. Failed' <=> Failed
    BY <1>1 DEF Failed
  <2>. QED
    BY <1>1, <2>1, <2>2, Zenon DEF Response!itemVars
<1>. QED
  BY <1>2, <1>3

\* Every step of the caller's side keeps the invariant and implements ItemStream.
LEMMA ResponseStep ==
  ASSUME ResponseInv, [ResponseNext]_vars
  PROVE  ResponseInv' /\ [Response!ItemNext]_(Response!itemVars)
<1>1. CASE SenderStep
  BY <1>1, ResponseSenderStep
<1>2. CASE DeframeDecode
  <2>1. pc = "loop" /\ UNCHANGED <<channel, wire, eof>>
    BY <1>2 DEF DeframeDecode
  <2>2. PICK found : /\ found = Deframe(framing, buf, eof)
                     /\ YieldDecoded(found) \/ AtEnd(found) \/ AwaitMore(found)
    BY <1>2 DEF DeframeDecode
  <2>3. CASE YieldDecoded(found)
    BY <2>1, <2>2, <2>3, DecodedStep
  <2>4. CASE AtEnd(found)
    BY <2>1, <2>2, <2>4, AtEndStep
  <2>5. CASE AwaitMore(found)
    <3>1. ResponseInv' /\ UNCHANGED Response!itemVars
      BY <2>1, <2>2, <2>5, AwaitStep
    <3>. QED
      BY <3>1
  <2>. QED
    BY <2>2, <2>3, <2>4, <2>5
<1>3. CASE ReceiveChunk
  BY <1>3, ChunkStep
<1>4. CASE ReceiveEnd
  <2>1. ResponseInv' /\ UNCHANGED Response!itemVars
    BY <1>4, EndStep
  <2>. QED
    BY <2>1
<1>5. CASE ReceiveError
  BY <1>5, ErrorStep
<1>6. CASE UNCHANGED vars
  <2>1. ResponseInv' /\ UNCHANGED Response!itemVars
    BY <1>6, ResponseStutters
  <2>. QED
    BY <2>1
<1>. QED
  BY <1>1, <1>2, <1>3, <1>4, <1>5, <1>6 DEF ResponseNext, PollResponse

\* The invariant of the caller's side.
LEMMA ResponseInvariant == ResponseSpec => []ResponseInv
<1>1. Init => ResponseInv
  BY ResponseInitially
<1>2. ResponseInv /\ [ResponseNext]_vars => ResponseInv'
  BY ResponseStep
<1>. QED
  BY <1>1, <1>2, PTL DEF ResponseSpec

(***************************************************************************)
(* deframe_decode goes on after an error and flushes its buffer, but with  *)
(* NetstringFraming what it flushes is no item.                            *)
(***************************************************************************)
THEOREM NetstringsFail == ResponseSpec => []NetstringsFailWhole
<1>1. ResponseInv => NetstringsFailWhole
  BY DEF ResponseInv, NetstringStops, NothingAfter, NetstringsFailWhole, NothingAfterFailure
<1>. QED
  BY <1>1, ResponseInvariant, PTL

(***************************************************************************)
(* A stream of deframe_decode that ends without an error leaves nothing    *)
(* behind: Incomplete is said of bytes that no frame can be made of.       *)
(***************************************************************************)
THEOREM CallerHearsOfJunk == ResponseSpec => []ResponseJunkIsReported
<1>1. ResponseInv => ResponseJunkIsReported
  <2>. SUFFICES ASSUME ResponseInv, pc = "over", junked PROVE Erred
    BY DEF ResponseJunkIsReported
  <2>1. FailedIn(out)
    BY DEF ResponseInv, Flowing, Cut, Delivered
  <2>. QED
    BY <2>1, Zenon DEF FailedIn, IsFailure, Erred
<1>. QED
  BY <1>1, ResponseInvariant, PTL

(***************************************************************************)
(* However the chunks are cut and wherever the connection breaks,          *)
(* deframe_decode gives its caller the items that were sent, whole, in     *)
(* order and once up to the first failure, and ends without one only after *)
(* all of them.                                                            *)
(***************************************************************************)
THEOREM CallerGetsTheItems == ResponseSpec => ResponseDelivers
<1>1. Init => Response!ItemInit
  <2>. SUFFICES ASSUME Init PROVE Response!ItemInit
    OBVIOUS
  <2>1. /\ sent = <<>> /\ link = "open" /\ out = <<>> /\ pc = "loop"
    BY DEF Init
  <2>2. ResponseInv
    BY ResponseInitially
  <2>3. Flowing
    <3>1. ~FailedIn(out)
      BY <2>1 DEF FailedIn
    <3>. QED
      BY <2>1, <2>2, <3>1 DEF ResponseInv, Cut, Delivered
  <2>4. PICK n \in 0..Len(sent) : out = Given(sent, n) /\ Coming(n)
    BY <2>3 DEF Flowing
  <2>5. StreamsTyped /\ ~FailedIn(out) /\ UpTo(out) = out
    BY <2>2, <2>3, FlowingOn
  <2>6. UpToFailure = <<>> /\ ~Failed
    BY <2>1, <2>5, Zenon DEF UpToFailure, UpTo, Failed, FailedIn
  <2>7. Owed = <<>>
    <3>1. n = Len(sent)
      BY <2>1
    <3>2. Owed = Given(sent, Len(sent))
      BY <2>4, <2>5, GoingOn
    <3>. QED
      BY <2>1, <2>4, <3>1, <3>2
  <2>8. pc # "over"
    BY <2>1
  <2>. QED
    BY <2>1, <2>6, <2>7, <2>8, Zenon DEF Response!ItemInit
<1>2. ResponseInv /\ [ResponseNext]_vars => [Response!ItemNext]_(Response!itemVars)
  BY ResponseStep
<1>. QED
  BY <1>1, <1>2, ResponseInvariant, PTL DEF ResponseSpec, ResponseDelivers, Response!ItemSpec
=============================================================================
