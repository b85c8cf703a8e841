-------------------------- MODULE AcceptLoop_proofs --------------------------
(***************************************************************************)
(* The accept loop's safety for any finite set of clients and any cap.     *)
(* TypeOK and PermitsConserved are inductive together: the count of the    *)
(* connections that hold a place bounds the free permits from above, and   *)
(* the backlog lists exactly the queued clients, so that Accept moves a    *)
(* client that holds nothing.                                              *)
(***************************************************************************)
EXTENDS AcceptLoop, FiniteSetTheorems, TLAPS

OnceEach(q) == \A i, j \in DOMAIN q : q[i] = q[j] => i = j
Lists(q, x) == \E i \in DOMAIN q : q[i] = x

LEMMA TailLists ==
  ASSUME NEW S, NEW q \in Seq(S), q # <<>>, OnceEach(q)
  PROVE  /\ Tail(q) \in Seq(S)
         /\ Head(q) \in S
         /\ Lists(q, Head(q))
         /\ OnceEach(Tail(q))
         /\ \A x : Lists(Tail(q), x) <=> Lists(q, x) /\ x # Head(q)
<1>1. /\ Tail(q) \in Seq(S) /\ Head(q) \in S /\ Head(q) = q[1]
      /\ Len(q) \in Nat \ {0} /\ DOMAIN q = 1..Len(q)
  OBVIOUS
<1>2. /\ DOMAIN Tail(q) = 1..(Len(q) - 1)
      /\ \A i \in 1..(Len(q) - 1) : Tail(q)[i] = q[i + 1]
  BY <1>1
<1>3. OnceEach(Tail(q))
  BY <1>1, <1>2 DEF OnceEach
<1>4. ASSUME NEW x, Lists(Tail(q), x) PROVE Lists(q, x) /\ x # Head(q)
  <2>1. PICK i \in 1..(Len(q) - 1) : q[i + 1] = x
    BY <1>2, <1>4 DEF Lists
  <2>2. i + 1 \in DOMAIN q /\ 1 \in DOMAIN q /\ i + 1 # 1
    BY <1>1
  <2>. QED
    BY <1>1, <2>1, <2>2 DEF Lists, OnceEach
<1>5. ASSUME NEW x, Lists(q, x), x # Head(q) PROVE Lists(Tail(q), x)
  <2>1. PICK i \in 1..Len(q) : q[i] = x
    BY <1>1, <1>5 DEF Lists
  <2>2. i - 1 \in 1..(Len(q) - 1) /\ (i - 1) + 1 = i
    BY <1>1, <1>5, <2>1
  <2>. QED
    BY <1>2, <2>1, <2>2 DEF Lists
<1>. QED
  BY <1>1, <1>3, <1>4, <1>5, SMTT(40) DEF Lists

LEMMA AppendLists ==
  ASSUME NEW S, NEW q \in Seq(S), NEW c \in S, OnceEach(q), ~Lists(q, c)
  PROVE  /\ Append(q, c) \in Seq(S)
         /\ OnceEach(Append(q, c))
         /\ \A x : Lists(Append(q, c), x) <=> Lists(q, x) \/ x = c
<1>1. /\ Append(q, c) \in Seq(S)
      /\ Len(q) \in Nat /\ DOMAIN q = 1..Len(q)
      /\ DOMAIN Append(q, c) = 1..(Len(q) + 1)
      /\ Append(q, c)[Len(q) + 1] = c
      /\ \A i \in 1..Len(q) : Append(q, c)[i] = q[i]
  OBVIOUS
<1>2. \A i \in 1..(Len(q) + 1) : i \in 1..Len(q) \/ i = Len(q) + 1
  BY <1>1
<1>3. OnceEach(Append(q, c))
  BY <1>1, <1>2 DEF OnceEach, Lists
<1>4. ASSUME NEW x PROVE Lists(Append(q, c), x) <=> Lists(q, x) \/ x = c
  <2>1. 1..Len(q) \subseteq 1..(Len(q) + 1) /\ Len(q) + 1 \in 1..(Len(q) + 1)
    BY <1>1
  <2>. QED
    BY <1>1, <1>2, <2>1 DEF Lists
<1>. QED
  BY <1>1, <1>3, <1>4

\* The clients that hold a place are finitely many, and counting them after
\* one of them comes or goes is adding or subtracting one.
LEMMA HoldingCount ==
  /\ IsFiniteSet(Holding)
  /\ Cardinality(Holding) \in Nat
  /\ \A c : c \in Holding => Cardinality(Holding) > 0
  /\ \A c : c \notin Holding => Cardinality(Holding \cup {c}) = Cardinality(Holding) + 1
  /\ \A c : c \in Holding => Cardinality(Holding \ {c}) = Cardinality(Holding) - 1
<1>1. IsFiniteSet(Holding)
  BY ConnsFinite, FS_Subset DEF Holding
<1>2. Cardinality(Holding) \in Nat
  BY <1>1, FS_CardinalityType
<1>3. \A c : c \in Holding => Cardinality(Holding) > 0
  BY <1>1, <1>2, FS_EmptySet
<1>. QED
  BY <1>1, <1>2, <1>3, FS_AddElement, FS_RemoveElement

Held == {"handshake", "head", "busy", "closed"}

\* What a move does to the set of those that hold a place.
LEMMA MoveHolding ==
  ASSUME conn \in [Conns -> Stages], NEW c \in Conns,
         NEW from, NEW to \in Stages, Move(c, from, to)
  PROVE  /\ conn' \in [Conns -> Stages]
         /\ conn[c] = from /\ conn'[c] = to
         /\ \A d \in Conns \ {c} : conn'[d] = conn[d]
         /\ from \notin Held /\ to \in Held =>
              c \notin Holding /\ Holding' = Holding \cup {c}
         /\ from \in Held /\ to \notin Held =>
              c \in Holding /\ Holding' = Holding \ {c}
         /\ (from \in Held <=> to \in Held) => Holding' = Holding
BY DEF Move, Holding, Held

IInv == TypeOK /\ PermitsConserved

LEMMA InitInv == Init => IInv
<1>. SUFFICES ASSUME Init PROVE IInv
  OBVIOUS
<1>1. Holding = {}
  BY DEF Init, Holding
<1>2. Cardinality(Holding) = 0
  BY <1>1, FS_EmptySet
<1>. QED
  BY <1>2, AtLeastOne DEF Init, IInv, TypeOK, PermitsConserved, Stages

\* A step of one connection that touches neither the loop nor the backlog.
LEMMA ConnMove ==
  ASSUME IInv, NEW c \in Conns, NEW from \in Stages \ {"queued"},
         NEW to \in Stages \ {"queued"}, from \in Held <=> to \in Held,
         Move(c, from, to), ConnOnly
  PROVE  IInv'
<1>1. /\ conn' \in [Conns -> Stages]
      /\ conn[c] = from /\ conn'[c] = to
      /\ \A d \in Conns \ {c} : conn'[d] = conn[d]
      /\ Holding' = Holding
  BY MoveHolding DEF IInv, TypeOK
<1>2. UNCHANGED <<loop, backlog, permits>>
  BY DEF ConnOnly
<1>3. TypeOK'
  BY <1>1, <1>2 DEF IInv, TypeOK
<1>. QED
  BY <1>1, <1>2, <1>3 DEF IInv, PermitsConserved

LEMMA NextInv == IInv /\ [Next]_vars => IInv'
<1>. SUFFICES ASSUME IInv, [Next]_vars PROVE IInv'
  OBVIOUS
<1>t. /\ loop \in {"accepting", "backoff", "dropped"}
      /\ backlog \in Seq(Conns)
      /\ permits \in Nat /\ MaxConnections \in Nat
      /\ conn \in [Conns -> Stages]
      /\ OnceEach(backlog)
      /\ \A c \in Conns : conn[c] = "queued" <=> Lists(backlog, c)
      /\ permits + Cardinality(Holding) = MaxConnections
  BY AtLeastOne DEF IInv, TypeOK, PermitsConserved, OnceEach, Lists
\* What is left to show of a step: its pieces of the invariant.
<1>i. ASSUME loop' \in {"accepting", "backoff", "dropped"},
             backlog' \in Seq(Conns), OnceEach(backlog'),
             \A c \in Conns : conn'[c] = "queued" <=> Lists(backlog', c),
             conn' \in [Conns -> Stages],
             permits' \in Nat,
             permits' + Cardinality(Holding') = MaxConnections,
             Cardinality(Holding') \in Nat
      PROVE  IInv'
  <2>1. permits' \in 0..MaxConnections
    BY <1>i, <1>t
  <2>. QED
    BY <1>i, <2>1 DEF IInv, TypeOK, PermitsConserved, OnceEach, Lists
\* The head of the backlog leaves it: it was queued, and the rest still is.
<1>h. ASSUME NEW to \in Stages \ {"queued"}, backlog # <<>>,
             backlog' = Tail(backlog), Move(Head(backlog), "queued", to)
      PROVE  /\ backlog' \in Seq(Conns) /\ OnceEach(backlog')
             /\ \A c \in Conns : conn'[c] = "queued" <=> Lists(backlog', c)
             /\ conn' \in [Conns -> Stages]
             /\ to \in Held => Cardinality(Holding') = Cardinality(Holding) + 1
             /\ to \notin Held => Holding' = Holding
  <2>1. /\ Tail(backlog) \in Seq(Conns) /\ Head(backlog) \in Conns
        /\ OnceEach(Tail(backlog))
        /\ \A x : Lists(Tail(backlog), x) <=> Lists(backlog, x) /\ x # Head(backlog)
    BY <1>t, <1>h, TailLists
  <2>2. /\ conn' \in [Conns -> Stages]
        /\ conn'[Head(backlog)] = to
        /\ \A d \in Conns \ {Head(backlog)} : conn'[d] = conn[d]
        /\ to \in Held => Head(backlog) \notin Holding /\ Holding' = Holding \cup {Head(backlog)}
        /\ to \notin Held => Holding' = Holding
    BY <1>t, <1>h, <2>1, MoveHolding DEF Held
  <2>. QED
    BY <1>t, <1>h, <2>1, <2>2, HoldingCount
<1>c. Cardinality(Holding) \in Nat
  BY HoldingCount
<1>1. CASE Accept
  <2>1. CASE permits > 0
    <3>1. /\ backlog # <<>> /\ backlog' = Tail(backlog)
          /\ permits' = permits - 1 /\ loop' = loop
          /\ Move(Head(backlog), "queued", IF Tls THEN "handshake" ELSE "head")
      BY <1>1, <1>t, <2>1 DEF Accept
    <3>. DEFINE to == IF Tls THEN "handshake" ELSE "head"
    <3>2. to \in Stages \ {"queued"} /\ to \in Held
      BY DEF Stages, Held
    <3>. HIDE DEF to
    <3>3. Move(Head(backlog), "queued", to)
      BY <3>1 DEF to
    <3>. QED
      BY <1>c, <1>h, <1>i, <1>t, <2>1, <3>1, <3>2, <3>3
  <2>2. CASE permits = 0
    <3>1. /\ backlog # <<>> /\ backlog' = Tail(backlog)
          /\ permits' = permits /\ loop' = loop
          /\ Move(Head(backlog), "queued", "away")
      BY <1>1, <2>2 DEF Accept
    <3>2. "away" \in Stages \ {"queued"} /\ "away" \notin Held
      BY DEF Stages, Held
    <3>. QED
      BY <1>c, <1>h, <1>i, <1>t, <3>1, <3>2
  <2>. QED
    BY <2>1, <2>2, <1>t
<1>2. CASE AcceptFails
  <2>1. loop' = "backoff" /\ permits' = permits
    BY <1>2 DEF AcceptFails
  <2>2. CASE UNCHANGED <<backlog, conn>>
    BY <1>c, <1>i, <1>t, <2>1, <2>2 DEF Holding
  <2>3. CASE /\ backlog # <<>> /\ backlog' = Tail(backlog)
             /\ Move(Head(backlog), "queued", "away")
    <3>1. "away" \in Stages \ {"queued"} /\ "away" \notin Held
      BY DEF Stages, Held
    <3>. QED
      BY <1>c, <1>h, <1>i, <1>t, <2>1, <2>3, <3>1
  <2>. QED
    BY <1>2, <2>2, <2>3 DEF AcceptFails
<1>3. CASE BackoffEnds
  BY <1>3, <1>c, <1>i, <1>t DEF BackoffEnds, Holding
<1>4. CASE DropLoop
  <2>1. /\ loop' = "dropped" /\ backlog' = <<>> /\ permits' = permits
        /\ conn' = [c \in Conns |-> IF conn[c] = "queued" THEN "away" ELSE conn[c]]
    BY <1>4 DEF DropLoop
  <2>2. conn' \in [Conns -> Stages] /\ Holding' = Holding
    BY <1>t, <2>1 DEF Stages, Holding
  <2>3. /\ backlog' \in Seq(Conns) /\ OnceEach(backlog')
        /\ \A c : ~Lists(backlog', c)
    BY <2>1 DEF OnceEach, Lists
  <2>. QED
    BY <1>c, <1>i, <1>t, <2>1, <2>2, <2>3
<1>5. ASSUME NEW c \in Conns, Connect(c) PROVE IInv'
  <2>1. /\ loop' = loop /\ permits' = permits /\ backlog' = Append(backlog, c)
        /\ Move(c, "away", "queued")
    BY <1>5 DEF Connect
  <2>2. /\ conn' \in [Conns -> Stages] /\ Holding' = Holding
        /\ conn[c] = "away" /\ conn'[c] = "queued"
        /\ \A d \in Conns \ {c} : conn'[d] = conn[d]
    BY <1>t, <2>1, MoveHolding DEF Stages, Held
  <2>3. /\ backlog' \in Seq(Conns) /\ OnceEach(backlog')
        /\ \A x : Lists(backlog', x) <=> Lists(backlog, x) \/ x = c
    BY <1>t, <2>1, <2>2, AppendLists
  <2>. QED
    BY <1>c, <1>i, <1>t, <2>1, <2>2, <2>3
<1>6. ASSUME NEW c \in Conns, ConnStep(c) PROVE IInv'
  <2>1. CASE ReleasePermit(c)
    <3>1. /\ loop' = loop /\ backlog' = backlog /\ permits' = permits + 1
          /\ Move(c, "closed", "away")
      BY <2>1 DEF ReleasePermit
    <3>2. /\ conn' \in [Conns -> Stages]
          /\ conn[c] = "closed" /\ conn'[c] = "away"
          /\ \A d \in Conns \ {c} : conn'[d] = conn[d]
          /\ c \in Holding /\ Holding' = Holding \ {c}
      BY <1>t, <3>1, MoveHolding DEF Stages, Held
    <3>3. Cardinality(Holding') = Cardinality(Holding) - 1 /\ Cardinality(Holding) > 0
      BY <3>2, HoldingCount
    <3>. QED
      BY <1>c, <1>i, <1>t, <3>1, <3>2, <3>3
  <2>2. CASE \/ HandshakeEnds(c) \/ HandshakeTimesOut(c) \/ ReadHead(c)
             \/ HeadTimesOut(c) \/ Respond(c)
    <3>1. PICK from \in Held, to \in Held : Move(c, from, to) /\ ConnOnly
      BY <2>2 DEF HandshakeEnds, HandshakeTimesOut, ReadHead, HeadTimesOut, Respond, Held
    <3>2. Held \subseteq Stages \ {"queued"}
      BY DEF Held, Stages
    <3>. QED
      BY <3>1, <3>2, ConnMove
  <2>. QED
    BY <1>6, <2>1, <2>2 DEF ConnStep
<1>7. CASE UNCHANGED vars
  BY <1>7 DEF vars, IInv, TypeOK, PermitsConserved, Holding
<1>. QED
  BY <1>1, <1>2, <1>3, <1>4, <1>5, <1>6, <1>7 DEF Next

THEOREM Invariance == Spec => []IInv
<1>. QED
  BY InitInv, NextInv, PTL DEF Spec

\* The type invariant: among others, the backlog lists the queued clients.
THEOREM TypeCorrect == Spec => []TypeOK
<1>1. IInv => TypeOK
  BY DEF IInv
<1>. QED
  BY <1>1, Invariance, PTL

\* Permits are conserved, for any number of clients and any cap
\* (listener.rs:118-132).
THEOREM PermitsAreConserved == Spec => []PermitsConserved
<1>1. IInv => PermitsConserved
  BY DEF IInv
<1>. QED
  BY <1>1, Invariance, PTL

\* At most max_connections connections are served at a time: the promise of
\* ConnectionLimits (listener.rs:20-45).
THEOREM ServedWithinCap == Spec => [](Cardinality(Holding) <= MaxConnections)
<1>1. IInv => Cardinality(Holding) <= MaxConnections
  BY HoldingCount, AtLeastOne DEF IInv, TypeOK, PermitsConserved
<1>. QED
  BY <1>1, Invariance, PTL

\* A running loop turns a connection away only with every place held
\* (listener.rs:118-126).
THEOREM RefusalsAreAtCap == Spec => RefusedOnlyAtCap
<1>. DEFINE Fair == \A c \in Conns :
              conn[c] = "queued" /\ conn'[c] = "away" /\ loop' = "accepting"
                => Cardinality(Holding) = MaxConnections
<1>1. ASSUME IInv, [Next]_vars PROVE Fair
  <2>. SUFFICES ASSUME NEW c \in Conns, conn[c] = "queued", conn'[c] = "away",
                       loop' = "accepting"
                PROVE  Cardinality(Holding) = MaxConnections
    OBVIOUS
  <2>t. /\ conn \in [Conns -> Stages] /\ permits \in Nat
        /\ permits + Cardinality(Holding) = MaxConnections
        /\ Cardinality(Holding) \in Nat
    BY <1>1, HoldingCount DEF IInv, TypeOK, PermitsConserved
  <2>1. ASSUME NEW d \in Conns, NEW from, NEW to, Move(d, from, to),
               from # "queued" \/ to # "away"
        PROVE  FALSE
    BY <2>1, <2>t DEF Move
  <2>2. CASE Accept
    <3>1. backlog # <<>> /\ Head(backlog) \in Conns
      BY <2>2, <1>1 DEF Accept, IInv, TypeOK
    <3>2. CASE permits > 0
      BY <2>1, <2>2, <3>1, <3>2, <2>t DEF Accept
    <3>. QED
      BY <3>2, <2>t
  <2>3. CASE AcceptFails \/ DropLoop
    BY <2>3 DEF AcceptFails, DropLoop
  <2>4. CASE BackoffEnds \/ UNCHANGED vars
    BY <2>4 DEF BackoffEnds, vars
  <2>5. ASSUME NEW d \in Conns, Connect(d) \/ ConnStep(d) PROVE FALSE
    BY <2>1, <2>5 DEF Connect, ConnStep, HandshakeEnds, HandshakeTimesOut, ReadHead,
                     HeadTimesOut, Respond, ReleasePermit
  <2>. QED
    BY <1>1, <2>2, <2>3, <2>4, <2>5 DEF Next
<1>2. Spec => [][Fair]_vars
  BY <1>1, Invariance, PTL DEF Spec
<1>. QED
  BY <1>2 DEF RefusedOnlyAtCap
=============================================================================
