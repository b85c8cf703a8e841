---------------------------- MODULE RouterBuild ----------------------------
(***************************************************************************)
(* From an API description to its router: HasServer (serve.rs) over the    *)
(* whole of an API, and choice (router.rs) with the calls it makes.        *)
(***************************************************************************)
EXTENDS RouterTree

RECURSIVE ChoiceOf(_, _)

\* choice
ChoiceOf(a, b) == ChoiceStep(ChoiceOf, a, b)

RECURSIVE ChoicesIn(_, _)

\* The calls of choice that one of them makes, itself included.
ChoicesIn(a, b) ==
  {<<a, b>>} \cup
  CASE a.t = "Static" /\ b.t = "Static" ->
         UNION {ChoicesIn(a.map[s], b.map[s]) : s \in DOMAIN a.map \cap DOMAIN b.map}
    [] a.t = "Capture" /\ b.t = "Capture" -> ChoicesIn(a.inner, b.inner)
    [] b.t = "Choice" -> ChoicesIn(a, b.left)
    [] OTHER -> {}

RECURSIVE IntoRouter(_)

\* into_router, for an endpoint and for an Alt.
IntoRouter(written) ==
  IF written.a = "alt"
  THEN ChoiceOf(IntoRouter(written.left), IntoRouter(written.right))
  ELSE Shape(written)

RECURSIVE EndpointsOf(_)

\* The endpoints of an API in the order they are written.
EndpointsOf(written) ==
  IF written.a = "alt"
  THEN EndpointsOf(written.left) \o EndpointsOf(written.right)
  ELSE <<written>>

RECURSIVE PartsOf(_)

\* An API and all the APIs inside it.
PartsOf(written) ==
  {written} \cup IF written.a = "alt"
                 THEN PartsOf(written.left) \cup PartsOf(written.right)
                 ELSE {}

RECURSIVE Bracketings(_)

\* Every API that writes these endpoints in this order.
Bracketings(eps) ==
  IF Len(eps) = 1 THEN {eps[1]}
  ELSE UNION {{Alt(l, r) : l \in Bracketings(SubSeq(eps, 1, n)),
                           r \in Bracketings(SubSeq(eps, n + 1, Len(eps)))} :
              n \in 1..(Len(eps) - 1)}

RECURSIVE Subtrees(_)

\* A router and all the routers below it.
Subtrees(n) ==
  {n} \cup CASE n.t = "Static" -> UNION {Subtrees(n.map[s]) : s \in DOMAIN n.map}
             [] n.t = "Choice" -> Subtrees(n.left) \cup Subtrees(n.right)
             [] n.t = "Raw" -> {}
             [] OTHER -> Subtrees(n.inner)

\* The leaves at these routers.
LeavesOf(nodes) ==
  {n.leaf : n \in {m \in nodes : m.t = "Raw"}}
  \cup UNION {ToSet(n.leaves) : n \in {m \in nodes : m.t = "Static"}}

\* The API as RouterService holds it.
Serve(written, context) ==
  [router |-> IntoRouter(written), context |-> context,
   endpoints |-> EndpointsOf(written)]
=============================================================================
