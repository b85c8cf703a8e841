----------------------------- MODULE ServedApis -----------------------------
(***************************************************************************)
(* The served APIs with the routers they were built into: a table of the   *)
(* calls of into_router and choice, one entry per call.  RouterBuild       *)
(* computes it; here each entry is only what the code makes of the entries *)
(* it calls for, so that what follows holds of every such table.           *)
(***************************************************************************)
EXTENDS ApiSemantics

CONSTANTS
  Written,   \* the served APIs and all the APIs inside them
  RouterOf,  \* RouterOf[w]: what into_router makes of w
  ListOf,    \* ListOf[w]: the endpoints of w in the order they are written
  Merged     \* Merged[a, b]: what choice makes of a and b

\* What the constructors of api/constructors.rs can make.
IsEndpoint(w) ==
  /\ w.a = "endpoint"
  /\ Len(w.steps) \in Nat /\ DOMAIN w.steps = 1..Len(w.steps)
  /\ w.kind = "endpoint" \/ IsRaw(w)

ASSUME WrittenAreApis ==
  \A w \in Written :
    \/ IsEndpoint(w)
    \/ w.a = "alt" /\ w.left \in Written /\ w.right \in Written

\* choice
ASSUME MergedIsChoice ==
  \A p \in DOMAIN Merged :
    /\ p = <<p[1], p[2]>>
    /\ p[1].t = "Static" /\ p[2].t = "Static" =>
         \A s \in DOMAIN p[1].map \cap DOMAIN p[2].map :
           <<p[1].map[s], p[2].map[s]>> \in DOMAIN Merged
    /\ p[1].t = "Capture" /\ p[2].t = "Capture" =>
         <<p[1].inner, p[2].inner>> \in DOMAIN Merged
    /\ p[2].t = "Choice" => <<p[1], p[2].left>> \in DOMAIN Merged
    /\ Merged[p] = ChoiceStep(LAMBDA a, b : Merged[<<a, b>>], p[1], p[2])

\* into_router, for an Alt and for an endpoint
ASSUME RouterOfIsIntoRouter ==
  \A w \in Written :
    IF w.a = "alt"
    THEN LET p == <<RouterOf[w.left], RouterOf[w.right]>> IN
         p \in DOMAIN Merged /\ RouterOf[w] = Merged[p]
    ELSE RouterOf[w] = Shape(w)

\* An API is its endpoints in the order they are written, and has some.
ASSUME ListOfIsTheEndpoints ==
  \A w \in Written :
    /\ ListOf[w] \in Seq({v \in Written : v.a = "endpoint"}) \ {<<>>}
    /\ ListOf[w] = IF w.a = "alt" THEN ListOf[w.left] \o ListOf[w.right] ELSE <<w>>

\* RouterService serves the router of an API it was given.
ASSUME ApisAreServed ==
  \A a \in Apis : \E w \in Written : a.router = RouterOf[w] /\ a.endpoints = ListOf[w]

\* An endpoint's id is its name in this model: no two share one.
ASSUME EndpointsAreNamed ==
  \A a \in Apis : \A i, j \in DOMAIN a.endpoints :
    a.endpoints[i].id = a.endpoints[j].id => i = j
=============================================================================
