----------------------------- MODULE RouterTree -----------------------------
(***************************************************************************)
(* From an endpoint to its router: RouterShape and the raw servers         *)
(* (serve.rs, serve/raw.rs); and one call of choice, the smart constructor *)
(* that merges what it can (router.rs).  RouterBuild has the recursion.    *)
(*                                                                         *)
(* The steps of an endpoint that shape its router are its Paths and its    *)
(* captures; all but the Paths and the metadata become its leaf's chain.   *)
(***************************************************************************)
EXTENDS ApiDescription

Static(map, leaves) == [t |-> "Static", map |-> map, leaves |-> leaves]
CaptureNode(inner) == [t |-> "Capture", inner |-> inner]
CaptureAllNode(inner) == [t |-> "CaptureAll", inner |-> inner]
RawNode(leaf) == [t |-> "Raw", leaf |-> leaf]
ChoiceNode(left, right) == [t |-> "Choice", left |-> left, right |-> right]

NoMap == [s \in {} |-> <<>>]

\* Router::leaf and Router::path
LeafRouter(leaf) == Static(NoMap, <<leaf>>)
PathRouter(seg, inner) == Static([s \in {seg} |-> inner], <<>>)

\* The chain of an endpoint's leaf: the steps that do something at run time.
LeafOf(ep) ==
  [id |-> ep.id, kind |-> ep.kind, method |-> ep.method, produces |-> ep.produces,
   chain |-> SelectSeq(ep.steps, LAMBDA s : s.c \notin Metadata \cup {"Path"})]

\* shape: each combinator wraps what is inside it.
ShapeStep(step, inner) ==
  CASE step.c = "Path" -> PathRouter(step.seg, inner)
    [] step.c = "Capture" -> CaptureNode(inner)
    [] step.c = "CaptureAll" -> CaptureAllNode(inner)
    [] OTHER -> inner

\* What stands inside all the combinators of an endpoint.
Innermost(ep) ==
  IF ep.kind = "endpoint" THEN LeafRouter(LeafOf(ep)) ELSE RawNode(LeafOf(ep))

\* The router of an endpoint, built from its last step outwards.
Shape(ep) ==
  LET n == Len(ep.steps)
      shape[i \in 1..(n + 1)] ==
        IF i = n + 1 THEN Innermost(ep) ELSE ShapeStep(ep.steps[i], shape[i + 1])
  IN shape[1]

-----------------------------------------------------------------------------
\* Mutant: t1.extend(t2), the later router wins a common segment.
UniteMapsOverwrites(both, left, right) ==
  [s \in DOMAIN left \cup DOMAIN right |->
     IF s \in DOMAIN right THEN right[s] ELSE left[s]]

\* The union of two static maps, both being what their common keys map to.
UniteMaps(both, left, right) ==
  [s \in DOMAIN left \cup DOMAIN right |->
     CASE s \notin DOMAIN right -> left[s]
       [] s \notin DOMAIN left -> right[s]
       [] OTHER -> both[s]]

(***************************************************************************)
(* One call of choice, given the calls it makes: static maps are united,   *)
(* key by key, and their leaves appended; captures are merged; nested      *)
(* choices are reassociated to the left.                                   *)
(***************************************************************************)
ChoiceStep(choice(_, _), a, b) ==
  CASE a.t = "Static" /\ b.t = "Static" ->
         Static(UniteMaps([s \in DOMAIN a.map \cap DOMAIN b.map |->
                             choice(a.map[s], b.map[s])], a.map, b.map),
                a.leaves \o b.leaves)
    [] a.t = "Capture" /\ b.t = "Capture" -> CaptureNode(choice(a.inner, b.inner))
    [] b.t = "Choice" -> ChoiceNode(choice(a, b.left), b.right)
    [] OTHER -> ChoiceNode(a, b)
=============================================================================
