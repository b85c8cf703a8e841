---------------------------- MODULE ApiSemantics ----------------------------
(***************************************************************************)
(* What an API means, from its list of endpoints alone: no router, no      *)
(* merging, no stack.  Each endpoint is matched against the path by        *)
(* itself, and asked by itself whether it declines; Dispatch must answer   *)
(* as if it did just that.                                                 *)
(***************************************************************************)
EXTENDS LeafCall, RouterTree

Drop(path, n) == SubSeq(path, n + 1, Len(path))

\* How many segments the first i steps take: one each Path and each Capture.
Taken(ep, i) ==
  Cardinality({j \in 1..i : ep.steps[j].c \in {"Path", "Capture"}})

AfterAll(ep, i) == Earlier(ep.steps, "CaptureAll", i)

TakesRest(ep) == IsRaw(ep) \/ AfterAll(ep, Len(ep.steps) + 1)

(***************************************************************************)
(* An endpoint matches when each of its Paths and Captures takes a         *)
(* segment, with more than a trailing slash left before it, and, unless it *)
(* takes the rest, nothing but a trailing slash is left after the last.    *)
(* After a CaptureAll nothing is left to take.                             *)
(***************************************************************************)
Matches(ep, path) ==
  /\ \A i \in DOMAIN ep.steps :
       ep.steps[i].c \in {"Path", "Capture"} =>
         /\ ~AfterAll(ep, i)
         /\ ~IsEmptyPath(Drop(path, Taken(ep, i) - 1))
         /\ ep.steps[i].c = "Path" => path[Taken(ep, i)] = ep.steps[i].seg
  /\ TakesRest(ep) \/ IsEmptyPath(Drop(path, Taken(ep, Len(ep.steps))))

\* The segments of the Captures among the first i steps.
CapturesUpTo(ep, i, path) ==
  [n \in 1..CaptureIndex(ep.steps, i) |->
     path[Taken(ep, First({j \in 1..i : /\ ep.steps[j].c = "Capture"
                                        /\ CaptureIndex(ep.steps, j) = n}))]]

\* What the CaptureAlls among the first i steps leave: a second one, nothing.
RestUpTo(ep, i, path) ==
  LET alls == {j \in 1..i : ep.steps[j].c = "CaptureAll"} IN
  IF alls = {} THEN None
  ELSE IF \E j \in alls : AfterAll(ep, j) THEN <<>>
  ELSE DropLeadingEmpty(Drop(path, Taken(ep, i)))

CapturesOf(ep, path) == CapturesUpTo(ep, Len(ep.steps), path)
RestOf(ep, path) == RestUpTo(ep, Len(ep.steps), path)

-----------------------------------------------------------------------------
\* What the endpoint's leaf, called for the path, answers.
DeclineOf(ep, r) == DeclineCode(LeafOf(ep), CapturesOf(ep, r.path), RestOf(ep, r.path), r)

\* The endpoints the path matches, and those of them that do not decline.
Candidates(endpoints, r) == {i \in DOMAIN endpoints : Matches(endpoints[i], r.path)}

Takers(endpoints, r) ==
  {i \in Candidates(endpoints, r) : DeclineOf(endpoints[i], r) = None}

\* The first error of highest priority among those that decline.
BestDecline(endpoints, r) ==
  LET code(i) == DeclineOf(endpoints[i], r)
      highest == {i \in Candidates(endpoints, r) :
                    \A j \in Candidates(endpoints, r) :
                      Priority(code(j)) <= Priority(code(i))}
  IN Error(code(First(highest)), endpoints[First(highest)].id)

EndpointOf(leaf) ==
  api.endpoints[CHOOSE i \in DOMAIN api.endpoints : api.endpoints[i].id = leaf.id]

-----------------------------------------------------------------------------
(***************************************************************************)
(* The router that choice builds, with its merged maps and captures and    *)
(* its reassociated choices, answers every request as the endpoints do in  *)
(* the order they are written: the first that does not decline settles it, *)
(* with its fatal error or with its handler, and if all decline the answer *)
(* is the first error of highest priority.  (Which 404 among several is    *)
(* not promised: merging removes router misses that Choice would report.)  *)
(***************************************************************************)
AnswersAsSpecified ==
  pc = "done" =>
    LET found == Candidates(api.endpoints, req)
        takers == Takers(api.endpoints, req)
        taker == api.endpoints[First(takers)]
        worst == BestDecline(api.endpoints, req)
        fatal == FatalCode(LeafOf(taker), req, api.context)
    IN CASE found = {} -> answer.code = 404 /\ ran = <<>>
         [] found # {} /\ takers = {} ->
              /\ answer.code = worst.code /\ ran = <<>>
              /\ worst.code # 404 => answer.by = worst.by
         [] OTHER ->
              /\ answer.by = taker.id
              /\ IF fatal = None THEN ran # <<>> /\ ret.tag = "Route"
                 ELSE ran = <<>> /\ ret = FailFatal(Error(fatal, taker.id))

(***************************************************************************)
(* A handler gets what the combinator at each position of its endpoint     *)
(* stands for: the captures of its own path steps although the router only *)
(* keeps a list of segments, and from each authentication the user that    *)
(* its own check, in its own named context, let in, although the users are *)
(* kept by type and handed out in order.                                   *)
(***************************************************************************)
HandlerGetsItsArguments ==
  ran # <<>> /\ ~IsRaw(ran[1].leaf) =>
    LET ep == EndpointOf(ran[1].leaf)
        chain == ran[1].leaf.chain
    IN /\ Len(ran[1].args) = Len(chain)
       /\ \A i \in DOMAIN chain :
            ran[1].args[i] = Argument(chain, CapturesOf(ep, req.path), RestOf(ep, req.path),
                                      req, api.context, i)

-----------------------------------------------------------------------------
(***************************************************************************)
(* docs/DESIGN.md:138: "captures, method, auth, accept, content-type":     *)
(* a request whose credentials an endpoint refuses is refused for that     *)
(* before its Accept header is looked at.                                  *)
(***************************************************************************)
AuthPrecedesAccept ==
  pc = "return" /\ call # None /\ ret = Fail(LeafError(406)) =>
    AuthFailures(Chain, req, api.context) = {}
=============================================================================
