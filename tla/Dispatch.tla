------------------------------ MODULE Dispatch ------------------------------
(***************************************************************************)
(* One request on its way through servant-server: RouterService::handle    *)
(* (adapter.rs), dispatch and run_choice_leaves over a Router (router.rs), *)
(* EndpointLeaf::call with its phases (handler.rs), the ServerChain of the *)
(* endpoint's combinators (extract/), and the raw leaves (raw.rs).         *)
(*                                                                         *)
(* A router is a value, as in the code: a node is one of                   *)
(*   [t |-> "Static", map, leaves]    [t |-> "Capture", inner]             *)
(*   [t |-> "CaptureAll", inner]      [t |-> "Raw", leaf]                  *)
(*   [t |-> "Choice", left, right]                                         *)
(* and a leaf is [id, kind, chain, method, produces], with kind one of     *)
(* "endpoint", "raw" and "rawM".  Its chain lists the combinators that do  *)
(* something at run time; a raw leaf's are the Host guards around it.      *)
(*                                                                         *)
(* A parser is the set of the inputs it accepts (a lenient combinator's    *)
(* accepts them all), an Accept header the set of media types it admits.   *)
(* dispatch is recursive; the calls that are not tail calls are frames of  *)
(* an explicit stack.                                                      *)
(***************************************************************************)
EXTENDS Params, RequestSlot, FiniteSets

CONSTANTS
  Segments,   \* path segments: texts, <<>> the empty one
  Requests,   \* the requests that may arrive
  Apis,       \* the served APIs: [router, context, endpoints]
  Nodes,      \* every router node of every API
  Leaves      \* every leaf of every API

IsRaw(leaf) == leaf.kind \in {"raw", "rawM"}

NodeTypes == {"Static", "Capture", "CaptureAll", "Raw", "Choice"}

ASSUME RoutersAreNodes == \A a \in Apis : a.router \in Nodes

\* Nodes holds the children of its members, and Leaves their leaves.
ASSUME NodesAreClosed ==
  \A n \in Nodes :
    /\ n.t \in NodeTypes
    /\ n.t = "Static" => /\ n.leaves \in Seq(Leaves)
                         /\ \A s \in DOMAIN n.map : n.map[s] \in Nodes
    /\ n.t \in {"Capture", "CaptureAll"} => n.inner \in Nodes
    /\ n.t = "Raw" => n.leaf \in Leaves /\ IsRaw(n.leaf)
    /\ n.t = "Choice" => n.left \in Nodes /\ n.right \in Nodes

ASSUME RequestsHavePaths == \A r \in Requests : r.path \in Seq(Segments)

\* The statuses routing answers with; an AuthProtect check picks its own.
ErrorCodes == {400, 401, 403, 404, 405, 406, 409, 413, 415, 500}

ASSUME DenialsAreErrors ==
  \A l \in Leaves : \A i \in DOMAIN l.chain :
    l.chain[i].c = "Auth" => l.chain[i].denied \in ErrorCodes

VARIABLES
  api, req,   \* the served API and the request, fixed
  pc,         \* the phase the request is in
  at,         \* the arguments of the dispatch call being run
  stack,      \* the dispatch and run_choice_leaves calls waiting for a result
  call,       \* the leaf call being run: [leaf, caps, rest, tail]
  st, k,      \* its ExtractState, and the combinator it is at
  args,       \* args[i]: what combinator i contributed to the arguments
  slot,       \* the request body's BodySlot
  ret,        \* the RouteResult being returned
  answer,     \* the response of RouterService::handle
  ran,        \* history: the handler runs, [leaf, args, tail]
  best        \* history: combine_fail over every Fail so far, in order

vars == <<api, req, pc, at, stack, call, st, k, args, slot, ret, answer,
          ran, best>>

routing == <<at, stack>>
calling == <<call, st, k, args>>
fixed == <<api, req>>

IsEmptyPath(segs) == segs \in {<<>>, <<<<>>>>}

Init ==
  /\ api \in Apis
  /\ req \in Requests
  /\ pc = "route"
  /\ at = [node |-> api.router, segs |-> req.path, caps |-> <<>>, rest |-> None]
  /\ stack = <<>>
  /\ call = None /\ st = None /\ k = 0 /\ args = <<>>
  /\ slot = "Streaming"
  /\ ret = None /\ answer = None
  /\ ran = <<>> /\ best = None

\* A recoverable and a fatal result, on their way back to the caller.
ReturnFail(err) ==
  /\ ret' = Fail(err)
  /\ best' = CombineFail(best, err)
  /\ pc' = "return"

ReturnFatal(err) ==
  /\ ret' = FailFatal(err)
  /\ pc' = "return"
  /\ UNCHANGED best

-----------------------------------------------------------------------------
(***************************************************************************)
(* dispatch, one arm each.                                                 *)
(***************************************************************************)
RouteStaticHere ==
  /\ pc = "route" /\ at.node.t = "Static" /\ IsEmptyPath(at.segs)
  /\ stack' = <<[f |-> "leaves", todo |-> at.node.leaves, err |-> None,
                 caps |-> at.caps, rest |-> at.rest]>> \o stack
  /\ pc' = "leaves"
  /\ UNCHANGED <<fixed, at, calling, slot, ret, answer, ran, best>>

RouteStaticDeeper ==
  /\ pc = "route" /\ at.node.t = "Static" /\ ~IsEmptyPath(at.segs)
  /\ \/ /\ Head(at.segs) \in DOMAIN at.node.map
        /\ at' = [at EXCEPT !.node = at.node.map[Head(at.segs)],
                            !.segs = Tail(at.segs)]
        /\ UNCHANGED <<pc, ret, best>>
     \/ /\ Head(at.segs) \notin DOMAIN at.node.map
        /\ ReturnFail(NotFound)
        /\ UNCHANGED at
  /\ UNCHANGED <<fixed, stack, calling, slot, answer, ran>>

RouteCapture ==
  /\ pc = "route" /\ at.node.t = "Capture"
  /\ \/ /\ IsEmptyPath(at.segs)
        /\ ReturnFail(NotFound)
        /\ UNCHANGED at
     \/ /\ ~IsEmptyPath(at.segs)
        /\ at' = [at EXCEPT !.node = at.node.inner,
                            !.segs = Tail(at.segs),
                            !.caps = Append(at.caps, Head(at.segs))]
        /\ UNCHANGED <<pc, ret, best>>
  /\ UNCHANGED <<fixed, stack, calling, slot, answer, ran>>

\* A leading empty segment is the artifact of a trailing slash.
DropLeadingEmpty(segs) ==
  IF segs # <<>> /\ segs[1] = <<>> THEN Tail(segs) ELSE segs

RouteCaptureAll ==
  /\ pc = "route" /\ at.node.t = "CaptureAll"
  /\ at' = [at EXCEPT !.node = at.node.inner,
                      !.segs = <<>>,
                      !.rest = DropLeadingEmpty(at.segs)]
  /\ UNCHANGED <<fixed, pc, stack, calling, slot, ret, answer, ran, best>>

BeginCall(leaf, caps, rest, tail) ==
  /\ call' = [leaf |-> leaf, caps |-> caps, rest |-> rest, tail |-> tail]
  /\ pc' = IF IsRaw(leaf) THEN "host" ELSE "captures"

RouteRaw ==
  /\ pc = "route" /\ at.node.t = "Raw"
  /\ BeginCall(at.node.leaf, at.caps, at.rest,
               IF IsEmptyPath(at.segs) THEN <<>> ELSE at.segs)
  /\ UNCHANGED <<fixed, routing, st, k, args, slot, ret, answer, ran, best>>

RouteChoice ==
  /\ pc = "route" /\ at.node.t = "Choice"
  /\ stack' = <<[f |-> "left", then |-> [at EXCEPT !.node = at.node.right]]>>
              \o stack
  /\ at' = [at EXCEPT !.node = at.node.left]
  /\ UNCHANGED <<fixed, pc, calling, slot, ret, answer, ran, best>>

\* Mutant: the loop does not advance.
NextLeafStays ==
  LET top == Head(stack) IN
  /\ pc = "leaves"
  /\ \/ /\ top.todo # <<>>
        /\ BeginCall(Head(top.todo), top.caps, top.rest, <<>>)
        /\ UNCHANGED <<stack, ret, best>>
     \/ /\ top.todo = <<>>
        /\ stack' = Tail(stack)
        /\ ReturnFail(IF top.err = None THEN NotFound ELSE top.err)
        /\ UNCHANGED call
  /\ UNCHANGED <<fixed, at, st, k, args, slot, answer, ran>>

\* run_choice_leaves, the head of its loop and its end.
NextLeaf ==
  LET top == Head(stack) IN
  /\ pc = "leaves"
  /\ \/ /\ top.todo # <<>>
        /\ BeginCall(Head(top.todo), top.caps, top.rest, <<>>)
        /\ stack' = <<[top EXCEPT !.todo = Tail(@)]>> \o Tail(stack)
        /\ UNCHANGED <<ret, best>>
     \/ /\ top.todo = <<>>
        /\ stack' = Tail(stack)
        /\ ReturnFail(IF top.err = None THEN NotFound ELSE top.err)
        /\ UNCHANGED call
  /\ UNCHANGED <<fixed, at, st, k, args, slot, answer, ran>>

-----------------------------------------------------------------------------
(***************************************************************************)
(* EndpointLeaf::call up to its first await: the recoverable phases, in    *)
(* their order.  Nothing here touches the body.                            *)
(***************************************************************************)
Chain == call.leaf.chain
LeafError(code) == Error(code, call.leaf.id)

\* A phase that passes goes on to the next one, otherwise the leaf declines.
Phase(here, ok, code, next) ==
  /\ pc = here
  /\ \/ /\ ok
        /\ pc' = next
        /\ UNCHANGED <<ret, best>>
     \/ /\ ~ok
        /\ ReturnFail(LeafError(code))
  /\ UNCHANGED <<fixed, routing, call, args, slot, answer, ran>>

First(S) == CHOOSE i \in S : \A j \in S : i <= j

\* idx of validate_captures: how many Captures the chain has up to i.
CaptureIndex(chain, i) ==
  Cardinality({j \in 1..i : chain[j].c = "Capture"})

\* The combinators whose captures are missing, and those that cannot parse.
MissingCaptures(chain, caps) ==
  {i \in DOMAIN chain : chain[i].c = "Capture" /\ CaptureIndex(chain, i) > Len(caps)}

BadCaptures(chain, caps, rest) ==
  {i \in DOMAIN chain \ MissingCaptures(chain, caps) :
     \/ chain[i].c = "Capture" /\ caps[CaptureIndex(chain, i)] \notin chain[i].ok
     \/ /\ chain[i].c = "CaptureAll" /\ rest # None
        /\ \E n \in DOMAIN rest : rest[n] \notin chain[i].ok}

CheckCaptures ==
  LET missing == MissingCaptures(Chain, call.caps)
      failed == missing \cup BadCaptures(Chain, call.caps, call.rest)
  IN /\ Phase("captures", failed = {},
              IF First(failed) \in missing THEN 404 ELSE 400, "host")
     /\ UNCHANGED <<st, k>>

HostMatches(chain, r) ==
  \A i \in DOMAIN chain : chain[i].c = "Host" => HostAccepts(chain[i], r)

\* host_check of an endpoint, and HostGuardLeaf around a raw leaf.
CheckHost ==
  /\ Phase("host", HostMatches(Chain, req), 404,
           IF IsRaw(call.leaf) THEN "body" ELSE "method")
  /\ UNCHANGED <<st, k>>

MethodMatches(leaf, r) ==
  r.method = leaf.method \/ (r.method = "HEAD" /\ leaf.method = "GET")

CheckMethod ==
  /\ Phase("method", MethodMatches(call.leaf, req), 405, "accept")
  /\ UNCHANGED <<st, k>>

\* NoContentVerb produces nothing and performs no negotiation.
Acceptable(leaf, r) == leaf.produces = {} \/ leaf.produces \cap r.accept # {}

CheckAccept ==
  /\ Phase("accept", Acceptable(call.leaf, req), 406, "contentType")
  /\ UNCHANGED <<st, k>>

\* The outermost body combinator decides for the chain.
BodyCombinators(chain) ==
  {i \in DOMAIN chain : chain[i].c \in {"ReqBody", "StreamBody"}}

ContentTypeAcceptable(chain, r) ==
  LET bodies == BodyCombinators(chain) IN
  bodies # {} => r.ctype \in chain[First(bodies)].types

RequestBodyMode(chain) ==
  LET bodies == BodyCombinators(chain) IN
  CASE bodies = {} -> None
    [] bodies # {} /\ chain[First(bodies)].c = "ReqBody" -> "Buffered"
    [] bodies # {} /\ chain[First(bodies)].c = "StreamBody" -> "Streaming"

\* ExtractState::new
NewState ==
  [caps |-> call.caps, rest |-> call.rest, ctxs |-> <<api.context>>, users |-> <<>>]

CheckContentType ==
  /\ Phase("contentType", ContentTypeAcceptable(Chain, req), 415, "preBody")
  /\ st' = NewState
  /\ k' = 1

-----------------------------------------------------------------------------
(***************************************************************************)
(* ExtractState: the contexts are searched from the innermost outwards.    *)
(***************************************************************************)
LookupCtx(ctxs, field, key) ==
  LET found == {i \in DOMAIN ctxs : key \in DOMAIN ctxs[i][field]} IN
  IF found = {} THEN None
  ELSE LET i == CHOOSE i \in found : \A j \in found : j <= i
       IN ctxs[i][field][key]

\* with_named_context, on the way in: a missing named context changes nothing.
EnterNamed(ctxs, name) ==
  LET named == LookupCtx(ctxs, "named", name) IN
  IF named = None THEN ctxs ELSE Append(ctxs, named)

\* with_named_context, on the way out: the pushed contexts are popped.
LeaveNamed(ctxs) == SubSeq(ctxs, 1, 1)

Here(c) == k \in DOMAIN Chain /\ Chain[k].c = c
PastEnd == k = Len(Chain) + 1

\* Mutant: a refusal is recoverable.
PreBodyAuthRecoverable ==
  LET check == LookupCtx(st.ctxs, "auth", Chain[k].usr)
      passes == check # None /\ req.creds \in DOMAIN check
  IN
  /\ pc = "preBody" /\ Here("Auth")
  /\ \/ /\ ~passes
        /\ ReturnFail(LeafError(Chain[k].denied))
        /\ UNCHANGED <<st, k>>
     \/ /\ passes
        /\ st' = [st EXCEPT !.users =
                    Append(@, [usr |-> Chain[k].usr, val |-> check[req.creds]])]
        /\ k' = k + 1
        /\ UNCHANGED <<pc, ret, best>>
  /\ UNCHANGED <<fixed, routing, call, args, slot, answer, ran>>

(***************************************************************************)
(* pre_body_check of BasicAuth and AuthProtect: run the innermost check    *)
(* for this user type; keep the user for extract, or commit to an error.   *)
(***************************************************************************)
PreBodyAuth ==
  LET check == LookupCtx(st.ctxs, "auth", Chain[k].usr) IN
  /\ pc = "preBody" /\ Here("Auth")
  /\ \/ /\ check = None
        /\ ReturnFatal(LeafError(500))
        /\ UNCHANGED <<st, k>>
     \/ /\ check # None /\ req.creds \notin DOMAIN check
        /\ ReturnFatal(LeafError(Chain[k].denied))
        /\ UNCHANGED <<st, k>>
     \/ /\ check # None /\ req.creds \in DOMAIN check
        /\ st' = [st EXCEPT !.users =
                    Append(@, [usr |-> Chain[k].usr, val |-> check[req.creds]])]
        /\ k' = k + 1
        /\ UNCHANGED <<pc, ret, best>>
  /\ UNCHANGED <<fixed, routing, call, args, slot, answer, ran>>

\* Mutant: without an override, the default pre_body_check ends the walk.
PreBodyNamedEnds ==
  /\ pc = "preBody" /\ Here("Named")
  /\ k' = Len(Chain) + 1
  /\ UNCHANGED <<fixed, pc, routing, call, st, args, slot, ret, answer, ran, best>>

PreBodyNamed ==
  /\ pc = "preBody" /\ Here("Named")
  /\ st' = [st EXCEPT !.ctxs = EnterNamed(@, Chain[k].name)]
  /\ k' = k + 1
  /\ UNCHANGED <<fixed, pc, routing, call, args, slot, ret, answer, ran, best>>

PreBodyOther ==
  /\ pc = "preBody" /\ k \in DOMAIN Chain
  /\ Chain[k].c \notin {"Auth", "Named"}
  /\ k' = k + 1
  /\ UNCHANGED <<fixed, pc, routing, call, st, args, slot, ret, answer, ran, best>>

PreBodyDone ==
  /\ pc = "preBody" /\ PastEnd
  /\ st' = [st EXCEPT !.ctxs = LeaveNamed(@)]
  /\ k' = 1
  /\ args' = <<>>
  /\ pc' = IF RequestBodyMode(Chain) = "Buffered" THEN "body" ELSE "extract"
  /\ UNCHANGED <<fixed, routing, call, slot, ret, answer, ran, best>>

-----------------------------------------------------------------------------
(***************************************************************************)
(* req.buffer_body().await, by an endpoint or a raw leaf.  RequestBody has *)
(* its steps; here only this request's dispatch holds the body, and the    *)
(* call is one step.                                                       *)
(***************************************************************************)
BufferError(r) ==
  CASE r.body = "broken" -> 400
    [] r.body = "tooLarge" -> 413
    [] OTHER -> None

\* Mutant: a body that cannot be buffered is a recoverable failure.
BufferBodyRecoverable ==
  LET took == TakeForBuffering(slot)
      code == CASE took.got = "body" -> BufferError(req)
                [] took.got = "buffered" -> None
                [] took.got = "error" -> 500
  IN /\ pc = "body"
     /\ \/ /\ code = None
           /\ slot' = "Buffered"
           /\ pc' = IF IsRaw(call.leaf) THEN "handler" ELSE "extract"
           /\ UNCHANGED <<ret, best>>
        \/ /\ code # None
           /\ slot' = took.slot
           /\ ReturnFail(LeafError(code))
     /\ UNCHANGED <<fixed, routing, calling, answer, ran>>

BufferBody ==
  LET took == TakeForBuffering(slot)
      code == CASE took.got = "body" -> BufferError(req)
                [] took.got = "buffered" -> None
                [] took.got = "error" -> 500
  IN /\ pc = "body"
     /\ \/ /\ code = None
           /\ slot' = "Buffered"
           /\ pc' = IF IsRaw(call.leaf) THEN "handler" ELSE "extract"
           /\ UNCHANGED <<ret, best>>
        \/ /\ code # None
           /\ slot' = took.slot
           /\ ReturnFatal(LeafError(code))
     /\ UNCHANGED <<fixed, routing, calling, answer, ran>>

-----------------------------------------------------------------------------
(***************************************************************************)
(* extract, one combinator at a time in combinator order.  Each takes its  *)
(* own argument and goes on with the rest of the chain (cons_tail).        *)
(***************************************************************************)
Took(arg) ==
  /\ args' = Append(args, arg)
  /\ k' = k + 1
  /\ UNCHANGED <<pc, ret, best>>

Refused == UNCHANGED <<st, k, args, slot>>

Extracting(c) ==
  /\ pc = "extract" /\ Here(c)
  /\ UNCHANGED <<fixed, routing, call, answer, ran>>

ExtractCapture ==
  /\ Extracting("Capture")
  /\ \/ /\ st.caps = <<>>
        /\ ReturnFail(LeafError(404))
        /\ Refused
     \/ /\ st.caps # <<>> /\ Head(st.caps) \notin Chain[k].ok
        /\ ReturnFail(LeafError(400))
        /\ Refused
     \/ /\ st.caps # <<>> /\ Head(st.caps) \in Chain[k].ok
        /\ Took(Head(st.caps))
        /\ st' = [st EXCEPT !.caps = Tail(@)]
        /\ UNCHANGED slot

\* take_capture_all empties the Option: a second CaptureAll gets nothing.
ExtractCaptureAll ==
  LET segs == IF st.rest = None THEN <<>> ELSE st.rest IN
  /\ Extracting("CaptureAll")
  /\ \/ /\ \E n \in DOMAIN segs : segs[n] \notin Chain[k].ok
        /\ ReturnFail(LeafError(400))
        /\ Refused
     \/ /\ \A n \in DOMAIN segs : segs[n] \in Chain[k].ok
        /\ Took(segs)
        /\ st' = [st EXCEPT !.rest = None]
        /\ UNCHANGED slot

\* QueryParam, QueryParams, QueryFlag, QueryString, DeepQuery and Header.
ExtractParam ==
  LET value == ParamValue(Chain[k], req) IN
  /\ \E c \in ParamCombinators : Extracting(c)
  /\ \/ /\ value = None /\ ~MayBeAbsent(Chain[k])
        /\ ReturnFatal(LeafError(400))
        /\ Refused
     \/ /\ value = None /\ MayBeAbsent(Chain[k])
        /\ Took(None)
        /\ UNCHANGED <<st, slot>>
     \/ /\ value # None /\ ~Parses(Chain[k], value)
        /\ ReturnFatal(LeafError(400))
        /\ Refused
     \/ /\ value # None /\ Parses(Chain[k], value)
        /\ Took(value)
        /\ UNCHANGED <<st, slot>>

\* ReqBody: the buffered bytes, decoded by the negotiated codec.
ExtractReqBody ==
  LET decodable == req.body \in Chain[k].ok IN
  /\ Extracting("ReqBody")
  /\ \/ /\ ReadBuffered(slot) = "error"
        /\ ReturnFatal(LeafError(500))
        /\ Refused
     \/ /\ ReadBuffered(slot) = "buffered" /\ req.ctype \notin Chain[k].types
        /\ ReturnFatal(LeafError(415))
        /\ Refused
     \/ /\ ReadBuffered(slot) = "buffered" /\ req.ctype \in Chain[k].types
        /\ ~decodable
        /\ ReturnFatal(LeafError(400))
        /\ Refused
     \/ /\ ReadBuffered(slot) = "buffered" /\ req.ctype \in Chain[k].types
        /\ decodable
        /\ Took(req.body)
        /\ UNCHANGED <<st, slot>>

\* StreamBody: the live body, to be decoded as the handler polls it.
ExtractStreamBody ==
  LET took == TakeStream(slot) IN
  /\ Extracting("StreamBody")
  /\ slot' = took.slot
  /\ \/ /\ took.got = "error"
        /\ ReturnFatal(LeafError(500))
        /\ UNCHANGED <<st, k, args>>
     \/ /\ took.got = "body"
        /\ Took("stream")
        /\ UNCHANGED st

\* Mutant: the kept users are a stack.
ExtractAuthLatest ==
  LET kept == {n \in DOMAIN st.users : st.users[n].usr = Chain[k].usr}
      latest == CHOOSE n \in kept : \A m \in kept : m <= n
  IN /\ Extracting("Auth")
     /\ kept # {}
     /\ Took(st.users[latest].val)
     /\ st' = [st EXCEPT !.users = SubSeq(@, 1, latest - 1)
                                   \o SubSeq(@, latest + 1, Len(@))]
     /\ UNCHANGED slot

\* take_prechecked: the first kept user of this type, or the check again.
ExtractAuth ==
  LET usr == Chain[k].usr
      kept == {n \in DOMAIN st.users : st.users[n].usr = usr}
      check == LookupCtx(st.ctxs, "auth", usr)
  IN /\ Extracting("Auth")
     /\ UNCHANGED slot
     /\ \/ /\ kept # {}
           /\ Took(st.users[First(kept)].val)
           /\ st' = [st EXCEPT !.users = SubSeq(@, 1, First(kept) - 1)
                                         \o SubSeq(@, First(kept) + 1, Len(@))]
        \/ /\ kept = {} /\ check = None
           /\ ReturnFatal(LeafError(500))
           /\ UNCHANGED <<st, k, args>>
        \/ /\ kept = {} /\ check # None /\ req.creds \notin DOMAIN check
           /\ ReturnFatal(LeafError(Chain[k].denied))
           /\ UNCHANGED <<st, k, args>>
        \/ /\ kept = {} /\ check # None /\ req.creds \in DOMAIN check
           /\ Took(check[req.creds])
           /\ UNCHANGED st

\* WithResource: allocate from the innermost provider.
ExtractResource ==
  LET provider == LookupCtx(st.ctxs, "resources", Chain[k].res) IN
  /\ Extracting("Resource")
  /\ \/ /\ provider = None
        /\ ReturnFatal(LeafError(500))
        /\ Refused
     \/ /\ provider # None
        /\ Took(provider)
        /\ UNCHANGED <<st, slot>>

ExtractNamed ==
  /\ Extracting("Named")
  /\ st' = [st EXCEPT !.ctxs = EnterNamed(@, Chain[k].name)]
  /\ Took(None)
  /\ UNCHANGED slot

\* Combinators that add a fact of the request (Vault, IsSecure, RemoteHost...)
\* or, like Host, nothing.
ExtractOther ==
  /\ \E c \in {"Info", "Host"} : Extracting(c)
  /\ Took(Chain[k].c)
  /\ UNCHANGED <<st, slot>>

ExtractDone ==
  /\ pc = "extract" /\ PastEnd
  /\ pc' = "handler"
  /\ UNCHANGED <<fixed, routing, calling, slot, ret, answer, ran, best>>

-----------------------------------------------------------------------------
Response(code, by, body) == [code |-> code, by |-> by, body |-> body]

(***************************************************************************)
(* The handler, then render or error_response: whatever an endpoint's or a *)
(* RawM handler answers is a Route.  A rendered body is emptied for HEAD.  *)
(***************************************************************************)
HandlerError == 409   \* the status of the handlers' own ServerErrors

\* Mutant: a handler's error is routed like any other.
RunHandlerFails ==
  /\ pc = "handler"
  /\ ran' = Append(ran, [leaf |-> call.leaf, args |-> args, tail |-> call.tail])
  /\ \/ /\ ret' = Route(Response(200, call.leaf.id,
                                 req.method # "HEAD" \/ IsRaw(call.leaf)))
        /\ UNCHANGED best
     \/ /\ call.leaf.kind # "raw"
        /\ ret' = Fail(LeafError(HandlerError))
        /\ best' = CombineFail(best, LeafError(HandlerError))
  /\ pc' = "return"
  /\ UNCHANGED <<fixed, routing, calling, slot, answer>>

RunHandler ==
  /\ pc = "handler"
  /\ ran' = Append(ran, [leaf |-> call.leaf, args |-> args, tail |-> call.tail])
  /\ \/ ret' = Route(Response(200, call.leaf.id,
                              req.method # "HEAD" \/ IsRaw(call.leaf)))
     \/ /\ call.leaf.kind # "raw"
        /\ ret' = Route(Response(HandlerError, call.leaf.id, TRUE))
  /\ pc' = "return"
  /\ UNCHANGED <<fixed, routing, calling, slot, answer, best>>

-----------------------------------------------------------------------------
(***************************************************************************)
(* A result comes back to the call on top of the stack.                    *)
(***************************************************************************)
Returning(f) == pc = "return" /\ stack # <<>> /\ Head(stack).f = f

\* Route and FailFatal go through Choice and run_choice_leaves unchanged.
ReturnThrough ==
  /\ pc = "return" /\ stack # <<>> /\ ret.tag # "Fail"
  /\ stack' = Tail(stack)
  /\ UNCHANGED <<fixed, pc, at, calling, slot, ret, answer, ran, best>>

\* Mutant: a fatal failure of the left lets the right try as well.
ReturnFromLeftRetriesFatal ==
  /\ Returning("left") /\ ret.tag # "Route"
  /\ stack' = <<[f |-> "right", err |-> ret.val]>> \o Tail(stack)
  /\ at' = Head(stack).then
  /\ ret' = None
  /\ pc' = "route"
  /\ UNCHANGED <<fixed, calling, slot, answer, ran, best>>

\* Choice, left failed: dispatch the right with the same arguments.
ReturnFromLeft ==
  /\ Returning("left") /\ ret.tag = "Fail"
  /\ stack' = <<[f |-> "right", err |-> ret.val]>> \o Tail(stack)
  /\ at' = Head(stack).then
  /\ ret' = None
  /\ pc' = "route"
  /\ UNCHANGED <<fixed, calling, slot, answer, ran, best>>

\* Mutant: the error of the right is reported.
ReturnFromRightForgetsLeft ==
  /\ Returning("right") /\ ret.tag = "Fail"
  /\ stack' = Tail(stack)
  /\ UNCHANGED <<fixed, pc, at, calling, slot, ret, answer, ran, best>>

\* Choice, both failed.
ReturnFromRight ==
  /\ Returning("right") /\ ret.tag = "Fail"
  /\ stack' = Tail(stack)
  /\ ret' = Fail(CombineFail(Head(stack).err, ret.val))
  /\ UNCHANGED <<fixed, pc, at, calling, slot, answer, ran, best>>

\* run_choice_leaves: remember the error and go on with the next leaf.
ReturnFromLeaf ==
  /\ Returning("leaves") /\ ret.tag = "Fail"
  /\ stack' = <<[Head(stack) EXCEPT !.err = CombineFail(@, ret.val)]>> \o Tail(stack)
  /\ ret' = None
  /\ pc' = "leaves"
  /\ UNCHANGED <<fixed, at, calling, slot, answer, ran, best>>

\* RouterService::handle turns what is left into the response.
Respond ==
  /\ pc = "return" /\ stack = <<>>
  /\ answer' = IF ret.tag = "Route" THEN ret.val
               ELSE Response(ret.val.code, ret.val.by, TRUE)
  /\ pc' = "done"
  /\ UNCHANGED <<fixed, routing, calling, slot, ret, ran, best>>

Done == pc = "done" /\ UNCHANGED vars

-----------------------------------------------------------------------------
RouteStep == RouteStaticHere \/ RouteStaticDeeper \/ RouteCapture
             \/ RouteCaptureAll \/ RouteRaw \/ RouteChoice \/ NextLeaf

CheckStep == CheckCaptures \/ CheckHost \/ CheckMethod \/ CheckAccept
             \/ CheckContentType

PreBodyStep == PreBodyAuth \/ PreBodyNamed \/ PreBodyOther \/ PreBodyDone

ExtractStep == ExtractCapture \/ ExtractCaptureAll \/ ExtractParam
               \/ ExtractReqBody \/ ExtractStreamBody \/ ExtractAuth
               \/ ExtractResource \/ ExtractNamed \/ ExtractOther \/ ExtractDone

ReturnStep == ReturnThrough \/ ReturnFromLeft \/ ReturnFromRight
              \/ ReturnFromLeaf \/ Respond

Step == RouteStep \/ CheckStep \/ PreBodyStep \/ BufferBody \/ ExtractStep
        \/ RunHandler \/ ReturnStep

Next == Step \/ Done

Spec == Init /\ [][Next]_vars

(***************************************************************************)
(* The future is polled until it is ready: the executor does not drop it,  *)
(* and the handlers and the client's body end.                             *)
(***************************************************************************)
FairSpec == Spec /\ WF_vars(Step)

-----------------------------------------------------------------------------
LeafIds == {leaf.id : leaf \in Leaves}
Errors == [code : ErrorCodes, by : LeafIds \cup {"router"}]

\* An Option<ServerError> is None or Some: not both.
ASSUME NoneIsNoError == None \notin Errors

Responses == [code : ErrorCodes \cup {200}, by : LeafIds \cup {"router"},
              body : BOOLEAN]
Results == [tag : {"Route"}, val : Responses]
           \cup [tag : {"Fail", "FailFatal"}, val : Errors]

Paths == Seq(Segments)
Positions == [node : Nodes, segs : Paths, caps : Paths, rest : {None} \cup Paths]

Frames ==
  [f : {"left"}, then : Positions]
  \cup [f : {"right"}, err : Errors]
  \cup [f : {"leaves"}, todo : Seq(Leaves), err : {None} \cup Errors,
        caps : Paths, rest : {None} \cup Paths]

Calls == [leaf : Leaves, caps : Paths, rest : {None} \cup Paths, tail : Paths]

RoutePhases == {"route", "leaves"}
CheckPhases == {"captures", "host", "method", "accept", "contentType", "preBody"}
CommittedPhases == {"body", "extract", "handler"}
CallPhases == CheckPhases \cup CommittedPhases

(***************************************************************************)
(* The shape of the state: what each phase of a request has to hand.       *)
(***************************************************************************)
TypeOK ==
  /\ api \in Apis /\ req \in Requests
  /\ pc \in RoutePhases \cup CallPhases \cup {"return", "done"}
  /\ at \in Positions
  /\ stack \in Seq(Frames)
  /\ call \in {None} \cup Calls
  /\ slot \in Slots
  /\ ret \in {None} \cup Results
  /\ answer \in {None} \cup Responses
  /\ best \in {None} \cup Errors
  /\ pc \in CallPhases => call \in Calls
  /\ pc = "leaves" => stack # <<>> /\ Head(stack).f = "leaves"
  /\ pc \in {"return", "done"} => ret \in Results

(***************************************************************************)
(* An alternative finds the body as it arrived: while the router looks for *)
(* a leaf, while a leaf may still decline, and whenever a Fail travels     *)
(* back to try a sibling, nobody has taken or buffered the body.  extract  *)
(* runs after the body was read and has Fail branches (captures.rs); they  *)
(* must never be taken.                                                    *)
(***************************************************************************)
BodyUntouchedUntilCommit ==
  \/ pc \in RoutePhases \cup CheckPhases
  \/ pc = "return" /\ ret.tag = "Fail"
  => slot = "Streaming"

(***************************************************************************)
(* One request runs one handler at most, and if a handler ran the answer   *)
(* is its own: a handler's error is a real response, and no sibling gets   *)
(* to answer after it.                                                     *)
(***************************************************************************)
OneHandlerAnswers ==
  /\ Len(ran) <= 1
  /\ ran # <<>> => /\ pc \in {"return", "done"}
                   /\ ret.tag = "Route"
                   /\ ret.val.by = ran[1].leaf.id

(***************************************************************************)
(* Once the body has been touched, or a handler has run, the request stays *)
(* with its leaf: no other leaf is ever called.                            *)
(***************************************************************************)
Committed == slot # "Streaming" \/ ran # <<>>
CommitIsFinal == [][Committed => call' = call]_vars

(***************************************************************************)
(* dispatch over nested choices, captures and leaf lists is the flat       *)
(* promise: alternatives in order, the first that does not decline         *)
(* settles the request, and otherwise the first error of highest priority. *)
(***************************************************************************)
Flat == INSTANCE Alternatives WITH
          consumed <- slot # "Streaming",
          verdict <- IF pc = "done" THEN ret ELSE None

FlatAlternatives == Flat!AltSpec

(***************************************************************************)
(* Every request is answered, whatever the tree: dispatch's recursion and  *)
(* its loops end once the body and the handlers do.                        *)
(***************************************************************************)
EveryRequestIsAnswered == <>(answer # None)
=============================================================================
