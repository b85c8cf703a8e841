------------------------------ MODULE LeafCall ------------------------------
(***************************************************************************)
(* What one leaf answers, from the leaf, the request and what the router   *)
(* captured for it alone: no phases, no ExtractState, no queues.  Dispatch *)
(* must run each call (EndpointLeaf::call in handler.rs, its ServerChain   *)
(* in extract/) to exactly this end.                                       *)
(***************************************************************************)
EXTENDS Dispatch

\* No status is the absent one.
ASSUME NoneIsNoCode == None \notin ErrorCodes

\* A chain is the list of an endpoint's combinators.
ASSUME ChainsAreSequences ==
  \A l \in Leaves : l.chain \in Seq({l.chain[i] : i \in DOMAIN l.chain})

-----------------------------------------------------------------------------
\* Why a leaf declines the request: the first reason, None if it does not.
DeclineCode(leaf, caps, rest, r) ==
  LET missing == MissingCaptures(leaf.chain, caps)
      failed == missing \cup BadCaptures(leaf.chain, caps, rest)
  IN IF ~IsRaw(leaf) /\ failed # {}
     THEN IF First(failed) \in missing THEN 404 ELSE 400
     ELSE IF ~HostMatches(leaf.chain, r) THEN 404
     ELSE IF IsRaw(leaf) THEN None
     ELSE IF ~MethodMatches(leaf, r) THEN 405
     ELSE IF ~Acceptable(leaf, r) THEN 406
     ELSE IF ~ContentTypeAcceptable(leaf.chain, r) THEN 415
     ELSE None

-----------------------------------------------------------------------------
\* The contexts a combinator sees: the base, and each named one around it.
Scope(chain, context) ==
  LET scope[i \in 0..Len(chain)] ==
        IF i = 0 THEN <<context>>
        ELSE IF chain[i].c = "Named" THEN EnterNamed(scope[i - 1], chain[i].name)
        ELSE scope[i - 1]
  IN scope

\* The check that guards combinator i, None if nobody configured it.
CheckAt(chain, context, i) ==
  LookupCtx(Scope(chain, context)[i], "auth", chain[i].usr)

ProviderAt(chain, context, i) ==
  LookupCtx(Scope(chain, context)[i], "resources", chain[i].res)

\* The authentications of a chain that do not accept the request.
AuthFailures(chain, r, context) ==
  {i \in DOMAIN chain : chain[i].c = "Auth" /\
     LET check == CheckAt(chain, context, i) IN
     check = None \/ r.creds \notin DOMAIN check}

\* Is there an earlier combinator of this kind?
Earlier(chain, c, i) == \E j \in 1..(i - 1) : chain[j].c = c

\* Why combinator i cannot have its argument, None if it can.
ArgumentCode(chain, r, context, i) ==
  LET mode == RequestBodyMode(chain)
      value == ParamValue(chain[i], r)
      c == chain[i].c
  IN IF c \in ParamCombinators
     THEN IF value = None
          THEN IF MayBeAbsent(chain[i]) THEN None ELSE 400
          ELSE IF Parses(chain[i], value) THEN None ELSE 400
     ELSE IF c = "Resource"
     THEN IF ProviderAt(chain, context, i) = None THEN 500 ELSE None
     ELSE IF c = "StreamBody"
     THEN IF mode = "Buffered" \/ Earlier(chain, "StreamBody", i) THEN 500 ELSE None
     ELSE IF c = "ReqBody"
     THEN IF mode = "Streaming" THEN 500
          ELSE IF r.ctype \notin chain[i].types THEN 415
          ELSE IF r.body \notin chain[i].ok THEN 400 ELSE None
     ELSE None

(***************************************************************************)
(* Why a leaf that does not decline the request fails it for good, None if *)
(* its handler runs: first authentication, then the body, then the         *)
(* arguments in combinator order.                                          *)
(***************************************************************************)
FatalCode(leaf, r, context) ==
  LET chain == leaf.chain
      unauthorized == IF IsRaw(leaf) THEN {} ELSE AuthFailures(chain, r, context)
      refused == IF IsRaw(leaf) THEN {}
                 ELSE {i \in DOMAIN chain : ArgumentCode(chain, r, context, i) # None}
      buffers == IsRaw(leaf) \/ RequestBodyMode(chain) = "Buffered"
  IN IF unauthorized # {}
     THEN IF CheckAt(chain, context, First(unauthorized)) = None THEN 500
          ELSE chain[First(unauthorized)].denied
     ELSE IF buffers /\ BufferError(r) # None THEN BufferError(r)
     ELSE IF refused # {} THEN ArgumentCode(chain, r, context, First(refused))
     ELSE None

\* What combinator i contributes to the handler's arguments.
Argument(chain, caps, rest, r, context, i) ==
  LET c == chain[i].c IN
  IF c = "Capture" THEN caps[CaptureIndex(chain, i)]
  ELSE IF c = "CaptureAll"
  THEN IF rest = None \/ Earlier(chain, "CaptureAll", i) THEN <<>> ELSE rest
  ELSE IF c \in ParamCombinators THEN ParamValue(chain[i], r)
  ELSE IF c = "ReqBody" THEN r.body
  ELSE IF c = "StreamBody" THEN "stream"
  ELSE IF c = "Auth" THEN CheckAt(chain, context, i)[r.creds]
  ELSE IF c = "Resource" THEN ProviderAt(chain, context, i)
  ELSE IF c = "Named" THEN None
  ELSE c

-----------------------------------------------------------------------------
(***************************************************************************)
(* No body byte is read, no resource allocated and no handler run for an   *)
(* endpoint before every authentication of its chain, wherever in it, has  *)
(* accepted the request.                                                   *)
(***************************************************************************)
AuthPrecedesEverything ==
  pc \in CommittedPhases /\ ~IsRaw(call.leaf) =>
    AuthFailures(Chain, req, api.context) = {}

(***************************************************************************)
(* A handler gets at each position what the combinator there stands for    *)
(* (cons_tail, extract/): its own segment of those the router captured,    *)
(* the user its own check let in, in its own named context, although the   *)
(* captures and the users are consumed from queues.                        *)
(***************************************************************************)
ArgumentsOfTheCall ==
  ran # <<>> /\ ~IsRaw(ran[1].leaf) =>
    /\ call.leaf = ran[1].leaf
    /\ Len(ran[1].args) = Len(Chain)
    /\ \A i \in DOMAIN Chain :
         ran[1].args[i] = Argument(Chain, call.caps, call.rest, req, api.context, i)

(***************************************************************************)
(* A leaf declines with the first phase that refuses the request; one that *)
(* does not settles it, with the error of its first refusing check, body   *)
(* or argument, or with its handler (EndpointLeaf::call).                  *)
(***************************************************************************)
Outcome(result) ==
  LET decline == DeclineCode(call.leaf, call.caps, call.rest, req)
      fatal == FatalCode(call.leaf, req, api.context)
  IN IF decline # None THEN result = Fail(LeafError(decline))
     ELSE IF fatal # None THEN result = FailFatal(LeafError(fatal))
     ELSE result.tag = "Route"

LeafAnswersAsSpecified ==
  [][(pc \in CallPhases /\ pc' = "return") => Outcome(ret')]_vars
=============================================================================
