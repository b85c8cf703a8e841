--------------------------- MODULE Dispatch_proofs ---------------------------
(***************************************************************************)
(* Dispatch's safety, and what each of its leaf calls answers, for every   *)
(* set of APIs, requests and routers that satisfies its assumptions,       *)
(* whatever their depth.                                                   *)
(*                                                                         *)
(* The hard part of the first is that extract has recoverable branches     *)
(* (captures.rs), which after a buffered body would give a sibling a       *)
(* request without its body.  CapturesHold is the strengthening that       *)
(* closes them: the captures were validated before the body, and extract   *)
(* consumes exactly the captures that were validated for it.               *)
(***************************************************************************)
EXTENDS LeafCall, Lemmas

\* take_for_buffering (body.rs:91-102) empties a Streaming slot and no other.
LEMMA TakeForBufferingCases ==
  ASSUME NEW s \in Slots
  PROVE  \/ /\ s = "Streaming"
            /\ TakeForBuffering(s).slot = "Taken" /\ TakeForBuffering(s).got = "body"
         \/ /\ s = "Buffered"
            /\ TakeForBuffering(s).slot = s /\ TakeForBuffering(s).got = "buffered"
         \/ /\ s = "Taken"
            /\ TakeForBuffering(s).slot = s /\ TakeForBuffering(s).got = "error"
BY DEF Slots, TakeForBuffering

\* take_stream (body.rs:65-78) does too, but refuses a buffered body.
LEMMA TakeStreamCases ==
  ASSUME NEW s \in Slots
  PROVE  \/ /\ s = "Streaming"
            /\ TakeStream(s).slot = "Taken" /\ TakeStream(s).got = "body"
         \/ /\ s \in {"Buffered", "Taken"}
            /\ TakeStream(s).slot = s /\ TakeStream(s).got = "error"
BY DEF Slots, TakeStream

\* How many combinators of a kind a chain has up to i.
Index(chain, c, i) == Cardinality({j \in 1..i : chain[j].c = c})

\* A count of combinators grows by one at those it counts and stays elsewhere.
LEMMA IndexStep ==
  ASSUME NEW chain, NEW c, NEW i \in Nat \ {0}
  PROVE  /\ Index(chain, c, 0) = 0
         /\ Index(chain, c, i - 1) \in Nat
         /\ chain[i].c = c => Index(chain, c, i) = Index(chain, c, i - 1) + 1
         /\ chain[i].c # c => Index(chain, c, i) = Index(chain, c, i - 1)
<1>. DEFINE S(n) == {j \in 1..n : chain[j].c = c}
<1>1. S(0) = {}
  OBVIOUS
<1>2. IsFiniteSet(S(i - 1))
  <2>1. IsFiniteSet(1..(i - 1))
    BY FS_Interval
  <2>. QED
    BY <2>1, FS_Subset
<1>3. i \notin S(i - 1)
  OBVIOUS
<1>4. chain[i].c = c => S(i) = S(i - 1) \cup {i}
  OBVIOUS
<1>5. chain[i].c # c => S(i) = S(i - 1)
  OBVIOUS
<1>6. Cardinality(S(i - 1)) \in Nat
  BY <1>2, FS_CardinalityType
<1>7. chain[i].c = c => Cardinality(S(i)) = Cardinality(S(i - 1)) + 1
  BY <1>2, <1>3, <1>4, FS_AddElement
<1>8. Cardinality(S(0)) = 0
  BY <1>1, FS_EmptySet
<1>. QED
  BY <1>5, <1>6, <1>7, <1>8 DEF Index

\* idx grows by one at a Capture and stays elsewhere (captures.rs:26-30).
LEMMA CaptureIndexStep ==
  ASSUME NEW chain, NEW i \in Nat \ {0}
  PROVE  /\ CaptureIndex(chain, 0) = 0
         /\ CaptureIndex(chain, i - 1) \in Nat
         /\ chain[i].c = "Capture" =>
              CaptureIndex(chain, i) = CaptureIndex(chain, i - 1) + 1
         /\ chain[i].c # "Capture" =>
              CaptureIndex(chain, i) = CaptureIndex(chain, i - 1)
<1>1. \A n : CaptureIndex(chain, n) = Index(chain, "Capture", n)
  BY DEF CaptureIndex, Index
<1>. QED
  BY <1>1, IndexStep

\* What a queue filled with the rest of a sequence from i on hands out.
LEMMA RestOfSequence ==
  ASSUME NEW S, NEW q \in Seq(S), NEW i \in 1..Len(q)
  PROVE  /\ SubSeq(q, i, Len(q)) # <<>>
         /\ Head(SubSeq(q, i, Len(q))) = q[i]
         /\ Tail(SubSeq(q, i, Len(q))) = SubSeq(q, i + 1, Len(q))
<1>1. /\ Len(q) \in Nat
      /\ SubSeq(q, i, Len(q)) \in Seq(S)
      /\ Len(SubSeq(q, i, Len(q))) = Len(q) - i + 1
      /\ \A n \in 1..(Len(q) - i + 1) : SubSeq(q, i, Len(q))[n] = q[n + i - 1]
  OBVIOUS
<1>2. SubSeq(q, i, Len(q)) # <<>> /\ Head(SubSeq(q, i, Len(q))) = q[i]
  <2>. DEFINE s == SubSeq(q, i, Len(q))
  <2>1. Len(s) > 0 /\ s[1] = q[i] /\ s \in Seq(S)
    BY <1>1
  <2>. HIDE DEF s
  <2>2. s # <<>> /\ Head(s) = s[1]
    BY <2>1
  <2>. QED
    BY <2>1, <2>2 DEF s
<1>3. Tail(SubSeq(q, i, Len(q))) = SubSeq(q, i + 1, Len(q))
  OBVIOUS
<1>. QED
  BY <1>2, <1>3

\* The status codes of the combinators' errors are among ErrorCodes.
LEMMA LeafErrors ==
  ASSUME call \in Calls, NEW code \in ErrorCodes
  PROVE  LeafError(code) \in Errors
<1>1. call.leaf \in Leaves
  BY DEF Calls
<1>. QED
  BY <1>1 DEF LeafError, Error, Errors, LeafIds

(***************************************************************************)
(* What a step of a leaf call amounts to, whatever the combinator: it goes *)
(* on, it declines with the body untouched, or it settles the request.     *)
(***************************************************************************)
GoesOn(phases) == pc' \in phases /\ UNCHANGED <<ret, best>>
Declines == \E err \in Errors : ReturnFail(err) /\ UNCHANGED slot
Settles == \E err \in Errors : ReturnFatal(err)

CallSummary ==
  /\ UNCHANGED <<fixed, routing, call, answer, ran>>
  /\ slot' \in Slots
  /\ slot' = slot \/ slot' # "Streaming"
  /\ \/ pc \in CheckPhases /\ UNCHANGED slot /\ GoesOn(CallPhases)
     \/ pc \in CheckPhases /\ Declines
     \/ pc \in CommittedPhases /\ GoesOn(CommittedPhases)
     \/ pc \in CallPhases /\ Settles

-----------------------------------------------------------------------------
(***************************************************************************)
(* The strengthening: once a leaf has passed its first phase its captures  *)
(* parse, and the ExtractState still has the captures of the combinators   *)
(* from k on, and no others.                                               *)
(***************************************************************************)
CapturesParse ==
  /\ MissingCaptures(Chain, call.caps) = {}
  /\ BadCaptures(Chain, call.caps, call.rest) = {}

CapturesLeft(n) == SubSeq(call.caps, CaptureIndex(Chain, n - 1) + 1, Len(call.caps))

Extractable ==
  /\ k \in Nat \ {0}
  /\ DOMAIN st = {"caps", "rest", "ctxs", "users"}
  /\ st.rest \in {None, call.rest}

CapturesHold ==
  pc \in CallPhases =>
    /\ IsRaw(call.leaf) => pc \in {"host", "body", "handler"}
    /\ ~IsRaw(call.leaf) /\ pc # "captures" => CapturesParse
    /\ pc = "preBody" => Extractable /\ st.caps = call.caps
    /\ pc \in {"body", "extract"} /\ ~IsRaw(call.leaf) =>
         Extractable /\ st.caps = CapturesLeft(k)

\* A Capture finds its own capture at the head of the queue, and it parses.
LEMMA CaptureFound ==
  ASSUME call \in Calls, CapturesParse, Extractable, st.caps = CapturesLeft(k),
         Here("Capture")
  PROVE  /\ st.caps # <<>>
         /\ Head(st.caps) \in Chain[k].ok
         /\ Tail(st.caps) = CapturesLeft(k + 1)
<1>. DEFINE i == CaptureIndex(Chain, k)
<1>1. call.caps \in Seq(Segments) /\ Len(call.caps) \in Nat
  BY DEF Calls, Paths
<1>2. i \in Nat \ {0} /\ i = CaptureIndex(Chain, k - 1) + 1
  BY CaptureIndexStep DEF Extractable, Here
<1>3. i <= Len(call.caps)
  BY <1>1, <1>2 DEF CapturesParse, MissingCaptures, Here
<1>4. call.caps[i] \in Chain[k].ok
  BY DEF CapturesParse, MissingCaptures, BadCaptures, Here
<1>5. (k + 1) - 1 = k
  BY DEF Extractable
<1>. HIDE DEF i
<1>6. st.caps = SubSeq(call.caps, i, Len(call.caps))
  BY <1>2 DEF CapturesLeft
<1>7. CapturesLeft(k + 1) = SubSeq(call.caps, i + 1, Len(call.caps))
  BY <1>5 DEF CapturesLeft, i
<1>8. i \in 1..Len(call.caps)
  BY <1>1, <1>2, <1>3
<1>. QED
  BY <1>1, <1>4, <1>6, <1>7, <1>8, RestOfSequence

\* A CaptureAll's segments parse, whether or not another one took them first.
LEMMA CaptureAllParses ==
  ASSUME CapturesParse, Extractable, Here("CaptureAll"), st.rest # None
  PROVE  \A n \in DOMAIN st.rest : st.rest[n] \in Chain[k].ok
BY DEF CapturesParse, MissingCaptures, BadCaptures, Extractable, Here

CallInv == TypeOK /\ CapturesHold

CallStep == CheckStep \/ PreBodyStep \/ BufferBody \/ ExtractStep

LEMMA CallSteps == CallInv /\ CallStep => CallSummary
<1>. SUFFICES ASSUME CallInv, CallStep PROVE CallSummary
  OBVIOUS
<1>t. slot \in Slots /\ (pc \in CallPhases => call \in Calls)
  BY DEF CallInv, TypeOK
<1>e. \A code \in ErrorCodes : pc \in CallPhases => LeafError(code) \in Errors
  BY <1>t, LeafErrors
<1>p. ASSUME NEW here \in CheckPhases, NEW ok, NEW code \in ErrorCodes,
             NEW next \in CallPhases, Phase(here, ok, code, next)
      PROVE  CallSummary
  BY <1>t, <1>e, <1>p DEF Phase, CallSummary, GoesOn, Declines, CallPhases, routing, fixed
<1>1. CASE CheckCaptures
  BY <1>1, <1>p DEF CheckCaptures, CheckPhases, CallPhases, ErrorCodes
<1>2. CASE CheckHost
  BY <1>2, <1>p DEF CheckHost, CheckPhases, CommittedPhases, CallPhases, ErrorCodes
<1>3. CASE CheckMethod \/ CheckAccept \/ CheckContentType
  BY <1>3, <1>p DEF CheckMethod, CheckAccept, CheckContentType, CheckPhases, CallPhases,
                    ErrorCodes
<1>4. CASE PreBodyAuth
  <2>1. pc \in CheckPhases /\ pc \in CallPhases
    BY <1>4 DEF PreBodyAuth, CheckPhases, CallPhases
  <2>2. call.leaf \in Leaves
    BY <2>1, <1>t DEF Calls
  <2>3. Chain[k].denied \in ErrorCodes
    BY <1>4, <2>2, DenialsAreErrors DEF PreBodyAuth, Here, Chain
  <2>4. 500 \in ErrorCodes
    BY DEF ErrorCodes
  <2>. QED
    BY <1>4, <1>t, <1>e, <2>1, <2>3, <2>4
       DEF PreBodyAuth, CallSummary, GoesOn, Settles, routing, fixed
<1>5. CASE PreBodyNamed \/ PreBodyOther
  BY <1>5, <1>t DEF PreBodyNamed, PreBodyOther, CallSummary, GoesOn, CheckPhases,
                    CallPhases, routing, fixed
<1>6. CASE PreBodyDone
  BY <1>6, <1>t DEF PreBodyDone, CallSummary, GoesOn, CheckPhases, CallPhases,
                    CommittedPhases, routing, fixed
<1>7. CASE BufferBody
  <2>1. pc \in CommittedPhases /\ pc \in CallPhases
    BY <1>7 DEF BufferBody, CommittedPhases, CallPhases
  <2>. DEFINE took == TakeForBuffering(slot)
              code == CASE took.got = "body" -> BufferError(req)
                        [] took.got = "buffered" -> None
                        [] took.got = "error" -> 500
  <2>2. took.slot \in Slots \ {"Streaming"} /\ code \in ErrorCodes \cup {None}
    BY <1>t, TakeForBufferingCases DEF ErrorCodes, BufferError, Slots
  <2>3. /\ UNCHANGED <<fixed, routing, call, answer, ran>>
        /\ \/ slot' = "Buffered" /\ GoesOn({"handler", "extract"})
           \/ code # None /\ slot' = took.slot /\ ReturnFatal(LeafError(code))
    BY <1>7 DEF BufferBody, GoesOn, calling, routing, fixed
  <2>. HIDE DEF took, code
  <2>. QED
    BY <2>1, <2>2, <2>3, <1>e
       DEF CallSummary, GoesOn, Settles, CommittedPhases, Slots
<1>8. CASE ExtractStep
  <2>. DEFINE frame == UNCHANGED <<fixed, routing, call, answer, ran>>
  <2>1. pc = "extract" /\ pc \in CommittedPhases /\ pc \in CallPhases
    BY <1>8 DEF ExtractStep, ExtractCapture, ExtractCaptureAll, ExtractParam,
                ExtractReqBody, ExtractStreamBody, ExtractAuth, ExtractResource,
                ExtractNamed, ExtractOther, ExtractDone, Extracting,
                CommittedPhases, CallPhases
  <2>2. ASSUME frame, slot' \in Slots, slot' = slot \/ slot' # "Streaming",
               GoesOn(CommittedPhases) \/ \E code \in ErrorCodes : ReturnFatal(LeafError(code))
        PROVE  CallSummary
    BY <2>1, <2>2, <1>e DEF CallSummary, Settles
  <2>3. CapturesParse /\ Extractable /\ st.caps = CapturesLeft(k) /\ call \in Calls
    BY <2>1, <1>t DEF CallInv, CapturesHold
  <2>4. {400, 415, 500} \subseteq ErrorCodes
    BY DEF ErrorCodes
  <2>5. ASSUME Here("Auth") PROVE Chain[k].denied \in ErrorCodes
    BY <2>3, <2>5, DenialsAreErrors DEF Here, Chain, Calls
  <2>6. ASSUME NEW arg, Took(arg) PROVE GoesOn(CommittedPhases)
    BY <2>1, <2>6 DEF Took, GoesOn
  <2>7. CASE ExtractCapture
    <3>1. frame /\ slot' = slot /\ \E arg : Took(arg)
      BY <2>3, <2>7, CaptureFound DEF ExtractCapture, Extracting
    <3>. QED
      BY <1>t, <2>2, <2>6, <3>1
  <2>8. CASE ExtractCaptureAll
    <3>1. frame /\ slot' = slot /\ \E arg : Took(arg)
      BY <2>3, <2>8, CaptureAllParses DEF ExtractCaptureAll, Extracting, Refused
    <3>. QED
      BY <1>t, <2>2, <2>6, <3>1
  <2>9. CASE ExtractParam
    <3>1. frame /\ slot' = slot
      BY <2>9 DEF ExtractParam, Extracting, Refused
    <3>2. (\E arg : Took(arg)) \/ ReturnFatal(LeafError(400))
      BY <2>9 DEF ExtractParam
    <3>. QED
      BY <1>t, <2>2, <2>4, <2>6, <3>1, <3>2
  <2>10. CASE ExtractReqBody
    <3>1. frame /\ slot' = slot
      BY <2>10 DEF ExtractReqBody, Extracting, Refused
    <3>2. \/ \E arg : Took(arg)
          \/ \E code \in {400, 415, 500} : ReturnFatal(LeafError(code))
      BY <2>10 DEF ExtractReqBody
    <3>. QED
      BY <1>t, <2>2, <2>4, <2>6, <3>1, <3>2
  <2>11. CASE ExtractStreamBody
    <3>1. frame /\ slot' \in Slots /\ slot' # "Streaming"
      BY <2>11, <1>t, TakeStreamCases DEF ExtractStreamBody, Extracting, Slots
    <3>2. (\E arg : Took(arg)) \/ ReturnFatal(LeafError(500))
      BY <2>11 DEF ExtractStreamBody
    <3>. QED
      BY <2>2, <2>4, <2>6, <3>1, <3>2
  <2>12. CASE ExtractAuth
    <3>1. frame /\ slot' = slot
      BY <2>12, SMTT(40) DEF ExtractAuth, Extracting
    <3>2. \/ \E arg : Took(arg)
          \/ ReturnFatal(LeafError(500))
          \/ Here("Auth") /\ ReturnFatal(LeafError(Chain[k].denied))
      BY <2>12 DEF ExtractAuth, Extracting
    <3>. QED
      BY <1>t, <2>2, <2>4, <2>5, <2>6, <3>1, <3>2, SMTT(40)
  <2>13. CASE ExtractResource
    <3>1. frame /\ slot' = slot
      BY <2>13 DEF ExtractResource, Extracting, Refused
    <3>2. (\E arg : Took(arg)) \/ ReturnFatal(LeafError(500))
      BY <2>13 DEF ExtractResource
    <3>. QED
      BY <1>t, <2>2, <2>4, <2>6, <3>1, <3>2
  <2>14. CASE ExtractNamed \/ ExtractOther
    <3>1. frame /\ slot' = slot /\ \E arg : Took(arg)
      BY <2>14 DEF ExtractNamed, ExtractOther, Extracting
    <3>. QED
      BY <1>t, <2>2, <2>6, <3>1
  <2>15. CASE ExtractDone
    BY <1>t, <2>2, <2>15 DEF ExtractDone, GoesOn, CommittedPhases, calling, routing, fixed
  <2>. QED
    BY <1>8, <2>7, <2>8, <2>9, <2>10, <2>11, <2>12, <2>13, <2>14, <2>15 DEF ExtractStep
<1>. QED
  BY <1>1, <1>2, <1>3, <1>4, <1>5, <1>6, <1>7, <1>8 DEF CallStep, CheckStep, PreBodyStep

-----------------------------------------------------------------------------
(***************************************************************************)
(* Types.                                                                  *)
(***************************************************************************)
\* combine_fail returns one of the two errors it is given.
LEMMA CombineFailType ==
  ASSUME NEW b \in {None} \cup Errors, NEW e \in Errors
  PROVE  CombineFail(b, e) \in Errors
BY DEF CombineFail

LEMMA FailType ==
  ASSUME best \in {None} \cup Errors, NEW e \in Errors
  PROVE  /\ ReturnFail(e) => /\ pc' = "return" /\ ret' \in Results
                             /\ ret'.tag = "Fail" /\ best' \in Errors
         /\ ReturnFatal(e) => /\ pc' = "return" /\ ret' \in Results
                              /\ ret'.tag = "FailFatal" /\ best' = best
BY CombineFailType DEF ReturnFail, ReturnFatal, Fail, FailFatal, Results

LEMMA CallType ==
  ASSUME TypeOK, CallSummary
  PROVE  TypeOK'
<1>. USE DEF TypeOK
<1>1. /\ UNCHANGED <<api, req, at, stack, call, answer>>
      /\ slot' \in Slots
      /\ pc \in CallPhases
  BY DEF CallSummary, fixed, routing, CallPhases
<1>2. \/ pc' \in CallPhases /\ ret' = ret /\ best' = best
      \/ pc' = "return" /\ ret' \in Results /\ best' \in {None} \cup Errors
  BY FailType DEF CallSummary, GoesOn, Declines, Settles, CallPhases
<1>3. \A p \in CallPhases : p \notin {"leaves", "return", "done"}
  BY DEF CallPhases, CheckPhases, CommittedPhases
<1>. QED
  BY <1>1, <1>2, <1>3

NotFoundFacts == NotFound \in Errors

LEMMA NotFoundType == NotFoundFacts
BY DEF NotFoundFacts, NotFound, Error, Errors, ErrorCodes

\* What the frames of the stack have, by kind.
LEMMA FrameKinds ==
  ASSUME NEW fr \in Frames
  PROVE  /\ fr.f \in {"left", "right", "leaves"}
         /\ fr.f = "left" => fr.then \in Positions
         /\ fr.f = "right" => fr.err \in Errors
         /\ fr.f = "leaves" => /\ fr.todo \in Seq(Leaves)
                               /\ fr.err \in {None} \cup Errors
                               /\ fr.caps \in Paths
                               /\ fr.rest \in {None} \cup Paths
                               /\ fr = [f |-> "leaves", todo |-> fr.todo, err |-> fr.err,
                                        caps |-> fr.caps, rest |-> fr.rest]
BY DEF Frames

\* A frame of run_choice_leaves, and what updating it makes of it.
LEMMA LeavesFrame ==
  ASSUME NEW fr \in Frames, fr.f = "leaves",
         NEW todo \in Seq(Leaves), NEW err \in {None} \cup Errors
  PROVE  /\ [fr EXCEPT !.todo = todo] \in Frames
         /\ [fr EXCEPT !.todo = todo].f = "leaves"
         /\ [fr EXCEPT !.todo = todo].err = fr.err
         /\ [fr EXCEPT !.err = err] \in Frames
         /\ [fr EXCEPT !.err = err].f = "leaves"
         /\ [fr EXCEPT !.err = err].err = err
<1>1. PICK td \in Seq(Leaves), er \in {None} \cup Errors, caps \in Paths,
           rest \in {None} \cup Paths :
        fr = [f |-> "leaves", todo |-> td, err |-> er, caps |-> caps, rest |-> rest]
  BY FrameKinds
<1>2. /\ [fr EXCEPT !.todo = todo] = [f |-> "leaves", todo |-> todo, err |-> er,
                                      caps |-> caps, rest |-> rest]
      /\ [fr EXCEPT !.err = err] = [f |-> "leaves", todo |-> td, err |-> err,
                                    caps |-> caps, rest |-> rest]
  BY <1>1
<1>. QED
  BY <1>1, <1>2 DEF Frames

LEMMA StackTypes ==
  ASSUME NEW s \in Seq(Frames)
  PROVE  /\ s # <<>> => Head(s) \in Frames /\ Tail(s) \in Seq(Frames)
         /\ \A fr \in Frames : /\ <<fr>> \o s \in Seq(Frames)
                                /\ <<fr>> \o s # <<>>
                                /\ Head(<<fr>> \o s) = fr
                                /\ Tail(<<fr>> \o s) = s
<1>1. s # <<>> => Head(s) \in Frames /\ Tail(s) \in Seq(Frames)
  OBVIOUS
<1>2. ASSUME NEW fr \in Frames
      PROVE  /\ <<fr>> \o s \in Seq(Frames) /\ <<fr>> \o s # <<>>
             /\ Head(<<fr>> \o s) = fr /\ Tail(<<fr>> \o s) = s
  OBVIOUS
<1>. QED
  BY <1>1, <1>2

\* A step of the router to another position, or to a call.
LEMMA RouteStepType ==
  ASSUME TypeOK, RouteStep
  PROVE  TypeOK'
<1>t. /\ at.node \in Nodes /\ at.segs \in Seq(Segments) /\ at.caps \in Seq(Segments)
      /\ at.rest \in {None} \cup Seq(Segments)
      /\ at = [node |-> at.node, segs |-> at.segs, caps |-> at.caps, rest |-> at.rest]
      /\ best \in {None} \cup Errors
      /\ stack \in Seq(Frames)
  BY DEF TypeOK, Positions, Paths
\* The four ways a step of the router ends.
<1>a. ASSUME UNCHANGED <<fixed, slot, answer>>,
             at' \in Positions, stack' \in Seq(Frames),
             \/ pc' = "route" /\ UNCHANGED <<call, ret, best>>
             \/ /\ pc' = "leaves" /\ UNCHANGED <<call, ret, best>>
                /\ stack' # <<>> /\ Head(stack').f = "leaves"
             \/ pc' \in CallPhases /\ call' \in Calls /\ UNCHANGED <<ret, best>>
             \/ (\E err \in Errors : ReturnFail(err)) /\ UNCHANGED call
      PROVE  TypeOK'
  <2>1. \A p \in CallPhases : p \notin {"leaves", "return", "done"}
    BY DEF CallPhases, CheckPhases, CommittedPhases
  <2>2. "route" \in RoutePhases /\ "leaves" \in RoutePhases
    BY DEF RoutePhases
  <2>3. "route" \notin CallPhases /\ "leaves" \notin CallPhases /\ "return" \notin CallPhases
    BY DEF CallPhases, CheckPhases, CommittedPhases
  <2>4. ASSUME NEW err \in Errors, ReturnFail(err)
        PROVE  pc' = "return" /\ ret' \in Results /\ best' \in Errors
    BY <1>t, <2>4, FailType
  <2>. QED
    BY <1>a, <2>1, <2>2, <2>3, <2>4 DEF TypeOK, fixed
<1>n. \A segs \in Seq(Segments) :
        /\ segs # <<>> => Head(segs) \in Segments /\ Tail(segs) \in Seq(Segments)
        /\ \A x \in Segments : Append(segs, x) \in Seq(Segments)
        /\ <<>> \in Seq(Segments)
  OBVIOUS
<1>p. \A n \in Nodes, segs, caps \in Seq(Segments), rest \in {None} \cup Seq(Segments) :
        [node |-> n, segs |-> segs, caps |-> caps, rest |-> rest] \in Positions
  BY DEF Positions, Paths
<1>e. ~IsEmptyPath(at.segs) => at.segs # <<>>
  BY DEF IsEmptyPath
<1>c. ASSUME NEW leaf \in Leaves, NEW caps \in Seq(Segments),
             NEW rest \in {None} \cup Seq(Segments), NEW tail \in Seq(Segments),
             BeginCall(leaf, caps, rest, tail)
      PROVE  pc' \in CallPhases /\ call' \in Calls
  BY <1>c DEF BeginCall, Calls, Paths, CallPhases, CheckPhases
<1>1. CASE RouteStaticHere
  <2>. DEFINE fr == [f |-> "leaves", todo |-> at.node.leaves, err |-> None,
                     caps |-> at.caps, rest |-> at.rest]
  <2>1. fr \in Frames /\ fr.f = "leaves"
    BY <1>t, <1>1, NodesAreClosed DEF RouteStaticHere, Frames, Paths
  <2>2. /\ stack' = <<fr>> \o stack /\ pc' = "leaves"
        /\ UNCHANGED <<fixed, slot, answer, at, call, ret, best>>
    BY <1>1 DEF RouteStaticHere, calling
  <2>. HIDE DEF fr
  <2>. QED
    BY <1>a, <1>t, <2>1, <2>2, StackTypes DEF TypeOK
<1>2. CASE RouteStaticDeeper
  <2>1. /\ UNCHANGED <<fixed, slot, answer, stack, call>>
        /\ pc = "route" /\ at.node.t = "Static" /\ at.segs # <<>>
    BY <1>2, <1>e DEF RouteStaticDeeper, calling
  <2>2. CASE Head(at.segs) \in DOMAIN at.node.map
    <3>1. /\ at' = [node |-> at.node.map[Head(at.segs)], segs |-> Tail(at.segs),
                    caps |-> at.caps, rest |-> at.rest]
          /\ UNCHANGED <<pc, ret, best>>
      BY <1>2, <1>t, <2>2 DEF RouteStaticDeeper
    <3>2. at.node.map[Head(at.segs)] \in Nodes
      BY <1>t, <2>1, <2>2, NodesAreClosed
    <3>. QED
      BY <1>a, <1>n, <1>p, <1>t, <2>1, <3>1, <3>2
  <2>3. CASE Head(at.segs) \notin DOMAIN at.node.map
    <3>1. ReturnFail(NotFound) /\ UNCHANGED at
      BY <1>2, <2>3 DEF RouteStaticDeeper
    <3>. QED
      BY <1>a, <1>t, <2>1, <3>1, NotFoundType DEF NotFoundFacts, TypeOK
  <2>. QED
    BY <2>2, <2>3
<1>3. CASE RouteCapture
  <2>1. /\ UNCHANGED <<fixed, slot, answer, stack, call>>
        /\ pc = "route" /\ at.node.t = "Capture"
    BY <1>3 DEF RouteCapture, calling
  <2>2. CASE IsEmptyPath(at.segs)
    <3>1. ReturnFail(NotFound) /\ UNCHANGED at
      BY <1>3, <2>2 DEF RouteCapture
    <3>. QED
      BY <1>a, <1>t, <2>1, <3>1, NotFoundType DEF NotFoundFacts, TypeOK
  <2>3. CASE ~IsEmptyPath(at.segs)
    <3>1. /\ at' = [node |-> at.node.inner, segs |-> Tail(at.segs),
                    caps |-> Append(at.caps, Head(at.segs)), rest |-> at.rest]
          /\ UNCHANGED <<pc, ret, best>>
      BY <1>3, <1>t, <2>3 DEF RouteCapture
    <3>2. at.node.inner \in Nodes
      BY <1>t, <2>1, NodesAreClosed
    <3>3. /\ Tail(at.segs) \in Seq(Segments)
          /\ Append(at.caps, Head(at.segs)) \in Seq(Segments)
      BY <1>t, <1>e, <1>n, <2>3
    <3>. QED
      BY <1>a, <1>p, <1>t, <2>1, <3>1, <3>2, <3>3
  <2>. QED
    BY <2>2, <2>3
<1>4. CASE RouteCaptureAll
  <2>1. /\ UNCHANGED <<fixed, slot, answer, stack, call, pc, ret, best>>
        /\ pc = "route" /\ at.node.t = "CaptureAll"
        /\ at' = [node |-> at.node.inner, segs |-> <<>>, caps |-> at.caps,
                  rest |-> DropLeadingEmpty(at.segs)]
    BY <1>4, <1>t DEF RouteCaptureAll, calling
  <2>2. at.node.inner \in Nodes
    BY <1>t, <2>1, NodesAreClosed
  <2>3. DropLeadingEmpty(at.segs) \in Seq(Segments)
    BY <1>t, <1>n DEF DropLeadingEmpty
  <2>. QED
    BY <1>a, <1>n, <1>p, <1>t, <2>1, <2>2, <2>3
<1>5. CASE RouteRaw
  <2>1. /\ UNCHANGED <<fixed, slot, answer, at, stack, ret, best>>
        /\ pc = "route" /\ at.node.t = "Raw"
        /\ BeginCall(at.node.leaf, at.caps, at.rest,
                     IF IsEmptyPath(at.segs) THEN <<>> ELSE at.segs)
    BY <1>5 DEF RouteRaw, routing
  <2>2. at.node.leaf \in Leaves
    BY <1>t, <2>1, NodesAreClosed
  <2>. QED
    BY <1>a, <1>c, <1>n, <1>t, <2>1, <2>2 DEF TypeOK
<1>6. CASE RouteChoice
  <2>. DEFINE fr == [f |-> "left", then |-> [at EXCEPT !.node = at.node.right]]
  <2>1. /\ stack' = <<fr>> \o stack
        /\ at' = [at EXCEPT !.node = at.node.left]
        /\ pc = "route" /\ at.node.t = "Choice"
        /\ UNCHANGED <<fixed, slot, answer, pc, call, ret, best>>
    BY <1>6 DEF RouteChoice, calling
  <2>2. at.node.left \in Nodes /\ at.node.right \in Nodes
    BY <1>t, <2>1, NodesAreClosed
  <2>3. fr \in Frames /\ at' \in Positions
    BY <1>t, <2>1, <2>2 DEF Frames, Positions, Paths
  <2>. HIDE DEF fr
  <2>. QED
    BY <1>a, <1>t, <2>1, <2>3, StackTypes
<1>7. CASE NextLeaf
  <2>. DEFINE top == Head(stack)
  <2>1. /\ pc = "leaves" /\ UNCHANGED <<fixed, at, slot, answer>>
    BY <1>7 DEF NextLeaf
  <2>2. stack # <<>> /\ top \in Frames /\ top.f = "leaves" /\ at \in Positions
    BY <1>t, <2>1, StackTypes DEF TypeOK
  <2>3. CASE top.todo # <<>>
    <3>1. /\ BeginCall(Head(top.todo), top.caps, top.rest, <<>>)
          /\ stack' = <<[top EXCEPT !.todo = Tail(@)]>> \o Tail(stack)
          /\ UNCHANGED <<ret, best>>
      BY <1>7, <2>3 DEF NextLeaf
    <3>2. Head(top.todo) \in Leaves /\ Tail(top.todo) \in Seq(Leaves)
      BY <2>2, <2>3, FrameKinds
    <3>3. [top EXCEPT !.todo = Tail(@)] = [top EXCEPT !.todo = Tail(top.todo)]
      OBVIOUS
    <3>4. [top EXCEPT !.todo = Tail(@)] \in Frames
      BY <2>2, <3>2, <3>3, LeavesFrame
    <3>5. stack' \in Seq(Frames)
      BY <1>t, <2>2, <3>1, <3>4, StackTypes
    <3>6. pc' \in CallPhases /\ call' \in Calls
      BY <1>c, <1>n, <2>2, <3>1, <3>2, FrameKinds DEF Paths
    <3>. QED
      BY <1>a, <2>1, <2>2, <3>1, <3>5, <3>6
  <2>4. CASE top.todo = <<>>
    <3>. DEFINE e == IF top.err = None THEN NotFound ELSE top.err
    <3>1. stack' = Tail(stack) /\ UNCHANGED call /\ ReturnFail(e)
      BY <1>7, <2>4 DEF NextLeaf
    <3>2. e \in Errors
      BY <2>2, FrameKinds, NotFoundType DEF NotFoundFacts
    <3>. HIDE DEF e
    <3>. QED
      BY <1>a, <1>t, <2>1, <2>2, <3>1, <3>2, StackTypes
  <2>. QED
    BY <2>3, <2>4
<1>. QED
  BY <1>1, <1>2, <1>3, <1>4, <1>5, <1>6, <1>7 DEF RouteStep

LEMMA RunHandlerType ==
  ASSUME TypeOK, RunHandler
  PROVE  /\ TypeOK'
         /\ ret'.tag = "Route" /\ ret'.val \in Responses
         /\ ret'.val.by = call.leaf.id
<1>1. /\ pc = "handler" /\ pc' = "return"
      /\ UNCHANGED <<api, req, at, stack, call, slot, answer, best>>
      /\ \E code \in {200, HandlerError}, b \in BOOLEAN :
           ret' = Route(Response(code, call.leaf.id, b))
  BY DEF RunHandler, fixed, routing, calling
<1>2. call \in Calls /\ call.leaf.id \in LeafIds
  BY <1>1 DEF TypeOK, CallPhases, CommittedPhases, Calls, LeafIds
<1>3. /\ ret' \in Results /\ ret'.tag = "Route" /\ ret'.val \in Responses
      /\ ret'.val.by = call.leaf.id
  BY <1>1, <1>2 DEF Route, Response, Results, Responses, HandlerError, ErrorCodes
<1>4. "return" \notin CallPhases
  BY DEF CallPhases, CheckPhases, CommittedPhases
<1>. QED
  BY <1>1, <1>3, <1>4 DEF TypeOK

LEMMA ResultKinds ==
  ASSUME NEW r \in Results
  PROVE  /\ r.tag \in {"Route", "Fail", "FailFatal"}
         /\ r.tag = "Route" => r.val \in Responses
         /\ r.tag # "Route" => r.val \in Errors
         /\ r = [tag |-> r.tag, val |-> r.val]
BY DEF Results

LEMMA ReturnStepType ==
  ASSUME TypeOK, ReturnStep
  PROVE  TypeOK'
<1>t. /\ stack \in Seq(Frames) /\ at \in Positions /\ best \in {None} \cup Errors
      /\ ret \in Results
  BY DEF TypeOK, ReturnStep, ReturnThrough, ReturnFromLeft, ReturnFromRight,
         ReturnFromLeaf, Respond, Returning
<1>p. \A p \in {"route", "leaves", "return", "done"} :
        p \notin CallPhases /\ p \in RoutePhases \cup CallPhases \cup {"return", "done"}
  BY DEF CallPhases, CheckPhases, CommittedPhases, RoutePhases
<1>s. stack # <<>> => Head(stack) \in Frames /\ Tail(stack) \in Seq(Frames)
  BY <1>t, StackTypes
<1>f. ret.tag # "Route" => ret.val \in Errors
  BY <1>t, ResultKinds
<1>1. CASE ReturnThrough
  BY <1>1, <1>t, <1>p, <1>s DEF TypeOK, ReturnThrough, fixed, calling
<1>2. CASE ReturnFromLeft
  <2>. DEFINE fr == [f |-> "right", err |-> ret.val]
  <2>1. /\ stack # <<>> /\ Head(stack).f = "left" /\ ret.tag = "Fail"
        /\ stack' = <<fr>> \o Tail(stack) /\ at' = Head(stack).then
        /\ ret' = None /\ pc' = "route"
        /\ UNCHANGED <<api, req, call, slot, answer, best>>
    BY <1>2 DEF ReturnFromLeft, Returning, fixed, calling
  <2>2. fr \in Frames
    BY <1>f, <2>1 DEF Frames
  <2>. HIDE DEF fr
  <2>3. at' \in Positions /\ stack' \in Seq(Frames)
    BY <1>s, <2>1, <2>2, FrameKinds, StackTypes
  <2>. QED
    BY <2>1, <2>3, <1>p DEF TypeOK
<1>3. CASE ReturnFromRight
  <2>1. /\ stack # <<>> /\ Head(stack).f = "right" /\ ret.tag = "Fail" /\ pc = "return"
        /\ stack' = Tail(stack) /\ ret' = Fail(CombineFail(Head(stack).err, ret.val))
        /\ UNCHANGED <<api, req, pc, at, call, slot, answer, best>>
    BY <1>3 DEF ReturnFromRight, Returning, fixed, calling
  <2>2. CombineFail(Head(stack).err, ret.val) \in Errors
    BY <1>f, <1>s, <2>1, FrameKinds, CombineFailType
  <2>3. ret' \in Results
    BY <2>1, <2>2 DEF Fail, Results
  <2>. QED
    BY <2>1, <2>3, <1>p, <1>s DEF TypeOK
<1>4. CASE ReturnFromLeaf
  <2>. DEFINE new == CombineFail(Head(stack).err, ret.val)
              fr == [Head(stack) EXCEPT !.err = new]
  <2>1. /\ stack # <<>> /\ Head(stack).f = "leaves" /\ ret.tag = "Fail"
        /\ stack' = <<fr>> \o Tail(stack)
        /\ ret' = None /\ pc' = "leaves"
        /\ UNCHANGED <<api, req, at, call, slot, answer, best>>
    BY <1>4 DEF ReturnFromLeaf, Returning, fixed, calling
  <2>2. new \in Errors
    BY <1>f, <1>s, <2>1, FrameKinds, CombineFailType
  <2>. HIDE DEF new
  <2>3. fr \in Frames /\ fr.f = "leaves"
    <3>1. Head(stack).todo \in Seq(Leaves)
      BY <1>s, <2>1, FrameKinds
    <3>. QED
      BY <1>s, <2>1, <2>2, <3>1, LeavesFrame
  <2>. HIDE DEF fr
  <2>4. stack' \in Seq(Frames) /\ stack' # <<>> /\ Head(stack') = fr
    BY <1>s, <2>1, <2>3, StackTypes
  <2>. QED
    BY <2>1, <2>3, <2>4, <1>p, <1>t DEF TypeOK
<1>5. CASE Respond
  <2>1. /\ pc' = "done" /\ UNCHANGED <<api, req, at, stack, call, slot, ret, best>>
        /\ answer' = IF ret.tag = "Route" THEN ret.val
                     ELSE Response(ret.val.code, ret.val.by, TRUE)
    BY <1>5 DEF Respond, fixed, routing, calling
  <2>2. answer' \in Responses
    BY <1>t, <2>1, ResultKinds DEF Response, Responses, Errors
  <2>. QED
    BY <2>1, <2>2, <1>p, <1>t DEF TypeOK
<1>. QED
  BY <1>1, <1>2, <1>3, <1>4, <1>5 DEF ReturnStep

LEMMA InitType == Init => TypeOK
<1>. SUFFICES ASSUME Init PROVE TypeOK
  OBVIOUS
<1>1. at \in Positions
  BY RoutersAreNodes, RequestsHavePaths DEF Init, Positions, Paths
<1>2. stack \in Seq(Frames)
  BY DEF Init
<1>. QED
  BY <1>1, <1>2 DEF Init, TypeOK, RoutePhases, CallPhases, CheckPhases, CommittedPhases, Slots

-----------------------------------------------------------------------------
(***************************************************************************)
(* CapturesHold is kept by the steps of a leaf call.                       *)
(***************************************************************************)
LEMMA CallHolds ==
  ASSUME CallInv, CallStep
  PROVE  CapturesHold'
<1>1. call' = call /\ Chain' = Chain /\ CapturesLeft(k)' = CapturesLeft(k')
  BY CallSteps DEF CallSummary, Chain, CapturesLeft
<1>2. CapturesParse' <=> CapturesParse
  BY <1>1 DEF CapturesParse
<1>t. TypeOK /\ CapturesHold /\ (pc \in CallPhases => call \in Calls)
  BY DEF CallInv, TypeOK
<1>p. /\ {"captures", "host", "method", "accept", "contentType", "preBody"} \subseteq CallPhases
      /\ {"body", "extract", "handler"} \subseteq CallPhases
      /\ "return" \notin CallPhases
  BY DEF CallPhases, CheckPhases, CommittedPhases
\* A step that leaves the call says nothing about captures any more.
<1>r. ASSUME pc' = "return" PROVE CapturesHold'
  BY <1>r, <1>p DEF CapturesHold
<1>3. CASE CheckCaptures
  <2>1. pc = "captures" /\ ~IsRaw(call.leaf)
    BY <1>3, <1>t, <1>p DEF CheckCaptures, Phase, CapturesHold
  <2>2. \/ pc' = "return"
        \/ /\ pc' = "host"
           /\ MissingCaptures(Chain, call.caps)
                \cup BadCaptures(Chain, call.caps, call.rest) = {}
    BY <1>3 DEF CheckCaptures, Phase, ReturnFail
  <2>3. CASE pc' = "host"
    <3>1. CapturesParse
      BY <2>2, <2>3 DEF CapturesParse
    <3>. QED
      BY <1>1, <1>2, <2>1, <2>3, <3>1 DEF CapturesHold
  <2>. QED
    BY <1>r, <2>2, <2>3
<1>4. CASE CheckHost
  <2>1. /\ pc = "host"
        /\ pc' = "return" \/ pc' = IF IsRaw(call.leaf) THEN "body" ELSE "method"
        /\ UNCHANGED <<st, k>>
    BY <1>4 DEF CheckHost, Phase, ReturnFail
  <2>2. ~IsRaw(call.leaf) => CapturesParse
    BY <1>t, <1>p, <2>1 DEF CapturesHold
  <2>. QED
    BY <1>1, <1>2, <1>r, <2>1, <2>2 DEF CapturesHold
<1>5. CASE CheckMethod \/ CheckAccept
  <2>1. /\ pc \in {"method", "accept"}
        /\ pc' \in {"return", "accept", "contentType"}
    BY <1>5 DEF CheckMethod, CheckAccept, Phase, ReturnFail
  <2>2. ~IsRaw(call.leaf) /\ CapturesParse
    BY <1>t, <1>p, <2>1 DEF CapturesHold
  <2>. QED
    BY <1>1, <1>2, <1>r, <2>1, <2>2 DEF CapturesHold
<1>6. CASE CheckContentType
  <2>1. /\ pc = "contentType"
        /\ pc' \in {"return", "preBody"}
        /\ k' = 1 /\ st' = NewState
    BY <1>6 DEF CheckContentType, Phase, ReturnFail
  <2>2. ~IsRaw(call.leaf) /\ CapturesParse
    BY <1>t, <1>p, <2>1 DEF CapturesHold
  <2>3. Extractable' /\ st'.caps = call.caps
    BY <1>1, <2>1 DEF NewState, Extractable
  <2>. QED
    BY <1>1, <1>2, <1>r, <2>1, <2>2, <2>3 DEF CapturesHold
<1>7. CASE PreBodyStep
  <2>1. pc = "preBody"
    BY <1>7 DEF PreBodyStep, PreBodyAuth, PreBodyNamed, PreBodyOther, PreBodyDone
  <2>2. /\ ~IsRaw(call.leaf) /\ CapturesParse /\ Extractable /\ st.caps = call.caps
        /\ call \in Calls
    BY <1>t, <1>p, <2>1 DEF CapturesHold
  <2>3. \A new : /\ [st EXCEPT !.users = new].caps = st.caps
                 /\ [st EXCEPT !.users = new].rest = st.rest
                 /\ DOMAIN [st EXCEPT !.users = new] = DOMAIN st
                 /\ [st EXCEPT !.ctxs = new].caps = st.caps
                 /\ [st EXCEPT !.ctxs = new].rest = st.rest
                 /\ DOMAIN [st EXCEPT !.ctxs = new] = DOMAIN st
    BY <2>2 DEF Extractable
  <2>4. CASE PreBodyDone
    <3>1. /\ pc' \in {"body", "extract"} /\ k' = 1
          /\ \E new : st' = [st EXCEPT !.ctxs = new]
      BY <2>4 DEF PreBodyDone
    <3>2. Extractable' /\ st'.caps = st.caps
      BY <1>1, <2>2, <2>3, <3>1 DEF Extractable
    <3>3. CapturesLeft(1) = call.caps
      <4>1. CaptureIndex(Chain, 0) = 0
        BY CaptureIndexStep
      <4>2. call.caps \in Seq(Segments)
        BY <2>2 DEF Calls, Paths
      <4>. QED
        BY <4>1, <4>2 DEF CapturesLeft
    <3>. QED
      BY <1>1, <1>2, <2>2, <3>1, <3>2, <3>3 DEF CapturesHold
  <2>5. CASE ~PreBodyDone
    <3>1. \/ pc' = "return"
          \/ /\ pc' = pc /\ k' = k + 1
             /\ \/ st' = st
                \/ \E new : st' = [st EXCEPT !.users = new]
                \/ \E new : st' = [st EXCEPT !.ctxs = new]
      BY <1>7, <2>5 DEF PreBodyStep, PreBodyAuth, PreBodyNamed, PreBodyOther, ReturnFatal
    <3>2. CASE pc' = pc /\ k' = k + 1
      <4>1. st'.caps = st.caps /\ st'.rest = st.rest /\ DOMAIN st' = DOMAIN st
        BY <2>1, <2>3, <3>1, <3>2
      <4>2. Extractable' /\ st'.caps = call.caps
        BY <1>1, <2>2, <3>2, <4>1 DEF Extractable
      <4>. QED
        BY <1>1, <1>2, <2>1, <2>2, <3>2, <4>2 DEF CapturesHold
    <3>. QED
      BY <1>r, <3>1, <3>2
  <2>. QED
    BY <2>4, <2>5
<1>8. CASE BufferBody
  <2>1. /\ pc = "body" /\ UNCHANGED <<call, st, k>>
        /\ \/ pc' = "return"
           \/ pc' = IF IsRaw(call.leaf) THEN "handler" ELSE "extract"
    BY <1>8 DEF BufferBody, ReturnFatal, calling
  <2>2. ~IsRaw(call.leaf) => CapturesParse /\ Extractable /\ st.caps = CapturesLeft(k)
    BY <1>t, <1>p, <2>1 DEF CapturesHold
  <2>3. Extractable' <=> Extractable
    BY <2>1 DEF Extractable
  <2>. QED
    BY <1>1, <1>2, <1>r, <2>1, <2>2, <2>3 DEF CapturesHold
<1>9. CASE ExtractStep
  <2>1. pc = "extract"
    BY <1>9 DEF ExtractStep, ExtractCapture, ExtractCaptureAll, ExtractParam,
                ExtractReqBody, ExtractStreamBody, ExtractAuth, ExtractResource,
                ExtractNamed, ExtractOther, ExtractDone, Extracting
  <2>2. /\ ~IsRaw(call.leaf) /\ CapturesParse /\ Extractable /\ st.caps = CapturesLeft(k)
        /\ call \in Calls
    BY <1>t, <1>p, <2>1 DEF CapturesHold
  \* What has to be shown of a combinator that takes its argument.
  <2>3. ASSUME pc' = pc, k' = k + 1, DOMAIN st' = DOMAIN st,
               st'.rest \in {None, call.rest}, st'.caps = CapturesLeft(k + 1)
        PROVE  CapturesHold'
    <3>1. Extractable'
      BY <1>1, <2>2, <2>3 DEF Extractable
    <3>. QED
      BY <1>1, <1>2, <2>1, <2>2, <2>3, <3>1 DEF CapturesHold
  <2>4. ASSUME k \in DOMAIN Chain, Chain[k].c # "Capture"
        PROVE  CapturesLeft(k + 1) = CapturesLeft(k)
    <3>1. (k + 1) - 1 = k
      BY <2>2 DEF Extractable
    <3>2. CaptureIndex(Chain, k) = CaptureIndex(Chain, k - 1)
      BY <2>2, <2>4, CaptureIndexStep DEF Extractable
    <3>. QED
      BY <3>1, <3>2 DEF CapturesLeft
  <2>5. CASE ExtractCapture
    <3>1. /\ Here("Capture") /\ pc' = pc /\ k' = k + 1
          /\ st' = [st EXCEPT !.caps = Tail(st.caps)]
      BY <2>2, <2>5, CaptureFound DEF ExtractCapture, Extracting, Took
    <3>2. DOMAIN st' = DOMAIN st /\ st'.rest = st.rest /\ st'.caps = Tail(st.caps)
      BY <2>2, <3>1 DEF Extractable
    <3>. QED
      BY <2>2, <2>3, <3>1, <3>2, CaptureFound DEF Extractable
  <2>6. CASE ExtractDone
    <3>1. pc' = "handler"
      BY <2>6 DEF ExtractDone
    <3>. QED
      BY <1>1, <1>2, <2>2, <3>1 DEF CapturesHold
  <2>7. CASE ~ExtractCapture /\ ~ExtractDone
    <3>1. k \in DOMAIN Chain /\ Chain[k].c # "Capture"
      BY <1>9, <2>7 DEF ExtractStep, ExtractCaptureAll, ExtractParam, ExtractReqBody,
                ExtractStreamBody, ExtractAuth, ExtractResource, ExtractNamed,
                ExtractOther, ParamCombinators, Extracting, Here
    <3>2. \/ pc' = "return"
          \/ /\ pc' = pc /\ k' = k + 1
             /\ \/ st' = st
                \/ \E new : st' = [st EXCEPT !.users = new]
                \/ \E new : st' = [st EXCEPT !.ctxs = new]
                \/ st' = [st EXCEPT !.rest = None]
      <4>1. CASE ExtractCaptureAll
        BY <4>1 DEF ExtractCaptureAll, Took, ReturnFail
      <4>2. CASE ExtractParam
        BY <4>2 DEF ExtractParam, Took, ReturnFatal
      <4>3. CASE ExtractReqBody \/ ExtractStreamBody
        BY <4>3, SMTT(40) DEF ExtractReqBody, ExtractStreamBody, Took, ReturnFatal
      <4>4. CASE ExtractAuth
        BY <4>4 DEF ExtractAuth, Took, ReturnFatal
      <4>5. CASE ExtractResource \/ ExtractNamed \/ ExtractOther
        BY <4>5 DEF ExtractResource, ExtractNamed, ExtractOther, Took, ReturnFatal
      <4>. QED
        BY <1>9, <2>7, <4>1, <4>2, <4>3, <4>4, <4>5 DEF ExtractStep
    <3>3. \A new : /\ [st EXCEPT !.users = new].caps = st.caps
                   /\ [st EXCEPT !.users = new].rest = st.rest
                   /\ DOMAIN [st EXCEPT !.users = new] = DOMAIN st
                   /\ [st EXCEPT !.ctxs = new].caps = st.caps
                   /\ [st EXCEPT !.ctxs = new].rest = st.rest
                   /\ DOMAIN [st EXCEPT !.ctxs = new] = DOMAIN st
                   /\ [st EXCEPT !.rest = new].caps = st.caps
                   /\ [st EXCEPT !.rest = new].rest = new
                   /\ DOMAIN [st EXCEPT !.rest = new] = DOMAIN st
      BY <2>2 DEF Extractable
    <3>4. CASE pc' = pc /\ k' = k + 1
      <4>1. /\ st'.caps = st.caps /\ st'.rest \in {None, st.rest}
            /\ DOMAIN st' = DOMAIN st
        BY <2>1, <3>2, <3>3, <3>4
      <4>2. st'.rest \in {None, call.rest}
        BY <2>2, <4>1 DEF Extractable
      <4>. QED
        BY <2>2, <2>3, <2>4, <3>1, <3>4, <4>1, <4>2
    <3>. QED
      BY <1>r, <3>2, <3>4, SMTT(40)
  <2>. QED
    BY <2>5, <2>6, <2>7, SMTT(40)
<1>. QED
  BY <1>3, <1>4, <1>5, <1>6, <1>7, <1>8, <1>9 DEF CallStep, CheckStep

-----------------------------------------------------------------------------
(***************************************************************************)
(* The invariant.                                                          *)
(***************************************************************************)
IInv ==
  /\ TypeOK
  /\ CapturesHold
  /\ BodyUntouchedUntilCommit
  /\ OneHandlerAnswers

LEMMA Phases ==
  /\ \A p \in CallPhases : p \notin {"route", "leaves", "return", "done"}
  /\ \A p \in CheckPhases : p \in CallPhases /\ p \notin CommittedPhases
  /\ \A p \in CommittedPhases : p \in CallPhases /\ p \notin CheckPhases
  /\ CallPhases = CheckPhases \cup CommittedPhases
  /\ "handler" \in CommittedPhases
  /\ \A p : p \in RoutePhases <=> p \in {"route", "leaves"}
BY DEF CallPhases, CheckPhases, CommittedPhases, RoutePhases

\* A step of the router keeps the body and has run nothing.
LEMMA RouteStepFacts ==
  ASSUME RouteStep
  PROVE  /\ pc \in RoutePhases
         /\ UNCHANGED <<api, req, slot, answer, ran>>
         /\ \/ pc' \in RoutePhases /\ UNCHANGED <<call, ret, best>>
            \/ pc' \in {"captures", "host"} /\ UNCHANGED <<ret, best>>
            \/ (\E err : ReturnFail(err)) /\ UNCHANGED call
<1>1. CASE RouteStaticHere \/ RouteStaticDeeper \/ RouteCapture \/ RouteCaptureAll \/ RouteChoice
  BY <1>1 DEF RouteStaticHere, RouteStaticDeeper, RouteCapture, RouteCaptureAll,
              RouteChoice, fixed, calling, RoutePhases
<1>2. CASE RouteRaw \/ NextLeaf
  BY <1>2 DEF RouteRaw, NextLeaf, BeginCall, fixed, RoutePhases
<1>. QED
  BY <1>1, <1>2 DEF RouteStep

\* A result on its way back: what it becomes, and what stays.
LEMMA ReturnStepFacts ==
  ASSUME ReturnStep
  PROVE  /\ pc = "return"
         /\ UNCHANGED <<api, req, call, slot, ran, best>>
         /\ \/ pc' \in {"return", "done"} /\ ret' = ret
            \/ pc' = "return" /\ ret.tag = "Fail" /\ ret'.tag = "Fail"
            \/ pc' \in RoutePhases /\ ret.tag = "Fail"
<1>1. CASE ReturnThrough \/ Respond
  BY <1>1 DEF ReturnThrough, Respond, fixed, routing, calling
<1>2. CASE ReturnFromLeft \/ ReturnFromLeaf
  BY <1>2 DEF ReturnFromLeft, ReturnFromLeaf, Returning, fixed, calling, RoutePhases
<1>3. CASE ReturnFromRight
  BY <1>3 DEF ReturnFromRight, Returning, Fail, fixed, calling
<1>. QED
  BY <1>1, <1>2, <1>3 DEF ReturnStep

LEMMA InitInv == Init => IInv
<1>. SUFFICES ASSUME Init PROVE IInv
  OBVIOUS
<1>1. TypeOK
  BY InitType
<1>2. pc = "route" /\ slot = "Streaming" /\ ran = <<>>
  BY DEF Init
<1>. QED
  BY <1>1, <1>2, Phases DEF IInv, CapturesHold, BodyUntouchedUntilCommit, OneHandlerAnswers

LEMMA NextInv == IInv /\ [Next]_vars => IInv'
<1>. SUFFICES ASSUME IInv, [Next]_vars PROVE IInv'
  OBVIOUS
<1>t. TypeOK /\ CapturesHold /\ BodyUntouchedUntilCommit /\ OneHandlerAnswers
  BY DEF IInv
<1>1. CASE RouteStep
  <2>1. TypeOK'
    BY <1>1, <1>t, RouteStepType
  <2>2. CapturesHold'
    <3>1. CASE RouteRaw \/ NextLeaf
      <4>1. \/ pc' = "host" /\ IsRaw(call'.leaf)
            \/ pc' = "captures" /\ ~IsRaw(call'.leaf)
            \/ pc' = "return"
        BY <3>1 DEF RouteRaw, NextLeaf, BeginCall, ReturnFail
      <4>. QED
        BY <4>1, Phases DEF CapturesHold
    <3>2. CASE ~RouteRaw /\ ~NextLeaf
      <4>1. pc' \in {"route", "leaves", "return"}
        BY <1>1, <3>2 DEF RouteStep, RouteStaticHere, RouteStaticDeeper, RouteCapture,
                          RouteCaptureAll, RouteChoice, ReturnFail
      <4>. QED
        BY <4>1, Phases DEF CapturesHold
    <3>. QED
      BY <3>1, <3>2
  <2>3. slot = "Streaming" /\ ran = <<>>
    BY <1>1, <1>t, RouteStepFacts DEF BodyUntouchedUntilCommit, OneHandlerAnswers, RoutePhases
  <2>4. slot' = "Streaming" /\ ran' = <<>>
    BY <1>1, <2>3, RouteStepFacts
  <2>. QED
    BY <2>1, <2>2, <2>4 DEF IInv, BodyUntouchedUntilCommit, OneHandlerAnswers
<1>2. CASE CallStep
  <2>1. CallSummary /\ CapturesHold' /\ TypeOK'
    BY <1>2, <1>t, CallSteps, CallHolds, CallType DEF CallInv
  <2>2. ran = <<>> /\ ran' = <<>>
    BY <1>t, <2>1, Phases DEF CallSummary, OneHandlerAnswers
  <2>3. \/ slot' = "Streaming"
        \/ pc' \in CommittedPhases
        \/ pc' = "return" /\ ret'.tag = "FailFatal"
    BY <1>t, <2>1, Phases
       DEF CallSummary, GoesOn, Declines, Settles, ReturnFatal, FailFatal,
           BodyUntouchedUntilCommit
  <2>. QED
    BY <2>1, <2>2, <2>3, Phases DEF IInv, BodyUntouchedUntilCommit, OneHandlerAnswers
<1>3. CASE RunHandler
  <2>1. /\ pc = "handler" /\ pc' = "return"
        /\ ran' = Append(ran, [leaf |-> call.leaf, args |-> args, tail |-> call.tail])
    BY <1>3 DEF RunHandler
  <2>2. ran = <<>>
    BY <1>t, <2>1 DEF OneHandlerAnswers
  <2>3. Len(ran') = 1 /\ ran'[1].leaf = call.leaf
    BY <2>1, <2>2
  <2>4. TypeOK' /\ ret'.tag = "Route" /\ ret'.val.by = call.leaf.id
    BY <1>3, <1>t, RunHandlerType
  <2>. QED
    BY <2>1, <2>3, <2>4, Phases
       DEF IInv, CapturesHold, BodyUntouchedUntilCommit, OneHandlerAnswers
<1>4. CASE ReturnStep
  <2>1. TypeOK'
    BY <1>4, <1>t, ReturnStepType
  <2>2. pc' \in {"route", "leaves", "return", "done"}
    BY <1>4, ReturnStepFacts, Phases
  <2>3. CapturesHold'
    BY <2>2, Phases DEF CapturesHold
  <2>4. BodyUntouchedUntilCommit'
    <3>1. ret.tag = "Fail" => slot = "Streaming"
      BY <1>4, <1>t, ReturnStepFacts DEF BodyUntouchedUntilCommit
    <3>. QED
      BY <1>4, <2>2, <3>1, ReturnStepFacts, Phases DEF BodyUntouchedUntilCommit
  <2>5. OneHandlerAnswers'
    <3>1. CASE ran = <<>>
      BY <1>4, <3>1, ReturnStepFacts DEF OneHandlerAnswers
    <3>2. CASE ran # <<>>
      <4>1. ret.tag = "Route" /\ ret.val.by = ran[1].leaf.id /\ Len(ran) <= 1
        BY <1>t, <3>2 DEF OneHandlerAnswers
      <4>2. pc' \in {"return", "done"} /\ ret' = ret /\ ran' = ran
        BY <1>4, <4>1, ReturnStepFacts
      <4>. QED
        BY <4>1, <4>2 DEF OneHandlerAnswers
    <3>. QED
      BY <3>1, <3>2
  <2>. QED
    BY <2>1, <2>3, <2>4, <2>5 DEF IInv
<1>5. CASE Done \/ UNCHANGED vars
  <2>1. UNCHANGED vars
    BY <1>5 DEF Done
  <2>2. TypeOK' /\ BodyUntouchedUntilCommit' /\ OneHandlerAnswers'
    BY <1>t, <2>1 DEF vars, TypeOK, BodyUntouchedUntilCommit, OneHandlerAnswers
  <2>3. CapturesHold'
    BY <1>t, <2>1 DEF vars, CapturesHold, CapturesParse, Extractable, CapturesLeft, Chain
  <2>. QED
    BY <2>2, <2>3 DEF IInv
<1>. QED
  BY <1>1, <1>2, <1>3, <1>4, <1>5 DEF Next, Step, CallStep

THEOREM Invariance == Spec => []IInv
<1>. QED
  BY InitInv, NextInv, PTL DEF Spec

\* The type invariant of a request's state, for every router.
THEOREM TypeCorrect == Spec => []TypeOK
<1>1. IInv => TypeOK
  BY DEF IInv
<1>. QED
  BY <1>1, Invariance, PTL

\* Whatever the tree and the chains, an alternative that may still decline
\* and a Fail that lets a sibling try find the body as it arrived
\* (handler.rs:98-112, captures.rs:41-57).
THEOREM SiblingsFindTheBody == Spec => []BodyUntouchedUntilCommit
<1>1. IInv => BodyUntouchedUntilCommit
  BY DEF IInv
<1>. QED
  BY <1>1, Invariance, PTL

\* Whatever the tree, one handler runs at most and it answers
\* (handler.rs:114-126, router.rs:161-197).
THEOREM HandlerAnswers == Spec => []OneHandlerAnswers
<1>1. IInv => OneHandlerAnswers
  BY DEF IInv
<1>. QED
  BY <1>1, Invariance, PTL

LEMMA StaysCommitted ==
  ASSUME IInv, [Next]_vars
  PROVE  Committed => call' = call
<1>t. TypeOK /\ CapturesHold /\ BodyUntouchedUntilCommit /\ OneHandlerAnswers
  BY DEF IInv
<1>1. CASE RouteStep
  <2>1. slot = "Streaming" /\ ran = <<>>
    BY <1>1, <1>t, RouteStepFacts DEF BodyUntouchedUntilCommit, OneHandlerAnswers, RoutePhases
  <2>. QED
    BY <2>1 DEF Committed
<1>2. CASE CallStep
  BY <1>2, <1>t, CallSteps DEF CallInv, CallSummary
<1>3. CASE RunHandler \/ Done \/ UNCHANGED vars
  BY <1>3 DEF RunHandler, Done, vars, calling
<1>4. CASE ReturnStep
  BY <1>4, ReturnStepFacts
<1>. QED
  BY <1>1, <1>2, <1>3, <1>4 DEF Next, Step, CallStep

\* Once the body is touched or a handler has run, no other leaf is called
\* (router.rs:163-164, handler.rs:100-105).
THEOREM CommitmentIsFinal == Spec => CommitIsFinal
<1>. DEFINE Stays == Committed => call' = call
<1>1. IInv /\ [Next]_vars => Stays
  BY StaysCommitted
<1>2. Spec => [][Stays]_vars
  BY <1>1, Invariance, PTL DEF Spec
<1>. QED
  BY <1>2 DEF CommitIsFinal

-----------------------------------------------------------------------------
(***************************************************************************)
(* Dispatch implements Alternatives: for every router, however choices,    *)
(* captures and leaf lists nest, a request is settled as by a flat list of *)
(* alternatives with one best error.                                       *)
(*                                                                         *)
(* The code combines errors in a tree, two at a time: at each Choice and   *)
(* in each run_choice_leaves.  The flat list has one running best.  The    *)
(* invariant that ties them says where on the way back that best error is: *)
(* it is held by a waiting call or by the result being returned, the calls *)
(* that wait longer hold only lesser errors, and nobody holds a better one.*)
(***************************************************************************)
(***************************************************************************)
(* The errors held, latest first: line[0] is the result's, line[n] that of *)
(* the n-th call of the stack.                                             *)
(***************************************************************************)
P(err) == Priority(err.code)

LEMMA PriorityType == \A err : P(err) \in Nat
BY DEF P, Priority

FirstBest(line, n, b) ==
  /\ \A i \in 0..n : line[i] # None => b # None /\ P(line[i]) <= P(b)
  /\ b # None => \E i \in 0..n :
       /\ line[i] = b
       /\ \A j \in (i + 1)..n : line[j] # None => P(line[j]) < P(b)

\* A call starts to wait: it holds no error yet, and nothing is returned.
LEMMA PushLine ==
  ASSUME NEW n \in Nat, NEW line, NEW line2, NEW b, FirstBest(line, n, b),
         line[0] = None, line2[0] = None, line2[1] = None,
         \A i \in 1..n : line2[i + 1] = line[i]
  PROVE  FirstBest(line2, n + 1, b)
<1>1. \A i \in 0..(n + 1) : i \in {0, 1} \/ (i - 1 \in 1..n /\ line2[i] = line[i - 1])
  OBVIOUS
<1>2. \A i \in 0..(n + 1) : line2[i] # None => b # None /\ P(line2[i]) <= P(b)
  BY <1>1 DEF FirstBest
<1>3. ASSUME b # None
      PROVE  \E i \in 0..(n + 1) :
               /\ line2[i] = b
               /\ \A j \in (i + 1)..(n + 1) : line2[j] # None => P(line2[j]) < P(b)
  <2>1. PICK i \in 0..n : /\ line[i] = b
                          /\ \A j \in (i + 1)..n : line[j] # None => P(line[j]) < P(b)
    BY <1>3 DEF FirstBest
  <2>2. i \in 1..n /\ i + 1 \in 0..(n + 1) /\ line2[i + 1] = b
    BY <1>3, <2>1
  <2>3. ASSUME NEW j \in (i + 1 + 1)..(n + 1) PROVE line2[j] # None => P(line2[j]) < P(b)
    <3>1. j - 1 \in (i + 1)..n /\ j - 1 \in 1..n /\ (j - 1) + 1 = j
      BY <2>2
    <3>2. line2[j] = line[j - 1]
      BY <3>1
    <3>. QED
      BY <2>1, <3>1, <3>2
  <2>. QED
    BY <2>2, <2>3
<1>. QED
  BY <1>2, <1>3 DEF FirstBest

\* What combine_fail of an older and a newer error is to the best one.
LEMMA Combined ==
  ASSUME NEW old, NEW new, new # None
  PROVE  /\ CombineFail(old, new) \in {old, new} /\ CombineFail(old, new) # None
         /\ P(new) <= P(CombineFail(old, new))
         /\ old # None => P(old) <= P(CombineFail(old, new))
         /\ old # None /\ CombineFail(old, new) # old => P(old) < P(new)
         /\ old # None /\ P(new) <= P(old) => CombineFail(old, new) = old
         /\ old = None \/ P(old) < P(new) => CombineFail(old, new) = new
BY PriorityType DEF CombineFail, P

\* The returned error goes to the call that waits for it, which goes on.
LEMMA KeepLine ==
  ASSUME NEW n \in Nat \ {0}, NEW line, NEW line2, NEW b, FirstBest(line, n, b),
         line[0] # None, line2[0] = None, line2[1] = CombineFail(line[1], line[0]),
         \A i \in 2..n : line2[i] = line[i]
  PROVE  FirstBest(line2, n, b)
<1>1. b # None /\ P(line[0]) <= P(b) /\ (line[1] # None => P(line[1]) <= P(b))
  BY DEF FirstBest
<1>2. \A i \in 0..n : i = 0 \/ i = 1 \/ i \in 2..n
  OBVIOUS
<1>3. line2[1] # None /\ P(line2[1]) <= P(b)
  BY <1>1, Combined
<1>4. PICK i \in 0..n : /\ line[i] = b
                        /\ \A j \in (i + 1)..n : line[j] # None => P(line[j]) < P(b)
  BY <1>1 DEF FirstBest
<1>5. CASE i \in 2..n
  <2>1. line2[i] = b /\ \A j \in (i + 1)..n : line2[j] # None => P(line2[j]) < P(b)
    BY <1>4, <1>5
  <2>. QED
    BY <1>1, <1>2, <1>3, <2>1 DEF FirstBest
<1>6. CASE i \in {0, 1}
  <2>1. line2[1] = b
    <3>1. CASE i = 1
      BY <1>1, <1>4, <3>1, Combined
    <3>2. CASE i = 0
      <4>1. line[1] # None => P(line[1]) < P(line[0])
        BY <1>4, <3>2
      <4>. QED
        BY <1>4, <3>2, <4>1, Combined
    <3>. QED
      BY <1>6, <3>1, <3>2
  <2>2. \A j \in 2..n : line2[j] # None => P(line2[j]) < P(b)
    BY <1>4, <1>6
  <2>. QED
    BY <1>1, <1>2, <1>3, <2>1, <2>2 DEF FirstBest
<1>. QED
  BY <1>2, <1>5, <1>6

\* The first call of the stack ends: its error is the one returned now.
LEMMA LowerLine ==
  ASSUME NEW n \in Nat \ {0}, NEW line, NEW line2, NEW b, FirstBest(line, n, b),
         line[0] = None, \A i \in 0..(n - 1) : line2[i] = line[i + 1]
  PROVE  FirstBest(line2, n - 1, b)
<1>1. \A i \in 0..(n - 1) : i + 1 \in 0..n
  OBVIOUS
<1>2. \A i \in 0..(n - 1) : line2[i] # None => b # None /\ P(line2[i]) <= P(b)
  BY <1>1 DEF FirstBest
<1>3. ASSUME b # None
      PROVE  \E i \in 0..(n - 1) :
               /\ line2[i] = b
               /\ \A j \in (i + 1)..(n - 1) : line2[j] # None => P(line2[j]) < P(b)
  <2>1. PICK i \in 0..n : /\ line[i] = b
                          /\ \A j \in (i + 1)..n : line[j] # None => P(line[j]) < P(b)
    BY <1>3 DEF FirstBest
  <2>2. i - 1 \in 0..(n - 1) /\ (i - 1) + 1 = i
    BY <1>3, <2>1
  <2>3. ASSUME NEW j \in ((i - 1) + 1)..(n - 1) PROVE line2[j] # None => P(line2[j]) < P(b)
    <3>1. j + 1 \in (i + 1)..n /\ j \in 0..(n - 1)
      BY <2>2
    <3>. QED
      BY <2>1, <3>1
  <2>. QED
    BY <2>1, <2>2, <2>3
<1>. QED
  BY <1>2, <1>3 DEF FirstBest

\* The first call of the stack ends with its error and the one returned to it.
LEMMA PopLine ==
  ASSUME NEW n \in Nat \ {0}, NEW line, NEW line2, NEW b, FirstBest(line, n, b),
         line[0] # None, line2[0] = CombineFail(line[1], line[0]),
         \A i \in 1..(n - 1) : line2[i] = line[i + 1]
  PROVE  FirstBest(line2, n - 1, b)
<1>. DEFINE mid == [i \in 0..n |-> IF i = 0 THEN None
                                  ELSE IF i = 1 THEN CombineFail(line[1], line[0])
                                  ELSE line[i]]
<1>1. /\ mid[0] = None /\ mid[1] = CombineFail(line[1], line[0])
      /\ \A i \in 2..n : mid[i] = line[i]
  <2>1. 0 \in 0..n /\ 1 \in 0..n /\ \A i \in 2..n : i \in 0..n /\ i # 0 /\ i # 1
    OBVIOUS
  <2>2. \A i \in 0..n : mid[i] = IF i = 0 THEN None
                                 ELSE IF i = 1 THEN CombineFail(line[1], line[0])
                                 ELSE line[i]
    OBVIOUS
  <2>. HIDE DEF mid
  <2>. QED
    BY <2>1, <2>2
<1>. HIDE DEF mid
<1>2. \A i \in 0..(n - 1) : line2[i] = mid[i + 1]
  <2>1. ASSUME NEW i \in 1..(n - 1) PROVE line2[i] = mid[i + 1]
    <3>1. i + 1 \in 2..n
      OBVIOUS
    <3>. QED
      BY <1>1, <3>1
  <2>2. \A i \in 0..(n - 1) : i = 0 \/ i \in 1..(n - 1)
    OBVIOUS
  <2>3. 0 + 1 = 1 /\ line2[0] = mid[0 + 1]
    BY <1>1
  <2>. QED
    BY <2>1, <2>2, <2>3
<1>3. FirstBest(mid, n, b)
  BY <1>1, KeepLine
<1>. QED
  BY <1>1, <1>2, <1>3, LowerLine

\* A new error is returned, while none was on its way.
LEMMA FailLine ==
  ASSUME NEW n \in Nat, NEW line, NEW line2, NEW b, NEW e, FirstBest(line, n, b),
         line[0] = None, e # None, line2[0] = e,
         \A i \in 1..n : line2[i] = line[i]
  PROVE  FirstBest(line2, n, CombineFail(b, e))
<1>. DEFINE c == CombineFail(b, e)
<1>1. /\ c # None /\ P(e) <= P(c) /\ c \in {b, e}
      /\ b # None => P(b) <= P(c)
      /\ b # None /\ c # b => P(b) < P(e)
      /\ b # None /\ P(e) <= P(b) => c = b
      /\ b = None \/ P(b) < P(e) => c = e
  BY Combined
<1>. HIDE DEF c
<1>2. \A i \in 0..n : i = 0 \/ i \in 1..n
  OBVIOUS
<1>3. ASSUME NEW i \in 0..n, line2[i] # None PROVE P(line2[i]) <= P(c)
  <2>1. CASE i = 0
    BY <1>1, <2>1
  <2>2. CASE i \in 1..n
    <3>1. b # None /\ P(line[i]) <= P(b)
      BY <1>3, <2>2 DEF FirstBest
    <3>. QED
      BY <1>1, <2>2, <3>1, PriorityType
  <2>. QED
    BY <1>2, <2>1, <2>2
<1>4. CASE b # None /\ P(e) <= P(b)
  <2>1. PICK i \in 0..n : /\ line[i] = b
                          /\ \A j \in (i + 1)..n : line[j] # None => P(line[j]) < P(b)
    BY <1>4 DEF FirstBest
  <2>2. i \in 1..n
    BY <1>4, <2>1
  <2>3. /\ line2[i] = c
        /\ \A j \in (i + 1)..n : line2[j] # None => P(line2[j]) < P(c)
    BY <1>1, <1>4, <2>1, <2>2
  <2>. QED
    BY <1>1, <1>3, <2>3 DEF FirstBest, c
<1>5. CASE b = None \/ P(b) < P(e)
  <2>1. c = e
    BY <1>1, <1>5
  <2>2. ASSUME NEW j \in (0 + 1)..n, line2[j] # None PROVE P(line2[j]) < P(c)
    <3>1. j \in 1..n
      OBVIOUS
    <3>2. b # None /\ P(line[j]) <= P(b)
      BY <2>2, <3>1 DEF FirstBest
    <3>. QED
      BY <1>5, <2>1, <3>1, <3>2, PriorityType
  <2>. QED
    BY <1>1, <1>3, <2>1, <2>2 DEF FirstBest, c
<1>. QED
  BY <1>4, <1>5, PriorityType

LEMMA SameLine ==
  ASSUME NEW n \in Nat, NEW line, NEW line2, NEW b, FirstBest(line, n, b),
         \A i \in 0..n : line2[i] = line[i]
  PROVE  FirstBest(line2, n, b)
<1>1. \A i \in 0..n : \A j \in (i + 1)..n : j \in 0..n
  OBVIOUS
<1>2. \A i \in 0..n : line2[i] # None => b # None /\ P(line2[i]) <= P(b)
  BY DEF FirstBest
<1>3. ASSUME b # None
      PROVE  \E i \in 0..n :
               /\ line2[i] = b
               /\ \A j \in (i + 1)..n : line2[j] # None => P(line2[j]) < P(b)
  <2>1. PICK i \in 0..n : /\ line[i] = b
                          /\ \A j \in (i + 1)..n : line[j] # None => P(line[j]) < P(b)
    BY <1>3 DEF FirstBest
  <2>. QED
    BY <1>1, <2>1
<1>. QED
  BY <1>2, <1>3 DEF FirstBest

-----------------------------------------------------------------------------
(***************************************************************************)
(* The invariant.                                                          *)
(***************************************************************************)
FrameErr(fr) == IF fr.f = "left" THEN None ELSE fr.err

ReturnedErr == IF pc = "return" THEN ret.val ELSE None

Line == [i \in 0..Len(stack) |-> IF i = 0 THEN ReturnedErr ELSE FrameErr(stack[i])]

\* A sibling may still get to try, or the best error be reported.
Open == pc # "done" /\ (pc = "return" => ret.tag = "Fail")

BestIsFirst == Open => FirstBest(Line, Len(stack), best)

LEMMA ConsFacts ==
  ASSUME NEW s \in Seq(Frames), NEW fr \in Frames
  PROVE  /\ Len(<<fr>> \o s) = Len(s) + 1
         /\ (<<fr>> \o s)[1] = fr
         /\ \A i \in 1..Len(s) : (<<fr>> \o s)[i + 1] = s[i]
OBVIOUS

LEMMA UnconsFacts ==
  ASSUME NEW s \in Seq(Frames), s # <<>>
  PROVE  /\ Len(s) \in Nat \ {0} /\ Len(Tail(s)) = Len(s) - 1
         /\ Head(s) = s[1] /\ Tail(s) \in Seq(Frames)
         /\ \A i \in 1..(Len(s) - 1) : Tail(s)[i] = s[i + 1]
OBVIOUS

LEMMA LineFacts ==
  ASSUME stack \in Seq(Frames)
  PROVE  /\ Len(stack) \in Nat
         /\ Line[0] = ReturnedErr
         /\ \A i \in 1..Len(stack) : Line[i] = FrameErr(stack[i])
BY DEF Line

LEMMA LineFactsPrime ==
  ASSUME stack' \in Seq(Frames)
  PROVE  /\ Len(stack') \in Nat
         /\ Line'[0] = ReturnedErr'
         /\ \A i \in 1..Len(stack') : Line'[i] = FrameErr(stack'[i])
BY DEF Line, FrameErr

LEMMA InitBest == Init => BestIsFirst
<1>. SUFFICES ASSUME Init PROVE FirstBest(Line, Len(stack), best)
  BY DEF BestIsFirst
<1>1. stack \in Seq(Frames) /\ Len(stack) = 0 /\ best = None /\ pc = "route"
  BY DEF Init
<1>2. \A i \in 0..Len(stack) : Line[i] = None
  BY <1>1, LineFacts DEF ReturnedErr
<1>. QED
  BY <1>1, <1>2 DEF FirstBest

LEMMA NextBest ==
  ASSUME TypeOK, TypeOK', BestIsFirst, CapturesHold, [Next]_vars
  PROVE  BestIsFirst'
<1>. SUFFICES ASSUME Open' PROVE FirstBest(Line', Len(stack'), best')
  BY DEF BestIsFirst
<1>t. /\ stack \in Seq(Frames) /\ stack' \in Seq(Frames)
      /\ Len(stack) \in Nat
      /\ Line[0] = ReturnedErr /\ Line'[0] = ReturnedErr'
      /\ \A i \in 1..Len(stack) : Line[i] = FrameErr(stack[i])
      /\ \A i \in 1..Len(stack') : Line'[i] = FrameErr(stack'[i])
  BY LineFacts, LineFactsPrime DEF TypeOK
<1>o. \A i \in 0..Len(stack) : i = 0 \/ i \in 1..Len(stack)
  BY <1>t
\* A step that neither calls nor returns.
<1>s. ASSUME Open, stack' = stack, ReturnedErr' = ReturnedErr, best' = best
      PROVE  FirstBest(Line', Len(stack'), best')
  BY <1>s, <1>t, <1>o, SameLine DEF BestIsFirst
\* A step that fails, with the stack as it was.
<1>f. ASSUME Open, pc # "return", stack' = stack, NEW err \in Errors, ReturnFail(err)
      PROVE  FirstBest(Line', Len(stack'), best')
  <2>1. /\ Line[0] = None /\ Line'[0] = err /\ err # None
        /\ best' = CombineFail(best, err)
    BY <1>f, <1>t, NoneIsNoError DEF ReturnedErr, ReturnFail, Fail
  <2>2. FirstBest(Line, Len(stack), best)
    BY <1>f DEF BestIsFirst
  <2>. QED
    BY <1>f, <1>t, <2>1, <2>2, FailLine
\* A step that adds a call without an error to the stack.
<1>c. ASSUME pc = "route", pc' # "return", NEW fr \in Frames, FrameErr(fr) = None,
             stack' = <<fr>> \o stack, best' = best
      PROVE  FirstBest(Line', Len(stack'), best')
  <2>1. /\ Len(stack') = Len(stack) + 1 /\ stack'[1] = fr
        /\ \A i \in 1..Len(stack) : stack'[i + 1] = stack[i]
    BY <1>c, <1>t, ConsFacts
  <2>2. Line[0] = None /\ Line'[0] = None /\ Line'[1] = None
    BY <1>c, <1>t, <2>1 DEF ReturnedErr
  <2>3. \A i \in 1..Len(stack) : Line'[i + 1] = Line[i]
    BY <1>t, <2>1
  <2>4. FirstBest(Line, Len(stack), best)
    BY <1>c DEF BestIsFirst, Open
  <2>. QED
    BY <1>c, <1>t, <2>1, <2>2, <2>3, <2>4, PushLine
<1>1. CASE RouteStep
  <2>1. Open
    BY <1>1, RouteStepFacts DEF Open, RoutePhases
  <2>2. CASE RouteStaticHere
    <3>. DEFINE fr == [f |-> "leaves", todo |-> at.node.leaves, err |-> None,
                       caps |-> at.caps, rest |-> at.rest]
    <3>1. /\ pc = "route" /\ pc' = "leaves" /\ stack' = <<fr>> \o stack /\ best' = best
          /\ at.node.t = "Static"
      BY <2>2 DEF RouteStaticHere
    <3>2. fr \in Frames /\ FrameErr(fr) = None
      BY <3>1, NodesAreClosed DEF TypeOK, Positions, Frames, FrameErr
    <3>. HIDE DEF fr
    <3>. QED
      BY <1>c, <3>1, <3>2
  <2>3. CASE RouteChoice
    <3>. DEFINE fr == [f |-> "left", then |-> [at EXCEPT !.node = at.node.right]]
    <3>1. /\ pc = "route" /\ pc' = "route" /\ stack' = <<fr>> \o stack /\ best' = best
          /\ at.node.t = "Choice"
      BY <2>3 DEF RouteChoice
    <3>2. fr \in Frames /\ FrameErr(fr) = None
      BY <3>1, NodesAreClosed DEF TypeOK, Positions, Frames, FrameErr
    <3>. HIDE DEF fr
    <3>. QED
      BY <1>c, <3>1, <3>2
  <2>4. CASE RouteStaticDeeper \/ RouteCapture
    <3>1. /\ pc = "route" /\ stack' = stack
          /\ \/ pc' = pc /\ UNCHANGED <<ret, best>>
             \/ ReturnFail(NotFound)
      BY <2>4 DEF RouteStaticDeeper, RouteCapture
    <3>. QED
      BY <1>s, <1>f, <2>1, <3>1, NotFoundType DEF NotFoundFacts, ReturnedErr
  <2>5. CASE RouteCaptureAll \/ RouteRaw
    <3>1. /\ pc = "route" /\ pc' \in {"route", "captures", "host"} /\ stack' = stack
          /\ best' = best
      BY <2>5 DEF RouteCaptureAll, RouteRaw, BeginCall, routing
    <3>. QED
      BY <1>s, <2>1, <3>1 DEF ReturnedErr
  <2>6. CASE NextLeaf
    <3>. DEFINE top == Head(stack)
                n == Len(stack)
    <3>1. pc = "leaves" /\ stack # <<>> /\ top.f = "leaves" /\ top \in Frames
      BY <2>6, <1>t, StackTypes DEF NextLeaf, TypeOK
    <3>2. /\ n \in Nat \ {0} /\ Len(Tail(stack)) = n - 1 /\ top = stack[1]
          /\ Tail(stack) \in Seq(Frames)
          /\ \A i \in 1..(n - 1) : Tail(stack)[i] = stack[i + 1]
      BY <1>t, <3>1, UnconsFacts
    <3>3. FirstBest(Line, n, best) /\ Line[0] = None /\ Line[1] = top.err
      BY <1>t, <2>1, <3>1, <3>2 DEF BestIsFirst, ReturnedErr, FrameErr
    <3>4. CASE top.todo # <<>>
      <4>. DEFINE fr == [top EXCEPT !.todo = Tail(top.todo)]
      <4>1. /\ pc' \in {"captures", "host"} /\ best' = best
            /\ stack' = <<fr>> \o Tail(stack)
        BY <2>6, <3>4 DEF NextLeaf, BeginCall
      <4>2. Tail(top.todo) \in Seq(Leaves) /\ top.err \in {None} \cup Errors
        BY <3>1, <3>4, FrameKinds
      <4>3. fr \in Frames /\ FrameErr(fr) = top.err
        BY <3>1, <4>2, LeavesFrame DEF FrameErr
      <4>. HIDE DEF fr, top, n
      <4>4. /\ Len(stack') = n /\ stack'[1] = fr
            /\ \A i \in 1..(n - 1) : stack'[i + 1] = stack[i + 1]
        BY <3>2, <4>1, <4>3, ConsFacts
      <4>5. \A i \in 1..n : i = 1 \/ (i - 1 \in 1..(n - 1) /\ (i - 1) + 1 = i)
        BY <3>2
      <4>6. \A i \in 1..n : Line'[i] = Line[i]
        <5>1. Line'[1] = Line[1]
          BY <1>t, <3>2, <3>3, <4>3, <4>4
        <5>2. ASSUME NEW i \in 1..n, i # 1 PROVE Line'[i] = Line[i]
          <6>1. stack'[i] = stack[i]
            BY <4>4, <4>5, <5>2
          <6>. QED
            BY <1>t, <4>4, <6>1 DEF n
        <5>. QED
          BY <5>1, <5>2
      <4>7. Line'[0] = None
        BY <1>t, <4>1 DEF ReturnedErr
      <4>8. \A i \in 0..n : Line'[i] = Line[i]
        BY <1>o, <3>3, <4>6, <4>7 DEF n
      <4>. QED
        BY <3>2, <3>3, <4>1, <4>4, <4>8, SameLine
    <3>5. CASE top.todo = <<>>
      <4>. DEFINE e == IF top.err = None THEN NotFound ELSE top.err
                  mid == [i \in 0..(n - 1) |-> Line[i + 1]]
      <4>1. /\ stack' = Tail(stack)
            /\ ReturnFail(e)
        BY <2>6, <3>5 DEF NextLeaf
      <4>2. e # None /\ best' = CombineFail(best, e) /\ Line'[0] = e
        <5>1. e # None
          BY NotFoundType, NoneIsNoError DEF NotFoundFacts
        <5>2. best' = CombineFail(best, e) /\ pc' = "return" /\ ret' = Fail(e)
          BY <4>1 DEF ReturnFail
        <5>. QED
          BY <5>1, <5>2, <1>t DEF ReturnedErr, Fail
      <4>. HIDE DEF n, top
      <4>3. /\ mid[0] = Line[1]
            /\ \A i \in 0..(n - 1) : mid[i] = Line[i + 1]
            /\ n - 1 \in Nat
        BY <3>2
      <4>. HIDE DEF mid
      <4>4. FirstBest(mid, n - 1, best)
        BY <3>2, <3>3, <4>3, LowerLine
      <4>5. \A i \in 1..(n - 1) : Line'[i] = mid[i]
        <5>1. Len(stack') = n - 1
          BY <3>2, <4>1
        <5>2. ASSUME NEW i \in 1..(n - 1) PROVE Line'[i] = mid[i]
          <6>1. i \in 0..(n - 1) /\ i + 1 \in 1..n
            BY <3>2
          <6>2. mid[i] = FrameErr(stack[i + 1])
            BY <1>t, <4>3, <6>1 DEF n
          <6>. QED
            BY <1>t, <3>2, <4>1, <5>1, <6>2
        <5>. QED
          BY <5>2
      <4>6. CASE top.err = None
        <5>1. mid[0] = None
          BY <3>3, <4>3, <4>6
        <5>. QED
          BY <3>2, <4>1, <4>2, <4>3, <4>4, <4>5, <5>1, FailLine
      <4>7. CASE top.err # None
        <5>1. e = top.err /\ mid[0] = e
          BY <3>3, <4>3, <4>7
        <5>2. best # None /\ P(e) <= P(best)
          <6>1. 0 \in 0..(n - 1)
            BY <4>3
          <6>. QED
            BY <4>2, <4>4, <5>1, <6>1 DEF FirstBest
        <5>3. best' = best
          BY <4>2, <5>2, Combined
        <5>4. \A i \in 0..(n - 1) : Line'[i] = mid[i]
          <6>1. \A i \in 0..(n - 1) : i = 0 \/ i \in 1..(n - 1)
            BY <4>3
          <6>. QED
            BY <4>2, <4>5, <5>1, <6>1
        <5>. QED
          BY <3>2, <4>1, <4>3, <4>4, <5>3, <5>4, SameLine
      <4>. QED
        BY <4>6, <4>7
    <3>. QED
      BY <3>4, <3>5
  <2>. QED
    BY <1>1, <2>2, <2>3, <2>4, <2>5, <2>6 DEF RouteStep
<1>2. CASE CallStep
  <2>1. CallSummary /\ pc \in CallPhases
    BY <1>2, CallSteps DEF CallInv, CallSummary, CallPhases
  <2>2. Open /\ pc # "return" /\ stack' = stack
    BY <2>1, Phases DEF Open, CallSummary, routing
  <2>3. CASE pc' \in CallPhases /\ best' = best
    BY <1>s, <2>2, <2>3, Phases DEF ReturnedErr
  <2>4. CASE Declines
    BY <1>f, <2>2, <2>4 DEF Declines
  <2>5. CASE Settles
    BY <2>5 DEF Settles, ReturnFatal, FailFatal, Open
  <2>. QED
    BY <2>1, <2>3, <2>4, <2>5, Phases DEF CallSummary, GoesOn
<1>3. CASE RunHandler
  <2>1. pc' = "return" /\ ret'.tag = "Route"
    BY <1>3, RunHandlerType DEF RunHandler
  <2>. QED
    BY <2>1 DEF Open
<1>4. CASE ReturnStep
  <2>. DEFINE n == Len(stack)
  <2>1. CASE ReturnThrough \/ Respond
    BY <2>1 DEF ReturnThrough, Respond, Open
  <2>2. CASE ReturnFromLeft \/ ReturnFromLeaf \/ ReturnFromRight
    <3>1. /\ pc = "return" /\ ret.tag = "Fail" /\ stack # <<>> /\ best' = best
          /\ Head(stack).f \in {"left", "leaves", "right"}
      BY <2>2 DEF ReturnFromLeft, ReturnFromLeaf, ReturnFromRight, Returning
    <3>2. /\ n \in Nat \ {0} /\ Len(Tail(stack)) = n - 1 /\ Head(stack) = stack[1]
          /\ Tail(stack) \in Seq(Frames) /\ Head(stack) \in Frames
          /\ \A i \in 1..(n - 1) : Tail(stack)[i] = stack[i + 1]
      BY <1>t, <3>1, UnconsFacts, StackTypes
    <3>3. ret \in Results /\ ret.val \in Errors /\ ret.val # None
      BY <3>1, ResultKinds, NoneIsNoError DEF TypeOK
    <3>4. /\ FirstBest(Line, n, best)
          /\ Line[0] = ret.val /\ Line[1] = FrameErr(Head(stack))
      BY <1>t, <3>1, <3>2 DEF BestIsFirst, Open, ReturnedErr
    <3>5. CASE ReturnFromRight
      <4>1. /\ stack' = Tail(stack) /\ pc' = pc
            /\ ret' = Fail(CombineFail(Head(stack).err, ret.val))
            /\ Head(stack).f = "right"
        BY <3>5 DEF ReturnFromRight, Returning
      <4>2. Line'[0] = CombineFail(Line[1], Line[0])
        BY <1>t, <3>1, <3>4, <4>1 DEF ReturnedErr, Fail, FrameErr
      <4>3. ASSUME NEW i \in 1..(n - 1) PROVE Line'[i] = Line[i + 1]
        <5>1. i + 1 \in 1..n
          BY <3>2
        <5>. QED
          BY <1>t, <3>2, <4>1, <5>1
      <4>. QED
        BY <3>1, <3>2, <3>3, <3>4, <4>1, <4>2, <4>3, PopLine
    \* The two that put a frame with the combined error in the first one's place.
    <3>6. ASSUME NEW fr \in Frames, FrameErr(fr) = CombineFail(Line[1], Line[0]),
                 stack' = <<fr>> \o Tail(stack), pc' # "return"
          PROVE  FirstBest(Line', Len(stack'), best')
      <4>. HIDE DEF n
      <4>1. /\ Len(stack') = n /\ stack'[1] = fr
            /\ \A i \in 1..(n - 1) : stack'[i + 1] = stack[i + 1]
        BY <3>2, <3>6, ConsFacts
      <4>2. Line'[0] = None /\ Line'[1] = CombineFail(Line[1], Line[0])
        BY <1>t, <3>2, <3>6, <4>1 DEF ReturnedErr
      <4>3. ASSUME NEW i \in 2..n PROVE Line'[i] = Line[i]
        <5>1. i - 1 \in 1..(n - 1) /\ (i - 1) + 1 = i /\ i \in 1..n
          BY <3>2
        <5>2. stack'[i] = stack[i]
          BY <4>1, <5>1
        <5>. QED
          BY <1>t, <4>1, <5>1, <5>2 DEF n
      <4>. QED
        BY <3>1, <3>2, <3>3, <3>4, <4>1, <4>2, <4>3, KeepLine
    <3>7. CASE ReturnFromLeft
      <4>. DEFINE fr == [f |-> "right", err |-> ret.val]
      <4>1. /\ stack' = <<fr>> \o Tail(stack) /\ pc' = "route"
            /\ Head(stack).f = "left"
        BY <3>7 DEF ReturnFromLeft, Returning
      <4>2. fr \in Frames /\ FrameErr(fr) = ret.val
        BY <3>3 DEF Frames, FrameErr
      <4>3. CombineFail(Line[1], Line[0]) = ret.val
        BY <3>4, <4>1 DEF FrameErr, CombineFail
      <4>. HIDE DEF fr
      <4>. QED
        BY <3>6, <4>1, <4>2, <4>3
    <3>8. CASE ReturnFromLeaf
      <4>. DEFINE new == CombineFail(Head(stack).err, ret.val)
                  fr == [Head(stack) EXCEPT !.err = new]
      <4>1. /\ stack' = <<fr>> \o Tail(stack) /\ pc' = "leaves"
            /\ Head(stack).f = "leaves"
        BY <3>8 DEF ReturnFromLeaf, Returning
      <4>2. Head(stack).todo \in Seq(Leaves) /\ new \in {None} \cup Errors
        BY <3>2, <3>3, <4>1, FrameKinds, CombineFailType
      <4>3. new = CombineFail(Line[1], Line[0])
        BY <3>4, <4>1 DEF FrameErr
      <4>. HIDE DEF new
      <4>4. fr \in Frames /\ FrameErr(fr) = new
        BY <3>2, <4>1, <4>2, LeavesFrame, ZenonT(60) DEF FrameErr
      <4>. HIDE DEF fr
      <4>. QED
        BY <3>6, <4>1, <4>3, <4>4
    <3>. QED
      BY <2>2, <3>5, <3>7, <3>8
  <2>. QED
    BY <1>4, <2>1, <2>2 DEF ReturnStep
<1>5. CASE Done \/ UNCHANGED vars
  BY <1>5, <1>s DEF Done, vars, Open, ReturnedErr
<1>. QED
  BY <1>1, <1>2, <1>3, <1>4, <1>5 DEF Next, Step, CallStep

-----------------------------------------------------------------------------
(***************************************************************************)
(* The refinement.                                                         *)
(***************************************************************************)
RInv == IInv /\ BestIsFirst

LEMMA RInvariance == Spec => []RInv
<1>1. Init => RInv
  BY InitInv, InitBest DEF RInv
<1>2. RInv /\ [Next]_vars => RInv'
  <2>. SUFFICES ASSUME RInv, [Next]_vars PROVE RInv'
    OBVIOUS
  <2>1. IInv'
    BY NextInv DEF RInv
  <2>2. BestIsFirst'
    BY <2>1, NextBest DEF RInv, IInv
  <2>. QED
    BY <2>1, <2>2 DEF RInv
<1>. QED
  BY <1>1, <1>2, PTL DEF Spec

\* With an empty stack, the error on its way is the best one.
LEMMA LastError ==
  ASSUME RInv, pc = "return", stack = <<>>, ret.tag = "Fail"
  PROVE  best # None /\ ret = Fail(best) /\ slot = "Streaming"
<1>1. stack \in Seq(Frames) /\ ret \in Results /\ Len(stack) = 0
  BY DEF RInv, IInv, TypeOK
<1>2. ret.val \in Errors /\ ret.val # None /\ ret = [tag |-> "Fail", val |-> ret.val]
  BY <1>1, ResultKinds, NoneIsNoError
<1>3. FirstBest(Line, 0, best)
  BY <1>1 DEF RInv, BestIsFirst, Open
<1>4. Line[0] = ret.val
  BY <1>1, LineFacts DEF ReturnedErr
<1>5. best # None
  BY <1>2, <1>3, <1>4 DEF FirstBest
<1>6. ret.val = best
  BY <1>3, <1>4, <1>5 DEF FirstBest
<1>7. slot = "Streaming"
  BY DEF RInv, IInv, BodyUntouchedUntilCommit
<1>. QED
  BY <1>2, <1>5, <1>6, <1>7 DEF Fail

\* Every step is a step of the flat list or leaves its state alone.
LEMMA RefinedStep ==
  ASSUME RInv, RInv', [Next]_vars
  PROVE  [Flat!AltNext]_Flat!altVars
<1>t. TypeOK /\ TypeOK' /\ CapturesHold /\ BodyUntouchedUntilCommit
  BY DEF RInv, IInv
<1>. DEFINE Running == pc # "done" /\ pc' # "done"
<1>s. ASSUME best' = best, slot' = slot, Running
      PROVE  [Flat!AltNext]_Flat!altVars
  BY <1>s DEF Flat!altVars
<1>d. ASSUME slot = "Streaming", slot' = slot, Running,
             NEW err \in Errors, best' = CombineFail(best, err)
      PROVE  [Flat!AltNext]_Flat!altVars
  BY <1>d DEF Flat!AltNext, Flat!Decline, CombineFail, Flat!CombineFail, Flat!Priority,
              Priority
<1>c. ASSUME slot' = slot \/ slot' # "Streaming", Running, best' = best
      PROVE  [Flat!AltNext]_Flat!altVars
  BY <1>c DEF Flat!AltNext, Flat!Consume, Flat!altVars
<1>1. CASE RouteStep
  <2>1. pc \in RoutePhases /\ slot' = slot /\ slot = "Streaming" /\ pc # "done"
    BY <1>1, <1>t, RouteStepFacts, Phases DEF BodyUntouchedUntilCommit
  <2>2. CASE pc' # "done" /\ best' = best
    BY <1>s, <2>1, <2>2
  <2>3. ASSUME NEW err, ReturnFail(err) PROVE [Flat!AltNext]_Flat!altVars
    <3>1. pc' = "return" /\ ret' = Fail(err) /\ best' = CombineFail(best, err)
      BY <2>3 DEF ReturnFail
    <3>2. err \in Errors
      <4>1. ret' \in Results /\ ret'.tag # "Route" /\ ret'.val = err
        BY <1>t, <3>1 DEF TypeOK, Fail
      <4>. QED
        BY <4>1, ResultKinds
    <3>. QED
      BY <1>d, <2>1, <3>1, <3>2
  <2>. QED
    BY <1>1, <2>2, <2>3, RouteStepFacts, Phases
<1>2. CASE CallStep
  <2>1. CallSummary
    BY <1>2, <1>t, CallSteps DEF CallInv
  <2>2. pc # "done" /\ (pc \in CheckPhases => slot = "Streaming")
    BY <1>t, <2>1, Phases DEF CallSummary, BodyUntouchedUntilCommit
  <2>3. CASE Declines /\ pc \in CheckPhases
    <3>1. PICK err \in Errors : ReturnFail(err) /\ slot' = slot
      BY <2>3 DEF Declines
    <3>2. pc' = "return" /\ best' = CombineFail(best, err)
      BY <3>1 DEF ReturnFail
    <3>. QED
      BY <1>d, <2>2, <2>3, <3>1, <3>2
  <2>4. CASE ~(Declines /\ pc \in CheckPhases)
    <3>1. best' = best /\ pc' # "done"
      BY <2>1, <2>4, Phases DEF CallSummary, GoesOn, Settles, ReturnFatal
    <3>2. slot' = slot \/ slot' # "Streaming"
      BY <2>1 DEF CallSummary
    <3>. QED
      BY <1>c, <2>2, <3>1, <3>2
  <2>. QED
    BY <2>3, <2>4
<1>3. CASE RunHandler
  BY <1>3, <1>s DEF RunHandler
<1>4. CASE ReturnStep
  <2>1. CASE pc' # "done"
    BY <1>4, <2>1, <1>s, ReturnStepFacts
  <2>2. CASE pc' = "done"
    <3>1. Respond
      BY <1>4, <2>2 DEF ReturnStep, ReturnThrough, ReturnFromLeft, ReturnFromRight,
                        ReturnFromLeaf, Returning
    <3>2. /\ pc = "return" /\ stack = <<>> /\ ret' = ret /\ slot' = slot /\ best' = best
      BY <3>1 DEF Respond
    <3>3. ret \in Results
      BY <1>t, <3>2 DEF TypeOK
    <3>4. CASE ret.tag = "Fail"
      <4>1. best # None /\ ret = Fail(best) /\ slot = "Streaming"
        BY <3>2, <3>4, LastError
      <4>. QED
        BY <2>2, <3>2, <4>1 DEF Flat!AltNext, Flat!GiveUp, Flat!Fail, Fail
    <3>5. CASE ret.tag = "Route"
      <4>1. ret.val \in Responses /\ ret = [tag |-> "Route", val |-> ret.val]
        BY <3>3, <3>5, ResultKinds
      <4>. QED
        BY <2>2, <3>2, <4>1 DEF Flat!AltNext, Flat!Commit, Flat!Route
    <3>6. CASE ret.tag = "FailFatal"
      <4>1. ret.val \in Errors /\ ret = [tag |-> "FailFatal", val |-> ret.val]
        BY <3>3, <3>6, ResultKinds
      <4>. QED
        BY <2>2, <3>2, <4>1 DEF Flat!AltNext, Flat!Commit, Flat!FailFatal
    <3>. QED
      BY <3>3, <3>4, <3>5, <3>6, ResultKinds
  <2>. QED
    BY <2>1, <2>2
<1>5. CASE Done \/ UNCHANGED vars
  BY <1>5 DEF Done, vars, Flat!altVars
<1>. QED
  BY <1>1, <1>2, <1>3, <1>4, <1>5 DEF Next, Step, CallStep

\* dispatch, with its nested choices and leaf lists (router.rs:119-197),
\* implements the flat list of alternatives with one running combine_fail
\* (result.rs:34-47), for every router.
THEOREM FlatRefinement == Spec => FlatAlternatives
<1>1. Init => Flat!AltInit
  BY DEF Init, Flat!AltInit
<1>2. RInv /\ RInv' /\ [Next]_vars => [Flat!AltNext]_Flat!altVars
  BY RefinedStep
<1>. QED
  BY <1>1, <1>2, RInvariance, PTL DEF Spec, FlatAlternatives, Flat!AltSpec

-----------------------------------------------------------------------------
(***************************************************************************)
(* Every call of a leaf ends as LeafCall specifies, for every chain,       *)
(* request and context, and whatever router found the leaf.                *)
(*                                                                         *)
(* The specification names combinators by their position; the code walks   *)
(* the chain twice with one mutable ExtractState.  The invariant says what *)
(* the state holds at each position k: the contexts are the scope of k     *)
(* (InScope), the kept users are those of the authentications before k on  *)
(* the first walk and from k on during the second (UsersKept, UsersLeft),  *)
(* and the arguments so far are the ones specified (ArgumentsSoFar).       *)
(***************************************************************************)
Mode == RequestBodyMode(Chain)
Unauthorized == AuthFailures(Chain, req, api.context)
ArgumentAt(i) == Argument(Chain, call.caps, call.rest, req, api.context, i)
RefusalAt(i) == ArgumentCode(Chain, req, api.context, i)

InScope ==
  /\ k \in 1..(Len(Chain) + 1)
  /\ st.ctxs = Scope(Chain, api.context)[k - 1]

UserOf(i) ==
  [usr |-> Chain[i].usr, val |-> CheckAt(Chain, api.context, i)[req.creds]]

\* The first walk has kept the users of the authentications before k.
UsersKept ==
  /\ \E S : st.users \in Seq(S)
  /\ Len(st.users) = Index(Chain, "Auth", k - 1)
  /\ \A i \in 1..(k - 1) : Chain[i].c = "Auth" =>
       st.users[Index(Chain, "Auth", i)] = UserOf(i)

\* The second walk still has those from k on.
UsersLeft ==
  /\ \E S : st.users \in Seq(S)
  /\ Len(st.users) = Index(Chain, "Auth", Len(Chain)) - Index(Chain, "Auth", k - 1)
  /\ \A i \in k..Len(Chain) : Chain[i].c = "Auth" =>
       st.users[Index(Chain, "Auth", i) - Index(Chain, "Auth", k - 1)] = UserOf(i)

ArgumentsSoFar(n) ==
  /\ \E S : args \in Seq(S)
  /\ Len(args) = n
  /\ \A i \in 1..n : args[i] = ArgumentAt(i) /\ RefusalAt(i) = None

\* The phases a leaf call has behind it refused nothing.
PhasesPassed ==
  /\ pc \in CallPhases \ {"captures", "host"} => HostMatches(Chain, req)
  /\ pc \in CallPhases \ {"captures", "host"} /\ ~IsRaw(call.leaf) =>
       /\ pc # "method" => MethodMatches(call.leaf, req)
       /\ pc \notin {"method", "accept"} => Acceptable(call.leaf, req)
       /\ pc \notin {"method", "accept", "contentType"} =>
            ContentTypeAcceptable(Chain, req)

AuthSoFar ==
  /\ pc = "preBody" => /\ InScope /\ UsersKept
                       /\ \A i \in 1..(k - 1) : i \notin Unauthorized
                       /\ st.rest = call.rest
  /\ pc \in CommittedPhases /\ ~IsRaw(call.leaf) => Unauthorized = {}

BodySoFar ==
  /\ pc = "body" => /\ slot = "Streaming"
                    /\ ~IsRaw(call.leaf) => Mode = "Buffered" /\ k = 1
  /\ pc = "extract" =>
       IF Mode = "Buffered" THEN slot = "Buffered" /\ BufferError(req) = None
       ELSE slot = IF Earlier(Chain, "StreamBody", k) THEN "Taken" ELSE "Streaming"
  /\ pc = "handler" /\ (IsRaw(call.leaf) \/ Mode = "Buffered") =>
       BufferError(req) = None

ExtractSoFar ==
  /\ pc \in {"body", "extract"} /\ ~IsRaw(call.leaf) =>
       /\ InScope /\ UsersLeft /\ ArgumentsSoFar(k - 1)
       /\ st.rest = IF Earlier(Chain, "CaptureAll", k) THEN None ELSE call.rest
  /\ pc = "handler" /\ ~IsRaw(call.leaf) => ArgumentsSoFar(Len(Chain))

LeafInv ==
  /\ IInv
  /\ PhasesPassed
  /\ AuthSoFar
  /\ BodySoFar
  /\ ExtractSoFar
  /\ ArgumentsOfTheCall
-----------------------------------------------------------------------------
(***************************************************************************)
(* Chains and counts.                                                      *)
(***************************************************************************)
\* A call's chain has its positions.
LEMMA ChainShape ==
  ASSUME call \in Calls
  PROVE  Len(Chain) \in Nat /\ DOMAIN Chain = 1..Len(Chain)
<1>1. call.leaf \in Leaves
  BY DEF Calls
<1>. QED
  BY <1>1, ChainsAreSequences DEF Chain

\* Later positions have counted at least as many, and themselves besides.
LEMMA IndexGrows ==
  ASSUME NEW chain, NEW c, NEW i \in Nat, NEW j \in Nat, i <= j
  PROVE  /\ Index(chain, c, i) \in Nat /\ Index(chain, c, j) \in Nat
         /\ Index(chain, c, i) <= Index(chain, c, j)
         /\ i < j /\ chain[j].c = c => Index(chain, c, i) < Index(chain, c, j)
<1>. DEFINE S(n) == {m \in 1..n : chain[m].c = c}
<1>0. \A n : Index(chain, c, n) = Cardinality(S(n))
  BY DEF Index
<1>1. ASSUME NEW n \in Nat PROVE IsFiniteSet(S(n))
  <2>1. IsFiniteSet(1..n)
    BY FS_Interval
  <2>. QED
    BY <2>1, FS_Subset
<1>2. ASSUME NEW n \in Nat, n <= j
      PROVE  Cardinality(S(n)) \in Nat /\ Cardinality(S(n)) <= Cardinality(S(j))
  <2>1. S(n) \subseteq S(j) /\ IsFiniteSet(S(j)) /\ IsFiniteSet(S(n))
    BY <1>1, <1>2
  <2>. HIDE DEF S
  <2>. QED
    BY <2>1, FS_Subset, FS_CardinalityType
<1>3. ASSUME i < j, chain[j].c = c
      PROVE  Index(chain, c, i) < Index(chain, c, j)
  <2>1. /\ j - 1 \in Nat /\ i <= j - 1 /\ j \in Nat \ {0}
    BY <1>3
  <2>2. Index(chain, c, i) <= Index(chain, c, j - 1)
    <3>1. S(i) \subseteq S(j - 1) /\ IsFiniteSet(S(j - 1))
      BY <1>1, <2>1
    <3>. HIDE DEF S
    <3>. QED
      BY <1>0, <3>1, FS_Subset
  <2>3. /\ Index(chain, c, i) \in Nat
        /\ Index(chain, c, j - 1) \in Nat
        /\ Index(chain, c, j) = Index(chain, c, j - 1) + 1
    BY <1>0, <1>2, <1>3, <2>1, IndexStep
  <2>. QED
    BY <2>2, <2>3
<1>. HIDE DEF S
<1>. QED
  BY <1>0, <1>2, <1>3

-----------------------------------------------------------------------------
(***************************************************************************)
(* Scopes.                                                                 *)
(***************************************************************************)
ScopeStep(chain, context, i, before) ==
  IF i = 0 THEN <<context>>
  ELSE IF chain[i].c = "Named" THEN EnterNamed(before, chain[i].name) ELSE before

\* The scopes up to position m, by their recursion.
ScopesUpTo(chain, context, f, m) ==
  f = [i \in 0..m |-> ScopeStep(chain, context, i, f[i - 1])]

\* Scope is defined at every position: each is the one before it, with the
\* named context pushed at a Named (named_context.rs:7-22).
LEMMA ScopeUnrolls ==
  ASSUME NEW chain, NEW context, Len(chain) \in Nat
  PROVE  /\ Scope(chain, context)[0] = <<context>>
         /\ \A i \in 1..Len(chain) :
              Scope(chain, context)[i] =
                IF chain[i].c = "Named"
                THEN EnterNamed(Scope(chain, context)[i - 1], chain[i].name)
                ELSE Scope(chain, context)[i - 1]
<1>. DEFINE N == Len(chain)
            Is(f, m) == ScopesUpTo(chain, context, f, m)
            Stp(i, x) == ScopeStep(chain, context, i, x)
<1>1. Scope(chain, context) = CHOOSE f : Is(f, N)
  BY Zenon DEF Scope, ScopesUpTo, ScopeStep
<1>2. \A x, y : Stp(0, x) = Stp(0, y)
  BY DEF ScopeStep
<1>3. \A f, m : Is(f, m) <=> f = [i \in 0..m |-> Stp(i, f[i - 1])]
  BY DEF ScopesUpTo
<1>. HIDE DEF Is, Stp
<1>4. \E f : Is(f, N)
  <2>. DEFINE T == {m \in 0..N : ~ \E f : Is(f, m)}
  <2>. SUFFICES ASSUME T # {} PROVE FALSE
    OBVIOUS
  <2>1. PICK m \in T : \A j \in T : m <= j
    <3>1. T \subseteq Nat
      OBVIOUS
    <3>. HIDE DEF T
    <3>. QED
      BY <3>1, LeastNat
  <2>2. CASE m = 0
    <3>. DEFINE z == Stp(0, 0)
                h == [i \in 0..0 |-> z]
    <3>1. h = [i \in 0..0 |-> Stp(i, h[i - 1])]
      BY <1>2
    <3>. QED
      BY <1>3, <2>1, <2>2, <3>1
  <2>3. CASE m # 0
    <3>1. PICK g : Is(g, m - 1)
      BY <2>1, <2>3
    <3>2. g = [i \in 0..(m - 1) |-> Stp(i, g[i - 1])]
      BY <1>3, <3>1
    <3>. DEFINE h == [i \in 0..m |-> IF i = m THEN Stp(m, g[m - 1]) ELSE g[i]]
    <3>3. ASSUME NEW i \in 0..m PROVE h[i] = Stp(i, h[i - 1])
      <4>1. CASE i = m
        BY <4>1, <2>3, <2>1
      <4>2. CASE i # m /\ i # 0
        BY <4>2, <2>3, <2>1, <3>2
      <4>3. CASE i = 0
        BY <4>3, <2>3, <2>1, <3>2, <1>2
      <4>. QED
        BY <4>1, <4>2, <4>3
    <3>4. h = [i \in 0..m |-> Stp(i, h[i - 1])]
      BY <3>3
    <3>. QED
      BY <1>3, <2>1, <3>4
  <2>. QED
    BY <2>2, <2>3
<1>5. Is(Scope(chain, context), N)
  BY <1>1, <1>4
<1>6. \A i \in 0..N : Scope(chain, context)[i] = Stp(i, Scope(chain, context)[i - 1])
  BY <1>3, <1>5
<1>. QED
  BY <1>6 DEF Stp, ScopeStep

\* A stack of contexts with the base at its bottom.
Based(ctxs, context) ==
  \E S : /\ ctxs \in Seq(S) /\ Len(ctxs) >= 1 /\ ctxs[1] = context

\* Entering a named context leaves the base where it is.
LEMMA EnterKeepsBase ==
  ASSUME NEW ctxs, NEW context, NEW name, Based(ctxs, context)
  PROVE  Based(EnterNamed(ctxs, name), context)
<1>. DEFINE named == LookupCtx(ctxs, "named", name)
<1>1. PICK S : ctxs \in Seq(S) /\ Len(ctxs) >= 1 /\ ctxs[1] = context
  BY DEF Based
<1>. HIDE DEF named
<1>2. /\ Append(ctxs, named) \in Seq(S \cup {named})
      /\ Len(Append(ctxs, named)) >= 1 /\ Append(ctxs, named)[1] = context
  BY <1>1
<1>3. Based(Append(ctxs, named), context)
  BY <1>2 DEF Based
<1>. QED
  BY <1>3 DEF EnterNamed, named

\* Popping what a walk has pushed leaves the base context
\* (named_context.rs:17-20).
LEMMA ScopeLeaves ==
  ASSUME NEW chain, NEW context, Len(chain) \in Nat, NEW i \in 0..Len(chain)
  PROVE  LeaveNamed(Scope(chain, context)[i]) = Scope(chain, context)[0]
<1>. DEFINE T == {m \in 0..Len(chain) : ~Based(Scope(chain, context)[m], context)}
            scope == Scope(chain, context)
<1>0. Scope(chain, context)[0] = <<context>>
  BY ScopeUnrolls
<1>1. ASSUME T # {} PROVE FALSE
  <2>1. PICK m \in T : \A j \in T : m <= j
    <3>1. T \subseteq Nat
      OBVIOUS
    <3>. HIDE DEF T
    <3>. QED
      BY <1>1, <3>1, LeastNat
  <2>2. m # 0
    <3>1. <<context>> \in Seq({context}) /\ Len(<<context>>) >= 1 /\ <<context>>[1] = context
      OBVIOUS
    <3>. QED
      BY <1>0, <2>1, <3>1 DEF Based
  <2>3. m - 1 \in 0..Len(chain) /\ m - 1 \notin T /\ m \in 1..Len(chain)
    BY <2>1, <2>2
  <2>4. Based(scope[m - 1], context)
    BY <2>3
  <2>5. scope[m] = EnterNamed(scope[m - 1], chain[m].name) \/ scope[m] = scope[m - 1]
    BY <2>3, ScopeUnrolls
  <2>6. Based(scope[m], context)
    BY <2>4, <2>5, EnterKeepsBase
  <2>. QED
    BY <2>1, <2>6
<1>2. PICK S : scope[i] \in Seq(S) /\ Len(scope[i]) >= 1 /\ scope[i][1] = context
  BY <1>1 DEF Based
<1>3. SubSeq(scope[i], 1, 1) = <<context>>
  <2>. DEFINE s == scope[i]
  <2>. HIDE DEF s
  <2>1. s \in Seq(S) /\ Len(s) >= 1 /\ s[1] = context
    BY <1>2 DEF s
  <2>2. SubSeq(s, 1, 1) = <<s[1]>>
    <3>. DEFINE q == SubSeq(s, 1, 1)
    <3>1. q \in Seq(S) /\ Len(q) = 1 /\ q[1] = s[1]
      BY <2>1
    <3>. HIDE DEF q
    <3>2. q = <<q[1]>>
      BY <3>1
    <3>. QED
      BY <3>1, <3>2 DEF q
  <2>. QED
    BY <2>1, <2>2 DEF s
<1>. HIDE DEF scope
<1>. QED
  BY <1>0, <1>3 DEF LeaveNamed, scope

-----------------------------------------------------------------------------
(***************************************************************************)
(* What the specification says, combinator by combinator.                  *)
(***************************************************************************)
\* The least of a set of positions is its first.
LEMMA FirstIsLeast ==
  ASSUME NEW S, S \subseteq Nat, NEW i \in S, \A j \in S : i <= j
  PROVE  First(S) = i
<1>. DEFINE Least(m) == \A j \in S : m <= j
<1>1. \A m \in S : Least(m) => m = i
  OBVIOUS
<1>2. Least(i) /\ First(S) = CHOOSE m \in S : Least(m)
  BY DEF First
<1>. HIDE DEF Least
<1>. QED
  BY <1>1, <1>2

LEMMA ArgumentCases ==
  ASSUME NEW i
  PROVE  /\ Chain[i].c = "Capture" =>
              ArgumentAt(i) = call.caps[CaptureIndex(Chain, i)] /\ RefusalAt(i) = None
         /\ Chain[i].c = "CaptureAll" =>
              /\ ArgumentAt(i) = IF call.rest = None \/ Earlier(Chain, "CaptureAll", i)
                                 THEN <<>> ELSE call.rest
              /\ RefusalAt(i) = None
         /\ Chain[i].c \in ParamCombinators =>
              /\ ArgumentAt(i) = ParamValue(Chain[i], req)
              /\ ParamValue(Chain[i], req) = None /\ ~MayBeAbsent(Chain[i]) =>
                   RefusalAt(i) = 400
              /\ ParamValue(Chain[i], req) = None /\ MayBeAbsent(Chain[i]) =>
                   RefusalAt(i) = None
              /\ ParamValue(Chain[i], req) # None =>
                   RefusalAt(i) = IF Parses(Chain[i], ParamValue(Chain[i], req))
                                  THEN None ELSE 400
         /\ Chain[i].c = "ReqBody" =>
              /\ ArgumentAt(i) = req.body
              /\ Mode = "Streaming" => RefusalAt(i) = 500
              /\ Mode # "Streaming" =>
                   RefusalAt(i) = IF req.ctype \notin Chain[i].types THEN 415
                                  ELSE IF req.body \notin Chain[i].ok THEN 400 ELSE None
         /\ Chain[i].c = "StreamBody" =>
              /\ ArgumentAt(i) = "stream"
              /\ RefusalAt(i) = IF Mode = "Buffered" \/ Earlier(Chain, "StreamBody", i)
                                THEN 500 ELSE None
         /\ Chain[i].c = "Auth" =>
              /\ ArgumentAt(i) = CheckAt(Chain, api.context, i)[req.creds]
              /\ RefusalAt(i) = None
         /\ Chain[i].c = "Resource" =>
              /\ ArgumentAt(i) = ProviderAt(Chain, api.context, i)
              /\ RefusalAt(i) = IF ProviderAt(Chain, api.context, i) = None
                                THEN 500 ELSE None
         /\ Chain[i].c = "Named" => ArgumentAt(i) = None /\ RefusalAt(i) = None
         /\ Chain[i].c \in {"Info", "Host"} =>
              ArgumentAt(i) = Chain[i].c /\ RefusalAt(i) = None
<1>1. Chain[i].c \in ParamCombinators =>
        Chain[i].c \notin {"Capture", "CaptureAll", "ReqBody", "StreamBody", "Auth",
                           "Resource", "Named", "Info", "Host"}
  BY DEF ParamCombinators
<1>. QED
  BY <1>1 DEF ArgumentAt, Argument, RefusalAt, ArgumentCode, Mode

\* A lookup at a combinator that is not Named is one at the position before.
LEMMA ScopeHere ==
  ASSUME call \in Calls, k \in 1..Len(Chain), st.ctxs = Scope(Chain, api.context)[k - 1]
  PROVE  /\ Chain[k].c = "Named" =>
              Scope(Chain, api.context)[k] = EnterNamed(st.ctxs, Chain[k].name)
         /\ Chain[k].c # "Named" => Scope(Chain, api.context)[k] = st.ctxs
         /\ Chain[k].c = "Auth" =>
              CheckAt(Chain, api.context, k) = LookupCtx(st.ctxs, "auth", Chain[k].usr)
         /\ Chain[k].c = "Resource" =>
              ProviderAt(Chain, api.context, k)
                = LookupCtx(st.ctxs, "resources", Chain[k].res)
<1>. DEFINE scope == Scope(Chain, api.context)
<1>1. scope[k] = IF Chain[k].c = "Named" THEN EnterNamed(scope[k - 1], Chain[k].name)
                 ELSE scope[k - 1]
  BY ChainShape, ScopeUnrolls
<1>. QED
  BY <1>1 DEF CheckAt, ProviderAt

\* Updating one part of the ExtractState leaves the others.
LEMMA StateParts ==
  ASSUME Extractable, NEW new
  PROVE  /\ [st EXCEPT !.users = new].users = new
         /\ [st EXCEPT !.users = new].ctxs = st.ctxs
         /\ [st EXCEPT !.users = new].rest = st.rest
         /\ [st EXCEPT !.ctxs = new].ctxs = new
         /\ [st EXCEPT !.ctxs = new].users = st.users
         /\ [st EXCEPT !.ctxs = new].rest = st.rest
         /\ [st EXCEPT !.rest = new].rest = new
         /\ [st EXCEPT !.rest = new].users = st.users
         /\ [st EXCEPT !.rest = new].ctxs = st.ctxs
         /\ [st EXCEPT !.caps = new].users = st.users
         /\ [st EXCEPT !.caps = new].ctxs = st.ctxs
         /\ [st EXCEPT !.caps = new].rest = st.rest
BY DEF Extractable

-----------------------------------------------------------------------------
(***************************************************************************)
(* The first walk: pre_body_check, combinator by combinator.               *)
(***************************************************************************)
AuthCode(i) ==
  IF CheckAt(Chain, api.context, i) = None THEN 500 ELSE Chain[i].denied

PreBodySummary ==
  \/ k \in Unauthorized /\ ReturnFatal(LeafError(AuthCode(k)))
  \/ /\ k \notin Unauthorized
     /\ pc' = pc /\ k' = k + 1
     /\ st'.ctxs = Scope(Chain, api.context)[k]
     /\ st'.rest = st.rest
     /\ st'.users = IF Chain[k].c = "Auth" THEN Append(st.users, UserOf(k)) ELSE st.users

LEMMA PreBodySteps ==
  ASSUME call \in Calls, Extractable, InScope,
         PreBodyAuth \/ PreBodyNamed \/ PreBodyOther
  PROVE  k \in 1..Len(Chain) /\ PreBodySummary
<1>1. k \in 1..Len(Chain) /\ k \in DOMAIN Chain
  BY ChainShape DEF PreBodyAuth, PreBodyNamed, PreBodyOther, Here
<1>2. st.ctxs = Scope(Chain, api.context)[k - 1]
  BY DEF InScope
<1>3. Chain[k].c # "Auth" => k \notin Unauthorized
  BY DEF Unauthorized, AuthFailures
<1>4. CASE PreBodyAuth
  <2>. DEFINE check == LookupCtx(st.ctxs, "auth", Chain[k].usr)
  <2>1. Chain[k].c = "Auth" /\ check = CheckAt(Chain, api.context, k)
    BY <1>1, <1>2, <1>4, ScopeHere DEF PreBodyAuth, Here
  <2>2. k \in Unauthorized <=> check = None \/ req.creds \notin DOMAIN check
    BY <1>1, <2>1 DEF Unauthorized, AuthFailures
  <2>3. Scope(Chain, api.context)[k] = st.ctxs
    BY <1>1, <1>2, <2>1, ScopeHere
  <2>4. \/ check = None /\ ReturnFatal(LeafError(500))
        \/ check # None /\ req.creds \notin DOMAIN check /\ ReturnFatal(LeafError(Chain[k].denied))
        \/ /\ check # None /\ req.creds \in DOMAIN check
           /\ st' = [st EXCEPT !.users =
                       Append(st.users, [usr |-> Chain[k].usr, val |-> check[req.creds]])]
           /\ k' = k + 1 /\ pc' = pc
    BY <1>4 DEF PreBodyAuth
  <2>5. [usr |-> Chain[k].usr, val |-> check[req.creds]] = UserOf(k)
    BY <2>1 DEF UserOf
  <2>. HIDE DEF check
  <2>6. CASE ReturnFatal(LeafError(AuthCode(k))) /\ k \in Unauthorized
    BY <1>1, <2>6 DEF PreBodySummary
  <2>7. CASE /\ k \notin Unauthorized /\ k' = k + 1 /\ pc' = pc
             /\ st' = [st EXCEPT !.users = Append(st.users, UserOf(k))]
    <3>1. /\ st'.users = Append(st.users, UserOf(k)) /\ st'.ctxs = st.ctxs
          /\ st'.rest = st.rest
      BY <2>7, StateParts
    <3>. QED
      BY <1>1, <2>1, <2>3, <2>7, <3>1 DEF PreBodySummary
  <2>. QED
    BY <2>1, <2>2, <2>4, <2>5, <2>6, <2>7 DEF AuthCode
<1>5. CASE PreBodyNamed
  <2>1. /\ Chain[k].c = "Named" /\ pc' = pc /\ k' = k + 1
        /\ st' = [st EXCEPT !.ctxs = EnterNamed(st.ctxs, Chain[k].name)]
    BY <1>5 DEF PreBodyNamed, Here
  <2>. QED
    BY <1>1, <1>2, <1>3, <2>1, ScopeHere, StateParts DEF PreBodySummary
<1>6. CASE PreBodyOther
  <2>1. Chain[k].c \notin {"Auth", "Named"} /\ pc' = pc /\ k' = k + 1 /\ st' = st
    BY <1>6 DEF PreBodyOther
  <2>. QED
    BY <1>1, <1>2, <1>3, <2>1, ScopeHere DEF PreBodySummary
<1>. QED
  BY <1>4, <1>5, <1>6

-----------------------------------------------------------------------------
(***************************************************************************)
(* The second walk: extract, combinator by combinator.                     *)
(***************************************************************************)
\* A chain with a body combinator has one of the two body modes.
LEMMA BodyModes ==
  ASSUME call \in Calls, NEW i \in DOMAIN Chain, Chain[i].c \in {"ReqBody", "StreamBody"}
  PROVE  Mode \in {"Buffered", "Streaming"}
<1>. DEFINE bodies == BodyCombinators(Chain)
<1>1. bodies \subseteq Nat /\ bodies # {} /\ bodies \subseteq DOMAIN Chain
  BY ChainShape DEF BodyCombinators
<1>2. \A j \in bodies : Chain[j].c = "ReqBody" \/ Chain[j].c = "StreamBody"
  BY DEF BodyCombinators
<1>. HIDE DEF bodies
<1>3. PICK j \in bodies : \A n \in bodies : j <= n
  BY <1>1, LeastNat
<1>4. First(bodies) = j
  BY <1>1, <1>3, FirstIsLeast
<1>5. CASE Chain[j].c = "ReqBody"
  BY <1>1, <1>4, <1>5 DEF Mode, RequestBodyMode, bodies
<1>6. CASE Chain[j].c = "StreamBody"
  BY <1>1, <1>4, <1>6 DEF Mode, RequestBodyMode, bodies
<1>. QED
  BY <1>2, <1>5, <1>6

\* The state an extract step finds, and the argument it takes from it.
ExtractHolds ==
  /\ call \in Calls
  /\ CapturesParse /\ Extractable /\ st.caps = CapturesLeft(k)
  /\ InScope /\ UsersLeft
  /\ st.rest = IF Earlier(Chain, "CaptureAll", k) THEN None ELSE call.rest
  /\ IF Mode = "Buffered" THEN slot = "Buffered"
     ELSE slot = IF Earlier(Chain, "StreamBody", k) THEN "Taken" ELSE "Streaming"

Extracts ==
  /\ Took(ArgumentAt(k)) /\ RefusalAt(k) = None
  /\ st'.ctxs = Scope(Chain, api.context)[k]
  /\ st'.rest = IF Chain[k].c = "CaptureAll" THEN None ELSE st.rest
  /\ st'.users = IF Chain[k].c = "Auth" THEN Tail(st.users) ELSE st.users
  /\ slot' = IF Chain[k].c = "StreamBody" THEN "Taken" ELSE slot

Refuses == RefusalAt(k) \in ErrorCodes /\ ReturnFatal(LeafError(RefusalAt(k)))

\* The user of an authentication is at the head of the queue
\* (take_prechecked, state.rs).
LEMMA UserFound ==
  ASSUME call \in Calls, InScope, UsersLeft, k \in 1..Len(Chain), Chain[k].c = "Auth"
  PROVE  /\ \E S : st.users \in Seq(S)
         /\ Len(st.users) >= 1
         /\ st.users[1] = UserOf(k)
<1>1. Len(Chain) \in Nat /\ k \in Nat \ {0} /\ k - 1 \in Nat /\ k <= Len(Chain)
  BY ChainShape
<1>2. Index(Chain, "Auth", k) = Index(Chain, "Auth", k - 1) + 1
  BY <1>1, IndexStep
<1>3. /\ Index(Chain, "Auth", k) <= Index(Chain, "Auth", Len(Chain))
      /\ Index(Chain, "Auth", k) \in Nat /\ Index(Chain, "Auth", Len(Chain)) \in Nat
      /\ Index(Chain, "Auth", k - 1) \in Nat
  BY <1>1, IndexGrows
<1>4. st.users[Index(Chain, "Auth", k) - Index(Chain, "Auth", k - 1)] = UserOf(k)
  BY <1>1 DEF UsersLeft
<1>. QED
  BY <1>2, <1>3, <1>4 DEF UsersLeft

\* Taking the first of a queue leaves its tail.
LEMMA TakeFirst ==
  ASSUME NEW S, NEW q \in Seq(S), Len(q) >= 1
  PROVE  SubSeq(q, 1, 1 - 1) \o SubSeq(q, 1 + 1, Len(q)) = Tail(q)
<1>1. SubSeq(q, 1, 0) = <<>> /\ SubSeq(q, 2, Len(q)) = Tail(q)
  OBVIOUS
<1>2. Tail(q) \in Seq(S)
  OBVIOUS
<1>3. <<>> \o Tail(q) = Tail(q)
  BY <1>2
<1>. QED
  BY <1>1, <1>3

LEMMA ExtractSteps ==
  ASSUME ExtractHolds, ExtractStep, ~ExtractDone
  PROVE  k \in 1..Len(Chain) /\ (Extracts \/ Refuses)
<1>h. /\ call \in Calls /\ CapturesParse /\ Extractable /\ st.caps = CapturesLeft(k)
      /\ InScope /\ UsersLeft
      /\ st.rest = IF Earlier(Chain, "CaptureAll", k) THEN None ELSE call.rest
  BY SMTT(40) DEF ExtractHolds
<1>1. k \in 1..Len(Chain) /\ k \in DOMAIN Chain
  BY <1>h, ChainShape DEF ExtractStep, ExtractCapture, ExtractCaptureAll, ExtractParam,
     ExtractReqBody, ExtractStreamBody, ExtractAuth, ExtractResource, ExtractNamed,
     ExtractOther, Extracting, Here
<1>2. st.ctxs = Scope(Chain, api.context)[k - 1]
  BY <1>h DEF InScope
<1>3. Chain[k].c # "Named" => Scope(Chain, api.context)[k] = st.ctxs
  BY <1>h, <1>1, <1>2, ScopeHere
<1>p. Chain[k].c \in ParamCombinators =>
        Chain[k].c \notin {"Capture", "CaptureAll", "ReqBody", "StreamBody", "Auth",
                           "Resource", "Named", "Info", "Host"}
  BY DEF ParamCombinators
<1>e. {400, 415, 500} \subseteq ErrorCodes
  BY DEF ErrorCodes
<1>4. CASE ExtractCapture
  <2>1. Chain[k].c = "Capture"
    BY <1>4 DEF ExtractCapture, Extracting, Here
  <2>2. /\ Took(Head(st.caps)) /\ st' = [st EXCEPT !.caps = Tail(st.caps)]
        /\ slot' = slot
    BY <1>4, <1>h, CaptureFound DEF ExtractCapture, Extracting
  <2>3. Head(st.caps) = ArgumentAt(k) /\ RefusalAt(k) = None
    <3>1. call.caps \in Seq(Segments) /\ Len(call.caps) \in Nat
      BY <1>h DEF Calls, Paths
    <3>. DEFINE i == CaptureIndex(Chain, k)
    <3>2. i \in Nat \ {0} /\ i = CaptureIndex(Chain, k - 1) + 1
      BY <1>1, <2>1, CaptureIndexStep
    <3>3. i <= Len(call.caps)
      BY <1>1, <1>h, <2>1, <3>1, <3>2 DEF CapturesParse, MissingCaptures
    <3>4. call.caps[i] = ArgumentAt(k) /\ RefusalAt(k) = None
      BY <2>1, ArgumentCases
    <3>. HIDE DEF i
    <3>5. st.caps = SubSeq(call.caps, i, Len(call.caps))
      BY <1>h, <3>2 DEF CapturesLeft
    <3>. QED
      BY <3>1, <3>2, <3>3, <3>4, <3>5, RestOfSequence
  <2>. QED
    BY <1>1, <1>3, <1>h, <2>1, <2>2, <2>3, StateParts DEF Extracts
<1>5. CASE ExtractCaptureAll
  <2>. DEFINE segs == IF st.rest = None THEN <<>> ELSE st.rest
  <2>1. Chain[k].c = "CaptureAll"
    BY <1>5 DEF ExtractCaptureAll, Extracting, Here
  <2>2. \A n \in DOMAIN segs : segs[n] \in Chain[k].ok
    <3>1. CASE st.rest = None
      BY <3>1
    <3>2. CASE st.rest # None
      BY <1>5, <1>h, <3>2, CaptureAllParses DEF ExtractCaptureAll, Extracting
    <3>. QED
      BY <3>1, <3>2
  <2>3. Took(segs) /\ st' = [st EXCEPT !.rest = None] /\ slot' = slot
    BY <1>5, <2>2 DEF ExtractCaptureAll, Extracting
  <2>4. segs = ArgumentAt(k) /\ RefusalAt(k) = None
    BY <1>h, <2>1, ArgumentCases
  <2>. HIDE DEF segs
  <2>. QED
    BY <1>1, <1>3, <1>h, <2>1, <2>3, <2>4, StateParts DEF Extracts
<1>6. CASE ExtractParam
  <2>. DEFINE value == ParamValue(Chain[k], req)
  <2>1. Chain[k].c \in ParamCombinators
    BY <1>6 DEF ExtractParam, Extracting, Here
  <2>2. \/ value = None /\ ~MayBeAbsent(Chain[k]) /\ ReturnFatal(LeafError(400))
        \/ value = None /\ MayBeAbsent(Chain[k]) /\ Took(None) /\ UNCHANGED <<st, slot>>
        \/ value # None /\ ~Parses(Chain[k], value) /\ ReturnFatal(LeafError(400))
        \/ value # None /\ Parses(Chain[k], value) /\ Took(value) /\ UNCHANGED <<st, slot>>
    BY <1>6 DEF ExtractParam
  <2>3. /\ ArgumentAt(k) = value
        /\ value = None /\ ~MayBeAbsent(Chain[k]) => RefusalAt(k) = 400
        /\ value = None /\ MayBeAbsent(Chain[k]) => RefusalAt(k) = None
        /\ value # None => RefusalAt(k) = IF Parses(Chain[k], value) THEN None ELSE 400
    BY <2>1, ArgumentCases
  <2>. HIDE DEF value
  <2>4. \/ RefusalAt(k) = 400 /\ ReturnFatal(LeafError(400))
        \/ RefusalAt(k) = None /\ Took(ArgumentAt(k)) /\ UNCHANGED <<st, slot>>
    BY <2>2, <2>3
  <2>. QED
    BY <1>1, <1>3, <1>e, <1>p, <2>1, <2>4 DEF Extracts, Refuses
<1>7. CASE ExtractReqBody
  <2>1. Chain[k].c = "ReqBody" /\ slot' = slot
    BY <1>7 DEF ExtractReqBody, Extracting, Here, Refused
  <2>2. \/ ReadBuffered(slot) = "error" /\ ReturnFatal(LeafError(500))
        \/ /\ ReadBuffered(slot) = "buffered" /\ req.ctype \notin Chain[k].types
           /\ ReturnFatal(LeafError(415))
        \/ /\ ReadBuffered(slot) = "buffered" /\ req.ctype \in Chain[k].types
           /\ req.body \notin Chain[k].ok /\ ReturnFatal(LeafError(400))
        \/ /\ ReadBuffered(slot) = "buffered" /\ req.ctype \in Chain[k].types
           /\ req.body \in Chain[k].ok /\ Took(req.body) /\ st' = st
    BY <1>7 DEF ExtractReqBody
  <2>3. \/ Mode = "Buffered" /\ ReadBuffered(slot) = "buffered"
        \/ Mode = "Streaming" /\ ReadBuffered(slot) = "error"
    BY <1>1, <1>h, <2>1, BodyModes DEF ExtractHolds, ReadBuffered
  <2>4. /\ ArgumentAt(k) = req.body
        /\ Mode = "Streaming" => RefusalAt(k) = 500
        /\ Mode # "Streaming" =>
             RefusalAt(k) = IF req.ctype \notin Chain[k].types THEN 415
                            ELSE IF req.body \notin Chain[k].ok THEN 400 ELSE None
    BY <2>1, ArgumentCases
  <2>5. \/ RefusalAt(k) \in {400, 415, 500} /\ ReturnFatal(LeafError(RefusalAt(k)))
        \/ RefusalAt(k) = None /\ Took(ArgumentAt(k)) /\ st' = st
    <3>1. CASE Mode = "Streaming"
      BY <2>2, <2>3, <2>4, <3>1
    <3>2. CASE Mode = "Buffered"
      BY <2>2, <2>3, <2>4, <3>2
    <3>. QED
      BY <2>3, <3>1, <3>2
  <2>. QED
    BY <1>1, <1>3, <1>e, <2>1, <2>5 DEF Extracts, Refuses
<1>8. CASE ExtractStreamBody
  <2>1. Chain[k].c = "StreamBody" /\ slot' = TakeStream(slot).slot
    BY <1>8 DEF ExtractStreamBody, Extracting, Here
  <2>2. \/ TakeStream(slot).got = "error" /\ ReturnFatal(LeafError(500))
        \/ TakeStream(slot).got = "body" /\ Took("stream") /\ st' = st
    BY <1>8 DEF ExtractStreamBody
  <2>3. /\ ArgumentAt(k) = "stream"
        /\ RefusalAt(k) = IF Mode = "Buffered" \/ Earlier(Chain, "StreamBody", k)
                          THEN 500 ELSE None
    BY <2>1, ArgumentCases
  <2>4. \/ slot = "Streaming" /\ ~Earlier(Chain, "StreamBody", k) /\ Mode # "Buffered"
        \/ slot \in {"Buffered", "Taken"} /\ (Mode = "Buffered" \/ Earlier(Chain, "StreamBody", k))
    BY DEF ExtractHolds
  <2>5. CASE slot = "Streaming"
    <3>1. TakeStream(slot).slot = "Taken" /\ TakeStream(slot).got = "body"
      BY <2>5, TakeStreamCases DEF Slots
    <3>. QED
      BY <1>1, <1>3, <2>1, <2>2, <2>3, <2>4, <2>5, <3>1 DEF Extracts
  <2>6. CASE slot \in {"Buffered", "Taken"}
    <3>1. TakeStream(slot).got = "error"
      BY <2>6, TakeStreamCases DEF Slots
    <3>. QED
      BY <1>1, <1>e, <2>2, <2>3, <2>4, <2>6, <3>1 DEF Refuses
  <2>. QED
    BY <2>4, <2>5, <2>6
<1>9. CASE ExtractAuth
  <2>. DEFINE kept == {n \in DOMAIN st.users : st.users[n].usr = Chain[k].usr}
  <2>1. Chain[k].c = "Auth" /\ slot' = slot
    BY <1>9 DEF ExtractAuth, Extracting, Here
  <2>2. PICK S : st.users \in Seq(S)
    BY <1>1, <1>h, <2>1, UserFound
  <2>3. Len(st.users) >= 1 /\ st.users[1] = UserOf(k)
    BY <1>1, <1>h, <2>1, UserFound
  <2>4. 1 \in kept /\ kept \subseteq Nat /\ \A n \in kept : 1 <= n
    <3>1. DOMAIN st.users = 1..Len(st.users) /\ Len(st.users) \in Nat
      BY <2>2
    <3>2. UserOf(k).usr = Chain[k].usr
      BY DEF UserOf
    <3>. QED
      BY <2>3, <3>1, <3>2
  <2>5. First(kept) = 1
    <3>. HIDE DEF kept
    <3>. QED
      BY <2>4, FirstIsLeast
  <2>6. /\ Took(st.users[First(kept)].val)
        /\ st' = [st EXCEPT !.users = SubSeq(st.users, 1, First(kept) - 1)
                                      \o SubSeq(st.users, First(kept) + 1, Len(st.users))]
    BY <1>9, <2>4 DEF ExtractAuth
  <2>7. st' = [st EXCEPT !.users = Tail(st.users)]
    BY <2>2, <2>3, <2>5, <2>6, TakeFirst
  <2>8. st.users[1].val = ArgumentAt(k) /\ RefusalAt(k) = None
    BY <2>1, <2>3, ArgumentCases DEF UserOf
  <2>9. Took(ArgumentAt(k))
    BY <2>5, <2>6, <2>8
  <2>. QED
    BY <1>1, <1>3, <1>h, <2>1, <2>7, <2>8, <2>9, StateParts DEF Extracts
<1>10. CASE ExtractResource
  <2>1. Chain[k].c = "Resource"
    BY <1>10 DEF ExtractResource, Extracting, Here
  <2>. DEFINE provider == LookupCtx(st.ctxs, "resources", Chain[k].res)
  <2>2. \/ provider = None /\ ReturnFatal(LeafError(500))
        \/ provider # None /\ Took(provider) /\ UNCHANGED <<st, slot>>
    BY <1>10 DEF ExtractResource
  <2>3. /\ ArgumentAt(k) = provider
        /\ RefusalAt(k) = IF provider = None THEN 500 ELSE None
    BY <1>1, <1>2, <1>h, <2>1, ArgumentCases, ScopeHere
  <2>. HIDE DEF provider
  <2>. QED
    BY <1>1, <1>3, <1>e, <2>1, <2>2, <2>3 DEF Extracts, Refuses
<1>11. CASE ExtractNamed
  <2>1. /\ Chain[k].c = "Named" /\ slot' = slot /\ Took(None)
        /\ st' = [st EXCEPT !.ctxs = EnterNamed(st.ctxs, Chain[k].name)]
    BY <1>11 DEF ExtractNamed, Extracting, Here
  <2>2. ArgumentAt(k) = None /\ RefusalAt(k) = None
    BY <2>1, ArgumentCases
  <2>3. Scope(Chain, api.context)[k] = EnterNamed(st.ctxs, Chain[k].name)
    BY <1>1, <1>2, <1>h, <2>1, ScopeHere
  <2>. QED
    BY <1>1, <1>h, <2>1, <2>2, <2>3, StateParts DEF Extracts
<1>12. CASE ExtractOther
  <2>1. /\ Chain[k].c \in {"Info", "Host"} /\ slot' = slot /\ st' = st
        /\ Took(Chain[k].c)
    BY <1>12 DEF ExtractOther, Extracting, Here
  <2>2. ArgumentAt(k) = Chain[k].c /\ RefusalAt(k) = None
    BY <2>1, ArgumentCases
  <2>. QED
    BY <1>1, <1>3, <2>1, <2>2 DEF Extracts
<1>. QED
  BY <1>4, <1>5, <1>6, <1>7, <1>8, <1>9, <1>10, <1>11, <1>12 DEF ExtractStep

-----------------------------------------------------------------------------
(***************************************************************************)
(* The invariant is kept.                                                  *)
(***************************************************************************)
\* Nothing is claimed of a request that is not past the first phases of a call.
LEMMA NothingClaimed ==
  ASSUME pc' \notin CallPhases \ {"captures", "host"}
  PROVE  PhasesPassed' /\ AuthSoFar' /\ BodySoFar' /\ ExtractSoFar'
<1>1. /\ pc' \notin CommittedPhases
      /\ pc' \notin {"preBody", "body", "extract", "handler"}
  BY DEF CallPhases, CheckPhases, CommittedPhases
<1>. QED
  BY <1>1 DEF PhasesPassed, AuthSoFar, BodySoFar, ExtractSoFar

\* Which phase a step of a call is in, and which it may go on to.
LEMMA CheckStepPhases ==
  ASSUME CheckStep
  PROVE  \/ pc' = "return"
         \/ pc = "captures" /\ pc' = "host"
         \/ /\ pc = "host" /\ HostMatches(Chain, req)
            /\ pc' = IF IsRaw(call.leaf) THEN "body" ELSE "method"
         \/ pc = "method" /\ pc' = "accept" /\ MethodMatches(call.leaf, req)
         \/ pc = "accept" /\ pc' = "contentType" /\ Acceptable(call.leaf, req)
         \/ /\ pc = "contentType" /\ pc' = "preBody" /\ ContentTypeAcceptable(Chain, req)
            /\ st' = NewState /\ k' = 1
BY DEF CheckStep, CheckCaptures, CheckHost, CheckMethod, CheckAccept,
       CheckContentType, Phase, ReturnFail

LEMMA PhasesStay ==
  ASSUME LeafInv, CallStep
  PROVE  PhasesPassed'
<1>t. PhasesPassed /\ CapturesHold /\ CallSummary
  BY CallSteps DEF LeafInv, IInv, CallInv
<1>1. Chain' = Chain /\ call' = call /\ req' = req
  BY <1>t DEF CallSummary, Chain, fixed
<1>2. CASE CheckStep
  <2>1. pc \in CallPhases /\ pc' \in CallPhases \cup {"return"}
    BY <1>2, <1>t, Phases DEF CallSummary, GoesOn, Declines, Settles, ReturnFail, ReturnFatal
  <2>. QED
    BY <1>1, <1>2, <1>t, <2>1, CheckStepPhases, Phases DEF PhasesPassed, CapturesHold
<1>3. CASE ~CheckStep
  <2>1. pc \in {"preBody", "body", "extract"}
    BY <1>3 DEF CallStep, PreBodyStep, PreBodyAuth, PreBodyNamed, PreBodyOther,
       PreBodyDone, BufferBody, ExtractStep, ExtractCapture, ExtractCaptureAll,
       ExtractParam, ExtractReqBody, ExtractStreamBody, ExtractAuth, ExtractResource,
       ExtractNamed, ExtractOther, ExtractDone, Extracting
  <2>2. pc \in CallPhases
    BY <2>1 DEF CallPhases, CheckPhases, CommittedPhases
  <2>. QED
    BY <1>1, <1>t, <2>1, <2>2, SMTT(40) DEF PhasesPassed
<1>. QED
  BY <1>2, <1>3

\* The first walk over a chain keeps to what is specified.
LEMMA PreBodyHolds ==
  ASSUME LeafInv, PreBodyStep, ~PreBodyDone, pc' # "return"
  PROVE  AuthSoFar'
<1>t. CapturesHold /\ AuthSoFar /\ TypeOK /\ CallSummary
  BY CallSteps DEF LeafInv, IInv, CallInv, CallStep
<1>1. Chain' = Chain /\ call' = call /\ req' = req /\ api' = api
  BY <1>t DEF CallSummary, Chain, fixed
<1>2. /\ Unauthorized' = Unauthorized
      /\ \A i : UserOf(i)' = UserOf(i)
  BY <1>1 DEF Unauthorized, UserOf
<1>3. pc = "preBody"
  BY DEF PreBodyStep, PreBodyAuth, PreBodyNamed, PreBodyOther, PreBodyDone
<1>4. /\ call \in Calls /\ Extractable /\ InScope /\ UsersKept /\ st.rest = call.rest
      /\ \A i \in 1..(k - 1) : i \notin Unauthorized
  BY <1>t, <1>3 DEF TypeOK, CallPhases, CheckPhases, CapturesHold, AuthSoFar
<1>5. /\ k \in 1..Len(Chain) /\ k \notin Unauthorized
      /\ pc' = pc /\ k' = k + 1
      /\ st'.ctxs = Scope(Chain, api.context)[k]
      /\ st'.rest = st.rest
      /\ st'.users = IF Chain[k].c = "Auth" THEN Append(st.users, UserOf(k)) ELSE st.users
  <2>1. ReturnFatal(LeafError(AuthCode(k))) => pc' = "return"
    BY DEF ReturnFatal
  <2>. QED
    BY <1>4, <2>1, PreBodySteps DEF PreBodyStep, PreBodySummary
<1>6. Len(Chain) \in Nat /\ k \in Nat \ {0} /\ k' - 1 = k /\ k - 1 \in Nat
  BY <1>4, <1>5, ChainShape
<1>7. InScope'
  BY <1>1, <1>5, <1>6 DEF InScope
<1>8. UsersKept'
  <2>. DEFINE n(i) == Index(Chain, "Auth", i)
  <2>1. PICK S : st.users \in Seq(S)
    BY <1>4 DEF UsersKept
  <2>2. /\ Len(st.users) = n(k - 1) /\ n(k - 1) \in Nat
        /\ \A i \in 1..(k - 1) : Chain[i].c = "Auth" => st.users[n(i)] = UserOf(i)
    BY <1>4, <1>6, IndexStep DEF UsersKept
  <2>3. ASSUME NEW i \in 1..(k - 1), Chain[i].c = "Auth"
        PROVE  n(i) \in 1..Len(st.users)
    <3>1. i \in Nat /\ i - 1 \in Nat /\ i - 1 < i /\ i <= k - 1 /\ i - 1 <= i
      BY <1>6
    <3>2. n(i) <= n(k - 1) /\ n(i) \in Nat
      BY <1>6, <3>1, IndexGrows
    <3>3. n(i - 1) < n(i) /\ n(i - 1) \in Nat
      BY <2>3, <3>1, IndexGrows
    <3>. HIDE DEF n
    <3>. QED
      BY <2>2, <3>2, <3>3
  <2>4. /\ Chain[k].c = "Auth" => n(k) = n(k - 1) + 1
        /\ Chain[k].c # "Auth" => n(k) = n(k - 1)
    BY <1>6, IndexStep
  <2>. HIDE DEF n
  <2>6. CASE Chain[k].c = "Auth"
    <3>. DEFINE users == Append(st.users, UserOf(k))
    <3>1. /\ users \in Seq(S \cup {UserOf(k)})
          /\ Len(users) = Len(st.users) + 1
          /\ users[Len(st.users) + 1] = UserOf(k)
          /\ \A i \in 1..Len(st.users) : users[i] = st.users[i]
      BY <2>1
    <3>2. st'.users = users
      BY <1>5, <2>6
    <3>. HIDE DEF users
    <3>3. ASSUME NEW i \in 1..k, Chain[i].c = "Auth"
          PROVE  users[n(i)] = UserOf(i)
      <4>1. CASE i = k
        BY <2>2, <2>4, <2>6, <3>1, <4>1
      <4>2. CASE i # k
        <5>1. i \in 1..(k - 1)
          BY <1>6, <4>2
        <5>. QED
          BY <2>2, <2>3, <3>1, <3>3, <5>1
      <4>. QED
        BY <4>1, <4>2
    <3>4. /\ \E SS : st'.users \in Seq(SS)
          /\ Len(st'.users) = n(k)
          /\ \A i \in 1..k : Chain[i].c = "Auth" => st'.users[n(i)] = UserOf(i)
      BY <2>2, <2>4, <2>6, <3>1, <3>2, <3>3
    <3>. QED
      BY <1>1, <1>2, <1>6, <3>4 DEF UsersKept, n
  <2>7. CASE Chain[k].c # "Auth"
    <3>1. \A i \in 1..k : Chain[i].c = "Auth" => i \in 1..(k - 1)
      BY <1>6, <2>7
    <3>2. /\ \E SS : st'.users \in Seq(SS)
          /\ Len(st'.users) = n(k)
          /\ \A i \in 1..k : Chain[i].c = "Auth" => st'.users[n(i)] = UserOf(i)
      BY <1>5, <2>1, <2>2, <2>4, <2>7, <3>1
    <3>. QED
      BY <1>1, <1>2, <1>6, <3>2 DEF UsersKept, n
  <2>. QED
    BY <2>6, <2>7
<1>9. \A i \in 1..(k' - 1) : i \notin Unauthorized
  BY <1>4, <1>5, <1>6
<1>10. pc' = "preBody" /\ pc' \notin CommittedPhases /\ st'.rest = call.rest
  BY <1>3, <1>4, <1>5 DEF CommittedPhases
<1>. QED
  BY <1>1, <1>2, <1>7, <1>8, <1>9, <1>10 DEF AuthSoFar

LEMMA CheckContentTypeHolds ==
  ASSUME call \in Calls, call' = call, api' = api, pc' = "preBody",
         st' = NewState, k' = 1
  PROVE  AuthSoFar'
<1>1. Chain' = Chain /\ Len(Chain) \in Nat
  BY ChainShape DEF Chain
<1>2. /\ st'.ctxs = <<api.context>> /\ st'.users = <<>> /\ st'.rest = call.rest
  BY DEF NewState
<1>3. InScope'
  <2>1. Scope(Chain, api.context)[0] = <<api.context>> /\ 1 - 1 = 0 /\ 1 \in 1..(Len(Chain) + 1)
    BY <1>1, ScopeUnrolls
  <2>. QED
    BY <1>1, <1>2, <2>1 DEF InScope
<1>4. UsersKept'
  <2>1. <<>> \in Seq({}) /\ Len(<<>>) = 0 /\ Index(Chain, "Auth", 0) = 0
    BY IndexStep
  <2>. QED
    BY <1>1, <1>2, <2>1 DEF UsersKept
<1>5. pc' \notin CommittedPhases /\ 1..(k' - 1) = {}
  BY DEF CommittedPhases
<1>. QED
  BY <1>2, <1>3, <1>4, <1>5 DEF AuthSoFar

LEMMA AuthStays ==
  ASSUME LeafInv, CallStep
  PROVE  AuthSoFar'
<1>t. CapturesHold /\ AuthSoFar /\ TypeOK /\ CallSummary
  BY CallSteps DEF LeafInv, IInv, CallInv
<1>1. Chain' = Chain /\ call' = call /\ req' = req /\ api' = api
  BY <1>t DEF CallSummary, Chain, fixed
<1>2. Unauthorized' = Unauthorized
  BY <1>1 DEF Unauthorized
<1>3. pc \in CallPhases /\ call \in Calls
  BY <1>t, Phases DEF TypeOK, CallSummary
<1>4. CASE pc' = "return"
  BY <1>4, NothingClaimed, Phases
<1>5. CASE CheckStep /\ pc' # "return"
  <2>1. CASE pc = "contentType"
    BY <1>1, <1>3, <1>5, <2>1, CheckStepPhases, CheckContentTypeHolds
  <2>2. CASE pc # "contentType"
    <3>1. pc' \notin {"preBody", "extract", "handler"} /\ (pc' = "body" => IsRaw(call.leaf))
      BY <1>5, <2>2, CheckStepPhases
    <3>. QED
      BY <1>1, <3>1 DEF AuthSoFar, CommittedPhases
  <2>. QED
    BY <2>1, <2>2
<1>6. CASE PreBodyStep /\ ~PreBodyDone /\ pc' # "return"
  BY <1>6, PreBodyHolds
<1>7. CASE PreBodyDone
  <2>1. /\ pc = "preBody" /\ k = Len(Chain) + 1
        /\ pc' \in {"body", "extract"}
    BY <1>7 DEF PreBodyDone, PastEnd
  <2>2. /\ DOMAIN Chain = 1..(k - 1)
        /\ \A i \in 1..(k - 1) : i \notin Unauthorized
    BY <1>3, <1>t, <2>1, ChainShape DEF AuthSoFar
  <2>3. Unauthorized \subseteq DOMAIN Chain
    BY DEF Unauthorized, AuthFailures
  <2>4. Unauthorized = {}
    BY <2>2, <2>3
  <2>. QED
    BY <1>1, <1>2, <2>1, <2>4 DEF AuthSoFar
<1>8. CASE (BufferBody \/ ExtractStep) /\ pc' # "return"
  <2>1. pc \in {"body", "extract"}
    BY <1>8 DEF BufferBody, ExtractStep, ExtractCapture, ExtractCaptureAll,
       ExtractParam, ExtractReqBody, ExtractStreamBody, ExtractAuth, ExtractResource,
       ExtractNamed, ExtractOther, ExtractDone, Extracting
  <2>2. pc \in CommittedPhases /\ pc \notin CheckPhases
    BY <2>1 DEF CommittedPhases, CheckPhases
  <2>3. pc' \in CommittedPhases /\ pc' # "preBody"
    <3>1. ~Declines \/ pc \in CheckPhases
      BY <1>8, <2>2 DEF Declines, ReturnFail
    <3>. QED
      BY <1>8, <1>t, <2>2 DEF CallSummary, GoesOn, Declines, Settles, ReturnFail, ReturnFatal,
         CommittedPhases
  <2>. QED
    BY <1>1, <1>2, <1>t, <2>2, <2>3, SMTT(40) DEF AuthSoFar
<1>. QED
  BY <1>4, <1>5, <1>6, <1>7, <1>8 DEF CallStep, PreBodyStep

-----------------------------------------------------------------------------
\* What an extract step finds is what the invariant says of it.
LEMMA ExtractFinds ==
  ASSUME LeafInv, pc = "extract"
  PROVE  /\ ExtractHolds /\ ~IsRaw(call.leaf) /\ ArgumentsSoFar(k - 1)
         /\ Len(Chain) \in Nat /\ k \in Nat \ {0} /\ k - 1 \in Nat
         /\ Mode = "Buffered" => BufferError(req) = None
<1>1. pc \in CallPhases
  BY DEF CallPhases, CommittedPhases
<1>2. TypeOK /\ CapturesHold /\ BodySoFar /\ ExtractSoFar
  BY DEF LeafInv, IInv
<1>3. call \in Calls /\ ~IsRaw(call.leaf)
  BY <1>1, <1>2 DEF TypeOK, CapturesHold
<1>4. /\ InScope /\ UsersLeft /\ ArgumentsSoFar(k - 1)
      /\ st.rest = IF Earlier(Chain, "CaptureAll", k) THEN None ELSE call.rest
  BY <1>2, <1>3 DEF ExtractSoFar
<1>5. CapturesParse /\ Extractable /\ st.caps = CapturesLeft(k)
  BY <1>1, <1>2, <1>3 DEF CapturesHold
<1>6. IF Mode = "Buffered" THEN slot = "Buffered" /\ BufferError(req) = None
      ELSE slot = IF Earlier(Chain, "StreamBody", k) THEN "Taken" ELSE "Streaming"
  BY <1>2 DEF BodySoFar
<1>7. Len(Chain) \in Nat
  BY <1>3, ChainShape
<1>8. k \in Nat \ {0} /\ k - 1 \in Nat
  BY <1>4, <1>7 DEF InScope
<1>. QED
  BY <1>3, <1>4, <1>5, <1>6, <1>7, <1>8 DEF ExtractHolds

\* What is behind the next position is what is behind this one, and this one.
LEMMA EarlierStep ==
  ASSUME NEW chain, NEW c, NEW i \in Nat \ {0}
  PROVE  /\ Earlier(chain, c, i + 1) <=> Earlier(chain, c, i) \/ chain[i].c = c
         /\ ~Earlier(chain, c, 1)
<1>1. 1..((i + 1) - 1) = 1..(i - 1) \cup {i} /\ 1..(1 - 1) = {}
  OBVIOUS
<1>. QED
  BY <1>1 DEF Earlier

\* An authentication takes its user off the queue, any other step none.
LEMMA UsersMove ==
  ASSUME call \in Calls, k \in 1..Len(Chain), InScope, UsersLeft, call' = call, api' = api,
         req' = req, k' = k + 1,
         st'.users = IF Chain[k].c = "Auth" THEN Tail(st.users) ELSE st.users
  PROVE  UsersLeft'
<1>. DEFINE n(i) == Index(Chain, "Auth", i)
            N == Len(Chain)
<1>1. /\ Chain' = Chain /\ N \in Nat /\ k \in Nat \ {0} /\ k - 1 \in Nat /\ k <= N
      /\ k' - 1 = k /\ \A i : UserOf(i)' = UserOf(i)
  BY ChainShape DEF Chain, UserOf
<1>2. PICK S : st.users \in Seq(S)
  BY DEF UsersLeft
<1>3. /\ Len(st.users) = n(N) - n(k - 1)
      /\ \A i \in k..N : Chain[i].c = "Auth" => st.users[n(i) - n(k - 1)] = UserOf(i)
  BY DEF UsersLeft
<1>4. /\ Chain[k].c = "Auth" => n(k) = n(k - 1) + 1
      /\ Chain[k].c # "Auth" => n(k) = n(k - 1)
      /\ n(k - 1) \in Nat /\ n(k) \in Nat /\ n(N) \in Nat /\ n(k) <= n(N)
  BY <1>1, IndexStep, IndexGrows
<1>5. ASSUME NEW i \in (k + 1)..N, Chain[i].c = "Auth"
      PROVE  n(i) \in Nat /\ n(k) < n(i) /\ n(i) <= n(N)
  <2>1. i \in Nat /\ k < i /\ k <= i /\ i <= N /\ k \in Nat
    BY <1>1
  <2>2. n(k) < n(i) /\ n(i) \in Nat
    BY <1>5, <2>1, IndexGrows
  <2>3. n(i) <= n(N)
    BY <1>1, <2>1, IndexGrows
  <2>. QED
    BY <2>2, <2>3
<1>. HIDE DEF n
<1>6. ASSUME NEW i \in (k + 1)..N, Chain[i].c = "Auth"
      PROVE  st'.users[n(i) - n(k)] = UserOf(i)
  <2>1. i \in k..N
    BY <1>1
  <2>2. CASE Chain[k].c = "Auth"
    <3>1. \A m \in 1..(Len(st.users) - 1) : Tail(st.users)[m] = st.users[m + 1]
      BY <1>2
    <3>2. n(i) - n(k) \in 1..(Len(st.users) - 1) /\ (n(i) - n(k)) + 1 = n(i) - n(k - 1)
      BY <1>3, <1>4, <1>5, <1>6, <2>2
    <3>. QED
      BY <1>3, <1>6, <2>1, <2>2, <3>1, <3>2
  <2>3. CASE Chain[k].c # "Auth"
    BY <1>3, <1>4, <1>6, <2>1, <2>3
  <2>. QED
    BY <2>2, <2>3
<1>7. Len(st'.users) = n(N) - n(k) /\ \E SS : st'.users \in Seq(SS)
  <2>1. CASE Chain[k].c = "Auth"
    <3>1. Len(st.users) >= 1
      BY <1>3, <1>4, <2>1
    <3>2. Tail(st.users) \in Seq(S) /\ Len(Tail(st.users)) = Len(st.users) - 1
      BY <1>2, <3>1
    <3>. QED
      BY <1>3, <1>4, <2>1, <3>2
  <2>2. CASE Chain[k].c # "Auth"
    BY <1>2, <1>3, <1>4, <2>2
  <2>. QED
    BY <2>1, <2>2
<1>8. /\ \E SS : st'.users \in Seq(SS)
      /\ Len(st'.users) = Index(Chain, "Auth", N) - Index(Chain, "Auth", k)
      /\ \A i \in (k + 1)..N : Chain[i].c = "Auth" =>
           st'.users[Index(Chain, "Auth", i) - Index(Chain, "Auth", k)] = UserOf(i)
  BY <1>6, <1>7 DEF n
<1>. QED
  BY <1>1, <1>8 DEF UsersLeft

\* An argument is added to those so far.
LEMMA ArgumentAdded ==
  ASSUME k \in Nat \ {0}, ArgumentsSoFar(k - 1), call' = call, api' = api, req' = req,
         Took(ArgumentAt(k)), RefusalAt(k) = None
  PROVE  ArgumentsSoFar(k - 1)'
<1>1. \A i : ArgumentAt(i)' = ArgumentAt(i) /\ RefusalAt(i)' = RefusalAt(i)
  BY DEF ArgumentAt, RefusalAt, Chain
<1>2. PICK S : args \in Seq(S)
  BY DEF ArgumentsSoFar
<1>. DEFINE new == Append(args, ArgumentAt(k))
<1>3. /\ new \in Seq(S \cup {ArgumentAt(k)}) /\ Len(new) = Len(args) + 1
      /\ new[Len(args) + 1] = ArgumentAt(k)
      /\ \A i \in 1..Len(args) : new[i] = args[i]
  BY <1>2
<1>4. args' = new /\ Len(args) = k - 1
  BY DEF Took, ArgumentsSoFar
<1>. HIDE DEF new
<1>5. ASSUME NEW i \in 1..k PROVE new[i] = ArgumentAt(i) /\ RefusalAt(i) = None
  <2>1. CASE i = k
    BY <1>3, <1>4, <2>1
  <2>2. CASE i # k
    BY <1>3, <1>4, <2>2 DEF ArgumentsSoFar
  <2>. QED
    BY <2>1, <2>2
<1>6. k' - 1 = k
  BY DEF Took
<1>7. /\ \E SS : args' \in Seq(SS)
      /\ Len(args') = k
      /\ \A i \in 1..k : args'[i] = ArgumentAt(i) /\ RefusalAt(i) = None
  BY <1>3, <1>4, <1>5
<1>. QED
  BY <1>1, <1>6, <1>7 DEF ArgumentsSoFar

\* The second walk starts where the first has ended, with every user kept.
LEMMA SecondWalkStarts ==
  ASSUME LeafInv, PreBodyDone
  PROVE  ExtractSoFar' /\ BodySoFar'
<1>1. pc = "preBody" /\ k = Len(Chain) + 1 /\ pc \in CallPhases /\ pc \in CheckPhases
  BY DEF PreBodyDone, PastEnd, CallPhases, CheckPhases
<1>2. /\ call \in Calls /\ ~IsRaw(call.leaf) /\ Extractable
      /\ InScope /\ UsersKept /\ st.rest = call.rest /\ slot = "Streaming"
  BY <1>1 DEF LeafInv, IInv, TypeOK, CapturesHold, AuthSoFar, BodyUntouchedUntilCommit
<1>3. /\ st' = [st EXCEPT !.ctxs = LeaveNamed(st.ctxs)]
      /\ k' = 1 /\ args' = <<>> /\ slot' = slot
      /\ call' = call /\ req' = req /\ api' = api /\ Chain' = Chain
      /\ pc' = IF Mode = "Buffered" THEN "body" ELSE "extract"
  BY DEF PreBodyDone, fixed, Chain, Mode
<1>4. Len(Chain) \in Nat /\ Mode' = Mode
  BY <1>2, <1>3, ChainShape DEF Mode
<1>5. st'.ctxs = Scope(Chain, api.context)[0] /\ st'.users = st.users /\ st'.rest = st.rest
  <2>1. /\ st'.ctxs = LeaveNamed(st.ctxs) /\ st'.users = st.users /\ st'.rest = st.rest
    BY <1>2, <1>3, StateParts
  <2>2. st.ctxs = Scope(Chain, api.context)[Len(Chain)]
    BY <1>1, <1>2, <1>4 DEF InScope
  <2>. QED
    BY <1>4, <2>1, <2>2, ScopeLeaves
<1>6. InScope'
  BY <1>3, <1>4, <1>5 DEF InScope
<1>7. UsersLeft'
  <2>1. /\ \E S : st'.users \in Seq(S)
        /\ Len(st'.users) = Index(Chain, "Auth", Len(Chain))
        /\ \A i \in 1..Len(Chain) : Chain[i].c = "Auth" =>
             st'.users[Index(Chain, "Auth", i)] = UserOf(i)
    BY <1>1, <1>2, <1>4, <1>5 DEF UsersKept
  <2>2. /\ Index(Chain, "Auth", 0) = 0
        /\ \A i \in 0..Len(Chain) : Index(Chain, "Auth", i) \in Nat
    BY <1>4, IndexStep, IndexGrows
  <2>3. \A i \in 0..Len(Chain) :
          Index(Chain, "Auth", i) - Index(Chain, "Auth", 0) = Index(Chain, "Auth", i)
    BY <2>2
  <2>4. \A i : UserOf(i)' = UserOf(i)
    BY <1>3 DEF UserOf
  <2>5. k' - 1 = 0
    BY <1>3
  <2>6. /\ Len(st'.users) = Index(Chain, "Auth", Len(Chain)) - Index(Chain, "Auth", 0)
        /\ \A i \in 1..Len(Chain) : Chain[i].c = "Auth" =>
             st'.users[Index(Chain, "Auth", i) - Index(Chain, "Auth", 0)] = UserOf(i)
    BY <1>4, <2>1, <2>3
  <2>. QED
    BY <1>3, <2>1, <2>4, <2>5, <2>6 DEF UsersLeft
<1>8. ArgumentsSoFar(k - 1)'
  <2>1. <<>> \in Seq({}) /\ Len(<<>>) = 0 /\ 1..0 = {} /\ k' - 1 = 0
    BY <1>3
  <2>. QED
    BY <1>3, <2>1 DEF ArgumentsSoFar
<1>9. ~Earlier(Chain, "CaptureAll", 1) /\ ~Earlier(Chain, "StreamBody", 1)
  BY EarlierStep
<1>10. ExtractSoFar'
  BY <1>2, <1>3, <1>5, <1>6, <1>7, <1>8, <1>9 DEF ExtractSoFar
<1>11. BodySoFar'
  BY <1>2, <1>3, <1>4, <1>9 DEF BodySoFar
<1>. QED
  BY <1>10, <1>11

\* Buffering the body settles whether it can be had, and moves nothing else.
LEMMA BufferBodyOutcome ==
  ASSUME LeafInv, BufferBody
  PROVE  /\ \/ /\ BufferError(req) = None /\ slot' = "Buffered"
               /\ pc' = IF IsRaw(call.leaf) THEN "handler" ELSE "extract"
            \/ /\ BufferError(req) # None /\ ReturnFatal(LeafError(BufferError(req)))
         /\ UNCHANGED <<api, req, call, st, k, args>>
<1>1. slot = "Streaming"
  BY DEF BufferBody, LeafInv, BodySoFar
<1>2. TakeForBuffering(slot).got = "body"
  BY <1>1, TakeForBufferingCases DEF Slots
<1>. DEFINE code == CASE TakeForBuffering(slot).got = "body" -> BufferError(req)
                      [] TakeForBuffering(slot).got = "buffered" -> None
                      [] TakeForBuffering(slot).got = "error" -> 500
<1>3. code = BufferError(req)
  BY <1>2
<1>4. /\ \/ /\ code = None /\ slot' = "Buffered"
            /\ pc' = IF IsRaw(call.leaf) THEN "handler" ELSE "extract"
         \/ /\ code # None /\ ReturnFatal(LeafError(code))
      /\ UNCHANGED <<api, req, call, st, k, args>>
  BY DEF BufferBody, fixed, calling
<1>. HIDE DEF code
<1>. QED
  BY <1>3, <1>4

LEMMA BufferBodyHolds ==
  ASSUME LeafInv, BufferBody, pc' # "return"
  PROVE  ExtractSoFar' /\ BodySoFar'
<1>1. pc = "body" /\ (~IsRaw(call.leaf) => Mode = "Buffered" /\ k = 1)
  BY DEF BufferBody, LeafInv, BodySoFar
<1>2. /\ BufferError(req) = None /\ slot' = "Buffered"
      /\ pc' = IF IsRaw(call.leaf) THEN "handler" ELSE "extract"
      /\ UNCHANGED <<api, req, call, st, k, args>>
  BY BufferBodyOutcome DEF ReturnFatal
<1>3. /\ Chain' = Chain /\ Mode' = Mode /\ InScope' = InScope /\ UsersLeft' = UsersLeft
      /\ ArgumentsSoFar(k - 1)' = ArgumentsSoFar(k - 1)
  BY <1>2 DEF Chain, Mode, InScope, UsersLeft, ArgumentsSoFar, ArgumentAt, RefusalAt, UserOf
<1>4. BodySoFar'
  BY <1>1, <1>2, <1>3 DEF BodySoFar
<1>5. ExtractSoFar'
  BY <1>1, <1>2, <1>3 DEF LeafInv, ExtractSoFar
<1>. QED
  BY <1>4, <1>5

LEMMA ExtractStepHolds ==
  ASSUME LeafInv, ExtractStep, pc' # "return"
  PROVE  ExtractSoFar' /\ BodySoFar'
<1>1. pc = "extract"
  BY DEF ExtractStep, ExtractCapture, ExtractCaptureAll,
       ExtractParam, ExtractReqBody, ExtractStreamBody, ExtractAuth, ExtractResource,
       ExtractNamed, ExtractOther, ExtractDone, Extracting
<1>2. /\ ExtractHolds /\ ~IsRaw(call.leaf) /\ ArgumentsSoFar(k - 1)
      /\ Len(Chain) \in Nat /\ k \in Nat \ {0} /\ k - 1 \in Nat
      /\ Mode = "Buffered" => BufferError(req) = None
  BY <1>1, ExtractFinds
<1>3. CallSummary
  BY CallSteps DEF LeafInv, IInv, CallInv, CallStep
<1>4. /\ Chain' = Chain /\ call' = call /\ req' = req /\ api' = api /\ Mode' = Mode
  BY <1>3 DEF CallSummary, Chain, fixed, Mode
<1>5. CASE ExtractDone
  <2>1. pc' = "handler" /\ k = Len(Chain) + 1 /\ args' = args
    BY <1>5 DEF ExtractDone, PastEnd, calling
  <2>2. ArgumentsSoFar(Len(Chain))
    <3>1. k - 1 = Len(Chain)
      BY <1>2, <2>1
    <3>. QED
      BY <1>2, <3>1
  <2>3. ArgumentsSoFar(Len(Chain))'
    BY <1>4, <2>1, <2>2 DEF ArgumentsSoFar, ArgumentAt, RefusalAt
  <2>. QED
    BY <1>2, <1>4, <2>1, <2>3 DEF ExtractSoFar, BodySoFar
<1>6. CASE ~ExtractDone
  <2>1. k \in 1..Len(Chain) /\ Extracts
    BY <1>2, <1>6, ExtractSteps DEF Refuses, ReturnFatal
  <2>2. pc' = "extract" /\ k' = k + 1 /\ k' - 1 = k
    BY <1>1, <1>2, <2>1 DEF Extracts, Took
  <2>3. InScope'
    BY <1>2, <1>4, <2>1, <2>2 DEF InScope, Extracts
  <2>4. UsersLeft'
    BY <1>2, <1>4, <2>1, <2>2, UsersMove DEF ExtractHolds, Extracts
  <2>5. ArgumentsSoFar(k - 1)'
    BY <1>2, <1>4, <2>1, ArgumentAdded DEF Extracts
  <2>6. st'.rest = IF Earlier(Chain, "CaptureAll", k + 1) THEN None ELSE call.rest
    BY <1>2, <2>1, EarlierStep DEF Extracts, ExtractHolds
  <2>7. IF Mode = "Buffered" THEN slot' = "Buffered" /\ BufferError(req) = None
        ELSE slot' = IF Earlier(Chain, "StreamBody", k + 1) THEN "Taken" ELSE "Streaming"
    <3>1. CASE Chain[k].c = "StreamBody"
      <4>1. Mode # "Buffered"
        BY <2>1, <3>1, ArgumentCases, NoneIsNoCode DEF Extracts, ErrorCodes
      <4>. QED
        BY <1>2, <2>1, <3>1, <4>1, EarlierStep DEF Extracts
    <3>2. CASE Chain[k].c # "StreamBody"
      BY <1>2, <2>1, <3>2, EarlierStep DEF Extracts, ExtractHolds
    <3>. QED
      BY <3>1, <3>2
  <2>8. ExtractSoFar'
    BY <1>4, <2>2, <2>3, <2>4, <2>5, <2>6 DEF ExtractSoFar
  <2>9. BodySoFar'
    BY <1>4, <2>2, <2>7 DEF BodySoFar
  <2>. QED
    BY <2>8, <2>9
<1>. QED
  BY <1>5, <1>6, SMTT(40)

\* Both walks, and the body between them.
LEMMA WalksStay ==
  ASSUME LeafInv, CallStep
  PROVE  ExtractSoFar' /\ BodySoFar'
<1>1. CASE pc' = "return"
  BY <1>1, NothingClaimed, Phases
<1>2. CASE CheckStep /\ pc' # "return"
  <2>1. /\ pc' \notin {"extract", "handler"}
        /\ pc' = "body" => pc = "host" /\ IsRaw(call.leaf)
    BY <1>2, CheckStepPhases
  <2>2. CallSummary
    BY CallSteps DEF LeafInv, IInv, CallInv
  <2>3. call' = call /\ (pc' = "body" => slot' = "Streaming")
    <3>1. pc = "host" => pc \in CheckPhases /\ pc \notin CommittedPhases
      BY DEF CheckPhases, CommittedPhases
    <3>. QED
      BY <2>1, <2>2, <3>1
         DEF CallSummary, LeafInv, IInv, BodyUntouchedUntilCommit, Declines, Settles,
             ReturnFail, ReturnFatal
  <2>. QED
    BY <2>1, <2>3 DEF ExtractSoFar, BodySoFar
<1>3. CASE PreBodyStep /\ ~PreBodyDone /\ pc' # "return"
  <2>1. pc' = "preBody"
    BY <1>3 DEF PreBodyStep, PreBodyAuth, PreBodyNamed, PreBodyOther, ReturnFatal
  <2>. QED
    BY <2>1 DEF ExtractSoFar, BodySoFar
<1>. QED
  BY <1>1, <1>2, <1>3, SecondWalkStarts, BufferBodyHolds, ExtractStepHolds
     DEF CallStep, PreBodyStep

LEMMA ArgumentsStay ==
  ASSUME LeafInv, [Next]_vars
  PROVE  ArgumentsOfTheCall'
<1>1. CASE RunHandler
  <2>1. /\ pc = "handler" /\ call' = call /\ api' = api /\ req' = req /\ Chain' = Chain
        /\ ran' = Append(ran, [leaf |-> call.leaf, args |-> args, tail |-> call.tail])
    BY <1>1 DEF RunHandler, fixed, calling, Chain
  <2>2. ran = <<>>
    BY <2>1 DEF LeafInv, IInv, OneHandlerAnswers
  <2>3. ran'[1].leaf = call.leaf /\ ran'[1].args = args
    BY <2>1, <2>2
  <2>4. ~IsRaw(call.leaf) => ArgumentsSoFar(Len(Chain))
    BY <2>1 DEF LeafInv, ExtractSoFar
  <2>5. call \in Calls
    BY <2>1, Phases DEF LeafInv, IInv, TypeOK
  <2>6. DOMAIN Chain = 1..Len(Chain)
    BY <2>5, ChainShape
  <2>. QED
    BY <2>1, <2>3, <2>4, <2>6 DEF ArgumentsOfTheCall, ArgumentsSoFar, ArgumentAt
<1>2. CASE ~RunHandler
  <2>1. ran' = ran /\ api' = api /\ req' = req
    <3>1. RouteStep => ran' = ran /\ api' = api /\ req' = req
      BY RouteStepFacts
    <3>2. CallStep => ran' = ran /\ api' = api /\ req' = req
      BY CallSteps DEF LeafInv, IInv, CallInv, CallSummary, fixed
    <3>3. ReturnStep => ran' = ran /\ api' = api /\ req' = req
      BY ReturnStepFacts
    <3>4. Done \/ UNCHANGED vars => ran' = ran /\ api' = api /\ req' = req
      BY DEF Done, vars
    <3>. QED
      BY <1>2, <3>1, <3>2, <3>3, <3>4 DEF Next, Step, CallStep
  <2>2. ran # <<>> => call' = call
    BY StaysCommitted DEF LeafInv, Committed
  <2>. QED
    BY <2>1, <2>2 DEF LeafInv, ArgumentsOfTheCall, Chain
<1>. QED
  BY <1>1, <1>2

LEMMA LeafInitInv == Init => LeafInv
<1>. SUFFICES ASSUME Init PROVE LeafInv
  OBVIOUS
<1>1. IInv /\ pc = "route" /\ ran = <<>>
  BY InitInv DEF Init
<1>2. "route" \notin CallPhases /\ "route" \notin CommittedPhases
  BY DEF CallPhases, CheckPhases, CommittedPhases
<1>. QED
  BY <1>1, <1>2 DEF LeafInv, PhasesPassed, AuthSoFar, BodySoFar, ExtractSoFar,
                    ArgumentsOfTheCall

LEMMA LeafNextInv == LeafInv /\ [Next]_vars => LeafInv'
<1>. SUFFICES ASSUME LeafInv, [Next]_vars PROVE LeafInv'
  OBVIOUS
<1>1. IInv' /\ ArgumentsOfTheCall'
  BY NextInv, ArgumentsStay DEF LeafInv
<1>2. CASE CallStep
  BY <1>1, <1>2, PhasesStay, AuthStays, WalksStay DEF LeafInv
<1>3. CASE UNCHANGED vars
  BY <1>1, <1>3 DEF LeafInv, vars, PhasesPassed, AuthSoFar, BodySoFar, ExtractSoFar,
     InScope, UsersKept, UsersLeft, ArgumentsSoFar, ArgumentAt, RefusalAt, UserOf,
     Unauthorized, Chain, Mode
<1>4. CASE ~CallStep /\ ~UNCHANGED vars
  <2>1. pc' \in {"route", "leaves", "captures", "host", "return", "done"}
    <3>1. RouteStep => pc' \in {"route", "leaves", "captures", "host", "return"}
      BY RouteStepFacts, Phases DEF ReturnFail
    <3>2. ReturnStep => pc' \in {"route", "leaves", "return", "done"}
      BY ReturnStepFacts, Phases
    <3>3. RunHandler => pc' = "return"
      BY DEF RunHandler
    <3>. QED
      BY <1>4, <3>1, <3>2, <3>3 DEF Next, Step, CallStep, Done
  <2>2. pc' \notin CallPhases \ {"captures", "host"}
    BY <2>1, Phases
  <2>. QED
    BY <1>1, <2>2, NothingClaimed DEF LeafInv
<1>. QED
  BY <1>2, <1>3, <1>4

THEOREM LeafInvariance == Spec => []LeafInv
<1>. QED
  BY LeafInitInv, LeafNextInv, PTL DEF Spec

\* Whatever the chain, and wherever its authentications and named contexts
\* are, they all accept the request before anything is read, allocated or run
\* (handler.rs:98-112, named_context.rs:40).
THEOREM AuthenticatesFirst == Spec => []AuthPrecedesEverything
<1>1. LeafInv => AuthPrecedesEverything
  BY DEF LeafInv, AuthSoFar, AuthPrecedesEverything, Unauthorized
<1>. QED
  BY <1>1, LeafInvariance, PTL

\* Whatever the chain, the handler's argument at each position is the one its
\* combinator stands for (captures.rs, state.rs, take_prechecked).
THEOREM EachArgumentIsItsOwn == Spec => []ArgumentsOfTheCall
<1>1. LeafInv => ArgumentsOfTheCall
  BY DEF LeafInv
<1>. QED
  BY <1>1, LeafInvariance, PTL

-----------------------------------------------------------------------------
(***************************************************************************)
(* Every way a call ends is the one specified.                             *)
(***************************************************************************)
Decline == DeclineCode(call.leaf, call.caps, call.rest, req)
Fatal == FatalCode(call.leaf, req, api.context)

\* A status is a code, and no code is the absent one.
LEMMA CodesAreCodes ==
  /\ {400, 401, 403, 404, 405, 406, 409, 413, 415, 500} \subseteq ErrorCodes
  /\ \A code \in ErrorCodes : code # None
BY NoneIsNoCode DEF ErrorCodes

LEMMA DeclinedIsOutcome ==
  ASSUME Decline \in ErrorCodes, ret' = Fail(LeafError(Decline))
  PROVE  Outcome(ret')
BY CodesAreCodes DEF Outcome, Decline

LEMMA FatalIsOutcome ==
  ASSUME Decline = None, Fatal \in ErrorCodes, ret' = FailFatal(LeafError(Fatal))
  PROVE  Outcome(ret')
BY CodesAreCodes DEF Outcome, Decline, Fatal

\* The recoverable phases decline with the first reason there is.
LEMMA CheckOutcome ==
  ASSUME LeafInv, CheckStep, pc' = "return"
  PROVE  Outcome(ret')
<1>t. PhasesPassed /\ CapturesHold
  BY DEF LeafInv, IInv
<1>p. pc \in {"captures", "host", "method", "accept", "contentType"} /\ pc \in CallPhases
  BY DEF CheckStep, CheckCaptures, CheckHost, CheckMethod, CheckAccept,
         CheckContentType, Phase, CallPhases, CheckPhases
<1>r. ASSUME NEW here, NEW ok, NEW code, NEW next, next # "return",
             Phase(here, ok, code, next)
      PROVE  ~ok /\ ret' = Fail(LeafError(code))
  BY <1>r DEF Phase, ReturnFail
<1>d. {400, 404, 405, 406, 415} \subseteq ErrorCodes
  BY DEF ErrorCodes
<1>c. /\ IsRaw(call.leaf) => pc = "host"
      /\ ~IsRaw(call.leaf) /\ pc # "captures" =>
           MissingCaptures(Chain, call.caps) \cup BadCaptures(Chain, call.caps, call.rest) = {}
  BY <1>p, <1>t DEF CapturesHold, CapturesParse
<1>1. CASE CheckCaptures
  <2>. DEFINE missing == MissingCaptures(Chain, call.caps)
              failed == missing \cup BadCaptures(Chain, call.caps, call.rest)
              code == IF First(failed) \in missing THEN 404 ELSE 400
  <2>1. Phase("captures", failed = {}, code, "host") /\ pc = "captures"
    BY <1>1 DEF CheckCaptures, Phase
  <2>. HIDE DEF failed, code
  <2>2. failed # {} /\ ret' = Fail(LeafError(code))
    BY <1>r, <2>1
  <2>3. ~IsRaw(call.leaf)
    BY <1>c, <2>1
  <2>4. Decline = code /\ code \in ErrorCodes
    BY <1>d, <2>2, <2>3 DEF Decline, DeclineCode, failed, code, Chain
  <2>. QED
    BY <2>2, <2>4, DeclinedIsOutcome
<1>2. CASE CheckHost
  <2>1. /\ Phase("host", HostMatches(Chain, req), 404,
                 IF IsRaw(call.leaf) THEN "body" ELSE "method")
        /\ pc = "host"
    BY <1>2 DEF CheckHost, Phase
  <2>2. ~HostMatches(Chain, req) /\ ret' = Fail(LeafError(404))
    BY <1>r, <2>1
  <2>3. Decline = 404
    BY <1>c, <2>1, <2>2 DEF Decline, DeclineCode, Chain
  <2>. QED
    BY <1>d, <2>2, <2>3, DeclinedIsOutcome
<1>3. CASE CheckMethod
  <2>1. Phase("method", MethodMatches(call.leaf, req), 405, "accept") /\ pc = "method"
    BY <1>3 DEF CheckMethod, Phase
  <2>2. ~MethodMatches(call.leaf, req) /\ ret' = Fail(LeafError(405))
    BY <1>r, <2>1
  <2>3. HostMatches(Chain, req) /\ ~IsRaw(call.leaf)
    BY <1>c, <1>p, <1>t, <2>1 DEF PhasesPassed
  <2>4. Decline = 405
    BY <1>c, <2>1, <2>2, <2>3 DEF Decline, DeclineCode, Chain
  <2>. QED
    BY <1>d, <2>2, <2>4, DeclinedIsOutcome
<1>4. CASE CheckAccept
  <2>1. Phase("accept", Acceptable(call.leaf, req), 406, "contentType") /\ pc = "accept"
    BY <1>4 DEF CheckAccept, Phase
  <2>2. ~Acceptable(call.leaf, req) /\ ret' = Fail(LeafError(406))
    BY <1>r, <2>1
  <2>3. HostMatches(Chain, req) /\ ~IsRaw(call.leaf) /\ MethodMatches(call.leaf, req)
    BY <1>c, <1>p, <1>t, <2>1 DEF PhasesPassed
  <2>4. Decline = 406
    BY <1>c, <2>1, <2>2, <2>3 DEF Decline, DeclineCode, Chain
  <2>. QED
    BY <1>d, <2>2, <2>4, DeclinedIsOutcome
<1>5. CASE CheckContentType
  <2>1. /\ Phase("contentType", ContentTypeAcceptable(Chain, req), 415, "preBody")
        /\ pc = "contentType"
    BY <1>5 DEF CheckContentType, Phase
  <2>2. ~ContentTypeAcceptable(Chain, req) /\ ret' = Fail(LeafError(415))
    BY <1>r, <2>1
  <2>3. /\ HostMatches(Chain, req) /\ ~IsRaw(call.leaf) /\ MethodMatches(call.leaf, req)
        /\ Acceptable(call.leaf, req)
    BY <1>c, <1>p, <1>t, <2>1 DEF PhasesPassed
  <2>4. Decline = 415
    BY <1>c, <2>1, <2>2, <2>3 DEF Decline, DeclineCode, Chain
  <2>. QED
    BY <1>d, <2>2, <2>4, DeclinedIsOutcome
<1>. QED
  BY <1>1, <1>2, <1>3, <1>4, <1>5 DEF CheckStep

\* Once past the recoverable phases, a leaf has no reason to decline.
LEMMA NothingToDecline ==
  ASSUME LeafInv, pc \in CommittedPhases \/ pc = "preBody"
  PROVE  Decline = None
<1>1. /\ pc \in CallPhases \ {"captures", "host", "method", "accept", "contentType"}
  BY DEF CallPhases, CheckPhases, CommittedPhases
<1>2. /\ HostMatches(Chain, req)
      /\ ~IsRaw(call.leaf) =>
           /\ MethodMatches(call.leaf, req) /\ Acceptable(call.leaf, req)
           /\ ContentTypeAcceptable(Chain, req)
  BY <1>1 DEF LeafInv, PhasesPassed
<1>3. ~IsRaw(call.leaf) =>
        MissingCaptures(Chain, call.caps) \cup BadCaptures(Chain, call.caps, call.rest) = {}
  BY <1>1 DEF LeafInv, IInv, CapturesHold, CapturesParse
<1>. QED
  BY <1>2, <1>3 DEF Decline, DeclineCode, Chain

\* The error of the first authentication that refuses.
LEMMA PreBodyOutcome ==
  ASSUME LeafInv, PreBodyStep, pc' = "return"
  PROVE  Outcome(ret')
<1>1. pc = "preBody" /\ PreBodyAuth
  BY DEF PreBodyStep, PreBodyAuth, PreBodyNamed, PreBodyOther, PreBodyDone
<1>2. /\ call \in Calls /\ Extractable /\ InScope /\ ~IsRaw(call.leaf)
      /\ \A i \in 1..(k - 1) : i \notin Unauthorized
  BY <1>1 DEF LeafInv, IInv, TypeOK, CallPhases, CheckPhases, CapturesHold, AuthSoFar
<1>3. k \in 1..Len(Chain) /\ k \in Unauthorized /\ ret' = FailFatal(LeafError(AuthCode(k)))
  BY <1>1, <1>2, PreBodySteps DEF PreBodySummary, ReturnFatal
<1>4. First(Unauthorized) = k
  <2>1. Unauthorized \subseteq 1..Len(Chain) /\ Len(Chain) \in Nat
    BY <1>2, ChainShape DEF Unauthorized, AuthFailures
  <2>2. Unauthorized \subseteq Nat /\ \A j \in Unauthorized : k <= j
    BY <1>2, <1>3, <2>1
  <2>. QED
    BY <1>3, <2>2, FirstIsLeast
<1>5. Fatal = AuthCode(k)
  BY <1>2, <1>3, <1>4 DEF Fatal, FatalCode, Unauthorized, AuthCode, Chain
<1>6. AuthCode(k) \in ErrorCodes
  <2>1. Chain[k].c = "Auth" /\ k \in DOMAIN Chain /\ call.leaf \in Leaves
    BY <1>2, <1>3 DEF Unauthorized, AuthFailures, Calls
  <2>2. Chain[k].denied \in ErrorCodes
    BY <2>1, DenialsAreErrors DEF Chain
  <2>. QED
    BY <2>2, CodesAreCodes DEF AuthCode
<1>7. Decline = None
  BY <1>1, NothingToDecline
<1>. QED
  BY <1>3, <1>5, <1>6, <1>7, FatalIsOutcome

\* The error of a body that cannot be had.
LEMMA BufferOutcome ==
  ASSUME LeafInv, BufferBody, pc' = "return"
  PROVE  Outcome(ret')
<1>1. pc = "body" /\ pc \in CommittedPhases
  BY DEF BufferBody, CommittedPhases
<1>2. BufferError(req) # None /\ ret' = FailFatal(LeafError(BufferError(req)))
  BY BufferBodyOutcome DEF ReturnFatal
<1>3. /\ ~IsRaw(call.leaf) => Unauthorized = {} /\ Mode = "Buffered"
  BY <1>1 DEF LeafInv, AuthSoFar, BodySoFar
<1>4. Fatal = BufferError(req)
  BY <1>2, <1>3 DEF Fatal, FatalCode, Unauthorized, Mode, Chain
<1>5. BufferError(req) \in ErrorCodes
  BY <1>2, CodesAreCodes DEF BufferError
<1>6. Decline = None
  BY <1>1, NothingToDecline
<1>. QED
  BY <1>2, <1>4, <1>5, <1>6, FatalIsOutcome

\* The error of the first argument that cannot be had.
LEMMA ExtractOutcome ==
  ASSUME LeafInv, ExtractStep, pc' = "return"
  PROVE  Outcome(ret')
<1>1. pc = "extract" /\ pc \in CommittedPhases
  BY DEF ExtractStep, ExtractCapture, ExtractCaptureAll,
       ExtractParam, ExtractReqBody, ExtractStreamBody, ExtractAuth, ExtractResource,
       ExtractNamed, ExtractOther, ExtractDone, Extracting, CommittedPhases
<1>2. /\ ExtractHolds /\ ~IsRaw(call.leaf) /\ ArgumentsSoFar(k - 1)
      /\ Len(Chain) \in Nat /\ call \in Calls
      /\ Mode = "Buffered" => BufferError(req) = None
  BY <1>1, ExtractFinds DEF ExtractHolds
<1>3. ~ExtractDone
  BY DEF ExtractDone
<1>4. /\ k \in 1..Len(Chain) /\ RefusalAt(k) \in ErrorCodes
      /\ ret' = FailFatal(LeafError(RefusalAt(k)))
  BY <1>1, <1>2, <1>3, ExtractSteps DEF Extracts, Refuses, Took, ReturnFatal
<1>5. Unauthorized = {}
  BY <1>1, <1>2 DEF LeafInv, AuthSoFar
<1>. DEFINE refused == {i \in DOMAIN Chain : RefusalAt(i) # None}
<1>6. First(refused) = k /\ refused # {}
  <2>1. \A i \in 1..(k - 1) : RefusalAt(i) = None
    BY <1>2 DEF ArgumentsSoFar
  <2>2. DOMAIN Chain = 1..Len(Chain) /\ RefusalAt(k) # None
    BY <1>2, <1>4, ChainShape, CodesAreCodes
  <2>3. k \in refused /\ refused \subseteq Nat /\ \A j \in refused : k <= j
    BY <1>2, <1>4, <2>1, <2>2
  <2>. HIDE DEF refused
  <2>. QED
    BY <2>3, FirstIsLeast
<1>7. Fatal = RefusalAt(k)
  <2>1. refused = {i \in DOMAIN Chain : ArgumentCode(Chain, req, api.context, i) # None}
    BY DEF RefusalAt
  <2>. HIDE DEF refused
  <2>. QED
    BY <1>2, <1>5, <1>6, <2>1 DEF Fatal, FatalCode, Unauthorized, Mode, Chain, RefusalAt
<1>8. Decline = None
  BY <1>1, NothingToDecline
<1>. QED
  BY <1>4, <1>7, <1>8, FatalIsOutcome, SMTT(40)

\* A handler runs only where nothing was refused.
LEMMA HandlerOutcome ==
  ASSUME LeafInv, RunHandler
  PROVE  Outcome(ret')
<1>1. pc = "handler" /\ pc \in CommittedPhases /\ pc \in CallPhases
  BY DEF RunHandler, CommittedPhases, CallPhases
<1>2. ret'.tag = "Route"
  BY RunHandlerType DEF LeafInv, IInv
<1>3. /\ ~IsRaw(call.leaf) => Unauthorized = {} /\ ArgumentsSoFar(Len(Chain))
      /\ IsRaw(call.leaf) \/ Mode = "Buffered" => BufferError(req) = None
  BY <1>1 DEF LeafInv, AuthSoFar, BodySoFar, ExtractSoFar
<1>4. ~IsRaw(call.leaf) => {i \in DOMAIN Chain : RefusalAt(i) # None} = {}
  <2>1. call \in Calls
    BY <1>1 DEF LeafInv, IInv, TypeOK
  <2>. QED
    BY <1>3, <2>1, ChainShape DEF ArgumentsSoFar
<1>5. Fatal = None
  BY <1>3, <1>4 DEF Fatal, FatalCode, Unauthorized, Mode, Chain, RefusalAt
<1>6. Decline = None
  BY <1>1, NothingToDecline
<1>. QED
  BY <1>2, <1>5, <1>6 DEF Outcome, Decline, Fatal

\* Whatever the chain, the request and the context: a leaf declines with its
\* first recoverable reason, fails for good with its first fatal one, and runs
\* its handler otherwise (EndpointLeaf::call, handler.rs:56-126).
THEOREM LeavesAnswerAsSpecified == Spec => LeafAnswersAsSpecified
<1>. DEFINE Ends == (pc \in CallPhases /\ pc' = "return") => Outcome(ret')
<1>1. ASSUME LeafInv, [Next]_vars PROVE Ends
  <2>. SUFFICES ASSUME pc \in CallPhases, pc' = "return" PROVE Outcome(ret')
    OBVIOUS
  <2>1. ~RouteStep /\ ~ReturnStep /\ ~Done /\ ~UNCHANGED vars
    BY RouteStepFacts, ReturnStepFacts, Phases DEF Done, vars
  <2>. QED
    BY <1>1, <2>1, CheckOutcome, PreBodyOutcome, BufferOutcome, ExtractOutcome,
       HandlerOutcome DEF Next, Step
<1>2. LeafInv /\ [Next]_vars => Ends
  BY <1>1
<1>3. Spec => [][Ends]_vars
  BY <1>2, LeafInvariance, PTL DEF Spec
<1>. QED
  BY <1>3 DEF LeafAnswersAsSpecified

-----------------------------------------------------------------------------
(***************************************************************************)
(* Texts of any length and of any pieces, on their way through a path or a *)
(* query string: escaping is undone by decoding and leaves no separator    *)
(* behind, so a pair rendered as key=value is read back as that pair.      *)
(***************************************************************************)
Wire(Piece) == {<<p>> : p \in Piece} \cup {<<"%", p>> : p \in Piece}

LEMMA EscapeAt ==
  ASSUME NEW Piece, NEW text \in Seq(Piece)
  PROVE  /\ Escape(text) \in Seq(Wire(Piece))
         /\ Len(Escape(text)) = Len(text)
         /\ DOMAIN Escape(text) = 1..Len(text)
         /\ \A i \in 1..Len(text) :
              /\ text[i] \in Reserved => Escape(text)[i] = <<"%", text[i]>>
              /\ text[i] \notin Reserved => Escape(text)[i] = <<text[i]>>
<1> DEFINE e == Escape(text)
           c(p) == IF p \in Reserved THEN <<"%", p>> ELSE <<p>>
<1>1. DOMAIN text = 1..Len(text) /\ Len(text) \in Nat
  OBVIOUS
<1>2. e = [i \in 1..Len(text) |-> c(text[i])]
  BY <1>1 DEF Escape
<1>3. \A p \in Piece : c(p) \in Wire(Piece)
  BY DEF Wire
<1>4. \A i \in 1..Len(text) : c(text[i]) \in Wire(Piece)
  BY <1>3
<1>5. \A i \in 1..Len(text) : e[i] = c(text[i])
  BY <1>2, Zenon
<1>6. e \in [1..Len(text) -> Wire(Piece)]
  <2> HIDE DEF c
  <2> QED
    BY <1>2, <1>4, Zenon
<1>7. e \in Seq(Wire(Piece)) /\ Len(e) = Len(text)
  <2> SUFFICES ASSUME NEW E, E = Wire(Piece)
               PROVE  e \in Seq(E) /\ Len(e) = Len(text)
    BY Zenon
  <2>1. e \in [1..Len(text) -> E]
    BY <1>6, Zenon
  <2> HIDE DEF e
  <2> QED
    BY <1>1, <2>1
<1>8. DOMAIN e = 1..Len(text)
  BY <1>2, Zenon
<1> HIDE DEF e
<1>9. \A i \in 1..Len(text) :
        /\ text[i] \in Reserved => e[i] = <<"%", text[i]>>
        /\ text[i] \notin Reserved => e[i] = <<text[i]>>
  BY <1>5, Zenon
<1> QED
  BY <1>7, <1>8, <1>9, Zenon DEF e

\* The character an escape stands for is its last.
LEMMA LastOfWire ==
  ASSUME NEW p
  PROVE  Last(<<p>>) = p /\ Last(<<"%", p>>) = p
BY DEF Last

(***************************************************************************)
(* decode_component undoes utf8_percent_encode: no text changes on its way *)
(* through a query string, plus signs and spaces included.                 *)
(***************************************************************************)
THEOREM DecodeUndoesEscape ==
  ASSUME NEW Piece, NEW text \in Seq(Piece)
  PROVE  DecodeComponent(Escape(text)) = text
<1> DEFINE e == Escape(text)
           back(w) == IF w = <<"+">> THEN " " ELSE Last(w)
<1>1. DOMAIN e = 1..Len(text)
  BY EscapeAt, Zenon
<1>2. ASSUME NEW i \in 1..Len(text) PROVE back(e[i]) = text[i]
  <2>1. CASE text[i] \in Reserved
    <3>1. e[i] = <<"%", text[i]>>
      BY <2>1, EscapeAt, Zenon
    <3>2. <<"%", text[i]>> # <<"+">>
      OBVIOUS
    <3> QED
      BY <3>1, <3>2, LastOfWire, Zenon
  <2>2. CASE text[i] \notin Reserved
    <3>1. e[i] = <<text[i]>>
      BY <2>2, EscapeAt, Zenon
    <3>2. text[i] # "+"
      BY <2>2 DEF Reserved
    <3>3. <<text[i]>> # <<"+">>
      BY <3>2
    <3> QED
      BY <3>1, <3>3, LastOfWire, Zenon
  <2> QED
    BY <2>1, <2>2, Zenon
<1>3. DecodeComponent(e) = [i \in 1..Len(text) |-> back(e[i])]
  BY <1>1, Zenon DEF DecodeComponent
<1> HIDE DEF back, e
<1>4. [i \in 1..Len(text) |-> back(e[i])] = [i \in 1..Len(text) |-> text[i]]
  BY <1>2, Zenon
<1>5. [i \in 1..Len(text) |-> text[i]] = text
  OBVIOUS
<1> QED
  BY <1>3, <1>4, <1>5, Zenon DEF e

(***************************************************************************)
(* percent_decode, which leaves plus signs alone, undoes it too, piece by  *)
(* piece; PathIsReadBack says what that does for a whole path.             *)
(***************************************************************************)
LEMMA PercentDecodeUndoesEscape ==
  ASSUME NEW Piece, NEW text \in Seq(Piece)
  PROVE  PercentDecode(Escape(text)) = text
<1> DEFINE e == Escape(text)
<1>1. DOMAIN e = 1..Len(text)
  BY EscapeAt, Zenon
<1>2. ASSUME NEW i \in 1..Len(text) PROVE Last(e[i]) = text[i]
  <2>1. e[i] = <<"%", text[i]>> \/ e[i] = <<text[i]>>
    BY EscapeAt, Zenon
  <2> QED
    BY <2>1, LastOfWire, Zenon
<1>3. PercentDecode(e) = [i \in 1..Len(text) |-> Last(e[i])]
  BY <1>1, Zenon DEF PercentDecode
<1> HIDE DEF e
<1>4. [i \in 1..Len(text) |-> Last(e[i])] = [i \in 1..Len(text) |-> text[i]]
  BY <1>2, Zenon
<1>5. [i \in 1..Len(text) |-> text[i]] = text
  OBVIOUS
<1> QED
  BY <1>3, <1>4, <1>5, Zenon DEF e

\* An escaped text holds none of the characters that separate texts.
LEMMA NoDelimiter ==
  ASSUME NEW Piece, NEW text \in Seq(Piece), NEW d \in Reserved,
         NEW i \in 1..Len(text)
  PROVE  Escape(text)[i] # <<d>>
<1>1. CASE text[i] \in Reserved
  <2>1. Escape(text)[i] = <<"%", text[i]>>
    BY <1>1, EscapeAt, Zenon
  <2>2. <<"%", text[i]>> # <<d>>
    OBVIOUS
  <2> QED
    BY <2>1, <2>2, Zenon
<1>2. CASE text[i] \notin Reserved
  <2>1. Escape(text)[i] = <<text[i]>>
    BY <1>2, EscapeAt, Zenon
  <2>2. text[i] # d
    BY <1>2, Zenon
  <2>3. <<text[i]>> # <<d>>
    BY <2>2
  <2> QED
    BY <2>1, <2>3, Zenon
<1> QED
  BY <1>1, <1>2, Zenon

-----------------------------------------------------------------------------
\* The first delimiter behind a text without one is where it is split.
LEMMA SplitOnceAtFirst ==
  ASSUME NEW E, NEW e \in Seq(E), NEW rest \in Seq(E), NEW d, <<d>> \in E,
         \A i \in 1..Len(e) : e[i] # <<d>>
  PROVE  SplitOnce(e \o <<<<d>>>> \o rest, d) = <<e, rest>>
<1> DEFINE sep == <<d>>
           n == Len(e)
           wire == e \o <<sep>> \o rest
           place == SelectInSeq(wire, LAMBDA c : c = sep)
           I == {i \in 1..Len(wire) : wire[i] = sep}
<1>1. sep \in E /\ \A i \in 1..n : e[i] # sep
  BY Zenon
<1> HIDE DEF sep
<1>2. n \in Nat /\ Len(rest) \in Nat
  OBVIOUS
<1>3. /\ wire \in Seq(E)
      /\ Len(wire) = n + 1 + Len(rest)
      /\ \A i \in 1..n : wire[i] = e[i]
      /\ wire[n + 1] = sep
      /\ \A i \in 1..Len(rest) : wire[n + 1 + i] = rest[i]
  BY <1>1, <1>2
<1> HIDE DEF wire
<1>4. n + 1 \in I
  BY <1>2, <1>3
<1>5. \A j \in I : n + 1 <= j
  <2> SUFFICES ASSUME NEW j \in 1..Len(wire), wire[j] = sep, ~(n + 1 <= j)
               PROVE  FALSE
    BY <1>2, <1>3
  <2>1. j \in 1..n
    BY <1>2, <1>3
  <2> QED
    BY <2>1, <1>1, <1>3
<1>6. place = n + 1
  <2>1. place = IF I # {} THEN Min(I) ELSE 0
    BY Zenon DEF SelectInSeq
  <2>2. I \subseteq Int
    BY <1>3
  <2> HIDE DEF I, place
  <2>3. \A x \in I : (\A y \in I : x <= y) => x = n + 1
    BY <1>4, <1>5, <2>2, <1>2
  <2>4. Min(I) = n + 1
    BY <1>4, <1>5, <2>3 DEF Min
  <2> QED
    BY <2>1, <2>4, <1>4
<1> HIDE DEF I, place
<1>7. SubSeq(wire, 1, n) = e
  BY <1>2, <1>3
<1>8. SubSeq(wire, n + 2, Len(wire)) = rest
  <2> DEFINE tail == SubSeq(wire, n + 2, Len(wire))
  <2>1. tail \in Seq(E) /\ Len(tail) = Len(rest)
    BY <1>2, <1>3
  <2>2. \A i \in 1..Len(rest) : tail[i] = wire[n + 1 + i]
    BY <1>2, <1>3
  <2> HIDE DEF tail
  <2>3. tail = rest
    <3>1. \A i \in 1..Len(rest) : tail[i] = rest[i]
      BY <2>2, <1>3
    <3>2. tail = [i \in 1..Len(rest) |-> tail[i]] /\ rest = [i \in 1..Len(rest) |-> rest[i]]
      BY <2>1
    <3>3. [i \in 1..Len(rest) |-> tail[i]] = [i \in 1..Len(rest) |-> rest[i]]
      BY <3>1, Zenon
    <3> QED
      BY <3>2, <3>3, Zenon
  <2> QED
    BY <2>3 DEF tail
<1>9. SplitOnce(wire, d) = IF place = 0 THEN <<wire>>
                           ELSE <<SubSeq(wire, 1, place - 1), SubSeq(wire, place + 1, Len(wire))>>
  BY Zenon DEF SplitOnce, place, sep
<1>10. place # 0 /\ place - 1 = n /\ place + 1 = n + 2
  BY <1>2, <1>6
<1>11. SplitOnce(wire, d) = <<e, rest>>
  BY <1>7, <1>8, <1>9, <1>10
<1> QED
  BY <1>11, Zenon DEF wire, sep

(***************************************************************************)
(* parse_query reads a rendered pair back as itself: its key ends at the   *)
(* equals sign that was put there, whatever key and value are made of.     *)
(***************************************************************************)
THEOREM PairIsReadBack ==
  ASSUME NEW Piece, "=" \in Piece, NEW key \in Seq(Piece), NEW value \in Seq(Piece)
  PROVE  ParsePair(Escape(key) \o <<<<"=">>>> \o Escape(value)) = <<key, value>>
<1> DEFINE parts == SplitOnce(Escape(key) \o <<<<"=">>>> \o Escape(value), "=")
<1>1. /\ Escape(key) \in Seq(Wire(Piece))
      /\ Escape(value) \in Seq(Wire(Piece))
      /\ Len(Escape(key)) = Len(key)
  BY EscapeAt, Zenon
<1>2. "=" \in Reserved
  BY DEF Reserved
<1>3. \A i \in 1..Len(Escape(key)) : Escape(key)[i] # <<"=">>
  BY <1>1, <1>2, NoDelimiter
<1>4. <<"=">> \in Wire(Piece)
  BY DEF Wire
<1>5. parts = <<Escape(key), Escape(value)>>
  BY <1>1, <1>3, <1>4, SplitOnceAtFirst, Zenon
<1>6. DecodeComponent(Escape(key)) = key /\ DecodeComponent(Escape(value)) = value
  BY DecodeUndoesEscape
<1> HIDE DEF parts
<1>7. [n \in DOMAIN parts |-> DecodeComponent(parts[n])] = <<key, value>>
  BY <1>5, <1>6
<1> QED
  BY <1>7, Zenon DEF ParsePair, parts

-----------------------------------------------------------------------------
(***************************************************************************)
(* str::split, as the parts after each character of the text.              *)
(***************************************************************************)
SplitStep(parts, c, d) ==
  IF c = <<d>> THEN Append(parts, <<>>)
  ELSE Append(Front(parts), Append(Last(parts), c))

Splits(wire, d, f) ==
  /\ f[0] = <<<<>>>>
  /\ \A m \in 1..Len(wire) : f[m] = SplitStep(f[m - 1], wire[m], d)

\* A fold takes the elements from the last to the first; its calls in order.
LEMMA SplitUnrolls ==
  ASSUME NEW E, NEW wire \in Seq(E), NEW d
  PROVE  \E f : Splits(wire, d, f) /\ Split(wire, d) = f[Len(wire)]
<1>. DEFINE N == Len(wire)
            Fold(s, g) == IF s = {} THEN <<<<>>>>
                          ELSE SplitStep(g[s \ {Max(s)}], wire[Max(s)], d)
            Is(g, m) == g = [s \in SUBSET (1..m) |-> Fold(s, g)]
<1>1. N \in Nat /\ DOMAIN wire = 1..N
  OBVIOUS
<1>2. Split(wire, d) = (CHOOSE g : Is(g, N))[1..N]
  <2>. DEFINE IsOver(g, S) == g = [s \in SUBSET S |-> Fold(s, g)]
  <2>1. Split(wire, d) = (CHOOSE g : IsOver(g, DOMAIN wire))[DOMAIN wire]
    BY Zenon DEF Split, FoldLeft, MapThenFoldSet, SplitStep
  <2>. QED
    BY <1>1, <2>1, Zenon
<1>3. /\ \A g : Fold({}, g) = <<<<>>>>
      /\ \A s, g : s # {} => Fold(s, g) = SplitStep(g[s \ {Max(s)}], wire[Max(s)], d)
  OBVIOUS
<1>4. \A m \in Nat \ {0} : Max(1..m) = m
  <2>. SUFFICES ASSUME NEW m \in Nat \ {0} PROVE Max(1..m) = m
    OBVIOUS
  <2>1. m \in 1..m /\ \A y \in 1..m : m >= y
    OBVIOUS
  <2>2. \A x \in 1..m : (\A y \in 1..m : x >= y) => x = m
    OBVIOUS
  <2>. QED
    BY <2>1, <2>2, Zenon DEF Max
<1>5. \A m \in Nat : \A s \in SUBSET (1..m) : m \in s => Max(s) = m
  <2>. SUFFICES ASSUME NEW m \in Nat, NEW s \in SUBSET (1..m), m \in s PROVE Max(s) = m
    OBVIOUS
  <2>1. \A y \in s : m >= y
    OBVIOUS
  <2>2. \A x \in s : (\A y \in s : x >= y) => x = m
    OBVIOUS
  <2>. QED
    BY <2>1, <2>2, Zenon DEF Max
<1>. HIDE DEF Fold, N
<1>6. \A m \in 0..N : \E g : Is(g, m)
  <2>. DEFINE T == {m \in 0..N : ~ \E g : Is(g, m)}
  <2>. SUFFICES ASSUME T # {} PROVE FALSE
    OBVIOUS
  <2>1. PICK m \in T : \A j \in T : m <= j
    <3>. T \subseteq Nat
      OBVIOUS
    <3>. HIDE DEF T
    <3>. QED
      BY LeastNat
  <2>2. CASE m = 0
    <3>. DEFINE h == [s \in SUBSET (1..0) |-> <<<<>>>>]
    <3>1. \A s \in SUBSET (1..0) : s = {}
      OBVIOUS
    <3>2. \A s \in SUBSET (1..0) : h[s] = Fold(s, h)
      BY <1>3, <3>1
    <3>3. Is(h, 0)
      BY <3>2
    <3>. QED
      BY <2>1, <2>2, <3>3
  <2>3. CASE m # 0
    <3>m. m \in Nat /\ m \in 1..N /\ m - 1 \in 0..N /\ m - 1 \notin T
      <4>1. T \subseteq 0..N
        BY Zenon
      <4>. HIDE DEF T
      <4>. QED
        BY <1>1, <2>1, <2>3, <4>1
    <3>1. PICK g : Is(g, m - 1)
      BY <3>m
    <3>. DEFINE h == [s \in SUBSET (1..m) |->
                        IF m \in s THEN SplitStep(g[s \ {m}], wire[m], d) ELSE g[s]]
    <3>a. \A s \in SUBSET (1..(m - 1)) : g[s] = Fold(s, g)
      BY <3>1
    <3>b. /\ \A s \in SUBSET (1..m) : m \notin s => s \in SUBSET (1..(m - 1))
          /\ \A s \in SUBSET (1..m) : s \ {m} \in SUBSET (1..m) /\ m \notin s \ {m}
          /\ \A s \in SUBSET (1..m) : \A x : s \ {x} \in SUBSET (1..m)
      <4>1. \A i \in 1..m : i # m => i \in 1..(m - 1)
        BY <3>m
      <4>. QED
        BY <4>1, Zenon
    <3>. HIDE DEF Is
    <3>c. \A s \in SUBSET (1..m) : m \notin s => h[s] = g[s]
      OBVIOUS
    <3>2. ASSUME NEW s \in SUBSET (1..m) PROVE h[s] = Fold(s, h)
      <4>1. CASE m \in s
        <5>1. h[s] = SplitStep(g[s \ {m}], wire[m], d)
          BY <4>1
        <5>2. h[s \ {m}] = g[s \ {m}]
          BY <3>b, <3>c
        <5>3. Max(s) = m /\ s # {}
          BY <4>1, <1>5, <3>m
        <5>. HIDE DEF h
        <5>4. Fold(s, h) = SplitStep(h[s \ {m}], wire[m], d)
          BY <5>3, <1>3
        <5>. QED
          BY <5>1, <5>2, <5>4
      <4>2. CASE m \notin s /\ s # {}
        <5>1. h[s] = g[s] /\ s \in SUBSET (1..(m - 1))
          BY <4>2, <3>b, <3>c
        <5>2. g[s] = SplitStep(g[s \ {Max(s)}], wire[Max(s)], d)
          BY <4>2, <5>1, <3>a, <1>3
        <5>3. h[s \ {Max(s)}] = g[s \ {Max(s)}]
          <6>1. s \ {Max(s)} \in SUBSET (1..m) /\ m \notin s \ {Max(s)}
            BY <4>2
          <6>. HIDE DEF h
          <6>. QED
            BY <6>1, <3>c
        <5>. HIDE DEF h
        <5>4. Fold(s, h) = SplitStep(h[s \ {Max(s)}], wire[Max(s)], d)
          BY <4>2, <1>3
        <5>. QED
          BY <5>1, <5>2, <5>3, <5>4
      <4>3. CASE s = {}
        <5>1. h[s] = g[s] /\ s \in SUBSET (1..(m - 1))
          BY <4>3, <3>c
        <5>. HIDE DEF h
        <5>. QED
          BY <4>3, <5>1, <3>a, <1>3
      <4>. QED
        BY <4>1, <4>2, <4>3
    <3>3. h = [s \in SUBSET (1..m) |-> Fold(s, h)]
      <4>1. h = [s \in SUBSET (1..m) |-> h[s]]
        OBVIOUS
      <4>. HIDE DEF h
      <4>2. [s \in SUBSET (1..m) |-> h[s]] = [s \in SUBSET (1..m) |-> Fold(s, h)]
        BY <3>2, Zenon
      <4>. QED
        BY <4>1, <4>2, Zenon
    <3>. HIDE DEF h
    <3>4. Is(h, m)
      BY <3>3 DEF Is
    <3>. QED
      BY <2>1, <3>4
  <2>. QED
    BY <2>2, <2>3
<1>7. PICK g : Is(g, N) /\ Split(wire, d) = g[1..N]
  <2>. HIDE DEF Is
  <2>1. N \in 0..N
    BY <1>1
  <2>. QED
    BY <1>2, <1>6, <2>1, Zenon
<1>8. \A s \in SUBSET (1..N) : g[s] = Fold(s, g)
  BY <1>7
<1>. HIDE DEF Is
<1>. DEFINE f == [m \in 0..N |-> g[1..m]]
<1>9. f[0] = <<<<>>>>
  <2>1. f[0] = g[1..0] /\ 1..0 = {} /\ {} \in SUBSET (1..N)
    BY <1>1
  <2>. HIDE DEF f
  <2>. QED
    BY <2>1, <1>3, <1>8
<1>10. ASSUME NEW m \in 1..N PROVE f[m] = SplitStep(f[m - 1], wire[m], d)
  <2>1. m \in Nat \ {0} /\ m \in 0..N /\ m - 1 \in 0..N
    BY <1>1
  <2>2. f[m] = g[1..m] /\ f[m - 1] = g[1..(m - 1)]
    BY <2>1
  <2>3. 1..m \in SUBSET (1..N) /\ 1..m # {} /\ (1..m) \ {m} = 1..(m - 1)
    <3>1. /\ \A i \in 1..m : i \in 1..N /\ (i # m => i \in 1..(m - 1))
          /\ \A i \in 1..(m - 1) : i \in 1..m /\ i # m
          /\ m \in 1..m
      BY <2>1, <1>1
    <3>. QED
      BY <3>1, Zenon
  <2>. HIDE DEF f
  <2>4. g[1..m] = SplitStep(g[(1..m) \ {Max(1..m)}], wire[Max(1..m)], d)
    BY <2>3, <1>3, <1>8
  <2>. QED
    BY <1>4, <2>1, <2>2, <2>3, <2>4
<1>11. f[N] = g[1..N]
  BY <1>1
<1>. HIDE DEF f
<1>. QED
  BY <1>7, <1>9, <1>10, <1>11 DEF Splits, N

\* After its first a characters the wire goes on with e, which has no delimiter.
WireHolds(wire, a, e, d) ==
  /\ a + Len(e) <= Len(wire)
  /\ \A i \in 1..Len(e) : wire[a + i] = e[i] /\ e[i] # <<d>>

\* What a text without a delimiter adds to the parts is itself.
LEMMA SplitWalks ==
  ASSUME NEW E, NEW wire \in Seq(E), NEW d, NEW f, Splits(wire, d, f),
         NEW parts \in Seq(Seq(E)), NEW e \in Seq(E), NEW a \in Nat,
         f[a] = Append(parts, <<>>), WireHolds(wire, a, e, d)
  PROVE  f[a + Len(e)] = Append(parts, e)
<1>. DEFINE n == Len(e)
            Is(i) == f[a + i] = Append(parts, SubSeq(e, 1, i))
            T == {i \in 0..n : ~Is(i)}
<1>1. n \in Nat /\ SubSeq(e, 1, n) = e /\ SubSeq(e, 1, 0) = <<>>
  OBVIOUS
<1>0. Is(0)
  <2>1. a + 0 = a
    OBVIOUS
  <2>. QED
    BY <1>1, <2>1, Zenon
<1>a. n = Len(e)
  OBVIOUS
<1>. HIDE DEF Is, n
<1>2. ASSUME T # {} PROVE FALSE
  <2>1. PICK i \in T : \A j \in T : i <= j
    <3>. T \subseteq Nat
      OBVIOUS
    <3>. HIDE DEF T
    <3>. QED
      BY <1>2, LeastNat
  <2>a. i \in 0..n /\ ~Is(i)
    BY <2>1
  <2>2. i # 0
    BY <1>0, <2>a
  <2>3. /\ i \in 1..n /\ i - 1 \in 0..n /\ i \in Nat
        /\ a + i \in 1..Len(wire) /\ (a + i) - 1 = a + (i - 1)
    BY <1>1, <1>a, <2>a, <2>2 DEF WireHolds
  <2>4. f[a + (i - 1)] = Append(parts, SubSeq(e, 1, i - 1))
    <3>1. ~(i <= i - 1)
      BY <2>3
    <3>. QED
      BY <2>1, <2>3, <3>1 DEF Is
  <2>5. f[a + i] = SplitStep(f[a + (i - 1)], e[i], d)
    BY <1>a, <2>3 DEF Splits, WireHolds
  <2>. DEFINE x == SubSeq(e, 1, i - 1)
  <2>6. x \in Seq(E) /\ Append(x, e[i]) = SubSeq(e, 1, i)
    BY <1>1, <1>a, <2>3
  <2>. HIDE DEF x
  <2>7. Front(Append(parts, x)) = parts /\ Last(Append(parts, x)) = x
    BY <2>6 DEF Front, Last
  <2>8. f[a + i] = Append(parts, SubSeq(e, 1, i))
    BY <1>a, <2>3, <2>4, <2>5, <2>6, <2>7 DEF SplitStep, WireHolds, x
  <2>. QED
    BY <2>a, <2>8 DEF Is
<1>3. Is(n)
  <2>1. n \in 0..n
    BY <1>1
  <2>. QED
    BY <1>2, <2>1
<1>. QED
  BY <1>1, <1>3 DEF Is, n

(***************************************************************************)
(* Parts without a delimiter that are joined with it are split into those  *)
(* parts again.                                                            *)
(***************************************************************************)
LEMMA SplitUndoesJoin ==
  ASSUME NEW E, NEW W \in Seq(Seq(E)), W # <<>>, NEW d, <<d>> \in E,
         \A p \in 1..Len(W) : \A i \in 1..Len(W[p]) : W[p][i] # <<d>>
  PROVE  Split(JoinWith(W, d), d) = W
<1>. DEFINE n == Len(W)
            sep == <<<<d>>>>
            s == [i \in 1..n |-> IF i = 1 THEN W[1] ELSE sep \o W[i]]
            wire == JoinWith(W, d)
            B(j) == Before(s, j)
<1>1. n \in Nat \ {0} /\ DOMAIN W = 1..n /\ \A i \in 1..n : W[i] \in Seq(E)
  OBVIOUS
<1>2. wire = FlattenSeq(s)
  BY <1>1, Zenon DEF JoinWith
<1>3. sep \in Seq(E) /\ Len(sep) = 1 /\ sep[1] = <<d>>
  OBVIOUS
<1>4. s[1] = W[1] /\ \A i \in 2..n : s[i] = sep \o W[i]
  BY <1>1
<1>5. s \in Seq(Seq(E)) /\ Len(s) = n
  <2>1. \A i \in 1..n : (IF i = 1 THEN W[1] ELSE sep \o W[i]) \in Seq(E)
    BY <1>1, <1>3
  <2>2. s \in [1..n -> Seq(E)]
    BY <2>1, Zenon
  <2>. HIDE DEF s, sep, n
  <2>. QED
    BY <1>1, <2>2
<1>6. \A i \in 2..n : /\ Len(s[i]) = 1 + Len(W[i]) /\ s[i][1] = <<d>>
                      /\ \A j \in 1..Len(W[i]) : s[i][1 + j] = W[i][j]
  <2>. SUFFICES ASSUME NEW i \in 2..n
                PROVE  /\ Len(s[i]) = 1 + Len(W[i]) /\ s[i][1] = <<d>>
                       /\ \A j \in 1..Len(W[i]) : s[i][1 + j] = W[i][j]
    OBVIOUS
  <2>1. s[i] = sep \o W[i] /\ W[i] \in Seq(E)
    BY <1>1, <1>4
  <2>. HIDE DEF s, sep, n
  <2>2. /\ Len(s[i]) = Len(sep) + Len(W[i])
        /\ \A j \in 1..Len(sep) : s[i][j] = sep[j]
        /\ \A j \in 1..Len(W[i]) : s[i][Len(sep) + j] = W[i][j]
    <3>. SUFFICES ASSUME NEW r, r = sep \o W[i]
                  PROVE  /\ Len(r) = Len(sep) + Len(W[i])
                         /\ \A j \in 1..Len(sep) : r[j] = sep[j]
                         /\ \A j \in 1..Len(W[i]) : r[Len(sep) + j] = W[i][j]
      BY <2>1, Zenon
    <3>1. sep \in Seq(E) /\ W[i] \in Seq(E)
      BY <1>3, <2>1, Zenon
    <3>. QED
      BY <3>1, ConcatFacts
  <2>. QED
    BY <1>3, <2>2
<1>. HIDE DEF s, sep, n
<1>7. /\ wire \in Seq(E)
      /\ B(0) = 0 /\ B(n) = Len(wire)
      /\ \A p \in 0..n : B(p) \in Nat
      /\ \A p \in 1..n : B(p) = B(p - 1) + Len(s[p])
      /\ \A p \in 1..n : \A i \in 1..Len(s[p]) : wire[B(p - 1) + i] = s[p][i]
  <2>. HIDE DEF wire
  <2>1. /\ FlattenSeq(s) \in Seq(E)
        /\ Before(s, 0) = 0
        /\ \A p \in 0..Len(s) : Before(s, p) \in Nat
        /\ \A p \in 1..Len(s) : Before(s, p) = Before(s, p - 1) + Len(s[p])
        /\ Before(s, Len(s)) = Len(FlattenSeq(s))
        /\ \A p \in 1..Len(s) : \A i \in 1..Len(s[p]) :
             FlattenSeq(s)[Before(s, p - 1) + i] = s[p][i]
    BY <1>5, FlattenPlaces, Zenon
  <2>2. Len(s) = n
    BY <1>5
  <2>. QED
    BY <1>2, <2>1, <2>2, Zenon
<1>8. \A p \in 0..n : B(p) <= Len(wire)
  BY <1>2, <1>5, BeforeWithin
<1>. HIDE DEF wire, B
<1>9. PICK f : Splits(wire, d, f) /\ Split(wire, d) = f[Len(wire)]
  BY <1>7, SplitUnrolls, Zenon
<1>w. ASSUME NEW parts \in Seq(Seq(E)), NEW e \in Seq(E), NEW a \in Nat,
             f[a] = Append(parts, <<>>), WireHolds(wire, a, e, d)
      PROVE  f[a + Len(e)] = Append(parts, e)
  <2>1. wire \in Seq(E) /\ Splits(wire, d, f)
    BY <1>7, <1>9, Zenon
  <2>. QED
    BY <1>w, <2>1, SplitWalks
<1>. DEFINE Good(p) == f[B(p)] = SubSeq(W, 1, p)
<1>10. \A p \in 1..n : SubSeq(W, 1, p - 1) \in Seq(Seq(E))
                       /\ Append(SubSeq(W, 1, p - 1), W[p]) = SubSeq(W, 1, p)
  BY <1>1 DEF n
<1>11. Good(1)
  <2>1. 1 \in 1..n /\ s[1] = W[1] /\ W[1] \in Seq(E)
    BY <1>1, <1>4
  <2>2. B(1) = Len(W[1]) /\ 0 + Len(W[1]) = B(1) /\ 0 + Len(W[1]) <= Len(wire) /\ 0 \in Nat
    BY <1>1, <1>7, <1>8, <2>1
  <2>3. \A i \in 1..Len(W[1]) : wire[0 + i] = W[1][i] /\ W[1][i] # <<d>>
    <3>1. \A i \in 1..Len(W[1]) : wire[B(1 - 1) + i] = W[1][i] /\ W[1][i] # <<d>>
      BY <1>7, <2>1 DEF n
    <3>. QED
      BY <1>7, <3>1
  <2>4. f[0] = Append(<<>>, <<>>) /\ <<>> \in Seq(Seq(E))
    BY <1>9 DEF Splits
  <2>a. WireHolds(wire, 0, W[1], d)
    BY <2>2, <2>3, Zenon DEF WireHolds
  <2>5. f[0 + Len(W[1])] = Append(<<>>, W[1])
    BY <1>w, <2>1, <2>2, <2>4, <2>a, Zenon
  <2>6. Append(<<>>, W[1]) = SubSeq(W, 1, 1)
    BY <2>1 DEF n
  <2>. QED
    BY <2>2, <2>5, <2>6
<1>12. ASSUME NEW p \in 2..n, Good(p - 1) PROVE Good(p)
  <2>. DEFINE parts == SubSeq(W, 1, p - 1)
              b == B(p - 1) + 1
  <2>1. p \in 1..n /\ p - 1 \in 0..n /\ p \in 0..n /\ W[p] \in Seq(E) /\ parts \in Seq(Seq(E))
    BY <1>1, <1>10
  <2>a. B(p - 1) \in Nat /\ B(p) = B(p - 1) + Len(s[p]) /\ B(p) <= Len(wire)
    BY <1>7, <1>8, <2>1, Zenon
  <2>b. Len(s[p]) = 1 + Len(W[p]) /\ s[p][1] = <<d>> /\ Len(W[p]) \in Nat
    BY <1>6, <2>1
  <2>c. Len(wire) \in Nat
    BY <1>7
  <2>2. /\ B(p - 1) \in Nat /\ Len(W[p]) \in Nat /\ b \in Nat
        /\ B(p) = b + Len(W[p]) /\ b + Len(W[p]) <= Len(wire)
    <3>1. b = B(p - 1) + 1
      OBVIOUS
    <3>. HIDE DEF b
    <3>2. Len(s[p]) \in Nat /\ B(p) = B(p - 1) + (1 + Len(W[p]))
      BY <2>a, <2>b
    <3>3. b \in Nat /\ B(p) = b + Len(W[p])
      <4>1. \A x, y \in Nat : x + 1 \in Nat /\ (x + 1) + y = x + (1 + y)
        OBVIOUS
      <4>. QED
        BY <2>a, <2>b, <3>1, <3>2, <4>1, Zenon
    <3>. QED
      BY <2>a, <2>b, <3>3
  <2>3. wire[b] = <<d>>
    <3>1. 1 \in 1..Len(s[p])
      BY <2>b
    <3>. QED
      BY <1>7, <2>1, <2>b, <3>1
  <2>4. \A i \in 1..Len(W[p]) : wire[b + i] = W[p][i] /\ W[p][i] # <<d>>
    <3>. SUFFICES ASSUME NEW i \in 1..Len(W[p])
                  PROVE  wire[b + i] = W[p][i] /\ W[p][i] # <<d>>
      OBVIOUS
    <3>1. 1 + i \in 1..Len(s[p]) /\ s[p][1 + i] = W[p][i]
      BY <1>6, <2>2, <2>b
    <3>2. wire[B(p - 1) + (1 + i)] = s[p][1 + i]
      BY <1>7, <2>1, <3>1
    <3>3. B(p - 1) + (1 + i) = b + i
      BY <2>2
    <3>. QED
      BY <2>1, <3>1, <3>2, <3>3 DEF n
  <2>. HIDE DEF parts
  <2>5. f[b] = Append(parts, <<>>)
    <3>1. b \in 1..Len(wire) /\ b - 1 = B(p - 1)
      <4>1. \A x \in Nat : (x + 1) - 1 = x
        OBVIOUS
      <4>2. b - 1 = B(p - 1) /\ b # 0
        BY <2>2, <4>1
      <4>3. \A x, y, z \in Nat : x # 0 /\ x + y <= z => x \in 1..z
        OBVIOUS
      <4>. QED
        BY <2>2, <2>c, <4>2, <4>3, Zenon
    <3>2. f[b - 1] = parts
      BY <1>12, <3>1 DEF parts
    <3>. QED
      BY <1>9, <2>3, <3>1, <3>2 DEF Splits, SplitStep
  <2>. HIDE DEF b
  <2>6. f[b + Len(W[p])] = Append(parts, W[p])
    <3>1. WireHolds(wire, b, W[p], d)
      BY <2>2, <2>4, Zenon DEF WireHolds
    <3>. QED
      BY <1>w, <2>1, <2>2, <2>5, <3>1, Zenon
  <2>. QED
    BY <1>10, <2>1, <2>2, <2>6 DEF parts
<1>. HIDE DEF Good
<1>13. \A p \in 1..n : Good(p)
  <2>. DEFINE T == {p \in 1..n : ~Good(p)}
  <2>. SUFFICES ASSUME T # {} PROVE FALSE
    OBVIOUS
  <2>1. PICK p \in T : \A j \in T : p <= j
    <3>. T \subseteq Nat
      OBVIOUS
    <3>. HIDE DEF T
    <3>. QED
      BY LeastNat
  <2>2. p # 1
    BY <1>11, <2>1
  <2>3. p \in 2..n /\ p - 1 \in 1..n
    BY <1>1, <2>1, <2>2
  <2>4. Good(p - 1)
    BY <2>1, <2>3
  <2>. QED
    BY <1>12, <2>1, <2>3, <2>4
<1>14. SubSeq(W, 1, n) = W /\ n \in 1..n
  BY <1>1 DEF n
<1>. QED
  BY <1>7, <1>9, <1>13, <1>14 DEF Good, wire

LEMMA JoinType ==
  ASSUME NEW E, NEW W \in Seq(Seq(E)), NEW d, <<d>> \in E
  PROVE  JoinWith(W, d) \in Seq(E)
<1>. DEFINE n == Len(W)
            sep == <<<<d>>>>
            s == [i \in 1..n |-> IF i = 1 THEN W[1] ELSE sep \o W[i]]
<1>1. n \in Nat /\ DOMAIN W = 1..n /\ (\A i \in 1..n : W[i] \in Seq(E)) /\ sep \in Seq(E)
  OBVIOUS
<1>2. JoinWith(W, d) = FlattenSeq(s)
  BY <1>1, Zenon DEF JoinWith
<1>3. \A i \in 1..n : (IF i = 1 THEN W[1] ELSE sep \o W[i]) \in Seq(E)
  BY <1>1
<1>4. s \in [1..n -> Seq(E)]
  BY <1>3, Zenon
<1>. HIDE DEF s, sep, n
<1>5. s \in Seq(Seq(E))
  BY <1>1, <1>4
<1>. QED
  BY <1>2, <1>5, FlattenPlaces

\* One part is joined to itself, two are joined by the delimiter.
LEMMA JoinOfFew ==
  ASSUME NEW E, NEW W \in Seq(Seq(E)), NEW d, <<d>> \in E
  PROVE  /\ Len(W) = 1 => JoinWith(W, d) = W[1]
         /\ Len(W) = 2 => JoinWith(W, d) = W[1] \o <<<<d>>>> \o W[2]
<1>. DEFINE n == Len(W)
            sep == <<<<d>>>>
            s == [i \in 1..n |-> IF i = 1 THEN W[1] ELSE sep \o W[i]]
<1>. SUFFICES ASSUME n \in {1, 2}
              PROVE  /\ n = 1 => JoinWith(W, d) = W[1]
                     /\ n = 2 => JoinWith(W, d) = W[1] \o sep \o W[2]
  BY Zenon
<1>1. DOMAIN W = 1..n /\ \A i \in 1..n : W[i] \in Seq(E)
  OBVIOUS
<1>2. JoinWith(W, d) = FlattenSeq(s)
  BY <1>1, Zenon DEF JoinWith
<1>3. s[1] = W[1] /\ (n = 2 => s[2] = sep \o W[2])
  OBVIOUS
<1>4. sep \in Seq(E)
  OBVIOUS
<1>5. s \in Seq(Seq(E)) /\ Len(s) = n
  <2>1. \A i \in 1..n : (IF i = 1 THEN W[1] ELSE sep \o W[i]) \in Seq(E)
    BY <1>1, <1>4
  <2>2. s \in [1..n -> Seq(E)]
    BY <2>1, Zenon
  <2>. HIDE DEF s, sep
  <2>. QED
    BY <2>2
<1>a. n = Len(W) /\ W[1] \in Seq(E) /\ (n = 2 => W[2] \in Seq(E))
  BY <1>1
<1>. HIDE DEF s, sep, n
<1>6. PICK f : Concatenations(E, s, f) /\ FlattenSeq(s) = f[Len(s)]
  BY <1>5, FlattenUnrolls
<1>7. f[1] = W[1] /\ (n = 2 => f[2] = W[1] \o (sep \o W[2]))
  <2>1. f[1] = W[1]
    BY <1>3, <1>6 DEF Concatenations
  <2>2. ASSUME n = 2 PROVE f[2] = f[1] \o s[2]
    <3>1. 2 \in 2..Len(s) /\ 2 - 1 = 1
      BY <1>5, <2>2
    <3>2. \A i \in 2..Len(s) : f[i] = f[i - 1] \o s[i]
      BY <1>6, Zenon DEF Concatenations
    <3>3. f[2] = f[2 - 1] \o s[2]
      BY <3>1, <3>2
    <3>. QED
      BY <3>1, <3>3, Zenon
  <2>. QED
    BY <1>3, <2>1, <2>2, Zenon
<1>8. n = 2 => W[1] \o (sep \o W[2]) = W[1] \o sep \o W[2]
  <2>1. \A x, y, z \in Seq(E) : x \o (y \o z) = x \o y \o z
    OBVIOUS
  <2>. QED
    BY <1>4, <1>a, <2>1, Zenon
<1>. QED
  BY <1>2, <1>5, <1>6, <1>7, <1>8

\* A text without the delimiter is not split.
LEMMA SplitOnceOfOne ==
  ASSUME NEW E, NEW e \in Seq(E), NEW d, \A i \in 1..Len(e) : e[i] # <<d>>
  PROVE  SplitOnce(e, d) = <<e>>
<1>. DEFINE I == {i \in 1..Len(e) : e[i] = <<d>>}
<1>1. I = {}
  BY Zenon
<1>2. SelectInSeq(e, LAMBDA c : c = <<d>>) = IF I # {} THEN Min(I) ELSE 0
  BY Zenon DEF SelectInSeq
<1>. HIDE DEF I
<1>3. SelectInSeq(e, LAMBDA c : c = <<d>>) = 0
  BY <1>1, <1>2, Zenon
<1>. QED
  BY <1>3, Zenon DEF SplitOnce

(***************************************************************************)
(* A pair of a query string: a key with a value, or a key alone that is    *)
(* not empty, since an empty pair is dropped.                              *)
(***************************************************************************)
IsPair(Piece, pair) ==
  /\ pair \in Seq(Seq(Piece)) /\ Len(pair) \in {1, 2}
  /\ Len(pair) = 1 => pair[1] # <<>>

LEMMA PairRendered ==
  ASSUME NEW Piece, Reserved \subseteq Piece, NEW pair, IsPair(Piece, pair)
  PROVE  /\ Len(pair) = 1 => RenderPair(pair) = Escape(pair[1])
         /\ Len(pair) = 2 => RenderPair(pair) = Escape(pair[1]) \o <<<<"=">>>> \o Escape(pair[2])
<1>. DEFINE n == Len(pair)
            W == [i \in 1..n |-> Escape(pair[i])]
<1>1. DOMAIN pair = 1..n /\ n \in {1, 2} /\ \A i \in 1..n : pair[i] \in Seq(Piece)
  BY DEF IsPair
<1>2. RenderPair(pair) = JoinWith(W, "=")
  BY <1>1, Zenon DEF RenderPair
<1>3. \A i \in 1..n : Escape(pair[i]) \in Seq(Wire(Piece))
  BY <1>1, EscapeAt, Zenon
<1>4. W[1] = Escape(pair[1]) /\ (n = 2 => W[2] = Escape(pair[2]))
  BY <1>1
<1>5. W \in Seq(Seq(Wire(Piece))) /\ Len(W) = n
  <2>1. W \in [1..n -> Seq(Wire(Piece))]
    BY <1>3, Zenon
  <2>. HIDE DEF W
  <2>. QED
    BY <1>1, <2>1
<1>6. <<"=">> \in Wire(Piece)
  BY DEF Wire, Reserved
<1>. HIDE DEF W
<1>7. /\ Len(W) = 1 => JoinWith(W, "=") = W[1]
      /\ Len(W) = 2 => JoinWith(W, "=") = W[1] \o <<<<"=">>>> \o W[2]
  BY <1>5, <1>6, JoinOfFew, Zenon
<1>. QED
  BY <1>2, <1>4, <1>5, <1>7, Zenon

LEMMA PairFacts ==
  ASSUME NEW Piece, Reserved \subseteq Piece, NEW pair, IsPair(Piece, pair)
  PROVE  /\ RenderPair(pair) \in Seq(Wire(Piece)) \ {<<>>}
         /\ \A i \in 1..Len(RenderPair(pair)) : RenderPair(pair)[i] # <<"&">>
         /\ ParsePair(RenderPair(pair)) = pair
<1>. DEFINE wire == RenderPair(pair)
            a == Escape(pair[1])
            b == Escape(pair[2])
<1>1. "=" \in Reserved /\ "&" \in Reserved /\ "=" \in Piece
  BY DEF Reserved
<1>2. /\ pair \in Seq(Seq(Piece)) /\ Len(pair) \in {1, 2}
      /\ pair[1] \in Seq(Piece) /\ (Len(pair) = 2 => pair[2] \in Seq(Piece))
  BY DEF IsPair
<1>3. /\ a \in Seq(Wire(Piece)) /\ Len(a) = Len(pair[1])
      /\ \A i \in 1..Len(a) : a[i] # <<"&">> /\ a[i] # <<"=">>
  <2>1. a \in Seq(Wire(Piece)) /\ Len(a) = Len(pair[1])
    BY <1>2, EscapeAt, Zenon
  <2>. QED
    BY <1>1, <1>2, <2>1, NoDelimiter
<1>4. CASE Len(pair) = 1
  <2>1. wire = a
    BY <1>4, PairRendered, Zenon
  <2>2. a # <<>>
    <3>1. pair[1] # <<>> /\ Len(pair[1]) # 0
      BY <1>2, <1>4 DEF IsPair
    <3>. HIDE DEF a
    <3>. QED
      BY <1>3, <3>1
  <2>3. SplitOnce(a, "=") = <<a>>
    BY <1>3, SplitOnceOfOne, Zenon
  <2>4. DecodeComponent(a) = pair[1]
    BY <1>2, DecodeUndoesEscape, Zenon
  <2>. HIDE DEF a
  <2>5. [n \in DOMAIN <<a>> |-> DecodeComponent(<<a>>[n])] = <<DecodeComponent(a)>>
    OBVIOUS
  <2>6. <<pair[1]>> = pair
    BY <1>2, <1>4
  <2>7. ParsePair(a) = pair
    BY <2>3, <2>4, <2>5, <2>6, Zenon DEF ParsePair
  <2>. QED
    BY <1>3, <2>1, <2>2, <2>7, Zenon
<1>5. CASE Len(pair) = 2
  <2>1. wire = a \o <<<<"=">>>> \o b
    BY <1>5, PairRendered, Zenon
  <2>2. pair[2] \in Seq(Piece)
    BY <1>2, <1>5, Zenon
  <2>3. /\ b \in Seq(Wire(Piece)) /\ Len(b) = Len(pair[2])
        /\ \A i \in 1..Len(b) : b[i] # <<"&">>
    <3>1. b \in Seq(Wire(Piece)) /\ Len(b) = Len(pair[2])
      BY <2>2, EscapeAt, Zenon
    <3>. QED
      BY <1>1, <2>2, <3>1, NoDelimiter
  <2>4. <<"=">> \in Wire(Piece)
    BY <1>1 DEF Wire
  <2>5. ParsePair(wire) = <<pair[1], pair[2]>>
    BY <1>1, <1>2, <2>1, <2>2, PairIsReadBack, Zenon DEF ParsePair
  <2>6. <<pair[1], pair[2]>> = pair
    BY <1>2, <1>5
  <2>. HIDE DEF wire, a, b
  <2>7. /\ wire \in Seq(Wire(Piece)) /\ wire # <<>>
        /\ \A i \in 1..Len(wire) : wire[i] # <<"&">>
    <3>. DEFINE sep == <<<<"=">>>>
                amp == <<"&">>
                W == Wire(Piece)
                x == a \o sep
    <3>1. sep \in Seq(W) /\ Len(sep) = 1 /\ Avoids(sep, amp)
      BY <2>4 DEF Avoids
    <3>2. a \in Seq(W) /\ b \in Seq(W) /\ Avoids(a, amp) /\ Avoids(b, amp)
      BY <1>3, <2>3, Zenon DEF Avoids
    <3>3. wire = x \o b
      BY <2>1, Zenon
    <3>. HIDE DEF sep, amp, W
    <3>4. x \in Seq(W) /\ Len(x) = Len(a) + Len(sep) /\ Avoids(x, amp)
      BY <3>1, <3>2, ConcatAvoids, Zenon
    <3>. HIDE DEF x
    <3>5. wire \in Seq(W) /\ Len(wire) = Len(x) + Len(b) /\ Avoids(wire, amp)
      BY <3>2, <3>3, <3>4, ConcatAvoids, Zenon
    <3>6. Len(wire) # 0
      <4>1. Len(a) \in Nat /\ Len(b) \in Nat
        BY <3>2
      <4>. QED
        BY <3>1, <3>4, <3>5, <4>1
    <3>7. wire # <<>>
      BY <3>6
    <3>. QED
      BY <3>5, <3>7, Zenon DEF Avoids, amp, W
  <2>. QED
    BY <2>5, <2>6, <2>7, Zenon DEF wire
<1>. QED
  BY <1>2, <1>4, <1>5

(***************************************************************************)
(* A rendered query string is split into its pairs again: there are as     *)
(* many, none of them is empty (so parse_query drops none), and each is    *)
(* read back as the pair it was rendered from, in its place.               *)
(***************************************************************************)
THEOREM QueryIsReadBack ==
  ASSUME NEW Piece, Reserved \subseteq Piece, NEW pairs \in Seq(Seq(Seq(Piece))), pairs # <<>>,
         \A i \in 1..Len(pairs) : IsPair(Piece, pairs[i])
  PROVE  LET found == Split(RenderPairs(pairs), "&") IN
           /\ Len(found) = Len(pairs)
           /\ \A i \in 1..Len(pairs) : found[i] # <<>> /\ ParsePair(found[i]) = pairs[i]
<1>. DEFINE n == Len(pairs)
            W == [i \in 1..n |-> RenderPair(pairs[i])]
<1>1. DOMAIN pairs = 1..n /\ n \in Nat \ {0}
  OBVIOUS
<1>2. RenderPairs(pairs) = JoinWith(W, "&")
  BY <1>1, Zenon DEF RenderPairs
<1>3. \A i \in 1..n : /\ RenderPair(pairs[i]) \in Seq(Wire(Piece)) /\ RenderPair(pairs[i]) # <<>>
                      /\ \A m \in 1..Len(RenderPair(pairs[i])) : RenderPair(pairs[i])[m] # <<"&">>
                      /\ ParsePair(RenderPair(pairs[i])) = pairs[i]
  BY PairFacts
<1>4. \A i \in 1..n : W[i] = RenderPair(pairs[i])
  BY Zenon
<1>5. W \in Seq(Seq(Wire(Piece))) /\ Len(W) = n /\ W # <<>>
  <2>1. W \in [1..n -> Seq(Wire(Piece))]
    BY <1>3, Zenon
  <2>. HIDE DEF W, n
  <2>. QED
    BY <1>1, <2>1
<1>6. <<"&">> \in Wire(Piece)
  BY DEF Wire, Reserved
<1>. HIDE DEF W, n
<1>7. \A i \in 1..Len(W) : \A m \in 1..Len(W[i]) : W[i][m] # <<"&">>
  BY <1>3, <1>4, <1>5, Zenon
<1>8. Split(JoinWith(W, "&"), "&") = W
  BY <1>5, <1>6, <1>7, SplitUndoesJoin, Zenon
<1>9. Split(RenderPairs(pairs), "&") = W
  BY <1>2, <1>8, Zenon
<1>10. \A i \in 1..n : W[i] # <<>> /\ ParsePair(W[i]) = pairs[i]
  BY <1>3, <1>4, Zenon
<1>. QED
  BY <1>5, <1>9, <1>10, Zenon DEF n

(***************************************************************************)
(* path_segments reads the rendered path of a request as the texts it was  *)
(* built from, in their places: no segment is lost, split or altered.      *)
(***************************************************************************)
THEOREM PathIsReadBack ==
  ASSUME NEW Piece, Reserved \subseteq Piece, NEW texts \in Seq(Seq(Piece)), texts # <<>>
  PROVE  PathSegments(<<<<"/">>>> \o JoinWith([i \in DOMAIN texts |-> Escape(texts[i])], "/"))
           = texts
<1>. DEFINE n == Len(texts)
            W == [i \in 1..n |-> Escape(texts[i])]
            path == JoinWith(W, "/")
            wire == <<<<"/">>>> \o path
<1>1. DOMAIN texts = 1..n /\ n \in Nat \ {0} /\ \A i \in 1..n : texts[i] \in Seq(Piece)
  OBVIOUS
<1>2. "/" \in Reserved /\ <<"/">> \in Wire(Piece)
  BY DEF Wire, Reserved
<1>3. \A i \in 1..n : W[i] = Escape(texts[i])
  BY Zenon
<1>4. \A i \in 1..n : W[i] \in Seq(Wire(Piece)) /\ PercentDecode(W[i]) = texts[i]
  BY <1>1, <1>3, EscapeAt, PercentDecodeUndoesEscape, Zenon
<1>5. \A i \in 1..n : \A m \in 1..Len(W[i]) : W[i][m] # <<"/">>
  <2>1. \A i \in 1..n : Len(W[i]) = Len(texts[i])
    BY <1>1, <1>3, EscapeAt, Zenon
  <2>. HIDE DEF W, n
  <2>. QED
    BY <1>1, <1>2, <1>3, <2>1, NoDelimiter
<1>6. W \in Seq(Seq(Wire(Piece))) /\ Len(W) = n /\ W # <<>>
  <2>1. W \in [1..n -> Seq(Wire(Piece))]
    BY <1>3, <1>4, Zenon
  <2>. HIDE DEF W, n
  <2>. QED
    BY <1>1, <2>1
<1>. HIDE DEF W, n
<1>7. Split(path, "/") = W
  BY <1>2, <1>5, <1>6, SplitUndoesJoin, Zenon
<1>8. path \in Seq(Wire(Piece))
  BY <1>2, <1>6, JoinType, Zenon
<1>. HIDE DEF path
<1>9. wire # <<>> /\ wire[1] = <<"/">> /\ Tail(wire) = path
  BY <1>2, <1>8
<1>. HIDE DEF wire
<1>10. PathSegments(wire) = [i \in DOMAIN W |-> PercentDecode(W[i])]
  BY <1>7, <1>9, Zenon DEF PathSegments
<1>11. DOMAIN W = 1..n
  BY <1>6
<1>12. [i \in 1..n |-> PercentDecode(W[i])] = [i \in 1..n |-> texts[i]]
  BY <1>4, Zenon
<1>13. [i \in 1..n |-> texts[i]] = texts
  BY <1>1 DEF n
<1>14. PathSegments(wire) = texts
  BY <1>10, <1>11, <1>12, <1>13, Zenon
<1>15. wire = <<<<"/">>>> \o JoinWith([i \in DOMAIN texts |-> Escape(texts[i])], "/")
  BY <1>1, Zenon DEF wire, path, W
<1>. QED
  BY <1>14, <1>15, Zenon
=============================================================================
