------------------------------- MODULE Calls --------------------------------
(***************************************************************************)
(* The two other ends of a request: the typed client, whose combinators    *)
(* fill a ClientRequest (servant-client), and the links (servant), whose   *)
(* combinators fill a Link that somebody follows later.  Both walk the     *)
(* endpoint that the server walks.  A call builds its request, the         *)
(* transport sends it, and from there on it is Dispatch's.                 *)
(*                                                                         *)
(* A call is [written, ep, via, args, method, streams]: written the API,   *)
(* ep one of its endpoints, via "client", "link" or "plainLink" (its       *)
(* ArrayElementStyle), args one value per step (None where the step takes  *)
(* none), method what a caller of a raw endpoint or a follower of a link   *)
(* chooses, streams whether the transport can send a stream.  Malformed is *)
(* a lenient argument that holds an Err, "unrenderable" a body its codec   *)
(* refuses to render.  A link's fragment stays with its follower.          *)
(***************************************************************************)
EXTENDS ApiSemantics, RouterBuild

CONSTANTS
  Asks,       \* the calls that may be made
  Base        \* the authority of the transport's BaseUrl

VARIABLE asked   \* the call being made, fixed

callVars == <<vars, asked>>

NoContext == [auth |-> <<>>, resources |-> <<>>, named |-> <<>>]

AllTypes == UNION {leaf.produces : leaf \in Leaves}

-----------------------------------------------------------------------------
(***************************************************************************)
(* ClientRequest.  Its query is kept as it will be rendered.               *)
(***************************************************************************)
NewRequest ==
  [method |-> "GET", segments |-> <<>>, items |-> <<>>, raw |-> <<>>,
   headers |-> <<>>, accept |-> {}, body |-> None, stream |-> None,
   failed |-> FALSE]

AppendPath(built, text) == [built EXCEPT !.segments = Append(@, Escape(text))]

AppendQuery(built, pair) == [built EXCEPT !.items = Append(@, RenderPair(pair))]

AppendDeepQuery(built, root, entry) ==
  [built EXCEPT !.items = Append(@, RenderDeep(root, entry))]

\* Mutant: what other combinators have appended stays.
SetQueryStringAppends(built, query) ==
  [built EXCEPT !.raw = query.raw,
                !.items = @ \o [i \in DOMAIN query.pairs |-> RenderPair(query.pairs[i])]]

\* set_query_string replaces what there is; the pairs count only without raw.
SetQueryString(built, query) ==
  [built EXCEPT !.raw = query.raw,
                !.items = IF query.raw # <<>> THEN <<>>
                          ELSE [i \in DOMAIN query.pairs |-> RenderPair(query.pairs[i])]]

\* A name or value that is no header text is silently left out.
AddHeader(built, name, value) ==
  IF "nl" \in ToSet(value) THEN built
  ELSE [built EXCEPT !.headers = Append(@, [name |-> name, value |-> value])]

InsertHost(built, authority) ==
  [built EXCEPT !.headers = SelectSeq(@, LAMBDA field : field.name # "Host")
                            \o <<[name |-> "Host", value |-> authority]>>]

SetBody(built, value, type) ==
  [built EXCEPT !.body = [value |-> value, type |-> type], !.stream = None]

SetStreamingBody(built, type) == [built EXCEPT !.body = None, !.stream = type]

\* The path and the query of target() and of Link::render.
TargetPath(built) == <<<<"/">>>> \o JoinWith(built.segments, "/")

TargetQuery(built) ==
  LET raw == IF built.raw = <<>> THEN <<>> ELSE built.raw[1]
      items == JoinWith(built.items, "&")
  IN IF built.raw = <<>> /\ built.items = <<>> THEN <<>>
     ELSE <<IF raw # <<>> /\ built.items # <<>> THEN raw \o <<<<"&">>>> \o items
            ELSE raw \o items>>

-----------------------------------------------------------------------------
\* build_request of one combinator with its argument
ClientStep(built, step, arg) ==
  CASE step.c = "Path" -> AppendPath(built, step.seg)
    [] step.c = "Capture" -> AppendPath(built, IF arg = Malformed THEN <<>> ELSE arg)
    [] step.c = "CaptureAll" -> FoldLeft(AppendPath, built, arg)
    [] step.c = "QueryParam" /\ arg \notin {None, Malformed} ->
         AppendQuery(built, <<step.name, arg>>)
    [] step.c = "QueryParams" ->
         FoldLeft(LAMBDA b, value : AppendQuery(b, <<step.name, value>>), built, arg)
    [] step.c = "QueryFlag" -> IF arg THEN AppendQuery(built, <<step.name>>) ELSE built
    [] step.c = "QueryString" -> SetQueryString(built, arg)
    [] step.c = "DeepQuery" ->
         FoldLeft(LAMBDA b, entry : AppendDeepQuery(b, step.name, entry), built, arg)
    [] step.c = "Header" /\ arg \notin {None, Malformed} ->
         AddHeader(built, step.name, arg)
    [] step.c = "Host" ->
         IF ParseAuthority(step.name) = Malformed THEN [built EXCEPT !.failed = TRUE]
         ELSE InsertHost(built, step.name)
    [] step.c = "ReqBody" /\ arg # Malformed ->
         IF arg = "unrenderable" THEN [built EXCEPT !.failed = TRUE]
         ELSE SetBody(built, arg, step.primary)
    [] step.c = "StreamBody" -> SetStreamingBody(built, step.primary)
    [] OTHER -> built

\* The terminal sets the method, and Accept to all it can decode.
ClientTerminal(built, ask) ==
  IF IsRaw(ask.ep) THEN [built EXCEPT !.method = ask.method]
  ELSE [built EXCEPT !.method = ask.ep.method, !.accept = ask.ep.produces]

BuildRequest(ask) ==
  ClientTerminal(
    FoldLeftDomain(LAMBDA built, i : ClientStep(built, ask.ep.steps[i], ask.args[i]),
                   NewRequest, ask.args), ask)

-----------------------------------------------------------------------------
\* Param::ArrayElem, in the style the link is rendered with.
ElementKey(via, name) ==
  IF via = "plainLink" THEN Escape(name)
  ELSE Escape(name) \o Literal(<<"[", "]">>)

AddElement(link, via, name, value) ==
  [link EXCEPT !.items =
     Append(@, JoinWith(<<ElementKey(via, name), Escape(value)>>, "="))]

\* add_to_link of one combinator: headers, bodies and hosts are not in a URL.
LinkStep(link, via, step, arg) ==
  CASE step.c = "Path" -> AppendPath(link, step.seg)
    [] step.c = "Capture" -> AppendPath(link, IF arg = Malformed THEN <<>> ELSE arg)
    [] step.c = "CaptureAll" -> FoldLeft(AppendPath, link, arg)
    [] step.c = "QueryParam" /\ arg \notin {None, Malformed} ->
         AppendQuery(link, <<step.name, arg>>)
    [] step.c = "QueryParams" ->
         FoldLeft(LAMBDA l, value : AddElement(l, via, step.name, value), link, arg)
    [] step.c = "QueryFlag" -> IF arg THEN AppendQuery(link, <<step.name>>) ELSE link
    [] step.c = "QueryString" -> SetQueryString(link, arg)
    [] step.c = "DeepQuery" ->
         FoldLeft(LAMBDA l, entry : AppendDeepQuery(l, step.name, entry), link, arg)
    [] OTHER -> link

\* Following a link: its URL, with the method and what an Accept admits.
FollowLink(ask) ==
  [FoldLeftDomain(
     LAMBDA link, i : LinkStep(link, ask.via, ask.ep.steps[i], ask.args[i]),
     NewRequest, ask.args)
   EXCEPT !.method = ask.method]

Built(ask) == IF ask.via = "client" THEN BuildRequest(ask) ELSE FollowLink(ask)

-----------------------------------------------------------------------------
(***************************************************************************)
(* HyperClient::build, and RouterService::handle's view of what arrives.   *)
(* hyper adds the Host of the URL when the request has none, and HTTP does *)
(* not carry the spaces around a header's value.                           *)
(***************************************************************************)
Trimmed(field) ==
  LET kept == {i \in DOMAIN field.value : field.value[i] # " "} IN
  IF field.name = "Host" THEN field
  ELSE [field EXCEPT !.value =
          IF kept = {} THEN <<>> ELSE SubSeq(@, Min(kept), Max(kept))]

\* What content_type_acceptable takes a request without the header for.
OctetStream == Mime("application", "octet-stream", "", "")

Arrived(built) ==
  LET raw == TargetQuery(built)
      fields == [i \in DOMAIN built.headers |-> Trimmed(built.headers[i])]
      hosts == SelectSeq(built.headers, LAMBDA field : field.name = "Host")
  IN [path |-> PathSegments(TargetPath(built)),
      raw |-> raw, query |-> IF raw = <<>> THEN <<>> ELSE ParsePairs(raw[1]),
      method |-> built.method, authority |-> None,
      headers |-> IF hosts # <<>> THEN fields
                  ELSE Append(fields, [name |-> "Host", value |-> Base]),
      accept |-> IF built.accept = {} THEN AllTypes ELSE built.accept,
      ctype |-> CASE built.body # None -> built.body.type
                  [] built.stream # None -> built.stream
                  [] OTHER -> OctetStream,
      creds |-> "nobody",
      body |-> IF built.body # None THEN built.body.value ELSE "empty"]

CallInit ==
  /\ asked \in Asks
  /\ api = Serve(asked.written, NoContext)
  /\ req = None
  /\ pc = "build"
  /\ at = None /\ stack = <<>>
  /\ call = None /\ st = None /\ k = 0 /\ args = <<>>
  /\ slot = "Streaming"
  /\ ret = None /\ answer = None
  /\ ran = <<>> /\ best = None

\* ClientEndpoint::call checks the transport before it runs the request.
Sendable(built) == ~built.failed /\ (built.stream # None => asked.streams)

Send ==
  /\ pc = "build"
  /\ Sendable(Built(asked))
  /\ req' = Arrived(Built(asked))
  /\ at' = [node |-> api.router, segs |-> req'.path, caps |-> <<>>, rest |-> None]
  /\ pc' = "route"
  /\ UNCHANGED <<api, asked, stack, calling, slot, ret, answer, ran, best>>

\* EncodeFailure or StreamingRequestUnsupported: nothing goes out.
NotSent ==
  /\ pc = "build"
  /\ ~Sendable(Built(asked))
  /\ pc' = "unsent"
  /\ UNCHANGED <<api, asked, req, routing, calling, slot, ret, answer, ran, best>>

Ended == pc \in {"done", "unsent"} /\ UNCHANGED callVars

CallNext == Send \/ NotSent \/ (Step /\ UNCHANGED asked) \/ Ended

CallSpec == CallInit /\ [][CallNext]_callVars

-----------------------------------------------------------------------------
(***************************************************************************)
(* What a call can rely on.  The argument of each step is Sent under some  *)
(* keys, and it arrives if its text survives the trip (Carried) and no     *)
(* other step of the same endpoint meddles with it (Undisturbed).          *)
(***************************************************************************)
QueryCombinators == {"QueryParam", "QueryParams", "QueryFlag", "QueryString", "DeepQuery"}

\* The steps that set the whole query string.
Resets(ep) == {i \in DOMAIN ep.steps : ep.steps[i].c = "QueryString"}

\* The decoded query keys and the header names that a step sends.
Sent(ask, i) ==
  LET step == ask.ep.steps[i]
      arg == ask.args[i]
      element == IF ask.via = "link" THEN step.name \o <<"[", "]">> ELSE step.name
      deep(path) ==
        step.name \o FlattenSeq([n \in DOMAIN path |-> <<"[">> \o path[n] \o <<"]">>])
  IN CASE step.c \in {"QueryParam", "Header"} ->
            IF arg \in {None, Malformed} THEN {} ELSE {step.name}
       [] step.c = "QueryParams" -> IF arg = <<>> THEN {} ELSE {element}
       [] step.c = "QueryFlag" -> IF arg THEN {step.name} ELSE {}
       [] step.c = "QueryString" -> {arg.pairs[n][1] : n \in DOMAIN arg.pairs}
       [] step.c = "DeepQuery" -> {deep(arg[n].path) : n \in DOMAIN arg}
       [] OTHER -> {}

\* The keys a step looks for.
Reads(step, key) ==
  CASE step.c \in {"QueryParam", "QueryFlag", "Header"} -> key = step.name
    [] step.c = "QueryParams" -> key \in {step.name, step.name \o <<"[", "]">>}
    [] step.c = "DeepQuery" -> IsDeepKey(step.name, key)
    [] step.c = "QueryString" -> TRUE
    [] OTHER -> FALSE

Survives(ask, i) ==
  ask.ep.steps[i].c \in QueryCombinators =>
    \A j \in Resets(ask.ep) : j <= i

SameSide(step, other) ==
  \/ step.c \in QueryCombinators /\ other.c \in QueryCombinators
  \/ step.c = "Header" /\ other.c = "Header"

Undisturbed(ask, i) ==
  /\ Survives(ask, i)
  /\ \A j \in DOMAIN ask.ep.steps \ {i} :
       Survives(ask, j) /\ SameSide(ask.ep.steps[i], ask.ep.steps[j]) =>
         \A key \in Sent(ask, j) : ~Reads(ask.ep.steps[i], key)

\* What a URL has no place for: a link does not even take it.
Unlinked(step) == step.c \in {"Header", "ReqBody", "StreamBody"}

Carried(ask, i) ==
  LET step == ask.ep.steps[i]
      arg == ask.args[i]
  IN CASE ask.via # "client" /\ Unlinked(step) -> FALSE
       [] step.c = "CaptureAll" -> arg # <<>> => arg[1] # <<>>
       [] step.c = "DeepQuery" ->
            \A n \in DOMAIN arg : \A m \in DOMAIN arg[n].path :
              "]" \notin ToSet(arg[n].path[m])
       [] step.c = "QueryString" -> \A n \in DOMAIN arg.pairs : arg.pairs[n] # <<<<>>>>
       [] step.c = "Header" /\ arg \notin {None, Malformed} /\ arg # <<>> ->
            " " \notin {arg[1], Last(arg)} /\ "nl" \notin ToSet(arg)
       [] step.c = "ReqBody" -> arg # Malformed
       [] OTHER -> TRUE

\* A lenient argument that holds no value arrives as an absent one.
Received(step, arg) ==
  CASE arg # Malformed -> arg
    [] step.c = "Capture" -> <<>>
    [] OTHER -> None

\* The step that contributes argument n to the handler.
StepOfArgument(ep, n) ==
  LET chain == {i \in DOMAIN ep.steps : ep.steps[i].c \notin Metadata \cup {"Path"}} IN
  CHOOSE i \in chain : Cardinality({j \in chain : j <= i}) = n

OwnHandlerRan == ran # <<>> /\ ran[1].leaf.id = asked.ep.id

(***************************************************************************)
(* build_request and add_to_link against extract: a handler gets what its  *)
(* caller passed, whatever characters that is made of, although it goes    *)
(* through a path, a query string or a header; except where the two ends   *)
(* disagree, which Carried and Undisturbed spell out.                      *)
(***************************************************************************)
ArgumentsArrive ==
  OwnHandlerRan /\ ~IsRaw(asked.ep) =>
    \A n \in DOMAIN ran[1].args :
      LET i == StepOfArgument(asked.ep, n)
          step == asked.ep.steps[i]
          arg == ran[1].args[n]
      IN TakesArgument(step) /\ Carried(asked, i) /\ Undisturbed(asked, i) =>
           CASE step.c = "QueryString" -> arg.pairs = asked.args[i].pairs
             [] step.c = "StreamBody" -> arg = "stream"
             [] step.c \in {"ReqBody", "CaptureAll"} -> arg = asked.args[i]
             [] OTHER -> arg = Received(step, asked.args[i])

\* A request that both ends can speak of: what the server requires is sent.
Deliverable(ask) ==
  LET steps == ask.ep.steps
      built == Built(ask)
      bodies == {i \in DOMAIN steps : steps[i].c \in {"ReqBody", "StreamBody"}}
  IN /\ \A i \in DOMAIN steps :
          \/ Carried(ask, i) /\ Undisturbed(ask, i)
          \/ ask.via # "client" /\ Unlinked(steps[i])
     /\ built.segments # <<>> => Last(built.segments) # <<>>
     /\ Cardinality(bodies) <= 1
     /\ ask.via # "client" =>
          /\ bodies = {}
          /\ IsRaw(ask.ep) \/ MethodMatches(ask.ep, built)
          /\ \A i \in DOMAIN steps :
               /\ steps[i].c = "Header" => ~steps[i].required
               /\ steps[i].c = "Host" => MatchesAuthority(steps[i].name, Base)

(***************************************************************************)
(* The path and the method, the host and the content type that a client    *)
(* puts into its request are those its own endpoint is served under: the   *)
(* endpoint takes the request, unless one written before it does (Alt is   *)
(* left-biased), and it never falls through to a later one.                *)
(***************************************************************************)
ReachesItsEndpoint ==
  pc = "done" /\ Deliverable(asked) =>
    \/ OwnHandlerRan
    \/ \E i, j \in DOMAIN api.endpoints :
         /\ i < j
         /\ api.endpoints[j].id = asked.ep.id
         /\ answer.by = api.endpoints[i].id
         /\ ret.tag # "Fail"
=============================================================================
