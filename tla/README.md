# servant-rs in TLA+

This directory is a verification project for servant-rs: a Rust framework in which one
description of an HTTP API yields a server, a client, links and documentation. The
modules model what one description becomes in each of these, and the parts that decide
what happens to a request or a stream; TLC checks them on small instances, and TLAPS
proves the most important results for all instances.
`PROJECT.json` is the index: components, runs, mutants, the map from definitions to
source lines, findings, hazards and theorems.

Source paths below leave out `src/`: `servant-server/` is `src/servant-server/src/`,
`servant/` is `src/servant/src/`, `servant-client/` is `src/servant-client/src/`.

To run something: `tlc -config MCDispatch.cfg MCDispatch`, `tlapm Dispatch_proofs.tla`.

## 1. Inventory

### What runs where

    client                                  server
    ------                                  ------
    build_request, add_to_link              docs_walk, openapi_docs_walk (the same API)
    ClientRequest  --- HTTP --->  accept_loop -> serve_tls_connection -> serve_http1
                                     |
                                  RouterService::handle
                                     |  dispatch over Router (Static, Capture,
                                     |  CaptureAll, Raw, Choice)
                                     |  run_choice_leaves
                                  EndpointLeaf::call
                                     |  captures, host, method, Accept, Content-Type,
                                     |  pre-body auth, body, extract, handler, render
    deframe_decode <-- chunks ---  StreamVerb::render        (streamed responses)
    encode_stream_body - chunks -> decode_stream             (streamed requests)

Every interpretation walks the same API value, combinator by combinator: the server's
`extract`, the client's `build_request`, the links' `add_to_link` and the two walks of the
documentation. They share types and no run-time state, so that each pair agrees only as far
as what one writes is what the other reads.

An API value is turned into a `Router` once, before serving (`RouterShape`,
`HasServer`, `choice`). A request then travels through `dispatch`, which is recursive;
each leaf it reaches answers with a `RouteResult`: `Route` (settled), `Fail` (declined,
a sibling may be tried) or `FailFatal` (settled with an error). The request's body is
shared by everything that may want it through `RequestBody`, an `Arc<Mutex<BodySlot>>`.

### Components

| Component | State | Operations | Hard behaviour | What makes it correct |
|---|---|---|---|---|
| Router (`servant-server/router.rs`, `result.rs`) | the tree; the stack of waiting calls; the best error | `choice`, `dispatch`, `run_choice_leaves`, `combine_fail` | merging must keep the order of overlapping alternatives; errors are combined in a tree | answers as the flat list of endpoints does |
| API to router (`serve.rs`, `serve/`) | none at run time | `shape`, `into_router` | every bracketing of alternatives | the same API means the same, however bracketed |
| Endpoint pipeline (`handler.rs`, `adapter.rs`) | phase, `ExtractState` | nine phases | a `Fail` after the body was read would let a sibling run without it | whoever may be tried next finds the body untouched; one handler answers |
| Extractors (`extract/`) | captures, rest, users by type, contexts | `validate_captures`, `host_check`, `pre_body_check`, `extract` | positions and queues that must agree between two passes | each handler argument is that of its own combinator; authentication precedes everything |
| Request body (`request/body.rs`) | `BodySlot`, the live body, its holders | `buffer`, `buffered`, `take_stream`, `poll_next`, drop | the lock is given up between taking and storing | one owner; bytes are the whole body; limits are true |
| Accept loop (`listener.rs`, `tls.rs`, `adapter.rs`) | semaphore, backlog, connections | accept, spawn, timeouts, release | permits across tasks, failing accepts, silent clients | permits are conserved; refusals only at the cap; a stall ends |
| Framings (`servant/stream.rs`, `servant/stream/sse.rs`) | none | `frame`, `deframe`, `deframe_limited` | partial frames, limits, lengths that lie | items arrive as sent |
| Server streams (`stream_body.rs`) | buffer, eof, done | one poll | chunks cut anywhere, failures in the middle of a frame | the handler's stream is the sender's, or fails openly |
| Client streams (`servant-client/client/streaming.rs`) | buffer, eof | one poll | the same | the same |
| SSE keep-alive (`sse.rs`) | the application's stream, the interval | one `select!` | a race in random order | the loser of the race loses nothing |
| Content negotiation (`servant/content/`) | none | parse, match and rank media ranges | specificity, q-values, ties; two searches through the same lists | what is sent is what the client prefers most; what is written by one codec is read by it |
| Parameters, deep queries, hosts (`servant/query.rs`, `query/deep.rs`, `modifiers.rs`, `host.rs`, `servant-server/request.rs`) | none | escape, render, split, decode, look up, parse | separators inside texts; keys that several combinators read | what one end renders the other reads back |
| Errors, auth data, redaction (`servant/error.rs`, `auth.rs`, `redact.rs`) | none | constructors, header data | statuses must be the documented ones | statuses and origins in `RouteResult`, `Dispatch` |
| API description types (`servant/api*`, `hlist.rs`) | none | constructors | type-level selection leaves nothing at run time | every interpretation walks the same value |
| Links (`servant/link.rs`, `haslink.rs`) | the link being built | `add_to_link`, render in two styles, follow | array elements, query strings, empty segments | a link leads to its own endpoint with its arguments |
| UVerb (`servant/uverb/`) | none | render and decode an arm | arms of one status; a second negotiation after the handler | the arm that was returned is the one decoded |
| Client calls (`servant-client/client*`, `request*`, `runclient.rs`) | the request being built | build, run with a timeout, classify | combinators that overwrite one another; bodies that cannot be rendered or sent | a call reaches the endpoint it was built from, with its arguments; what the handler returned is what the caller gets |
| Context (`context.rs`) | values by type, by name | lookup, nesting | shadowing in named contexts | lookups in `Dispatch` |
| Raw endpoints (`raw.rs`) | none | `RawLeaf`, `RawMLeaf`, host guards | they take every method and tail | in `Dispatch` |
| Documentation, OpenAPI (`src/servant-docs/`, `src/servant-openapi/`) | the entries so far | two walks, `combine`, `push`, `extend`, operations, components, checks | merging by key in every bracketing; two walks that must agree | every endpoint is listed and described as it is called; references resolve |
| Macros, test client, Markdown layout | none | code generation, formatting | | not modelled |

## 2. Modules

| Module | Models | State and actions |
|---|---|---|
| `RouteResult` | `RouteResult`, `ServerError`, `priority`, `combine_fail` | operators; an error is its status and the leaf (or the router) it came from |
| `ApiDescription` | the values of an API: combinators, terminals, `Alt` | operators; an endpoint is its steps and its terminal, of a type the texts it parses are kept |
| `Url` | escaping, query strings, deep keys, authorities, splitting a target | operators on sequences of pieces, each render beside its parse |
| `Params` | what `QueryParam` ... `Header`, `Host` look up and accept | operators from a request's pairs and headers to an argument or a refusal |
| `RequestSlot` | the critical sections of `RequestBody` | a slot and what is handed out: each mutex guard's lifetime is one operator |
| `RequestBody` | `RequestBody` with several holders of a clone | one action per critical section or await: `BeginBuffer`, `CollectFrame`, `CollectEnd`, `StoreBuffered`, `ReadStored`, `BeginStream`, `PollStream`, `Drop` |
| `Dispatch` | a request from `RouterService::handle` to its response | one action per arm of `dispatch`, per phase of `EndpointLeaf::call`, per combinator's `pre_body_check` and `extract`, per way a `RouteResult` goes back; recursion is an explicit stack |
| `LeafCall` | nothing: what one leaf's call promises | reference definition of its answer and its arguments by position, without phases, walks or queues |
| `Alternatives` | nothing: what routing promises | abstract specification, a best error and a verdict |
| `RouterTree` | `shape`, one call of `choice` | operators from an endpoint to its router, and from two routers to the one `choice` makes of them, given the calls it makes |
| `RouterBuild` | `choice`, `into_router`, `serve` | the recursion over an API value; and, for TLC, the sets of everything inside an API |
| `ApiSemantics` | nothing: what an API means | reference definition by endpoints alone, and the properties stated with it |
| `ServedApis` | nothing of its own: APIs with the routers they were built into | the calls of `into_router` and `choice` as a table, each entry being what the code makes of the entries it calls for |
| `Calls` | `build_request`, `ClientRequest`, `HasLink`, `Link`; the server's view of what was sent | `asked` is the call; `Send` puts its request before `Dispatch`, `NotSent` ends it; the rest are `Dispatch`'s steps |
| `Documents` | `docs_walk`, `ApiDoc`, `openapi_docs_walk`, `to_openapi`, `to_checked_openapi` | operators: one per walk, merge and table |
| `Interpretations` | nothing of its own: one API beside its call and its documents | the properties that relate them |
| `AcceptLoop` | `accept_loop`, TLS handshake, HTTP/1 serving | the loop and each connection are tasks; `permits`, `backlog`, `conn[c]` |
| `Framing` | the four framings | operators on sequences of bytes |
| `FramedChannel` | the sender and the connection | items are framed onto `wire`; `link` is open, ended or broken |
| `StreamBody` | `decode_stream` (server) | extends `FramedChannel`; one action per way round the loop of a poll: `DeframeNext`, `ReadChunk`, `ReadEnd`, `ReadError`, `Finish` |
| `StreamResponse` | `deframe_decode` (client) | the same for the client: `DeframeDecode`, `ReceiveChunk`, `ReceiveEnd`, `ReceiveError` |
| `ItemStream` | nothing: what a stream promises | abstract specification without bytes |
| `KeepAlive` | `SseKeepAlive::stream` | application, clock and connection as actors |
| `Negotiation` | `parse_accept`, `negotiate_media_index`, `AllMime*` | operators on Accept headers, media types and lists of codecs, with a reference definition that has no loop |
| `TypedExchange` | one call: `build_request`, the server's negotiation and rendering, `decode` | one action per step from the caller's arguments to its result; `ep`, `req`, `read`, `ran`, `resp`, `result` |
| `Lemmas` | | facts about numbers and sequences |
| `*_proofs` | | theorems: `Dispatch_proofs` has those about texts and about a leaf's call too, `Streams_proofs` is about both stream readers, `ServedApis_proofs` goes from `Dispatch` to what an API promises |
| `MC*` | | instances for TLC |

`Dispatch` composes `RequestSlot` (the same critical sections that `RequestBody`
interleaves), `RouteResult` and `Params`, which rests on `Url`; `ApiSemantics` states what
`Dispatch` (through `LeafCall`) owes an API, `ServedApis` adds how its router was built, and
`Calls` composes `ApiSemantics` and `RouterBuild` with the client and the links in front.
`RouterBuild` is recursive and only TLC's runs use it; everything that is proved about
routers rests on `RouterTree` and the table of `ServedApis`, which `MCDispatch` fills from
`RouterBuild`.
`Interpretations` has `Calls` and `Documents` side by side.
`StreamBody` and `StreamResponse` compose `Framing`, `FramedChannel` and their reader.
`TypedExchange` builds on `Negotiation`: it is `Dispatch`'s pipeline seen from the data,
with the client at both ends, for a request that has reached its endpoint.

Operators named in a comment as "Mutant" are plausible mistakes in the definition that
follows them. They are used by nothing; replacing the definition by one of them must
make a property fail, and `PROJECT.json` says which.

### Abstractions

* The parser of a type is the set of texts it accepts (`ok`), and an argument is the text
  of a value of that type; a lenient combinator accepts every text. Formatting a value
  (`ToHttpApiData`) is left out.
* A text is a sequence of pieces: a reserved character, or a run of unreserved ones. On the
  wire a piece is `<<piece>>`, or `<<"%", piece>>` when it is escaped. So a target is
  really split, decoded and matched, and only the two hexadecimal digits are left out. The
  escape sets of the path, the query and the links are written three times in the code, with
  the same characters, and once here.
* In `Dispatch` an `Accept` header is the set of media types it admits. `Negotiation` has
  the header itself: a sequence of ranges with q-values in tenths. Reading it off a string
  is left out, except for what is dropped (no range, a malformed q) and for the suffix of
  a subtype, which `Mime::subtype` leaves off and the header's parser does not.
* In `TypedExchange` bytes are known by the codec that wrote them; another codec may
  refuse them or read something else. Endpoints have no `StreamBody` there, and a lenient
  body is never an `Err` of the caller's (nothing would be sent).
* In `Calls` an `Accept` header is again a set, and a response is what `Dispatch` says it
  is; a client has no combinator for authentication, so such endpoints are only described.
  `TypedExchange` has the other half of a call, from the header to the decoded value. A
  link's fragment never leaves its follower.
* In `Documents` the order of media types, samples, notes and the JSON Schema of a type are
  layout; two schemas are compared as the code compares them, for equality. The
  combinators are those inside an endpoint, none is written around an `Alt`. Media types are
  records, as in `Negotiation`, and `media_key` is modelled by what it drops: parameters,
  and the suffix, where `Mime::subtype` ends.
* A body in `Dispatch` is read in one step, since its reader is alone there
  (`RequestBody` has the interleavings); it is sound, garbled, broken or too large.
* A byte in `Framing` is a digit, a delimiter or a letter. An item's length has one
  digit (`ItemsAreShort`), and `usize::MAX` is the constant `UsizeMax`, so that the
  `checked_add`s are met.
* A server-sent event is opaque, less its blank line; the fields in it are formatting.

## 3. Runs

| Run | Instance | Shows |
|---|---|---|
| `request_body` | 3 symmetric holders, limit 2, six wires: none, exactly the limit, the limit and trailers, one over, broken, over and then broken | `OneOwner`, `BytesAreTheWholeBody`, `TooLargeIsTrue`, `OneForm`, `StoredForGood` in every interleaving of buffering, rereading, streaming and cancellation |
| `dispatch` | every bracketing of nine lists of three or four overlapping endpoints, and nine long chains each beside a fallback on the same path, with the requests that tell them apart; 73360 states | `AnswersAsSpecified`: the merging router answers as the flat list does; `FlatAlternatives`; `BodyUntouchedUntilCommit`, `CommitIsFinal`, `OneHandlerAnswers`; `HandlerGetsItsArguments` and `AuthPrecedesEverything` for the chains; `LeafAnswersAsSpecified` of each leaf's call; `EveryRequestIsAnswered` |
| `interpretations` | four families of APIs, three of them in several orders: overlapping users, five ways to search, one path under several hosts, streams and raw endpoints; arguments made of separators, spaces, percent signs and nothing; media types with parameters and with suffixes; calls by client and both styles of links; 21357 states | `ReachesItsEndpoint`, `ArgumentsArrive`, `DocumentedAsCalled`, `EveryEndpointIsListed`, `DocsAndOpenApiAgree`, `CheckedDocumentsResolve` |
| `accept_loop` | 4 clients, 2 places, TLS | `PermitsConserved`, `RefusedOnlyAtCap`, `QueuedIsSettled`, `StallsEnd` |
| `stream_body` | four framings, two items at, above and below a cap of 5, seven kinds of junk | `DeliversItems` (the refinement), `NetstringRefusalsAreTrue`, `JunkIsReported`, `StreamEnds` |
| `stream_response` | four framings, two items, a cap of 9, five kinds of junk | `ResponseDelivers` (the refinement), `NetstringsFailWhole`, `ResponseJunkIsReported`, `ResponseEnds` |
| `keep_alive` | 3 events of 2 kinds | `NoEventIsLost`; `LivesWithApplication`: the stream ends once the application's has and is never silent for good before |
| `typed_exchange` | 22 endpoints of every terminal and kind of arm, 130 `Accept` headers, 8 content types | `SendsWhatIsPreferred`, `CallerGetsWhatHandlerReturned`, `OwnRequestIsServed`, `AcceptCheckSuffices`, `BodyIsReadAsTyped` |
| `auth_order` | that of `dispatch` | violated: the documented phase order (finding) |
| `vendor_type` | that of `typed_exchange`, media types with a suffix | violated: the generated client is served (finding) |
| `frame_cap` | that of `stream_body`, newline framing | violated: the meaning of `FrameTooLarge` (finding) |
| `truncated_item` | that of `stream_response`, newline framing | violated: nothing is made of a failed stream's rest (finding) |

### What `interpretations` leaves out

The properties of a call hold where the two ends can agree, and five definitions say where
that is. Each exception is what the code does, met by TLC before it was written down.

* `Carried` (of one argument): a `CaptureAll` that starts with an empty text loses it; the
  name of a deep field with "]" in it is taken apart; a pair with neither key nor value is
  dropped; a header value that is no header text is not sent, and one with spaces at its
  ends is trimmed; a link carries neither headers nor bodies.
* `Undisturbed` (of one argument among others): `QueryString` replaces what the combinators
  before it have appended; `QueryParams` and `DeepQuery` read keys that other combinators
  send.
* `Deliverable` (of a call): all of the above, no empty last segment, one body at most, and
  for a link the method, the headers and the host its endpoint asks for.
* `HasTemplate` and `BodyIsTold` (of a document): a literal with a slash in it or an empty
  `CaptureAll` has another number of segments than its template; a second body under one
  key is dropped by `combine`.
* `Shows` (of a document): a media type with a suffix has the key of the type without it, and
  two that differ in it have one key (`Import`). `DocumentedAsCalled` says that this key is
  there, not that it is the type that was sent. Only request bodies have such types here: a
  response of one would be refused with 406 by the server's own negotiation, which is
  `TypedExchange`'s (the run `vendor_type`).

### Bounds, and why they are enough

* Three holders of a body: one may own it, one may have taken it before, one may
  ask meanwhile. The proofs cover any number.
* Four endpoints per API: merging looks at two siblings, reassociation at three, and the
  fourth is one that comes after. All five bracketings of four are there, and the lists
  mix static paths, captures, `CaptureAll` and raw endpoints that match the same paths.
* Texts of `interpretations`: nothing, one word, each separator alone and between words, a
  percent sign before a digit, both brackets. Escaping is piecewise, so a text is lost at one
  piece or at the seam of two; the proofs about texts cover every one. Each API has two
  endpoints that share a path or a key and the others to tell merging from replacing; the
  brackets of three and four are all there.
* Two places and four clients: the cap is reached with one connection refused and one
  queued. The proofs cover any cap and any set of clients.
* `MaxItems = 2`: a frame and the one after it, in one chunk or in many, since a chunk is
  any non-empty prefix of what is under way. The cap is at an item's own length and one
  below. The proofs cover any number of items, any cap and any junk. `UsizeMax = 15` is
  exceeded by the announced length of one kind of junk.
* Two ranges in most `Accept` headers, three in some: one that decides, one that is less
  specific or comes first, one that is dropped or excludes. Lists of up to three markers
  have the two ways to go wrong: one marker of two media types, and two markers that differ
  in parameters only, which negotiation does not look at.
* `MaxEvents = 3`, of two kinds: enough for loss, duplication and reordering.

### Fairness

* `RequestBody`: none; only safety is claimed.
* `Dispatch`: `WF_vars(Step)`. The executor polls a request's future until it is ready;
  handlers and bodies are assumed to end, and the property says nothing otherwise.
* `AcceptLoop`: weak fairness of the timers, of `BackoffEnds` and of giving a permit
  back (the runtime polls what is ready), strong fairness of `Accept`, because accept
  errors pass (`listener.rs:5-8`). None for `ReadHead` and `Respond`: nothing
  makes a client send or a handler answer, so `StallsEnd` stops at "busy". No timeout of
  the code covers a request that is being served.
* `StreamBody`: `WF_vars(Poll)`, `StreamResponse`: `WF_vars(PollResponse)`: the reader polls,
  and bytes on the wire arrive. None for the sender.
* `TypedExchange`, `Calls`: none; only safety is claimed (`Dispatch` has the liveness of
  what is served).
* `KeepAlive`: weak fairness of each branch of `select!`, which polls its branches in
  random order, so that a branch that stays ready is taken, and of the clock.

Deadlock is checked in `request_body`, `dispatch`, `interpretations` and `auth_order`. The
other systems really stop: a loop that was dropped, a stream or a call that has ended.

## 4. Proofs

| Theorem | Says |
|---|---|
| `RequestBody_proofs`: `TypeCorrect`, `SingleOwner`, `WholeBodies`, `TrueRefusals`, `ExclusiveForms`, `Stored` | the state's types and every property of the run, for any holders, wires and limit |
| `AcceptLoop_proofs`: `TypeCorrect`, `PermitsAreConserved`, `ServedWithinCap`, `RefusalsAreAtCap` | the safety of the accept loop, for any clients and cap |
| `Dispatch_proofs`: `TypeCorrect`, `SiblingsFindTheBody`, `HandlerAnswers`, `CommitmentIsFinal` | the pipeline's safety on any router, leaves and requests |
| `Dispatch_proofs`: `FlatRefinement` | `Dispatch` implements `Alternatives` |
| `Dispatch_proofs`: `DecodeUndoesEscape`, `PairIsReadBack` | an escaped text decodes to itself in a query string; a rendered pair is split and decoded to that pair, for any texts |
| `Dispatch_proofs`: `QueryIsReadBack`, `PathIsReadBack` | a whole query string is split into its pairs again and a whole path into its segments, however many there are and whatever their texts contain |
| `Dispatch_proofs`: `AuthenticatesFirst`, `EachArgumentIsItsOwn`, `LeavesAnswerAsSpecified` | each call of a leaf, for any chain of combinators: authentication before all else, each argument from its own combinator, the answer that `LeafCall` specifies |
| `ServedApis_proofs`: `ChoiceServes`, `RoutersServeTheirEndpoints` | what `choice` makes of two routers serves what both do, the left one's endpoints first; so does the router of an API serve its endpoints in the order they are written, however it is bracketed |
| `ServedApis_proofs`: `AnswersFollowTheApi`, `HandlersGetTheirArguments` | every request to that router is answered as the API's endpoints promise, and its handler gets the arguments of its own endpoint's steps |
| `TypedExchange_proofs`: `AcceptanceIsLasting`, `BestRepresentation`, `DecodingInvertsRendering`, `CheckedTypeIsRead`, `OwnRequestsAreServed` | every property of the run, for any endpoints, codecs and headers; the last one for media types without suffixes |
| `Streams_proofs`: `HandlerGetsTheItems`, `NetstringRefusals`, `HandlerHearsOfJunk` | `StreamBody` implements `ItemStream`; its invariants; for any items, junk and cap, and every cut of the bytes |
| `Streams_proofs`: `CallerGetsTheItems`, `NetstringsFail`, `CallerHearsOfJunk` | the same of `StreamResponse` |
| `KeepAlive_proofs`: `NothingIsLost` | the race loses no event, for any number of events |

`Lemmas` has what several of them need: that a nonempty set of naturals has a least member,
what `Min` and `FlattenSeq` compute, prefixes of concatenations.

**Assumptions** are those of the modules, and TLC evaluates them in every run:

* `MaxBufferedBytes` is a natural number and wires only grow; a finite set of clients
  and at least one place (`with_max_connections` clamps to one); any number of events.
* `Nodes` and `Leaves` contain the children of their members, statuses are those routing
  knows, a chain is a list (`ChainsAreSequences`); "none" is none of the values it stands
  beside (`NoneIsNoCode`, `NoneIsNoValue`, `NoneIsNoFrame`).
* The served routers are those of the code: `WrittenAreApis`, `MergedIsChoice`,
  `RouterOfIsIntoRouter`, `ListOfIsTheEndpoints` and `ApisAreServed` say of a table of calls
  that each entry is what `into_router` or `choice` makes of the entries it calls for, and
  that the table is closed under those calls. Nothing is assumed of the routers in it; any
  API has such a table, finite since its value is. `MCDispatch` computes the one of its
  APIs with `RouterBuild`, so that TLC finds the assumptions true of it. `EndpointsAreNamed`:
  no two endpoints of an API share their name, which is the model's own.
* The endpoints and headers of `TypedExchange` are typed, and the types of every terminal
  but `UVerb` fix its one arm (`ArmsOfTerminals`). `NoSuffixes` is no assumption of the
  module but the hypothesis of `OwnRequestsAreServed` alone; the run `vendor_type` shows that
  it is needed.
* Streams: an item suits its framing (`ItemsSuitTheirFraming`). The code asks this of its
  users and does not check it: no item with a newline in it goes through `NewlineFraming`, no
  event with a blank line in it through `EventStreamFraming`, nothing empty through
  `NoFraming`. Only a stream of netstrings can end in junk, and no part of it is a frame
  (`JunkIsForeign`, `JunkIsNoFrame`, `JunkIsNoItem`). Items are shorter than ten bytes,
  since a length is written as one digit: a limit of the model, and so of the theorems. The
  server's cap is not zero (it is 8 MiB).

**Arguments.**

* *Request body.* `BytesAreTheWholeBody` is not inductive: it says nothing of a caller
  in the middle of `collect_limited`. `IInv` adds that an owner's count is that of the
  frames read (`OwnersKeepUp`), that a stored body is whole (`StoredIsWhole`), and that
  what was handed out fits the slot (`FormsMatchSlot`). `OneOwner` is what makes
  `OwnersKeepUp` stable: only the owner advances `read`.
* *Accept loop.* `PermitsConserved` needs the backlog to be free of duplicates and to
  list exactly the queued connections (in `TypeOK`): otherwise `Accept` could start a
  connection that already holds a place.
* *Dispatch.* `extract` has `Fail` branches, after the body was read (`captures.rs:41`).
  They are dead because `validate_captures` parsed the same captures by position. The
  invariant `CapturesHold` relates the two passes: at combinator k the captures left are
  the original ones less as many as `Capture` combinators were passed, and all of them
  parse. With it a leaf call, once committed, never returns `Fail`.
* *Refinement.* The code combines errors in pairs on the way back up the recursion;
  `Alternatives` has one running best. `BestIsFirst` says where that best is: held by
  the result or by a waiting call, with only lesser errors in the calls that wait
  longer. Then the last `Fail` that leaves the stack is the best of all.
* *A leaf's call.* The code walks a chain twice with one mutable `ExtractState`; `LeafCall`
  names combinators by position. `LeafInv` says what the state is at each position: the
  contexts are the scope of that position (`InScope`), the users kept are those of the
  authentications before it on the first walk (`UsersKept`) and from it on during the second
  (`UsersLeft`), and nothing passed so far would have refused the request (`PhasesPassed`,
  `AuthSoFar`, `BodySoFar`, `ExtractSoFar`).
* *Routers.* An item `<<i, m>>` is endpoint i with its first m steps passed. `Serves` relates
  a router to the items it stands for: a `Static` node to items whose next step is one of its
  segments or whose path is over, the latter in the order of its leaves; a `Choice` to two
  sets, the left one's endpoints all before the right one's; and so on down. It is the
  largest relation that asks of each node only what the nodes inside it are related to, so
  that to serve is to be in *some* such relation, and no induction over routers is needed:
  `choice` keeps it because the relation extended by what `choice` makes of its pairs is
  one again (`ChoiceRules`), and `into_router` needs the same once more over the parts of
  an API (`RouterServes`). The order is what makes this go through: `Capture` and `Static`
  merge the items of both sides, and reassociation keeps left before right.
* *Search.* At a node, the items it serves stand where `dispatch` stands: the same segments
  left, the same captures (`Stands`, `Covers`). Each waiting call covers the next endpoints
  after those below it, up to the last (`StackCovers`). `Searching` says that what is on
  the stack covers every endpoint still to be tried and that all before them have declined
  with errors no greater than the best so far (`DeclinedWith`); `Settled` that a call that does
  not decline is that of the first endpoint that takes the request; `GivenUp` that otherwise
  the best error is that of the first endpoint with the greatest. `SInv` is these with
  `LeafInv` and `BestIsFirst`, and the two theorems follow from it when the answer is out.
* *Negotiation.* `Foremost` is a loop over the keys of the media types; that it stops at the
  first of the greatest is an induction over how far the loop has come
  (`ForemostIsFirstOfGreatest`).
* *Typed exchange.* Four searches must agree: the server's negotiation over media types, its
  choice of a codec by counting, and the same two on the client's side. `ReadAsRendered` is the
  key: had an earlier marker matched the type that was sent, then its type would have been
  wanted as much and found before.
* *Texts.* Escaping is piecewise (`EscapeAt`): a reserved piece becomes one that begins with
  a percent sign, so that no separator is left in an escaped text (`NoDelimiter`) and the last
  part of a piece is the piece. Then the first "=" of a rendered pair is the one between key
  and value (`SplitOnceAtFirst`), and decoding gives both back. `Split` is a fold, that is
  a recursive function; `SplitUnrolls` gives its intermediate results, one step per place of
  the wire (`SplitStep`). Over a part that holds no delimiter the last part so far grows by a
  piece at each step (`SplitWalks`), and at a delimiter a new one begins, so that parts joined
  by a delimiter none of them holds come out again (`SplitUndoesJoin`). `QueryIsReadBack`
  speaks of the parts that `Split` gives, and shows that none is empty: `ParsePairs` drops
  empty ones with `SelectSeq`, of whose recursive definition the provers know nothing, so
  the last step, that it drops none of these, is not proved.
* *Streams.* First the framings, one by one: what `Deframe` and `deframe_limited` make of a
  buffer that begins with a frame (`FrameTaken`, `NetstringWhole`) and of one that ends
  inside it (`PartKept`, `NetstringPart`). Then `Flow`: the bytes in the reader's buffer and
  on the wire, and those a broken connection has lost, are together what the sender has sent
  after the n items that were given. Sending and closing keep it (`FlowSent`, `FlowJunk`,
  `FlowCloses`), so does a loss (`FlowLoses`); a chunk only moves the boundary
  between buffer and wire, wherever it is cut (`ChunkKeeps`); and a frame that is found is
  the next item (`TakesNext`, `LimitedNext`). An empty `Flow` means that nothing is missing
  (`NothingLeft`). `BodyInv` and `ResponseInv` split by how far a stream has come: it goes
  on with `Flow`, it has stopped with an error, or it is over and everything was given. The
  caller's side reads on after a failure: there only the entries up to the failure
  are claimed, and for netstrings that the buffer holds no frame (`NetstringStops`).
* *Keep-alive.* `given \o ready = produced` is inductive with the types.

Where a definition is a recursive function (a loop, a decimal, a search), its facts are
proved by looking at the least counterexample (`LeastNat`).

**Only model-checked.** Liveness and everything under fairness. What the walks of `Calls`
and `Documents` build, since they fold over the steps of an endpoint, and so all that
`interpretations` checks. That `RouterBuild` computes a table as `ServedApis` assumes it, which
is an induction over API values and beyond the provers: TLC evaluates it for the APIs of
`dispatch`.

## 5. Findings

* **Phase order** (`auth_order`). `docs/DESIGN.md:138` gives the order
  "captures → method → auth → accept → content-type → query params → headers → body →
  handler". The code checks `Accept` and `Content-Type` before authentication, so a
  request with bad credentials can be declined with 406 and go on to a sibling; and it
  reads the body before it looks at a parameter (`handler.rs:100` and `107`; no run shows
  this half).
* **Frame cap** (`frame_cap`). The default `deframe_limited` holds its whole buffer to
  the cap of one frame. The run shows an item of exactly the cap refused because its
  delimiter is in the buffer; items that arrive together are refused for the same reason.
  Netstrings override it and do not have this. `deframe_decode` compares its whole
  buffer too (`streaming.rs:144`), for every framing.
* **Truncated item** (`truncated_item`). After a transport error the client sets `eof`
  and keeps its buffer; the next poll flushes the rest of a frame that was cut off, and
  the caller is given a prefix of an item as an item.
* **Suffixes** (`vendor_type`). `range_specificity` compares a subtype as it is written,
  `vnd.api+json`, with `Mime::subtype`, `vnd.api`. A marker for such a type is never matched
  by its own media type, and the server answers 406 to the generated client of its own API.
  On the request side `media_matches_content` leaves both suffixes off, so
  `vnd.api+xml` is read by the codec for `vnd.api+json`.

Three comments disagree with the code and have no run of their own. `operation.rs:122` says
that the key of a media type in a document is its essence; `media_key` writes `Mime::subtype`,
which ends before a suffix, so that a body of `application/vnd.api+json` is served and
documented as `application/vnd.api`, and one that may be `vnd.api+xml` too has one entry for
both. `model.rs:218` says that entries are the same iff path and method match; the key has
the host in it too, and a raw entry has no method in its key. `modifiers.rs:5` says that the docs walker reads the same
table as the server, so that the interpretations can never disagree about an argument's
presence; `parameters.rs:45` and `:84` document every query parameter and header with
`required: false`, those that the server refuses to go without included (`Documents` has no
presence in its parameters, as the code's `ParamDoc` has none).

Seen in passing, and no finding: an empty last capture is a trailing slash, which the server
drops, so that the call of `/users/:id` with an empty id asks for `/users`. Arms that share a status, or have that of one of the
server's own errors, are decoded for one another (`Distinguishable` excludes them). The
client of a `Head` endpoint decodes an empty body. A fixed arm whose type the caller does
not accept is a 500 after its handler ran. Also, `select!` in the keep-alive is not biased, so
a comment may be sent although an event waits; nothing is lost by it (`NoEventIsLost`).

## 6. Not modelled, and why

* Type-level selection (`BuildServerByKind`, `HList`, `Func`, the macros): it has no
  behaviour at run time; the API a program serves is a constant.
* Formatting: problem bodies, how a type's values are written, redaction, the layout of
  Markdown, the JSON Schema of a type and the other details of an OpenAPI document that no
  property tells apart.
* The test client (`testing.rs`): it drives `RouterService` for tests.
* Parsing of a base URL, and the connection pool and redirects of hyper's client.
* hyper, tokio and rustls: they appear as the steps the code relies on (a chunk, the end
  or an error; a timer; a handshake), marked external in the map.
* Dropping a request's future in the middle (a client that goes away while its handler
  runs): in `RequestBody` (`Drop`), not in `Dispatch`.
* The whole life of a body stream after it is handed to a handler is `StreamBody`'s;
  `Dispatch` records that it was handed out.

## 7. Plan

Done, in this order: `RequestBody` with its proofs, `Dispatch` with `RouterTree` and
`ApiSemantics`, `AcceptLoop`, the proofs of `Dispatch` and its refinement, the streams,
the keep-alive, negotiation and typed calls; then API descriptions, the texts of a target
with their proofs, calls and links against the router, and the documents; then the proofs of
a leaf's call, of typed exchanges and of both stream readers; then those of `choice` and
`into_router`, of what a router made of an API answers, and of whole query strings and paths.

Next:

1. The seam between `Dispatch` and `TypedExchange`: "the media types an Accept header
   admits" is what `Negotiation` computes.
2. Lengths of several digits in `LengthPrefix`, which is what limits the theorems on streams
   to short items.
3. Proofs of `ReachesItsEndpoint` and `ArgumentsArrive`, from `QueryIsReadBack`, `PathIsReadBack`
   and the theorems of `ServedApis_proofs`. They need the fold over `ClientStep` unrolled as
   that of `Split` is, and `Calls` freed of `RouterBuild`, whose operators are recursive.

Proof modules stay few: one per component.
