--------------------------- MODULE ApiDescription ---------------------------
(***************************************************************************)
(* API descriptions: the values that servant's constructors build          *)
(* (api/constructors.rs) and that every interpretation walks.              *)
(*                                                                         *)
(* An API is an endpoint or an alternative of two APIs.  An endpoint is    *)
(* its terminal and the combinators around it, from the outside in.  Of a  *)
(* Rust type a combinator keeps the texts it parses (ok), or the fields it *)
(* wants, and a body's schema: [component, shape], component the name      *)
(* ToSchema gives it or None.  Strict and lenient combinators differ in ok *)
(* alone: a lenient one lets every text through, parsed or not.            *)
(***************************************************************************)
EXTENDS RouteResult, SequencesExt

\* A media type: type/subtype+suffix; params, what a marker puts behind it.
Mime(type, subtype, suffix, params) ==
  [type |-> type, subtype |-> subtype, suffix |-> suffix, params |-> params]

Path(segment) == [c |-> "Path", seg |-> segment]

Capture(name, ok) == [c |-> "Capture", name |-> name, ok |-> ok]

CaptureAll(name, ok) == [c |-> "CaptureAll", name |-> name, ok |-> ok]

\* Optional, unless required() says otherwise.
QueryParam(name, required, ok) ==
  [c |-> "QueryParam", name |-> name, required |-> required, ok |-> ok]

QueryParams(name, ok) == [c |-> "QueryParams", name |-> name, ok |-> ok]

QueryFlag(name) == [c |-> "QueryFlag", name |-> name]

QueryString == [c |-> "QueryString"]

DeepQuery(name, fields) == [c |-> "DeepQuery", name |-> name, fields |-> fields]

Header(name, required, ok) ==
  [c |-> "Header", name |-> name, required |-> required, ok |-> ok]

Host(name) == [c |-> "Host", name |-> name]

\* The first of the content types is the one a client sends.
ReqBody(types, ok, schema) ==
  [c |-> "ReqBody", types |-> ToSet(types), primary |-> types[1], ok |-> ok,
   schema |-> schema]

StreamBody(type, schema) ==
  [c |-> "StreamBody", types |-> {type}, primary |-> type, schema |-> schema]

Description(text) == [c |-> "Description", text |-> text]
Summary(text) == [c |-> "Summary", text |-> text]
OperationId(id) == [c |-> "OperationId", id |-> id]
Fragment(description) == [c |-> "Fragment", text |-> description]

\* WithResource, BasicAuth and AuthProtect, WithNamedContext
Resource(res) == [c |-> "Resource", res |-> res]
Auth(usr, denied) == [c |-> "Auth", usr |-> usr, denied |-> denied]
Named(name) == [c |-> "Named", name |-> name]

\* Vault, IsSecure, HttpVersion and RemoteHost tell of the connection.
Info == [c |-> "Info"]

-----------------------------------------------------------------------------
Verb(method, status, types, schema) ==
  [kind |-> "endpoint", verb |-> "Verb", method |-> method, status |-> status,
   produces |-> types, schema |-> schema]

Get(types, schema) == Verb("GET", 200, types, schema)
Post(types, schema) == Verb("POST", 200, types, schema)

NoContentVerb(method) ==
  [kind |-> "endpoint", verb |-> "NoContent", method |-> method, status |-> 204,
   produces |-> {}, schema |-> None]

\* The arms have statuses of their own; 200 is nominal.
UVerb(method, types, schema) ==
  [kind |-> "endpoint", verb |-> "UVerb", method |-> method, status |-> 200,
   produces |-> types, schema |-> schema]

StreamVerb(method, status, type, schema) ==
  [kind |-> "endpoint", verb |-> "StreamVerb", method |-> method,
   status |-> status, produces |-> {type}, schema |-> schema]

\* Raw and RawM answer any method.
RawTerminal(kind) ==
  [kind |-> kind, verb |-> kind, method |-> "", status |-> 200, produces |-> {},
   schema |-> None]

Endpoint(id, steps, terminal) ==
  [a |-> "endpoint", id |-> id, steps |-> steps, kind |-> terminal.kind,
   verb |-> terminal.verb, method |-> terminal.method, status |-> terminal.status,
   produces |-> terminal.produces, schema |-> terminal.schema]

Alt(left, right) == [a |-> "alt", left |-> left, right |-> right]

-----------------------------------------------------------------------------
\* What only the documentation interprets.
Metadata == {"Description", "Summary", "OperationId", "Fragment"}

\* HasArgs: does this combinator add an argument to the handler's?
TakesArgument(step) == step.c \notin Metadata \cup {"Path", "Host", "Named"}
=============================================================================
