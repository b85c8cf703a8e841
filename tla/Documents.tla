----------------------------- MODULE Documents -----------------------------
(***************************************************************************)
(* The interpretations that only describe an API: servant-docs, which      *)
(* walks it into a list of entries and merges those that share a key, and  *)
(* servant-openapi, which walks it again for the schemas of the bodies and *)
(* turns the list into the paths of an OpenAPI document.                   *)
(*                                                                         *)
(* Absent values are None; the order of media types and the names of Rust  *)
(* types are layout and left out.  The key that a document has a media     *)
(* type under is [type, subtype], the subtype as written: a pair           *)
(* <<subtype, suffix>>.                                                    *)
(***************************************************************************)
EXTENDS ApiDescription, Params

\* EndpointDoc::empty
EmptyDoc ==
  [path |-> <<>>, method |-> "GET", status |-> 200, params |-> <<>>,
   headers |-> <<>>, host |-> None, body |-> None, produces |-> {},
   schema |-> None, summary |-> None, description |-> None, operationId |-> None,
   fragment |-> None, queryString |-> None, deep |-> <<>>, raw |-> None]

\* HostDoc::from_name: an authority that does not parse has no port.
HostDoc(name) ==
  [name |-> name,
   port |-> IF ParseAuthority(name) = Malformed THEN <<>> ELSE name.port]

OrElse(value, other) == IF value = None THEN other ELSE value

\* A description is a sequence of texts: what was set, and the notes behind it.
Note(doc, note) ==
  [doc EXCEPT !.description = Append(OrElse(@, <<>>), note)]

-----------------------------------------------------------------------------
(***************************************************************************)
(* servant-docs: docs_walk of each combinator.                             *)
(***************************************************************************)
DocsPath(doc, step) ==
  [doc EXCEPT !.path =
     Append(@, IF step.c = "Path" THEN [p |-> "Static", text |-> step.seg]
               ELSE [p |-> step.c, text |-> step.name])]

DocsParam(doc, step) ==
  CASE step.c = "QueryString" -> [doc EXCEPT !.queryString = TRUE]
    [] step.c = "DeepQuery" -> [doc EXCEPT !.deep = Append(@, step.name)]
    [] step.c = "Header" -> [doc EXCEPT !.headers = Append(@, step.name)]
    [] OTHER -> [doc EXCEPT !.params = Append(@, [name |-> step.name, kind |-> step.c])]

\* SchemaDoc::type_name knows nothing but the name.
DocsBody(doc, step) ==
  [doc EXCEPT !.body = [types |-> step.types,
                        schema |-> [component |-> None, shape |-> None],
                        streaming |-> step.c = "StreamBody"]]

DocsMetadata(doc, step) ==
  CASE step.c = "Description" -> [doc EXCEPT !.description = <<step.text>>]
    [] step.c = "Summary" -> [doc EXCEPT !.summary = step.text]
    [] step.c = "OperationId" -> [doc EXCEPT !.operationId = step.id]
    [] step.c = "Fragment" -> [doc EXCEPT !.fragment = step.text]

\* The server's own combinators: only authentication leaves a note.
DocsServer(doc, step) ==
  IF step.c = "Auth" THEN Note(doc, "Requires authentication.") ELSE doc

PathCombinators == {"Path", "Capture", "CaptureAll"}

DocsStep(doc, step) ==
  CASE step.c \in PathCombinators -> DocsPath(doc, step)
    [] step.c \in ParamCombinators -> DocsParam(doc, step)
    [] step.c = "Host" -> [doc EXCEPT !.host = HostDoc(step.name)]
    [] step.c \in {"ReqBody", "StreamBody"} -> DocsBody(doc, step)
    [] step.c \in Metadata -> DocsMetadata(doc, step)
    [] OTHER -> DocsServer(doc, step)

DocsTerminal(doc, ep) ==
  LET known == [doc EXCEPT !.method = ep.method, !.status = ep.status,
                           !.produces = ep.produces]
  IN CASE ep.kind # "endpoint" -> [doc EXCEPT !.raw = ep.kind]
       [] ep.verb = "UVerb" -> Note(known, "Returns one of several status codes.")
       [] ep.verb = "StreamVerb" -> Note(known, "Streaming response.")
       [] OTHER -> known

-----------------------------------------------------------------------------
(***************************************************************************)
(* ApiDoc: the entries of an API, one for each key.                        *)
(***************************************************************************)
\* PathPart::render
Rendered(part) == IF part.p = "Static" THEN part.text ELSE <<":">> \o part.text

DocKey(doc) ==
  [host |-> IF doc.host = None THEN None ELSE doc.host.name,
   path |-> [i \in DOMAIN doc.path |-> Rendered(doc.path[i])],
   method |-> IF doc.raw # None THEN None ELSE doc.method]

\* Mutant: what the later endpoint is sensitive to is forgotten.
CombineKeepsLeft(doc, other) == doc

\* combine: lists are appended, for the rest the left entry wins.
Combine(doc, other) ==
  [doc EXCEPT !.params = @ \o other.params, !.headers = @ \o other.headers,
              !.deep = @ \o other.deep, !.produces = @ \cup other.produces,
              !.body = OrElse(@, other.body), !.schema = OrElse(@, other.schema),
              !.host = OrElse(@, other.host), !.summary = OrElse(@, other.summary),
              !.description = OrElse(@, other.description),
              !.operationId = OrElse(@, other.operationId),
              !.fragment = OrElse(@, other.fragment),
              !.queryString = OrElse(@, other.queryString),
              !.raw = OrElse(@, other.raw)]

Push(docs, doc) ==
  LET i == SelectInSeq(docs, LAMBDA d : DocKey(d) = DocKey(doc)) IN
  IF i = 0 THEN Append(docs, doc) ELSE [docs EXCEPT ![i] = Combine(@, doc)]

Extend(docs, others) == FoldLeft(Push, docs, others)

RECURSIVE DocsWalk(_, _)

\* Both sides of an Alt inherit the same accumulator.
DocsWalk(written, doc) ==
  IF written.a = "alt"
  THEN Extend(DocsWalk(written.left, doc), DocsWalk(written.right, doc))
  ELSE <<DocsTerminal(FoldLeft(DocsStep, doc, written.steps), written)>>

DocsOf(written) == DocsWalk(written, EmptyDoc)

-----------------------------------------------------------------------------
(***************************************************************************)
(* servant-openapi: the same walk, with the schemas of the bodies.         *)
(***************************************************************************)
OpenApiRoute(doc, step) ==
  LET param(kind) == [doc EXCEPT !.params = Append(@, [name |-> step.name, kind |-> kind])]
      part(kind, text) == [doc EXCEPT !.path = Append(@, [p |-> kind, text |-> text])]
  IN CASE step.c = "Path" -> part("Static", step.seg)
       [] step.c = "Capture" -> part("Capture", step.name)
       [] step.c = "CaptureAll" -> part("CaptureAll", step.name)
       [] step.c = "QueryParam" -> param("QueryParam")
       [] step.c = "QueryParams" -> param("QueryParams")
       [] step.c = "QueryFlag" -> param("QueryFlag")
       [] step.c = "QueryString" -> [doc EXCEPT !.queryString = TRUE]
       [] step.c = "DeepQuery" -> [doc EXCEPT !.deep = Append(@, step.name)]
       [] step.c = "Header" -> [doc EXCEPT !.headers = Append(@, step.name)]
       [] step.c = "Host" -> [doc EXCEPT !.host = HostDoc(step.name)]

OpenApiBody(doc, step) ==
  [doc EXCEPT !.body = [types |-> step.types, schema |-> step.schema,
                        streaming |-> step.c = "StreamBody"]]

OpenApiMetadata(doc, step) ==
  CASE step.c = "Description" -> [doc EXCEPT !.description = <<step.text>>]
    [] step.c = "Summary" -> [doc EXCEPT !.summary = step.text]
    [] step.c = "OperationId" -> [doc EXCEPT !.operationId = step.id]
    [] step.c = "Fragment" -> [doc EXCEPT !.fragment = step.text]
    [] step.c = "Auth" -> Note(doc, "Requires authentication.")
    [] OTHER -> doc

\* Mutant: a stream's items are not in its response.
OpenApiTerminalNoStream(doc, ep) ==
  LET known == [doc EXCEPT !.method = ep.method, !.status = ep.status,
                           !.produces = ep.produces, !.schema = ep.schema]
  IN CASE ep.kind # "endpoint" -> [doc EXCEPT !.raw = ep.kind]
       [] ep.verb = "UVerb" -> Note(known, "Returns one of several status codes.")
       [] ep.verb = "StreamVerb" -> Note([known EXCEPT !.produces = {}], "Streaming response.")
       [] OTHER -> known

OpenApiTerminal(doc, ep) ==
  LET known == [doc EXCEPT !.method = ep.method, !.status = ep.status,
                           !.produces = ep.produces, !.schema = ep.schema]
  IN CASE ep.kind # "endpoint" -> [doc EXCEPT !.raw = ep.kind]
       [] ep.verb = "UVerb" -> Note(known, "Returns one of several status codes.")
       [] ep.verb = "StreamVerb" -> Note(known, "Streaming response.")
       [] OTHER -> known

OpenApiStep(doc, step) ==
  CASE step.c \in PathCombinators \cup ParamCombinators \cup {"Host"} -> OpenApiRoute(doc, step)
    [] step.c \in {"ReqBody", "StreamBody"} -> OpenApiBody(doc, step)
    [] OTHER -> OpenApiMetadata(doc, step)

RECURSIVE OpenApiWalk(_, _)

OpenApiWalk(written, doc) ==
  IF written.a = "alt"
  THEN Extend(OpenApiWalk(written.left, doc), OpenApiWalk(written.right, doc))
  ELSE <<OpenApiTerminal(FoldLeft(OpenApiStep, doc, written.steps), written)>>

OpenApiDocsOf(written) == OpenApiWalk(written, EmptyDoc)

-----------------------------------------------------------------------------
(***************************************************************************)
(* to_openapi.  The paths object is a function of <<template, method>>; an *)
(* operation keeps those that clash with it as its alternatives, itself    *)
(* the first of them.                                                      *)
(***************************************************************************)
\* templated_path
Template(path) ==
  IF path = <<>> THEN <<"/">>
  ELSE FlattenSeq([i \in DOMAIN path |->
         <<"/">> \o IF path[i].p = "Static" THEN path[i].text
                    ELSE <<"{">> \o path[i].text \o <<"}">>])

\* A named schema is referred to, any other is written out.
SchemaFor(schema) ==
  IF schema.component # None THEN [ref |-> schema.component] ELSE [shape |-> schema.shape]

\* parameters_for: only what is in the path is required.
ParametersFor(doc) ==
  LET captures == SelectSeq(doc.path, LAMBDA part : part.p # "Static") IN
  [i \in DOMAIN captures |-> [name |-> captures[i].text, in |-> "path", required |-> TRUE]]
  \o [i \in DOMAIN doc.params |->
        [name |-> doc.params[i].name, in |-> "query", required |-> FALSE]]
  \o [i \in DOMAIN doc.deep |->
        [name |-> doc.deep[i], in |-> "deepObject", required |-> FALSE]]
  \o [i \in DOMAIN doc.headers |->
        [name |-> doc.headers[i], in |-> "header", required |-> FALSE]]

\* media_key: Mime::subtype ends before a suffix, and parameters are dropped.
MediaKey(media) == [type |-> media.type, subtype |-> <<media.subtype, "">>]

\* Media types with one key have one entry of the content object.
ContentFor(types) == {MediaKey(media) : media \in types}

RequestBodyFor(body) ==
  [content |-> ContentFor(body.types), schema |-> SchemaFor(body.schema),
   streaming |-> body.streaming]

ResponsesFor(doc) ==
  [status |-> doc.status, content |-> ContentFor(doc.produces),
   schema |-> IF doc.schema = None \/ doc.produces = {} THEN None ELSE SchemaFor(doc.schema)]

OperationFor(doc) ==
  [summary |-> doc.summary, description |-> doc.description,
   operationId |-> doc.operationId, parameters |-> ParametersFor(doc),
   queryString |-> doc.queryString, host |-> doc.host,
   body |-> IF doc.body = None THEN None ELSE RequestBodyFor(doc.body),
   responses |-> ResponsesFor(doc), alternatives |-> <<>>]

\* append_same_method_alternative
AppendAlternative(existing, operation) ==
  [existing EXCEPT !.alternatives =
     (IF @ = <<>> THEN <<existing>> ELSE @) \o <<operation>>]

\* Mutant: methods.insert(method, operation)
InsertOverwrites(paths, doc) ==
  (<<Template(doc.path), doc.method>> :> OperationFor(doc)) @@ paths

\* insert_method_operation
InsertOperation(paths, doc) ==
  LET key == <<Template(doc.path), doc.method>> IN
  IF key \in DOMAIN paths
  THEN [paths EXCEPT ![key] = AppendAlternative(@, OperationFor(doc))]
  ELSE (key :> OperationFor(doc)) @@ paths

ToOpenApi(docs) ==
  FoldLeft(InsertOperation, <<>>, SelectSeq(docs, LAMBDA doc : doc.raw = None))

\* Mutant: only request bodies have schemas.
SchemaDocsOfRequests(docs) ==
  FlattenSeq([i \in DOMAIN docs |->
    IF docs[i].body = None THEN <<>> ELSE <<docs[i].body.schema>>])

SchemaDocs(docs) ==
  FlattenSeq([i \in DOMAIN docs |->
    (IF docs[i].body = None THEN <<>> ELSE <<docs[i].body.schema>>)
    \o IF docs[i].schema = None THEN <<>> ELSE <<docs[i].schema>>])

\* component_schemas: the first of a name.
ComponentSchemas(docs) ==
  LET named == SelectSeq(SchemaDocs(docs),
                 LAMBDA schema : schema.component # None /\ schema.shape # None)
  IN FoldLeft(LAMBDA found, schema : found @@ (schema.component :> schema.shape),
              <<>>, named)

CheckOperationIds(docs) ==
  \A i, j \in DOMAIN docs :
    i # j /\ docs[i].operationId # None => docs[i].operationId # docs[j].operationId

CheckSchemaComponents(docs) ==
  LET schemas == { schema \in ToSet(SchemaDocs(docs)) :
                     schema.component # None /\ schema.shape # None }
  IN \A a, b \in schemas : a.component = b.component => a.shape = b.shape

\* to_checked_openapi succeeds.
Checked(docs) == CheckOperationIds(docs) /\ CheckSchemaComponents(docs)
=============================================================================
