-------------------------- MODULE Interpretations --------------------------
(***************************************************************************)
(* One API description, all that is made of it: the server and the client  *)
(* of a call (Calls) and the documents a reader has of both (Documents).   *)
(***************************************************************************)
EXTENDS Calls, Documents

Entries == DocsOf(asked.written)

OpenApiEntries == OpenApiDocsOf(asked.written)

\* The operations under a path and a method.
OperationsAt(paths, template, method) ==
  IF <<template, method>> \notin DOMAIN paths THEN {}
  ELSE LET first == paths[<<template, method>>] IN
       {first} \cup ToSet(first.alternatives)

\* A template's segments, each a literal or a name in braces; only the last
\* name, that of a CaptureAll, stands for several segments.
Fits(template, ep, segments) ==
  LET parts == PathSegments(Literal(template))
      isName(part) == part # <<>> /\ part[1] = "{"
  IN /\ IF \E i \in DOMAIN ep.steps : ep.steps[i].c = "CaptureAll"
        THEN Len(parts) <= Len(segments) /\ isName(Last(parts))
        ELSE Len(parts) = Len(segments)
     /\ \A i \in DOMAIN parts : isName(parts[i]) \/ parts[i] = segments[i]

\* Every step of the path is one segment of the template.
HasTemplate(ask) ==
  \A i \in DOMAIN ask.ep.steps :
    /\ ask.ep.steps[i].c = "Path" => "/" \notin ToSet(ask.ep.steps[i].seg)
    /\ ask.ep.steps[i].c = "CaptureAll" => ask.args[i] # <<>>

\* A query key that the operation's reader has been told of.
Told(operation, key) ==
  \/ operation.queryString # None
  \/ \E i \in DOMAIN operation.parameters :
       LET parameter == operation.parameters[i] IN
       \/ parameter.in = "query"
          /\ key \in {parameter.name, parameter.name \o <<"[", "]">>}
       \/ parameter.in = "deepObject" /\ IsDeepKey(parameter.name, key)

\* No endpoint written before this one and merged with it has a body.
BodyIsTold(ep) ==
  LET key(e) == DocKey(DocsOf(e)[1])
      self == CHOOSE i \in DOMAIN api.endpoints : api.endpoints[i].id = ep.id
  IN \A i \in 1..(self - 1) :
       key(api.endpoints[i]) = key(ep) => DocsOf(api.endpoints[i])[1].body = None

\* The essence of a media type: type/subtype with its suffix, without parameters.
Essence(media) == [type |-> media.type, subtype |-> <<media.subtype, media.suffix>>]

\* A content object has a key for a media type: its essence, but without a suffix.
Shows(content, media) == Essence([media EXCEPT !.suffix = ""]) \in content

Describes(operation, built, r) ==
  /\ LET hosts == SelectSeq(built.headers, LAMBDA field : field.name = "Host") IN
     IF operation.host = None THEN hosts = <<>>
     ELSE hosts # <<>> /\ hosts[1].value = operation.host.name
  /\ \A i \in DOMAIN r.query : Told(operation, r.query[i][1])
  /\ \A i \in DOMAIN built.headers : built.headers[i].name # "Host" =>
       \E n \in DOMAIN operation.parameters :
         /\ operation.parameters[n].in = "header"
         /\ operation.parameters[n].name = built.headers[i].name
  /\ \A media \in built.accept : Shows(operation.responses.content, media)
  /\ built.body # None \/ built.stream # None => operation.body # None
  /\ BodyIsTold(asked.ep) =>
       /\ built.body # None => Shows(operation.body.content, built.body.type)
       /\ built.stream # None => /\ Shows(operation.body.content, built.stream)
                                 /\ operation.body.streaming

\* A typed client was served by its endpoint.
Served ==
  /\ pc = "done" /\ asked.via = "client" /\ OwnHandlerRan /\ ~IsRaw(asked.ep)
  /\ HasTemplate(asked)

\* The OpenAPI document has an operation, where the call went, of which this holds.
InDocument(Holds(_)) ==
  LET paths == ToOpenApi(OpenApiEntries) IN
  \E key \in DOMAIN paths :
    /\ key[2] = req.method
    /\ Fits(key[1], asked.ep, req.path)
    /\ \E operation \in OperationsAt(paths, key[1], key[2]) : Holds(operation)

(***************************************************************************)
(* Whatever a typed client can get served by its endpoint, the OpenAPI     *)
(* document of the same API lets its reader send too: there is an          *)
(* operation for its method whose template fits the path that was sent,    *)
(* for its host, and with every query key, header and content type in it,  *)
(* although docs entries are merged by key and operations by template.     *)
(* Left out are the paths a template cannot show: a literal segment with a *)
(* slash in it, and a CaptureAll that takes no segment.  A media type with *)
(* a suffix, vnd.api+json, is sent and served, and the document shows      *)
(* another, vnd.api, in its place: media_key leaves the suffix off.        *)
(***************************************************************************)
DocumentedAsCalled ==
  Served => InDocument(LAMBDA operation : Describes(operation, Built(asked), req))

(***************************************************************************)
(* The two walks are written twice, combinator by combinator.  Apart from  *)
(* the schemas they must say the same.                                     *)
(***************************************************************************)
DocsAndOpenApiAgree ==
  pc = "build" =>
    LET plain(doc) ==
          [doc EXCEPT !.schema = None,
                      !.body = IF @ = None THEN None ELSE [@ EXCEPT !.schema = None]]
    IN [i \in DOMAIN Entries |-> plain(Entries[i])]
         = [i \in DOMAIN OpenApiEntries |-> plain(OpenApiEntries[i])]

(***************************************************************************)
(* However the alternatives are bracketed, and although extend merges what *)
(* is merged already, the entries are those of pushing the endpoints one   *)
(* after the other; and each entry that is not raw is one operation, of    *)
(* its host, under its template and method, however many share them.       *)
(***************************************************************************)
EveryEndpointIsListed ==
  pc = "build" =>
    LET eps == EndpointsOf(asked.written)
        paths == ToOpenApi(OpenApiEntries)
        entries == SelectSeq(OpenApiEntries, LAMBDA doc : doc.raw = None)
        listed(operation) == IF operation.alternatives = <<>> THEN 1
                             ELSE Len(operation.alternatives)
    IN /\ Entries = FoldLeft(LAMBDA docs, ep : Push(docs, DocsOf(ep)[1]), <<>>, eps)
       /\ \A i \in DOMAIN eps : ~IsRaw(eps[i]) =>
            LET doc == OpenApiDocsOf(eps[i])[1] IN
            \E operation \in OperationsAt(paths, Template(doc.path), doc.method) :
              operation.host = doc.host
       /\ MapThenSumSet(LAMBDA key : listed(paths[key]), DOMAIN paths) = Len(entries)

(***************************************************************************)
(* A document that to_checked_openapi lets through has no dangling or      *)
(* misleading reference: what a body or a response refers to is defined,   *)
(* and as the schema of its own type, although entries with their bodies   *)
(* have been merged before the check.                                      *)
(***************************************************************************)
CheckedDocumentsResolve ==
  pc = "build" /\ Checked(OpenApiEntries) =>
    LET schemas == ComponentSchemas(OpenApiEntries)
        resolves(schema) ==
          schema # None /\ schema.component # None =>
            /\ schema.component \in DOMAIN schemas
            /\ schemas[schema.component] = schema.shape
    IN \A i \in DOMAIN OpenApiEntries :
         LET doc == OpenApiEntries[i] IN
         /\ doc.body # None => resolves(doc.body.schema)
         /\ resolves(doc.schema)
=============================================================================
