------------------------------- MODULE Params -------------------------------
(***************************************************************************)
(* What the combinators that read the query string or a header find in a   *)
(* request (extract/extractors.rs, extract/deep_query.rs), and the host it *)
(* is for (request.rs, wrappers.rs).                                       *)
(*                                                                         *)
(* Of a request, query is its decoded pairs, raw the text they came from   *)
(* (<<>> or <<wire>>), headers its [name, value] fields in order, and      *)
(* authority the one of an absolute-form target, or None.                  *)
(***************************************************************************)
EXTENDS RouteResult, Url

ParamCombinators ==
  {"QueryParam", "QueryParams", "QueryFlag", "QueryString", "DeepQuery", "Header"}

\* lookup_query and Servant's join: the first pair decides, a bare key is absent.
QueryValue(r, name) ==
  LET found == SelectSeq(r.query, LAMBDA pair : pair[1] = name) IN
  IF found = <<>> \/ Len(found[1]) = 1 THEN None ELSE found[1][2]

\* QueryParams: name and name[], in request order, without valueless keys.
QueryValues(r, name) ==
  LET found == SelectSeq(r.query,
                 LAMBDA pair : pair[1] \in {name, name \o <<"[", "]">>} /\ Len(pair) = 2)
  IN [i \in DOMAIN found |-> found[i][2]]

\* QueryFlag: present and not said to be anything but true.
FlagValue(r, name) ==
  LET found == SelectSeq(r.query, LAMBDA pair : pair[1] = name) IN
  found # <<>> /\ (Len(found[1]) = 2 => found[1][2] \in {<<>>, <<"true">>, <<"1">>})

\* HeaderMap::get: the first field of this name.
HeaderValue(r, name) ==
  LET found == SelectSeq(r.headers, LAMBDA field : field.name = name) IN
  IF found = <<>> THEN None ELSE found[1].value

\* The raw value a combinator finds, None if it is absent.
ParamValue(step, r) ==
  CASE step.c = "QueryParam" -> QueryValue(r, step.name)
    [] step.c = "QueryParams" -> QueryValues(r, step.name)
    [] step.c = "QueryFlag" -> FlagValue(r, step.name)
    [] step.c = "QueryString" -> [raw |-> r.raw, pairs |-> r.query]
    [] step.c = "DeepQuery" -> ParseDeepQuery(step.name, r.query)
    [] step.c = "Header" -> HeaderValue(r, step.name)

\* ArgShape: an absent argument is refused only by Required.
MayBeAbsent(step) == step.c \in {"QueryParam", "Header"} => ~step.required

\* from_query_param of each element, and FromDeepQuery of a type with fields.
Parses(step, value) ==
  CASE step.c \in {"QueryParam", "Header"} -> value \in step.ok
    [] step.c = "QueryParams" -> \A i \in DOMAIN value : value[i] \in step.ok
    [] step.c = "DeepQuery" ->
         /\ value # Malformed
         /\ \A field \in step.fields : \E i \in DOMAIN value :
              value[i].path = field /\ value[i].value # <<>>
    [] OTHER -> TRUE

\* RequestData::host_authority: the Host header before the URI's authority.
HostAuthority(r) ==
  LET header == HeaderValue(r, "Host") IN
  IF header # None THEN header ELSE r.authority

\* Host::host_check of one combinator
HostAccepts(step, r) ==
  /\ ParseAuthority(step.name) # Malformed
  /\ HostAuthority(r) # None
  /\ MatchesAuthority(step.name, HostAuthority(r))
=============================================================================
