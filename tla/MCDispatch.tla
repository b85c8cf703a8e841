----------------------------- MODULE MCDispatch -----------------------------
(***************************************************************************)
(* Dispatch over two families of APIs: every way to bracket four of nine   *)
(* endpoints that compete for the same paths, and long chains, each beside *)
(* a more modest endpoint on its path; with the requests that tell them    *)
(* apart.                                                                  *)
(***************************************************************************)
EXTENDS ServedApis, RouterBuild

A == <<"a">>
B == <<"b">>
One == <<"1">>
MCSegments == {A, B, One, <<>>}

H1 == [host |-> "h1", port |-> <<>>]
H1Port == [host |-> "h1", port |-> <<"8443">>]
H1Broken == [host |-> "h1", port |-> <<"notaport">>]

Text(c) == <<c>>
AnyText == MCSegments

Untyped == [component |-> None, shape |-> "string"]

Id(ok) == Capture(Text("id"), ok)
JsonBody == ReqBody(<<"json">>, {"ok"}, Untyped)
LenientBody(type) == ReqBody(<<type>>, {"ok", "garbled"}, Untyped)

Number == {One}

Serving(id, method, steps) ==
  Endpoint(id, steps, Verb(method, 200, {"json"}, Untyped))

-----------------------------------------------------------------------------
AB == Serving("AB", "GET", <<Path(A), Path(B)>>)
ABPost == Serving("ABPost", "POST", <<Path(A), Path(B), JsonBody>>)
ABHost == Serving("ABHost", "GET", <<Host(H1), Path(A), Path(B)>>)
ABPort == Serving("ABPort", "GET", <<Path(A), Host(H1Port), Path(B)>>)
IntB == Serving("IntB", "GET", <<Id(Number), Path(B)>>)
TextB == Serving("TextB", "GET", <<Id(AnyText), Path(B)>>)
AText == Serving("AText", "POST", <<Path(A), Id(AnyText)>>)
AllInts == Serving("AllInts", "GET", <<Path(A), CaptureAll(Text("rest"), Number)>>)
AllTwice == Serving("AllTwice", "GET",
  <<Path(A), CaptureAll(Text("rest"), Number), CaptureAll(Text("more"), Number)>>)
Beyond == Serving("Beyond", "GET", <<Path(A), CaptureAll(Text("rest"), Number), Path(B)>>)
RawA == Endpoint("RawA", <<Host(H1), Path(A)>>, RawTerminal("rawM"))
Home == Endpoint("Home", <<>>, RawTerminal("raw"))

Orders ==
  { <<AB, ABPost, TextB>>,
    <<IntB, AB, TextB, ABPost>>,
    <<ABPost, TextB, AB, IntB>>,
    <<ABHost, AText, ABPort, TextB>>,
    <<TextB, RawA, ABPost, AllInts>>,
    <<AllInts, AText, RawA, AB>>,
    <<RawA, AText, AB, Home>>,
    <<AText, IntB, TextB, AllInts>>,
    <<Beyond, AllTwice, TextB>> }

-----------------------------------------------------------------------------
\* Two users with one password each; the admin context knows both again.
AdminContext ==
  [auth |-> [User |-> [alice |-> "alice as admin", root |-> "root as admin"]],
   resources |-> [Db |-> "admin db"],
   named |-> <<>>]

MCContext ==
  [auth |-> [User |-> [alice |-> "alice", root |-> "root"],
             Admin |-> [root |-> "the admin"]],
   resources |-> [Db |-> "db"],
   named |-> [admin |-> AdminContext]]

Long(id, inner) == Serving(id, "POST", <<Path(A)>> \o inner)

\* The same user type is authenticated outside and inside the admin context.
Nested == Long("Nested",
  <<Auth("User", 401), Id(Number), Named("admin"), Auth("User", 403),
    Resource("Db"), QueryParam(Text("q"), TRUE, {One}), JsonBody>>)

\* The resource comes before the named context, the body before the auth.
BodyFirst == Long("BodyFirst",
  <<LenientBody("json"), Resource("Db"), Id(AnyText), Named("nowhere"),
    Header("X", FALSE, {One}), Auth("Admin", 401), Named("admin"), Info>>)

Streamed == Long("Streamed",
  <<Id(Number), StreamBody("json", Untyped), Auth("User", 401),
    QueryParam(Text("q"), TRUE, {One, B})>>)

\* Chains that type-check and can never be served.
StreamThenBody == Long("StreamThenBody",
  <<Id(AnyText), StreamBody("json", Untyped), JsonBody>>)
BodyThenStream == Long("BodyThenStream",
  <<Id(AnyText), JsonBody, StreamBody("json", Untyped)>>)
TwoBodies == Long("TwoBodies",
  <<Id(AnyText), JsonBody, ReqBody(<<"text">>, {"ok"}, Untyped)>>)
NoCheck == Long("NoCheck",
  <<Id(AnyText), Auth("User", 401), Auth("Ghost", 401), JsonBody>>)
NoProvider == Endpoint("NoProvider",
  <<Path(A), CaptureAll(Text("rest"), Number), Resource("Cache")>>,
  NoContentVerb("POST"))

\* Every way to read the query string at once, and a strict header.
Searching == Long("Searching",
  <<Id(AnyText), QueryParams(Text("q"), {One}), QueryFlag(Text("q")),
    DeepQuery(Text("d"), {<<A>>}), QueryString,
    QueryParam(Text("q"), FALSE, {One, <<>>}), Header("X", TRUE, {One})>>)

Fallback == Endpoint("Fallback",
  <<Path(A), Id(AnyText), LenientBody("text"), QueryParam(Text("q"), FALSE, {One, B})>>,
  Post({"text"}, Untyped))

NoContext == [auth |-> <<>>, resources |-> <<>>, named |-> <<>>]

\* What is served, and in which context.
Bracketed == UNION {Bracketings(o) : o \in Orders}
Piped ==
  {Alt(ep, Fallback) : ep \in {Nested, BodyFirst, Streamed, StreamThenBody,
                              BodyThenStream, TwoBodies, NoCheck, NoProvider, Searching}}

MCApis == {Serve(w, NoContext) : w \in Bracketed} \cup {Serve(w, MCContext) : w \in Piped}

MCWritten == UNION {PartsOf(w) : w \in Bracketed \cup Piped}
MCRouterOf == [w \in MCWritten |-> IntoRouter(w)]
MCListOf == [w \in MCWritten |-> EndpointsOf(w)]
MCMerged ==
  [p \in UNION {ChoicesIn(MCRouterOf[w.left], MCRouterOf[w.right]) :
                  w \in {v \in MCWritten : v.a = "alt"}} |-> ChoiceOf(p[1], p[2])]

MCNodes == UNION {Subtrees(a.router) : a \in MCApis}
MCLeaves == LeavesOf(MCNodes)

-----------------------------------------------------------------------------
Plain(path, method) ==
  [path |-> path, method |-> method, authority |-> None,
   headers |-> <<[name |-> "Host", value |-> H1]>>, accept |-> {"json"},
   ctype |-> "json", creds |-> "nobody", query |-> <<>>, raw |-> <<>>, body |-> "ok"]

Asking(r, raw) == [r EXCEPT !.raw = <<raw>>, !.query = ParsePairs(raw)]

\* q=1, q=b, q&q=1 and d[a]=1&q[]=1&q
Raws == {Literal(<<"q", "=", "1">>), Literal(<<"q", "=", "b">>),
         Literal(<<"q", "&", "q", "=", "1">>),
         Literal(<<"d", "[", "a", "]", "=", "1", "&", "q", "[", "]", "=", "1", "&", "q">>)}

Routed ==
  LET paths == {<<<<>>>>, <<A>>, <<A, <<>>>>, <<A, B>>, <<A, B, <<>>>>,
                <<One, B>>, <<A, One>>, <<B, B>>, <<A, <<>>, B>>}
  IN {Plain(p, m) : p \in paths, m \in {"GET", "HEAD"}}
     \cup {[Plain(p, "POST") EXCEPT !.headers = h, !.accept = a, !.body = b] :
             p \in {<<A, B>>, <<A, One>>},
             h \in {<<>>, <<[name |-> "Host", value |-> H1]>>},
             a \in {{"json"}, {"text"}}, b \in {"ok", "garbled", "tooLarge"}}
     \cup {[Plain(p, "GET") EXCEPT !.headers = <<>>, !.accept = {"text"},
                                   !.body = "broken"] : p \in paths}
     \cup {[Plain(<<A, B>>, "GET") EXCEPT !.headers = h, !.authority = n] :
             h \in {<<>>, <<[name |-> "Host", value |-> H1Port]>>,
                    <<[name |-> "Host", value |-> H1Broken]>>},
             n \in {None, H1, H1Port}}

\* Who asks with which body.
Askers == {<<"nobody", "ok">>, <<"alice", "ok">>, <<"root", "ok">>,
           <<"root", "garbled">>, <<"root", "broken">>}

Pipelined ==
  {[Plain(p, "POST") EXCEPT !.accept = a, !.ctype = t, !.creds = u[1], !.body = u[2]] :
     p \in {<<A, One>>, <<A, B>>}, a \in {{"json"}, {"text"}, {"json", "text"}},
     t \in {"json", "text"}, u \in Askers}

\* Parameters of an otherwise good request.
Asked ==
  LET good == {[Plain(<<A, One>>, "POST") EXCEPT !.creds = u] : u \in {"alice", "root"}}
  IN {Asking(r, raw) : r \in good, raw \in Raws}
     \cup {[r EXCEPT !.headers = <<[name |-> "X", value |-> One],
                                  [name |-> "X", value |-> B]>>] : r \in good}

\* What only Searching tells apart: a strict header and malformed keys.
Searched ==
  {Asking([Plain(<<A, B>>, "POST") EXCEPT
             !.headers = <<[name |-> "X", value |-> v]>>], raw) :
     v \in {One, B},
     raw \in Raws \cup {Literal(<<"d", "[", "a">>), Literal(<<"d", "[", "b", "]">>),
                        Literal(<<"d", "[", "a", "]", "=", "1", "&", "q", "=">>)}}

MCRequests == Routed \cup Pipelined \cup Asked \cup Searched
=============================================================================
