------------------------- MODULE MCInterpretations -------------------------
(***************************************************************************)
(* Calls of every endpoint of a few APIs, with texts that a path, a query  *)
(* string or a header has trouble to carry, and with steps of one endpoint *)
(* that share a key; and the documents of the same APIs, bracketed in      *)
(* every way.                                                              *)
(***************************************************************************)
EXTENDS Interpretations

Text(c) == <<c>>

\* Nothing, words, separators, and what stands for something else.
Words == {<<>>, <<"x", "&", "y", "=">>, <<" ", "+">>}
Texts == Words \cup {Text("me"), Text("+"), Text(" "), <<"%", "2">>, <<"a", "/", "b">>,
                     <<"a", "]", "[", "b">>, <<"&", "=">>}
MCSegments == Texts

Free == [host |-> "api", port |-> <<>>]
OnPort == [host |-> "api", port |-> <<"8443">>]
Other == [host |-> "other", port |-> <<>>]
Broken == [host |-> "api", port |-> <<"notaport">>]
MCBase == OnPort

Str == [component |-> None, shape |-> "string"]
Pet == [component |-> "Pet", shape |-> "pet"]
OtherPet == [component |-> "Pet", shape |-> "another crate's pet"]

Json == Mime("application", "json", "", "")
PlainText == Mime("text", "plain", "", "utf-8")
EventStream == Mime("text", "event-stream", "", "")
VendorJson == Mime("application", "vnd.api", "json", "")
VendorXml == Mime("application", "vnd.api", "xml", "")

Lenient == {"ok", "garbled"}

-----------------------------------------------------------------------------
\* A person, by name; "me" is written before it or after it.
Me == Endpoint("Me", <<Summary("me"), Path(Text("users")), Path(Text("me"))>>,
               Get({Json}, Pet))
User == Endpoint("User",
  <<Path(Text("users")), Capture(Text("id"), Texts), OperationId("user"),
    Header("X", FALSE, Texts), Fragment("section")>>, Get({Json}, Pet))
AddUser == Endpoint("AddUser",
  <<Path(Text("users")), ReqBody(<<Json, PlainText>>, Lenient, Pet),
    QueryParam(Text("q"), TRUE, Texts), OperationId("addUser")>>,
  Post({Json, PlainText}, Pet))
Posts == Endpoint("Posts",
  <<Path(Text("users")), Capture(Text("id"), Texts), Path(Text("posts")),
    CaptureAll(Text("rest"), Texts)>>, NoContentVerb("DELETE"))

UsersCalls ==
  [Me |-> {<<None, None, None>>},
   User |-> {<<None, id, None, x, None>> :
               id \in Texts \cup {Malformed}, x \in {None, <<"x", "&", "y", "=">>}}
            \cup {<<None, Text("+"), None, x, None>> :
                    x \in {Malformed, <<"a", "nl">>, <<" ", "+">>}},
   AddUser |-> {<<None, body, q, None>> :
                  body \in {"ok", "garbled", "unrenderable", Malformed}, q \in Words},
   Posts |-> {<<None, id, None, rest>> :
                id \in Words,
                rest \in {<<>>} \cup {<<a, b>> : a, b \in {<<>>, <<"a", "/", "b">>}}}]

\* Two ways to search: what the steps share, and in which order they come.
Tags == QueryParams(Text("q"), Texts)
One == QueryParam(Text("q"), FALSE, Texts)
Flag == QueryFlag(Text("f"))
Deep == DeepQuery(Text("q"), {})
FlagDeep == DeepQuery(Text("f"), {})

Entry(path, value) == [path |-> path, value |-> value]
Pairs(pairs) == [raw |-> <<>>, pairs |-> pairs]

OneArgs == {None} \cup Words
TagsArgs == {<<>>} \cup {<<a, b>> : a, b \in Words}
DeepArgs == {<<>>, <<Entry(<<Text("a"), <<" ", "&">>>>, <<<<"+">>>>)>>,
             <<Entry(<<Text("a")>>, <<>>), Entry(<<<<"a", "]", "b">>>>, <<<<>>>>)>>}
StringArgs == {Pairs(<<>>), Pairs(<<<<Text("q"), <<"&", "=">>>>, <<Text("f")>>>>),
               [raw |-> <<Literal(<<"q", "=", "+">>)>>, pairs |-> <<<<Text("q"), Text(" ")>>>>]}

Search(id, steps) == Endpoint(id, <<Path(Text(id))>> \o steps, Get({Json}, Str))

SearchCalls ==
  [TagsFlag |-> {<<None, t, f, d>> : t \in TagsArgs, f \in BOOLEAN, d \in DeepArgs},
   OneTags |-> {<<None, q, t>> : q \in OneArgs, t \in TagsArgs},
   StringLast |-> {<<None, q, s>> : q \in OneArgs, s \in StringArgs},
   StringFirst |-> {<<None, s, q>> : q \in OneArgs, s \in StringArgs},
   DeepOne |-> {<<None, d, q>> : d \in DeepArgs, q \in OneArgs}]

SearchApi ==
  <<Search("TagsFlag", <<Tags, Flag, FlagDeep>>), Search("OneTags", <<One, Tags>>),
    Search("StringLast", <<One, QueryString>>),
    Search("StringFirst", <<QueryString, One>>), Search("DeepOne", <<Deep, One>>)>>

-----------------------------------------------------------------------------
\* One path under several hosts, and two that are the same to its documents.
AnyHost == Endpoint("AnyHost",
  <<Path(Text("h")), Capture(Text("id"), Texts), ReqBody(<<PlainText>>, Lenient, OtherPet)>>,
  Post({Json}, Str))
FreeHost == Endpoint("FreeHost",
  <<Host(Free), Path(Text("h")), Capture(Text("id"), Texts),
    OperationId("free"), ReqBody(<<Json>>, Lenient, Pet)>>, Post({Json}, Pet))
OtherHost == Endpoint("OtherHost",
  <<Path(Text("h")), Host(Other), Capture(Text("name"), Texts)>>, Post({PlainText}, OtherPet))
SameKey == Endpoint("SameKey",
  <<Path(Text("h")), Capture(Text("id"), {Text("me")}), OperationId("free"),
    Header("X", TRUE, Texts), One>>, Post({PlainText}, Pet))
BrokenHost == Endpoint("BrokenHost", <<Host(Broken), Path(Text("h"))>>, Get({Json}, Str))

HostCalls ==
  [AnyHost |-> {<<None, Text("me"), "ok">>, <<None, Text("+"), "garbled">>},
   FreeHost |-> {<<None, None, Text("me"), None, b>> : b \in Lenient},
   OtherHost |-> {<<None, None, Text("me")>>},
   SameKey |-> {<<None, Text("me"), None, Text("+"), q>> : q \in OneArgs},
   BrokenHost |-> {<<None, None>>}]

\* Streams, raw endpoints, and descriptions around an authentication.
Upload == Endpoint("Upload",
  <<Path(Text("up")), Description("up"), StreamBody(Json, Pet)>>, Post({Json}, Str))
Watch == Endpoint("Watch",
  <<Path(<<"a", "/", "b">>), Description("watch")>>, StreamVerb("GET", 200, EventStream, Pet))
Files == Endpoint("Files", <<Path(Text("up"))>>, RawTerminal("rawM"))
Secret == Endpoint("Secret",
  <<Description("secret"), Auth("User", 401), Path(Text("secret")), Resource("Db"), Info>>,
  UVerb("GET", {Json}, Str))
Hidden == Endpoint("Hidden",
  <<Auth("User", 401), Named("admin"), Description("hidden"), Path(Text("hidden"))>>,
  NoContentVerb("GET"))

\* Two of its three media types have one key.
Import == Endpoint("Import",
  <<Path(Text("in")), ReqBody(<<VendorJson, VendorXml, PlainText>>, Lenient, Pet)>>,
  Post({PlainText}, Str))

MixedCalls ==
  [Import |-> {<<None, body>> : body \in Lenient}, Upload |-> {<<None, None, "stream">>},
   Watch |-> {<<None, None>>}, Files |-> {<<None>>},
   Secret |-> {}, Hidden |-> {}]

-----------------------------------------------------------------------------
Families ==
  {<<eps, UsersCalls>> : eps \in {<<Me, User, AddUser, Posts>>, <<User, Me, Posts, AddUser>>}}
  \cup {<<SearchApi, SearchCalls>>}
  \cup {<<eps, HostCalls>> :
          eps \in {<<AnyHost, FreeHost, OtherHost, SameKey>>,
                   <<SameKey, FreeHost, AnyHost>>, <<OtherHost, BrokenHost, FreeHost>>}}
  \cup {<<eps, MixedCalls>> :
          eps \in {<<Upload, Watch, Files, Secret>>, <<Files, Hidden, Upload, Watch>>,
                   <<Import, Watch>>}}

Asking(written, ep, via, method, a, streams) ==
  [written |-> written, ep |-> ep, via |-> via, method |-> method, args |-> a,
   streams |-> streams]

\* Every way to call an endpoint, and a transport that cannot stream.
Ways(written, ep, a) ==
  {Asking(written, ep, "client", m, a, TRUE) :
     m \in IF IsRaw(ep) THEN {"GET", "PUT"} ELSE {ep.method}}
  \cup {Asking(written, ep, "link", "GET", a, TRUE),
        Asking(written, ep, "plainLink", "HEAD", a, TRUE)}
  \cup IF ep.id = "Upload" THEN {Asking(written, ep, "client", "POST", a, FALSE)} ELSE {}

\* alt_all!: everything is asked of the APIs that nest to the right.
RightNested(eps) ==
  FoldRight(Alt, Front(eps), Last(eps))

\* Of the others, one call of their first endpoint.
MCAsks ==
  UNION {UNION {UNION {Ways(RightNested(f[1]), ep, a) : a \in f[2][ep.id]} : ep \in ToSet(f[1])} :
         f \in Families}
  \cup UNION {{Asking(written, f[1][1], "client", f[1][1].method,
                      CHOOSE a \in f[2][f[1][1].id] : TRUE, TRUE) :
                 written \in Bracketings(f[1])} : f \in Families}

MCApis == {Serve(ask.written, NoContext) : ask \in MCAsks}
MCNodes == UNION {Subtrees(a.router) : a \in MCApis}
MCLeaves == LeavesOf(MCNodes)
MCRequests == {}
=============================================================================
