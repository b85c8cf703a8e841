--------------------------- MODULE MCTypedExchange ---------------------------
(***************************************************************************)
(* Instances of TypedExchange: lists with a marker of two media types,     *)
(* with two markers that differ in parameters only, every terminal and     *)
(* every kind of arm, arms that share a status or have one of the          *)
(* server's; Accept headers with qualities, exclusions, wildcards and      *)
(* parts that are dropped.                                                 *)
(***************************************************************************)
EXTENDS TypedExchange

MCTokens == STRING

Mime(type, subtype, suffix, params) ==
  [type |-> type, subtype |-> subtype, suffix |-> suffix, params |-> params]

AppJson == Mime("application", "json", "", "")
TextUtf8 == Mime("text", "plain", "", "utf-8")
TextBare == Mime("text", "plain", "", "")

Marker(codec, media) == [codec |-> codec, media |-> media]

Json == Marker("json", <<AppJson>>)
Plain == Marker("plain", <<TextUtf8>>)
Bare == Marker("bare", <<TextBare>>)
Octets == Marker("octets", <<OctetStream>>)
Yaml == Marker("yaml", <<Mime("application", "yaml", "", ""), Mime("text", "yaml", "", "")>>)
Vendor == Marker("vendor", <<Mime("application", "vnd.api", "json", "")>>)

Arm(kind, status, marker) == [kind |-> kind, status |-> status, marker |-> marker]
Ok200 == <<Arm("negotiated", 200, None)>>

Endpoint(terminal, method, ctypes, arms, body) ==
  [terminal |-> terminal, method |-> method, ctypes |-> ctypes, arms |-> arms,
   body |-> body]

Lists == {<<Json>>, <<Json, Plain>>, <<Bare, Plain, Json>>, <<Yaml, Json>>, <<Octets>>}

Unions ==
  {<<Arm("negotiated", 200, None), Arm("fixed", 202, Json), Arm("noBody", 204, None)>>,
   <<Arm("fixed", 201, Yaml), Arm("stream", 203, Octets)>>,
   <<Arm("negotiated", 200, None), Arm("noBody", 200, None)>>,
   <<Arm("negotiated", 200, None), Arm("noBody", 406, None), Arm("fixed", 500, Json)>>}

MCEndpoints ==
  {Endpoint("verb", "GET", l, Ok200, <<>>) : l \in Lists}
  \cup {Endpoint("verb", "POST", <<Json>>, Ok200, l) : l \in Lists}
  \cup {Endpoint("verb", "HEAD", <<Json>>, Ok200, <<>>)}
  \cup {Endpoint("uverb", "GET", l, u, <<>>) : l \in {<<Json, Plain>>, <<Yaml, Json>>}, u \in Unions}
  \cup {Endpoint("stream", "GET", <<>>, <<Arm("stream", 200, m)>>, <<>>) : m \in {Json, Yaml}}
  \cup {Endpoint("noContent", "DELETE", <<>>, <<Arm("noBody", 204, None)>>, <<>>)}

\* A media type with a suffix, alone and beside another.
MCVendorEndpoints ==
  {Endpoint("verb", "GET", l, Ok200, <<>>) : l \in {<<Vendor>>, <<Json, Vendor>>}}
  \cup {Endpoint("verb", "POST", <<Json>>, Ok200, <<Vendor>>)}

MediaRange(type, subtype, qs) == [type |-> type, subtype |-> <<subtype, "">>, qs |-> qs]
ExactJson(qs) == MediaRange("application", "json", qs)
ExactText(qs) == MediaRange("text", "plain", qs)
AnyText(qs) == MediaRange("text", "*", qs)
All(qs) == MediaRange("*", "*", qs)

MCParts ==
  {None, ExactJson(<<>>), ExactJson(<<0>>), ExactJson(<<3>>), ExactText(<<5>>),
   ExactText(<<3, Malformed>>), AnyText(<<8>>), AnyText(<<0>>), All(<<>>), All(<<5, 3>>),
   MediaRange("*", "json", <<>>)}

MCAccepts ==
  {None, <<>>}
  \cup {<<p>> : p \in MCParts}
  \cup {<<p, q>> : p, q \in MCParts}
  \cup {<<ExactText(<<5>>), AnyText(<<8>>), All(<<3>>)>>,
        <<ExactJson(<<3>>), ExactJson(<<0>>), All(<<>>)>>}

MCContentTypes ==
  {None, Malformed, AppJson, TextBare, TextUtf8, Mime("text", "yaml", "", "utf-8"),
   Mime("*", "*", "", ""), Mime("application", "vnd.api", "xml", "")}
=============================================================================
