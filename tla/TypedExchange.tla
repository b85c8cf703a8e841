---------------------------- MODULE TypedExchange ----------------------------
(***************************************************************************)
(* One call of an endpoint, from the arguments the caller gives to the     *)
(* value it gets: the generated client builds the request                  *)
(* (client/build.rs, runclient.rs), EndpointLeaf::call negotiates, reads   *)
(* the body, runs the handler and renders its result (handler.rs,          *)
(* extract/terminal.rs, uverb/render.rs), and the client decodes the       *)
(* response (client/decode.rs, client/streaming.rs, uverb/decode.rs).      *)
(* RunClient is a trait: a transport of another make may send an Accept or *)
(* Content-Type of its own, or none, and the client decodes what comes.    *)
(*                                                                         *)
(* An endpoint is [terminal, method, ctypes, arms, body]: the terminal is  *)
(* "verb", "uverb", "stream" or "noContent"; arms are what its handler may *)
(* return, one for all terminals but UVerb; body is the content-type list  *)
(* of its ReqBody, <<>> without one. An arm is [kind, status, marker].     *)
(* Bytes are known by the codec that wrote them.                           *)
(***************************************************************************)
EXTENDS Negotiation

CONSTANTS
  Endpoints,      \* the APIs called
  Accepts,        \* what other transports send as Accept
  ContentTypes,   \* and as Content-Type: None, Malformed or a media type
  ErrorStatuses   \* what handlers fail with

Arms ==
  [kind : {"negotiated", "fixed", "stream", "noBody"}, status : Nat,
   marker : MarkerTypes \cup {None}]

\* Content-type lists are tuples of at least one type (content/lists.rs:102).
ASSUME EndpointsAreTyped ==
  \A e \in Endpoints :
    /\ e.terminal \in {"verb", "uverb", "stream", "noContent"}
    /\ e.ctypes \in Seq(MarkerTypes) /\ e.body \in Seq(MarkerTypes)
    /\ e.terminal \in {"verb", "uverb"} => e.ctypes # <<>>
    /\ e.arms \in Seq(Arms)
    /\ \A k \in DOMAIN e.arms :
         e.arms[k].kind \in {"fixed", "stream"} => e.arms[k].marker # None

\* Only a UVerb has a choice of arms; the types of the others fix theirs.
ASSUME ArmsOfTerminals ==
  \A e \in Endpoints :
    /\ e.terminal # "uverb" => Len(e.arms) = 1
    /\ \A k \in DOMAIN e.arms :
         /\ e.terminal = "verb" => e.arms[k].kind = "negotiated"
         /\ e.terminal = "stream" => e.arms[k].kind = "stream"
         /\ e.terminal = "noContent" => e.arms[k].kind = "noBody" /\ e.arms[k].status = 204

\* What a header is parsed to.
ASSUME HeadersAreTyped ==
  /\ Accepts \subseteq {None} \cup Seq({None} \cup MediaRanges)
  /\ ContentTypes \subseteq {None, Malformed} \cup Mimes

VARIABLES
  ep,       \* the endpoint
  req,      \* the request, as the server sees it
  pc,       \* where the call is
  read,     \* the codec the request body was read with
  ran,      \* the arm the handler returned, 0 for an error, or None
  resp,     \* the response; reason says how it came about
  result    \* what the caller is given

vars == <<ep, req, pc, read, ran, resp, result>>

OctetStream ==
  [type |-> "application", subtype |-> "octet-stream", suffix |-> "", params |-> ""]

Response(status, ctype, codec, reason) ==
  [status |-> status, ctype |-> ctype, codec |-> codec, reason |-> reason]

Init ==
  /\ ep \in Endpoints
  /\ req = [own |-> TRUE, head |-> FALSE, accept |-> None, ctype |-> None, codec |-> None]
  /\ pc = "call"
  /\ read = None /\ ran = None /\ resp = None /\ result = None

Result(r) ==
  /\ result' = r
  /\ pc' = "done"

-----------------------------------------------------------------------------
(* The caller's side of the request *)

\* A media type as the client writes it into its Accept header.
AsRange(m) ==
  [type |-> m.type, subtype |-> <<m.subtype, m.suffix>>, qs |-> <<>>]

\* The media types build_request puts into accept.
OwnMediaTypes ==
  CASE ep.terminal = "noContent" -> <<>>
    [] ep.terminal = "stream" -> <<ep.arms[1].marker.media[1]>>
    [] OTHER -> AllMediaTypes(ep.ctypes)

\* Without media types no Accept header is sent.
OwnAccept ==
  IF OwnMediaTypes = <<>> THEN None
  ELSE [i \in DOMAIN OwnMediaTypes |-> AsRange(OwnMediaTypes[i])]

\* Mutant: a body is sent without its Content-Type.
CallUntyped ==
  /\ pc = "call"
  /\ req' = [own |-> TRUE, head |-> ep.method = "HEAD", accept |-> OwnAccept, ctype |-> None,
             codec |-> IF ep.body = <<>> THEN None ELSE RenderIndex(ep.body, 1)]
  /\ pc' = "sent"
  /\ UNCHANGED <<ep, read, ran, resp, result>>

(***************************************************************************)
(* The body is written in the primary content type; a body that does not   *)
(* serialize is an error before anything is sent.                          *)
(***************************************************************************)
Call ==
  /\ pc = "call"
  /\ \/ /\ req' = [own |-> TRUE, head |-> ep.method = "HEAD", accept |-> OwnAccept,
                   ctype |-> IF ep.body = <<>> THEN None ELSE AllMediaTypes(ep.body)[1],
                   codec |-> IF ep.body = <<>> THEN None ELSE RenderIndex(ep.body, 1)]
        /\ pc' = "sent"
        /\ UNCHANGED result
     \/ /\ ep.body # <<>>
        /\ Result([tag |-> "EncodeFailure"])
        /\ UNCHANGED req
  /\ UNCHANGED <<ep, read, ran, resp>>

\* The request of another transport; HEAD is served by the GET route.
OtherRequest ==
  /\ pc = "call"
  /\ \E accept \in Accepts, ctype \in ContentTypes, head \in BOOLEAN :
       /\ head = (ep.method = "HEAD") \/ ep.method = "GET"
       /\ req' = [own |-> FALSE, head |-> head, accept |-> accept, ctype |-> ctype,
                  codec |-> None]
  /\ pc' = "sent"
  /\ UNCHANGED <<ep, read, ran, resp, result>>

\* The connection fails, or the response is larger than the client's limit.
TransportFails ==
  /\ pc \in {"sent", "answered", "panicked"}
  /\ Result([tag |-> "ConnectionError"])
  /\ UNCHANGED <<ep, req, read, ran, resp>>

-----------------------------------------------------------------------------
(* The server's side *)

Respond(r) ==
  /\ resp' = IF req.head THEN [r EXCEPT !.codec = None] ELSE r
  /\ pc' = "answered"

Goto(next) ==
  /\ pc' = next
  /\ UNCHANGED resp

\* What accept_check negotiates over; a NoContentVerb does not negotiate.
Offered ==
  IF ep.terminal = "stream" THEN <<ep.arms[1].marker.media[1]>>
  ELSE AllMediaTypes(ep.ctypes)

\* Mutant: one media type that some range admits is enough, excluded or not.
CheckAcceptLax ==
  /\ pc = "sent"
  /\ \/ /\ ep.terminal = "noContent"
           \/ \E m \in ToSet(Offered) : RangeFor(Ranges(req.accept), m) # NoKey
        /\ Goto("accepted")
     \/ /\ ep.terminal # "noContent"
        /\ \A m \in ToSet(Offered) : RangeFor(Ranges(req.accept), m) = NoKey
        /\ Respond(Response(406, None, None, "refused"))
  /\ UNCHANGED <<ep, req, read, ran, result>>

CheckAccept ==
  /\ pc = "sent"
  /\ \/ /\ ep.terminal = "noContent" \/ NegotiateMediaIndex(req.accept, Offered) # None
        /\ Goto("accepted")
     \/ /\ ep.terminal # "noContent" /\ NegotiateMediaIndex(req.accept, Offered) = None
        /\ Respond(Response(406, None, None, "refused"))
  /\ UNCHANGED <<ep, req, read, ran, result>>

\* The media type of the request body; Malformed when it does not parse.
BodyType == IF req.ctype = None THEN OctetStream ELSE req.ctype

ContentTypeAcceptable ==
  /\ BodyType # Malformed
  /\ \E m \in ToSet(AllMediaTypes(ep.body)) : MediaMatches(m, BodyType)

CheckContentType ==
  /\ pc = "accepted"
  /\ \/ /\ ep.body = <<>> \/ ContentTypeAcceptable
        /\ Goto("typed")
     \/ /\ ep.body # <<>> /\ ~ContentTypeAcceptable
        /\ Respond(Response(415, None, None, "refused"))
  /\ UNCHANGED <<ep, req, read, ran, result>>

\* Mutant: the body is read with the primary codec, whatever its type.
ReadBodyPrimary ==
  /\ pc = "typed"
  /\ read' = IF ep.body = <<>> THEN None ELSE ep.body[1].codec
  /\ Goto("read")
  /\ UNCHANGED <<ep, req, ran, result>>

(***************************************************************************)
(* The body is read by the first codec whose type matches. Bytes it did    *)
(* not write may not parse.                                                *)
(***************************************************************************)
ReadBody ==
  /\ pc = "typed"
  /\ \/ /\ ep.body = <<>>
        /\ Goto("read")
        /\ UNCHANGED read
     \/ /\ ep.body # <<>>
        /\ LET codec == IF BodyType = Malformed THEN None ELSE Unrender(ep.body, BodyType)
           IN  \/ /\ codec = None
                  /\ Respond(Response(415, None, None, "readWithoutCodec"))
                  /\ UNCHANGED read
               \/ /\ codec # None
                  /\ read' = codec
                  /\ Goto("read")
               \/ /\ codec \notin {None, req.codec}
                  /\ read' = codec
                  /\ Respond(Response(400, None, None, "unparsable"))
  /\ UNCHANGED <<ep, req, ran, result>>

HandlerReturns ==
  /\ pc = "read"
  /\ ran' \in DOMAIN ep.arms
  /\ Goto("returned")
  /\ UNCHANGED <<ep, req, read, result>>

\* A ServerError of the handler is a response like any other.
HandlerFails ==
  /\ pc = "read"
  /\ ran' = 0
  /\ \E status \in ErrorStatuses : Respond(Response(status, None, None, "handlerError"))
  /\ UNCHANGED <<ep, req, read, result>>

Returned == ep.arms[ran]

\* The content types an arm is written in and read by.
Markers(arm) == IF arm.kind = "negotiated" THEN ep.ctypes ELSE <<arm.marker>>

(***************************************************************************)
(* A buffered arm is negotiated again, over its own content types. A Verb  *)
(* counts on the check made before its handler ran; in a UVerb what cannot *)
(* be negotiated is a 500 like a value that does not serialize.            *)
(***************************************************************************)
RenderBuffered ==
  /\ Returned.kind \in {"negotiated", "fixed"}
  /\ LET media == AllMediaTypes(Markers(Returned))
         idx == NegotiateMediaIndex(req.accept, media)
     IN  \/ /\ idx = None /\ ep.terminal = "verb"
            /\ Goto("panicked")
         \/ /\ idx = None /\ ep.terminal = "uverb"
            /\ Respond(Response(500, None, None, "notAcceptable"))
         \/ /\ idx # None
            /\ Respond(Response(Returned.status, media[idx],
                                RenderIndex(Markers(Returned), idx), "served"))
         \/ /\ idx # None
            /\ Respond(Response(500, None, None, "unserializable"))

\* A stream is sent in its one content type, and its items later.
RenderStream ==
  /\ Returned.kind = "stream"
  /\ Respond(Response(Returned.status, Returned.marker.media[1],
                      Returned.marker.codec, "served"))

RenderEmpty ==
  /\ Returned.kind = "noBody"
  /\ Respond(Response(Returned.status, None, None, "served"))

Render ==
  /\ pc = "returned"
  /\ RenderBuffered \/ RenderStream \/ RenderEmpty
  /\ UNCHANGED <<ep, req, read, ran, result>>

-----------------------------------------------------------------------------
(* The caller's side of the response *)

Fails(error) == Result([tag |-> error])

\* Bytes another codec wrote may not parse, or parse to something else.
Decode(k, codec) ==
  \/ Result([tag |-> "Ok", arm |-> k, codec |-> codec])
  \/ codec # resp.codec /\ Fails("DecodeFailure")

ReceivedType == IF resp.ctype = None THEN OctetStream ELSE resp.ctype

ReceiveVerb ==
  /\ ep.terminal = "verb"
  /\ LET codec == Unrender(ep.ctypes, ReceivedType)
     IN  \/ resp.status # ep.arms[1].status /\ Fails("FailureResponse")
         \/ /\ resp.status = ep.arms[1].status
            /\ \/ codec = None /\ Fails("UnsupportedContentType")
               \/ codec # None /\ Decode(1, codec)

ReceiveNoContent ==
  /\ ep.terminal = "noContent"
  /\ \/ resp.status # 204 /\ Fails("FailureResponse")
     \/ resp.status = 204 /\ Decode(1, None)

\* Of a stream the response's head decides; here a type is asked for.
ReceiveStream ==
  /\ ep.terminal = "stream"
  /\ LET codec == IF resp.ctype = None THEN None ELSE Unrender(<<ep.arms[1].marker>>, resp.ctype)
     IN  \/ resp.status # ep.arms[1].status /\ Fails("FailureResponse")
         \/ /\ resp.status = ep.arms[1].status
            /\ \/ codec = None /\ Fails("UnsupportedContentType")
               \/ codec # None /\ Decode(1, codec)

\* The first arm with the status of the response decodes it.
ReceiveUnion ==
  /\ ep.terminal = "uverb"
  /\ LET k == SelectInSeq(ep.arms, LAMBDA arm : arm.status = resp.status)
     IN  \/ k = 0 /\ Fails("FailureResponse")
         \/ k # 0 /\ ep.arms[k].kind = "noBody" /\ Result([tag |-> "Ok", arm |-> k, codec |-> None])
         \/ /\ k # 0 /\ ep.arms[k].kind # "noBody"
            /\ LET codec == Unrender(Markers(ep.arms[k]), ReceivedType)
               IN  \/ codec = None /\ Fails("DecodeFailure")
                   \/ codec # None /\ Decode(k, codec)

Receive ==
  /\ pc = "answered"
  /\ ReceiveVerb \/ ReceiveNoContent \/ ReceiveStream \/ ReceiveUnion
  /\ UNCHANGED <<ep, req, read, ran, resp>>

-----------------------------------------------------------------------------
Next ==
  \/ Call \/ OtherRequest \/ TransportFails
  \/ CheckAccept \/ CheckContentType \/ ReadBody
  \/ HandlerReturns \/ HandlerFails \/ Render \/ Receive

Spec == Init /\ [][Next]_vars

-----------------------------------------------------------------------------
Answered(reason) == resp # None /\ resp.reason = reason

(***************************************************************************)
(* negotiate_media_index promises the best representation: highest client  *)
(* quality, then specificity, then the server's order. Whatever the order  *)
(* of the Accept header and of the two loops, what is sent is the first of *)
(* those the client prefers, and 406 means that it would have none.        *)
(***************************************************************************)
SendsWhatIsPreferred ==
  /\ Answered("refused") /\ resp.status = 406 => Admissible(req.accept, Offered) = {}
  /\ ran # None /\ ep.terminal # "noContent" => Admissible(req.accept, Offered) # {}
  /\ Answered("served") /\ Returned.kind \in {"negotiated", "fixed"} =>
       LET media == AllMediaTypes(Markers(Returned))
       IN  resp.ctype = media[Min(Preferred(req.accept, media))]

\* The arms can be told apart, from each other and from the server's errors.
Distinguishable ==
  /\ \A j, k \in DOMAIN ep.arms : j # k => ep.arms[j].status # ep.arms[k].status
  /\ \A k \in DOMAIN ep.arms :
       ep.arms[k].status \notin ErrorStatuses \cup {400, 406, 415, 500}

(***************************************************************************)
(* "The client decodes by matching the response status" (uverb.rs:7): the  *)
(* arm the caller gets is the one the handler returned, read with the      *)
(* codec that wrote it although client and server choose it by different   *)
(* searches, and whichever representation the transport asked for; and a   *)
(* response that was served never fails to decode. HEAD is left out: its   *)
(* responses have lost their bodies.                                       *)
(***************************************************************************)
CallerGetsWhatHandlerReturned ==
  result # None /\ Distinguishable /\ ~req.head =>
    /\ result.tag = "Ok" => result.arm = ran /\ result.codec = resp.codec
    /\ Answered("served") => result.tag \in {"Ok", "ConnectionError"}

(***************************************************************************)
(* A marker's media types are those it "will match on" (media.rs:10), and  *)
(* the generated client offers them all and writes its body in the first   *)
(* (docs/DESIGN.md:217): the server of the same API accepts and reads      *)
(* every request that client makes; an arm of fixed content type is        *)
(* rendered for it if the endpoint's list has that type (arms.rs:31).      *)
(***************************************************************************)
OwnRequestIsServed ==
  req.own /\ resp # None =>
    /\ resp.reason \notin {"refused", "readWithoutCodec", "unparsable"}
    /\ resp.reason = "notAcceptable" =>
         ToSet(Returned.marker.media) \cap ToSet(Offered) = {}

(***************************************************************************)
(* "accept_check guarantees a negotiable content type" (terminal.rs:69):   *)
(* once a handler has run, its result is not lost for want of a            *)
(* representation, in a panic or as a 500. The exception is an arm of      *)
(* fixed content type, which is not what accept_check looked at.           *)
(***************************************************************************)
AcceptCheckSuffices ==
  /\ pc # "panicked"
  /\ Answered("notAcceptable") => Returned.kind = "fixed"

(***************************************************************************)
(* "Content-type was already validated (415) before extraction"            *)
(* (extractors.rs:238): the check of phase 5 and the search for a codec    *)
(* agree, and a handler is given a body read as its Content-Type says, as  *)
(* the API's own client wrote it.                                          *)
(***************************************************************************)
BodyIsReadAsTyped ==
  /\ ~Answered("readWithoutCodec")
  /\ ran # None /\ ep.body # <<>> =>
       /\ \E c \in ToSet(ep.body) :
            c.codec = read /\ \E m \in ToSet(c.media) : MediaMatches(m, BodyType)
       /\ req.own => read = req.codec
=============================================================================
