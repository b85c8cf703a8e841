---------------------------- MODULE FramedChannel ----------------------------
(***************************************************************************)
(* A streamed body on its way: the sender frames each item it produces     *)
(* (StreamVerb::render of servant-server's extract/terminal.rs for a       *)
(* response, encode_stream_body of servant-client's build/stream_body.rs   *)
(* for a request), and the connection carries the bytes, cut into chunks   *)
(* as it likes, to a reader that StreamBody or StreamResponse adds.        *)
(***************************************************************************)
EXTENDS Framing

CONSTANTS
  Bytes,       \* what is sent
  Framings,    \* the framings an endpoint may have
  Items,       \* Items[f]: the items that are sent with framing f
  Decodable,   \* the items that decode, in any framing
  Junk,        \* Junk[f]: what a foreign sender may send after its items
  MaxItems     \* bound: how many items a sender produces

ASSUME FramingsKnown == Framings \subseteq FramingNames

ASSUME DelimitersAreBytes == {":", Comma, "LF"} \cup Range(DigitChars) \subseteq Bytes

ASSUME NoneIsNoFrame ==
  None \notin Nat /\ None \notin [frame : Seq(Bytes), rest : Seq(Bytes)]

\* LengthPrefix is one digit, and no frame's length overflows.
ASSUME ItemsAreShort ==
  /\ \A f \in Framings : \A i \in Items[f] : i \in Seq(Bytes) /\ Len(i) < 10
  /\ UsizeMax >= 12

(***************************************************************************)
(* What a framing asks of its items and does not check: with NoFraming an  *)
(* empty item leaves no trace, and no item may hold its own delimiter.     *)
(***************************************************************************)
ASSUME ItemsSuitTheirFraming ==
  \A f \in Framings : \A item \in Items[f] :
    /\ f = "none" => item # <<>>
    /\ f = "newline" => \A i \in DOMAIN item : item[i] # "LF"
    /\ f = "eventStream" => \A i \in DOMAIN item : ~BlankLineAt(Rendered(f, item), i)

\* Only a netstring can be malformed: whatever else is sent is an item.
ASSUME JunkIsForeign ==
  \A f \in Framings :
    /\ Junk[f] \subseteq Seq(Bytes) \ {<<>>}
    /\ f # "netstring" => Junk[f] = {}

VARIABLES
  framing,   \* the endpoint's framing, fixed
  sent,      \* the items sent
  wire,      \* the bytes sent and not read yet
  link,      \* "open", "ended" by the sender, or "broken"
  junked,    \* did the sender end with junk
  buf,       \* the reader's buffer
  eof,       \* the reader's eof
  out,       \* what the reader has yielded
  pc         \* the reader's place

channel == <<framing, sent, link, junked>>
reader == <<buf, eof, out, pc>>
vars == <<channel, wire, reader>>

Ok(item) == [tag |-> "Ok", val |-> item]
Err(error) == [tag |-> "Err", val |-> error]

\* mime_unrender
Unrender(frame) == IF frame \in Decodable THEN Ok(frame) ELSE Err("Decode")

Init ==
  /\ framing \in Framings
  /\ sent = <<>> /\ wire = <<>> /\ link = "open" /\ junked = FALSE
  /\ buf = <<>> /\ eof = FALSE /\ out = <<>> /\ pc = "loop"

\* NoFraming has no boundaries: a stream of it is one item.
MaySend ==
  /\ link = "open"
  /\ Len(sent) < IF framing = "none" THEN 1 ELSE MaxItems

Send(item) ==
  /\ MaySend
  /\ sent' = Append(sent, item)
  /\ wire' = wire \o Frame(framing, Rendered(framing, item))
  /\ UNCHANGED <<framing, link, junked, reader>>

\* A sender that is not this library's leaves the last delimiter out.
SendUnterminated(item) ==
  /\ MaySend /\ framing \in {"newline", "eventStream"} /\ item # <<>>
  /\ sent' = Append(sent, item)
  /\ wire' = wire \o item
  /\ link' = "ended"
  /\ UNCHANGED <<framing, junked, reader>>

\* A sender that is not this library's ends with something else.
SendJunk(junk) ==
  /\ link = "open"
  /\ wire' = wire \o junk
  /\ link' = "ended"
  /\ junked' = TRUE
  /\ UNCHANGED <<framing, sent, reader>>

SenderEnds ==
  /\ link = "open"
  /\ link' = "ended"
  /\ UNCHANGED <<framing, sent, wire, junked, reader>>

\* An item cannot be rendered, or is an error itself: the body is aborted.
SenderFails ==
  /\ link = "open"
  /\ link' = "broken"
  /\ UNCHANGED <<framing, sent, wire, junked, reader>>

\* The connection breaks; of the bytes in flight any prefix still arrives.
ConnectionBreaks ==
  /\ link \in {"open", "ended"} /\ ~eof
  /\ link' = "broken"
  /\ \E n \in 0..Len(wire) : wire' = SubSeq(wire, 1, n)
  /\ UNCHANGED <<framing, sent, junked, reader>>

SenderStep ==
  \/ \E item \in Items[framing] : Send(item) \/ SendUnterminated(item)
  \/ \E junk \in Junk[framing] : SendJunk(junk)
  \/ SenderEnds \/ SenderFails \/ ConnectionBreaks

(***************************************************************************)
(* The reader's places: "loop", the head of its loop, where it deframes;   *)
(* "body", where it awaits the body; "done", where it has yielded its last *)
(* item; "over", where it has returned None.                               *)
(***************************************************************************)
Goto(place) == pc' = place

\* What it says once its bytes are read.
BodyEnds == pc = "body" /\ wire = <<>> /\ link = "ended"
BodyFails == pc = "body" /\ wire = <<>> /\ link = "broken"

Yield(entry) == out' = Append(out, entry)

-----------------------------------------------------------------------------
\* What the reader owes for the items sent.
Owed == [i \in DOMAIN sent |-> Unrender(sent[i])]
Outcomes == {Unrender(i) : i \in UNION {Items[f] : f \in Framings}}

\* Errors that are about the stream, not about one item of it.
StreamErrors == {"Transport", "FrameTooLarge", "MalformedFrame", "Incomplete"}
IsFailure(entry) == entry.tag = "Err" /\ entry.val \in StreamErrors

Erred == \E i \in DOMAIN out : out[i].tag = "Err"
Failed == \E i \in DOMAIN out : IsFailure(out[i])

\* The yielded entries up to the first failure of the stream.
UpToFailure ==
  LET failed == SelectInSeq(out, IsFailure) IN
  IF failed = 0 THEN out ELSE SubSeq(out, 1, failed - 1)
=============================================================================
