------------------------------- MODULE Framing -------------------------------
(***************************************************************************)
(* The framings of streamed bodies (servant/src/stream.rs, stream/sse.rs): *)
(* how items are delimited on the wire, how they are taken out of a buffer *)
(* again, and the bounded variant the server uses.                         *)
(*                                                                         *)
(* A byte is a string: a decimal digit, one of ":" "," "+", "LF" or "CR",  *)
(* or anything else for a byte that means nothing to a framing.  An item   *)
(* is the bytes it is rendered to, less the blank line of an event.        *)
(***************************************************************************)
EXTENDS Naturals, Sequences, SequencesExt

CONSTANTS
  None,      \* Option::None
  UsizeMax   \* usize::MAX

ASSUME UsizeMaxNat == UsizeMax \in Nat

FramingNames == {"none", "newline", "netstring", "eventStream"}

DigitChars == <<"0", "1", "2", "3", "4", "5", "6", "7", "8", "9">>
\* The byte that closes a netstring.
Comma == ","
DigitValue(d) == SelectInSeq(DigitChars, LAMBDA c : c = d) - 1
AllDigits(raw) == raw # <<>> /\ \A i \in DOMAIN raw : Contains(DigitChars, raw[i])

\* The first position of a byte, 0 where there is none.
Position(buf, byte) ==
  IF \E i \in DOMAIN buf : buf[i] = byte
  THEN CHOOSE i \in DOMAIN buf :
         buf[i] = byte /\ \A j \in 1..(i - 1) : buf[j] # byte
  ELSE 0
From(buf, i) == SubSeq(buf, i, Len(buf))

DecimalValue(digits) ==
  LET upTo[i \in 0..Len(digits)] ==
        IF i = 0 THEN 0 ELSE 10 * upTo[i - 1] + DigitValue(digits[i])
  IN upTo[Len(digits)]

\* str::parse::<usize>, which takes a leading plus.
ParseUsize(raw) ==
  LET digits == IF raw # <<>> /\ raw[1] = "+" THEN Tail(raw) ELSE raw
  IN IF AllDigits(digits) /\ DecimalValue(digits) <= UsizeMax
     THEN DecimalValue(digits) ELSE None

\* parse_netstring_len, which does not.
ParseNetstringLen(raw) == IF AllDigits(raw) THEN ParseUsize(raw) ELSE None

-----------------------------------------------------------------------------
\* A ServerEvent is rendered with a blank line after its fields.
Rendered(framing, item) ==
  IF framing = "eventStream" THEN item \o <<"LF", "LF">> ELSE item

\* A length below ten, as the decimal that is written before the colon.
LengthPrefix(item) == <<DigitChars[Len(item) + 1]>>

Frame(framing, rendered) ==
  CASE framing \in {"none", "eventStream"} -> rendered
    [] framing = "newline" -> Append(rendered, "LF")
    [] framing = "netstring" ->
         LengthPrefix(rendered) \o <<":">> \o rendered \o <<Comma>>

-----------------------------------------------------------------------------
\* deframe's Some: the item, and the buffer without its frame.
Deframed(frame, rest) == [frame |-> frame, rest |-> rest]

\* What is left at the end is the last item.
Flush(buf, eof) == IF eof /\ buf # <<>> THEN Deframed(buf, <<>>) ELSE None

DeframeNewline(buf, eof) ==
  LET nl == Position(buf, "LF") IN
  IF nl = 0 THEN Flush(buf, eof)
  ELSE Deframed(SubSeq(buf, 1, nl - 1), From(buf, nl + 1))

\* The blank lines of find_event_end.
BlankLines == {<<"LF", "LF">>, <<"LF", "CR", "LF">>, <<"CR", "CR">>,
               <<"CR", "LF", "CR", "LF">>}

BlankLineAt(buf, i) == \E blank \in BlankLines : IsPrefix(blank, From(buf, i))

DeframeEvent(buf, eof) ==
  LET ends == {i \in DOMAIN buf : BlankLineAt(buf, i)}
  IN IF ends = {} THEN Flush(buf, eof)
     ELSE LET first == CHOOSE i \in ends : \A j \in ends : i <= j
              blank == CHOOSE b \in BlankLines : IsPrefix(b, From(buf, first))
          IN Deframed(SubSeq(buf, 1, first - 1), From(buf, first + Len(blank)))

\* The end of the netstring whose colon is at this position, checked_add'ed.
NetstringEnd(colon, len) ==
  IF colon + len + 1 > UsizeMax THEN None ELSE colon + len + 1

NetstringAt(buf, colon, total) ==
  IF Len(buf) < total THEN None
  ELSE IF buf[total] # Comma THEN None
  ELSE Deframed(SubSeq(buf, colon + 1, total - 1), From(buf, total + 1))

\* Whatever is not a complete netstring is None, at the end too.
DeframeNetstring(buf) ==
  LET colon == Position(buf, ":")
      len == ParseUsize(SubSeq(buf, 1, colon - 1))
  IN IF colon = 0 \/ len = None \/ NetstringEnd(colon, len) = None THEN None
     ELSE NetstringAt(buf, colon, NetstringEnd(colon, len))

Deframe(framing, buf, eof) ==
  CASE framing = "none" -> Flush(buf, eof)
    [] framing = "newline" -> DeframeNewline(buf, eof)
    [] framing = "netstring" -> DeframeNetstring(buf)
    [] framing = "eventStream" -> DeframeEvent(buf, eof)

-----------------------------------------------------------------------------
(***************************************************************************)
(* deframe_limited: a frame, "more" when there is none yet, or an error.   *)
(***************************************************************************)
Got(d) == [tag |-> "frame", frame |-> d.frame, rest |-> d.rest]
More == [tag |-> "more"]
Refusal(error) == [tag |-> "error", error |-> error]

(***************************************************************************)
(* The trait's default holds the whole buffer to the limit; its second     *)
(* test, of the frame taken out, then never refuses: a frame is no longer  *)
(* than its buffer.                                                        *)
(***************************************************************************)
DeframeLimitedDefault(framing, buf, eof, max) ==
  LET d == Deframe(framing, buf, eof) IN
  CASE Len(buf) > max -> Refusal("FrameTooLarge")
    [] Len(buf) <= max /\ d # None -> Got(d)
    [] Len(buf) <= max /\ d = None ->
         IF eof /\ buf # <<>> THEN Refusal("MalformedFrame") ELSE More

\* Mutant: what the end cuts off is passed over.
LimitedNetstringAtLenient(buf, eof, colon, total) ==
  IF Len(buf) < total THEN More
  ELSE IF buf[total] # Comma THEN Refusal("MalformedFrame")
  ELSE Got(NetstringAt(buf, colon, total))

\* Once the length is known: wait for the rest, or the comma must be there.
LimitedNetstringAt(buf, eof, colon, total) ==
  IF Len(buf) < total
  THEN IF eof THEN Refusal("MalformedFrame") ELSE More
  ELSE IF buf[total] # Comma THEN Refusal("MalformedFrame")
  ELSE Got(NetstringAt(buf, colon, total))

DeframeLimitedNetstring(buf, eof, max) ==
  LET colon == Position(buf, ":")
      len == ParseNetstringLen(SubSeq(buf, 1, colon - 1))
  IN IF colon = 0
     THEN CASE Len(buf) > max -> Refusal("FrameTooLarge")
            [] Len(buf) <= max /\ eof /\ buf # <<>> -> Refusal("MalformedFrame")
            [] OTHER -> More
     ELSE CASE len = None -> Refusal("MalformedFrame")
            [] len # None /\ len > max -> Refusal("FrameTooLarge")
            [] len # None /\ len <= max ->
                 IF NetstringEnd(colon, len) = None
                 THEN Refusal("MalformedFrame")
                 ELSE LimitedNetstringAt(buf, eof, colon, NetstringEnd(colon, len))

\* Mutant: netstrings too have their whole buffer held to the limit.
DeframeLimitedWholeBuffer(framing, buf, eof, max) ==
  IF framing = "netstring" /\ Len(buf) <= max
  THEN DeframeLimitedNetstring(buf, eof, max)
  ELSE DeframeLimitedDefault(framing, buf, eof, max)

DeframeLimited(framing, buf, eof, max) ==
  IF framing = "netstring"
  THEN DeframeLimitedNetstring(buf, eof, max)
  ELSE DeframeLimitedDefault(framing, buf, eof, max)
=============================================================================
