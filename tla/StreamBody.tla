----------------------------- MODULE StreamBody -----------------------------
(***************************************************************************)
(* The handler's side of a StreamBody: decode_stream of servant-server     *)
(* (stream_body.rs) over RequestBodyStream.  Each action is one way round  *)
(* the loop of a poll, or the half of one before or after its await.       *)
(***************************************************************************)
EXTENDS FramedChannel

CONSTANT MaxFrame   \* DEFAULT_MAX_DECODED_FRAME_BYTES

ASSUME MaxFrameNat == MaxFrame \in Nat \ {0}

\* What a foreign sender ends with is not an item after all.
ASSUME JunkIsNoFrame ==
  \A f \in Framings : \A junk \in Junk[f] : \A n \in 0..Len(junk), e \in BOOLEAN :
    DeframeLimited(f, SubSeq(junk, 1, n), e, MaxFrame).tag # "frame"

\* A frame is an item, or a decode error that ends the stream.
YieldFrame(found) ==
  /\ found.tag = "frame"
  /\ Yield(Unrender(found.frame))
  /\ buf' = found.rest
  /\ Goto(IF Unrender(found.frame).tag = "Ok" THEN "loop" ELSE "done")

Refuse(found) ==
  /\ found.tag = "error"
  /\ Yield(Err(found.error))
  /\ Goto("done")
  /\ UNCHANGED buf

\* Mutant: without its eof arm, the loop polls the ended body for ever.
NothingYetAwaits(found) ==
  /\ found.tag = "more"
  /\ Goto("body")
  /\ UNCHANGED <<buf, out>>

\* No frame yet: the end, or on to the body.
NothingYet(found) ==
  /\ found.tag = "more"
  /\ Goto(IF eof THEN "over" ELSE "body")
  /\ UNCHANGED <<buf, out>>

DeframeNext ==
  /\ pc = "loop"
  /\ \E found \in {DeframeLimited(framing, buf, eof, MaxFrame)} :
       YieldFrame(found) \/ Refuse(found) \/ NothingYet(found)
  /\ UNCHANGED <<channel, wire, eof>>

\* The next chunk, cut anywhere.
ReadChunk ==
  /\ pc = "body"
  /\ \E n \in 1..Len(wire) : /\ buf' = buf \o SubSeq(wire, 1, n)
                            /\ wire' = From(wire, n + 1)
  /\ Goto("loop")
  /\ UNCHANGED <<channel, eof, out>>

ReadEnd ==
  /\ BodyEnds
  /\ eof' = TRUE
  /\ Goto("loop")
  /\ UNCHANGED <<channel, wire, buf, out>>

\* Mutant: an error of the body is taken for its end.
ReadErrorEnds ==
  /\ BodyFails
  /\ eof' = TRUE
  /\ Goto("loop")
  /\ UNCHANGED <<channel, wire, buf, out>>

\* The buffered part of a frame is abandoned with the body.
ReadError ==
  /\ BodyFails
  /\ Yield(Err("Transport"))
  /\ Goto("done")
  /\ UNCHANGED <<channel, wire, buf, eof>>

\* The poll after the last item.
Finish ==
  /\ pc = "done"
  /\ Goto("over")
  /\ UNCHANGED <<channel, wire, buf, eof, out>>

Poll == DeframeNext \/ ReadChunk \/ ReadEnd \/ ReadError \/ Finish

Next == SenderStep \/ Poll

Spec == Init /\ [][Next]_vars

\* The handler polls its stream to the end; what was sent arrives.
FairSpec == Spec /\ WF_vars(Poll)

-----------------------------------------------------------------------------
(***************************************************************************)
(* However the connection cuts and loses bytes, the handler is given the   *)
(* items that were sent, whole, in order and once; nothing is made of a    *)
(* frame that a failure cut off, and a stream that ends without an error   *)
(* has delivered everything.                                               *)
(***************************************************************************)
Abstract ==
  INSTANCE ItemStream WITH
    Outcomes <- Outcomes,
    source <- Owed,
    got <- UpToFailure,
    closed <- link # "open",
    end <- IF Failed \/ (pc = "over" /\ Erred) THEN "failed"
           ELSE IF pc = "over" THEN "complete" ELSE "open"

DeliversItems == Abstract!ItemSpec

(***************************************************************************)
(* FrameTooLarge is said of a frame that is too large ("A decoded frame    *)
(* exceeded the configured per-frame cap"): when the stream stops with it, *)
(* the next thing on the wire was not an item within the cap.              *)
(***************************************************************************)
RefusalsAreTrue ==
  Err("FrameTooLarge") \in Range(out) /\ Len(UpToFailure) < Len(sent)
    => Len(sent[Len(UpToFailure) + 1]) > MaxFrame

\* NetstringFraming announces its lengths, and keeps that promise.
NetstringRefusalsAreTrue == framing = "netstring" => RefusalsAreTrue

(***************************************************************************)
(* Malformed bytes do not pass for a clean end: what was sent after the    *)
(* items, if it is not a frame, is reported.                               *)
(***************************************************************************)
JunkIsReported == pc = "over" /\ junked => Erred

\* Once the sender has stopped, the handler's stream ends.
StreamEnds == link # "open" ~> pc = "over"
=============================================================================
