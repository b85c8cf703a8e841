--------------------------- MODULE StreamResponse ---------------------------
(***************************************************************************)
(* The caller's side of a streaming endpoint: deframe_decode of            *)
(* servant-client (client/streaming.rs) over the chunks of a response.     *)
(* Each action is one way round the loop of a poll, or the half of one     *)
(* before or after its await.                                              *)
(***************************************************************************)
EXTENDS FramedChannel

CONSTANT MaxStreamFrame   \* MAX_STREAM_FRAME_BYTES

ASSUME MaxStreamFrameNat == MaxStreamFrame \in Nat

\* What a foreign server ends with is not an item after all.
ASSUME JunkIsNoItem ==
  \A f \in Framings : \A junk \in Junk[f] : \A n \in 0..Len(junk), e \in BOOLEAN :
    Deframe(f, SubSeq(junk, 1, n), e) = None

\* A frame is an item or a decode error; either way the stream goes on.
YieldDecoded(found) ==
  /\ found # None
  /\ Yield(Unrender(found.frame))
  /\ buf' = found.rest
  /\ Goto("loop")

\* Mutant: what the end leaves in the buffer is passed over.
AtEndSilent(found) ==
  /\ found = None /\ eof
  /\ Goto("over")
  /\ UNCHANGED <<buf, out>>

\* At the end no frame may be left over.
AtEnd(found) ==
  /\ found = None /\ eof
  /\ \/ /\ buf # <<>>
        /\ buf' = <<>>
        /\ Yield(Err("Incomplete"))
        /\ Goto("loop")
     \/ /\ buf = <<>>
        /\ Goto("over")
        /\ UNCHANGED <<buf, out>>

AwaitMore(found) ==
  /\ found = None /\ ~eof
  /\ Goto("body")
  /\ UNCHANGED <<buf, out>>

DeframeDecode ==
  /\ pc = "loop"
  /\ \E found \in {Deframe(framing, buf, eof)} :
       YieldDecoded(found) \/ AtEnd(found) \/ AwaitMore(found)
  /\ UNCHANGED <<channel, wire, eof>>

\* Mutant: the bytes of an oversized buffer are kept, and deframed.
ReceiveChunkKeeps ==
  /\ pc = "body"
  /\ \E n \in 1..Len(wire) :
       /\ wire' = From(wire, n + 1)
       /\ buf' = buf \o SubSeq(wire, 1, n)
       /\ \/ /\ Len(buf) + n > MaxStreamFrame
             /\ eof' = TRUE
             /\ Yield(Err("FrameTooLarge"))
          \/ /\ Len(buf) + n <= MaxStreamFrame
             /\ UNCHANGED <<eof, out>>
  /\ Goto("loop")
  /\ UNCHANGED channel

(***************************************************************************)
(* A chunk is added to the buffer, which is then held to the cap: beyond   *)
(* it everything buffered is dropped, and the stream with it.              *)
(***************************************************************************)
ReceiveChunk ==
  /\ pc = "body"
  /\ \E n \in 1..Len(wire) :
       /\ wire' = From(wire, n + 1)
       /\ \/ /\ Len(buf) + n > MaxStreamFrame
             /\ buf' = <<>>
             /\ eof' = TRUE
             /\ Yield(Err("FrameTooLarge"))
          \/ /\ Len(buf) + n <= MaxStreamFrame
             /\ buf' = buf \o SubSeq(wire, 1, n)
             /\ UNCHANGED <<eof, out>>
  /\ Goto("loop")
  /\ UNCHANGED channel

\* Mutant: the end of the body is not remembered.
ReceiveEndForgets ==
  /\ BodyEnds
  /\ Goto("loop")
  /\ UNCHANGED <<channel, wire, buf, eof, out>>

ReceiveEnd ==
  /\ BodyEnds
  /\ eof' = TRUE
  /\ Goto("loop")
  /\ UNCHANGED <<channel, wire, buf, out>>

\* Mutant: an error of the body is taken for its end.
ReceiveErrorEnds ==
  /\ BodyFails
  /\ eof' = TRUE
  /\ Goto("loop")
  /\ UNCHANGED <<channel, wire, buf, out>>

\* The error is yielded; what is buffered stays, as at the body's end.
ReceiveError ==
  /\ BodyFails
  /\ eof' = TRUE
  /\ Yield(Err("Transport"))
  /\ Goto("loop")
  /\ UNCHANGED <<channel, wire, buf>>

PollResponse == DeframeDecode \/ ReceiveChunk \/ ReceiveEnd \/ ReceiveError

ResponseNext == SenderStep \/ PollResponse

ResponseSpec == Init /\ [][ResponseNext]_vars

\* The caller polls its stream to the end; what was sent arrives.
FairResponseSpec == ResponseSpec /\ WF_vars(PollResponse)

-----------------------------------------------------------------------------
(***************************************************************************)
(* Up to the first failure of the stream the caller is given the outcomes  *)
(* of the items that were sent, in order and each once, however their      *)
(* bytes were cut; a stream without a failure has delivered all of them.   *)
(***************************************************************************)
Response ==
  INSTANCE ItemStream WITH
    Outcomes <- Outcomes,
    source <- Owed,
    got <- UpToFailure,
    closed <- link # "open",
    end <- IF Failed THEN "failed" ELSE IF pc = "over" THEN "complete" ELSE "open"

ResponseDelivers == Response!ItemSpec

(***************************************************************************)
(* After a failure no item comes: "eof signals the stream has ended so any *)
(* trailing partial frame can be flushed", but a body that failed has not  *)
(* ended, and what it left in the buffer is part of an item at most.       *)
(***************************************************************************)
NothingAfterFailure ==
  \A i, j \in DOMAIN out : i < j /\ IsFailure(out[i]) => out[j].tag # "Ok"

\* A netstring knows its length: no part of one is taken for an item.
NetstringsFailWhole == framing = "netstring" => NothingAfterFailure

\* What no frame can be made of is reported before the stream ends.
ResponseJunkIsReported == pc = "over" /\ junked => Erred

\* Once the sender has stopped, the caller's stream ends.
ResponseEnds == link # "open" ~> pc = "over"
=============================================================================
