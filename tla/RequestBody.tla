---------------------------- MODULE RequestBody ----------------------------
(***************************************************************************)
(* The one-shot request body (servant-server/src/request/body.rs) with     *)
(* several holders of a clone.  RequestBody is Clone over an Arc<Mutex<>>, *)
(* and buffer() gives the lock up between taking the live body and storing *)
(* its bytes, so the calls of two holders interleave.                      *)
(*                                                                         *)
(* A wire is what the client sends: length[i] is how many body bytes have  *)
(* arrived after frame i, so a trailers frame repeats the length before    *)
(* it.  It ends cleanly or, if broken, with a transport error.             *)
(***************************************************************************)
EXTENDS Naturals, Sequences, RequestSlot

CONSTANTS
  Callers,           \* the holders of a clone of the request body
  Wires,             \* the wires a request may have
  MaxBufferedBytes   \* RequestBody::max_buffered_bytes

IsWire(w) ==
  /\ DOMAIN w = {"length", "broken"}
  /\ w.length \in Seq(Nat)
  /\ \A i, j \in DOMAIN w.length : i <= j => w.length[i] <= w.length[j]
  /\ w.broken \in BOOLEAN

ASSUME MaxBufferedNat == MaxBufferedBytes \in Nat
ASSUME WiresType == \A w \in Wires : IsWire(w)

VARIABLES
  wire,     \* the request's wire, fixed
  read,     \* how many of its frames have been read
  slot,     \* the BodySlot
  stored,   \* how many bytes a Buffered slot holds
  pc,       \* pc[c]: where caller c is in its current call
  acc,      \* acc[c]: bytes c has read from the live body
  result,   \* result[c]: what c's last finished call returned
  given     \* history: the forms in which the body was ever handed out

vars == <<wire, read, slot, stored, pc, acc, result, given>>

Length(n) == IF n = 0 THEN 0 ELSE wire.length[n]
Total == Length(Len(wire.length))

Results == {"none", "bytes", "stream", "clean end", "transport error",
            "err400", "err413", "err500", "dropped"}

\* Callers in these places have the live body.
Owning == {"collecting", "storing", "streaming"}

Init ==
  /\ wire \in Wires
  /\ read = 0
  /\ slot = "Streaming"
  /\ stored = 0
  /\ pc = [c \in Callers |-> "idle"]
  /\ acc = [c \in Callers |-> 0]
  /\ result = [c \in Callers |-> "none"]
  /\ given = {}

Return(c, res) ==
  /\ pc' = [pc EXCEPT ![c] = "idle"]
  /\ result' = [result EXCEPT ![c] = res]

(***************************************************************************)
(* buffer(), up to its await: the first critical section.  A body that is  *)
(* buffered already is read by a second one, ReadStored.                   *)
(***************************************************************************)
BeginBuffer(c) ==
  LET took == TakeForBuffering(slot) IN
  /\ pc[c] = "idle"
  /\ slot' = took.slot
  /\ \/ /\ took.got = "body"
        /\ pc' = [pc EXCEPT ![c] = "collecting"]
        /\ acc' = [acc EXCEPT ![c] = 0]
        /\ UNCHANGED result
     \/ /\ took.got = "buffered"
        /\ pc' = [pc EXCEPT ![c] = "rereading"]
        /\ UNCHANGED <<acc, result>>
     \/ /\ took.got = "error"
        /\ Return(c, "err500")
        /\ UNCHANGED acc
  /\ UNCHANGED <<wire, read, stored, given>>

\* buffered(), on its own or as the tail of buffer().
ReadStored(c) ==
  /\ pc[c] \in {"idle", "rereading"}
  /\ \/ /\ ReadBuffered(slot) = "buffered"
        /\ acc' = [acc EXCEPT ![c] = stored]
        /\ given' = given \cup {"bytes"}
        /\ Return(c, "bytes")
     \/ /\ ReadBuffered(slot) = "error"
        /\ Return(c, "err500")
        /\ UNCHANGED <<acc, given>>
  /\ UNCHANGED <<wire, read, slot, stored>>

\* Mutant: a body of exactly the limit is too large.
CollectFrameOffByOne(c) ==
  LET nextLen == acc[c] + (Length(read + 1) - Length(read))
  IN /\ pc[c] = "collecting"
     /\ read < Len(wire.length)
     /\ read' = read + 1
     /\ \/ /\ nextLen >= MaxBufferedBytes
           /\ Return(c, "err413")
           /\ UNCHANGED acc
        \/ /\ nextLen < MaxBufferedBytes
           /\ acc' = [acc EXCEPT ![c] = nextLen]
           /\ UNCHANGED <<pc, result>>
     /\ UNCHANGED <<wire, slot, stored, given>>

(***************************************************************************)
(* collect_limited: one frame.  The limit is checked before the chunk is   *)
(* appended; on any error the body is dropped and the slot stays Taken.    *)
(***************************************************************************)
CollectFrame(c) ==
  LET chunk == Length(read + 1) - Length(read)
      nextLen == acc[c] + chunk
  IN /\ pc[c] = "collecting"
     /\ read < Len(wire.length)
     /\ read' = read + 1
     /\ \/ /\ nextLen > MaxBufferedBytes
           /\ Return(c, "err413")
           /\ UNCHANGED acc
        \/ /\ nextLen <= MaxBufferedBytes
           /\ acc' = [acc EXCEPT ![c] = nextLen]
           /\ UNCHANGED <<pc, result>>
     /\ UNCHANGED <<wire, slot, stored, given>>

\* Mutant: `while let Some(Ok(chunk))` takes an error for the end.
CollectEndIgnoresError(c) ==
  /\ pc[c] = "collecting"
  /\ read = Len(wire.length)
  /\ pc' = [pc EXCEPT ![c] = "storing"]
  /\ UNCHANGED <<wire, read, slot, stored, acc, result, given>>

CollectEnd(c) ==
  /\ pc[c] = "collecting"
  /\ read = Len(wire.length)
  /\ \/ /\ wire.broken
        /\ Return(c, "err400")
     \/ /\ ~wire.broken
        /\ pc' = [pc EXCEPT ![c] = "storing"]
        /\ UNCHANGED result
  /\ UNCHANGED <<wire, read, slot, stored, acc, given>>

\* buffer(): the last critical section, which stores the bytes.
StoreBuffered(c) ==
  /\ pc[c] = "storing"
  /\ slot' = "Buffered"
  /\ stored' = acc[c]
  /\ given' = given \cup {"bytes"}
  /\ Return(c, "bytes")
  /\ UNCHANGED <<wire, read, acc>>

\* take_stream(): the live body leaves as a RequestBodyStream.
BeginStream(c) ==
  LET took == TakeStream(slot) IN
  /\ pc[c] = "idle"
  /\ slot' = took.slot
  /\ \/ /\ took.got = "body"
        /\ pc' = [pc EXCEPT ![c] = "streaming"]
        /\ acc' = [acc EXCEPT ![c] = 0]
        /\ given' = given \cup {"stream"}
        /\ result' = [result EXCEPT ![c] = "stream"]
     \/ /\ took.got = "error"
        /\ Return(c, "err500")
        /\ UNCHANGED <<acc, given>>
  /\ UNCHANGED <<wire, read, stored>>

(***************************************************************************)
(* RequestBodyStream::poll_next: a frame (one without data adds nothing),  *)
(* or the end, clean or not, after which the stream is None for ever.      *)
(***************************************************************************)
PollStream(c) ==
  /\ pc[c] = "streaming"
  /\ \/ /\ read < Len(wire.length)
        /\ read' = read + 1
        /\ acc' = [acc EXCEPT ![c] = @ + (Length(read + 1) - Length(read))]
        /\ UNCHANGED <<pc, result>>
     \/ /\ read = Len(wire.length)
        /\ Return(c, IF wire.broken THEN "transport error" ELSE "clean end")
        /\ UNCHANGED <<read, acc>>
  /\ UNCHANGED <<wire, slot, stored, given>>

(***************************************************************************)
(* The holder is cancelled at an await (a dropped buffer() future) or      *)
(* drops its stream: the body is gone and the slot stays Taken.  Between   *)
(* the end of the body and the store there is no await to cancel at.       *)
(***************************************************************************)
Drop(c) ==
  /\ pc[c] \in {"collecting", "streaming"}
  /\ Return(c, "dropped")
  /\ UNCHANGED <<wire, read, slot, stored, acc, given>>

Step(c) ==
  \/ BeginBuffer(c)
  \/ ReadStored(c)
  \/ CollectFrame(c)
  \/ CollectEnd(c)
  \/ StoreBuffered(c)
  \/ BeginStream(c)
  \/ PollStream(c)
  \/ Drop(c)

Next == \E c \in Callers : Step(c)

Spec == Init /\ [][Next]_vars

-----------------------------------------------------------------------------
\* The shape of every variable of the request body and of its callers.
TypeOK ==
  /\ wire \in Wires
  /\ read \in 0..Len(wire.length)
  /\ slot \in Slots
  /\ stored \in Nat
  /\ pc \in [Callers -> Owning \cup {"idle", "rereading"}]
  /\ acc \in [Callers -> Nat]
  /\ result \in [Callers -> Results]
  /\ given \subseteq {"bytes", "stream"}

(***************************************************************************)
(* The live body has one owner: while it is in the slot no caller has it,  *)
(* and no two callers ever have it, although buffer() gives the lock up    *)
(* between the mem::replace and the store.                                 *)
(***************************************************************************)
OneOwner ==
  \A c \in Callers : pc[c] \in Owning =>
    /\ slot = "Taken"
    /\ \A d \in Callers \ {c} : pc[d] \notin Owning

(***************************************************************************)
(* Whoever is handed bytes, by collecting them or by rereading the slot    *)
(* after another caller did, has the whole body, unbroken and within       *)
(* max_buffered_bytes: never a prefix.                                     *)
(***************************************************************************)
BytesAreTheWholeBody ==
  \A c \in Callers : result[c] = "bytes" /\ pc[c] = "idle" =>
    /\ acc[c] = Total
    /\ Total <= MaxBufferedBytes
    /\ ~wire.broken

(***************************************************************************)
(* collect_limited answers 413 only for a body that really is too large: a *)
(* body of exactly max_buffered_bytes is accepted, trailers count nothing. *)
(***************************************************************************)
TooLargeIsTrue ==
  \A c \in Callers : result[c] = "err413" => Total > MaxBufferedBytes

(***************************************************************************)
(* Buffering and streaming exclude each other for the life of a request:   *)
(* one clone never gets the bytes while another got the stream.            *)
(***************************************************************************)
OneForm == given # {"bytes", "stream"}

(***************************************************************************)
(* Once stored, the bytes stay: no later buffer(), take_stream() or drop,  *)
(* by any holder, makes buffered() fail or answer something else.          *)
(***************************************************************************)
StoredForGood ==
  [][slot = "Buffered" => slot' = "Buffered" /\ stored' = stored]_vars
=============================================================================
