---------------------------- MODULE RequestSlot ----------------------------
(***************************************************************************)
(* The critical sections of RequestBody (servant-server/src/request/       *)
(* body.rs): what each does to the slot while it holds the mutex, and what *)
(* it hands back.  The slot is                                             *)
(*   "Streaming"  the live body is still in the slot,                      *)
(*   "Buffered"   its bytes are,                                           *)
(*   "Taken"      somebody has the live body, or had it.                   *)
(* Streaming(None) is never built, so it is not a value here.  The         *)
(* mem::replace that empties the slot and the write that puts a Buffered   *)
(* slot back are one step: the guard is held across both.                  *)
(***************************************************************************)
Slots == {"Streaming", "Buffered", "Taken"}

\* Mutant: the slot is looked at, not emptied.
TakeForBufferingPeeks(slot) ==
  CASE slot = "Streaming" -> [slot |-> "Streaming", got |-> "body"]
    [] slot = "Buffered" -> [slot |-> "Buffered", got |-> "buffered"]
    [] slot = "Taken" -> [slot |-> "Taken", got |-> "error"]

\* take_for_buffering: the live body, the news that it is buffered, or a 500.
TakeForBuffering(slot) ==
  CASE slot = "Streaming" -> [slot |-> "Taken", got |-> "body"]
    [] slot = "Buffered" -> [slot |-> "Buffered", got |-> "buffered"]
    [] slot = "Taken" -> [slot |-> "Taken", got |-> "error"]

\* Mutant: the buffered bytes are not put back.
TakeStreamForgetsBytes(slot) ==
  CASE slot = "Streaming" -> [slot |-> "Taken", got |-> "body"]
    [] OTHER -> [slot |-> "Taken", got |-> "error"]

\* Mutant: a buffered body is handed out as a stream of its bytes.
TakeStreamReplays(slot) ==
  CASE slot = "Taken" -> [slot |-> "Taken", got |-> "error"]
    [] OTHER -> [slot |-> "Taken", got |-> "body"]

\* take_stream: the live body, or a 500 that leaves a buffered body alone.
TakeStream(slot) ==
  CASE slot = "Streaming" -> [slot |-> "Taken", got |-> "body"]
    [] slot = "Buffered" -> [slot |-> "Buffered", got |-> "error"]
    [] slot = "Taken" -> [slot |-> "Taken", got |-> "error"]

\* buffered: the bytes when they are there, a 500 otherwise.
ReadBuffered(slot) == IF slot = "Buffered" THEN "buffered" ELSE "error"
=============================================================================
