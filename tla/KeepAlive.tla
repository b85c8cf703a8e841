------------------------------ MODULE KeepAlive ------------------------------
(***************************************************************************)
(* SseKeepAlive::stream of servant-server (sse.rs): an application's       *)
(* stream of server-sent events, raced against an interval's ticks, each   *)
(* of which becomes a comment.  The application, the clock and the         *)
(* connection that polls the wrapped stream are actors of their own.       *)
(***************************************************************************)
EXTENDS Naturals, Sequences

CONSTANTS
  Events,     \* the application's events
  MaxEvents   \* bound: how many it produces

ASSUME MaxEventsNat == MaxEvents \in Nat

VARIABLES
  produced,   \* history: the events the application has produced
  ready,      \* those of them that wait to be taken from its stream
  ended,      \* has the application's stream ended
  tick,       \* is a tick of the interval due
  pc,         \* "unprimed", "select", or "over" once None was returned
  given,      \* history: the events given to the connection
  last        \* what was yielded last, with a bit that flips each time

vars == <<produced, ready, ended, tick, pc, given, last>>

\* The first tick of an interval completes immediately.
Init ==
  /\ produced = <<>> /\ ready = <<>> /\ ended = FALSE
  /\ tick = TRUE
  /\ pc = "unprimed"
  /\ given = <<>>
  /\ last = [what |-> "nothing", bit |-> 0]

Yielded(what) == last' = [what |-> what, bit |-> 1 - last.bit]

Produce(event) ==
  /\ ~ended /\ Len(produced) < MaxEvents
  /\ produced' = Append(produced, event)
  /\ ready' = Append(ready, event)
  /\ UNCHANGED <<ended, tick, pc, given, last>>

AppEnds ==
  /\ ~ended
  /\ ended' = TRUE
  /\ UNCHANGED <<produced, ready, tick, pc, given, last>>

TickFires ==
  /\ ~tick
  /\ tick' = TRUE
  /\ UNCHANGED <<produced, ready, ended, pc, given, last>>

\* The immediate tick is awaited before the first select.
Prime ==
  /\ pc = "unprimed" /\ tick
  /\ tick' = FALSE
  /\ pc' = "select"
  /\ UNCHANGED <<produced, ready, ended, given, last>>

YieldEvent ==
  /\ pc = "select" /\ ready # <<>>
  /\ given' = Append(given, Head(ready))
  /\ ready' = Tail(ready)
  /\ Yielded("event")
  /\ UNCHANGED <<produced, ended, tick, pc>>

\* Mutant: the branch that lost the race had taken its event.
YieldCommentDropsEvent ==
  /\ pc = "select" /\ tick
  /\ tick' = FALSE
  /\ ready' = IF ready = <<>> THEN <<>> ELSE Tail(ready)
  /\ Yielded("comment")
  /\ UNCHANGED <<produced, ended, pc, given>>

\* select! picks among the branches that are ready: an event may be, too.
YieldComment ==
  /\ pc = "select" /\ tick
  /\ tick' = FALSE
  /\ Yielded("comment")
  /\ UNCHANGED <<produced, ready, ended, pc, given>>

\* Mutant: `Some(event) = events.next()` disables its branch at the end.
FinishDisabled ==
  /\ pc = "select" /\ ready = <<>> /\ ended
  /\ UNCHANGED vars

\* The events' None is the wrapped stream's.
Finish ==
  /\ pc = "select" /\ ready = <<>> /\ ended
  /\ pc' = "over"
  /\ UNCHANGED <<produced, ready, ended, tick, given, last>>

Poll == Prime \/ YieldEvent \/ YieldComment \/ Finish

Next == (\E event \in Events : Produce(event)) \/ AppEnds \/ TickFires \/ Poll

Spec == Init /\ [][Next]_vars

(***************************************************************************)
(* The connection polls, and time passes.  select! polls its branches in   *)
(* random order, so a branch that stays ready is taken.                    *)
(***************************************************************************)
FairSpec ==
  /\ Spec
  /\ WF_vars(TickFires) /\ WF_vars(Prime)
  /\ WF_vars(YieldComment) /\ WF_vars(YieldEvent) /\ WF_vars(Finish)

-----------------------------------------------------------------------------
\* The shape of the state.
TypeOK ==
  /\ produced \in Seq(Events) /\ ready \in Seq(Events) /\ given \in Seq(Events)
  /\ ended \in BOOLEAN /\ tick \in BOOLEAN
  /\ pc \in {"unprimed", "select", "over"}
  /\ last \in [what : {"nothing", "event", "comment"}, bit : {0, 1}]

(***************************************************************************)
(* The losing branch of the race loses nothing: the events given and those *)
(* still waiting are those produced, in order, and the wrapped stream only *)
(* ends when the application's has, with every event given.                *)
(***************************************************************************)
NoEventIsLost ==
  /\ given \o ready = produced
  /\ pc = "over" => ended /\ ready = <<>>

(***************************************************************************)
(* While it lasts, the stream is never silent for good; and "the wrapped   *)
(* stream ends as soon as the application stream ends", though comments    *)
(* may compete with its last events.                                       *)
(***************************************************************************)
LivesWithApplication ==
  /\ \A b \in {0, 1} : last.bit = b ~> last.bit # b \/ pc = "over"
  /\ ended ~> pc = "over"
=============================================================================
