-------------------------- MODULE KeepAlive_proofs --------------------------
(***************************************************************************)
(* Proof that the race of the keep-alive loses no event, for any events,   *)
(* any number of them and any order of the race.                           *)
(***************************************************************************)
EXTENDS KeepAlive, SequenceTheorems, TLAPS

IInv == TypeOK /\ NoEventIsLost

(***************************************************************************)
(* Moving the first waiting event to the end of the given ones keeps what  *)
(* the two make up together: YieldEvent.                                   *)
(***************************************************************************)
LEMMA MoveHead ==
  ASSUME NEW s \in Seq(Events), NEW t \in Seq(Events), t # <<>>
  PROVE  Append(s, Head(t)) \o Tail(t) = s \o t
<1>1. t = <<Head(t)>> \o Tail(t) /\ Head(t) \in Events /\ Tail(t) \in Seq(Events)
  OBVIOUS
<1>2. Append(s, Head(t)) = s \o <<Head(t)>>
  BY <1>1
<1>3. (s \o <<Head(t)>>) \o Tail(t) = s \o (<<Head(t)>> \o Tail(t))
  BY <1>1
<1> QED
  BY <1>1, <1>2, <1>3

\* A new event joins the end of both: Produce.
LEMMA AddLast ==
  ASSUME NEW s \in Seq(Events), NEW t \in Seq(Events), NEW e \in Events
  PROVE  s \o Append(t, e) = Append(s \o t, e)
  OBVIOUS

\* What was yielded last keeps its shape, whatever is yielded: Yielded.
LEMMA YieldedShape ==
  ASSUME NEW what \in {"event", "comment"}, Yielded(what),
         last \in [what : {"nothing", "event", "comment"}, bit : {0, 1}]
  PROVE  last' \in [what : {"nothing", "event", "comment"}, bit : {0, 1}]
<1>1. 1 - last.bit \in {0, 1}
  <2>1. last.bit \in {0, 1}
    OBVIOUS
  <2> QED
    BY <2>1
<1> QED
  BY <1>1 DEF Yielded

LEMMA InitHolds == Init => IInv
<1> SUFFICES ASSUME Init PROVE IInv
  OBVIOUS
<1>1. <<>> \in Seq(Events) /\ <<>> \o <<>> = <<>>
  BY EmptySeq, ConcatEmptySeq
<1>2. last \in [what : {"nothing", "event", "comment"}, bit : {0, 1}]
  BY DEF Init
<1>3. TypeOK
  BY <1>1, <1>2 DEF Init, TypeOK
<1>4. NoEventIsLost
  BY <1>1 DEF Init, NoEventIsLost
<1> QED
  BY <1>3, <1>4 DEF IInv

LEMMA StepPreserves == IInv /\ [Next]_vars => IInv'
<1> SUFFICES ASSUME IInv, [Next]_vars PROVE IInv'
  OBVIOUS
<1> USE DEF IInv, TypeOK, NoEventIsLost
<1>1. ASSUME NEW event \in Events, Produce(event) PROVE IInv'
  BY <1>1, AddLast DEF Produce
<1>2. CASE AppEnds
  BY <1>2 DEF AppEnds
<1>3. CASE TickFires
  BY <1>3 DEF TickFires
<1>4. CASE Prime
  BY <1>4 DEF Prime
<1>5. CASE YieldEvent
  <2>1. last' \in [what : {"nothing", "event", "comment"}, bit : {0, 1}]
    BY <1>5, YieldedShape DEF YieldEvent
  <2>2. /\ Head(ready) \in Events /\ Tail(ready) \in Seq(Events)
        /\ given' \in Seq(Events) /\ ready' \in Seq(Events)
    BY <1>5, HeadTailProperties, AppendProperties DEF YieldEvent
  <2>3. given' \o ready' = produced'
    BY <1>5, MoveHead DEF YieldEvent
  <2> QED
    BY <1>5, <2>1, <2>2, <2>3 DEF YieldEvent
<1>6. CASE YieldComment
  <2>1. last' \in [what : {"nothing", "event", "comment"}, bit : {0, 1}]
    BY <1>6, YieldedShape DEF YieldComment
  <2> QED
    BY <1>6, <2>1 DEF YieldComment
<1>7. CASE Finish
  BY <1>7 DEF Finish
<1>8. CASE UNCHANGED vars
  BY <1>8 DEF vars
<1> QED
  BY <1>1, <1>2, <1>3, <1>4, <1>5, <1>6, <1>7, <1>8 DEF Next, Poll

(***************************************************************************)
(* The events given to the connection and those still waiting are those    *)
(* the application produced, in order, and the wrapped stream ends only    *)
(* after the application's, with every event given.                        *)
(***************************************************************************)
THEOREM NothingIsLost == Spec => []NoEventIsLost
<1>1. Init => IInv
  BY InitHolds
<1>2. IInv /\ [Next]_vars => IInv'
  BY StepPreserves
<1>3. IInv => NoEventIsLost
  BY DEF IInv
<1> QED
  BY <1>1, <1>2, <1>3, PTL DEF Spec
=============================================================================
