------------------------- MODULE RequestBody_proofs -------------------------
(***************************************************************************)
(* RequestBody's safety for any number of holders, any set of wires and    *)
(* any limit.  None of the properties is inductive: what an owner has read *)
(* must be tied to how far the body has been read (OwnersKeepUp), and the  *)
(* forms handed out to the slot (FormsMatchSlot).                          *)
(***************************************************************************)
EXTENDS RequestBody, TLAPS

\* take_for_buffering (body.rs:91-102) empties a Streaming slot and no other.
LEMMA TakeForBufferingCases ==
  ASSUME NEW s \in Slots
  PROVE  \/ /\ s = "Streaming"
            /\ TakeForBuffering(s).slot = "Taken" /\ TakeForBuffering(s).got = "body"
         \/ /\ s = "Buffered"
            /\ TakeForBuffering(s).slot = s /\ TakeForBuffering(s).got = "buffered"
         \/ /\ s = "Taken"
            /\ TakeForBuffering(s).slot = s /\ TakeForBuffering(s).got = "error"
BY DEF Slots, TakeForBuffering

\* take_stream (body.rs:65-78) does too, but refuses a buffered body.
LEMMA TakeStreamCases ==
  ASSUME NEW s \in Slots
  PROVE  \/ /\ s = "Streaming"
            /\ TakeStream(s).slot = "Taken" /\ TakeStream(s).got = "body"
         \/ /\ s \in {"Buffered", "Taken"}
            /\ TakeStream(s).slot = s /\ TakeStream(s).got = "error"
BY DEF Slots, TakeStream

\* Whoever has the live body has collected exactly the frames read so far.
OwnersKeepUp ==
  /\ slot = "Streaming" => read = 0
  /\ \A c \in Callers :
       /\ pc[c] \in Owning => acc[c] = Length(read)
       /\ pc[c] \in {"collecting", "storing"} => acc[c] <= MaxBufferedBytes
       /\ pc[c] = "storing" => read = Len(wire.length) /\ ~wire.broken

\* A Buffered slot has the whole body.
StoredIsWhole ==
  slot = "Buffered" =>
    stored = Total /\ Total <= MaxBufferedBytes /\ ~wire.broken

\* Bytes were handed out only if they are still there, the stream only if
\* nobody can be about to store any.
FormsMatchSlot ==
  /\ "bytes" \in given => slot = "Buffered"
  /\ "stream" \in given =>
       slot = "Taken" /\ \A c \in Callers : pc[c] \notin {"collecting", "storing"}
  /\ \A c \in Callers : pc[c] = "rereading" => slot = "Buffered"

IInv ==
  /\ TypeOK
  /\ OneOwner
  /\ OwnersKeepUp
  /\ StoredIsWhole
  /\ FormsMatchSlot
  /\ BytesAreTheWholeBody
  /\ TooLargeIsTrue

\* More frames are never fewer bytes, and every length is a number.
LEMMA LengthMonotone ==
  ASSUME NEW w \in Wires, wire = w,
         NEW i \in 0..Len(w.length), NEW j \in 0..Len(w.length), i <= j
  PROVE  /\ Length(i) \in Nat
         /\ Length(j) \in Nat
         /\ Length(i) <= Length(j)
<1>1. w.length \in Seq(Nat)
  BY WiresType DEF IsWire
<1>2. \A m, n \in DOMAIN w.length : m <= n => w.length[m] <= w.length[n]
  BY WiresType DEF IsWire
<1>3. \A n \in 1..Len(w.length) : w.length[n] \in Nat
  BY <1>1
<1>4. DOMAIN w.length = 1..Len(w.length)
  BY <1>1
<1>5. Len(w.length) \in Nat
  BY <1>1
<1>. QED
  BY <1>2, <1>3, <1>4, <1>5, SMTT(40) DEF Length

LEMMA InitInv == Init => IInv
<1>. SUFFICES ASSUME Init PROVE IInv
  OBVIOUS
<1>1. wire.length \in Seq(Nat)
  BY WiresType DEF Init, IsWire
<1>2. TypeOK
  BY <1>1 DEF Init, TypeOK, Slots, Results, Owning
<1>. QED
  BY <1>2 DEF IInv, Init, OneOwner, OwnersKeepUp, StoredIsWhole, FormsMatchSlot,
              BytesAreTheWholeBody, TooLargeIsTrue, Owning

LEMMA NextInv == IInv /\ [Next]_vars => IInv'
<1>. SUFFICES ASSUME IInv, [Next]_vars PROVE IInv'
  OBVIOUS
<1>. USE DEF IInv
<1>n. /\ Len(wire.length) \in Nat /\ wire \in Wires
      /\ read \in Nat /\ read <= Len(wire.length)
  <2>1. Len(wire.length) \in Nat /\ wire \in Wires
    BY WiresType DEF TypeOK, IsWire
  <2>2. read \in 0..Len(wire.length)
    BY DEF TypeOK
  <2>. QED
    BY <2>1, <2>2
<1>m. /\ Length(read) \in Nat
      /\ read < Len(wire.length) =>
           /\ Length(read + 1) \in Nat
           /\ Length(read) <= Length(read + 1)
           /\ Length(read + 1) <= Total
      /\ Length(0) = 0
      /\ Total \in Nat
  <2>. DEFINE n == Len(wire.length)
  <2>1. read \in 0..n /\ n \in Nat
    BY <1>n DEF TypeOK
  <2>2. Length(read) \in Nat /\ Total \in Nat
    BY <1>n, <2>1, LengthMonotone DEF Total
  <2>3. ASSUME read < n
        PROVE  /\ Length(read + 1) \in Nat
               /\ Length(read) <= Length(read + 1)
               /\ Length(read + 1) <= Total
    BY <1>n, <2>1, <2>3, LengthMonotone DEF Total
  <2>. QED
    BY <2>1, <2>2, <2>3 DEF Length
\* No step changes the wire.
<1>t. wire' = wire /\ Total' = Total /\ Length(read)' = Length(read')
  BY DEF Next, Step, BeginBuffer, ReadStored, CollectFrame, CollectEnd, StoreBuffered,
         BeginStream, PollStream, Drop, vars, Total, Length
<1>1. ASSUME NEW c \in Callers, Step(c) PROVE IInv'
  <2>1. CASE BeginBuffer(c)
    <3>0. slot \in Slots
      BY DEF TypeOK
    <3>1. TypeOK'
      <4>1. wire' \in Wires /\ read' \in 0..Len(wire'.length)
        BY <2>1, <1>t, <1>n DEF BeginBuffer, TypeOK
      <4>2. acc' \in [Callers -> Nat]
        BY <2>1, <1>m, <1>n, <3>0, TakeForBufferingCases DEF BeginBuffer, Return, TypeOK
      <4>3. /\ pc' \in [Callers -> Owning \cup {"idle", "rereading"}]
            /\ result' \in [Callers -> Results]
        BY <2>1, <3>0, TakeForBufferingCases DEF BeginBuffer, Return, TypeOK, Owning, Results
      <4>4. slot' \in Slots /\ stored' \in Nat /\ given' \subseteq {"bytes", "stream"}
        BY <2>1, <3>0, TakeForBufferingCases DEF BeginBuffer, TypeOK, Slots
      <4>. QED
        BY <4>1, <4>2, <4>3, <4>4 DEF TypeOK
    <3>2. OneOwner'
      BY <2>1, <1>m, <1>t, <1>n, MaxBufferedNat, <3>0, TakeForBufferingCases DEF BeginBuffer, Return,
          TypeOK, OneOwner, Owning, Slots
    <3>3. OwnersKeepUp'
      BY <2>1, <1>m, <1>t, <1>n, MaxBufferedNat, <3>0, TakeForBufferingCases DEF BeginBuffer, Return,
          TypeOK, OneOwner, OwnersKeepUp, Owning
    <3>4. (StoredIsWhole /\ FormsMatchSlot)'
      BY <2>1, <1>m, <1>t, <1>n, MaxBufferedNat, <3>0, TakeForBufferingCases DEF BeginBuffer, Return,
          TypeOK, OneOwner, StoredIsWhole, FormsMatchSlot, Owning
    <3>5. (BytesAreTheWholeBody /\ TooLargeIsTrue)'
      BY <2>1, <1>m, <1>t, <1>n, MaxBufferedNat, <3>0, TakeForBufferingCases DEF BeginBuffer, Return,
          TypeOK, StoredIsWhole, FormsMatchSlot,
          BytesAreTheWholeBody, TooLargeIsTrue, OneOwner, OwnersKeepUp, Owning
    <3>. QED
      BY <3>1, <3>2, <3>3, <3>4, <3>5
  <2>2. CASE ReadStored(c)
    <3>1. TypeOK'
      BY <2>2, <1>m, <1>t, <1>n, MaxBufferedNat, ZenonT(60) DEF ReadStored, ReadBuffered, Return,
          TypeOK, Results, Slots, Owning
    <3>2. OneOwner'
      BY <2>2, <1>m, <1>t, <1>n, MaxBufferedNat DEF ReadStored, ReadBuffered, Return,
          TypeOK, OneOwner, Owning, Slots
    <3>3. OwnersKeepUp'
      BY <2>2, <1>m, <1>t, <1>n, MaxBufferedNat DEF ReadStored, ReadBuffered, Return,
          TypeOK, OneOwner, OwnersKeepUp, Owning
    <3>4. (StoredIsWhole /\ FormsMatchSlot)'
      BY <2>2, <1>m, <1>t, <1>n, MaxBufferedNat DEF ReadStored, ReadBuffered, Return,
          TypeOK, OneOwner, StoredIsWhole, FormsMatchSlot, Owning
    <3>5. (BytesAreTheWholeBody /\ TooLargeIsTrue)'
      BY <2>2, <1>m, <1>t, <1>n, MaxBufferedNat DEF ReadStored, ReadBuffered, Return,
          TypeOK, StoredIsWhole, FormsMatchSlot,
          BytesAreTheWholeBody, TooLargeIsTrue, OneOwner, OwnersKeepUp, Owning
    <3>. QED
      BY <3>1, <3>2, <3>3, <3>4, <3>5
  <2>3. CASE CollectFrame(c)
    <3>1. TypeOK'
      <4>1. wire' \in Wires /\ read' \in 0..Len(wire'.length)
        BY <2>3, <1>t, <1>n DEF CollectFrame, TypeOK
      <4>2. acc' \in [Callers -> Nat]
        BY <2>3, <1>m, <1>n DEF CollectFrame, Return, TypeOK
      <4>3. /\ pc' \in [Callers -> Owning \cup {"idle", "rereading"}]
            /\ result' \in [Callers -> Results]
        BY <2>3 DEF CollectFrame, Return, TypeOK, Owning, Results
      <4>4. slot' \in Slots /\ stored' \in Nat /\ given' \subseteq {"bytes", "stream"}
        BY <2>3 DEF CollectFrame, TypeOK, Slots
      <4>. QED
        BY <4>1, <4>2, <4>3, <4>4 DEF TypeOK
    <3>2. OneOwner'
      BY <2>3, <1>m, <1>t, <1>n, MaxBufferedNat DEF CollectFrame, Return,
          TypeOK, OneOwner, Owning, Slots
    <3>3. OwnersKeepUp'
      BY <2>3, <1>m, <1>t, <1>n, MaxBufferedNat DEF CollectFrame, Return,
          TypeOK, OneOwner, OwnersKeepUp, Owning
    <3>4. (StoredIsWhole /\ FormsMatchSlot)'
      BY <2>3, <1>m, <1>t, <1>n, MaxBufferedNat DEF CollectFrame, Return,
          TypeOK, OneOwner, StoredIsWhole, FormsMatchSlot, Owning
    <3>5. BytesAreTheWholeBody'
      BY <2>3, <1>m, <1>t DEF CollectFrame, Return, TypeOK, BytesAreTheWholeBody
    <3>6. TooLargeIsTrue'
      <4>1. acc[c] = Length(read) /\ acc[c] \in Nat
        BY <2>3 DEF CollectFrame, OwnersKeepUp, Owning, TypeOK
      <4>2. acc[c] + (Length(read + 1) - Length(read)) <= Total
        BY <4>1, <2>3, <1>m DEF CollectFrame
      <4>3. \/ result' = result
            \/ /\ acc[c] + (Length(read + 1) - Length(read)) > MaxBufferedBytes
               /\ result' = [result EXCEPT ![c] = "err413"]
        BY <2>3 DEF CollectFrame, Return
      <4>4. result' = result \/ Total > MaxBufferedBytes
        BY <2>3, <4>1, <4>2, <4>3, <1>m, MaxBufferedNat DEF CollectFrame
      <4>. QED
        BY <4>3, <4>4, <1>t DEF TooLargeIsTrue, TypeOK
    <3>. QED
      BY <3>1, <3>2, <3>3, <3>4, <3>5, <3>6
  <2>4. CASE CollectEnd(c)
    BY <2>4, <1>m, <1>n, MaxBufferedNat, ZenonT(60) DEF CollectEnd, Return,
       TypeOK, OneOwner, OwnersKeepUp, StoredIsWhole, FormsMatchSlot,
       BytesAreTheWholeBody, TooLargeIsTrue, Length, Total, Owning, Results, Slots
  <2>5. CASE StoreBuffered(c)
    BY <2>5, <1>m, <1>n, MaxBufferedNat DEF StoreBuffered, Return,
       TypeOK, OneOwner, OwnersKeepUp, StoredIsWhole, FormsMatchSlot,
       BytesAreTheWholeBody, TooLargeIsTrue, Length, Total, Owning, Results, Slots
  <2>6. CASE BeginStream(c)
    <3>0. slot \in Slots
      BY DEF TypeOK
    <3>1. TypeOK'
      <4>1. wire' \in Wires /\ read' \in 0..Len(wire'.length)
        BY <2>6, <1>t, <1>n DEF BeginStream, TypeOK
      <4>2. acc' \in [Callers -> Nat]
        BY <2>6, <1>m, <1>n, <3>0, TakeStreamCases DEF BeginStream, Return, TypeOK
      <4>3. /\ pc' \in [Callers -> Owning \cup {"idle", "rereading"}]
            /\ result' \in [Callers -> Results]
        BY <2>6, <3>0, TakeStreamCases DEF BeginStream, Return, TypeOK, Owning, Results
      <4>4. slot' \in Slots /\ stored' \in Nat /\ given' \subseteq {"bytes", "stream"}
        BY <2>6, <3>0, TakeStreamCases DEF BeginStream, TypeOK, Slots
      <4>. QED
        BY <4>1, <4>2, <4>3, <4>4 DEF TypeOK
    <3>2. OneOwner'
      BY <2>6, <1>m, <1>t, <1>n, MaxBufferedNat, <3>0, TakeStreamCases DEF BeginStream, Return,
          TypeOK, OneOwner, Owning, Slots
    <3>3. OwnersKeepUp'
      BY <2>6, <1>m, <1>t, <1>n, MaxBufferedNat, <3>0, TakeStreamCases DEF BeginStream, Return,
          TypeOK, OneOwner, OwnersKeepUp, Owning
    <3>4. (StoredIsWhole /\ FormsMatchSlot)'
      BY <2>6, <1>m, <1>t, <1>n, MaxBufferedNat, <3>0, TakeStreamCases DEF BeginStream, Return,
          TypeOK, OneOwner, StoredIsWhole, FormsMatchSlot, Owning
    <3>5. (BytesAreTheWholeBody /\ TooLargeIsTrue)'
      BY <2>6, <1>m, <1>t, <1>n, MaxBufferedNat, <3>0, TakeStreamCases DEF BeginStream, Return,
          TypeOK, StoredIsWhole, FormsMatchSlot,
          BytesAreTheWholeBody, TooLargeIsTrue, OneOwner, OwnersKeepUp, Owning
    <3>. QED
      BY <3>1, <3>2, <3>3, <3>4, <3>5
  <2>7. CASE PollStream(c)
    <3>0. /\ acc[c] = Length(read)
          /\ pc[c] = "streaming"
          /\ UNCHANGED <<wire, slot, stored, given>>
      BY <2>7 DEF PollStream, TypeOK, OwnersKeepUp, Owning
    <3>f. \/ /\ read < Len(wire.length)
             /\ read' = read + 1
             /\ acc' = [acc EXCEPT ![c] = acc[c] + (Length(read + 1) - Length(read))]
             /\ UNCHANGED <<pc, result>>
          \/ /\ read = Len(wire.length)
             /\ pc' = [pc EXCEPT ![c] = "idle"]
             /\ \E res \in {"transport error", "clean end"} :
                  result' = [result EXCEPT ![c] = res]
             /\ UNCHANGED <<read, acc>>
      BY <2>7 DEF PollStream, Return
    <3>1. CASE read < Len(wire.length)
      <4>0. acc[c] + (Length(read + 1) - Length(read)) = Length(read + 1)
        BY <3>0, <3>1, <1>m
      <4>1. /\ read' = read + 1
            /\ acc' = [acc EXCEPT ![c] = Length(read + 1)]
            /\ UNCHANGED <<pc, result>>
        <5>1. read # Len(wire.length)
          BY <3>1, <1>n
        <5>. QED
          BY <3>f, <4>0, <5>1
      <4>2. Length(read') = Length(read + 1) /\ Length(read + 1) \in Nat
        BY <4>1, <3>1, <1>m
      <4>3. TypeOK'
        <5>1. read' \in 0..Len(wire'.length)
          BY <4>1, <3>1, <1>n, <1>t
        <5>2. acc' \in [Callers -> Nat]
          BY <4>1, <4>2 DEF TypeOK
        <5>. QED
          BY <5>1, <5>2, <4>1, <3>0 DEF TypeOK
      <4>. QED
        BY <4>1, <4>2, <4>3, <3>0, <1>t
           DEF TypeOK, OneOwner, OwnersKeepUp, StoredIsWhole, FormsMatchSlot,
               BytesAreTheWholeBody, TooLargeIsTrue, Owning
    <3>2. CASE read = Len(wire.length)
      <4>0. ~(read < Len(wire.length))
        BY <3>2, <1>n
      <4>1. /\ pc' = [pc EXCEPT ![c] = "idle"]
            /\ UNCHANGED <<read, acc>>
        BY <3>f, <4>0
      <4>2. \E res \in {"transport error", "clean end"} :
              result' = [result EXCEPT ![c] = res]
        BY <3>f, <4>0
      <4>. QED
        BY <4>1, <4>2, <3>0, <1>t, ZenonT(60)
           DEF TypeOK, OneOwner, OwnersKeepUp, StoredIsWhole, FormsMatchSlot,
               BytesAreTheWholeBody, TooLargeIsTrue, Owning, Results
    <3>. QED
      BY <3>1, <3>2, <1>n
  <2>8. CASE Drop(c)
    BY <2>8, <1>m, <1>n, MaxBufferedNat DEF Drop, Return,
       TypeOK, OneOwner, OwnersKeepUp, StoredIsWhole, FormsMatchSlot,
       BytesAreTheWholeBody, TooLargeIsTrue, Length, Total, Owning, Results, Slots
  <2>. QED
    BY <1>1, <2>1, <2>2, <2>3, <2>4, <2>5, <2>6, <2>7, <2>8 DEF Step
<1>2. CASE UNCHANGED vars
  BY <1>2 DEF vars, TypeOK, OneOwner, OwnersKeepUp, StoredIsWhole, FormsMatchSlot,
              BytesAreTheWholeBody, TooLargeIsTrue, Length, Total
<1>. QED
  BY <1>1, <1>2 DEF Next

\* The whole argument: IInv holds of every reachable state.
THEOREM Invariance == Spec => []IInv
<1>1. Init => IInv
  BY InitInv
<1>2. IInv /\ [Next]_vars => IInv'
  BY NextInv
<1>. QED
  BY <1>1, <1>2, PTL DEF Spec

\* The type invariant, for any number of holders (body.rs:18-28).
THEOREM TypeCorrect == Spec => []TypeOK
<1>1. IInv => TypeOK
  BY DEF IInv
<1>. QED
  BY <1>1, Invariance, PTL

\* The live body has one owner at most, although buffer() gives the lock up
\* between its two critical sections (body.rs:47-54).
THEOREM SingleOwner == Spec => []OneOwner
<1>1. IInv => OneOwner
  BY DEF IInv
<1>. QED
  BY <1>1, Invariance, PTL

\* Bytes handed out are the whole body, within the limit (body.rs:148-166).
THEOREM WholeBodies == Spec => []BytesAreTheWholeBody
<1>1. IInv => BytesAreTheWholeBody
  BY DEF IInv
<1>. QED
  BY <1>1, Invariance, PTL

\* A 413 is the answer to a body over the limit only (body.rs:155-161).
THEOREM TrueRefusals == Spec => []TooLargeIsTrue
<1>1. IInv => TooLargeIsTrue
  BY DEF IInv
<1>. QED
  BY <1>1, Invariance, PTL

\* Bytes and stream are never both handed out (body.rs:56-78).
THEOREM ExclusiveForms == Spec => []OneForm
<1>1. IInv => OneForm
  BY DEF IInv, FormsMatchSlot, OneForm
<1>. QED
  BY <1>1, Invariance, PTL

\* Stored bytes are never lost or replaced (body.rs:65-78, 91-102): a caller
\* that stores owns the body, so the slot was Taken.
THEOREM Stored == Spec => StoredForGood
<1>. DEFINE Kept == slot = "Buffered" => slot' = "Buffered" /\ stored' = stored
<1>1. ASSUME IInv, [Next]_vars PROVE Kept
  <2>1. slot \in Slots
    BY <1>1 DEF IInv, TypeOK
  <2>2. ASSUME NEW c \in Callers, pc[c] = "storing" PROVE slot = "Taken"
    BY <1>1, <2>2 DEF IInv, OneOwner, Owning
  <2>3. CASE UNCHANGED vars
    BY <2>3 DEF vars
  <2>4. ASSUME NEW c \in Callers, Step(c) PROVE Kept
    <3>1. CASE BeginBuffer(c)
      BY <3>1, <2>1, TakeForBufferingCases DEF BeginBuffer
    <3>2. CASE BeginStream(c)
      BY <3>2, <2>1, TakeStreamCases DEF BeginStream
    <3>3. CASE StoreBuffered(c)
      BY <3>3, <2>2 DEF StoreBuffered
    <3>4. CASE ReadStored(c) \/ CollectFrame(c) \/ CollectEnd(c) \/ PollStream(c) \/ Drop(c)
      BY <3>4 DEF ReadStored, CollectFrame, CollectEnd, PollStream, Drop
    <3>. QED
      BY <2>4, <3>1, <3>2, <3>3, <3>4 DEF Step
  <2>. QED
    BY <1>1, <2>3, <2>4 DEF Next
<1>2. Spec => [][Kept]_vars
  BY <1>1, Invariance, PTL DEF Spec
<1>. QED
  BY <1>2 DEF StoredForGood
=============================================================================
