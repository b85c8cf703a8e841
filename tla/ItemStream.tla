----------------------------- MODULE ItemStream -----------------------------
(***************************************************************************)
(* What a streamed body promises its reader, without bytes: the outcomes   *)
(* of the sender's items, in order and each once, and then an end that is  *)
(* only called complete when none is missing.                              *)
(***************************************************************************)
EXTENDS Naturals, Sequences

CONSTANT Outcomes   \* what an item may come out as

VARIABLES
  source,   \* the outcomes of the items the sender has produced
  got,      \* those the reader has been given
  closed,   \* will the sender produce no more
  end       \* "open", "complete" or "failed"

itemVars == <<source, got, closed, end>>

ItemInit == source = <<>> /\ got = <<>> /\ closed = FALSE /\ end = "open"

Produce ==
  /\ ~closed
  /\ \E o \in Outcomes : source' = Append(source, o)
  /\ UNCHANGED <<got, closed, end>>

\* The sender is done; its last item may come with the end.
Close ==
  /\ closed' = TRUE
  /\ \/ source' = source
     \/ \E o \in Outcomes : source' = Append(source, o)
  /\ UNCHANGED <<got, end>>

Deliver ==
  /\ end = "open" /\ Len(got) < Len(source)
  /\ got' = Append(got, source[Len(got) + 1])
  /\ UNCHANGED <<source, closed, end>>

Complete ==
  /\ end = "open" /\ closed /\ got = source
  /\ end' = "complete"
  /\ UNCHANGED <<source, got, closed>>

\* A failure cuts the stream short, openly.
FailOpenly ==
  /\ end = "open"
  /\ end' = "failed"
  /\ UNCHANGED <<source, got, closed>>

ItemNext == Produce \/ Close \/ Deliver \/ Complete \/ FailOpenly

ItemSpec == ItemInit /\ [][ItemNext]_itemVars
=============================================================================
