--------------------------- MODULE MCRequestBody ---------------------------
(***************************************************************************)
(* RequestBody with three holders, a limit of two bytes and the wires that *)
(* differ in what the limit and the end of the body do.                    *)
(***************************************************************************)
EXTENDS RequestBody, TLC

Wire(length, broken) == [length |-> length, broken |-> broken]

MCWires ==
  { Wire(<<>>, FALSE),          \* no body
    Wire(<<1, 2>>, FALSE),      \* exactly the limit
    Wire(<<1, 2, 2>>, FALSE),   \* exactly the limit, then trailers
    Wire(<<1, 3>>, FALSE),      \* one byte over, in the second frame
    Wire(<<1>>, TRUE),          \* broken off after a byte
    Wire(<<3, 4>>, TRUE) }      \* over the limit before it breaks

CallerSymmetry == Permutations(Callers)

=============================================================================
