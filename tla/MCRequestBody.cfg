SPECIFICATION Spec
CONSTANTS
  Callers = {c1, c2, c3}
  MaxBufferedBytes = 2
  Wires <- MCWires
SYMMETRY CallerSymmetry
INVARIANTS
  OneOwner
  BytesAreTheWholeBody
  TooLargeIsTrue
  OneForm
PROPERTIES
  StoredForGood
