CONSTANTS
  None = None
  UsizeMax = 15
  Framings = {"newline"}
  Bytes <- MCBytes
  Items <- MCItems
  Decodable <- MCDecodable
  Junk <- MCJunk
  MaxItems = 2
  MaxFrame = 5
SPECIFICATION Spec
INVARIANT RefusalsAreTrue
CHECK_DEADLOCK FALSE
