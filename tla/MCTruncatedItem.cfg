CONSTANTS
  None = None
  UsizeMax = 15
  Framings = {"newline"}
  Bytes <- MCBytes
  Items <- MCItems
  Decodable <- MCDecodable
  Junk <- MCJunk
  MaxItems = 2
  MaxStreamFrame = 9
SPECIFICATION ResponseSpec
INVARIANT NothingAfterFailure
CHECK_DEADLOCK FALSE
