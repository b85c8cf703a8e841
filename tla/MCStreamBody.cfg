CONSTANTS
  None = None
  UsizeMax = 15
  Framings = {"none", "newline", "netstring", "eventStream"}
  Bytes <- MCBytes
  Items <- MCItems
  Decodable <- MCDecodable
  Junk <- MCJunk
  MaxItems = 2
  MaxFrame = 5
SPECIFICATION FairSpec
INVARIANTS NetstringRefusalsAreTrue JunkIsReported
PROPERTIES DeliversItems StreamEnds
CHECK_DEADLOCK FALSE
