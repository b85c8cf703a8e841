CONSTANTS
  None = None
  UsizeMax = 15
  Framings = {"none", "newline", "netstring", "eventStream"}
  Bytes <- MCBytes
  Items <- MCItems
  Decodable <- MCDecodable
  Junk <- MCJunk
  MaxItems = 2
  MaxStreamFrame = 9
SPECIFICATION FairResponseSpec
INVARIANTS NetstringsFailWhole ResponseJunkIsReported
PROPERTIES ResponseDelivers ResponseEnds
CHECK_DEADLOCK FALSE
