SPECIFICATION FairSpec
CONSTANTS
  Conns = {c1, c2, c3, c4}
  MaxConnections = 2
  Tls = TRUE
INVARIANTS
  TypeOK
  PermitsConserved
PROPERTIES
  RefusedOnlyAtCap
  QueuedIsSettled
  StallsEnd
CHECK_DEADLOCK FALSE
