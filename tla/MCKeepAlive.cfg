CONSTANTS
  Events = {e1, e2}
  MaxEvents = 3
SPECIFICATION FairSpec
INVARIANT NoEventIsLost
PROPERTY LivesWithApplication
CHECK_DEADLOCK FALSE
