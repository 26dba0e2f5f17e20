CONSTANTS
  Desc = {d1, d2, d3}
  None = None
  MaxQueue = 2
  MaxWait = 2
SPECIFICATION FairSpec
INVARIANTS
  WalkIsSafe
PROPERTIES
  NobodySkipped
  LineHandled
