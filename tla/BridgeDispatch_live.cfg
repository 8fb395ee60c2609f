SPECIFICATION FairSpec
CONSTANTS
  Calls = {c1,c2}
  StateReqs = {r1,r2}
  None = None
  MaxConcurrent = 1
  MaxQueueDepth = 1
  GraceMs = 0
PROPERTIES EveryCallSettles EveryStateRequestSettles
CHECK_DEADLOCK FALSE
