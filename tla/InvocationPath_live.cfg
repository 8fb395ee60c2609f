SPECIFICATION FairSpec
CONSTANTS
  Requests = {q1}
  Idempotent = {q1}
  Guarded = {q1}
  MaxConcurrent = 1
  MaxQueueDepth = 1
  None = None
  MaxDrops = 1
PROPERTIES
  RequestAnswered
CHECK_DEADLOCK FALSE
