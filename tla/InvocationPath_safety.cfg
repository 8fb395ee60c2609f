SPECIFICATION Spec
CONSTANTS
  Requests = {q1, q2}
  Idempotent = {q1}
  Guarded = {q2}
  MaxConcurrent = 1
  MaxQueueDepth = 1
  None = None
  MaxDrops = 0
INVARIANTS
  SlotHasReason
  SuccessIsTrue
  NoDuplicateEffect
CHECK_DEADLOCK FALSE
