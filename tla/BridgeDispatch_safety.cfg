SPECIFICATION Spec
CONSTANTS
  Calls = {c1, c2, c3, c4}
  StateReqs = {}
  None = None
  MaxConcurrent = 1
  MaxQueueDepth = 2
  GraceMs = 15000
SYMMETRY Symmetry
INVARIANTS
  SlotAccounting
  NoIdleSlot
  CallerAccounted
  CancelFollowsInvoke
PROPERTIES
  SettleOnce
  ImplementsService
CHECK_DEADLOCK FALSE
