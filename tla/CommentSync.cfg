SPECIFICATION FairSpec
CONSTANTS
  Threads = {t1}
  Scenarios <- MCScenarios
INVARIANT DiskCurrent
PROPERTIES Converges DeletedStaysDeleted NothingLost UserStatusKept
CHECK_DEADLOCK FALSE
