SPECIFICATION FairSpec
CONSTANTS
  Threads = {t1}
  Scenarios <- MCQuiet
PROPERTY AgentStatusKept
CHECK_DEADLOCK FALSE
