SPECIFICATION FairSpec
CONSTANTS
  list = list
  open = open
  editor = editor
  comments = comments
  reopened = reopened
  Names = {list, open}
  Batches = {editor, comments, reopened}
  Provides <- MCProvides
  NoBatch = NoBatch
  MaxDrops = 1
  MaxSseDrops = 1
  MaxReloads = 1
  MaxAgain = 1
INVARIANTS BatchesKeepNames CatalogAccurate AgentHears
PROPERTY AgentCatchesUp
CHECK_DEADLOCK FALSE
