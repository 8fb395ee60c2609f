SPECIFICATION FairSpec
CONSTANTS
  Calls = {c1, c2}
  Guarded = {c2}
  Encodable = {c1}
INVARIANT AnswerOnce
PROPERTIES
  NoSilentDrop
  TrackedIsAnswered
CHECK_DEADLOCK FALSE
