SPECIFICATION FairSpec
CONSTANTS
  Ide = Ide
  Exts = {a, b}
  Live = Live
  MaxVersion = 3
  MaxDrops = 2
  MaxRateDrops = 1
  MaxPulls = 1
  MaxReloads = 1
INVARIANT ReplayAccurate
PROPERTIES NeverBackwards EventuallyAccurate
CHECK_DEADLOCK FALSE
