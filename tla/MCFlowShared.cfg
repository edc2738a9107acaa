SPECIFICATION FairFlowSpec
CONSTANTS
  U64Max = 6
  Window = 5
  Offerable = {0, 1, 2, 3, 4}
  FreshnessSecs = 0
  SkewSlack = 1
  Skews = {0}
  MaxOthers = 1
  MaxTime = 0
PROPERTY EverySignalHandedOut
CHECK_DEADLOCK FALSE
