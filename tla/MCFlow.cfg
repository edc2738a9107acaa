SPECIFICATION FairFlowSpec
CONSTANTS
  U64Max = 6
  Window = 3
  Offerable = {0, 1, 2, 3, 4}
  FreshnessSecs = 1
  SkewSlack = 1
  Skews = {0, 2}
  MaxOthers = 1
  MaxTime = 2
INVARIANT FlowTypeOK
INVARIANT FewerThanAWindowWait
INVARIANT NotFromTheFuture
PROPERTY HandedOutWhenUndisturbed
CHECK_DEADLOCK FALSE
