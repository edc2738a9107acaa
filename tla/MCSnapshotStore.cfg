SPECIFICATION Spec
CONSTANTS
  s1 = s1
  s2 = s2
  s3 = s3
  Saves = {s1, s2, s3}
  NoSave = none
  Blocks = 2
INVARIANT TypeOK
INVARIANT SettledSavesSurvive
PROPERTY ImplementsAtomicSnapshot
CHECK_DEADLOCK FALSE
