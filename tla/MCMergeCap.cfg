SPECIFICATION RecoverySpec
CONSTANTS
  alice = alice
  bo = bo
  cy = cy
  bob = bob
  unnamed = unnamed
  off = off
  on = on
  Nodes = {alice, bo, cy}
  Names = {}
  NoName = unnamed
  MediaValues = {off, on}
  DefaultValue = off
  U64Max = 3
  DefaultMaxMembers = 1
  Speakers = {alice, cy}
  KindsOfAll = {"Join"}
  SpokenKinds <- MCSpokenKinds
  Times = {1, 2}
  SendsOfAll = 1
  MaxSends <- MCMaxSends
  MaxPublished = 2
  CapOfAll = 1
  MaxMembers <- MCMaxMembers
  StaleSecs = 0
  Keepers = {bo}
INVARIANT RosterWithinCap
CHECK_DEADLOCK FALSE
