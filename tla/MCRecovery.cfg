SPECIFICATION RecoverySpec
CONSTANTS
  alice = alice
  bo = bo
  cy = cy
  bob = bob
  unnamed = unnamed
  off = off
  on = on
  Nodes = {alice, bo}
  Names = {}
  NoName = unnamed
  MediaValues = {off}
  DefaultValue = off
  U64Max = 3
  DefaultMaxMembers = 4
  Speakers = {alice}
  KindsOfAll = {"Keepalive", "Leave", "Media"}
  SpokenKinds <- MCSpokenKinds
  Times = {1, 2}
  SendsOfAll = 2
  MaxSends <- MCMaxSends
  MaxPublished = 2
  CapOfAll = 4
  MaxMembers <- MCMaxMembers
  StaleSecs = 0
  Keepers = {alice, bo}
INVARIANT RecoveryTypeOK
INVARIANT NoResurrection
INVARIANT SavedBelief
INVARIANT MergeReconciles
INVARIANT EffectsTrackPresence
PROPERTY OnlyRestartsGoBack
CHECK_DEADLOCK FALSE
