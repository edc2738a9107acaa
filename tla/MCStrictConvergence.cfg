SPECIFICATION Spec
CONSTANTS
  alice = alice
  bo = bo
  cy = cy
  bob = bob
  unnamed = unnamed
  off = off
  on = on
  Nodes = {alice, bo, cy}
  Names = {}
  NoName = unnamed
  MediaValues = {off, on}
  DefaultValue = off
  U64Max = 3
  DefaultMaxMembers = 4
  Speakers = {alice}
  Talker = alice
  TalkerKinds = {"Join", "RaiseHand"}
  OtherKinds = {}
  SpokenKinds <- MCSpokenKinds
  Times = {1, 2}
  TalkerSends = 2
  OtherSends = 0
  MaxSends <- MCMaxSends
  MaxPublished = 2
  CapOfAll = 4
  MaxMembers <- MCMaxMembers
SYMMETRY Listeners
INVARIANT StrictConvergence
CHECK_DEADLOCK FALSE
