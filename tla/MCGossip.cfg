SPECIFICATION Spec
CONSTANTS
  alice = alice
  bo = bo
  cy = cy
  bob = bob
  unnamed = unnamed
  off = off
  on = on
  Nodes = {alice, bo, cy}
  Names = {}
  NoName = unnamed
  MediaValues = {off, on}
  DefaultValue = off
  U64Max = 3
  DefaultMaxMembers = 4
  Speakers = {alice, bo}
  Talker = alice
  TalkerKinds = {"Join", "Leave", "Keepalive", "Media", "RaiseHand"}
  OtherKinds = {"Join", "ScreenShare", "Chat", "Recording", "EndRoom", "Directed"}
  SpokenKinds <- MCSpokenKinds
  Times = {1, 2}
  TalkerSends = 3
  OtherSends = 1
  MaxSends <- MCMaxSends
  MaxPublished = 3
  CapOfAll = 0
  MaxMembers <- MCMaxMembers
SYMMETRY Listeners
INVARIANT TypeOK
INVARIANT RosterWithinCap
INVARIANT PresenceIsLastWord
INVARIANT Convergence
INVARIANT MediaIsLastWord
INVARIANT EffectsTrackPresence
INVARIANT SeqNamesOneSignal
INVARIANT EveryKeepaliveCounts
PROPERTY RegistersOnlyAdvance
CHECK_DEADLOCK FALSE
