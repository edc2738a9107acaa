SPECIFICATION FairSpec
CONSTANTS
  me = me
  host = host
  Nodes = {me, host}
  Names = {}
  NoName = unnamed
  MediaValues = {off}
  DefaultValue = off
  U64Max = 6
  DefaultMaxMembers = 2
  Me = me
  Host = host
  StaleSecs = 1
  Modes = {"stream", "poll"}
  Cycles = {0, 1}
  First = 2
  Second = 4
  Budget <- MCBudget
  CommandKinds = {"RaiseHand"}
  MaxCommands = 1
  MaxTime = 2
INVARIANT SessionTypeOK
INVARIANT PollingStaysShown
PROPERTY RejoinIsShown
PROPERTY StreamEndsWithRoom
CHECK_DEADLOCK FALSE
