SPECIFICATION Spec
CONSTANTS
  alice = alice
  bo = bo
  room = room
  other_room = other_room
  host_id = host_id
  other_host = other_host
  chain = chain
  link = link
  Nodes = {alice, bo}
  Rooms = {room, other_room}
  Secrets <- MCSecrets
  Chains = {chain}
  NoChain = no_chain
  Holder <- MCHolder
  Accepted = {chain}
  NotAfter <- MCNotAfter
  Links <- MCLinks
  NoToken = no_token
  ResumeTtl = 2
  Capacity = 1
  WindowSecs = 2
  MaxTracked = 1
  Room = room
  HostId = host_id
  Open = FALSE
  OtherTokens <- MCOtherTokens
  Garbled = garbled
  Candidates <- MCCandidates
  Channel = channel
  RelaySecret = relay_secret
  TurnTtl = 1
  Asks <- MCAsks
  MaxTime = 3
  AliceAsks = 2
  BoAsks = 1
  MaxAsks <- MCMaxAsks
  AliceSays = 1
  BoSays = 0
  MaxSaid <- MCMaxSaid
  MaxStarts = 2
INVARIANT TypeOK
INVARIANT LetThroughBounded
INVARIANT TableBounded
INVARIANT RelayIsNear
INVARIANT RankingsAgree
PROPERTY RefusalsJustified
PROPERTY AdmittedWithAuthority
PROPERTY RelayedInTime
CHECK_DEADLOCK FALSE
