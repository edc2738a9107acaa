SPECIFICATION InboxSpec
CONSTANTS
  U64Max = 7
  Window = 3
  Offerable = {0, 1, 2, 3, 4, 5, 6}
INVARIANT InboxTypeOK
INVARIANT Ascending
INVARIANT BufferBounded
INVARIANT NothingLostAhead
PROPERTY GapGivenUpOnlyWhenFull
PROPERTY ImplementsStream
