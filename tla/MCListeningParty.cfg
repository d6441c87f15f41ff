CONSTANTS
  g1 = g1
  g2 = g2
  h1 = h1
  h2 = h2
  c1 = c1
  NoStream = NoStream
  Guests = {g1, g2}
  Hosts = {h1}
  Clients = {c1}
  Buffer = 1
  MaxUpdates = 2
  MaxActs = 1
SPECIFICATION PartyFairSpec
INVARIANTS
  GuestHasLatest
  
PROPERTIES
  PauseIsPushed
  RollbackOnlyAtStart
  UpdateEnds
CHECK_DEADLOCK FALSE
