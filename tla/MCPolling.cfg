SPECIFICATION FairSpec
CONSTANTS
  Poll = Poll
  u1 = u1
  u2 = u2
  g1 = g1
  Upgrades <- NoUpgrade
  Gets <- OneGet
  InboxCap = 1
  OutboxCap = 2
  MissedLimit = 1
  MaxIn = 1
  MaxOut = 2
  Aborts = TRUE
CHECK_DEADLOCK FALSE
INVARIANTS
  WireContiguous
PROPERTIES
  NothingStranded
