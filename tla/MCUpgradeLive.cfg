SPECIFICATION FairSpec
CONSTANTS
  Poll = Poll
  u1 = u1
  u2 = u2
  g1 = g1
  Upgrades <- OneUpgrade
  Gets <- OneGet
  InboxCap = 1
  OutboxCap = 1
  MissedLimit = 1
  MaxIn = 0
  MaxOut = 0
  Aborts = FALSE
CHECK_DEADLOCK FALSE
PROPERTIES
  UpgradeReleases
  ClosedEnds
