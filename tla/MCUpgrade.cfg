SPECIFICATION Spec
CONSTANTS
  Poll = Poll
  u1 = u1
  u2 = u2
  g1 = g1
  Upgrades <- TwoUpgrades
  Gets <- NoGet
  InboxCap = 1
  OutboxCap = 1
  MissedLimit = 1
  MaxIn = 2
  MaxOut = 0
  Aborts = FALSE
CHECK_DEADLOCK FALSE
INVARIANTS
  HandledInOrder
  NoOrphanSocket
SYMMETRY Symmetry
