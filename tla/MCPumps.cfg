SPECIFICATION FairSpec
CONSTANTS
  pongWait = 2
  pingPeriod = 3
  ReadLimit = 2
  RTT = 2
  HandlerTime = 1
  MaxEvents = 3
  MaxParts = 3
  MaxInbox = 1
CHECK_DEADLOCK FALSE
INVARIANTS
  DeliveredAreSent
  ResponsiveSurvives
  QuietBounded
  LockedWritesWhole
PROPERTY SilentPeerEnds
