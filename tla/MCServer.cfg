SPECIFICATION FairSpec
CONSTANTS
  c1 = c1
  c2 = c2
  Nobody = Nobody
  Clients <- OneClient
  MaxConnections = 1
  EmitBuffer = 2
  SendBuffer = 1
  MaxEmits = 3
CHECK_DEADLOCK FALSE
INVARIANTS
  GoneIsForgotten
  ConnsExact
  FramesComplete
PROPERTIES
  HubCallsReturn
  DrainCloses
