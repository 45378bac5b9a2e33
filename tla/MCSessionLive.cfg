SPECIFICATION FairSpec
CONSTANTS
  c1 = c1
  c2 = c2
  small = small
  huge = huge
  NoConn = NoConn
  Conns <- ConnsDef
  Data <- OneDatum
  Size <- OneSize
  MaxMsgs = 2
  MaxBytes = 3
  SendBuffer = 1
  MaxSeq = 2
  MaxLag = 0
CHECK_DEADLOCK FALSE
PROPERTIES
  EventuallySeen
