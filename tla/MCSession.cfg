SPECIFICATION Spec
CONSTANTS
  c1 = c1
  c2 = c2
  small = small
  huge = huge
  NoConn = NoConn
  Conns <- ConnsDef
  Data <- TwoData
  Size <- TwoSize
  MaxMsgs = 2
  MaxBytes = 3
  SendBuffer = 1
  MaxSeq = 3
  MaxLag = 1
SYMMETRY Symmetry
CHECK_DEADLOCK FALSE
INVARIANTS
  BufferRun
  BufferCaps
  PeerPrefix
  UnseenInFlight
  GapOnlyBeyondWindow
PROPERTY ImplementsReliableStream
