SPECIFICATION Spec
CONSTANTS
  Bytes <- Alphabet
  MaxWire = 7
  MaxSize = 66000
  MaxInt = 60
CHECK_DEADLOCK FALSE
INVARIANTS
  EncodeInvertsDecode
  DecodeFollowsGrammar
  BatchRoundTrip
  LengthExact
