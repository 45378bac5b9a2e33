SPECIFICATION ringSpec
CONSTANTS
  small = small
  large = large
  huge = huge
  Data <- AllData
  Size <- AllSize
  MaxMsgs = 6
  MaxBytes = 8
  Compact = 3
  MaxPushes = 11
CHECK_DEADLOCK FALSE
INVARIANTS
  SlackBounded
PROPERTIES
  RingIsBuffer
