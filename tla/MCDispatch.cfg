SPECIFICATION Spec
CONSTANTS
  k1 = k1
  k2 = k2
  k3 = k3
  k4 = k4
  k5 = k5
  old = old
  new = new
  Keys <- FiveKeys
  Conns <- TwoConns
  NoKey = NoKey
  MaxKeys = 3
  Compact = 2
  MaxClaims = 8
CHECK_DEADLOCK FALSE
SYMMETRY Symmetry
INVARIANTS
  OncePerWindow
  WindowExact
  BurnedIsHandled
