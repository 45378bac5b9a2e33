SPECIFICATION Spec
CONSTANTS
  c1 = c1
  c2 = c2
  c3 = c3
  s1 = s1
  s2 = s2
  Nil = Nil
  Sweeper = Sweeper
  Clients <- ThreeClients
  Sessions <- TwoSessions
  Rooms <- OneRoom
  MaxParked = 1
  TTL = 0
  MaxLag = 0
SYMMETRY Symmetry
INVARIANTS
  ParkedExact
  HubFollowsSessions
  NoClientLeak
  AttachedIsServed
PROPERTIES
  ClosedForGood
