SPECIFICATION FairSpec
CONSTANTS
  c1 = c1
  c2 = c2
  c3 = c3
  s1 = s1
  s2 = s2
  Nil = Nil
  Sweeper = Sweeper
  Clients <- TwoClients
  Sessions <- TwoSessions
  Rooms <- NoRoom
  MaxParked = 2
  TTL = 1
  MaxLag = 1
INVARIANT OldestFirst
PROPERTIES
  DisplacedCloses
  ParkedEnds
