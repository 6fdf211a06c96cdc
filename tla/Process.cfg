CONSTANTS
  Servers = {s1, s2}
SPECIFICATION FairSpec
INVARIANT
  TypeOK
PROPERTIES
  SettledStays
  Recovers
  IdleEnds
  ImplementsSessions
