CONSTANTS
  HighWater = 2
  MaxEvents = 4
SPECIFICATION FairSpec
INVARIANTS
  TypeOK
  InOrder
  NothingLost
PROPERTIES
  StopSeen
  EventsAreHandled
