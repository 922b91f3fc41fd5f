CONSTANTS
  MaxQueue = 2
  FlushInterval = 2
  MaxEvents = 4
  CanFail = TRUE
SPECIFICATION FairSpec
CHECK_DEADLOCK FALSE
INVARIANTS
  TypeOK
  EventsInOrder
  DropsCounted
  JoinedCloseIsComplete
PROPERTY AcceptedReachesDisk
