SPECIFICATION FairSpec
CONSTANTS
  Conns = {c1, c2}
  MaxSessions = 1
  WriteCap = 1
  MaxMsgs = 2
  NumObservers = 1
  None = None
INVARIANTS TypeOK IdsConserved MapExact LiveIdsUnique CapacityBound CloseAnnouncedLate
PROPERTIES ImplementsSlots SessionCleanedUp
CHECK_DEADLOCK FALSE
