SPECIFICATION FairSpec
CONSTANTS
  Holds = {h1, h2}
  MaxEvents = 2
INVARIANTS TypeOK OwnEventReturned 
PROPERTIES  ReturnsUnlessStuck
CHECK_DEADLOCK FALSE
