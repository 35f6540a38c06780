SPECIFICATION FairSpec
CONSTANTS
  Holds = {h1, h2}
  MaxEvents = 2
PROPERTY HoldReturns
CHECK_DEADLOCK FALSE
