SPECIFICATION FairSpec
CONSTANTS
  Subs = {h1, h2, w1}
  WsSubs = {w1}
  Firers = {f1}
  MaxFires = 2
  None = None
INVARIANTS StableDuringDispatch RemovedNotCalled
PROPERTY CallsReturn
CHECK_DEADLOCK FALSE
