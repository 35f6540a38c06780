SPECIFICATION FairSpec
CONSTANTS
  Stops = {c1, c2, c3}
  Patient = {c1}
  Main = Main
INVARIANT StoppedMeansDrained
PROPERTY StopStops
CHECK_DEADLOCK FALSE
