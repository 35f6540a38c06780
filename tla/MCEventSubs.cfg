SPECIFICATION Spec
CONSTANTS
  Subs = {s1, s2}
  Firers = {f1, f2}
  Threshold = 1
  Timeout = 0
  MaxPolls = 1
  MaxEvents = 2
  None = None
SYMMETRY SubSymmetry
INVARIANTS PolledOnceInOrder KeptWhilePolled ListenersTracked
