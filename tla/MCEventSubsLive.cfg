SPECIFICATION FairSpec
CONSTANTS
  Subs = {s1, s2}
  Firers = {f1, f2}
  Threshold = 1
  Timeout = 1
  MaxPolls = 0
  MaxEvents = 1
  None = None
PROPERTY AbandonedReaped
