SPECIFICATION Spec
CONSTANTS
  Calls = {t1, t2, t3}
  Creators = {t3}
  Other = Other
  MaxOthers = 1
  MaxBlocks = 3
  None = None
INVARIANTS TypeOK RejectedOnlyIfOvertaken PoolExecutable
CHECK_DEADLOCK FALSE
