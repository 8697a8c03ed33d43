SPECIFICATION FairSpec
CONSTANTS
  Capacity = 2
  Requests = {r1, r2}
  MaxChanges = 3
  MaxQuiet = 2
  MaxGaps = 2
INVARIANTS FreshOrExcused
PROPERTY ChangesReachThePage
CHECK_DEADLOCK FALSE
