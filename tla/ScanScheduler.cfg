SPECIFICATION FairSpec
CONSTANTS
  Subnets = {s1, s2}
  Local = {s1}
  Modes = {regular, deep}
  Regular = regular
  Nobody = nobody
  MaxTriggers = 1
  MaxEdits = 2
  MaxFaults = 2
INVARIANTS NewSubnetNotMissed NoDoubleScan
PROPERTIES TriggerServed EnabledIsScanned ShutdownReturns
CHECK_DEADLOCK FALSE
