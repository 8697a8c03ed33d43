SPECIFICATION FairSpec
CONSTANTS
  Hosts = {h1}
  Ports = {p1, p2}
  CommonPorts = {p1}
  Cycles = {c1}
  DeepScans = {d1}
  PortConcurrency = 1
  MaxFlaps = 1
  MaxImports = 1
  MaxCrashes = 0
PROPERTIES AckComesOff DeepScanEnds PortsConverge
CHECK_DEADLOCK FALSE
