SPECIFICATION Spec
CONSTANTS
  Hosts = {h1}
  Ports = {p1, p2}
  CommonPorts = {p1}
  Cycles = {c1}
  DeepScans = {d1, d2}
  PortConcurrency = 2
  MaxFlaps = 1
  MaxImports = 1
  MaxCrashes = 1
INVARIANTS NoQuietNewPort NewPortAnnounced AnnouncedOnce
PROPERTIES ClosedOnlyWhenRefused
SYMMETRY DeepScanSymmetry
CHECK_DEADLOCK FALSE
