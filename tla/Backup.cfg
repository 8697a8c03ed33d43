SPECIFICATION Spec
CONSTANTS
  c24 = c24  c25 = c25  ip1 = ip1  http = http
  n1 = n1  n2 = n2  blank = blank  auto = auto  tcp = tcp  noFile = noFile
  Cidrs <- MCCidrs
  IPs <- MCIPs
  PortNumbers <- MCPorts
  Names <- MCNames
  Blank <- blank
  Methods <- MCMethods
  Saved <- MCSaved
  LastId = 5
  Within <- MCWithin
  Slash24 <- MCSlash24
  Scanned <- MCScanned
  DefaultMethod <- auto
  NoFile <- noFile
  MaxEdits = 2
  MaxExports = 1
  MaxImports = 2
  MaxRestarts = 1
CHECK_DEADLOCK FALSE
INVARIANTS NoOrphans ExportClosed RestoreComplete RestoredAsExported
  
