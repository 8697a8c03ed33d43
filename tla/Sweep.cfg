SPECIFICATION Spec
CONSTANTS
  Width = 4
  Addresses <- MCAddresses
  SeqSpace = 2
  Sockets = {"raw", "none"}
  Nobody = Nobody
  MaxOthers = 1
  Ranges <- MCRanges
  MaxHostsPerSubnet = 2
  DiscoveryPorts = {22}
  HostConcurrency = 2
CHECK_DEADLOCK FALSE
INVARIANTS WaitersExact  SilentIsSilent RangeCovered
  
