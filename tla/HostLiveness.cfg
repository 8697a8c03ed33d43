SPECIFICATION FairSpec
CONSTANTS
  IPs = {a1, a2}
  Expanded = {a1}
  WithPTR = {a1}
  MissThreshold = 2
  MaxFlips = 1
  MaxEdits = 2
  MaxFaults = 1
INVARIANTS DownMeansSilent  NewHostAnnounced
PROPERTIES ImplementsHostStatus SilentGoesDown AnsweringComesUp
