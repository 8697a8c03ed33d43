SPECIFICATION FairSpec
CONSTANTS
  Clients = {b1, b2, b3}
  Capacity = 2
  MaxEvents = 3
INVARIANTS NoSendOnClosed
PROPERTIES ImplementsLossyTopic LeaverForgotten
CHECK_DEADLOCK FALSE
