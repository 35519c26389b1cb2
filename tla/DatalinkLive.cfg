\* A fair link, four sequence numbers, both stations send.
CONSTANTS
  A = a
  B = b
  MAX_SEQ = 3
  PktsA = 2
  PktsB = 1
  PktLimit <- MCPktLimit
  MaxChan = 1
SPECIFICATION FairSpec
PROPERTIES
  ImplementsFairReliableLink
  EventuallyAcknowledged
CHECK_DEADLOCK FALSE
