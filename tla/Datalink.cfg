\* Both stations send, and the four sequence numbers of A wrap around.
CONSTANTS
  A = a
  B = b
  MAX_SEQ = 3
  PktsA = 4
  PktsB = 1
  PktLimit <- MCPktLimit
  MaxChan = 2
SPECIFICATION Spec
INVARIANTS
  WindowOK
  TimersGuardOutstanding
  RetransmitBuffered
  NoBadPacket
  AtMostOneNak
  AckHonest
  NeverStuck
  NoOverlap
PROPERTY ImplementsReliableLink
CHECK_DEADLOCK FALSE
