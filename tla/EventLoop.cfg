\* Two slots, frames of two bytes and of one; the queue is a byte longer than QueueBound.
CONSTANTS
  NR_BUFS = 2
  DataLen = 2
  ControlLen = 1
  Rate = 2
  SQ_SIZE = 9
  PHL_SQ_LEVEL = 2
  DATA_TIMER = 3
  ACK_TIMER = 2
  Delay = 1
  PacketGap = 1
  Idle = 1
  Wrap = 7
  MaxFrames = 2
SPECIFICATION FairSpec
INVARIANTS
  NeverOverflows
CHECK_DEADLOCK FALSE
PROPERTIES
  TimersServed
  ReportedUnlessResending
  Offered
