\* A ring of four bytes that wraps twice.
CONSTANTS
  SQ_SIZE = 5
  PHL_SQ_LEVEL = 2
  Lengths = {2, 3}
  DATA_TIMER = 3
  MaxPass = 2
  MaxClock = 6
  MaxBytes = 9
SPECIFICATION Spec
INVARIANTS
  InOrder
  RateKept
PROPERTY TimeoutAfterSending
CHECK_DEADLOCK FALSE
