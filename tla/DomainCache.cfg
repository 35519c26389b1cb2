\* Three names in one bucket, two of them the same but for their case.
CONSTANTS
  lower = lower
  UPPER = UPPER
  other = other
  b1 = b1
  b2 = b2
  Name = {lower, UPPER, other}
  Value = {1, 2}
  Bucket = {b1, b2}
  Hash <- MCHash
  Folded <- MCFolded
  Lifetimes <- MCLifetimes
  MaxNodes = 3
  MaxClock = 2
SPECIFICATION Spec
INVARIANTS
  ListsWellFormed
  CrashNeedsExpiry
PROPERTY ImplementsExpiringMap
CHECK_DEADLOCK FALSE
