\* Two entries of one bucket, the older one looked up after the newer came.
CONSTANTS
  lower = lower
  UPPER = UPPER
  other = other
  b1 = b1
  b2 = b2
  Name = {lower, UPPER, other}
  Value = {1}
  Bucket = {b1, b2}
  Hash <- MCHash
  Folded <- MCFolded
  Lifetimes <- MCLong
  MaxNodes = 2
  MaxClock = 2
SPECIFICATION Spec
PROPERTY HitIsMostRecent
CHECK_DEADLOCK FALSE
