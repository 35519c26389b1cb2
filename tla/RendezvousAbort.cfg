\* The numbers of the code.
CONSTANTS
  Attempts = 60
  Tested = 6
  StartTime = 1
  Nap = 2
SPECIFICATION Spec
INVARIANT AbortMeansNoConnection
CHECK_DEADLOCK FALSE
