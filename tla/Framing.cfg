\* Three frames, short ones and long ones, hit up to three times.
CONSTANTS
  Sizes = {1, 3}
  BlockSizes = {6}
  MaxFrames = 3
  MaxNoise = 3
  MaxBlocks = 2
SPECIFICATION Spec
INVARIANTS
  CostOfNoise
  AbortNeedsTwoHits
PROPERTY ImplementsNoisyLink
CHECK_DEADLOCK FALSE
