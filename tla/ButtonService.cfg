SPECIFICATION FairSpec
CONSTANTS
  MaxPresses = 4
  Timeout = 3
  MinGap = 1
  MaxLate = 1
INVARIANTS
  NotDeaf
  CountIsRight
PROPERTY
  FrameEnds
