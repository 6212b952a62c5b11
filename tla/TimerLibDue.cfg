\* Two timers, functions that do not throw.
SPECIFICATION FairTimerSpec
CONSTANTS
  MaxTimers = 2
  Timeouts = {3}
  Intervals = {3}
  Throws = FALSE
  MaxSlow = 1
  Jumps = {1}
  MaxJumps = 0
PROPERTIES
  TimeoutAlwaysEnds
