\* 2^32 is scaled down to 16 and 24 hours to 3 ticks of 2 ms; the requests are
\* "disable", less than a tick, whole and broken ticks, and the largest value.
SPECIFICATION FairSpec
CONSTANTS
  Word = 16
  MsPerTick = 2
  MaxDelay = 3
  Requests = {0, 1, 6, 15}
  MaxSlow = 2
INVARIANT
  NeverLate
PROPERTIES
  NeverEarly
  TimerExpires
