\* With three timers two are left when one goes, and others are set, cancelled or due
\* while it is called; the delays are shorter and longer than the slowest call.
SPECIFICATION FairTimerSpec
CONSTANTS
  MaxTimers = 3
  Timeouts = {2}
  Intervals = {1}
  Throws = TRUE
  MaxSlow = 1
  Jumps = {1}
  MaxJumps = 1
INVARIANTS
  ArmedForFirst
PROPERTIES
  TimeoutCalledOnce
  TimeoutEnds
