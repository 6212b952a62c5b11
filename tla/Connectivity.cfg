\* Two clients, so that one can wait, or come, while the other is served, fails or
\* is let go; a frame from each.
SPECIFICATION FairSpec
CONSTANTS
  Conns = {c1, c2}
  MaxFrames = 1
  Null = Null
INVARIANTS
  SendFuncUp
  ConnectivityTells
  OneClientAtATime
  ConnectionsClosed
PROPERTIES
  StopReturns
  EndIsTold
CHECK_DEADLOCK FALSE
