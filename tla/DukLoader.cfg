CONSTANTS
  Address = {a1, a2}
  Apps = {"test.js", "lorawanscan.js"}
  Setters = {"script", "web"}
  Null = Null
SPECIFICATION FairSpec
INVARIANTS
  HeapSound
  LastSetWins
PROPERTY RecoveryRuns
