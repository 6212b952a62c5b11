SPECIFICATION FairSpec
CONSTANTS
  Versions = {v1}
  Chunks = 2
  MaxFiles = 2
  MaxAppend = 0
  None = None
INVARIANTS
  RunsTheUpload
  NoDescriptorLost
PROPERTY
  StopReturns
