\* A byte is 0 or 1. Frames of clients without payload and of one or two pieces, the latter
\* with another length in network byte order; frames for clients that fit one piece or two,
\* legible to all clients or some, and one too long for its length. A first connection with
\* and without a larger MTU, and a second one.
SPECIFICATION FairBleSpec
CONSTANTS
  Base = 2
  DefaultMtu = 8
  Mtus = {10}
  ClientLengths = {0, 2}
  BoardLengths = {2, 3, 4}
  PieceSizes = {2}
  MaxFrames = 2
  MaxConnections = 2
  MaxEvents = 2
  None = None
INVARIANTS
  FramesInOrder
PROPERTIES
  ImplementsChannel
  FrameArrives
  ConnectionIsTold
CHECK_DEADLOCK FALSE
