\* One packet on the air and one packet sent.
SPECIFICATION Spec
CONSTANTS
  MaxPackets = 1
  MaxSends = 1
  MaxHops = 1
  MaxTables = 1
  QueueLength = 10
INVARIANT NotReceivingWhileSending
CHECK_DEADLOCK FALSE
