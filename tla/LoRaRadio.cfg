\* Several packets on the air, so that one can overtake the reading of another,
\* packets sent, channel changes asked for while another is being handled, and
\* frequency tables that replace each other.  The queue holds two commands.
SPECIFICATION FairSpec
CONSTANTS
  MaxPackets = 3
  MaxSends = 2
  MaxHops = 3
  MaxTables = 3
  QueueLength = 2
INVARIANTS
  PostedInOrder
  NotDeaf
  StaysAsSet
PROPERTIES
  SendReturns
CONSTRAINT NoClash
CHECK_DEADLOCK FALSE
