CONSTANTS
  Producers <- MCProducers
  Cells <- MCCells
  None = None
SPECIFICATION FairSpec
INVARIANTS
  NeverSleepsOnWork
  ResetNotLost
  FreshStart
PROPERTIES
  BusSpec
  EventsHandled
  ResetServed
