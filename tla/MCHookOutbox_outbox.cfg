SPECIFICATION FairSpec
CONSTANTS
  Procs = {p, q}
  MaxRecords = 3
  MaxEvents = 4
  Cap = 1
  CompactAt = 1
  ClientMax = 2
  CursorStall = 2
  BusyStall = 1
  OrphanCap = 1
  Transforms = TRUE
INVARIANTS
  IInv
  NothingLost
  SettledInOrder
  DropsCounted
PROPERTIES
  ImplementsQueue
  PendingIsSettled
