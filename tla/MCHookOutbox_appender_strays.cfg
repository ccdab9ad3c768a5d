SPECIFICATION Spec
CONSTANTS
  Procs = {p, q}
  MaxRecords = 2
  MaxEvents = 2
  Cap = 0
  CompactAt = 1
  ClientMax = 2
  CursorStall = 2
  BusyStall = 1
  OrphanCap = 1
  Transforms = FALSE
INVARIANT AcceptedIsKept
