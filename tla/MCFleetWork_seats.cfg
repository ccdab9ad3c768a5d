SPECIFICATION MCSpec
CONSTANTS
  n1 = n1
  n2 = n2
  a1 = a1
  a2 = a2
  p = p
  s1 = s1
  s2 = s2
  MaxJobs = 3
  Nodes = {n1, n2}
  Self = none
  NoNode = none
  Addresses = {a1, a2}
  Home <- MCHome
  Profiles = {p}
  Tokens = {t1, t2}
  AddressOf <- MCAddressOf
  ProfileOf <- MCProfileOf
  SessionOf <- MCSessionOf
  Sessions = {s1, s2}
  Keys = {local, endpoint}
  LocalKeys = {local}
  Widths = {1, 2}
  Waited = {1, 3}
  QueueCap = 1
  MaxArriving = 1
  MaxChanges = 1
INVARIANTS
  IInv
  SeatsAreOwned
  WidthKept
  ServedInOrder
  NoLostWakeup
  RanWithinGates
  ToldTruly
  QueueBounded
PROPERTIES
  KeepsLine
  JobsGoForward
  EveryJobEnds
CHECK_DEADLOCK FALSE
