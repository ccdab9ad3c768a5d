SPECIFICATION Spec
CONSTANTS
  NTasks = 2
  MaxSteps = 2
  NPhases = 1
  Missions <- GateMissions
INVARIANTS
  IInv
  StepsInOrder
  ApprovedStaysReady
PROPERTIES
  Descends
  RunEnds
