SPECIFICATION Spec
CONSTANTS
  NTasks = 3
  MaxSteps = 1
  NPhases = 2
  Missions <- ShapeMissions
INVARIANTS
  TypeOK
  RunsOnSettledInputs
  RunningIsInFlight
  RootCauseNamed
  HealthyLineageCompletes
  StopEndsRun
  SurvivorRuns
  OrderedLeavesNone
  LineageInv
PROPERTIES
  EndedIsFinal
