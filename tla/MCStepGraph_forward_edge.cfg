SPECIFICATION Spec
CONSTANTS
  NTasks = 3
  MaxSteps = 1
  NPhases = 2
  Missions <- ShapeMissions
INVARIANTS
  AcceptingTaskRuns
