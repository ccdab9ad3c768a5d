SPECIFICATION Spec
CONSTANTS
  NTasks = 3
  MaxSteps = 1
  NPhases = 1
  Missions <- CleanupMissions
INVARIANTS
  NoStepLeftPlanned
