SPECIFICATION Spec
CONSTANTS
  Ids = {"a", "u"}
  Owned = {"a"}
  Key <- MCKey
  Utility = {"a"}
  Guards = {1, 2}
  Pid <- Together
  Token <- MCToken
  MaxCtx = 2
  Schedules <- AliasSchedules
  WritesFail = FALSE
  ReadsFail = FALSE
  Crashes = FALSE
  MaxAttempts = 1
INVARIANTS
  UtilityOnlyReloaded
