SPECIFICATION FairSpec
CONSTANTS
  Ids = {"a", "u"}
  Owned = {"a"}
  Key <- MCKey
  Utility = {}
  Guards = {1, 2}
  Pid <- MCToken
  Token <- MCToken
  MaxCtx = 2
  Schedules <- AliasSchedules
  WritesFail = TRUE
  ReadsFail = TRUE
  Crashes = TRUE
  MaxAttempts = 2
INVARIANTS
  UserModelsStay
PROPERTIES
  GuardsDescend
  BatchEnds
