SPECIFICATION Spec
CONSTANTS
  Ids = {"a", "b"}
  Owned = {"a", "b"}
  Key <- MCKey
  Utility = {}
  Guards = {1, 2, 3}
  Pid <- TwoAndOne
  Token <- MCToken
  MaxCtx = 2
  Schedules <- PairSchedules
  WritesFail = FALSE
  ReadsFail = FALSE
  Crashes = FALSE
  MaxAttempts = 2
PROPERTIES
  NeverTouchesBusy
