CONSTANTS
  f1 = f1  f2 = f2  a1 = a1  meal = meal  cdc = cdc  app = app
  Family = {f1, f2}
  ActionId = {a1}
  StateType = {meal}
  None = None
  Cdc = cdc
  App = {app}
  Free = Free
  NoRequest = NoRequest
  Configs <- MCConfigs
  SavedRows <- MCRows
SPECIFICATION Spec
INVARIANT CdcLeavesNoLock
