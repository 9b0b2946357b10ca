CONSTANTS
  d1 = d1  d2 = d2  e1 = e1  e2 = e2  a1 = a1
  taro = taro  hanako = hanako  meal = meal  snack = snack  on = on  off = off
  Device = {d1, d2}
  EventId = {e1}
  ActionId = {a1}
  Family = {taro, hanako}
  StateType <- MCStates
  StateValue <- MCValues
  Configs <- MCConfigs
  Common = Common
  Keep = Keep
  Unset = Unset
  NoDatagram = NoDatagram
  MaxCrashes = 1
  MaxEdits = 2
SPECIFICATION AuditFairSpec
INVARIANTS NoTraceUnlessRecorded AtMostOnce LossOnlyByCrash
PROPERTIES OnlyManagedDevicesHeard UndisturbedEventHandledAsValidated LoopReturns
