CONSTANTS
  kitchen = kitchen  bedroom = bedroom  broken = broken  factory = factory
  Config = {kitchen, bedroom, broken, factory}
  Invalid = {broken}
  Default = factory
  DeviceId <- MCDeviceId
  Erased = Erased  Torn = Torn  Foreign = Foreign
  Nothing = Nothing
  MaxRequests = 5
SPECIFICATION Spec
INVARIANTS SavedIsBooted GetConfigIsLastSaved
