CONSTANTS
  d1 = d1  d2 = d2
  Device = {d1}
  OfflineTimeout = 4
  HeartbeatInterval = 2
  MaxDelay = 1
  Never = Never
  MaxTime = 9
  MaxRestarts = 2
SPECIFICATION Spec
INVARIANTS StatusIsFresh LiveDeviceStaysOnline
