CONSTANTS
  d1 = d1  a1 = a1
  taro = taro  meal = meal  on = on  off = off
  Device = {d1}
  ActionId = {a1}
  EventId <- MCEventIds
  Family = {taro}
  StateType <- MCStates
  StateValue <- MCValues
  Configs <- MCOneAction
  Common = Common
  Keep = Keep
  Unset = Unset
  NoDatagram = NoDatagram
  Idle = Idle
  ChannelCapacity = 1
  RetryCount = 1
  MaxBoot = 2
  MaxSequence = 2
  MaxCrashes = 1
  MaxEdits = 0
SPECIFICATION DeliverySpec
INVARIANTS DeliveryTypeOK DeliveredMeansRecorded OvertakenOnlyIfAbandoned
PROPERTY ContractSafety
