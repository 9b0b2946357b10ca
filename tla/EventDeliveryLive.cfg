CONSTANTS
  d1 = d1  a1 = a1
  taro = taro  meal = meal  on = on  off = off
  Device = {d1}
  ActionId = {a1}
  EventId <- MCEventIds
  Family = {taro}
  StateType <- MCStates
  StateValue <- MCValues
  Configs <- MCOneAction
  Common = Common
  Keep = Keep
  Unset = Unset
  NoDatagram = NoDatagram
  Idle = Idle
  ChannelCapacity = 1
  RetryCount = 1
  MaxBoot = 1
  MaxSequence = 3
  MaxCrashes = 0
  MaxEdits = 0
SPECIFICATION DeliveryFairSpec
PROPERTIES InputNeverStuck ContractHolds
