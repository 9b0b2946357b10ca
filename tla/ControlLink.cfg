CONSTANTS
  p1 = p1
  node = node
  hub = hub
  None = None
  n0 = n0
  n1 = n1
  h0 = h0
  h1 = h1
  Junk = Junk
  NoText = NoText
  Typed <- MCTyped
  Port <- MCPort
  Device <- MCDevice
  Kind <- MCKind
  NodeText <- MCNodeText
  HubText <- MCHubText
  DefaultText <- MCDefault
  FactoryText <- MCFactory
  LongRequest <- MCLongRequest
  LongAnswer <- MCLongAnswer
  MaxSession = 2
  MaxRequest = 2
  MaxFault = 1
SPECIFICATION Spec
INVARIANTS NoGapInSession OnlyFirstRequestSwallowed AnswersInOrder NothingLost
PROPERTIES EditsLostOnlyToAnOutstandingRequest LinkContract
CHECK_DEADLOCK FALSE
