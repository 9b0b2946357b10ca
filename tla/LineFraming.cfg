CONSTANTS
  MaxLine = 3
  Queue = 1
  PacketSize = 3
  MinRequest = 3
  MaxStream = 6
SPECIFICATION Spec
INVARIANTS HubLinesExact ControlLinesExact NodeLinesExact RequestsAreNotCrowdedOut
