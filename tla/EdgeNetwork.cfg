SPECIFICATION Spec
CONSTANTS
  NodeNum = 3
  SlotNum = 4
  SlotTicks = 8
  PktBits = 3
  OnTimes = {1, 6, 1000}
  OffTimes = {0, 1}
  MaxBits = {0, 6}
  RequestMaps <- TwoRequests
  JunkBytes = {0, 255}
CHECK_DEADLOCK FALSE
INVARIANTS
  NetTypeOK
  OneOfEach
  NeverFaster
  TagTellsRequest
PROPERTIES
  SentInItsSlot
  EveryRequestSends
  SimulationEnds
