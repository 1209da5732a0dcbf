SPECIFICATION Spec
CONSTANTS
  NodeNum = 3
  TypeNum = 2
  Size <- MCSize
  ColdStart <- MCColdStart
  Weight <- MCWeight
  Latency <- MCLatency
  MemCap = 3
  SlotNum = 2
  MaxRequests = 4
  ApiOutcomes = {TRUE}
  Policies = {"greedy dual"}
INVARIANTS
  OneContainerPerRequest
