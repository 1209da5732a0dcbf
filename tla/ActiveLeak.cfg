SPECIFICATION Spec
CONSTANTS
  NodeNum = 2
  TypeNum = 2
  Size <- MCSize
  ColdStart <- MCColdStart
  Weight <- MCWeight
  Latency <- MCLatency
  MemCap = 3
  SlotNum = 1
  MaxRequests = 3
  ApiOutcomes = {TRUE}
  Policies = {"greedy dual"}
INVARIANTS
  AllActiveAreCached
