SPECIFICATION Spec
CONSTANTS
  NodeNum = 2
  TypeNum = 2
  Size <- MCSize
  ColdStart <- MCColdStart
  Weight <- MCWeight
  Latency <- MCLatency
  MemCap = 3
  SlotNum = 4
  MaxRequests = 6
  ApiOutcomes = {TRUE}
  Policies = {"greedy dual", "lru", "flame"}
INVARIANTS
  TypeOK
  MemoryBalance
  NoOvercommit
  FreqCountsUses
  CacheSorted
PROPERTIES
  EvictionsAreJustified
  LiveServicesStay
  ImplementsPool
  EverySlotEnds
