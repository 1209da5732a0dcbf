SPECIFICATION Spec
CONSTANTS
  Variants = {"histogram"}
  LifeTime = 2
  NodeNum = 2
  TypeNum = 2
  Size <- MCSize
  ColdStart <- MCColdStart
  Weight <- MCWeight
  Latency <- MCLatency
  MemCap = 4
  MemBound = 8
  SlotNum = 3
  MaxRequests = 5
PROPERTIES
  EverySlotEnds
