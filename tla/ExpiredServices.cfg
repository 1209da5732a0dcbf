SPECIFICATION Spec
CONSTANTS
  Variants = {"fixedcaching"}
  LifeTime = 2
  NodeNum = 2
  TypeNum = 2
  Size <- MCSize
  ColdStart <- MCColdStart
  Weight <- MCWeight
  Latency <- MCLatency
  MemCap = 3
  MemBound = 8
  SlotNum = 4
  MaxRequests = 4
PROPERTIES
  ExpiredServicesGo
