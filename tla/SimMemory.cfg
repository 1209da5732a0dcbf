SPECIFICATION Spec
CONSTANTS
  Programs <- OnlyLru
  NodeNum = 2
  TypeNum = 2
  SlotNum = 3
  TimeSlots = 3
  Nums = {0, 1, 2}
  MaxRequests <- Five
  ReduFactor = 1
  LifeTime = 3
  Size <- Sizes
  ColdStart <- ColdStarts
  Weight <- Weights
  Latency <- OneApart
  MemCap = 3
INVARIANT MemoryIsEnough
