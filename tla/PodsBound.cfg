SPECIFICATION Spec
CONSTANTS
  PodNum = 3
  KubeNodes = {"n1", "n2"}
  FirstNodes = {"n1"}
  Wanted <- MCWanted
  NoNode = "none"
  Annotated = {2, 3}
  Foreign = {3}
  Cpu <- MCCpu
  Alloc <- MCAlloc
  CountedPhases = {"Running"}
  MaxFaults = 1
INVARIANTS
  PodTypeOK
  CrashNeedsStaleNodes
  NoPodIsForgotten
  BoundWhereAsked
PROPERTIES
  RoomSeenIsLeft
