SPECIFICATION Spec
CONSTANTS
  PodNum = 2
  KubeNodes = {"n1", "n2"}
  FirstNodes = {"n1", "n2"}
  Wanted <- MCWanted
  NoNode = "none"
  Annotated = {2}
  Foreign = {}
  Cpu <- MCCpu
  Alloc <- MCAlloc
  CountedPhases = {"Pending", "Running"}
  MaxFaults = 2
PROPERTIES
  EveryPodIsTried
  ShutdownEnds
