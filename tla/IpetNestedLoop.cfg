CONSTANTS
  Programs <- NestedLoopPrograms
  NbLevels = 2
  levelAccessCostInstr <- MCInstrLatency
  levelAccessCostData <- MCDataLatency
  MemoryLoadLatency = 10
  MemoryStoreLatency = 7
  PerfectICacheLatency = 1
  PerfectDCacheLatency = 2
  CacheConfigurations <- MCCaches
SPECIFICATION Spec
INVARIANT ConstraintsHold
