CONSTANTS
  Programs <- MCPrograms
  NbLevels = 2
  levelAccessCostInstr <- MCInstrLatency
  levelAccessCostData <- MCDataLatency
  MemoryLoadLatency = 10
  MemoryStoreLatency = 7
  PerfectICacheLatency = 1
  PerfectDCacheLatency = 2
  CacheConfigurations <- MCCaches
SPECIFICATION Spec
INVARIANTS CallGraphExact ConstraintsHold TimeBounded StatisticsBound LoadsWithinBounds
PROPERTY ContextualPath
