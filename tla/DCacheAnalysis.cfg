SPECIFICATION Spec
CONSTANTS
  Programs <- MCPrograms
  Address = {0, 1, 2, 3}
  NbLevels = 2
  nb_sets <- OneSet
  nb_ways <- TwoWays
  cacheline_size <- LineSizes
INVARIANTS LoadsClassified BlocksMissOnce FixedPoint
CHECK_DEADLOCK FALSE
