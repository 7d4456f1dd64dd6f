SPECIFICATION Spec
CONSTANTS
  Programs <- PersistencePrograms
  Address = {0, 1, 2}
  nb_sets = 1
  nb_ways = 2
  cacheline_size = 1
  Options <- AllAnalyses
INVARIANT FirstMissHitsLater
CHECK_DEADLOCK FALSE
