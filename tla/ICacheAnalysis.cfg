SPECIFICATION Spec
CONSTANTS
  Programs <- SmallPrograms
  Address = {0, 1, 2}
  nb_sets = 1
  nb_ways = 2
  cacheline_size = 1
  Options <- AllAnalyses
INVARIANTS VerdictsHold FirstMissHitsLater AccessClassificationSound FixedPoint
PROPERTY Termination
CHECK_DEADLOCK FALSE
