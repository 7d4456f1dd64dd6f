SPECIFICATION Spec
CONSTANTS
  Graphs <- SmallGraphs
  MAX_PASSES = 20
INVARIANTS DominatorsExact LoopsNatural
PROPERTY Termination
CHECK_DEADLOCK FALSE
