SPECIFICATION Spec
CONSTANTS
  Texts <- SmallTexts
  NULL = NULL
INVARIANTS StartsAtEntry EdgesFeasible Unambiguous RegistersCovered KernelAccesses VariablesKnown WordsFound ReadBack
PROPERTY ExecutionIsPath
