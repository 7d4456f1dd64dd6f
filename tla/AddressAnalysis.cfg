CONSTANTS
  Programs <- MCPrograms
  Register <- MCRegisters
  spinit = 64
  CodeStart = 0
  DataPage = 16
  Gp = 36
  Variables <- MCVariables
  Word = 4
  Inputs = {20, 24}
SPECIFICATION Spec
INVARIANTS RangesSound
PROPERTY Termination
CHECK_DEADLOCK FALSE
