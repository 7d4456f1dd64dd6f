SPECIFICATION Spec
CONSTANTS
  VirtAddr <- Addresses
  PageSize = 8
  NumPhysPages = 4
  nb_sets <- Sets
  nb_ways <- Ways
  cacheline_size <- LineSizes
  MaxUse = 7
  Width = 8
  Reg <- IntRegisters
  FloatReg <- FloatRegs
  Values <- Words
  Programs <- AllPrograms
  FloatWord <- AnyFloatWord
  FloatHolds <- AnyFloatHolds
  Region = 32
  ExitAddress = 64
INVARIANTS StatisticsExact DependencesSeen ArithmeticExact
PROPERTY ImplementsLru
CHECK_DEADLOCK FALSE
