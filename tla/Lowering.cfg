SPECIFICATION BlockSpec
CONSTANTS
  Width = 8
  BYTE = 2
  Regs = {0, 1, 2, 3}
  Window = 8
  MIE = 3
  MPIE = 5
  MTI = 5
  RamBase = 96
  Insns <- MCInsns
  Starts <- MCStarts
INVARIANT ImplementsISA
PROPERTY EveryBlockEnds
CHECK_DEADLOCK FALSE
