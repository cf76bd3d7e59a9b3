CONSTANTS
  Width = 5
  Cells = 8
  Operands <- FusionOperands
  Images <- MCImages
  InputCells = {1, 22}
  MaxIO = 2
  NoPair = NoPair
SPECIFICATION Spec
INVARIANTS TypeOK ForwardingIsLive Retryable
PROPERTY ImplementsSequential
