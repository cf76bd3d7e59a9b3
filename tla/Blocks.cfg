CONSTANTS
  Tasks = 1
  MaxBlock = 3
  Data = {d1, d2, d3}
  Key <- Keys
SPECIFICATION Spec
INVARIANTS TypeOK
PROPERTY ImplementsDevice
