SPECIFICATION Spec
CONSTANTS
  Instr = {i1, i2}
  Block = {b1}
  General = {i1}
  Null = Null
  MaxUses = 1
  MaxInputs = 2
INVARIANT
  InternalConnections
