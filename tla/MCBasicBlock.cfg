SPECIFICATION ContractSpec
CONSTANTS
  Instr = {i1, i2, i3}
  Block = {b1, b2}
  General = {}
  Null = Null
  MaxUses = 3
  MaxInputs = 2
SYMMETRY
  Symmetry
INVARIANTS
  Placed
  Linked
  DefUse
  OnlyLooseUsesThrow
CHECK_DEADLOCK FALSE
