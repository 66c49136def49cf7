SPECIFICATION Spec
CONSTANTS
  Block <- const_Block
  Header = 1
  Order <- const_Order
  MaxInstr = 10
  Programs <- const_Programs
  Size = 16
  IntSize = 8
INVARIANT
  MeaningAlwaysKept
CHECK_DEADLOCK FALSE
