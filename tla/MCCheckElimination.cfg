SPECIFICATION Spec
CONSTANTS
  Node <- const_Node
  Check <- const_Check
  Sig <- const_Sig
  Graphs <- const_Graphs
INVARIANTS
  
  NothingLeftToErase
PROPERTY
  PassReturns
CHECK_DEADLOCK FALSE
