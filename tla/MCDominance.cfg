SPECIFICATION QuerySpec
CONSTANTS
  Node <- const_Node
  Key <- const_Key
  Graphs <- const_Graphs
INVARIANTS
  DominatesEveryPath
  QueryRestores
  QueryRestoresColors
PROPERTY
  QueryReturns
