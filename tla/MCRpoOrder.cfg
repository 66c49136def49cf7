SPECIFICATION RpoSpec
CONSTANTS
  Node <- const_Node
  Key <- const_Key
INVARIANT
  ReversePostorder
