SPECIFICATION CallsSpec
CONSTANTS
  Node <- const_Node
  Key <- const_Key
INVARIANTS
  ListsReachable
  HasPathCorrect
  DominatorsFirst
  RpoListsReachable
PROPERTY
  CallsReturn
