SPECIFICATION Spec
CONSTANTS
  MaxNodeKey = 2
  MaxEdgeKey = 2
  MaxNodes = 3
INVARIANT
  NeverCorrupted
