SPECIFICATION BbSpec
CONSTANTS
  MaxNodeKey = 2
  MaxEdgeKey = 2
  MaxNodes = 3
  MaxBlocks = 2
INVARIANTS
  KeyIsBlockId
  OwnIdsAreFree
  HeaderIsTheOne
  KeysFresh
  NeverOwnedTwice
