SPECIFICATION ContractSpec
CONSTANTS
  MaxNodeKey = 3
  MaxEdgeKey = 2
  MaxNodes = 4
INVARIANTS
  AdjacencyMatchesEdges
  NoTwinEdges
  Restorable
  NoLeak
PROPERTIES
  FailedCallsChangeNothing
  RefinesDiGraph
