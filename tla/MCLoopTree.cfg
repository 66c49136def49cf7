SPECIFICATION TreeSpec
CONSTANTS
  Node <- const_Node
  Key <- const_Key
  Graphs <- const_Graphs
INVARIANTS
  EveryCycleReported
  OnlyCyclesReported
  ReducibleAreNatural
  ColorsRestored
  LoopsNest
  LabelsAreInnermost
PROPERTY
  BuildReturns
CHECK_DEADLOCK FALSE
