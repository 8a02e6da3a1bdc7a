SPECIFICATION Spec
CONSTANTS
  Nodes <- MCNodes
  Edges <- MCEdges
  Loops <- MCLoops
  NodeOf <- MCNodeOf
  EdgeOf <- MCEdgeOf
  LoopOf <- MCLoopOf
  Order <- MCOrder
  MaximumConcurrency = 3
  Limits <- MCLimits
  NoNode = "none"
INVARIANTS
  ConcurrencyWithinLimit
  ExclusiveKeysHeldOnce
  DemandWithinLimits
CHECK_DEADLOCK FALSE
