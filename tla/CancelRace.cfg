SPECIFICATION FairHostSpec
CONSTANTS
  Nodes <- MCNodes
  Edges <- MCEdges
  Loops <- MCLoops
  NodeOf <- MCNodeOf
  EdgeOf <- MCEdgeOf
  LoopOf <- MCLoopOf
  Order <- MCOrder
  MaximumConcurrency = 2
  Limits <- MCLimits
  NoNode = "none"
  MaxCrashes = 0
PROPERTIES
  CancelledRunSettles
CHECK_DEADLOCK FALSE
