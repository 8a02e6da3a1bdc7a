SPECIFICATION Spec
CONSTANTS
  Nodes <- MCNodes
  Edges <- MCEdges
  Loops <- MCLoops
  NodeOf <- MCNodeOf
  EdgeOf <- MCEdgeOf
  LoopOf <- MCLoopOf
  Order <- MCOrder
  MaximumConcurrency = 2
  Limits <- MCLimits
  NoNode = "none"
PROPERTIES
  EndedNodesStayEnded
  ApprovalIsForCurrentWork
CHECK_DEADLOCK FALSE
