SPECIFICATION HostSpec
CONSTANTS
  Nodes <- MCNodes
  Edges <- MCEdges
  Loops <- MCLoops
  NodeOf <- MCNodeOf
  EdgeOf <- MCEdgeOf
  LoopOf <- MCLoopOf
  Order <- MCOrder
  MaximumConcurrency = 2
  Limits <- MCLimits
  NoNode = "none"
  MaxCrashes = 1
INVARIANTS
  HostTypeOK
  EveryProcessIsAccountedFor
  EveryActiveNodeIsWatched
  LaunchFindsNoProcess
PROPERTIES
  HostImplementsRuntime
CHECK_DEADLOCK FALSE
