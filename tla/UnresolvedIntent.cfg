SPECIFICATION DeliverySpec
CONSTANTS
  Own <- MCOwn
  Foreign <- MCForeign
  Reconnect = TRUE
  MaxRows = 3
  MaxPending = 2
  MaxDeliveries = 3
  MaxSessions = 2
  MaxFaults = 0
CHECK_DEADLOCK FALSE
INVARIANT UnresolvedIntentSurvives
