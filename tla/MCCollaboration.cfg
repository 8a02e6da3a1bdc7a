SPECIFICATION DeliveryFairSpec
CONSTANTS
  Own <- MCOwn
  Foreign <- MCForeign
  Reconnect = TRUE
  MaxRows = 2
  MaxPending = 2
  MaxDeliveries = 3
  MaxSessions = 2
  MaxFaults = 1
CHECK_DEADLOCK FALSE
INVARIANTS
  DeliveryTypeOK
  AcknowledgedIsDurable
  NoDeliveryForgotten
  IntentSurvives
PROPERTIES
  SettlementsAreFinal
  ReconnectCompletes
