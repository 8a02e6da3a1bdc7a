SPECIFICATION RestoreFairSpec
CONSTANTS
  Sidecars <- MCSidecars
  MaxOps = 2
  MaxAttempts = 2
  MaxStarts = 3
  MaxFaults = 1
CHECK_DEADLOCK FALSE
INVARIANTS
  RestoreTypeOK
  PriorFilesSurvive
  RestoredFilesSurvive
  RefusalsAreExplained
PROPERTIES
  RestoreIsAtomic
  StartSettles
