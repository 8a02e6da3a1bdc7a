SPECIFICATION RunsSpec
CONSTANTS
  Runs = {r1, r2, r3}
  History = {r1}
  Owners = {o1, o2}
  NoRun = NoRun
  MaxPending = 2
  MaxPendingPerOwner = 1
  MaxActive = 2
  MaxActivePerOwner = 1
  MaxDisturbances = 1
SYMMETRY Alike
VIEW Seen
INVARIANTS
  RunsTypeOK
  OneSessionPerWorktree
  SessionsAreHeld
  NoFictionalRun
  CleanedIsGone
  NobodyWaitsForEver
PROPERTY
  NothingOutlivesItsOwner
CHECK_DEADLOCK FALSE
