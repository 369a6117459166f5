CONSTANTS
  b1 = b1
  u1 = u1
  Procs <- MCProcs
  Builders <- MCBuilders
  Commands <- ListAndRestore
  Faults = {"killed"}
  InitialSnaps <- TakenBefore
  SnapNames = {"snap0", "snap1"}
  NoName = NoName
  NoSnap = NoSnap
  Gone = Gone
  CopyTime = 1
  MaxClock = 2
  MaxEdits = 1
SPECIFICATION BSpec
INVARIANTS InductiveInv OwnSnapshot
PROPERTY CleanBuildPromise
