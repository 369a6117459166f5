CONSTANTS
  p1 = p1
  p2 = p2
  Procs <- TwoProcs
  Commands <- TakeAndReset
  Faults = {"bootFailed"}
  SnapNames = {"snap0", "snap1"}
  InitialSnaps <- NoneYet
  NoName = NoName
  NoSnap = NoSnap
  Gone = Gone
  CopyTime = 1
  MaxClock = 3
  MaxEdits = 0
SPECIFICATION FairSpec
INVARIANT OldestInv
PROPERTIES OldestSurvives ContainerRestarted
