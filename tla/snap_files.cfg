CONSTANTS
  p1 = p1
  p2 = p2
  Procs <- TwoProcs
  Commands <- Lines
  Faults = {"killed", "lost", "lmFailed"}
  SnapNames = {"snap0", "snap1"}
  InitialSnaps <- NoneYet
  NoName = NoName
  NoSnap = NoSnap
  Gone = Gone
  CopyTime = 0
  MaxClock = 0
  MaxEdits = 0
SPECIFICATION Spec
SYMMETRY Symmetry
INVARIANTS TypeOK ConfigLmRecreated
PROPERTY LostConfigIsFinal
