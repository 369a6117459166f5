CONSTANTS
  Plans <- Tools
  Cap = 2
  Modes = {"wrapper", "output"}
  MayFail = {"load", "pipe", "start", "crash", "timeout"}
  MaxChanges = 2
  MaxSignals = 2
CHECK_DEADLOCK FALSE
SPECIFICATION Spec
INVARIANTS BootSucceeds AllRelayed NoOrphan StatusIsTheTools InductiveInv
PROPERTY RunEnds
