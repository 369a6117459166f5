CONSTANTS
  p1 = p1
  p2 = p2
  n1 = n1
  n2 = n2
  Procs <- Two
  Names <- TwoNames
  Requests <- Own
  MayFail = {"stop", "destroy", "killed"}
  Absent = Absent
SPECIFICATION FairSpec
INVARIANTS TypeOK InductiveInv ConfigLmIsLast FailureLeavesNothing
PROPERTY CommandEnds
