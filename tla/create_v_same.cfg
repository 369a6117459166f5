CONSTANTS
  p1 = p1
  p2 = p2
  n1 = n1
  n2 = n2
  Procs <- Two
  Names <- OneName
  Requests <- Any
  MayFail = {}
  Absent = Absent
SPECIFICATION Spec
PROPERTY RemovesOnlyItsOwn
