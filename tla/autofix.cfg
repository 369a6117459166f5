CONSTANTS
  p1 = p1
  p2 = p2
  t1 = t1
  t2 = t2
  d1 = d1
  d2 = d2
  Procs <- Two
  Targets <- Both
  Devices <- OneDevice
  NoDevice = NoDevice
  NoTarget = NoTarget
  Config <- Mixed
  MayFail = {"read", "create", "unwritten", "unlink", "symlink", "killed"}
  MaxChanges = 1
SPECIFICATION Spec
SYMMETRY Symmetry
INVARIANTS RestIsKept OkMeansClean LinksAreThere InductiveInv
