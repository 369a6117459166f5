CONSTANTS
  p1 = p1
  p2 = p2
  Procs <- Two
  MaxBuild = 2
  MayFail = {"flush", "clean", "again", "rootfs", "cut", "interrupt", "killed"}
SPECIFICATION Spec
INVARIANTS TypeOK FreshImage IdIsLast CacheInv
SYMMETRY Symmetry
