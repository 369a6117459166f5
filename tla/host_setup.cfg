CONSTANTS
  p1 = p1
  p2 = p2
  u1 = u1
  u2 = u2
  u3 = u3
  c1 = c1
  c2 = c2
  Procs <- TwoProcs
  Users <- MCUsers
  Containers <- MCContainers
  OwnerOf <- Owned
  Runs <- OneUser
  InitialIds <- Several
  Width = 5
  MayFail = {"stop", "writeBridge", "gid", "start", "unwritten", "killed"}
SPECIFICATION Spec
INVARIANTS TypeOK RangesDisjoint SetupIsEnough ContainersComeBack InductiveInv
PROPERTY RangeIsKept
SYMMETRY Symmetry
