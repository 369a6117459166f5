CONSTANTS
  p1 = p1
  p2 = p2
  u1 = u1
  u2 = u2
  u3 = u3
  c1 = c1
  c2 = c2
  Procs <- OneProc
  Users <- MCUsers
  Containers <- MCContainers
  OwnerOf <- Owned
  Runs <- TwoUsers
  InitialIds <- NoneOrOne
  Width = 5
  MayFail = {}
SPECIFICATION Spec
PROPERTY RangeIsKept
