CONSTANTS
  p1 = p1
  p2 = p2
  d1 = d1
  d2 = d2
  a = a
  b = b
  r1 = r1
  r2 = r2
  r3 = r3
  Procs <- MCProcs
  Commands <- MCCommands
  Requests <- MCRequests
  Dirs <- MCDirs
  NoDir = NoDir
  Packages <- MCPackages
  Preferred <- MCPreferred
  Requirements <- MCRequirements
  Providers <- MCProviders
  MayFail = {"zypper", "killed"}
SPECIFICATION Spec
SYMMETRY Symmetry
INVARIANTS TypeOK PreferredIsUsed CleanedUp BuildDepsThere InductiveInv
