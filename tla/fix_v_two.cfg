CONSTANTS
  p1 = p1
  p2 = p2
  t1 = t1
  t2 = t2
  d1 = d1
  d2 = d2
  Procs <- One
  Targets <- First
  Devices <- TwoDevices
  NoDevice = NoDevice
  NoTarget = NoTarget
  Config <- TwoMounts
  MayFail = {}
  MaxChanges = 1
SPECIFICATION Spec
INVARIANT FixRemoves
