SPECIFICATION Spec
CONSTANTS
  Node = {n1}
  Key = {k1}
  Op = {"Put"}
  Writer = {w1, w2}
  Reader = {}
  LocalReader = {}
  NoOp = NoOp
  Absent = Absent
  Electing = {n1}
  Stopping = {}
  MaxCrashes = 0
  MaxLog = 2
  ApplyCap = 1
  StorageFaults = {"read"}
SYMMETRY RequestSymmetry
INVARIANTS StoreIsReplay
CHECK_DEADLOCK FALSE
