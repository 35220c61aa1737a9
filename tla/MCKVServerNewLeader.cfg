SPECIFICATION Spec
CONSTANTS
  Node = {n1, n2}
  Key = {k1}
  Op = {"Put"}
  Writer = {w1}
  Reader = {r1}
  LocalReader = {}
  NoOp = NoOp
  Absent = Absent
  Electing = {n1, n2}
  Stopping = {}
  MaxCrashes = 0
  MaxLog = 2
  ApplyCap = 1
  StorageFaults = {}
SYMMETRY RequestSymmetry
INVARIANTS ReadsLinearizable
CHECK_DEADLOCK FALSE
