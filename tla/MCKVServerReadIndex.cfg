SPECIFICATION Spec
CONSTANTS
  Node = {n1}
  Key = {k1}
  Op = {"Put"}
  Writer = {w1, w2}
  Reader = {r1}
  LocalReader = {}
  NoOp = NoOp
  Absent = Absent
  Electing = {n1}
  Stopping = {}
  MaxCrashes = 0
  MaxLog = 2
  ApplyCap = 1
  StorageFaults = {}
SYMMETRY RequestSymmetry
INVARIANTS ReadSeesCommitted
CHECK_DEADLOCK FALSE
