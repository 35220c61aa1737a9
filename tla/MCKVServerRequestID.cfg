SPECIFICATION Spec
CONSTANTS
  Node = {n1}
  Key = {k1}
  Op = {"Put"}
  Writer = {w1, w2}
  Reader = {}
  LocalReader = {}
  NoOp = NoOp
  Absent = Absent
  Electing = {n1}
  Stopping = {}
  MaxCrashes = 1
  MaxLog = 2
  ApplyCap = 1
  StorageFaults = {}
SYMMETRY RequestSymmetry
INVARIANTS AnswerIsOwn
CHECK_DEADLOCK FALSE
