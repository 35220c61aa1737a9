SPECIFICATION Spec
CONSTANTS
  Node = {n1, n2}
  Key = {k1}
  Op = {"Put", "Delete"}
  Writer = {w1, w2}
  Reader = {r1}
  LocalReader = {}
  NoOp = NoOp
  Absent = Absent
  Electing = {n1}
  Stopping = {}
  MaxCrashes = 1
  MaxLog = 2
  ApplyCap = 1
  StorageFaults = {}
SYMMETRY RequestSymmetry
VIEW View
INVARIANTS StoreIsReplay AnswerIsOwnUntilRestart ReadsLinearizableUntilRestart
CHECK_DEADLOCK FALSE
