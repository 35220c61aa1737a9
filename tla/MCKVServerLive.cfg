SPECIFICATION FairSpec
CONSTANTS
  Node = {n1}
  Key = {k1}
  Op = {"Put"}
  Writer = {w1, w2}
  Reader = {l1}
  LocalReader = {l1}
  NoOp = NoOp
  Absent = Absent
  Electing = {n1}
  Stopping = {n1}
  MaxCrashes = 0
  MaxLog = 2
  ApplyCap = 1
  StorageFaults = {"append"}

INVARIANTS TypeOK RegisteredIsWaiting ReadsCommitted
PROPERTIES StopAnswersAll CommittedIsAnswered
CHECK_DEADLOCK FALSE
