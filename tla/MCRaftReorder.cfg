SPECIFICATION SpecC
CONSTANTS
  Node = {n1, n2, n3}
  Command = {c1}
  NoOp = NoOp
  None = None
  StorageFaults = {}
  Crashing = {}
  Electing = {n1}
  MaxTerm = 1
  MaxLog = 3
  MaxTimers = 1
  MaxVoteRPCs = 1
  MaxAppendRPCs = 2
SYMMETRY Symmetry
VIEW LiveView
INVARIANTS MatchIndexSound NextIndexInRange
PROPERTIES ImplementsReplicatedLog
CHECK_DEADLOCK FALSE
