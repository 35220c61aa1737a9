SPECIFICATION SpecC
CONSTANTS
  Node = {n1, n2, n3}
  Command = {}
  NoOp = NoOp
  None = None
  StorageFaults = {"read"}
  Crashing = {}
  Electing = {n1, n2}
  MaxTerm = 3
  MaxLog = 2
  MaxTimers = 1
  MaxVoteRPCs = 1
  MaxAppendRPCs = 1
SYMMETRY Symmetry
VIEW LiveView
INVARIANTS LeaderCompleteness
CHECK_DEADLOCK FALSE
