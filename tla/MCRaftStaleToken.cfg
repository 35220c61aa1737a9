SPECIFICATION SpecC
CONSTANTS
  Node = {n1, n2}
  Command = {}
  NoOp = NoOp
  None = None
  StorageFaults = {}
  Crashing = {}
  Electing = {n1, n2}
  MaxTerm = 2
  MaxLog = 2
  MaxTimers = 1
  MaxVoteRPCs = 1
  MaxAppendRPCs = 0
SYMMETRY Symmetry
VIEW LiveView
INVARIANTS LeaderHasLoop
CHECK_DEADLOCK FALSE
