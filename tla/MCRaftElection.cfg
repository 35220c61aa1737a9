SPECIFICATION SpecC
CONSTANTS
  Node = {n1, n2, n3}
  Command = {}
  NoOp = NoOp
  None = None
  StorageFaults = {"save", "append"}
  Crashing = {n1, n2, n3}
  Electing = {n1, n2}
  MaxTerm = 2
  MaxLog = 2
  MaxTimers = 2
  MaxVoteRPCs = 2
  MaxAppendRPCs = 0
SYMMETRY Symmetry
VIEW LiveView
INVARIANTS ElectionSafety VoteInv
CHECK_DEADLOCK FALSE
