SPECIFICATION SpecC
CONSTANTS
  Node = {n1, n2, n3}
  Command = {}
  NoOp = NoOp
  None = None
  StorageFaults = {"append", "truncate"}
  Crashing = {n1, n2}
  Electing = {n1, n2}
  MaxTerm = 2
  MaxLog = 2
  MaxTimers = 1
  MaxVoteRPCs = 1
  MaxAppendRPCs = 1
SYMMETRY Symmetry
VIEW HistoryView
INVARIANTS LogInv SafetyInv SenderElected
CHECK_DEADLOCK FALSE
