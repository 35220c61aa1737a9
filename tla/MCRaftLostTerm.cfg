SPECIFICATION SpecC
CONSTANTS
  Node = {n1, n2, n3}
  Command = {}
  NoOp = NoOp
  None = None
  StorageFaults = {"save"}
  Crashing = {}
  Electing = {n1, n2}
  MaxTerm = 1
  MaxLog = 1
  MaxTimers = 1
  MaxVoteRPCs = 1
  MaxAppendRPCs = 0
SYMMETRY Symmetry
VIEW LiveView
INVARIANTS PersistBeforeResponding
CHECK_DEADLOCK FALSE
