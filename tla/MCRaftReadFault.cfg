SPECIFICATION SpecC
CONSTANTS
  Node = {n1, n2, n3}
  Command = {}
  NoOp = NoOp
  None = None
  StorageFaults = {"read"}
  Crashing = {}
  Electing = {n1, n2}
  MaxTerm = 2
  MaxLog = 1
  MaxTimers = 1
  MaxVoteRPCs = 1
  MaxAppendRPCs = 1
SYMMETRY Symmetry
VIEW LiveView
INVARIANTS CommittedIsStored
CHECK_DEADLOCK FALSE
