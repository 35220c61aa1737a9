SPECIFICATION FairSpecC
CONSTANTS
  Node = {n1}
  Command = {c1, c2}
  NoOp = NoOp
  None = None
  StorageFaults = {}
  Crashing = {}
  Electing = {n1}
  MaxTerm = 1
  MaxLog = 7
  MaxTimers = 1
  MaxVoteRPCs = 0
  MaxAppendRPCs = 0
PROPERTIES SingleNodeLeads
CHECK_DEADLOCK FALSE
