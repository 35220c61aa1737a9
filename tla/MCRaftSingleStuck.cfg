SPECIFICATION FairSpecC
CONSTANTS
  Node = {n1}
  Command = {c1}
  NoOp = NoOp
  None = None
  StorageFaults = {}
  Crashing = {}
  Electing = {n1}
  MaxTerm = 1
  MaxLog = 2
  MaxTimers = 1
  MaxVoteRPCs = 0
  MaxAppendRPCs = 0
PROPERTIES SingleNodeCommits
CHECK_DEADLOCK FALSE
