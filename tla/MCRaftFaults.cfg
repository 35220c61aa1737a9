SPECIFICATION SpecC
CONSTANTS
  Node = {n1, n2, n3}
  Command = {}
  NoOp = NoOp
  None = None
  StorageFaults = {"append", "truncate"}
  Crashing = {n1, n2}
  Electing = {n1, n2}
  MaxTerm = 2
  MaxLog = 2
  MaxTimers = 1
  MaxVoteRPCs = 1
  MaxAppendRPCs = 1
SYMMETRY Symmetry
VIEW LiveView
INVARIANTS TypeOK CommittedIsStored PersistBeforeResponding NextIndexInRange StateMachineSafety
PROPERTIES LeaderAppendOnly ImplementsReplicatedLog
CHECK_DEADLOCK FALSE
