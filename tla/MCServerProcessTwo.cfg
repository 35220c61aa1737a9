SPECIFICATION Spec
CONSTANTS
  Client = {c1, c2}
  Peer = {p1}
  Caller = {g1, g2}
  Call = {r1}
CHECK_DEADLOCK FALSE
INVARIANTS ClosedOnce MapMatchesConnections PoolKnowsOpen ServedFromOpenStore
