SPECIFICATION Spec
CONSTANTS
  Client = {c1}
  Peer = {p1}
  Caller = {g1, g2}
  Call = {r1}
CHECK_DEADLOCK FALSE
INVARIANT StoppedMeansClosed
