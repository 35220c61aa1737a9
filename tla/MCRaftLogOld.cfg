SPECIFICATION Spec
CONSTANTS
  Key = {k1}
  Value = {v1}
  Term = {1, 2}
  MaxIndex = 3
  CacheSize = 2
  Reader = {r1, r2}
  SnapshotsAhead = FALSE
  StaleSnapshots = TRUE
  StaleAppends = FALSE
SYMMETRY ReaderSymmetry
CHECK_DEADLOCK FALSE
INVARIANT LogReadsBack
