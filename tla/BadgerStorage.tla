--------------------------- MODULE BadgerStorage ----------------------------
(***************************************************************************)
(* internal/storage/badger.go: all stores in one ordered key space, told   *)
(* apart by a prefix of the key.  Every write is one Badger transaction    *)
(* with SyncWrites, which survives a crash once it returns.                *)
(***************************************************************************)
EXTENDS Integers, Sequences, SequencesExt, FiniteSetsExt, Functions

VARIABLES db,      \* the key space: a function on the keys that are there
          closed

makeKVKey(k) == <<"kv", k>>
makeLogKey(i) == <<"log", i>>
keyRaftState == <<"state", "current">>
keySnapshotMeta == <<"snap", "meta">>
keySnapshotData == <<"snap", "data">>

\* The indices of the log, which big-endian keys keep in order.
LogIndices == {key[2] : key \in {x \in DOMAIN db : x[1] = "log"}}

NewBadgerStorage == db = << >> /\ closed = FALSE

\* A transaction that sets the keys of f and deletes those of gone.
Update(f, gone) ==
  /\ ~closed
  /\ db' = [x \in (DOMAIN db \cup DOMAIN f) \ gone |->
              IF x \in DOMAIN f THEN f[x] ELSE db[x]]
  /\ UNCHANGED closed

\* The value in a set, or the empty set for ErrKeyNotFound.
Get(k) == {db[x] : x \in DOMAIN db \cap {makeKVKey(k)}}

Put(k, v) == Update([x \in {makeKVKey(k)} |-> v], {})

Delete(k) == Update(<< >>, {makeKVKey(k)})

SaveRaftState(t) == Update([x \in {keyRaftState} |-> t], {})

LoadRaftState == IF keyRaftState \in DOMAIN db THEN db[keyRaftState] ELSE 0

AppendLogEntries(es) ==
  Update([x \in {makeLogKey(e.index) : e \in Range(es)} |->
            Last(SelectSeq(es, LAMBDA e : makeLogKey(e.index) = x)).term], {})

\* The term of the entry, or 0 for ErrLogNotFound.
GetLogEntry(i) == IF makeLogKey(i) \in DOMAIN db THEN db[makeLogKey(i)] ELSE 0

\* The iterator seeks start and stops at end.
GetLogEntries(start, end) ==
  LET found == SetToSortSeq({i \in LogIndices : start <= i /\ i < end}, <) IN
  [j \in DOMAIN found |-> [index |-> found[j], term |-> GetLogEntry(found[j])]]

GetLastLogIndexAndTerm ==
  IF LogIndices # {}
  THEN [index |-> Max(LogIndices), term |-> GetLogEntry(Max(LogIndices))]
  ELSE IF keySnapshotMeta \in DOMAIN db THEN db[keySnapshotMeta]
  ELSE [index |-> 0, term |-> 0]

\* Mutant: seeks the key of index itself.
TruncateLogAfterFrom(i) == Update(<< >>, {makeLogKey(j) : j \in {x \in LogIndices : x >= i}})

TruncateLogAfter(i) == Update(<< >>, {makeLogKey(j) : j \in {x \in LogIndices : x > i}})

TruncateLogBefore(i) == Update(<< >>, {makeLogKey(j) : j \in {x \in LogIndices : x < i}})

\* Metadata and data go into one transaction.
SaveSnapshot(i, t) ==
  Update([x \in {keySnapshotMeta, keySnapshotData} |-> [index |-> i, term |-> t]], {})

LoadSnapshot ==
  IF {keySnapshotMeta, keySnapshotData} \subseteq DOMAIN db THEN db[keySnapshotMeta]
  ELSE [index |-> 0, term |-> 0]

Close == ~closed /\ closed' = TRUE /\ UNCHANGED db
=============================================================================
