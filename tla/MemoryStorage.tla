--------------------------- MODULE MemoryStorage ----------------------------
(***************************************************************************)
(* internal/storage/memory.go: the engine that the test clusters run on.   *)
(* The log is a slice whose first element has index firstIndex.            *)
(***************************************************************************)
EXTENDS Integers, Sequences, SequencesExt, FiniteSetsExt, Functions

VARIABLES data, state, logEntries, firstIndex, snap

NewMemoryStorage ==
  /\ data = << >> /\ state = 0 /\ logEntries = << >> /\ firstIndex = 1
  /\ snap = [index |-> 0, term |-> 0]

\* The value in a set, or the empty set for ErrKeyNotFound.
Get(k) == {data[x] : x \in DOMAIN data \cap {k}}

Put(k, v) ==
  /\ data' = [x \in DOMAIN data \cup {k} |-> IF x = k THEN v ELSE data[x]]
  /\ UNCHANGED <<state, logEntries, firstIndex, snap>>

Delete(k) ==
  /\ data' = Restrict(data, DOMAIN data \ {k})
  /\ UNCHANGED <<state, logEntries, firstIndex, snap>>

SaveRaftState(t) ==
  /\ state' = t
  /\ UNCHANGED <<data, logEntries, firstIndex, snap>>

LoadRaftState == state

\* The slice log after entry e: skipped, replaced, appended, or appended after
\* as many empty entries as are missing.
AppendEntry(log, e) ==
  LET pos == e.index - firstIndex
      empty == [index |-> 0, term |-> 0] IN
  IF pos < 0 THEN log
  ELSE IF pos < Len(log) THEN [log EXCEPT ![pos + 1] = e]
  ELSE Append(log \o [j \in 1..pos - Len(log) |-> empty], e)

AppendLogEntries(es) ==
  /\ logEntries' = FoldLeft(AppendEntry, logEntries, es)
  /\ UNCHANGED <<data, state, firstIndex, snap>>

\* The term of the entry, or 0 for ErrLogNotFound.
GetLogEntry(i) ==
  IF i >= firstIndex /\ i - firstIndex < Len(logEntries)
  THEN logEntries[i - firstIndex + 1].term ELSE 0

GetLogEntries(start, end) ==
  LET from == Max({start, firstIndex})
      to == Min({end, firstIndex + Len(logEntries)}) IN
  SubSeq(logEntries, from - firstIndex + 1, to - firstIndex)

GetLastLogIndexAndTerm == IF logEntries = << >> THEN snap ELSE Last(logEntries)

\* Mutant: drops the entry at index, too.
TruncateLogAfterFrom(i) ==
  /\ logEntries' = IF i < firstIndex THEN << >>
                   ELSE SubSeq(logEntries, 1, Min({i - firstIndex, Len(logEntries)}))
  /\ UNCHANGED <<data, state, firstIndex, snap>>

TruncateLogAfter(i) ==
  /\ logEntries' = IF i < firstIndex THEN << >>
                   ELSE SubSeq(logEntries, 1, Min({i - firstIndex + 1, Len(logEntries)}))
  /\ UNCHANGED <<data, state, firstIndex, snap>>

\* Mutant: keeps the slice's first index when all entries go.
TruncateLogBeforeStay(i) ==
  /\ logEntries' = SubSeq(logEntries, Max({i - firstIndex, 0}) + 1, Len(logEntries))
  /\ firstIndex' = IF i - firstIndex >= Len(logEntries) THEN firstIndex
                   ELSE Max({firstIndex, i})
  /\ UNCHANGED <<data, state, snap>>

TruncateLogBefore(i) ==
  /\ logEntries' = SubSeq(logEntries, Max({i - firstIndex, 0}) + 1, Len(logEntries))
  /\ firstIndex' = Max({firstIndex, i})
  /\ UNCHANGED <<data, state, snap>>

SaveSnapshot(i, t) ==
  /\ snap' = [index |-> i, term |-> t]
  /\ UNCHANGED <<data, state, logEntries, firstIndex>>

LoadSnapshot == snap
=============================================================================
