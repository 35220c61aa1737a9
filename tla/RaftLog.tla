------------------------------ MODULE RaftLog -------------------------------
(***************************************************************************)
(* internal/raft/log.go: the log of one node, a cache and a last index in  *)
(* front of the storage engine, with the calls that the RPC handlers, the  *)
(* leader and the key-value server make on both.  Every call goes to the   *)
(* Badger engine and to the in-memory one; the log reads from Badger.      *)
(* The writers hold Log.mu alone, the readers share it.                    *)
(***************************************************************************)
EXTENDS Integers, Sequences, SequencesExt, FiniteSetsExt, Functions

CONSTANTS Key, Value,
          Term,           \* positive terms, also standing for the commands
          MaxIndex,       \* bound on the length of the log
          CacheSize,      \* l.cacheSize, 1000 in the code
          Reader,         \* the goroutines that read through the cache
          SnapshotsAhead, \* whether a snapshot may pass the end of the log
          StaleSnapshots, \* whether a snapshot may be older than the last one
          StaleAppends    \* whether entries inside the snapshot still arrive

ASSUME CacheAssumption == CacheSize \in Nat /\ CacheSize >= 2
ASSUME TermAssumption == Term \subseteq Nat \ {0}

VARIABLES db, closed,                                  \* BadgerStorage
          data, state, logEntries, firstIndex, snap,   \* MemoryStorage
          lastIndex, cache,                            \* Log
          reading,    \* what each reader is about to put into the cache
          installing, \* the snapshot that is saved while the log is not cut yet
          logical,    \* history: the term of each entry of the log
          cut         \* history: where the last cut of the log left its begin

B == INSTANCE BadgerStorage
M == INSTANCE MemoryStorage

memoryVars == <<data, state, logEntries, firstIndex, snap>>
engineVars == <<db, closed, memoryVars>>
logVars == <<lastIndex, cache, reading, installing, logical, cut>>
vars == <<engineVars, logVars>>

Index == 1..MaxIndex
None == [index |-> 0, term |-> 0]

\* Mutant: forgets to evict.
cacheEntryUnbounded(c, e) ==
  [i \in DOMAIN c \cup {e.index} |-> IF i = e.index THEN e.term ELSE c[i]]

\* The cache after entry e: once it is too large, the oldest half goes.
cacheEntry(c, e) ==
  LET all == [i \in DOMAIN c \cup {e.index} |-> IF i = e.index THEN e.term ELSE c[i]]
      threshold == Min(DOMAIN all) + CacheSize \div 2 IN
  IF Cardinality(DOMAIN all) > CacheSize
  THEN Restrict(all, {i \in DOMAIN all : i >= threshold}) ELSE all

\* The term of entry i, or 0 where the code returns nil.
GetEntry(i) ==
  IF i < 1 \/ i > lastIndex THEN 0
  ELSE IF i \in DOMAIN cache THEN cache[i]
  ELSE B!GetLogEntry(i)

GetEntries(start, end) ==
  IF start >= end \/ start < 1 THEN << >>
  ELSE B!GetLogEntries(start, Min({end, lastIndex + 1}))

LastTerm == GetEntry(lastIndex)

NewLog ==
  /\ lastIndex' = B!GetLastLogIndexAndTerm.index
  /\ cache' = << >>

-----------------------------------------------------------------------------
Init ==
  /\ B!NewBadgerStorage /\ M!NewMemoryStorage
  /\ lastIndex = 0 /\ cache = << >> /\ reading = [r \in Reader |-> None]
  /\ installing = None /\ logical = << >> /\ cut = 1

\* No reader holds Log.mu, and no handler is between two writes under rn.mu.
Unlocked == ~closed /\ installing = None /\ \A r \in Reader : reading[r] = None

\* Mutant: leaves the cache as it is.
AppendEntriesUncached(es) ==
  /\ Unlocked
  /\ B!AppendLogEntries(es) /\ M!AppendLogEntries(es)
  /\ lastIndex' = Max({lastIndex, Last(es).index})
  /\ logical' = [i \in 1..Max({lastIndex, Last(es).index}) |->
                   IF \E e \in Range(es) : e.index = i
                   THEN es[i - es[1].index + 1].term ELSE logical[i]]
  /\ UNCHANGED <<cache, reading, installing, cut>>

\* Append and AppendEntries: the storage, the last index, the cache.
AppendEntries(es) ==
  /\ Unlocked
  /\ B!AppendLogEntries(es) /\ M!AppendLogEntries(es)
  /\ lastIndex' = Max({lastIndex, Last(es).index})
  /\ cache' = FoldLeft(cacheEntry, cache, es)
  /\ logical' = [i \in 1..Max({lastIndex, Last(es).index}) |->
                   IF \E e \in Range(es) : e.index = i
                   THEN es[i - es[1].index + 1].term ELSE logical[i]]
  /\ UNCHANGED <<reading, installing, cut>>

\* Mutant: leaves the last index as it is.
TruncateAfterLast(i) ==
  /\ Unlocked /\ i < lastIndex
  /\ B!TruncateLogAfter(i) /\ M!TruncateLogAfter(i)
  /\ cache' = Restrict(cache, {j \in DOMAIN cache : j <= i})
  /\ UNCHANGED <<lastIndex, logical, reading, installing, cut>>

TruncateAfter(i) ==
  /\ Unlocked /\ i < lastIndex
  /\ B!TruncateLogAfter(i) /\ M!TruncateLogAfter(i)
  /\ lastIndex' = i
  /\ cache' = Restrict(cache, {j \in DOMAIN cache : j <= i})
  /\ logical' = SubSeq(logical, 1, i)
  /\ UNCHANGED <<reading, installing, cut>>

\* The first half of HandleInstallSnapshot.
SaveSnapshot(i, t) ==
  /\ Unlocked
  /\ B!SaveSnapshot(i, t) /\ M!SaveSnapshot(i, t)
  /\ installing' = [index |-> i, term |-> t]
  /\ UNCHANGED <<lastIndex, cache, reading, logical, cut>>

\* Its second half: Log.TruncateBefore, which leaves the last index alone.
TruncateBefore ==
  LET i == installing.index + 1 IN
  /\ ~closed /\ installing # None
  /\ B!TruncateLogBefore(i) /\ M!TruncateLogBefore(i)
  /\ cache' = Restrict(cache, {j \in DOMAIN cache : j >= i})
  /\ installing' = None
  /\ cut' = Max({cut, i})
  /\ UNCHANGED <<lastIndex, reading, logical>>

\* The storage fails to cut the log; the handler returns with the snapshot saved.
TruncateBeforeFails ==
  /\ ~closed /\ installing # None
  /\ installing' = None
  /\ UNCHANGED <<engineVars, lastIndex, cache, reading, logical, cut>>

-----------------------------------------------------------------------------
\* A reader misses the cache and loads the entry, holding Log.mu for reading.
LoadEntry(r, i) ==
  /\ ~closed /\ reading[r] = None /\ installing = None
  /\ i \in 1..lastIndex \ DOMAIN cache
  /\ B!GetLogEntry(i) # 0
  /\ reading' = [reading EXCEPT ![r] = [index |-> i, term |-> B!GetLogEntry(i)]]
  /\ UNCHANGED <<engineVars, lastIndex, cache, installing, logical, cut>>

\* It puts the entry into the cache.  A shared lock does not order two readers
\* that write the map: the write may get lost, or the runtime ends the process.
StoreEntry(r) ==
  /\ reading[r] # None
  /\ \/ cache' = cacheEntry(cache, reading[r])
     \/ (\E q \in Reader \ {r} : reading[q] # None) /\ UNCHANGED cache
  /\ reading' = [reading EXCEPT ![r] = None]
  /\ UNCHANGED <<engineVars, lastIndex, installing, logical, cut>>

-----------------------------------------------------------------------------
\* The key-value server and the Raft node use the other stores.
Put(k, v) == B!Put(k, v) /\ M!Put(k, v) /\ UNCHANGED logVars
Delete(k) == B!Delete(k) /\ M!Delete(k) /\ UNCHANGED logVars
SaveRaftState(t) == B!SaveRaftState(t) /\ M!SaveRaftState(t) /\ UNCHANGED logVars

\* main closes the storage last, when the readers and handlers are gone.
Close == Unlocked /\ B!Close /\ UNCHANGED <<memoryVars, logVars>>

\* The process ends, by a crash or closed, and starts again on the same data.
Restart ==
  /\ closed' = FALSE
  /\ NewLog
  /\ reading' = [r \in Reader |-> None]
  /\ installing' = None
  /\ UNCHANGED <<db, memoryVars, logical, cut>>

-----------------------------------------------------------------------------
\* Entries come at the end of the log, or where a read of it failed.
Appended ==
  LET begin == IF StaleAppends THEN 1 ELSE snap.index + 1 IN
  {<<[index |-> i, term |-> t]>> : i \in begin..Min({lastIndex + 1, MaxIndex}), t \in Term}
  \cup {<<[index |-> i, term |-> t], [index |-> i + 1, term |-> u]>> :
          i \in begin..Min({lastIndex + 1, MaxIndex - 1}), t, u \in Term}

\* A snapshot covers a prefix of the log, unless it is ahead of it.
Snapshots ==
  LET end == IF SnapshotsAhead THEN MaxIndex ELSE lastIndex IN
  {[index |-> i, term |-> t] :
     i \in (IF StaleSnapshots THEN 1 ELSE Max({1, snap.index}))..end, t \in Term}

Next ==
  \/ \E es \in Appended : AppendEntries(es)
  \/ \E i \in (IF StaleAppends THEN 0 ELSE snap.index)..MaxIndex : TruncateAfter(i)
  \/ \E s \in Snapshots :
       /\ s.index \in DOMAIN logical => s.term = logical[s.index]
       /\ SaveSnapshot(s.index, s.term)
  \/ TruncateBefore
  \/ TruncateBeforeFails
  \/ \E r \in Reader, i \in Index : LoadEntry(r, i)
  \/ \E r \in Reader : StoreEntry(r)
  \/ \E k \in Key : Delete(k) \/ \E v \in Value : Put(k, v)
  \/ \E t \in Term : SaveRaftState(t)
  \/ Close
  \/ Restart

Spec == Init /\ [][Next]_vars

-----------------------------------------------------------------------------
\* Each call on the log has the effect of the given call of the interface.
LogCallsDo(AppendCall(_), After(_), Before(_)) ==
  /\ \A es \in Appended : AppendEntries(es) => AppendCall(es)
  /\ \A i \in 0..MaxIndex : TruncateAfter(i) => After(i)
  /\ TruncateBefore => Before(installing.index + 1)

\* Badger keeps the promises of the interface: its prefixed keys behave as four
\* separate stores and each call on the log does what it is named for, whatever
\* the mix of writes, cuts, crashes and restarts (badger.go, AppendLogEntries to
\* SaveSnapshot).
BadgerStore ==
  INSTANCE Storage WITH
    kv <- [k \in {x[2] : x \in {y \in DOMAIN db : y[1] = "kv"}} |-> db[B!makeKVKey(k)]],
    raftState <- B!LoadRaftState,
    entries <- [i \in {j \in B!LogIndices : j >= cut} |-> B!GetLogEntry(i)],
    first <- cut,
    snapshot <- B!LoadSnapshot

BadgerImplements ==
  /\ BadgerStore!Spec
  /\ [][LogCallsDo(BadgerStore!AppendLogEntries, BadgerStore!TruncateLogAfter,
                   BadgerStore!TruncateLogBefore)]_vars

\* So does the in-memory engine, whose log is a slice and an offset: replacing,
\* appending and cutting at both ends never shift an entry to another index
\* (memory.go, AppendLogEntries to TruncateLogBefore).
MemoryStore ==
  INSTANCE Storage WITH
    kv <- data, raftState <- state,
    entries <- [i \in firstIndex..firstIndex + Len(logEntries) - 1 |-> M!GetLogEntry(i)],
    first <- firstIndex,
    snapshot <- snap

MemoryImplements ==
  /\ MemoryStore!Spec
  /\ [][LogCallsDo(MemoryStore!AppendLogEntries, MemoryStore!TruncateLogAfter,
                   MemoryStore!TruncateLogBefore)]_vars

\* A test on the in-memory engine says something of production: after the same
\* calls both engines answer every read alike, ranges of the log that begin before
\* the cut or end behind the log included (Get, LoadRaftState, LoadSnapshot,
\* GetLogEntry, GetLogEntries, GetLastLogIndexAndTerm of both engines).
EnginesAnswerAlike ==
  /\ \A k \in Key : B!Get(k) = M!Get(k)
  /\ B!LoadRaftState = M!LoadRaftState /\ B!LoadSnapshot = M!LoadSnapshot
  /\ B!GetLastLogIndexAndTerm = M!GetLastLogIndexAndTerm
  /\ \A i \in 0..MaxIndex + 1 : B!GetLogEntry(i) = M!GetLogEntry(i)
  /\ \A i, j \in 1..MaxIndex + 1 :
       i < j => B!GetLogEntries(i, j) = M!GetLogEntries(i, j)

\* Behind the snapshot the log reads as it was written, entry by entry through
\* the cache and in ranges past it, while readers fill the cache, entries are
\* replaced and cut, and a crash comes between saving a snapshot and cutting the
\* log (log.go, getEntryLocked, cacheEntry, TruncateAfter, TruncateBefore).
LogReadsBack ==
  ~closed =>
    \A i \in snap.index + 1..lastIndex :
      /\ GetEntry(i) = logical[i]
      /\ GetEntries(i, lastIndex + 2) =
           [j \in 1..lastIndex + 1 - i |-> [index |-> i + j - 1, term |-> logical[i + j - 1]]]

\* A restart at any moment finds the log as long as the running node has it,
\* though the length is kept in memory only and the end of the stored log may
\* have moved into the snapshot (log.go, NewLog and the lastIndex assignments).
RestartFindsLog ==
  /\ B!GetLastLogIndexAndTerm.index = lastIndex
  /\ lastIndex > snap.index => LastTerm = B!GetLastLogIndexAndTerm.term

\* A node that lost its log to a snapshot still knows its last term, which
\* HandleRequestVote compares (log.go, LastTerm; rpc_handlers.go, the vote).
LastTermKnown == installing = None => LastTerm = B!GetLastLogIndexAndTerm.term

\* The cache never exceeds its size, also when an old entry is read while the
\* newest ones fill it (log.go, cacheEntry).
CacheBounded == Cardinality(DOMAIN cache) <= CacheSize
=============================================================================
