------------------------------ MODULE Storage -------------------------------
(***************************************************************************)
(* What storage.Storage promises to the Raft node and the key-value server:*)
(* four separate stores in one, each call of which takes effect as a whole *)
(* or not at all.  Of the log only what lies behind the last cut counts.   *)
(***************************************************************************)
EXTENDS Integers, Sequences, FiniteSetsExt, Functions

CONSTANTS Key, Value, Index, Term

VARIABLES kv,         \* the pairs, as a function on the keys that are there
          raftState,  \* the term saved last
          entries,    \* the term of each log entry
          first,      \* where the log begins: everything before is cut
          snapshot    \* the index and term of the snapshot, 0 and 0 if none

LogEntry == [index : Index, term : Term]

\* f with the pairs of g added or replaced.
Override(f, g) == [x \in DOMAIN f \cup DOMAIN g |-> IF x \in DOMAIN g THEN g[x] ELSE f[x]]

\* The entries es as a function, the later of two with one index winning.
Terms(es) ==
  [i \in {e.index : e \in Range(es)} |->
     es[Max({j \in DOMAIN es : es[j].index = i})].term]

Init ==
  /\ kv = << >> /\ raftState = 0 /\ entries = << >> /\ first = 1
  /\ snapshot = [index |-> 0, term |-> 0]

Put(k, v) ==
  /\ kv' = Override(kv, [x \in {k} |-> v])
  /\ UNCHANGED <<raftState, entries, first, snapshot>>

Delete(k) ==
  /\ kv' = Restrict(kv, DOMAIN kv \ {k})
  /\ UNCHANGED <<raftState, entries, first, snapshot>>

SaveRaftState(t) ==
  /\ raftState' = t
  /\ UNCHANGED <<kv, entries, first, snapshot>>

AppendLogEntries(es) ==
  LET all == Override(entries, Terms(es)) IN
  /\ entries' = Restrict(all, {i \in DOMAIN all : i >= first})
  /\ UNCHANGED <<kv, raftState, first, snapshot>>

TruncateLogAfter(i) ==
  /\ entries' = Restrict(entries, {j \in DOMAIN entries : j <= i})
  /\ UNCHANGED <<kv, raftState, first, snapshot>>

TruncateLogBefore(i) ==
  /\ first' = Max({first, i})
  /\ entries' = Restrict(entries, {j \in DOMAIN entries : j >= i})
  /\ UNCHANGED <<kv, raftState, snapshot>>

SaveSnapshot(i, t) ==
  /\ snapshot' = [index |-> i, term |-> t]
  /\ UNCHANGED <<kv, raftState, entries, first>>

Next ==
  \/ \E k \in Key : Delete(k) \/ \E v \in Value : Put(k, v)
  \/ \E t \in Term : SaveRaftState(t)
  \/ \E e \in LogEntry : AppendLogEntries(<<e>>)
  \/ \E e, f \in LogEntry : AppendLogEntries(<<e, f>>)
  \/ \E i \in Index \cup {0} : TruncateLogAfter(i)
  \/ \E i \in Index : TruncateLogBefore(i + 1)
  \/ \E i \in Index, t \in Term : SaveSnapshot(i, t)

Spec == Init /\ [][Next]_<<kv, raftState, entries, first, snapshot>>
=============================================================================
