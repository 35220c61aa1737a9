---------------------------- MODULE RaftCommitted ----------------------------
(***************************************************************************)
(* Raft, seen as the replicated log that the key-value server is built on: *)
(* the entries that were committed, and what each node knows of them.      *)
(***************************************************************************)
EXTENDS RaftHistory

ReplicatedLog == INSTANCE ReplicatedLog
                   WITH learned <- [n \in Node |-> Committed(n)]

\* Raft implements the replicated log: an entry once committed on some node by
\* checkCommit or Rule 5 stays where it is, and all nodes commit the same
\* entries in the same order, across leader changes and restarts.
ImplementsReplicatedLog == ReplicatedLog!Spec

\* A leader of the newest term has every entry that was ever committed: the
\* election restriction of isLogUpToDate, with votes of a quorum.
LeaderCompleteness ==
  \A n \in Node :
    state[n] = "Leader" /\ (\A p \in Node : currentTerm[p] <= currentTerm[n])
      => Agree(chosen, log[n], Len(chosen))

\* What any node knows to be committed, and what ever was, is stored by a
\* quorum, so that it survives the loss of any minority: checkCommit counts
\* acknowledgements, which are sent only for entries in storage, and Rule 5
\* follows it.
CommittedIsStored ==
  \A s \in {chosen} \cup {Committed(n) : n \in Node} :
    Cardinality({n \in Node : Agree(s, log[n], Len(s))}) >= quorumSize
=============================================================================
