------------------------------- MODULE MCRaft -------------------------------
(* Instances of Raft for TLC. *)
EXTENDS RaftCommitted, TLC

\* The nodes that may start elections are alike, and so are the others: a run
\* lets all of either crash, or none.
Symmetry == Permutations(Electing) \cup Permutations(Node \ Electing)

\* Two states that differ only in what is never read again are one: a node
\* that does not lead overwrites its indices before it reads them, and a
\* follower its votes.  leaderId is a hint for clients that Raft never reads.
Live(f, nodes, dead) == [n \in Node |-> IF n \in nodes THEN f[n] ELSE dead]

Candidates == {n \in Node : state[n] = "Candidate"}

\* The nodes that may still start an election within the bounds, and those
\* that lead or may yet lead: only these read what their timer and their
\* leader loops left behind.
MayElect == {n \in Electing : currentTerm[n] < MaxTerm}
MayLead == Leaders \cup Candidates \cup MayElect

\* The view of the runs with several nodes, where CheckWon changes nothing.
\* VoteInv looks at the votes that a leader was elected by.
LiveView ==
  <<persistVars, log, commitIndex, Live(nextIndex, Leaders, << >>),
    Live(matchIndex, Leaders, << >>), state,
    Live(votesReceived, Leaders \cup Candidates, {}),
    Live(timerFired, MayElect, FALSE), Live(leaderLoops, MayLead, 0),
    Live(stepDownCh, MayLead, FALSE), voteVars, appendVars, chosen>>

\* The view for the invariants of the proofs, which are about the history.
HistoryView == <<LiveView, reign, acks>>
=============================================================================
