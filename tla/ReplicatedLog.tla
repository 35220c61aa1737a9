---------------------------- MODULE ReplicatedLog ----------------------------
(***************************************************************************)
(* What consensus promises to the state machines above it: one log, to     *)
(* which entries are only ever added, and of which every node learns a     *)
(* prefix.  A node that restarts learns it again from the beginning.       *)
(***************************************************************************)
EXTENDS Sequences, Naturals

CONSTANTS Node

VARIABLES chosen,   \* the entries that are committed, in order
          learned   \* the prefix of them that each node knows to be

Init ==
  /\ chosen = << >>
  /\ learned = [n \in Node |-> << >>]

\* The log s is the beginning of t.
Begins(s, t) == Len(s) <= Len(t) /\ SubSeq(t, 1, Len(s)) = s

\* n learns more of the log; only what it learns may be new to the system.
Learn(n) ==
  /\ Begins(chosen, chosen')
  /\ chosen' \in {chosen, learned'[n]}
  /\ Begins(learned[n], learned'[n])
  /\ Begins(learned'[n], chosen')
  /\ learned' = [learned EXCEPT ![n] = learned'[n]]

\* n restarts and no longer knows what is committed.
Forget(n) ==
  /\ learned' = [learned EXCEPT ![n] = << >>]
  /\ UNCHANGED chosen

Next == \E n \in Node : Learn(n) \/ Forget(n)

Spec == Init /\ [][Next]_<<chosen, learned>>
=============================================================================
