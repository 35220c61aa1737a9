----------------------------- MODULE MCKVServer -----------------------------
(* Small instances of KVServer. *)
EXTENDS KVServer, TLC

\* Requests of one kind are interchangeable.
RequestSymmetry == Permutations(Writer) \cup Permutations(Reader \ LocalReader)

\* What is left to tell of a request: nothing once it has failed, and after a restart,
\* of which the properties of answers in MCKVServer.cfg do not speak, only whether its
\* command may still be proposed.
RequestView(r) ==
  CASE pc[r] = "done" /\ answer[r] # "ok" -> << >>
    [] crashes > 0 -> IF r \in Writer /\ pc[r] \in {"idle", "propose"}
                      THEN <<pc[r], at[r], cmd[r]>> ELSE << >>
    [] OTHER -> <<pc[r], at[r], cmd[r], answer[r],
                  IF r \in Writer THEN resultCh[r]
                  ELSE <<value[r], floor[r], IF pc[r] = "get" THEN readIndex[r] ELSE 0>> >>

\* started is history that only ReadSeesCommitted reads.
View ==
  <<consensusVars, pipeVars, store, notifying, nextRequestID, stopPhase, crashes, highest,
    IF crashes > 0 THEN << >> ELSE <<pendingOps, seen>>,
    [r \in Request |-> RequestView(r)]>>
=============================================================================
