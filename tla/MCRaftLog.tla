------------------------------ MODULE MCRaftLog -----------------------------
(***************************************************************************)
(* RaftLog for TLC: the readers are interchangeable.                       *)
(***************************************************************************)
EXTENDS RaftLog, TLC

ReaderSymmetry == Permutations(Reader)
=============================================================================
