------------------------------- MODULE MCLog -------------------------------
(* Small instances of Log for TLC. *)
EXTENDS Log, TLC

\* Nothing in the log orders the blocks, their contents or the processes.
Symmetry == Permutations(Blocks) \cup Permutations(Data) \cup Permutations(Ops)
=============================================================================
