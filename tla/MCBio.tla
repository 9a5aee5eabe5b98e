------------------------------- MODULE MCBio -------------------------------
(* Small instances of Bio for TLC. *)
EXTENDS Bio, TLC

CONSTANTS n1, n2, n3

\* An index block, or one of the log, and two that are asked for after it.
Ranks == n1 :> 1 @@ n2 :> 2 @@ n3 :> 2

\* Nothing in the cache orders blocks of one rank, contents or processes.
Symmetry ==
  Permutations({n2, n3}) \cup Permutations(Data) \cup Permutations(Procs)
=============================================================================
