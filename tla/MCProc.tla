------------------------------- MODULE MCProc -------------------------------
(* Small instances of Proc for TLC. *)
EXTENDS Proc, TLC

\* The harts run the same loop and are interchangeable.
Symmetry == Permutations(Cpus)
=============================================================================
