------------------------------- MODULE MCPages ------------------------------
(***************************************************************************)
(* Small instances for TLC of the allocator and of a pipe, which lives in  *)
(* a page of it.  A pipe uses no more of the allocator than that its page  *)
(* stays its own until pipeclose() frees it: the two modules share no      *)
(* variable.  A behaviour moves one of them and leaves the other in its    *)
(* initial state, so that the states explored are the sum of the two, not  *)
(* the product.                                                            *)
(***************************************************************************)
EXTENDS Kalloc, Pipe, TLC
LOCAL INSTANCE SequencesExt

\* Nothing orders the bytes or the processes on one end of the pipe.
Symmetry == Permutations(Bytes) \cup Permutations(Writers) \cup Permutations(Readers)

\* Nothing in the allocator tells pages apart: one order of the list after
\* kinit() stands for all.
KallocFresh == KallocInit /\ freelist = SetToSeq(Pages)

\* A thread that has followed a bad pointer or panicked has stopped the kernel.
Stopped == (\E t \in Threads : kpc[t] \in {"wild", "panic"}) /\ UNCHANGED <<kallocVars, vars>>

PagesInit == KallocFresh /\ Init
PagesNext ==
  \/ Init /\ KallocNext /\ UNCHANGED vars
  \/ KallocFresh /\ Next /\ UNCHANGED kallocVars
  \/ Stopped

PagesSpec == PagesInit /\ [][PagesNext]_<<kallocVars, vars>>
=============================================================================
