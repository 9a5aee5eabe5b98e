-------------------------------- MODULE MCVm --------------------------------
(* Model values for Vm: programs of one or two segments. *)
EXTENDS Vm

ImagesDef == {<<1>>, <<2, 3>>}
=============================================================================
