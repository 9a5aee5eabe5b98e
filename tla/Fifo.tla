-------------------------------- MODULE Fifo --------------------------------
(***************************************************************************)
(* What a pipe promises (kernel/pipe.c): a bounded queue of bytes that     *)
(* come out in the order in which they went in, none lost and none twice,  *)
(* and that accepts bytes only while somebody can still read them.         *)
(***************************************************************************)
EXTENDS Naturals, Sequences

CONSTANTS PIPESIZE, Bytes

VARIABLES
  q,   \* the bytes in the pipe, oldest first
  rd,  \* the read end is open
  wr   \* the write end is open

fvars == <<q, rd, wr>>

Init == q = <<>> /\ rd = TRUE /\ wr = TRUE

Put(v) == /\ rd /\ wr /\ Len(q) < PIPESIZE
          /\ q' = Append(q, v) /\ UNCHANGED <<rd, wr>>
Get == rd /\ q # <<>> /\ q' = Tail(q) /\ UNCHANGED <<rd, wr>>
CloseRead == rd /\ rd' = FALSE /\ UNCHANGED <<q, wr>>
CloseWrite == wr /\ wr' = FALSE /\ UNCHANGED <<q, rd>>

\* A pipe that nobody has open is gone; a new one is empty.
Renew == ~ rd /\ ~ wr /\ q' = <<>> /\ rd' = TRUE /\ wr' = TRUE

Next == (\E v \in Bytes : Put(v)) \/ Get \/ CloseRead \/ CloseWrite \/ Renew

Spec == Init /\ [][Next]_fvars
=============================================================================
