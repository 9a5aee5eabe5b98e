------------------------------ MODULE DiskTxn ------------------------------
(***************************************************************************)
(* What the log promises to the file system (kernel/log.c, its opening     *)
(* comment): the writes of system calls reach the disk in groups, a group  *)
(* all or nothing, and never while one of its system calls is still in     *)
(* progress.                                                               *)
(***************************************************************************)
CONSTANTS
  Blocks,  \* block numbers outside the log
  Data,    \* contents of a block
  Ops      \* processes that make file system calls

VARIABLES
  mem,     \* the blocks as the running system sees them
  disk,    \* the blocks as they will be after a crash and recovery
  active   \* the operations between begin_op() and end_op()

avars == <<mem, disk, active>>

Init ==
  /\ mem \in [Blocks -> Data]
  /\ disk = mem
  /\ active = {}

Begin(o) == o \notin active /\ active' = active \cup {o} /\ UNCHANGED <<mem, disk>>

Write(o, b, v) ==
  /\ o \in active
  /\ mem' = [mem EXCEPT ![b] = v]
  /\ UNCHANGED <<disk, active>>

End(o) == o \in active /\ active' = active \ {o} /\ UNCHANGED <<mem, disk>>

\* All writes so far become durable together, when no operation is half done.
Commit == active = {} /\ disk' = mem /\ UNCHANGED <<mem, active>>

\* Power is lost: what was not committed never happened.
Crash == mem' = disk /\ active' = {} /\ UNCHANGED disk

Next ==
  \/ \E o \in Ops : Begin(o) \/ End(o)
  \/ \E o \in Ops, b \in Blocks, v \in Data : Write(o, b, v)
  \/ Commit \/ Crash

Spec == Init /\ [][Next]_avars
=============================================================================
