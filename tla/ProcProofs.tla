----------------------------- MODULE ProcProofs -----------------------------
(***************************************************************************)
(* The safety of processes and their scheduling (module Proc) for any      *)
(* number of harts and any size of the process table.                      *)
(***************************************************************************)
EXTENDS Proc, TLAPS

(***************************************************************************)
(* The inductive invariant.  Its first part says where each lock is while  *)
(* a hart and a process go through swtch(), and what the state of a        *)
(* process says about where its thread is.                                 *)
(***************************************************************************)

\* Where a thread resumes, with the p->lock that scheduler() took held.
Resuming == {"forkret", "yielded", "woken"}

\* Where a thread holds wait_lock.
Waiting == {"scan", "sleep", "reparent", "wake_init", "wake_parent", "zombie"}

\* c->proc and satp are those of the slot scheduler() is at, from the switch to
\* the process to the switch back.
HartProc == \A c \in Cpus :
  IF spc[c] \in {"run", "sched", "back"} THEN cproc[c] = cur[c] /\ satp[c] = cur[c]
  ELSE cproc[c] = NoProc /\ satp[c] = NoProc

\* A hart that is on its way through swtch() holds the lock of the process, and
\* holds no other.
Switching(c) ==
  \/ spc[c] \in {"sched", "back", "unlock"}
  \/ spc[c] = "run" /\ pc[cur[c]] \in Resuming
LockOfHart == \A c \in Cpus : \A p \in Procs : plock[p] = c <=> cur[c] = p /\ Switching(c)

\* wait_lock is held by the hart that runs a thread inside wait() or exit().
WaitLockOfHart == \A c \in Cpus :
  waitlock = c <=> spc[c] = "run" /\ pc[cur[c]] \in Waiting

\* A process is RUNNING on exactly one hart; one that has entered sched() is
\* RUNNING no more, but its slot is not free either.
RunningOnHart ==
  /\ \A p \in Procs : state[p] = "RUNNING" => \E c \in Cpus : spc[c] = "run" /\ cur[c] = p
  /\ \A c \in Cpus : spc[c] = "run" => state[cur[c]] = "RUNNING"
  /\ \A c, d \in Cpus : spc[c] = "run" /\ spc[d] = "run" /\ cur[c] = cur[d] => c = d
  /\ \A c \in Cpus : spc[c] \in {"sched", "back"}
                       => state[cur[c]] \in {"RUNNABLE", "SLEEPING", "ZOMBIE"}

\* Where the thread of a process is, by the state of the process.
StatePc == \A p \in Procs :
  /\ state[p] = "UNUSED" => pc[p] \in {"none", "dead"}
  /\ state[p] = "USED" => pc[p] = "forkret"
  /\ state[p] = "SLEEPING" => pc[p] = "woken"
  /\ state[p] = "RUNNABLE" => pc[p] \in Resuming
  /\ state[p] = "ZOMBIE" => pc[p] = "dead"
  /\ state[p] = "RUNNING" => pc[p] \notin {"none", "dead"}

HartState == HartProc /\ LockOfHart /\ WaitLockOfHart /\ RunningOnHart /\ StatePc

HartIInv == TypeOK /\ HartState

(***************************************************************************)
(* The second part is about fork() and exit(): what they have done of      *)
(* their work at each point.                                               *)
(***************************************************************************)

\* Where the thread of p is in its system call, looking through a yield().
At(p) == IF pc[p] = "yielded" THEN yret[p] ELSE pc[p]

\* The child fork() is creating is USED, is nobody else's and, once
\* fork() has got that far, has its parent.
ForkChild == \A p \in Procs : At(p) \in {"fork_parent", "fork_run"} =>
  /\ np[p] \in Procs /\ state[np[p]] = "USED"
  /\ \A q \in Procs : At(q) \in {"fork_parent", "fork_run"} /\ np[q] = np[p] => q = p
  /\ At(p) = "fork_run" => parent[np[p]] = p

\* init does not exit.
InitStays ==
  /\ At(InitProc) \notin {"exit", "reparent", "wake_init", "wake_parent",
                           "zombie", "dead"}
  /\ state[InitProc] \in {"RUNNABLE", "RUNNING", "SLEEPING"}

\* The loops of wait(), reparent() and wakeup() start at the first slot.
LoopsFromStart == \A p \in Procs :
  /\ pc[p] \notin {"scan", "sleep", "reparent", "wake_init"} => i[p] = 1
  /\ pc[p] \notin {"wake_init", "wake_parent"} => j[p] = 1

\* The slot that reparent() waits to wake init for is in the table.
LoopsInTable == \A p \in Procs : pc[p] = "wake_init" => i[p] <= NPROC

\* reparent() has handed over the children in the slots it has passed.
Passed(p, q) ==
  \/ pc[p] = "reparent" /\ q < i[p]
  \/ pc[p] = "wake_init" /\ q <= i[p]
  \/ pc[p] \in {"wake_parent", "zombie"}
HandedOver == \A p, q \in Procs : Passed(p, q) => parent[q] # p

\* A process with children can wait for them, and every process has a parent.
ParentCanWait == \A q \in Procs :
  /\ parent[q] # NoProc => state[parent[q]] \notin {"UNUSED", "USED", "ZOMBIE"}
  /\ state[q] \notin {"UNUSED", "USED"} /\ q # InitProc => parent[q] # NoProc

TreeIInv == ForkChild /\ InitStays /\ LoopsFromStart /\ LoopsInTable
            /\ HandedOver /\ ParentCanWait

(***************************************************************************)
(* The third part is about wait() and the wakeups of exit().               *)
(***************************************************************************)

\* The slots wait() has passed hold no zombie of p.
Scanned == \A p, q \in Procs :
  pc[p] = "sleep" \/ (pc[p] = "scan" /\ q < i[p])
    => ~ (parent[q] = p /\ state[q] = "ZOMBIE")

\* A process sleeps on itself; the wakeups have woken whom they have passed.
SleepsOnSelf == \A p \in Procs : state[p] = "SLEEPING" => chan[p] = p
Woke == \A p \in Procs :
  /\ pc[p] = "wake_init" /\ j[p] > InitProc => state[InitProc] # "SLEEPING"
  /\ \A q \in Procs :
       parent[p] = q /\ (pc[p] = "zombie" \/ (pc[p] = "wake_parent" /\ j[p] > q))
         => state[q] # "SLEEPING"

\* Only init can be asleep with a zombie child, one that is just handed over.
OnlyHandedOver == \A p, q \in Procs :
  state[p] = "SLEEPING" /\ parent[q] = p /\ state[q] = "ZOMBIE"
    => p = InitProc /\ \E r \in Procs : pc[r] = "wake_init"

WakeIInv == Scanned /\ SleepsOnSelf /\ Woke /\ OnlyHandedOver

(***************************************************************************)
(* All of it.  The parts need one another: fork() makes RUNNABLE only a    *)
(* slot it has claimed, and what exit() and wait() have found out stays    *)
(* true because whoever could change it needs wait_lock.                   *)
(***************************************************************************)
ProcIInv == HartIInv /\ TreeIInv /\ WakeIInv

-----------------------------------------------------------------------------
\* The slots of the process table, the null pointer and the null hart.
LEMMA Slots ==
  /\ InitProc \in Procs /\ NoProc \notin Procs /\ NoCpu \notin Cpus
  /\ \A p \in Procs : Succ(p) \in Procs
  BY ProcAssumption DEF Procs, InitProc, NoProc, Succ

\* The loop variables of proc.c stay within the table or just behind it.
LEMMA Rounds ==
  /\ NPROC \in Nat /\ 1 \in 1..(NPROC + 1)
  /\ \A k \in 1..(NPROC + 1) :
       k \in Nat /\ (k <= NPROC => k \in Procs /\ k + 1 \in 1..(NPROC + 1))
  /\ \A p \in Procs : p \in Nat /\ 1 <= p /\ p <= NPROC
  BY ProcAssumption DEF Procs

\* wait_lock lets one thread at a time into the loops of wait() and exit().
LEMMA OneInside ==
  ASSUME HartIInv, NEW p \in Procs, NEW r \in Procs,
         pc[p] \in Waiting, pc[r] \in Waiting
  PROVE  p = r
  BY Slots DEF HartIInv, HartState, TypeOK, States, WaitLockOfHart, RunningOnHart,
     StatePc, Waiting, Resuming

\* A thread that resumes after yield() is nowhere where wait_lock is held.
LEMMA YieldedOutside ==
  ASSUME TypeOK, NEW c \in Cpus, NEW p \in Procs, Yielded(c, p)
  PROVE  /\ \A r \in Procs : pc'[r] \in Waiting => pc'[r] = pc[r]
         /\ \A r \in Procs : pc[r] \in Waiting => pc'[r] = pc[r]
         /\ i' = i /\ j' = j /\ parent' = parent /\ state' = state /\ chan' = chan
<1>1. /\ pc' = [pc EXCEPT ![p] = yret[p]] /\ pc[p] = "yielded"
      /\ i' = i /\ j' = j /\ parent' = parent /\ state' = state /\ chan' = chan
  BY DEF Yielded, Goto, table
<1>2. yret[p] \in Preemptible /\ pc \in [Procs -> Pcs]
  BY DEF TypeOK
<1> QED
  BY <1>1, <1>2 DEF Preemptible, Waiting

\* One round of a loop reaches one slot more.
LEMMA NextSlot ==
  ASSUME NEW k \in Nat, NEW m, m = k + 1, NEW q \in Nat
  PROVE  /\ q < m <=> q < k \/ q = k
         /\ q <= k <=> q < k \/ q = k
  OBVIOUS

-----------------------------------------------------------------------------
(* Every step preserves the invariant: one lemma for each of its parts *)

\* The types.
LEMMA TypeStep == ProcIInv /\ [Next]_vars => TypeOK'
<1> SUFFICES ASSUME ProcIInv, [Next]_vars PROVE TypeOK'
  OBVIOUS
<1> USE Rounds, Slots DEF table, locks, harts, threads, Goto, Runs, ProcIInv,
     HartIInv, TypeOK, States, Preemptible, Pcs
<1>1. ASSUME NEW c \in Cpus, SchedScan(c) PROVE TypeOK'
  <2>1. CASE state[cur[c]] = "RUNNABLE"
    <3>1. plock' \in [Procs -> Cpus \cup {NoCpu}] /\ state' \in [Procs -> States]
      BY SMTT(30), <1>1, <2>1 DEF SchedScan
    <3>2. /\ cproc' \in [Cpus -> Procs \cup {NoProc}]
          /\ satp' \in [Cpus -> Procs \cup {NoProc}]
      BY <1>1, <2>1 DEF SchedScan
    <3>3. spc' \in [Cpus -> {"scan", "run", "sched", "back", "unlock"}]
      BY <1>1, <2>1 DEF SchedScan
    <3>4. /\ UNCHANGED <<chan, killed, parent, waitlock, cur>>
          /\ UNCHANGED <<pc, yret, np, i, j, havekids>>
      BY <1>1, <2>1 DEF SchedScan
    <3> QED
      BY <3>1, <3>2, <3>3, <3>4
  <2>2. CASE state[cur[c]] # "RUNNABLE"
    BY SMTT(30), <1>1, <2>2 DEF SchedScan
  <2> QED
    BY <1>1, <2>1, <2>2 DEF SchedScan
<1>2. ASSUME NEW c \in Cpus, Sched(c) PROVE TypeOK'
  BY <1>2 DEF Sched
<1>3. ASSUME NEW c \in Cpus, SchedBack(c) PROVE TypeOK'
  BY <1>3 DEF SchedBack
<1>4. ASSUME NEW c \in Cpus, SchedUnlock(c) PROVE TypeOK'
  BY <1>4 DEF SchedUnlock
<1>5. ASSUME NEW c \in Cpus, NEW p \in Procs, Forkret(c, p) PROVE TypeOK'
  BY <1>5 DEF Forkret
<1>6. ASSUME NEW c \in Cpus, NEW p \in Procs, Yield(c, p) PROVE TypeOK'
  BY <1>6 DEF Yield, CallSched
<1>7. ASSUME NEW c \in Cpus, NEW p \in Procs, Yielded(c, p) PROVE TypeOK'
  BY <1>7 DEF Yielded
<1>8. ASSUME NEW c \in Cpus, NEW p \in Procs, NEW q \in Procs, ForkAlloc(c, p, q)
      PROVE  TypeOK'
  BY <1>8 DEF ForkAlloc
<1>9. ASSUME NEW c \in Cpus, NEW p \in Procs, ForkParent(c, p) PROVE TypeOK'
  BY <1>9 DEF ForkParent
<1>10. ASSUME NEW c \in Cpus, NEW p \in Procs, ForkRun(c, p) PROVE TypeOK'
  BY <1>10 DEF ForkRun
<1>11. ASSUME NEW c \in Cpus, NEW p \in Procs, NEW q \in Procs, Kill(c, p, q)
       PROVE  TypeOK'
  BY <1>11 DEF Kill
<1>12. ASSUME NEW c \in Cpus, NEW p \in Procs, KillZero(c, p) PROVE TypeOK'
  BY <1>12 DEF KillZero
<1>13. ASSUME NEW c \in Cpus, NEW p \in Procs, ExitCall(c, p) PROVE TypeOK'
  BY <1>13 DEF ExitCall
<1>14. ASSUME NEW c \in Cpus, NEW p \in Procs, ExitLock(c, p) PROVE TypeOK'
  BY <1>14 DEF ExitLock
<1>15. ASSUME NEW c \in Cpus, NEW p \in Procs, Reparent(c, p) PROVE TypeOK'
  <2>1. i' \in [Procs -> 1..(NPROC + 1)]
    BY <1>15 DEF Reparent
  <2>2. parent' \in [Procs -> Procs \cup {NoProc}]
    BY <1>15 DEF Reparent
  <2>3. pc' \in [Procs -> Pcs]
    BY SMTT(30), <1>15 DEF Reparent
  <2> QED
    BY <1>15, <2>1, <2>2, <2>3 DEF Reparent
<1>16. ASSUME NEW c \in Cpus, NEW p \in Procs, WakeInit(c, p) PROVE TypeOK'
  <2>1. CASE WakeRound(p, InitProc)
    BY <2>1 DEF WakeRound
  <2>2. CASE ~ WakeRound(p, InitProc)
    <3>1. i[p] <= NPROC
      BY <1>16 DEF WakeInit, TreeIInv, LoopsInTable
    <3>2. i' \in [Procs -> 1..(NPROC + 1)] /\ j' \in [Procs -> 1..(NPROC + 1)]
      BY SMTT(30), <1>16, <2>2, <3>1 DEF WakeInit
    <3>3. pc' \in [Procs -> Pcs]
      BY <1>16, <2>2 DEF WakeInit
    <3> QED
      BY <1>16, <2>2, <3>2, <3>3 DEF WakeInit
  <2> QED
    BY <2>1, <2>2
<1>17. ASSUME NEW c \in Cpus, NEW p \in Procs, WakeParent(c, p) PROVE TypeOK'
  <2>1. CASE j[p] <= NPROC
    BY SMTT(30), <1>17, <2>1 DEF WakeParent, WakeRound
  <2>2. CASE j[p] > NPROC
    BY SMTT(30), <1>17, <2>2 DEF WakeParent, WakeRound
  <2> QED
    BY <1>17, <2>1, <2>2 DEF WakeParent, WakeRound
<1>18. ASSUME NEW c \in Cpus, NEW p \in Procs, ExitZombie(c, p) PROVE TypeOK'
  BY <1>18 DEF ExitZombie, CallSched
<1>19. ASSUME NEW c \in Cpus, NEW p \in Procs, WaitCall(c, p) PROVE TypeOK'
  BY <1>19 DEF WaitCall
<1>20. ASSUME NEW c \in Cpus, NEW p \in Procs, WaitLock(c, p) PROVE TypeOK'
  BY <1>20 DEF WaitLock
<1>21. ASSUME NEW c \in Cpus, NEW p \in Procs, WaitScan(c, p) PROVE TypeOK'
  BY <1>21 DEF WaitScan
<1>22. ASSUME NEW c \in Cpus, NEW p \in Procs, WaitReap(c, p) PROVE TypeOK'
  BY <1>22 DEF WaitReap, WaitReturn
<1>23. ASSUME NEW c \in Cpus, NEW p \in Procs, WaitBadAddress(c, p) PROVE TypeOK'
  BY <1>23 DEF WaitBadAddress, WaitReturn
<1>24. ASSUME NEW c \in Cpus, NEW p \in Procs, WaitEnd(c, p) PROVE TypeOK'
  <2>1. CASE WaitReturn(p) /\ UNCHANGED table
    BY <1>24, <2>1 DEF WaitEnd, WaitReturn
  <2>2. CASE ~ (WaitReturn(p) /\ UNCHANGED table)
    BY SMTT(30), <1>24, <2>2 DEF WaitEnd
  <2> QED
    BY <2>1, <2>2
<1>25. ASSUME NEW c \in Cpus, NEW p \in Procs, Sleep(c, p) PROVE TypeOK'
  BY <1>25 DEF Sleep, CallSched
<1>26. ASSUME NEW c \in Cpus, NEW p \in Procs, Woken(c, p) PROVE TypeOK'
  BY <1>26 DEF Woken
<1>27. CASE UNCHANGED vars
  BY SMTT(30), <1>27 DEF vars
<1> QED
  BY <1>1, <1>2, <1>3, <1>4, <1>5, <1>6, <1>7, <1>8, <1>9, <1>10, <1>11, <1>12, <1>13,
     <1>14, <1>15, <1>16, <1>17, <1>18, <1>19, <1>20, <1>21, <1>22, <1>23, <1>24,
     <1>25, <1>26, <1>27 DEF Next, SchedNext, ThreadNext, UserNext

\* The locks, the harts and the states: swtch() hands p->lock over, and what
\* changes the state of a process holds its lock.
LEMMA HartStep == ProcIInv /\ [Next]_vars => HartState'
<1> SUFFICES ASSUME ProcIInv, [Next]_vars PROVE HartState'
  OBVIOUS
<1> USE Slots DEF table, locks, harts, threads, Goto, Runs, ProcIInv, HartIInv, HartState,
     TypeOK, HartProc, LockOfHart, WaitLockOfHart, RunningOnHart, StatePc, Switching,
     Resuming, Waiting, Preemptible, TreeIInv, ForkChild, At
<1>1. ASSUME NEW c \in Cpus, SchedScan(c) PROVE HartState'
  <2>1. CASE state[cur[c]] = "RUNNABLE"
    <3>1. (HartProc /\ WaitLockOfHart /\ StatePc)'
      BY <1>1, <2>1 DEF SchedScan
    <3>2. LockOfHart'
      BY <1>1, <2>1 DEF SchedScan
    <3>3. RunningOnHart'
      BY SMTT(30), <1>1, <2>1 DEF SchedScan
    <3> QED
      BY <3>1, <3>2, <3>3
  <2>2. CASE state[cur[c]] # "RUNNABLE"
    BY SMTT(30), <1>1, <2>2 DEF SchedScan
  <2> QED
    BY <1>1, <2>1, <2>2 DEF SchedScan
<1>2. ASSUME NEW c \in Cpus, Sched(c) PROVE HartState'
  BY <1>2 DEF Sched
<1>3. ASSUME NEW c \in Cpus, SchedBack(c) PROVE HartState'
  BY <1>3 DEF SchedBack
<1>4. ASSUME NEW c \in Cpus, SchedUnlock(c) PROVE HartState'
  BY <1>4 DEF SchedUnlock
<1>5. ASSUME NEW c \in Cpus, NEW p \in Procs, Forkret(c, p) PROVE HartState'
  BY <1>5 DEF Forkret
<1>6. ASSUME NEW c \in Cpus, NEW p \in Procs, Yield(c, p) PROVE HartState'
  BY <1>6 DEF Yield, CallSched
<1>7. ASSUME NEW c \in Cpus, NEW p \in Procs, Yielded(c, p) PROVE HartState'
  BY <1>7 DEF Yielded
<1>8. ASSUME NEW c \in Cpus, NEW p \in Procs, NEW q \in Procs, ForkAlloc(c, p, q)
      PROVE  HartState'
  BY <1>8 DEF ForkAlloc
<1>9. ASSUME NEW c \in Cpus, NEW p \in Procs, ForkParent(c, p) PROVE HartState'
  BY <1>9 DEF ForkParent
<1>10. ASSUME NEW c \in Cpus, NEW p \in Procs, ForkRun(c, p) PROVE HartState'
  BY <1>10 DEF ForkRun
<1>11. ASSUME NEW c \in Cpus, NEW p \in Procs, NEW q \in Procs, Kill(c, p, q)
       PROVE  HartState'
  BY <1>11 DEF Kill
<1>12. ASSUME NEW c \in Cpus, NEW p \in Procs, KillZero(c, p) PROVE HartState'
  BY <1>12 DEF KillZero
<1>13. ASSUME NEW c \in Cpus, NEW p \in Procs, ExitCall(c, p) PROVE HartState'
  BY <1>13 DEF ExitCall
<1>14. ASSUME NEW c \in Cpus, NEW p \in Procs, ExitLock(c, p) PROVE HartState'
  BY <1>14 DEF ExitLock
<1>15. ASSUME NEW c \in Cpus, NEW p \in Procs, Reparent(c, p) PROVE HartState'
  BY <1>15 DEF Reparent
<1>16. ASSUME NEW c \in Cpus, NEW p \in Procs, WakeInit(c, p) PROVE HartState'
  <2>1. HartProc'
    BY <1>16 DEF WakeInit, WakeRound
  <2>2. LockOfHart'
    BY <1>16 DEF WakeInit, WakeRound
  <2>3. WaitLockOfHart'
    BY <1>16 DEF WakeInit, WakeRound
  <2>4. RunningOnHart'
    BY <1>16 DEF WakeInit, WakeRound
  <2>5. StatePc'
    BY <1>16 DEF WakeInit, WakeRound
  <2> QED
    BY <2>1, <2>2, <2>3, <2>4, <2>5
<1>17. ASSUME NEW c \in Cpus, NEW p \in Procs, WakeParent(c, p) PROVE HartState'
  <2>1. HartProc'
    BY <1>17 DEF WakeParent, WakeRound
  <2>2. LockOfHart'
    BY <1>17 DEF WakeParent, WakeRound
  <2>3. WaitLockOfHart'
    BY <1>17 DEF WakeParent, WakeRound
  <2>4. RunningOnHart'
    BY SMTT(30), <1>17 DEF WakeParent, WakeRound
  <2>5. StatePc'
    BY <1>17 DEF WakeParent, WakeRound
  <2> QED
    BY <2>1, <2>2, <2>3, <2>4, <2>5
<1>18. ASSUME NEW c \in Cpus, NEW p \in Procs, ExitZombie(c, p) PROVE HartState'
  BY <1>18 DEF ExitZombie, CallSched
<1>19. ASSUME NEW c \in Cpus, NEW p \in Procs, WaitCall(c, p) PROVE HartState'
  BY <1>19 DEF WaitCall
<1>20. ASSUME NEW c \in Cpus, NEW p \in Procs, WaitLock(c, p) PROVE HartState'
  BY <1>20 DEF WaitLock
<1>21. ASSUME NEW c \in Cpus, NEW p \in Procs, WaitScan(c, p) PROVE HartState'
  BY <1>21 DEF WaitScan
<1>22. ASSUME NEW c \in Cpus, NEW p \in Procs, WaitReap(c, p) PROVE HartState'
  BY <1>22 DEF WaitReap, WaitReturn
<1>23. ASSUME NEW c \in Cpus, NEW p \in Procs, WaitBadAddress(c, p) PROVE HartState'
  BY <1>23 DEF WaitBadAddress, WaitReturn
<1>24. ASSUME NEW c \in Cpus, NEW p \in Procs, WaitEnd(c, p) PROVE HartState'
  BY <1>24 DEF WaitEnd, WaitReturn
<1>25. ASSUME NEW c \in Cpus, NEW p \in Procs, Sleep(c, p) PROVE HartState'
  BY <1>25 DEF Sleep, CallSched
<1>26. ASSUME NEW c \in Cpus, NEW p \in Procs, Woken(c, p) PROVE HartState'
  BY <1>26 DEF Woken
<1>27. CASE UNCHANGED vars
  BY SMTT(30), <1>27 DEF vars
<1> QED
  BY ZenonT(30), <1>1, <1>2, <1>3, <1>4, <1>5, <1>6, <1>7, <1>8, <1>9, <1>10, <1>11, <1>12, <1>13,
     <1>14, <1>15, <1>16, <1>17, <1>18, <1>19, <1>20, <1>21, <1>22, <1>23, <1>24,
     <1>25, <1>26, <1>27 DEF Next, SchedNext, ThreadNext, UserNext

\* fork(), exit() and reparent() keep every process in the tree.
LEMMA TreeStep == ProcIInv /\ [Next]_vars => TreeIInv'
<1> SUFFICES ASSUME ProcIInv, [Next]_vars PROVE TreeIInv'
  OBVIOUS
<1> USE Slots, Rounds, OneInside DEF table, locks, harts, threads, Goto, Runs,
     ProcIInv, HartIInv, HartState, TypeOK, HartProc, LockOfHart, WaitLockOfHart,
     RunningOnHart, StatePc, Switching, Resuming, Waiting, Preemptible, TreeIInv, InitProc,
     ForkChild, InitStays, LoopsFromStart, LoopsInTable, HandedOver, Passed,
     ParentCanWait, At
<1>1. ASSUME NEW c \in Cpus, SchedScan(c) PROVE TreeIInv'
  <2>1. ForkChild'
    BY <1>1 DEF SchedScan
  <2>2. InitStays'
    BY <1>1 DEF SchedScan
  <2>3. (LoopsFromStart /\ LoopsInTable)'
    BY <1>1 DEF SchedScan
  <2>4. HandedOver'
    BY <1>1 DEF SchedScan
  <2>5. ParentCanWait'
    BY <1>1 DEF SchedScan
  <2> QED
    BY <2>1, <2>2, <2>3, <2>4, <2>5
<1>2. ASSUME NEW c \in Cpus, Sched(c) PROVE TreeIInv'
  BY <1>2 DEF Sched
<1>3. ASSUME NEW c \in Cpus, SchedBack(c) PROVE TreeIInv'
  BY <1>3 DEF SchedBack
<1>4. ASSUME NEW c \in Cpus, SchedUnlock(c) PROVE TreeIInv'
  BY <1>4 DEF SchedUnlock
<1>5. ASSUME NEW c \in Cpus, NEW p \in Procs, Forkret(c, p) PROVE TreeIInv'
  BY <1>5 DEF Forkret
<1>6. ASSUME NEW c \in Cpus, NEW p \in Procs, Yield(c, p) PROVE TreeIInv'
  BY <1>6 DEF Yield, CallSched
<1>7. ASSUME NEW c \in Cpus, NEW p \in Procs, Yielded(c, p) PROVE TreeIInv'
  <2>1. ForkChild'
    BY <1>7 DEF Yielded
  <2>2. InitStays'
    BY <1>7 DEF Yielded
  <2>3. (LoopsFromStart /\ LoopsInTable)'
    BY <1>7 DEF Yielded
  <2>4. HandedOver'
    BY <1>7, YieldedOutside
  <2>5. ParentCanWait'
    BY <1>7 DEF Yielded
  <2> QED
    BY <2>1, <2>2, <2>3, <2>4, <2>5
<1>8. ASSUME NEW c \in Cpus, NEW p \in Procs, NEW q \in Procs, ForkAlloc(c, p, q)
      PROVE  TreeIInv'
  <2>1. ForkChild'
    BY <1>8 DEF ForkAlloc
  <2>2. InitStays'
    BY <1>8 DEF ForkAlloc
  <2>3. (LoopsFromStart /\ LoopsInTable)'
    <3>1. pc[q] \in {"none", "dead"}
      BY <1>8 DEF ForkAlloc
    <3>2. \A r \in Procs : r # p /\ r # q => pc'[r] = pc[r]
      BY <1>8 DEF ForkAlloc
    <3>3. i' = i /\ j' = j /\ pc'[q] = "forkret" /\ pc[p] = "user"
      BY <1>8, <3>1 DEF ForkAlloc
    <3>4. pc'[p] \in {"fork_parent", "forkret"}
      BY <1>8 DEF ForkAlloc
    <3>5. i[p] = 1 /\ j[p] = 1 /\ i[q] = 1 /\ j[q] = 1
      BY ZenonT(30), <3>1, <3>3
    <3>6. ASSUME NEW r \in Procs
          PROVE  /\ pc'[r] \notin {"scan", "sleep", "reparent", "wake_init"} => i[r] = 1
                 /\ pc'[r] \notin {"wake_init", "wake_parent"} => j[r] = 1
                 /\ pc'[r] = "wake_init" => i[r] <= NPROC
      BY <3>2, <3>3, <3>4, <3>5
    <3> QED
      BY <3>3, <3>6
  <2>4. HandedOver'
    BY <1>8 DEF ForkAlloc
  <2>5. ParentCanWait'
    BY <1>8 DEF ForkAlloc
  <2> QED
    BY <2>1, <2>2, <2>3, <2>4, <2>5
<1>9. ASSUME NEW c \in Cpus, NEW p \in Procs, ForkParent(c, p) PROVE TreeIInv'
  BY <1>9 DEF ForkParent
<1>10. ASSUME NEW c \in Cpus, NEW p \in Procs, ForkRun(c, p) PROVE TreeIInv'
  BY <1>10 DEF ForkRun
<1>11. ASSUME NEW c \in Cpus, NEW p \in Procs, NEW q \in Procs, Kill(c, p, q)
       PROVE  TreeIInv'
  BY <1>11 DEF Kill
<1>12. ASSUME NEW c \in Cpus, NEW p \in Procs, KillZero(c, p) PROVE TreeIInv'
  BY <1>12 DEF KillZero
<1>13. ASSUME NEW c \in Cpus, NEW p \in Procs, ExitCall(c, p) PROVE TreeIInv'
  BY <1>13 DEF ExitCall
<1>14. ASSUME NEW c \in Cpus, NEW p \in Procs, ExitLock(c, p) PROVE TreeIInv'
  <2>1. ForkChild'
    BY <1>14 DEF ExitLock
  <2>2. InitStays'
    BY <1>14 DEF ExitLock
  <2>3. (LoopsFromStart /\ LoopsInTable)'
    BY <1>14 DEF ExitLock
  <2>4. HandedOver'
    BY <1>14 DEF ExitLock
  <2>5. ParentCanWait'
    BY <1>14 DEF ExitLock
  <2> QED
    BY <2>1, <2>2, <2>3, <2>4, <2>5
<1>15. ASSUME NEW c \in Cpus, NEW p \in Procs, Reparent(c, p) PROVE TreeIInv'
  <2>1. ForkChild'
    BY <1>15 DEF Reparent
  <2>2. InitStays'
    BY <1>15 DEF Reparent
  <2>3. (LoopsFromStart /\ LoopsInTable)'
    BY <1>15 DEF Reparent
  <2>4. HandedOver'
    <3> SUFFICES ASSUME NEW r \in Procs, NEW q \in Procs, Passed(r, q)'
                 PROVE  parent'[q] # r
      BY DEF HandedOver
    <3>1. r = p
      <4>1. pc'[r] = pc[r] \/ r = p
        BY <1>15 DEF Reparent
      <4> QED
        BY <1>15, <4>1 DEF Reparent
    <3>2. CASE i[p] > NPROC
      BY <1>15, <3>1, <3>2 DEF Reparent
    <3>3. CASE i[p] <= NPROC /\ parent[i[p]] = p
      <4>1. p # InitProc
        BY <1>15 DEF Reparent
      <4>2. i' = i /\ parent' = [parent EXCEPT ![i[p]] = InitProc]
        BY <1>15, <3>3 DEF Reparent
      <4>3. pc'[p] = "wake_init" /\ q <= i[p]
        BY <1>15, <3>1, <3>3, <4>2 DEF Reparent
      <4>4. CASE q < i[p]
        BY <1>15, <3>1, <4>1, <4>2, <4>4 DEF Reparent
      <4>5. CASE q = i[p]
        BY <3>1, <4>1, <4>2, <4>5
      <4>6. i[p] \in Nat /\ q \in Nat
        OBVIOUS
      <4>7. q < i[p] \/ q = i[p]
        BY <4>3, <4>6, NextSlot
      <4> QED
        BY <4>4, <4>5, <4>7
    <3>4. CASE i[p] <= NPROC /\ parent[i[p]] # p
      BY <1>15, <3>1, <3>4 DEF Reparent
    <3> QED
      BY <3>2, <3>3, <3>4
  <2>5. ParentCanWait'
    <3>1. CASE parent' = parent
      BY <1>15, <3>1 DEF Reparent
    <3>2. CASE parent' = [parent EXCEPT ![i[p]] = InitProc]
      BY <1>15, <3>2 DEF Reparent
    <3> QED
      BY <1>15, <3>1, <3>2 DEF Reparent
  <2> QED
    BY <2>1, <2>2, <2>3, <2>4, <2>5
<1>16. ASSUME NEW c \in Cpus, NEW p \in Procs, WakeInit(c, p) PROVE TreeIInv'
  <2>1. ForkChild'
    BY <1>16 DEF WakeInit, WakeRound
  <2>2. InitStays'
    BY <1>16 DEF WakeInit, WakeRound
  <2>3. (LoopsFromStart /\ LoopsInTable)'
    <3>1. CASE WakeRound(p, InitProc)
      BY <1>16, <3>1 DEF WakeInit, WakeRound
    <3>2. CASE ~ WakeRound(p, InitProc)
      <4>1. /\ i' = [i EXCEPT ![p] = @ + 1] /\ j' = [j EXCEPT ![p] = 1]
            /\ pc' = [pc EXCEPT ![p] = "reparent"]
        BY <1>16, <3>2 DEF WakeInit
      <4> QED
        BY <4>1
    <3> QED
      BY <3>1, <3>2
  <2>4. HandedOver'
    BY <1>16 DEF WakeInit, WakeRound
  <2>5. ParentCanWait'
    BY <1>16 DEF WakeInit, WakeRound
  <2> QED
    BY <2>1, <2>2, <2>3, <2>4, <2>5
<1>17. ASSUME NEW c \in Cpus, NEW p \in Procs, WakeParent(c, p) PROVE TreeIInv'
  <2>1. ForkChild'
    <3>1. CASE WakeRound(p, parent[p])
      BY <1>17, <3>1 DEF WakeRound
    <3>2. CASE ~ WakeRound(p, parent[p])
      <4>1. /\ state' = state /\ np' = np /\ parent' = parent /\ yret' = yret
            /\ pc[p] = "wake_parent" /\ pc' = [pc EXCEPT ![p] = "zombie"]
        BY <1>17, <3>2 DEF WakeParent
      <4>2. \A r \in Procs : At(r)' = At(r) \/ r = p
        BY <4>1
      <4>3. At(p)' = "zombie"
        BY SMTT(30), <4>1
      <4> QED
        BY <4>1, <4>2, <4>3
    <3> QED
      BY <3>1, <3>2
  <2>2. InitStays'
    BY <1>17 DEF WakeParent, WakeRound
  <2>3. (LoopsFromStart /\ LoopsInTable)'
    BY SMTT(30), <1>17 DEF WakeParent, WakeRound
  <2>4. HandedOver'
    BY <1>17 DEF WakeParent, WakeRound
  <2>5. ParentCanWait'
    BY <1>17 DEF WakeParent, WakeRound
  <2> QED
    BY <2>1, <2>2, <2>3, <2>4, <2>5
<1>18. ASSUME NEW c \in Cpus, NEW p \in Procs, ExitZombie(c, p) PROVE TreeIInv'
  BY <1>18 DEF ExitZombie, CallSched
<1>19. ASSUME NEW c \in Cpus, NEW p \in Procs, WaitCall(c, p) PROVE TreeIInv'
  BY <1>19 DEF WaitCall
<1>20. ASSUME NEW c \in Cpus, NEW p \in Procs, WaitLock(c, p) PROVE TreeIInv'
  BY <1>20 DEF WaitLock
<1>21. ASSUME NEW c \in Cpus, NEW p \in Procs, WaitScan(c, p) PROVE TreeIInv'
  BY <1>21 DEF WaitScan
<1>22. ASSUME NEW c \in Cpus, NEW p \in Procs, WaitReap(c, p) PROVE TreeIInv'
  BY <1>22 DEF WaitReap, WaitReturn
<1>23. ASSUME NEW c \in Cpus, NEW p \in Procs, WaitBadAddress(c, p) PROVE TreeIInv'
  BY <1>23 DEF WaitBadAddress, WaitReturn
<1>24. ASSUME NEW c \in Cpus, NEW p \in Procs, WaitEnd(c, p) PROVE TreeIInv'
  <2>1. ForkChild'
    BY SMTT(30), <1>24 DEF WaitEnd, WaitReturn
  <2>2. InitStays'
    BY <1>24 DEF WaitEnd, WaitReturn
  <2>3. (LoopsFromStart /\ LoopsInTable)'
    <3>1. CASE WaitReturn(p)
      BY <1>24, <3>1 DEF WaitEnd, WaitReturn
    <3>2. CASE ~ WaitReturn(p)
      BY SMTT(30), <1>24, <3>2 DEF WaitEnd
    <3> QED
      BY <3>1, <3>2
  <2>4. HandedOver'
    BY <1>24 DEF WaitEnd, WaitReturn
  <2>5. ParentCanWait'
    BY <1>24 DEF WaitEnd, WaitReturn
  <2> QED
    BY <2>1, <2>2, <2>3, <2>4, <2>5
<1>25. ASSUME NEW c \in Cpus, NEW p \in Procs, Sleep(c, p) PROVE TreeIInv'
  BY <1>25 DEF Sleep, CallSched
<1>26. ASSUME NEW c \in Cpus, NEW p \in Procs, Woken(c, p) PROVE TreeIInv'
  BY <1>26 DEF Woken
<1>27. CASE UNCHANGED vars
  BY <1>27 DEF vars
<1> QED
  BY ZenonT(30), <1>1, <1>2, <1>3, <1>4, <1>5, <1>6, <1>7, <1>8, <1>9, <1>10, <1>11, <1>12, <1>13,
     <1>14, <1>15, <1>16, <1>17, <1>18, <1>19, <1>20, <1>21, <1>22, <1>23, <1>24,
     <1>25, <1>26, <1>27 DEF Next, SchedNext, ThreadNext, UserNext

\* No wakeup of exit() falls between the scan and the sleep() of wait().
LEMMA WakeStep == ProcIInv /\ [Next]_vars => WakeIInv'
<1> SUFFICES ASSUME ProcIInv, [Next]_vars PROVE WakeIInv'
  OBVIOUS
<1> USE Slots, Rounds, OneInside DEF table, locks, harts, threads, Goto, Runs,
     ProcIInv, HartIInv, HartState, TypeOK, HartProc, LockOfHart, WaitLockOfHart,
     RunningOnHart, StatePc, Switching, Resuming, Waiting, Preemptible, TreeIInv, ForkChild,
     InitStays, LoopsFromStart, At, InitProc, WakeIInv, Scanned, SleepsOnSelf, Woke,
     OnlyHandedOver
<1>1. ASSUME NEW c \in Cpus, SchedScan(c) PROVE WakeIInv'
  BY <1>1 DEF SchedScan
<1>2. ASSUME NEW c \in Cpus, Sched(c) PROVE WakeIInv'
  BY <1>2 DEF Sched
<1>3. ASSUME NEW c \in Cpus, SchedBack(c) PROVE WakeIInv'
  BY <1>3 DEF SchedBack
<1>4. ASSUME NEW c \in Cpus, SchedUnlock(c) PROVE WakeIInv'
  BY <1>4 DEF SchedUnlock
<1>5. ASSUME NEW c \in Cpus, NEW p \in Procs, Forkret(c, p) PROVE WakeIInv'
  BY <1>5 DEF Forkret
<1>6. ASSUME NEW c \in Cpus, NEW p \in Procs, Yield(c, p) PROVE WakeIInv'
  BY <1>6 DEF Yield, CallSched
<1>7. ASSUME NEW c \in Cpus, NEW p \in Procs, Yielded(c, p) PROVE WakeIInv'
  <2>1. Scanned'
    BY <1>7, YieldedOutside
  <2>2. SleepsOnSelf'
    BY <1>7, YieldedOutside
  <2>3. Woke'
    BY <1>7, YieldedOutside
  <2>4. OnlyHandedOver'
    BY <1>7, YieldedOutside
  <2> QED
    BY <2>1, <2>2, <2>3, <2>4
<1>8. ASSUME NEW c \in Cpus, NEW p \in Procs, NEW q \in Procs, ForkAlloc(c, p, q)
      PROVE  WakeIInv'
  <2>1. Scanned'
    BY <1>8 DEF ForkAlloc
  <2>2. SleepsOnSelf'
    BY <1>8 DEF ForkAlloc
  <2>3. Woke'
    BY <1>8 DEF ForkAlloc
  <2>4. OnlyHandedOver'
    BY <1>8 DEF ForkAlloc
  <2> QED
    BY <2>1, <2>2, <2>3, <2>4
<1>9. ASSUME NEW c \in Cpus, NEW p \in Procs, ForkParent(c, p) PROVE WakeIInv'
  BY <1>9 DEF ForkParent
<1>10. ASSUME NEW c \in Cpus, NEW p \in Procs, ForkRun(c, p) PROVE WakeIInv'
  BY <1>10 DEF ForkRun
<1>11. ASSUME NEW c \in Cpus, NEW p \in Procs, NEW q \in Procs, Kill(c, p, q)
       PROVE  WakeIInv'
  BY <1>11 DEF Kill
<1>12. ASSUME NEW c \in Cpus, NEW p \in Procs, KillZero(c, p) PROVE WakeIInv'
  BY <1>12 DEF KillZero
<1>13. ASSUME NEW c \in Cpus, NEW p \in Procs, ExitCall(c, p) PROVE WakeIInv'
  BY <1>13 DEF ExitCall
<1>14. ASSUME NEW c \in Cpus, NEW p \in Procs, ExitLock(c, p) PROVE WakeIInv'
  BY <1>14 DEF ExitLock
<1>15. ASSUME NEW c \in Cpus, NEW p \in Procs, Reparent(c, p) PROVE WakeIInv'
  <2>1. Scanned'
    BY <1>15 DEF Reparent
  <2>2. SleepsOnSelf'
    BY <1>15 DEF Reparent
  <2>3. Woke'
    BY <1>15 DEF Reparent
  <2>4. OnlyHandedOver'
    BY <1>15 DEF Reparent
  <2> QED
    BY <2>1, <2>2, <2>3, <2>4
<1>16. ASSUME NEW c \in Cpus, NEW p \in Procs, WakeInit(c, p) PROVE WakeIInv'
  <2>1. Scanned'
    BY <1>16 DEF WakeInit, WakeRound
  <2>2. SleepsOnSelf'
    BY <1>16 DEF WakeInit, WakeRound
  <2>3. Woke'
    BY SMTT(30), <1>16 DEF WakeInit, WakeRound
  <2>4. OnlyHandedOver'
    BY <1>16 DEF WakeInit, WakeRound
  <2> QED
    BY <2>1, <2>2, <2>3, <2>4
<1>17. ASSUME NEW c \in Cpus, NEW p \in Procs, WakeParent(c, p) PROVE WakeIInv'
  <2>1. Scanned'
    BY <1>17 DEF WakeParent, WakeRound
  <2>2. SleepsOnSelf'
    BY <1>17 DEF WakeParent, WakeRound
  <2>3. Woke'
    <3>1. CASE WakeRound(p, parent[p])
      <4>1. \A r \in Procs : state'[r] = "SLEEPING" => state[r] = "SLEEPING"
        BY <3>1 DEF WakeRound
      <4>2. pc' = pc /\ parent' = parent /\ \A r \in Procs : r # p => j'[r] = j[r]
        BY <3>1 DEF WakeRound
      <4>3. ASSUME NEW q \in Procs, parent[p] = q, j'[p] > q
            PROVE  state'[q] # "SLEEPING"
        <5>1. j'[p] = j[p] + 1 /\ j[p] \in Procs
          BY <3>1 DEF WakeRound
        <5>2. CASE j[p] > q
          BY <1>17, <4>1, <4>3, <5>2 DEF WakeParent
        <5>3. CASE j[p] = q /\ q = p
          BY <1>17, <4>1, <5>3 DEF WakeParent
        <5>4. CASE j[p] = q /\ q # p
          BY <3>1, <4>3, <5>4 DEF WakeRound
        <5>5. j[p] > q \/ j[p] = q
          BY <4>3, <5>1, NextSlot
        <5> QED
          BY <5>2, <5>3, <5>4, <5>5
      <4> QED
        BY <1>17, <4>1, <4>2, <4>3 DEF WakeParent
    <3>2. CASE ~ WakeRound(p, parent[p])
      BY <1>17, <3>2 DEF WakeParent
    <3> QED
      BY <3>1, <3>2
  <2>4. OnlyHandedOver'
    BY <1>17 DEF WakeParent, WakeRound
  <2> QED
    BY <2>1, <2>2, <2>3, <2>4
<1>18. ASSUME NEW c \in Cpus, NEW p \in Procs, ExitZombie(c, p) PROVE WakeIInv'
  <2>1. Scanned'
    BY <1>18 DEF ExitZombie, CallSched
  <2>2. SleepsOnSelf'
    BY <1>18 DEF ExitZombie, CallSched
  <2>3. Woke'
    BY <1>18 DEF ExitZombie, CallSched
  <2>4. OnlyHandedOver'
    BY <1>18 DEF ExitZombie, CallSched
  <2> QED
    BY <2>1, <2>2, <2>3, <2>4
<1>19. ASSUME NEW c \in Cpus, NEW p \in Procs, WaitCall(c, p) PROVE WakeIInv'
  BY <1>19 DEF WaitCall
<1>20. ASSUME NEW c \in Cpus, NEW p \in Procs, WaitLock(c, p) PROVE WakeIInv'
  <2>1. Scanned'
    BY <1>20 DEF WaitLock
  <2>2. SleepsOnSelf'
    BY <1>20 DEF WaitLock
  <2>3. Woke'
    BY <1>20 DEF WaitLock
  <2>4. OnlyHandedOver'
    BY <1>20 DEF WaitLock
  <2> QED
    BY <2>1, <2>2, <2>3, <2>4
<1>21. ASSUME NEW c \in Cpus, NEW p \in Procs, WaitScan(c, p) PROVE WakeIInv'
  <2>1. Scanned'
    <3>1. ASSUME NEW q \in Procs, q < i'[p]
          PROVE  ~ (parent[q] = p /\ state[q] = "ZOMBIE")
      <4>1. i'[p] = i[p] + 1 /\ i[p] \in Nat
        BY <1>21 DEF WaitScan
      <4>2. q < i[p] \/ q = i[p]
        BY <3>1, <4>1, NextSlot
      <4> QED
        BY <1>21, <4>2 DEF WaitScan
    <3>2. /\ pc' = pc /\ parent' = parent /\ state' = state
          /\ \A r \in Procs : r # p => i'[r] = i[r]
      BY <1>21 DEF WaitScan
    <3> QED
      BY <1>21, <3>1, <3>2 DEF WaitScan
  <2>2. SleepsOnSelf'
    BY <1>21 DEF WaitScan
  <2>3. Woke'
    BY <1>21 DEF WaitScan
  <2>4. OnlyHandedOver'
    BY <1>21 DEF WaitScan
  <2> QED
    BY <2>1, <2>2, <2>3, <2>4
<1>22. ASSUME NEW c \in Cpus, NEW p \in Procs, WaitReap(c, p) PROVE WakeIInv'
  BY <1>22 DEF WaitReap, WaitReturn
<1>23. ASSUME NEW c \in Cpus, NEW p \in Procs, WaitBadAddress(c, p) PROVE WakeIInv'
  BY <1>23 DEF WaitBadAddress, WaitReturn
<1>24. ASSUME NEW c \in Cpus, NEW p \in Procs, WaitEnd(c, p) PROVE WakeIInv'
  <2>1. Scanned'
    BY <1>24 DEF WaitEnd, WaitReturn
  <2>2. SleepsOnSelf'
    BY <1>24 DEF WaitEnd, WaitReturn
  <2>3. Woke'
    BY <1>24 DEF WaitEnd, WaitReturn
  <2>4. OnlyHandedOver'
    BY <1>24 DEF WaitEnd, WaitReturn
  <2> QED
    BY <2>1, <2>2, <2>3, <2>4
<1>25. ASSUME NEW c \in Cpus, NEW p \in Procs, Sleep(c, p) PROVE WakeIInv'
  <2>1. Scanned'
    BY <1>25 DEF Sleep, CallSched
  <2>2. SleepsOnSelf'
    BY <1>25 DEF Sleep, CallSched
  <2>3. Woke'
    BY <1>25 DEF Sleep, CallSched
  <2>4. OnlyHandedOver'
    BY <1>25 DEF Sleep, CallSched
  <2> QED
    BY <2>1, <2>2, <2>3, <2>4
<1>26. ASSUME NEW c \in Cpus, NEW p \in Procs, Woken(c, p) PROVE WakeIInv'
  BY <1>26 DEF Woken
<1>27. CASE UNCHANGED vars
  BY <1>27 DEF vars
<1> QED
  BY <1>1, <1>2, <1>3, <1>4, <1>5, <1>6, <1>7, <1>8, <1>9, <1>10, <1>11, <1>12, <1>13,
     <1>14, <1>15, <1>16, <1>17, <1>18, <1>19, <1>20, <1>21, <1>22, <1>23, <1>24,
     <1>25, <1>26, <1>27 DEF Next, SchedNext, ThreadNext, UserNext

-----------------------------------------------------------------------------
\* Every step of a process or of a scheduler keeps the invariant.
LEMMA ProcStep == ProcIInv /\ [Next]_vars => ProcIInv'
  BY TypeStep, HartStep, TreeStep, WakeStep DEF ProcIInv, HartIInv

\* userinit() and the harts that enter scheduler() establish the invariant.
LEMMA ProcInit == Init => ProcIInv
<1> SUFFICES ASSUME Init PROVE ProcIInv
  OBVIOUS
<1>1. TypeOK
  BY Slots, Rounds DEF Init, TypeOK, States, Pcs, Preemptible
<1>2. HartState
  BY Slots DEF Init, HartState, HartProc, LockOfHart, WaitLockOfHart,
     RunningOnHart, StatePc, Switching, Resuming
<1>3. TreeIInv
  BY Slots DEF Init, TreeIInv, ForkChild, InitStays, LoopsFromStart, LoopsInTable,
     HandedOver, Passed, ParentCanWait, At, InitProc, NoProc
<1>4. WakeIInv
  BY Slots DEF Init, WakeIInv, Scanned, SleepsOnSelf, Woke, OnlyHandedOver
<1> QED
  BY <1>1, <1>2, <1>3, <1>4 DEF ProcIInv, HartIInv

\* For any number of harts and slots, the invariant above holds of fork(),
\* exit(), wait(), yield(), sleep(), wakeup(), kill() and the scheduler.
THEOREM ProcInvariant == Spec => []ProcIInv
  BY ProcInit, ProcStep, PTL DEF Spec

\* For any number of harts and slots: no hart runs a process another one runs,
\* scheduler() never picks a process whose context or kernel stack is still in
\* use, and wait() never frees the kernel page table a hart is on.
THEOREM ProcSwitch == Spec => []SwitchInv
<1>1. ProcIInv => SwitchInv
  <2> SUFFICES ASSUME ProcIInv PROVE SwitchInv
    OBVIOUS
  <2> USE Slots DEF ProcIInv, HartIInv, HartState, TypeOK, HartProc,
     LockOfHart,   RunningOnHart, Switching
  <2>1. ASSUME NEW c \in Cpus, NEW d \in Cpus, c # d, cproc[c] # NoProc
        PROVE  cproc[c] # cproc[d]
    BY <2>1
  <2>2. ASSUME NEW p \in Procs, state[p] = "RUNNING"
        PROVE  \E c \in Cpus : Runs(c, p)
    BY <2>2 DEF Runs
  <2>3. ASSUME NEW p \in Procs, state[p] = "RUNNABLE", plock[p] = NoCpu, NEW c \in Cpus
        PROVE  cproc[c] # p
    BY <2>3
  <2>4. KernelTableLive
    BY DEF KernelTableLive
  <2> QED
    BY <2>1, <2>2, <2>3, <2>4 DEF SwitchInv, OnOneHart
<1> QED
  BY <1>1, ProcInvariant, PTL

\* For any number of harts and slots: the panics of sched() ("sched p->lock",
\* "sched locks", "sched running") and of exit() ("zombie exit") do not fire.
THEOREM ProcPanics == Spec => []ProcNoPanic
<1>1. ProcIInv => ProcNoPanic
  BY Slots DEF ProcIInv, HartIInv, ProcNoPanic, HeldBy, HartState, TypeOK, HartProc,
     LockOfHart, WaitLockOfHart, RunningOnHart, StatePc, Switching
<1> QED
  BY <1>1, ProcInvariant, PTL

\* For any number of harts and slots: fork(), exit() and reparent() leave no
\* process without a parent that can wait() for it.
THEOREM ProcTree == Spec => []TreeInv
<1>1. ProcIInv => TreeInv
  BY DEF ProcIInv, HartIInv, TreeIInv, TreeInv, ParentAlive, ParentCanWait
<1> QED
  BY <1>1, ProcInvariant, PTL

\* For any number of harts and slots: an exit() that races with the wait() of
\* the parent, or with a reparent() to init, never leaves the parent asleep.
THEOREM ProcWakeups == Spec => []NoLostWakeup
<1>1. ProcIInv => NoLostWakeup
  BY DEF ProcIInv, WakeIInv, OnlyHandedOver, NoLostWakeup
<1> QED
  BY <1>1, ProcInvariant, PTL
=============================================================================
