-------------------------------- MODULE Proc --------------------------------
(***************************************************************************)
(* Processes and their scheduling, kernel/proc.c: fork(), exit(), wait(),  *)
(* kill(), sleep() and wakeup() as wait() uses them, yield(), and the      *)
(* scheduler() loop of every hart.                                         *)
(*                                                                         *)
(* Locks are held by harts, as in struct spinlock.  A section that takes   *)
(* one p->lock and releases it again is one action; where a section takes  *)
(* a second lock, or hands its lock over through swtch(), every            *)
(* acquisition is an action of its own.                                    *)
(***************************************************************************)
EXTENDS Naturals

CONSTANTS
  NPROC,  \* slots of the process table
  Cpus,   \* the harts
  NoCpu   \* the holder of a lock that is free

ASSUME ProcAssumption == NPROC \in Nat \ {0} /\ NoCpu \notin Cpus

Procs == 1..NPROC
NoProc == 0     \* a null struct proc *, and kernel_pagetable in satp
InitProc == 1   \* userinit() runs on an empty table and gets the first slot

VARIABLES
  state,    \* p->state
  chan,     \* p->chan
  killed,   \* p->killed
  parent,   \* p->parent
  plock,    \* the hart that holds p->lock
  waitlock, \* the hart that holds wait_lock
  cproc,    \* c->proc
  satp,     \* whose kernel page table hart c uses
  spc,      \* where hart c is: in scheduler(), in sched() or in a process
  cur,      \* the loop variable p of scheduler() on hart c
  pc,       \* where the kernel thread of process p is, or will resume
  yret,     \* where p was when a timer interrupt made it yield
  np,       \* the child fork() is creating, for the thread of p
  i,        \* the loop variable of wait() and reparent(), for that thread
  j,        \* the loop variable of wakeup(), for that thread
  havekids  \* havekids of wait(), for that thread

table == <<state, chan, killed, parent>>
locks == <<plock, waitlock>>
harts == <<cproc, satp, spc, cur>>
threads == <<pc, yret, np, i, j, havekids>>
vars == <<table, locks, harts, threads>>

\* Points at which the thread of a process holds no lock, so that a timer
\* interrupt can take the hart from it.
Preemptible == {"user", "fork_parent", "fork_run", "exit", "wait", "relock"}
Pcs == Preemptible \cup {"none", "forkret", "yielded", "woken", "dead", "scan",
                         "sleep", "reparent", "wake_init", "wake_parent", "zombie"}
States == {"UNUSED", "USED", "SLEEPING", "RUNNABLE", "RUNNING", "ZOMBIE"}

Goto(p, l) == pc' = [pc EXCEPT ![p] = l]
Runs(c, p) == spc[c] = "run" /\ cproc[c] = p
Succ(p) == IF p = NPROC THEN 1 ELSE p + 1   \* the next round of a for (;;)

Init ==
  /\ state = [p \in Procs |-> IF p = InitProc THEN "RUNNABLE" ELSE "UNUSED"]
  /\ chan = [p \in Procs |-> NoProc]
  /\ killed = [p \in Procs |-> FALSE]
  /\ parent = [p \in Procs |-> NoProc]
  /\ plock = [p \in Procs |-> NoCpu]
  /\ waitlock = NoCpu
  /\ cproc = [c \in Cpus |-> NoProc]
  /\ satp = [c \in Cpus |-> NoProc]
  /\ spc = [c \in Cpus |-> "scan"]
  /\ cur = [c \in Cpus |-> 1]
  /\ pc = [p \in Procs |-> IF p = InitProc THEN "forkret" ELSE "none"]
  /\ yret = [p \in Procs |-> "user"]
  /\ np = [p \in Procs |-> NoProc]
  /\ i = [p \in Procs |-> 1]
  /\ j = [p \in Procs |-> 1]
  /\ havekids = [p \in Procs |-> FALSE]

-----------------------------------------------------------------------------
(* scheduler(), on hart c *)

\* One round of the loop: lock the slot, and run its process or go on.
SchedScan(c) ==
  LET p == cur[c] IN
  /\ spc[c] = "scan" /\ plock[p] = NoCpu
  /\ \/ /\ state[p] = "RUNNABLE"
        /\ plock' = [plock EXCEPT ![p] = c]
        /\ state' = [state EXCEPT ![p] = "RUNNING"]
        /\ cproc' = [cproc EXCEPT ![c] = p]
        /\ satp' = [satp EXCEPT ![c] = p]
        /\ spc' = [spc EXCEPT ![c] = "run"]
        /\ UNCHANGED cur
     \/ /\ state[p] # "RUNNABLE"
        /\ cur' = [cur EXCEPT ![c] = Succ(p)]
        /\ UNCHANGED <<plock, state, cproc, satp, spc>>
  /\ UNCHANGED <<chan, killed, parent, waitlock, threads>>

\* sched(): swtch() to the scheduler.  Its four tests are SchedAsserts below.
Sched(c) ==
  /\ spc[c] = "sched"
  /\ spc' = [spc EXCEPT ![c] = "back"]
  /\ UNCHANGED <<table, locks, cproc, satp, cur, threads>>

\* After swtch() returns: kvminithart(), c->proc = 0.
SchedBack(c) ==
  /\ spc[c] = "back"
  /\ satp' = [satp EXCEPT ![c] = NoProc]
  /\ cproc' = [cproc EXCEPT ![c] = NoProc]
  /\ spc' = [spc EXCEPT ![c] = "unlock"]
  /\ UNCHANGED <<table, locks, cur, threads>>

\* release(&p->lock) at the end of the round.
SchedUnlock(c) ==
  /\ spc[c] = "unlock"
  /\ plock' = [plock EXCEPT ![cur[c]] = NoCpu]
  /\ cur' = [cur EXCEPT ![c] = Succ(@)]
  /\ spc' = [spc EXCEPT ![c] = "scan"]
  /\ UNCHANGED <<table, waitlock, cproc, satp, threads>>

-----------------------------------------------------------------------------
(* The kernel thread of process p, on hart c *)

\* Enter sched() with p->lock held; l is where the thread will resume.
CallSched(c, p, l) ==
  /\ spc' = [spc EXCEPT ![c] = "sched"]
  /\ Goto(p, l)
  /\ UNCHANGED <<cproc, satp, cur>>

\* forkret(): a new process releases the lock scheduler() took for it.
Forkret(c, p) ==
  /\ Runs(c, p) /\ pc[p] = "forkret"
  /\ plock' = [plock EXCEPT ![p] = NoCpu]
  /\ Goto(p, "user")
  /\ UNCHANGED <<table, waitlock, harts, yret, np, i, j, havekids>>

\* Mutant: yield() becomes RUNNABLE without taking p->lock.
YieldUnlocked(c, p) ==
  /\ Runs(c, p) /\ pc[p] \in Preemptible
  /\ state' = [state EXCEPT ![p] = "RUNNABLE"]
  /\ yret' = [yret EXCEPT ![p] = pc[p]]
  /\ CallSched(c, p, "yielded")
  /\ UNCHANGED <<chan, killed, parent, locks, np, i, j, havekids>>

\* yield(), from a timer interrupt in user space or in the kernel.
Yield(c, p) ==
  /\ Runs(c, p) /\ pc[p] \in Preemptible /\ plock[p] = NoCpu
  /\ plock' = [plock EXCEPT ![p] = c]
  /\ state' = [state EXCEPT ![p] = "RUNNABLE"]
  /\ yret' = [yret EXCEPT ![p] = pc[p]]
  /\ CallSched(c, p, "yielded")
  /\ UNCHANGED <<chan, killed, parent, waitlock, np, i, j, havekids>>

\* yield() after sched().
Yielded(c, p) ==
  /\ Runs(c, p) /\ pc[p] = "yielded"
  /\ plock' = [plock EXCEPT ![p] = NoCpu]
  /\ Goto(p, yret[p])
  /\ yret' = [yret EXCEPT ![p] = "user"]
  /\ UNCHANGED <<table, waitlock, harts, np, i, j, havekids>>

\* fork() up to its first release(&np->lock): allocproc() finds slot q and
\* gives it pages and a context that starts in forkret().  When no slot or
\* no memory is left the slot is free again and nothing has changed.
ForkAlloc(c, p, q) ==
  /\ Runs(c, p) /\ pc[p] = "user" /\ ~ killed[p]
  /\ plock[q] = NoCpu /\ state[q] = "UNUSED"
  /\ state' = [state EXCEPT ![q] = "USED"]
  /\ pc' = [pc EXCEPT ![p] = "fork_parent", ![q] = "forkret"]
  /\ np' = [np EXCEPT ![p] = q]
  /\ UNCHANGED <<chan, killed, parent, locks, harts, yret, i, j, havekids>>

\* fork(): np->parent = p under wait_lock.
ForkParent(c, p) ==
  /\ Runs(c, p) /\ pc[p] = "fork_parent" /\ waitlock = NoCpu
  /\ parent' = [parent EXCEPT ![np[p]] = p]
  /\ Goto(p, "fork_run")
  /\ UNCHANGED <<state, chan, killed, locks, harts, yret, np, i, j, havekids>>

\* fork(): np->state = RUNNABLE under np->lock.
ForkRun(c, p) ==
  /\ Runs(c, p) /\ pc[p] = "fork_run" /\ plock[np[p]] = NoCpu
  /\ state' = [state EXCEPT ![np[p]] = "RUNNABLE"]
  /\ np' = [np EXCEPT ![p] = NoProc]
  /\ Goto(p, "user")
  /\ UNCHANGED <<chan, killed, parent, locks, harts, yret, i, j, havekids>>

\* kill() of the process in slot q, at the round of its loop that finds it.
Kill(c, p, q) ==
  /\ Runs(c, p) /\ pc[p] = "user" /\ ~ killed[p]
  /\ plock[q] = NoCpu /\ state[q] # "UNUSED"
  /\ killed' = [killed EXCEPT ![q] = TRUE]
  /\ state' = [state EXCEPT ![q] = IF @ = "SLEEPING" THEN "RUNNABLE" ELSE @]
  /\ UNCHANGED <<chan, parent, locks, harts, threads>>

\* kill(0): the pid of a slot that is UNUSED is 0, too, and the first one is
\* hit.  Nothing clears killed before the next process takes the slot.
KillZero(c, p) ==
  /\ Runs(c, p) /\ pc[p] = "user" /\ ~ killed[p]
  /\ \E q \in Procs :
       /\ state[q] = "UNUSED" /\ \A r \in 1..(q - 1) : state[r] # "UNUSED"
       /\ plock[q] = NoCpu
       /\ killed' = [killed EXCEPT ![q] = TRUE]
  /\ UNCHANGED <<state, chan, parent, locks, harts, threads>>

\* exit(), from the system call or from usertrap() for a killed process.
\* It closes the files first, and takes no lock of this module there.
ExitCall(c, p) ==
  /\ Runs(c, p) /\ pc[p] = "user" /\ p # InitProc
  /\ Goto(p, "exit")
  /\ UNCHANGED <<table, locks, harts, yret, np, i, j, havekids>>

\* exit(): acquire(&wait_lock).
ExitLock(c, p) ==
  /\ Runs(c, p) /\ pc[p] = "exit" /\ waitlock = NoCpu
  /\ waitlock' = c
  /\ Goto(p, "reparent")
  /\ UNCHANGED <<table, plock, harts, yret, np, i, j, havekids>>

\* Mutant: the loop of reparent() stops before the last slot.
ReparentOffByOne(c, p) ==
  /\ Runs(c, p) /\ pc[p] = "reparent"
  /\ \/ /\ i[p] >= NPROC
        /\ i' = [i EXCEPT ![p] = 1]
        /\ Goto(p, "wake_parent")
        /\ UNCHANGED parent
     \/ /\ i[p] < NPROC /\ parent[i[p]] = p
        /\ parent' = [parent EXCEPT ![i[p]] = InitProc]
        /\ Goto(p, "wake_init")
        /\ UNCHANGED i
     \/ /\ i[p] < NPROC /\ parent[i[p]] # p
        /\ i' = [i EXCEPT ![p] = @ + 1]
        /\ UNCHANGED <<parent, pc>>
  /\ UNCHANGED <<state, chan, killed, locks, harts, yret, np, j, havekids>>

\* reparent(): one round of its loop; a child of p calls for wakeup(initproc).
Reparent(c, p) ==
  /\ Runs(c, p) /\ pc[p] = "reparent"
  /\ \/ /\ i[p] > NPROC
        /\ i' = [i EXCEPT ![p] = 1]
        /\ Goto(p, "wake_parent")
        /\ UNCHANGED parent
     \/ /\ i[p] <= NPROC /\ parent[i[p]] = p
        /\ parent' = [parent EXCEPT ![i[p]] = InitProc]
        /\ Goto(p, "wake_init")
        /\ UNCHANGED i
     \/ /\ i[p] <= NPROC /\ parent[i[p]] # p
        /\ i' = [i EXCEPT ![p] = @ + 1]
        /\ UNCHANGED <<parent, pc>>
  /\ UNCHANGED <<state, chan, killed, locks, harts, yret, np, j, havekids>>

\* One round of wakeup(target): every other slot is locked in turn.
WakeRound(p, target) ==
  /\ j[p] <= NPROC
  /\ \/ j[p] = p /\ UNCHANGED state
     \/ /\ j[p] # p /\ plock[j[p]] = NoCpu
        /\ state' = [state EXCEPT ![j[p]] =
                       IF @ = "SLEEPING" /\ chan[j[p]] = target THEN "RUNNABLE" ELSE @]
  /\ j' = [j EXCEPT ![p] = @ + 1]
  /\ UNCHANGED <<chan, killed, parent, locks, harts, pc, yret, np, i, havekids>>

\* wakeup(initproc) in reparent(), then the next round of reparent().
WakeInit(c, p) ==
  /\ Runs(c, p) /\ pc[p] = "wake_init"
  /\ \/ WakeRound(p, InitProc)
     \/ /\ j[p] > NPROC
        /\ j' = [j EXCEPT ![p] = 1]
        /\ i' = [i EXCEPT ![p] = @ + 1]
        /\ Goto(p, "reparent")
        /\ UNCHANGED <<table, locks, harts, yret, np, havekids>>

\* Mutant: exit() does not wake its parent.
WakeParentSilent(c, p) ==
  /\ Runs(c, p) /\ pc[p] = "wake_parent"
  /\ Goto(p, "zombie")
  /\ UNCHANGED <<table, locks, harts, yret, np, i, j, havekids>>

\* wakeup(p->parent) in exit().
WakeParent(c, p) ==
  /\ Runs(c, p) /\ pc[p] = "wake_parent"
  /\ \/ WakeRound(p, parent[p])
     \/ /\ j[p] > NPROC
        /\ j' = [j EXCEPT ![p] = 1]
        /\ Goto(p, "zombie")
        /\ UNCHANGED <<table, locks, harts, yret, np, i, havekids>>

\* Mutant: wait_lock is not released before sched().
ExitZombieKeepsLock(c, p) ==
  /\ Runs(c, p) /\ pc[p] = "zombie" /\ plock[p] = NoCpu
  /\ plock' = [plock EXCEPT ![p] = c]
  /\ state' = [state EXCEPT ![p] = "ZOMBIE"]
  /\ CallSched(c, p, "dead")
  /\ UNCHANGED <<chan, killed, parent, waitlock, yret, np, i, j, havekids>>

\* exit(): with p->lock held the process becomes a zombie, releases
\* wait_lock and leaves the hart for good.
ExitZombie(c, p) ==
  /\ Runs(c, p) /\ pc[p] = "zombie" /\ plock[p] = NoCpu
  /\ plock' = [plock EXCEPT ![p] = c]
  /\ state' = [state EXCEPT ![p] = "ZOMBIE"]
  /\ waitlock' = NoCpu
  /\ CallSched(c, p, "dead")
  /\ UNCHANGED <<chan, killed, parent, yret, np, i, j, havekids>>

\* The system call wait().
WaitCall(c, p) ==
  /\ Runs(c, p) /\ pc[p] = "user" /\ ~ killed[p]
  /\ Goto(p, "wait")
  /\ UNCHANGED <<table, locks, harts, yret, np, i, j, havekids>>

\* wait(): acquire(&wait_lock), at its start and at the end of sleep().
WaitLock(c, p) ==
  /\ Runs(c, p) /\ pc[p] \in {"wait", "relock"} /\ waitlock = NoCpu
  /\ waitlock' = c
  /\ havekids' = [havekids EXCEPT ![p] = FALSE]
  /\ i' = [i EXCEPT ![p] = 1]
  /\ Goto(p, "scan")
  /\ UNCHANGED <<table, plock, harts, yret, np, j>>

\* Leave wait(), releasing wait_lock.
WaitReturn(p) ==
  /\ waitlock' = NoCpu
  /\ i' = [i EXCEPT ![p] = 1]
  /\ havekids' = [havekids EXCEPT ![p] = FALSE]
  /\ Goto(p, "user")
  /\ UNCHANGED <<plock, harts, yret, np, j>>

\* wait(): one round of the scan over a slot that is no zombie child.
WaitScan(c, p) ==
  /\ Runs(c, p) /\ pc[p] = "scan" /\ i[p] <= NPROC
  /\ \/ parent[i[p]] # p /\ UNCHANGED havekids
     \/ /\ parent[i[p]] = p /\ plock[i[p]] = NoCpu /\ state[i[p]] # "ZOMBIE"
        /\ havekids' = [havekids EXCEPT ![p] = TRUE]
  /\ i' = [i EXCEPT ![p] = @ + 1]
  /\ UNCHANGED <<table, locks, harts, pc, yret, np, j>>

\* wait(): a zombie child is found and freeproc() empties its slot.
WaitReap(c, p) ==
  /\ Runs(c, p) /\ pc[p] = "scan" /\ i[p] <= NPROC
  /\ parent[i[p]] = p /\ plock[i[p]] = NoCpu /\ state[i[p]] = "ZOMBIE"
  /\ state' = [state EXCEPT ![i[p]] = "UNUSED"]
  /\ chan' = [chan EXCEPT ![i[p]] = NoProc]
  /\ killed' = [killed EXCEPT ![i[p]] = FALSE]
  /\ parent' = [parent EXCEPT ![i[p]] = NoProc]
  /\ WaitReturn(p)

\* wait(): the zombie's status cannot be copied out, and the zombie stays.
\* init passes a null address and copies nothing.
WaitBadAddress(c, p) ==
  /\ Runs(c, p) /\ pc[p] = "scan" /\ i[p] <= NPROC /\ p # InitProc
  /\ parent[i[p]] = p /\ plock[i[p]] = NoCpu /\ state[i[p]] = "ZOMBIE"
  /\ WaitReturn(p)
  /\ UNCHANGED table

\* wait(): the scan found no zombie; give up, or go on to sleep().
WaitEnd(c, p) ==
  /\ Runs(c, p) /\ pc[p] = "scan" /\ i[p] > NPROC
  /\ \/ (~ havekids[p] \/ killed[p]) /\ WaitReturn(p) /\ UNCHANGED table
     \/ /\ havekids[p] /\ ~ killed[p]
        /\ Goto(p, "sleep")
        /\ UNCHANGED <<table, locks, harts, yret, np, i, j, havekids>>

\* Mutant: sleep() releases wait_lock before it takes p->lock.
SleepReleaseFirst(c, p) ==
  /\ Runs(c, p) /\ pc[p] = "sleep"
  /\ \/ waitlock = c /\ waitlock' = NoCpu
        /\ UNCHANGED <<table, plock, harts, threads>>
     \/ /\ waitlock # c /\ plock[p] = NoCpu
        /\ plock' = [plock EXCEPT ![p] = c]
        /\ chan' = [chan EXCEPT ![p] = p]
        /\ state' = [state EXCEPT ![p] = "SLEEPING"]
        /\ CallSched(c, p, "woken")
        /\ UNCHANGED <<killed, parent, waitlock, yret, np, i, j, havekids>>

\* sleep(p, &wait_lock) until sched().
Sleep(c, p) ==
  /\ Runs(c, p) /\ pc[p] = "sleep" /\ plock[p] = NoCpu
  /\ plock' = [plock EXCEPT ![p] = c]
  /\ waitlock' = NoCpu
  /\ chan' = [chan EXCEPT ![p] = p]
  /\ state' = [state EXCEPT ![p] = "SLEEPING"]
  /\ i' = [i EXCEPT ![p] = 1]
  /\ havekids' = [havekids EXCEPT ![p] = FALSE]
  /\ CallSched(c, p, "woken")
  /\ UNCHANGED <<killed, parent, yret, np, j>>

\* sleep() after sched(): p->chan = 0, release(&p->lock); WaitLock follows.
Woken(c, p) ==
  /\ Runs(c, p) /\ pc[p] = "woken"
  /\ chan' = [chan EXCEPT ![p] = NoProc]
  /\ plock' = [plock EXCEPT ![p] = NoCpu]
  /\ Goto(p, "relock")
  /\ UNCHANGED <<state, killed, parent, waitlock, harts, yret, np, i, j, havekids>>

-----------------------------------------------------------------------------
SchedNext(c) == SchedScan(c) \/ Sched(c) \/ SchedBack(c) \/ SchedUnlock(c)

\* What a thread does on its own once a system call or switch is under way.
ThreadNext(c, p) ==
  \/ Forkret(c, p) \/ Yielded(c, p) \/ ForkParent(c, p) \/ ForkRun(c, p)
  \/ ExitLock(c, p) \/ Reparent(c, p) \/ WakeInit(c, p) \/ WakeParent(c, p)
  \/ ExitZombie(c, p) \/ WaitLock(c, p) \/ WaitScan(c, p) \/ WaitReap(c, p)
  \/ WaitBadAddress(c, p) \/ WaitEnd(c, p) \/ Sleep(c, p) \/ Woken(c, p)

\* What the program of p asks for.  Killing init stops the machine with
\* panic("init exiting") and is left out.
UserNext(c, p) ==
  \/ \E q \in Procs : ForkAlloc(c, p, q)
  \/ \E q \in Procs \ {InitProc} : Kill(c, p, q)
  \/ KillZero(c, p)
  \/ ExitCall(c, p) \/ WaitCall(c, p)

Next == \E c \in Cpus :
  \/ SchedNext(c)
  \/ \E p \in Procs : ThreadNext(c, p) \/ UserNext(c, p) \/ Yield(c, p)

Spec == Init /\ [][Next]_vars

-----------------------------------------------------------------------------
\* The type of the process table, the locks, the harts and the threads.
TypeOK ==
  /\ state \in [Procs -> States]
  /\ chan \in [Procs -> Procs \cup {NoProc}]
  /\ killed \in [Procs -> BOOLEAN]
  /\ parent \in [Procs -> Procs \cup {NoProc}]
  /\ plock \in [Procs -> Cpus \cup {NoCpu}]
  /\ waitlock \in Cpus \cup {NoCpu}
  /\ cproc \in [Cpus -> Procs \cup {NoProc}]
  /\ satp \in [Cpus -> Procs \cup {NoProc}]
  /\ spc \in [Cpus -> {"scan", "run", "sched", "back", "unlock"}]
  /\ cur \in [Cpus -> Procs]
  /\ pc \in [Procs -> Pcs]
  /\ yret \in [Procs -> Preemptible]
  /\ np \in [Procs -> Procs \cup {NoProc}]
  /\ i \in [Procs -> 1..(NPROC + 1)]
  /\ j \in [Procs -> 1..(NPROC + 1)]
  /\ havekids \in [Procs -> BOOLEAN]

\* The locks hart c holds.
HeldBy(c) == {p \in Procs : plock[p] = c}

\* The panics of sched() and exit() never fire: a thread enters sched() with
\* its own p->lock and no other lock, and no longer RUNNING; a zombie's thread
\* is never resumed.
ProcNoPanic == \A c \in Cpus :
  /\ spc[c] = "sched" => /\ HeldBy(c) = {cproc[c]} /\ waitlock # c
                         /\ state[cproc[c]] # "RUNNING"
  /\ spc[c] = "run" => pc[cproc[c]] # "dead"

\* A process is on one hart at most, and one that scheduler() may pick is on
\* none: it has finished swtch(), so that its saved context and its kernel
\* stack are not in use.
OnOneHart ==
  /\ \A c, d \in Cpus : c # d /\ cproc[c] # NoProc => cproc[c] # cproc[d]
  /\ \A p \in Procs : /\ state[p] = "RUNNING" => \E c \in Cpus : Runs(c, p)
                      /\ state[p] = "RUNNABLE" /\ plock[p] = NoCpu
                           => \A c \in Cpus : cproc[c] # p

\* No hart runs on the kernel page table of a process whose slot is free:
\* freeproc() in wait() frees table and stack of a zombie only after the
\* zombie's hart has gone back to kernel_pagetable.
KernelTableLive == \A c \in Cpus :
  satp[c] # NoProc => state[satp[c]] # "UNUSED"

\* A process and its page table are on one hart, from the switch to it to the
\* switch back (scheduler(), sched(), freeproc()).
SwitchInv == OnOneHart /\ KernelTableLive

\* wait() misses no exit(): while a process sleeps in wait(), a zombie child
\* of it exists only if the exiting process that has just handed the child
\* over is still in wakeup(initproc).
NoLostWakeup == \A p, q \in Procs :
  state[p] = "SLEEPING" /\ parent[q] = p /\ state[q] = "ZOMBIE"
    => \E r \in Procs : pc[r] = "wake_init"

\* Every process past its fork() has a parent that can still wait() for it:
\* exit() leaves no child behind, whatever forks, exits and waits race.
ParentAlive == \A q \in Procs \ {InitProc} :
  state[q] \notin {"UNUSED", "USED"}
    => parent[q] # NoProc /\ state[parent[q]] \notin {"UNUSED", "USED", "ZOMBIE"}

\* The process table is well typed and a tree of processes that can be waited
\* for (fork(), exit(), reparent()).
TreeInv == TypeOK /\ ParentAlive

(***************************************************************************)
(* Liveness, for one hart (CPUS := 1 in the Makefile), on which a spin     *)
(* lock is never contended.  The scheduler loop goes on and a process it   *)
(* resumes finishes its switch.  The timer keeps interrupting the hart,    *)
(* and a process that is on the hart again and again executes its next     *)
(* step, because a tick comes only after it has run for a while: hence     *)
(* strong fairness of both.  The program of init waits again and again     *)
(* (user/init.c).                                                          *)
(***************************************************************************)
FairSpec ==
  /\ Spec
  /\ \A c \in Cpus :
       /\ WF_vars(SchedNext(c) \/ \E p \in Procs : Yielded(c, p))
       /\ SF_vars(\E p \in Procs : Yield(c, p))
       /\ \A p \in Procs : SF_vars(pc[p] # "yielded" /\ ThreadNext(c, p))
       /\ SF_vars(WaitCall(c, InitProc))

\* The zombie child of init that the scan of wait() meets first.
FirstZombie(q) ==
  /\ state[q] = "ZOMBIE" /\ parent[q] = InitProc
  /\ \A r \in 1..(q - 1) : ~ (state[r] = "ZOMBIE" /\ parent[r] = InitProc)

\* init reaps orphans, also those whose parent left them behind as zombies
\* while init was asleep: the first one in the table is reaped, unless one in
\* an earlier slot comes before it.  (More does not hold: wait() starts every
\* scan at the first slot, and slots reused fast enough starve the later ones.)
OrphanReaped == \A q \in Procs : FirstZombie(q) ~> ~ FirstZombie(q)
=============================================================================
