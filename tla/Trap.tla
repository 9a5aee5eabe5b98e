-------------------------------- MODULE Trap --------------------------------
(***************************************************************************)
(* The way into the kernel and out of it: trampoline.S, kernelvec.S,       *)
(* swtch.S, trap.c, trap_handler.c (the alarm), the dispatch of syscall.c, *)
(* sys_sleep(), and the interrupt discipline of spinlock.c and sched().    *)
(*                                                                         *)
(* The registers of a user program are pc, a0, a7 and x, which stands for  *)
(* all the others.  A user program has an ecall at address 0, its handler  *)
(* one at address 2; the instruction after each jumps back to it.  Kernel  *)
(* code keeps its variables on its stack, so its registers are the place   *)
(* where it is (code), sp and tp.  acquire() is one step, possible when    *)
(* the lock is free.  A register that is written before it is read again   *)
(* may be reset, which only keeps the number of states down.               *)
(***************************************************************************)
EXTENDS Integers, FiniteSets

CONSTANTS
  NHART,    \* harts, numbered from 0 as in tp
  NP,       \* processes
  TickMod,  \* ticks is unsigned and wraps at this value
  Programs  \* for every process the system calls <<number, argument>> it makes

ASSUME TrapAssumption ==
  /\ NHART \in Nat \ {0} /\ NP \in Nat \ {0} /\ TickMod \in Nat \ {0}
  /\ \A f \in Programs : \A p \in 1..NP : \A c \in f[p] :
       /\ c[1] \in {"sigalarm", "sigreturn", "sleep", "work", "exit", "bad", "fault"}
       /\ c[2] \in 0..(TickMod - 1)

Harts == 0..(NHART - 1)
Procs == 1..NP
NoHart == -1
NoProc == 0
HandlerPc == 2
Err == TickMod - 1                      \* -1
Fault == <<"fault", 0>>                 \* not a call: the program faults

KStack(p) == <<"kstack", p>>            \* the kernel stack of process p
BootStack(h) == <<"stack0", h>>         \* the stack scheduler() runs on
UserTable(p) == <<"user", p>>           \* p->pagetable
KernTable(p) == <<"kern", p>>           \* p->kerntable
KernelTable == <<"kernel", 0>>          \* kernel_pagetable
Stacks == {KStack(p) : p \in Procs} \cup {BootStack(h) : h \in Harts}

VARIABLES
  hart,      \* registers of a hart and its struct cpu
  stack,     \* what the kernel thread on a stack has saved there
  proc,      \* struct proc, its trapframe, context and alarm
  ticks,     \* ticks
  tickslock, \* the hart that holds tickslock
  seen       \* observer: what the program of a process may expect

vars == <<hart, stack, proc, ticks, tickslock, seen>>

ZeroRegs == [pc |-> 0, a0 |-> 0, a7 |-> "none", x |-> 0]
FirstRegs(p) == [ZeroRegs EXCEPT !.x = p]
NoFrame == [code |-> "none", sp |-> <<"none", 0>>, spp |-> "S", spie |-> FALSE]

NewStack == [caller |-> "none", intena |-> FALSE, frame |-> NoFrame, ticks0 |-> 0, n |-> 0]

NewAlarm == [interval |-> 0, ticks |-> 0, state |-> 0, cp |-> ZeroRegs]

NewProc(p, calls) ==
  [state |-> "RUNNABLE", killed |-> FALSE, lock |-> NoHart,
   ctx |-> [ra |-> "forkret", sp |-> KStack(p)],
   tf |-> FirstRegs(p), ksatp |-> KernelTable, ksp |-> KStack(p), khart |-> NoHart,
   alarm |-> NewAlarm, calls |-> calls]

NewSeen(p) == [why |-> "fork", cont |-> FirstRegs(p), orig |-> ZeroRegs, slept |-> 0]

BootHart(h) ==
  [mode |-> "S", code |-> "scheduler", sp |-> BootStack(h), tp |-> h,
   sie |-> FALSE, spie |-> TRUE, spp |-> "U", sepc |-> 0, spc |-> "none", cause |-> "none",
   stvec |-> "kernelvec", satp |-> KernelTable,
   proc |-> NoProc, noff |-> 0, intena |-> FALSE, u |-> ZeroRegs,
   ctx |-> [ra |-> "scheduler", sp |-> BootStack(h)]]

Init ==
  /\ hart = [h \in Harts |-> BootHart(h)]
  /\ stack = [s \in Stacks |-> NewStack]
  /\ \E f \in Programs : proc = [p \in Procs |-> NewProc(p, f[p])]
  /\ ticks = 0
  /\ tickslock = NoHart
  /\ seen = [p \in Procs |-> NewSeen(p)]

Me(h) == hart[h].proc
At(h, l) == hart[h].mode = "S" /\ hart[h].code = l
Goto(h, l) == hart' = [hart EXCEPT ![h].code = l]

-----------------------------------------------------------------------------
(* spinlock.c: the part of acquire() and release() that concerns the hart. *)

PushOff(r) ==
  [r EXCEPT !.intena = IF r.noff = 0 THEN r.sie ELSE @, !.noff = @ + 1, !.sie = FALSE]

PopOff(r) ==
  [r EXCEPT !.noff = @ - 1, !.sie = @ \/ (r.noff = 1 /\ r.intena),
            !.intena = r.noff > 1 /\ @]

\* acquire() of a lock that is free, and release().
Acquire(r) == PushOff(r)
Release(r) == PopOff(r)

-----------------------------------------------------------------------------
(* Into the kernel: the hardware's part of a trap, uservec and kernelvec.   *)
(* Interrupts are off in all of it, so that a trap and the code its vector  *)
(* runs are one step.                                                       *)

\* The hart saves where it was, masks interrupts and goes on in supervisor
\* mode where stvec points.
Taken(r, cause) ==
  [r EXCEPT !.mode = "S", !.code = r.stvec, !.cause = cause, !.spp = r.mode,
            !.spie = r.sie, !.sie = FALSE, !.sepc = IF r.mode = "U" THEN r.u.pc ELSE 0,
            !.spc = IF r.mode = "U" THEN "user" ELSE r.code]

\* uservec: save the user registers in the trapframe the user page table maps,
\* and load stack, hart number and page table of the kernel from it.
Uservec(h, r) ==
  LET p == r.satp[2] IN
  /\ proc' = [proc EXCEPT ![p].tf = [r.u EXCEPT !.pc = proc[p].tf.pc], ![p].khart = NoHart]
  /\ hart' = [hart EXCEPT ![h] =
       [r EXCEPT !.sp = proc[p].ksp, !.tp = proc[p].khart, !.satp = proc[p].ksatp,
                 !.code = "usertrap", !.u = ZeroRegs]]
  /\ UNCHANGED stack

\* kernelvec pushes the registers, kerneltrap() keeps sepc and sstatus.
Kernelvec(h, r) ==
  /\ stack' = [stack EXCEPT ![r.sp].frame = [code |-> r.spc, sp |-> r.sp,
                                             spp |-> r.spp, spie |-> r.spie],
                            ![r.sp].caller = "kerneltrap"]
  /\ hart' = [hart EXCEPT ![h] = [r EXCEPT !.code = "devintr", !.spc = "none", !.spp = "U",
                                           !.spie = TRUE]]
  /\ UNCHANGED proc

Vector(h, r) == IF r.code = "uservec" THEN Uservec(h, r) ELSE Kernelvec(h, r)

\* What the observer notes when a program with registers u enters the kernel.
Enter(p, why, u) ==
  seen' = [seen EXCEPT ![p].why = why, ![p].cont = u,
                       ![p].orig = IF proc[p].alarm.state = 1 THEN @ ELSE ZeroRegs]

\* A device interrupt, or a timer interrupt: timervec has raised a software
\* interrupt in machine mode, at any time, and it is taken when the hart lets it.
Interrupt(h) ==
  /\ hart[h].mode = "U" \/ hart[h].sie
  /\ \E c \in {"timer", "ext"} : Vector(h, Taken(hart[h], c))
  /\ IF hart[h].mode = "U" THEN Enter(Me(h), "intr", hart[h].u) ELSE UNCHANGED seen
  /\ UNCHANGED <<ticks, tickslock>>

\* The program loads a0 and a7 and executes ecall.
Ecall(h) ==
  /\ hart[h].mode = "U" /\ hart[h].u.pc \in {0, HandlerPc}
  /\ \E c \in proc[Me(h)].calls \ {Fault} :
       LET u == [hart[h].u EXCEPT !.a7 = c[1], !.a0 = c[2]] IN
       /\ Vector(h, Taken([hart[h] EXCEPT !.u = u], "ecall"))
       /\ Enter(Me(h), "call", u)
  /\ UNCHANGED <<ticks, tickslock>>

\* The program causes an exception that usertrap() does not know.
UserFault(h) ==
  /\ hart[h].mode = "U" /\ Fault \in proc[Me(h)].calls
  /\ Vector(h, Taken(hart[h], "fault"))
  /\ UNCHANGED <<ticks, tickslock, seen>>

\* The program jumps back to its ecall; the handler uses registers of its own.
UserJump(h) ==
  /\ hart[h].mode = "U" /\ hart[h].u.pc \in {1, HandlerPc + 1}
  /\ hart' = [hart EXCEPT ![h].u = [pc |-> @.pc - 1, a0 |-> 1, a7 |-> "none",
                                    x |-> IF @.pc = 1 THEN @.x ELSE Me(h) + NP]]
  /\ seen' = [seen EXCEPT ![Me(h)].why = "ran", ![Me(h)].cont = ZeroRegs]
  /\ UNCHANGED <<stack, proc, ticks, tickslock>>

-----------------------------------------------------------------------------
(* usertrap(), usertrapret() and userret *)

\* Mutant: usertrap() forgets to step over the ecall instruction.
CallEpcSame(pc) == pc

\* p->trapframe->epc += 4.
CallEpc(pc) == pc + 1

\* w_stvec((uint64)kernelvec).
KernelStvec(r) == [r EXCEPT !.stvec = "kernelvec"]

\* usertrap(): traps go to kernelvec from here on; the user pc is saved, and
\* the cause decides.
Usertrap(h) ==
  LET p == Me(h)
      r == [KernelStvec(hart[h]) EXCEPT !.sepc = 0, !.spc = "none"] IN
  /\ At(h, "usertrap")
  /\ \/ /\ r.cause = "ecall" /\ ~ proc[p].killed
        /\ hart' = [hart EXCEPT ![h] = [r EXCEPT !.code = "syscall", !.sie = TRUE,
                                                 !.cause = "none"]]
        /\ proc' = [proc EXCEPT ![p].tf.pc = CallEpc(hart[h].sepc)]
        /\ UNCHANGED stack
     \/ /\ r.cause = "ecall" /\ proc[p].killed
        /\ hart' = [hart EXCEPT ![h] = [r EXCEPT !.code = "exit", !.cause = "none"]]
        /\ proc' = [proc EXCEPT ![p].tf.pc = hart[h].sepc]
        /\ UNCHANGED stack
     \/ /\ r.cause \in {"timer", "ext"}
        /\ hart' = [hart EXCEPT ![h] = [r EXCEPT !.code = "devintr"]]
        /\ stack' = [stack EXCEPT ![r.sp].caller = "usertrap"]
        /\ proc' = [proc EXCEPT ![p].tf.pc = hart[h].sepc]
     \/ /\ r.cause = "fault"
        /\ hart' = [hart EXCEPT ![h] = [r EXCEPT !.code = "exit", !.cause = "none"]]
        /\ proc' = [proc EXCEPT ![p].tf.pc = hart[h].sepc, ![p].killed = TRUE]
        /\ UNCHANGED stack
  /\ UNCHANGED <<ticks, tickslock, seen>>

\* alarm_handler(): the alarm is set and its handler is not running.
AlarmCounts(a) == a.interval # 0 /\ a.state = 0

\* alarm_handler(), for process p: the last tick of an interval starts the handler.
AlarmHandler(p) ==
  LET a == proc[p].alarm IN
  IF AlarmCounts(a) /\ a.ticks + 1 = a.interval
  THEN /\ proc' = [proc EXCEPT ![p].alarm = [a EXCEPT !.ticks = 0, !.state = 1,
                                                      !.cp = proc[p].tf],
                               ![p].tf.pc = HandlerPc]
       /\ seen' = [seen EXCEPT ![p].why = "alarm", ![p].orig = seen[p].cont]
  ELSE /\ proc' = [proc EXCEPT ![p].alarm.ticks = IF AlarmCounts(a) THEN @ + 1 ELSE @]
       /\ UNCHANGED seen

\* The end of usertrap(): a killed process exits, a timer interrupt runs the
\* alarm and yields, everything else returns to user space.
UsertrapTail(h) ==
  /\ \/ /\ At(h, "tail") \/ At(h, "tail_timer")
        /\ proc[Me(h)].killed
        /\ Goto(h, "exit")
        /\ UNCHANGED <<proc, seen>>
     \/ /\ At(h, "tail") /\ ~ proc[Me(h)].killed
        /\ Goto(h, "usertrapret")
        /\ UNCHANGED <<proc, seen>>
     \/ /\ At(h, "tail_timer") /\ ~ proc[Me(h)].killed
        /\ AlarmHandler(Me(h))
        /\ Goto(h, "yield")
  /\ UNCHANGED <<stack, ticks, tickslock>>

\* usertrapret(): intr_off().
UsertrapretOff(h) ==
  /\ At(h, "usertrapret")
  /\ hart' = [hart EXCEPT ![h].sie = FALSE, ![h].code = "utr_csr"]
  /\ UNCHANGED <<stack, proc, ticks, tickslock, seen>>

\* userret: the registers of the trapframe, and its epc by way of sepc.
UserretRegs(p) == proc[p].tf

\* usertrapret() after intr_off(): stvec, the trapframe's kernel_ fields,
\* sstatus and sepc; userret: the user page table, the registers, sret.
Userret(h) ==
  LET r == hart[h]
      p == Me(h) IN
  /\ At(h, "utr_csr")
  /\ proc' = [proc EXCEPT ![p].ksatp = r.satp, ![p].ksp = KStack(p), ![p].khart = r.tp,
                          ![p].tf = ZeroRegs]
  /\ hart' = [hart EXCEPT ![h] =
       [r EXCEPT !.stvec = "uservec", !.satp = UserTable(p), !.u = UserretRegs(p),
                 !.mode = "U", !.sie = TRUE, !.code = "user"]]
  /\ stack' = [stack EXCEPT ![r.sp].caller = "none"]
  /\ UNCHANGED <<ticks, tickslock, seen>>

-----------------------------------------------------------------------------
(* kerneltrap(), devintr() and clockintr() *)

\* w_sepc(sepc); w_sstatus(sstatus).
KerneltrapStatus(r, f) == [r EXCEPT !.spc = f.code, !.spp = f.spp, !.spie = f.spie]

\* The registers kernelvec pops: tp, which it has pushed, is not one of them.
KernelvecRegs(r, f) == [r EXCEPT !.sp = f.sp]

\* The end of kerneltrap() and kernelvec: trap registers and registers are
\* restored, all but tp, and sret resumes the kernel where it was.
KerneltrapTail(h) ==
  LET f == stack[hart[h].sp].frame
      r == KernelvecRegs(KerneltrapStatus(hart[h], f), f) IN
  /\ At(h, "kt_tail")
  /\ hart' = [hart EXCEPT ![h] = [r EXCEPT !.mode = r.spp, !.code = r.spc, !.sie = r.spie,
                                           !.spp = "U", !.spie = TRUE, !.spc = "none"]]
  /\ stack' = [stack EXCEPT ![hart[h].sp].frame = NoFrame, ![hart[h].sp].caller = "none"]
  /\ UNCHANGED <<proc, ticks, tickslock, seen>>

\* devintr() returns d to usertrap() or to kerneltrap().
DevReturn(h, r, d) ==
  LET k == stack[r.sp].caller = "kerneltrap"
      yields == d = 2 /\ r.proc # NoProc /\ proc[r.proc].state = "RUNNING" IN
  hart' = [hart EXCEPT ![h] =
    [r EXCEPT !.cause = "none",
              !.code = CASE k /\ yields -> "yield" [] k /\ ~ yields -> "kt_tail"
                         [] ~ k /\ d = 2 -> "tail_timer" [] OTHER -> "tail"]]

\* devintr(): an external interrupt is served by its driver; a timer interrupt
\* is the clock's on hart 0 (ClockTick), and acknowledged on every hart.
Devintr(h) ==
  /\ At(h, "devintr")
  /\ \/ hart[h].cause = "ext" /\ DevReturn(h, hart[h], 1)
     \/ hart[h].cause = "timer" /\ hart[h].tp # 0 /\ DevReturn(h, hart[h], 2)
  /\ UNCHANGED <<stack, proc, ticks, tickslock, seen>>

\* clockintr(): acquire(&tickslock), ticks++.
ClockTick(h) ==
  /\ At(h, "devintr") /\ hart[h].cause = "timer" /\ hart[h].tp = 0
  /\ tickslock = NoHart
  /\ tickslock' = h
  /\ ticks' = (ticks + 1) % TickMod
  /\ seen' = [p \in Procs |->
       [seen[p] EXCEPT !.slept = IF stack[KStack(p)].n # 0 /\ @ < TickMod THEN @ + 1 ELSE @]]
  /\ hart' = [hart EXCEPT ![h] = [Acquire(@) EXCEPT !.code = "clock_wake"]]
  /\ UNCHANGED <<stack, proc>>

\* wakeup(&ticks): every other process that sleeps on it can run.
Wakeup(h) ==
  [p \in Procs |-> IF p # Me(h) /\ proc[p].state = "SLEEPING"
                   THEN [proc[p] EXCEPT !.state = "RUNNABLE"] ELSE proc[p]]

\* clockintr(): wakeup(&ticks), which takes every other p->lock, release().
ClockWake(h) ==
  /\ At(h, "clock_wake")
  /\ \A p \in Procs \ {Me(h)} : proc[p].lock = NoHart
  /\ proc' = Wakeup(h)
  /\ tickslock' = NoHart
  /\ DevReturn(h, Release(hart[h]), 2)
  /\ UNCHANGED <<stack, ticks, seen>>

-----------------------------------------------------------------------------
(* syscall() and the calls that concern this module *)

\* p->trapframe->a0 = the value the call returns.
Finish(h, v) ==
  /\ proc' = [proc EXCEPT ![Me(h)].tf.a0 = v]
  /\ Goto(h, "tail")

SysSigalarm(h) ==
  LET p == Me(h) IN
  /\ proc' = [proc EXCEPT ![p].tf.a0 = 0,
                          ![p].alarm = IF proc[p].tf.a0 = 0 THEN @
                                       ELSE [@ EXCEPT !.interval = proc[p].tf.a0, !.ticks = 0]]
  /\ Goto(h, "tail")
  /\ UNCHANGED <<stack, seen>>

\* The whole trapframe comes back from its copy; syscall() then stores the
\* return value 0 over the a0 that was restored.
SysSigreturn(h) ==
  LET p == Me(h) IN
  /\ proc' = [proc EXCEPT ![p].tf = [proc[p].alarm.cp EXCEPT !.a0 = 0],
                          ![p].alarm.cp = ZeroRegs, ![p].alarm.state = 0]
  /\ seen' = [seen EXCEPT ![p].why = IF proc[p].alarm.state = 1 THEN "sigreturn" ELSE "bare"]
  /\ Goto(h, "tail")
  /\ UNCHANGED stack

\* syscall(), up to the call itself; "work" stands for the calls that do not
\* concern this module, "bad" for a number without a call.
Syscall(h) ==
  LET p == Me(h) IN
  /\ At(h, "syscall")
  /\ \/ proc[p].tf.a7 = "sigalarm" /\ SysSigalarm(h)
     \/ proc[p].tf.a7 = "sigreturn" /\ SysSigreturn(h)
     \/ proc[p].tf.a7 = "work" /\ Goto(h, "work") /\ UNCHANGED <<stack, proc, seen>>
     \/ proc[p].tf.a7 = "exit" /\ Goto(h, "exit") /\ UNCHANGED <<stack, proc, seen>>
     \/ proc[p].tf.a7 = "bad" /\ Finish(h, Err) /\ UNCHANGED <<stack, seen>>
     \/ /\ proc[p].tf.a7 = "sleep"
        /\ stack' = [stack EXCEPT ![hart[h].sp].n = proc[p].tf.a0]
        /\ Goto(h, "sleep")
        /\ UNCHANGED <<proc, seen>>
  /\ UNCHANGED <<ticks, tickslock>>

\* The end of another system call.
WorkDone(h) ==
  /\ At(h, "work")
  /\ Finish(h, 0)
  /\ UNCHANGED <<stack, ticks, tickslock, seen>>

\* kill(), called by the process of hart h.
Kill(h, q) ==
  /\ At(h, "work") /\ q # Me(h)
  /\ proc[q].lock = NoHart /\ proc[q].state # "ZOMBIE" /\ ~ proc[q].killed
  /\ proc' = [proc EXCEPT ![q].killed = TRUE,
                          ![q].state = IF @ = "SLEEPING" THEN "RUNNABLE" ELSE @]
  /\ UNCHANGED <<hart, stack, ticks, tickslock, seen>>

\* sys_sleep(): acquire(&tickslock), at its start and at the end of sleep().
SleepAcquire(h) ==
  LET s == hart[h].sp IN
  /\ tickslock = NoHart
  /\ \/ /\ At(h, "sleep")
        /\ stack' = [stack EXCEPT ![s].ticks0 = ticks]
        /\ seen' = [seen EXCEPT ![Me(h)].slept = 0]
     \/ At(h, "sleep_again") /\ UNCHANGED <<stack, seen>>
  /\ tickslock' = h
  /\ hart' = [hart EXCEPT ![h] = [Acquire(@) EXCEPT !.code = "sleep_check"]]
  /\ UNCHANGED <<proc, ticks>>

\* ticks - ticks0 < n, unsigned.
SleepMore(s) == (ticks - s.ticks0) % TickMod < s.n

\* sys_sleep(): the test of its loop.
SleepCheck(h) ==
  LET s == stack[hart[h].sp] IN
  /\ At(h, "sleep_check")
  /\ IF SleepMore(s) /\ ~ proc[Me(h)].killed
     THEN Goto(h, "sleep_in") /\ UNCHANGED tickslock
     ELSE /\ tickslock' = NoHart
          /\ hart' = [hart EXCEPT ![h] = [Release(@) EXCEPT !.code =
                        IF SleepMore(s) THEN "sleep_killed" ELSE "sleep_over"]]
  /\ UNCHANGED <<stack, proc, ticks, seen>>

\* The end of sys_sleep().
SleepReturn(h) ==
  /\ \/ At(h, "sleep_over") /\ Finish(h, 0)
     \/ At(h, "sleep_killed") /\ Finish(h, Err)
  /\ stack' = [stack EXCEPT ![hart[h].sp].n = 0, ![hart[h].sp].ticks0 = 0]
  /\ seen' = [seen EXCEPT ![Me(h)].slept = 0]
  /\ UNCHANGED <<ticks, tickslock>>

\* Mutant: sleep() releases tickslock before it takes p->lock.
SleepInEarly(h) ==
  /\ At(h, "sleep_in")
  /\ \/ /\ tickslock = h /\ tickslock' = NoHart
        /\ hart' = [hart EXCEPT ![h] = Release(@)]
        /\ UNCHANGED <<proc, stack>>
     \/ /\ tickslock # h /\ proc[Me(h)].lock = NoHart
        /\ proc' = [proc EXCEPT ![Me(h)].lock = h, ![Me(h)].state = "SLEEPING"]
        /\ stack' = [stack EXCEPT ![hart[h].sp].caller = "sleep"]
        /\ hart' = [hart EXCEPT ![h] = [Acquire(@) EXCEPT !.code = "sched"]]
        /\ UNCHANGED tickslock
  /\ UNCHANGED <<ticks, seen>>

\* sleep(&ticks, &tickslock): p->lock is taken before tickslock is released.
SleepIn(h) ==
  /\ At(h, "sleep_in") /\ proc[Me(h)].lock = NoHart
  /\ proc' = [proc EXCEPT ![Me(h)].lock = h, ![Me(h)].state = "SLEEPING"]
  /\ tickslock' = NoHart
  /\ stack' = [stack EXCEPT ![hart[h].sp].caller = "sleep"]
  /\ hart' = [hart EXCEPT ![h] = [Release(Acquire(@)) EXCEPT !.code = "sched"]]
  /\ UNCHANGED <<ticks, seen>>

-----------------------------------------------------------------------------
(* Leaving a hart and coming back to one: yield(), exit(), sched(), swtch() *)

\* yield(): from usertrap() or from kerneltrap().
Yield(h) ==
  /\ At(h, "yield") /\ proc[Me(h)].lock = NoHart
  /\ proc' = [proc EXCEPT ![Me(h)].lock = h, ![Me(h)].state = "RUNNABLE"]
  /\ hart' = [hart EXCEPT ![h] = [Acquire(@) EXCEPT !.code = "sched"]]
  /\ UNCHANGED <<stack, ticks, tickslock, seen>>

\* exit(): the rest of it is in module Proc.
Exit(h) ==
  /\ At(h, "exit") /\ proc[Me(h)].lock = NoHart
  /\ proc' = [proc EXCEPT ![Me(h)].lock = h, ![Me(h)].state = "ZOMBIE"]
  /\ hart' = [hart EXCEPT ![h] = [Acquire(@) EXCEPT !.code = "sched"]]
  /\ UNCHANGED <<stack, ticks, tickslock, seen>>

\* swtch(): load place and stack from a context.
Swtch(r, ctx) == [r EXCEPT !.code = ctx.ra, !.sp = ctx.sp]

\* Mutant: the scheduler goes on in the page table of the process that left.
SchedulerTableOld(r) == r.satp

\* kvminithart().
SchedulerTable(r) == KernelTable

\* sched(): intena is kept on the stack and swtch() goes to the scheduler, in
\* which kvminithart(), c->proc = 0 and release(&p->lock) follow.
Sched(h) ==
  LET r == hart[h] IN
  /\ At(h, "sched")
  /\ stack' = [stack EXCEPT ![r.sp].intena = r.intena]
  /\ proc' = [proc EXCEPT ![Me(h)].ctx = [ra |-> "resumed", sp |-> r.sp],
                          ![Me(h)].lock = NoHart]
  /\ hart' = [hart EXCEPT ![h] = [Release(Swtch(r, r.ctx)) EXCEPT !.satp = SchedulerTable(r),
                                                                 !.proc = NoProc]]
  /\ UNCHANGED <<ticks, tickslock, seen>>

\* scheduler(): intr_on() at the top of its loop.
SchedulerLoop(h) ==
  /\ At(h, "scheduler") /\ ~ hart[h].sie
  /\ hart' = [hart EXCEPT ![h].sie = TRUE]
  /\ UNCHANGED <<stack, proc, ticks, tickslock, seen>>

\* scheduler(): a process is RUNNABLE; its page table, and swtch() to it.
SchedulerPick(h, p) ==
  /\ At(h, "scheduler") /\ proc[p].state = "RUNNABLE" /\ proc[p].lock = NoHart
  /\ proc' = [proc EXCEPT ![p].lock = h, ![p].state = "RUNNING"]
  /\ hart' = [hart EXCEPT ![h] =
       Swtch([Acquire(@) EXCEPT !.proc = p, !.satp = KernTable(p),
                                !.ctx = [ra |-> "scheduler", sp |-> hart[h].sp]],
             proc[p].ctx)]
  /\ UNCHANGED <<stack, ticks, tickslock, seen>>

\* Mutant: sched() leaves intena as the scheduler set it.
IntenaBackNot(r, s) == r

\* mycpu()->intena = intena.
IntenaBack(r, s) == [r EXCEPT !.intena = s.intena]

\* sched() after its swtch(), and release(&p->lock) in yield() or sleep().
Resumed(h) ==
  LET s == stack[hart[h].sp] IN
  /\ At(h, "resumed")
  /\ proc' = [proc EXCEPT ![Me(h)].lock = NoHart]
  /\ hart' = [hart EXCEPT ![h] =
       [Release(IntenaBack(@, s)) EXCEPT !.code =
          CASE s.caller = "usertrap" -> "usertrapret"
            [] s.caller = "kerneltrap" -> "kt_tail"
            [] OTHER -> "sleep_again"]]
  /\ stack' = [stack EXCEPT ![hart[h].sp].intena = FALSE, ![hart[h].sp].caller = "none"]
  /\ UNCHANGED <<ticks, tickslock, seen>>

\* forkret(): the first time a process runs.
Forkret(h) ==
  /\ At(h, "forkret")
  /\ proc' = [proc EXCEPT ![Me(h)].lock = NoHart]
  /\ hart' = [hart EXCEPT ![h] = [Release(@) EXCEPT !.code = "usertrapret"]]
  /\ UNCHANGED <<stack, ticks, tickslock, seen>>

\* wait() and fork() elsewhere: the slot of a zombie is freed and taken again.
\* allocproc() resets the alarm, all but the copy of the trapframe.
Spawn(p) ==
  /\ proc[p].state = "ZOMBIE" /\ proc[p].lock = NoHart
  /\ proc' = [proc EXCEPT ![p] = [NewProc(p, proc[p].calls) EXCEPT !.alarm.cp = proc[p].alarm.cp]]
  /\ stack' = [stack EXCEPT ![KStack(p)] = NewStack]
  /\ seen' = [seen EXCEPT ![p] = NewSeen(p)]
  /\ UNCHANGED <<hart, ticks, tickslock>>

-----------------------------------------------------------------------------
Hardware(h) == Interrupt(h) \/ Ecall(h) \/ UserJump(h) \/ UserFault(h)

Kernel(h) ==
  \/ Usertrap(h) \/ UsertrapTail(h) \/ UsertrapretOff(h) \/ Userret(h)
  \/ KerneltrapTail(h)
  \/ Devintr(h) \/ ClockTick(h) \/ ClockWake(h)
  \/ Syscall(h) \/ WorkDone(h) \/ SleepAcquire(h) \/ SleepCheck(h) \/ SleepReturn(h)
  \/ SleepIn(h) \/ Yield(h) \/ Exit(h) \/ Sched(h)
  \/ SchedulerLoop(h) \/ Resumed(h) \/ Forkret(h)
  \/ \E p \in Procs : SchedulerPick(h, p) \/ Kill(h, p)

Next == (\E h \in Harts : Hardware(h) \/ Kernel(h)) \/ (\E p \in Procs : Spawn(p))

Spec == Init /\ [][Next]_vars

-----------------------------------------------------------------------------
\* Code of a process that a system call runs with interrupts enabled.
CallCode == {"syscall", "work", "sleep", "sleep_again", "sleep_over", "sleep_killed"}
\* Code that runs between a trap and the sret that ends it.
TrapCode == {"devintr", "clock_wake", "yield", "kt_tail"}

\* The locks hart h holds.
Locks(h) == {p \in Procs : proc[p].lock = h} \cup {q \in {NoProc} : tickslock = h}

\* The panics of the trap path and of the locks never fire: usertrap() comes
\* from user mode, kerneltrap() from supervisor mode, no hart acquires a lock
\* it holds or releases one with interrupts enabled, and sched() is entered
\* with p->lock alone.
TrapNoPanic == \A h \in Harts : LET r == hart[h] IN
  /\ At(h, "usertrap") => r.spp = "U"
  /\ At(h, "devintr") /\ stack[r.sp].caller = "kerneltrap" => stack[r.sp].frame.spp = "S"
  /\ At(h, "devintr") => tickslock # h
  /\ At(h, "yield") => proc[r.proc].lock # h
  /\ At(h, "sched") => /\ Locks(h) = {r.proc} /\ r.noff = 1 /\ ~ r.sie
                       /\ proc[r.proc].state # "RUNNING"
  /\ r.mode = "S" /\ r.code \in {"resumed", "forkret", "clock_wake", "sleep_check"}
       => ~ r.sie /\ r.noff = 1

\* A hart that runs kernel code is where it believes to be: cpuid() is its own
\* number, also after a process has moved to it, it uses the page table and
\* the stack of its process or of its scheduler, and interrupts are enabled
\* only when it holds no lock.  So no panic of the trap path fires.
HartInv == TrapNoPanic /\ \A h \in Harts : LET r == hart[h] IN
  /\ r.mode = "S" => r.tp = h
  /\ r.noff = Cardinality(Locks(h))
  /\ r.mode = "S" /\ r.sie => r.noff = 0
  /\ r.mode = "U" => r.stvec = "uservec" /\ r.satp = UserTable(r.proc)
  /\ r.mode = "S" /\ r.proc = NoProc => r.satp = KernelTable /\ r.sp = BootStack(h)
  /\ r.mode = "S" /\ r.proc # NoProc => r.satp = KernTable(r.proc) /\ r.sp = KStack(r.proc)

\* Kernel code that a timer interrupt takes the hart from goes on as if nothing
\* had happened, on whatever hart it is resumed: a system call runs with
\* interrupts enabled, the inside of a trap with interrupts disabled, and the
\* frame it returns through leads back into the kernel with interrupts enabled.
KernelResumes == \A h \in Harts : LET r == hart[h] IN
  /\ r.mode = "S" /\ r.code \in CallCode => r.sie
  /\ r.mode = "S" /\ r.code \in TrapCode => ~ r.sie
  /\ At(h, "kt_tail") => stack[r.sp].frame.spp = "S" /\ stack[r.sp].frame.spie
                           /\ stack[r.sp].frame.code \notin TrapCode \cup {"none"}
  /\ r.mode = "U" => r.code = "user"

\* A user program finds its registers as it left them, whatever ran in between
\* and on whatever hart: after an interrupt all of them; after a system call
\* all but a0, behind the ecall; in the alarm handler all but pc, and the
\* handler is never entered while it runs; after sigreturn() those of the
\* interrupted program, all but a0 (of which AlarmTransparent speaks).
UserResumes == \A h \in Harts : hart[h].mode = "U" =>
  LET u == hart[h].u
      w == seen[Me(h)] IN
  CASE w.why \in {"intr", "fork"} -> u = w.cont
    [] w.why = "call" -> u = [w.cont EXCEPT !.pc = w.cont.pc + 1, !.a0 = u.a0]
    [] w.why = "alarm" -> u = [w.cont EXCEPT !.pc = HandlerPc] /\ w.cont.pc < HandlerPc
    [] w.why = "sigreturn" -> u = [w.orig EXCEPT !.a0 = u.a0]
    [] OTHER -> TRUE

\* What user/traptest.c expects of sigreturn(): the interrupted program goes on
\* with all registers as the interrupt found them, a0 too.  It does not hold:
\* syscall() stores the value sys_sigreturn() returns over the a0 it restored.
AlarmTransparent == \A h \in Harts :
  hart[h].mode = "U" /\ seen[Me(h)].why = "sigreturn" => hart[h].u = seen[Me(h)].orig

\* A sleeper that was woken in time but got no hart until ticks had gone all the
\* way round: ticks - ticks0 is small again, and it sleeps once more.
MissedWindow(p) == seen[p].slept = TickMod /\ SleepMore(stack[KStack(p)])

\* sys_sleep(n) never returns 0 before n ticks have passed.  A sleeper is short of
\* them both by its own count and by the test of the code, or clockintr() is about
\* to wake it, or it has missed its window: the wrap of ticks makes a sleep longer
\* in that case alone.
SleepExact ==
  /\ \A h \in Harts : At(h, "sleep_over") => seen[Me(h)].slept >= stack[hart[h].sp].n
  /\ \A p \in Procs : proc[p].state = "SLEEPING" =>
       \/ seen[p].slept < stack[KStack(p)].n /\ SleepMore(stack[KStack(p)])
       \/ \E h \in Harts : At(h, "clock_wake")
       \/ MissedWindow(p)
=============================================================================
