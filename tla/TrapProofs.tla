----------------------------- MODULE TrapProofs -----------------------------
(***************************************************************************)
(* Traps, interrupts and context switches (module Trap) for any number of  *)
(* harts and processes and any programs.                                   *)
(***************************************************************************)
EXTENDS Trap, FiniteSetTheorems, TLAPS

(***************************************************************************)
(* The inductive invariant, first part: what a hart is set to at each      *)
(* place in the kernel, and what a process that is on no hart has saved.   *)
(* HartInv and KernelResumes do not say what the trapframe, the contexts   *)
(* and the kernel stacks hold that sp, tp, satp and the interrupt enable   *)
(* come from when a process returns to a place it left, on another hart.   *)
(***************************************************************************)
HartFields == DOMAIN BootHart(0)
StackFields == DOMAIN NewStack
ProcFields == DOMAIN NewProc(1, {})

\* Where a process may be interrupted, the places after fork() included.
Open == CallCode \cup {"tail", "exit", "usertrapret"}
\* Where a hart holds p->lock of its process, and where it holds tickslock.
Switching == {"sched", "resumed", "forkret"}
Ticking == {"clock_wake", "sleep_check", "sleep_in"}

\* The stack and the page table of a hart in the kernel.
StackOf(h, p) == IF p = NoProc THEN BootStack(h) ELSE KStack(p)
TableOf(p) == IF p = NoProc THEN KernelTable ELSE KernTable(p)

\* kernelvec's frame f leads back to code in C on stack sp, interrupts enabled.
Framed(f, sp, C) == f.code \in C /\ f.sp = sp /\ f.spp = "S" /\ f.spie = TRUE

\* What a process that has left its hart in sched() finds on its stack.
Saved(p, s) ==
  /\ s.caller \in {"usertrap", "kerneltrap", "sleep"}
  /\ s.intena \in BOOLEAN /\ (s.intena <=> s.caller = "sleep")
  /\ s.caller = "kerneltrap" => Framed(s.frame, KStack(p), Open)

\* A hart with registers r that runs process q in user space.
FitsUser(h, r, q) ==
  /\ r.code = "user" /\ r.stvec = "uservec" /\ r.satp = UserTable(r.proc)
  /\ r.noff = 0 /\ r.proc \in Procs
  /\ q.state = "RUNNING" /\ q.lock = NoHart
  /\ q.khart = h /\ q.ksp = KStack(r.proc) /\ q.ksatp = KernTable(r.proc)

\* The state of the interrupts and the locks of a hart in the kernel.
FitsLocks(h, r) ==
  /\ r.noff = IF r.code \in Switching \cup Ticking THEN 1 ELSE 0
  /\ r.sie => r.code \in Open \cup {"scheduler"}
  /\ r.code \in CallCode => r.sie
  /\ r.code \in {"sleep_check", "sleep_in"} => r.intena
  /\ r.code = "clock_wake" => ~ r.intena

\* The kernel stack s of a hart that is inside a trap or on its way out of the
\* process.
FitsStack(h, r, s, q) ==
  /\ r.code \in {"devintr", "clock_wake", "yield"} => s.caller \in {"usertrap", "kerneltrap"}
  /\ r.code = "tail_timer" => s.caller = "usertrap"
  /\ \/ r.code = "kt_tail"
     \/ r.code \in {"devintr", "clock_wake", "yield"} /\ s.caller = "kerneltrap"
     => Framed(s.frame, r.sp, IF r.proc = NoProc THEN {"scheduler"} ELSE Open)
  /\ r.proc = NoProc /\ r.code \in {"devintr", "clock_wake"} => s.caller = "kerneltrap"
  /\ r.code = "sched" /\ q.state # "ZOMBIE" => Saved(r.proc, [s EXCEPT !.intena = r.intena])
  /\ r.code = "resumed" => Saved(r.proc, s)

\* A hart in the kernel.
FitsKernel(h, r, s, q) ==
  /\ r.tp = h /\ r.satp = TableOf(r.proc)
  /\ r.stvec = IF r.code = "usertrap" THEN "uservec" ELSE "kernelvec"
  /\ r.code = "usertrap" => r.spp = "U"
  /\ IF r.proc = NoProc THEN r.code \in {"scheduler", "devintr", "clock_wake", "kt_tail"}
     ELSE /\ r.code \notin {"scheduler", "user"}
          /\ q.state = "RUNNING" <=> r.code # "sched"
          /\ q.lock = IF r.code \in Switching THEN h ELSE NoHart
  /\ FitsLocks(h, r) /\ FitsStack(h, r, s, q)

Fits(h, r, s, q) ==
  /\ DOMAIN r = HartFields /\ r.proc \in Procs \cup {NoProc}
  /\ r.sie \in BOOLEAN /\ r.intena \in BOOLEAN
  /\ r.sp = StackOf(h, r.proc) /\ r.ctx = [ra |-> "scheduler", sp |-> BootStack(h)]
  /\ r.mode \in {"U", "S"}
  /\ r.mode = "U" => FitsUser(h, r, q)
  /\ r.mode = "S" => FitsKernel(h, r, s, q)

\* A process that is on no hart.
Parked(p, s, q) ==
  /\ q.lock = NoHart /\ q.state # "RUNNING"
  /\ q.state # "ZOMBIE" /\ q.ctx.ra = "resumed" => Saved(p, s)

\* Records have their fields, and the context of a process is of its stack.
Shapes ==
  /\ hart = [h \in Harts |-> hart[h]]
  /\ stack = [s \in Stacks |-> stack[s]] /\ \A s \in Stacks : DOMAIN stack[s] = StackFields
  /\ proc = [p \in Procs |-> proc[p]]
  /\ \A p \in Procs : /\ DOMAIN proc[p] = ProcFields
                      /\ proc[p].ctx.sp = KStack(p) /\ proc[p].ctx.ra \in {"forkret", "resumed"}

OneHart == \A h, g \in Harts : Me(h) = Me(g) /\ Me(h) # NoProc => h = g

HartsFit == \A h \in Harts : Fits(h, hart[h], stack[hart[h].sp], proc[Me(h)])
ProcsParked == \A p \in Procs :
  (\A h \in Harts : Me(h) # p) => Parked(p, stack[KStack(p)], proc[p])

\* tickslock is held by the hart that is inside its critical section.
InTicks(r) == r.mode = "S" /\ r.code \in Ticking
TicksLocked ==
  /\ tickslock \in Harts \cup {NoHart}
  /\ \A h \in Harts : tickslock = h <=> InTicks(hart[h])

HartIInv == Shapes /\ OneHart /\ HartsFit /\ ProcsParked /\ TicksLocked
-----------------------------------------------------------------------------
(* A step of one hart *)

\* No two harts and processes share a stack.
LEMMA StacksApart ==
  /\ \A p \in Procs : KStack(p) \in Stacks /\ p # NoProc
  /\ \A h \in Harts : BootStack(h) \in Stacks /\ h # NoHart
  /\ \A p \in Procs : \A h \in Harts : KStack(p) # BootStack(h)
  /\ \A p, q \in Procs : p # q => KStack(p) # KStack(q)
  /\ \A h, g \in Harts : h # g => BootStack(h) # BootStack(g)
<1>1. /\ \A p \in Procs : KStack(p)[1] = "kstack" /\ KStack(p)[2] = p
      /\ \A h \in Harts : BootStack(h)[1] = "stack0" /\ BootStack(h)[2] = h
  BY DEF KStack, BootStack
<1>2. (\A p \in Procs : p # NoProc) /\ (\A h \in Harts : h # NoHart)
  BY TrapAssumption DEF Procs, Harts, NoProc, NoHart
<1>3. (\A p \in Procs : KStack(p) \in Stacks) /\ (\A h \in Harts : BootStack(h) \in Stacks)
  BY DEF Stacks
<1> QED
  BY ONLY <1>1, <1>2, <1>3

\* Nothing of q that another process may depend on differs in q2: kill() and
\* wakeup() make a sleeper RUNNABLE, no more.
SameThread(q, q2) ==
  /\ q2.lock = q.lock /\ q2.ctx = q.ctx
  /\ q2.khart = q.khart /\ q2.ksp = q.ksp /\ q2.ksatp = q.ksatp
  /\ q2.state = "RUNNING" <=> q.state = "RUNNING"
  /\ q2.state = "ZOMBIE" <=> q.state = "ZOMBIE"

\* What a step of hart h does to others: nothing, except through SameThread.
OthersKept(h) ==
  /\ \A s \in Stacks : s # hart[h].sp => stack'[s] = stack[s]
  /\ \A p \in Procs : p # Me(h) => SameThread(proc[p], proc'[p])

\* tickslock is taken and released where r says so.
TicksFollow(h, r) ==
  /\ InTicks(r) => tickslock' = h /\ (tickslock = NoHart \/ InTicks(hart[h]))
  /\ ~ InTicks(r) => tickslock' = IF InTicks(hart[h]) THEN NoHart ELSE tickslock

\* A hart does not notice what others may do to its process.
LEMMA FitsKept ==
  ASSUME NEW h, NEW r, NEW s, NEW q, NEW q2, Fits(h, r, s, q),
         r.proc # NoProc => SameThread(q, q2)
  PROVE  Fits(h, r, s, q2)
<1>1. NoProc \notin Procs
  BY StacksApart
<1> QED
  BY <1>1 DEF Fits, FitsUser, FitsKernel, FitsLocks, FitsStack, SameThread

\* A step after which hart h fits, with the process it had or one that no other
\* hart has, keeps the invariant if the process that leaves has what it needs.
LEMMA HartTurns ==
  ASSUME HartIInv, NEW h \in Harts, NEW r,
         hart' = [hart EXCEPT ![h] = r],
         \A g \in Harts \ {h} : Me(g) # r.proc \/ r.proc = NoProc,
         Shapes', TicksFollow(h, r),
         \A t \in Stacks : t # hart[h].sp => stack'[t] = stack[t],
         \A p \in Procs : p \notin {Me(h), r.proc} => SameThread(proc[p], proc'[p]),
         Me(h) \notin {NoProc, r.proc} => Parked(Me(h), stack'[KStack(Me(h))], proc'[Me(h)]),
         Fits(h, r, stack'[r.sp], proc'[r.proc])
  PROVE  HartIInv'
<1>1. hart'[h] = r /\ \A g \in Harts \ {h} : hart'[g] = hart[g]
  BY DEF HartIInv, Shapes
<1>2. Me(h)' = r.proc /\ \A g \in Harts \ {h} : Me(g)' = Me(g)
  BY <1>1 DEF Me
<1>3. OneHart'
  <2> SUFFICES ASSUME NEW g \in Harts, NEW i \in Harts, Me(g)' = Me(i)', Me(g)' # NoProc
               PROVE  g = i
    BY DEF OneHart
  <2> QED
    BY <1>2 DEF HartIInv, OneHart
<1>4. hart[h].sp = StackOf(h, Me(h)) /\ Me(h) \in Procs \cup {NoProc}
  BY DEF HartIInv, HartsFit, Fits, Me
<1>5. HartsFit'
  <2> SUFFICES ASSUME NEW g \in Harts
               PROVE  Fits(g, hart'[g], stack'[hart'[g].sp], proc'[hart'[g].proc])
    BY DEF HartsFit, Me
  <2>1. CASE g = h
    BY <1>1, <2>1
  <2>2. CASE g # h
    <3>1. Fits(g, hart[g], stack[hart[g].sp], proc[Me(g)])
      BY DEF HartIInv, HartsFit
    <3>2. hart[g].sp = StackOf(g, Me(g)) /\ Me(g) \in Procs \cup {NoProc}
      BY <3>1 DEF Fits, Me
    <3>3. (Me(g) # Me(h) /\ Me(g) # r.proc) \/ Me(g) = NoProc
      BY <2>2 DEF HartIInv, OneHart
    <3>4. hart[g].sp \in Stacks /\ hart[g].sp # hart[h].sp
      BY <1>4, <2>2, <3>2, <3>3, StacksApart DEF StackOf
    <3>5. stack'[hart[g].sp] = stack[hart[g].sp]
      BY <3>4
    <3>6. Me(g) # NoProc => SameThread(proc[Me(g)], proc'[Me(g)])
      BY <3>2, <3>3
    <3>7. Fits(g, hart[g], stack[hart[g].sp], proc'[Me(g)])
      BY <3>1, <3>6, FitsKept DEF Me
    <3> QED
      BY <1>1, <2>2, <3>5, <3>7 DEF Me
  <2> QED
    BY <2>1, <2>2
<1>6. ProcsParked'
  <2> SUFFICES ASSUME NEW p \in Procs, \A g \in Harts : Me(g)' # p
               PROVE  Parked(p, stack'[KStack(p)], proc'[p])
    BY DEF ProcsParked
  <2>1. p # r.proc /\ p # NoProc
    BY <1>2, StacksApart
  <2>2. CASE p = Me(h)
    BY <2>1, <2>2
  <2>3. CASE p # Me(h)
    <3>1. Parked(p, stack[KStack(p)], proc[p])
      BY <1>2, <2>3 DEF HartIInv, ProcsParked
    <3>2. KStack(p) \in Stacks /\ KStack(p) # hart[h].sp
      BY <1>4, <2>3, StacksApart DEF StackOf
    <3>3. stack'[KStack(p)] = stack[KStack(p)] /\ SameThread(proc[p], proc'[p])
      BY <2>1, <2>3, <3>2
    <3> QED
      BY <3>1, <3>3 DEF Parked, SameThread
  <2> QED
    BY <2>2, <2>3
<1>7. TicksLocked'
  BY <1>1, StacksApart DEF HartIInv, TicksLocked, TicksFollow
<1> QED
  BY <1>3, <1>5, <1>6, <1>7 DEF HartIInv

\* The same for a step after which the hart has the process it had.
LEMMA HartMoves ==
  ASSUME HartIInv, NEW h \in Harts, NEW r,
         hart' = [hart EXCEPT ![h] = r], r.proc = Me(h),
         Shapes', OthersKept(h), TicksFollow(h, r),
         Fits(h, r, stack'[r.sp], proc'[r.proc])
  PROVE  HartIInv'
<1>1. \A g \in Harts \ {h} : Me(g) # r.proc \/ r.proc = NoProc
  BY DEF HartIInv, OneHart
<1> QED
  BY <1>1, HartTurns DEF OthersKept

\* What the invariant says of a hart and its process.
LEMMA Here ==
  ASSUME HartIInv, NEW h \in Harts
  PROVE  /\ Fits(h, hart[h], stack[hart[h].sp], proc[hart[h].proc])
         /\ DOMAIN hart[h] = HartFields /\ hart[h].sp = StackOf(h, hart[h].proc)
         /\ hart[h].sp \in Stacks /\ Me(h) = hart[h].proc
         /\ DOMAIN stack[hart[h].sp] = StackFields
         /\ hart[h].proc \in Procs \cup {NoProc} /\ NoProc \notin Procs /\ NoHart \notin Harts
         /\ hart[h].proc # NoProc => hart[h].proc \in Procs /\ DOMAIN proc[hart[h].proc] = ProcFields
<1>1. Fits(h, hart[h], stack[hart[h].sp], proc[hart[h].proc])
  BY DEF HartIInv, HartsFit, Me
<1>2. /\ DOMAIN hart[h] = HartFields /\ hart[h].sp = StackOf(h, hart[h].proc)
      /\ hart[h].proc \in Procs \cup {NoProc}
  BY <1>1 DEF Fits
<1>3. NoProc \notin Procs /\ NoHart \notin Harts /\ hart[h].sp \in Stacks
  BY <1>2, StacksApart DEF StackOf
<1> QED
  BY <1>1, <1>2, <1>3 DEF Me, HartIInv, Shapes

FieldNames ==
  /\ HartFields = {"mode", "code", "sp", "tp", "sie", "spie", "spp", "sepc", "spc", "cause",
                   "stvec", "satp", "proc", "noff", "intena", "u", "ctx"}
  /\ StackFields = {"caller", "intena", "frame", "ticks0", "n"}
  /\ ProcFields = {"state", "killed", "lock", "ctx", "tf", "ksatp", "ksp", "khart", "alarm", "calls"}

\* The fields of the records, by name.
LEMMA Fields == FieldNames
  BY DEF FieldNames, HartFields, StackFields, ProcFields, BootHart, NewStack, NewProc

\* The registers that kernel code does not change.
Carried(r, r2) ==
  /\ DOMAIN r2 = HartFields
  /\ r2.mode = r.mode /\ r2.proc = r.proc /\ r2.sp = r.sp /\ r2.ctx = r.ctx
  /\ r2.tp = r.tp /\ r2.satp = r.satp

\* A step inside the kernel after which hart h fits.
LEMMA KernelMoves ==
  ASSUME NEW h \in Harts, NEW r, NEW r2, NEW s, NEW s2, NEW q, NEW q2,
         Fits(h, r, s, q), r.mode = "S", Carried(r, r2), r2.stvec = "kernelvec",
         r2.sie \in BOOLEAN, r2.intena \in BOOLEAN, r2.code # "usertrap",
         r.proc = NoProc => r2.code \in {"scheduler", "devintr", "clock_wake", "kt_tail"},
         r.proc # NoProc => /\ r2.code \notin {"scheduler", "user"}
                            /\ q2.state = "RUNNING" <=> r2.code # "sched"
                            /\ q2.lock = IF r2.code \in Switching THEN h ELSE NoHart,
         FitsLocks(h, r2), FitsStack(h, r2, s2, q2)
  PROVE  Fits(h, r2, s2, q2)
  BY DEF Fits, FitsKernel, Carried

\* A step changes the stack of hart h to s2, and its process to q2.
StackTo(h, s2) ==
  stack' = [stack EXCEPT ![hart[h].sp] = s2] /\ DOMAIN s2 = StackFields
ProcTo(h, q2) ==
  IF Me(h) = NoProc THEN proc' = proc
  ELSE /\ proc' = [proc EXCEPT ![Me(h)] = q2] /\ DOMAIN q2 = ProcFields
       /\ q2.ctx.sp = KStack(Me(h)) /\ q2.ctx.ra \in {"forkret", "resumed"}

\* A step that leaves stacks or processes alone changes them to what they are.
LEMMA Unchanged ==
  ASSUME HartIInv, NEW h \in Harts
  PROVE  /\ UNCHANGED stack => StackTo(h, stack[hart[h].sp])
         /\ UNCHANGED proc => ProcTo(h, proc[Me(h)])
<1>1. UNCHANGED stack => StackTo(h, stack[hart[h].sp])
  BY Here DEF StackTo, HartIInv, Shapes
<1>2. UNCHANGED proc => ProcTo(h, proc[Me(h)])
  BY Here DEF ProcTo, HartIInv, Shapes
<1> QED
  BY <1>1, <1>2

\* A step that changes the process of a hart, all but its context.
LEMMA ProcIs ==
  ASSUME HartIInv, NEW h \in Harts, Me(h) \in Procs, NEW q2,
         proc' = [proc EXCEPT ![Me(h)] = q2],
         DOMAIN q2 = ProcFields, q2.ctx = proc[Me(h)].ctx
  PROVE  ProcTo(h, q2) /\ proc'[Me(h)] = q2
<1>1. proc'[Me(h)] = q2
  BY DEF HartIInv, Shapes
<1>2. q2.ctx.sp = KStack(Me(h)) /\ q2.ctx.ra \in {"forkret", "resumed"}
  BY DEF HartIInv, Shapes
<1> QED
  BY <1>1, <1>2, StacksApart DEF ProcTo

\* A step that changes one stack and one process leaves the others alone.
LEMMA OthersStay ==
  ASSUME HartIInv, NEW h \in Harts, NEW r2, NEW s2, NEW q2,
         hart' = [hart EXCEPT ![h] = r2], StackTo(h, s2), ProcTo(h, q2)
  PROVE  /\ Shapes' /\ OthersKept(h) /\ stack'[hart[h].sp] = s2
         /\ Me(h) # NoProc => proc'[Me(h)] = q2
<1>1. /\ hart[h].sp \in Stacks /\ Me(h) = hart[h].proc
      /\ Me(h) \in Procs \cup {NoProc}
  BY Here
<1>2. /\ stack' = [t \in Stacks |-> stack'[t]] /\ \A t \in Stacks : DOMAIN stack'[t] = StackFields
      /\ stack'[hart[h].sp] = s2
      /\ \A t \in Stacks : t # hart[h].sp => stack'[t] = stack[t]
  BY <1>1 DEF StackTo, HartIInv, Shapes
<1>3. hart' = [g \in Harts |-> hart'[g]]
  BY DEF HartIInv, Shapes
<1>4. CASE Me(h) = NoProc
  BY <1>2, <1>3, <1>4 DEF ProcTo, HartIInv, Shapes, OthersKept, SameThread
<1>5. CASE Me(h) # NoProc
  <2>1. /\ proc' = [p \in Procs |-> proc'[p]] /\ proc'[Me(h)] = q2
        /\ \A p \in Procs : p # Me(h) => proc'[p] = proc[p]
    BY <1>1, <1>5 DEF ProcTo, HartIInv, Shapes
  <2>2. \A p \in Procs : /\ DOMAIN proc'[p] = ProcFields
                         /\ proc'[p].ctx.sp = KStack(p)
                         /\ proc'[p].ctx.ra \in {"forkret", "resumed"}
    BY <1>1, <1>5, <2>1 DEF ProcTo, HartIInv, Shapes
  <2> QED
    BY <1>2, <1>3, <2>1, <2>2 DEF Shapes, OthersKept, SameThread
<1> QED
  BY <1>4, <1>5

\* A step inside the kernel keeps the invariant if what the hart is set to fits
\* its new place in the code.
KernelTo(h, r2, s2, q2) ==
  /\ hart' = [hart EXCEPT ![h] = r2] /\ StackTo(h, s2) /\ ProcTo(h, q2)
  /\ Carried(hart[h], r2) /\ r2.stvec = "kernelvec"
  /\ r2.sie \in BOOLEAN /\ r2.intena \in BOOLEAN
ProcFits(h, r2, q2) ==
  IF Me(h) = NoProc THEN r2.code \in {"scheduler", "devintr", "clock_wake", "kt_tail"}
  ELSE /\ r2.code \notin {"scheduler", "user", "usertrap"}
       /\ q2.state = "RUNNING" <=> r2.code # "sched"
       /\ q2.lock = IF r2.code \in Switching THEN h ELSE NoHart

\* Such a step keeps the invariant.
LEMMA KernelStep ==
  ASSUME HartIInv, NEW h \in Harts, NEW r2, NEW s2, NEW q2,
         hart[h].mode = "S", KernelTo(h, r2, s2, q2),
         ProcFits(h, r2, q2), FitsLocks(h, r2), FitsStack(h, r2, s2, q2), TicksFollow(h, r2)
  PROVE  HartIInv'
<1> DEFINE r == hart[h]
           s == stack[r.sp]
           q == proc[r.proc]
           p2 == proc'[r2.proc]
<1>1. Fits(h, r, s, q) /\ Me(h) = r.proc
  BY Here
<1>2. /\ Shapes' /\ OthersKept(h) /\ stack'[r.sp] = s2
      /\ r.proc # NoProc => proc'[r.proc] = q2
  BY <1>1, OthersStay, ZenonT(60) DEF KernelTo
<1>3. r2.sp = r.sp /\ r2.proc = r.proc /\ Carried(r, r2)
  BY DEF KernelTo, Carried
<1>4. r.proc # NoProc => p2 = q2
  BY <1>2, <1>3
<1>5. FitsStack(h, r2, s2, p2)
  <2>1. CASE r.proc = NoProc
    BY <1>1, <1>3, <2>1 DEF FitsStack, ProcFits
  <2>2. CASE r.proc # NoProc
    BY <1>4, <2>2
  <2> QED
    BY <2>1, <2>2
<1>6. Fits(h, r2, s2, p2)
  <2> HIDE DEF r, s, q, p2
  <2> QED
    BY <1>1, <1>3, <1>4, <1>5, KernelMoves DEF KernelTo, ProcFits, r
<1> QED
  BY <1>1, <1>2, <1>3, <1>6, HartMoves DEF KernelTo

\* Going to another place, and acquire() and release(), change few registers.
LEMMA GotoIs ==
  ASSUME NEW r, DOMAIN r = HartFields, NEW l
  PROVE  LET r2 == [r EXCEPT !.code = l] IN
         /\ Carried(r, r2) /\ r2.code = l /\ r2.sie = r.sie /\ r2.intena = r.intena
         /\ r2.noff = r.noff /\ r2.stvec = r.stvec /\ r2.spp = r.spp
  BY Fields DEF FieldNames, Carried

\* acquire() of the first lock: interrupts are off and their state is kept.
LEMMA AcquireIs ==
  ASSUME NEW r, DOMAIN r = HartFields, r.noff = 0, NEW l
  PROVE  LET r2 == [Acquire(r) EXCEPT !.code = l] IN
         /\ Carried(r, r2) /\ r2.code = l /\ r2.sie = FALSE /\ r2.intena = r.sie
         /\ r2.noff = 1 /\ r2.stvec = r.stvec
  BY Fields DEF FieldNames, Carried, Acquire, PushOff

\* release() of the last lock: interrupts are as they were before acquire().
LEMMA ReleaseIs ==
  ASSUME NEW r, DOMAIN r = HartFields, r.noff = 1, r.sie = FALSE, r.intena \in BOOLEAN, NEW l
  PROVE  LET r2 == [Release(r) EXCEPT !.code = l] IN
         /\ Carried(r, r2) /\ r2.code = l /\ r2.sie \in BOOLEAN /\ (r2.sie <=> r.intena)
         /\ r2.intena \in BOOLEAN /\ ~ r2.intena
         /\ r2.noff = 0 /\ r2.stvec = r.stvec
<1> DEFINE r2 == [Release(r) EXCEPT !.code = l]
<1>1. /\ Carried(r, r2) /\ r2.code = l /\ r2.noff = 0 /\ r2.stvec = r.stvec
  BY Fields DEF FieldNames, Carried, Release, PopOff
<1>2. r2.sie \in BOOLEAN /\ (r2.sie <=> r.intena)
  BY Fields DEF FieldNames, Release, PopOff
<1>3. /\ r2.intena = (r.noff > 1 /\ r.intena)
      /\ r.noff > 1 <=> FALSE
  BY Fields DEF FieldNames, Release, PopOff
<1> QED
  BY <1>1, <1>2, <1>3

\* release() of the lock that was taken first, in sleep().
LEMMA ReleaseInner ==
  ASSUME NEW r, DOMAIN r = HartFields, r.noff = 2, r.sie = FALSE, r.intena = TRUE, NEW l
  PROVE  LET r2 == [Release(r) EXCEPT !.code = l] IN
         /\ Carried(r, r2) /\ r2.code = l /\ r2.sie \in BOOLEAN /\ ~ r2.sie
         /\ r2.intena \in BOOLEAN /\ r2.intena /\ r2.noff = 1 /\ r2.stvec = r.stvec
<1> DEFINE r2 == [Release(r) EXCEPT !.code = l]
<1>1. /\ Carried(r, r2) /\ r2.code = l /\ r2.noff = 1 /\ r2.stvec = r.stvec
  BY Fields DEF FieldNames, Carried, Release, PopOff
<1>2. r2.sie \in BOOLEAN /\ (r2.sie <=> r.sie \/ (r.noff = 1 /\ r.intena))
  BY Fields DEF FieldNames, Release, PopOff
<1>3. r2.intena \in BOOLEAN /\ (r2.intena <=> r.noff > 1 /\ r.intena)
  BY Fields DEF FieldNames, Release, PopOff
<1> QED
  BY <1>1, <1>2, <1>3

\* A process goes to a place where it may be interrupted, or to yield().
LEMMA GotoStep ==
  ASSUME HartIInv, NEW h \in Harts, NEW l, NEW s2, NEW q2,
         hart[h].mode = "S", hart[h].code \in Open \cup {"tail_timer"},
         Goto(h, l), UNCHANGED tickslock, StackTo(h, s2), ProcTo(h, q2),
         q2.state = proc[Me(h)].state, q2.lock = proc[Me(h)].lock,
         \/ l \in {"tail", "exit", "usertrapret"}
         \/ l \in CallCode /\ hart[h].code \in CallCode
         \/ l = "yield" /\ hart[h].code = "tail_timer" /\ s2.caller = "usertrap"
  PROVE  HartIInv'
<1> DEFINE r == hart[h]
           r2 == [r EXCEPT !.code = l]
           s == stack[r.sp]
           q == proc[r.proc]
<1>1. hart' = [hart EXCEPT ![h] = r2]
  BY DEF Goto, HartIInv, Shapes
<1>2. /\ r.mode = "S" /\ Fits(h, r, s, q) /\ Me(h) = r.proc
      /\ q2.state = q.state /\ q2.lock = q.lock
      /\ r.code \in Open \cup {"tail_timer"}
  BY Here
<1>3. /\ Carried(r, r2) /\ r2.code = l /\ r2.sie = r.sie
      /\ r2.intena = r.intena /\ r2.noff = r.noff /\ r2.stvec = r.stvec
  BY Here, GotoIs
<1>4. \/ l \in {"tail", "exit", "usertrapret"}
      \/ l \in CallCode /\ r.code \in CallCode
      \/ l = "yield" /\ r.code = "tail_timer" /\ s2.caller = "usertrap"
  OBVIOUS
<1> HIDE DEF r, r2, s, q
<1>5. /\ r.proc # NoProc /\ r.noff = 0 /\ (r.code = "tail_timer" => ~ r.sie)
      /\ (r.code \in CallCode => r.sie) /\ q.state = "RUNNING" /\ q.lock = NoHart
      /\ r.stvec = "kernelvec" /\ r.sie \in BOOLEAN /\ r.intena \in BOOLEAN
  BY <1>2 DEF Fits, FitsKernel, FitsLocks, Open, CallCode, Switching, Ticking
<1>6. ProcFits(h, r2, q2)
  BY <1>2, <1>3, <1>4, <1>5 DEF ProcFits, CallCode, Switching
<1>7. FitsLocks(h, r2)
  BY <1>3, <1>4, <1>5 DEF FitsLocks, Open, CallCode, Switching, Ticking
<1>8. FitsStack(h, r2, s2, q2)
  BY <1>3, <1>4, <1>5 DEF FitsStack, CallCode
<1>9. TicksFollow(h, r2)
  BY <1>2, <1>3, <1>4 DEF TicksFollow, InTicks, Ticking, Open, CallCode, r
<1>10. KernelTo(h, r2, s2, q2)
  BY <1>1, <1>3, <1>5 DEF KernelTo, r
<1> QED
  BY <1>2, <1>6, <1>7, <1>8, <1>9, <1>10, KernelStep DEF r

-----------------------------------------------------------------------------
(* usertrap() and usertrapret() *)

\* usertrapret() masks interrupts before it changes stvec.
LEMMA UsertrapretOffStep ==
  ASSUME HartIInv, NEW h \in Harts, UsertrapretOff(h) PROVE HartIInv'
<1> DEFINE r == hart[h]
           r2 == [r EXCEPT !.sie = FALSE, !.code = "utr_csr"]
           s == stack[r.sp]
           q == proc[r.proc]
<1>1. hart' = [hart EXCEPT ![h] = r2] /\ UNCHANGED <<stack, proc, tickslock>>
  BY DEF UsertrapretOff, HartIInv, Shapes
<1>2. r.mode = "S" /\ r.code = "usertrapret" /\ Fits(h, r, s, q) /\ Me(h) = r.proc
  BY Here DEF UsertrapretOff, At
<1>3. /\ Carried(r, r2) /\ r2.code = "utr_csr" /\ r2.sie = FALSE
      /\ r2.intena = r.intena /\ r2.noff = r.noff /\ r2.stvec = r.stvec
  BY Here, Fields DEF FieldNames, Carried
<1>4. StackTo(h, s) /\ ProcTo(h, q)
  BY <1>1, <1>2, Unchanged
<1> HIDE DEF r, r2, s, q
<1>5. /\ ProcFits(h, r2, q) /\ FitsLocks(h, r2) /\ FitsStack(h, r2, s, q)
      /\ r2.stvec = "kernelvec" /\ r2.intena \in BOOLEAN
  BY <1>2, <1>3 DEF Fits, FitsKernel, FitsLocks, FitsStack, ProcFits, Open, CallCode,
     Switching, Ticking
<1>6. TicksFollow(h, r2)
  BY <1>1, <1>2, <1>3 DEF TicksFollow, InTicks, Ticking, r
<1>7. KernelTo(h, r2, s, q)
  BY <1>1, <1>3, <1>4, <1>5 DEF KernelTo, r
<1> QED
  BY <1>2, <1>5, <1>6, <1>7, KernelStep DEF r

\* The end of usertrap(): to exit(), to usertrapret(), or by way of alarm_handler()
\* to yield().
LEMMA UsertrapTailStep ==
  ASSUME HartIInv, NEW h \in Harts, UsertrapTail(h) PROVE HartIInv'
<1> DEFINE s == stack[hart[h].sp]
           q == proc[Me(h)]
<1>1. /\ hart[h].mode = "S" /\ hart[h].code \in {"tail", "tail_timer"}
      /\ UNCHANGED <<stack, tickslock>>
  BY DEF UsertrapTail, At
<1>2. StackTo(h, s) /\ Me(h) = hart[h].proc /\ Fits(h, hart[h], s, q) /\ Me(h) \in Procs
      /\ DOMAIN q = ProcFields
  <2>1. StackTo(h, s) /\ Me(h) = hart[h].proc /\ Fits(h, hart[h], s, q)
    BY <1>1, Here, Unchanged
  <2>2. Me(h) # NoProc
    BY <1>1, <2>1 DEF Fits, FitsKernel
  <2> QED
    BY <2>1, <2>2, Here
<1>3. CASE UNCHANGED proc /\ \E l \in {"exit", "usertrapret"} : Goto(h, l)
  <2>1. ProcTo(h, q)
    BY <1>3, Unchanged
  <2> QED
    BY <1>1, <1>2, <1>3, <2>1, GotoStep DEF Open
<1>4. CASE AlarmHandler(Me(h)) /\ Goto(h, "yield") /\ At(h, "tail_timer")
  <2>1. ProcTo(h, proc'[Me(h)]) /\ proc'[Me(h)].state = q.state /\ proc'[Me(h)].lock = q.lock
    <3>1. CASE AlarmCounts(q.alarm) /\ q.alarm.ticks + 1 = q.alarm.interval
      <4> DEFINE a == [q.alarm EXCEPT !.ticks = 0, !.state = 1, !.cp = q.tf]
                 t == [q.tf EXCEPT !.pc = HandlerPc]
                 q2 == [q EXCEPT !.alarm = a, !.tf = t]
      <4> HIDE DEF a, t
      <4>1. proc' = [proc EXCEPT ![Me(h)] = q2]
        BY <1>2, <1>4, <3>1, Fields, ZenonT(60) DEF FieldNames, AlarmHandler, HartIInv, Shapes, a, t
      <4>2. DOMAIN q2 = ProcFields /\ q2.ctx = q.ctx /\ q2.state = q.state /\ q2.lock = q.lock
        BY <1>2, Fields, SMTT(30) DEF FieldNames
      <4> HIDE DEF q2
      <4> QED
        BY <1>2, <4>1, <4>2, ProcIs
    <3>2. CASE ~ (AlarmCounts(q.alarm) /\ q.alarm.ticks + 1 = q.alarm.interval)
      <4> DEFINE a == [q.alarm EXCEPT !.ticks = IF AlarmCounts(q.alarm) THEN @ + 1 ELSE @]
                 q2 == [q EXCEPT !.alarm = a]
      <4>1. proc' = [proc EXCEPT ![Me(h)] = q2]
        BY <1>2, <1>4, <3>2 DEF AlarmHandler
      <4> HIDE DEF a
      <4>2. DOMAIN q2 = ProcFields /\ q2.ctx = q.ctx /\ q2.state = q.state /\ q2.lock = q.lock
        BY <1>2, Fields DEF FieldNames
      <4> HIDE DEF q2
      <4> QED
        BY <1>2, <4>1, <4>2, ProcIs
    <3> QED
      BY <3>1, <3>2
  <2>2. s.caller = "usertrap"
    BY <1>2, <1>4 DEF At, Fits, FitsKernel, FitsStack
  <2> QED
    BY <1>1, <1>2, <1>4, <2>1, <2>2, GotoStep DEF At
<1> QED
  BY <1>3, <1>4 DEF UsertrapTail

\* A hart that runs the code of a process.
LEMMA InProc ==
  ASSUME HartIInv, NEW h \in Harts, hart[h].mode = "S",
         hart[h].code \notin {"scheduler", "devintr", "clock_wake", "kt_tail"}
  PROVE  /\ Me(h) \in Procs /\ Me(h) = hart[h].proc /\ Me(h) # NoProc
         /\ DOMAIN proc[Me(h)] = ProcFields
         /\ Fits(h, hart[h], stack[hart[h].sp], proc[Me(h)])
         /\ hart[h].sp \in Stacks /\ DOMAIN stack[hart[h].sp] = StackFields
         /\ DOMAIN hart[h] = HartFields
<1>1. Fits(h, hart[h], stack[hart[h].sp], proc[hart[h].proc])
  BY Here
<1>2. hart[h].proc # NoProc
  BY <1>1 DEF Fits, FitsKernel
<1> QED
  BY <1>1, <1>2, Here

\* acquire() of p->lock or of tickslock, and release(): where the hart goes.
LEMMA AcquireStep ==
  ASSUME HartIInv, NEW h \in Harts, NEW l, NEW s2, NEW q2,
         hart[h].mode = "S", hart[h].code \notin Switching \cup Ticking \cup {"usertrap"},
         hart' = [hart EXCEPT ![h] = [Acquire(hart[h]) EXCEPT !.code = l]],
         StackTo(h, s2), ProcTo(h, q2),
         \/ /\ l = "sched" /\ Me(h) # NoProc /\ q2.state # "RUNNING" /\ q2.lock = h
            /\ UNCHANGED tickslock
            /\ q2.state # "ZOMBIE" => Saved(Me(h), [s2 EXCEPT !.intena = hart[h].sie])
         \/ /\ l \in {"clock_wake", "sleep_check"} /\ tickslock = NoHart /\ tickslock' = h
            /\ q2.state = proc[Me(h)].state /\ q2.lock = proc[Me(h)].lock
            /\ s2.caller = stack[hart[h].sp].caller /\ s2.frame = stack[hart[h].sp].frame
            /\ l = "clock_wake" => hart[h].code = "devintr"
            /\ l = "sleep_check" => hart[h].code \in {"sleep", "sleep_again"}
  PROVE  HartIInv'
<1> DEFINE r == hart[h]
           r2 == [Acquire(r) EXCEPT !.code = l]
           s == stack[r.sp]
           q == proc[r.proc]
<1>1. /\ r.mode = "S" /\ Fits(h, r, s, q) /\ Me(h) = r.proc /\ DOMAIN r = HartFields
      /\ r.code \notin Switching \cup Ticking \cup {"usertrap"}
  BY Here
<1>2. /\ r.noff = 0 /\ r.sie \in BOOLEAN /\ r.stvec = "kernelvec"
  BY <1>1 DEF Fits, FitsKernel, FitsLocks
<1>3. /\ Carried(r, r2) /\ r2.code = l /\ r2.sie = FALSE
      /\ r2.intena = r.sie /\ r2.noff = 1 /\ r2.stvec = r.stvec
  BY <1>1, <1>2, AcquireIs, ZenonT(60)
<1>4. hart' = [hart EXCEPT ![h] = r2]
  OBVIOUS
<1> HIDE DEF r2
<1>5. KernelTo(h, r2, s2, q2)
  BY <1>2, <1>3, <1>4 DEF KernelTo
<1>6. CASE l = "sched"
  <2>1. /\ r.proc # NoProc /\ q2.state # "RUNNING" /\ q2.lock = h
        /\ UNCHANGED tickslock
        /\ q2.state # "ZOMBIE" => Saved(r.proc, [s2 EXCEPT !.intena = r2.intena])
    BY <1>1, <1>3, <1>6
  <2> HIDE DEF r, s, q
  <2>2. ProcFits(h, r2, q2) /\ FitsLocks(h, r2)
    BY <1>1, <1>3, <1>6, <2>1 DEF ProcFits, FitsLocks, Switching, Ticking, CallCode
  <2>3. FitsStack(h, r2, s2, q2)
    BY <1>3, <1>6, <2>1 DEF FitsStack, Carried
  <2>4. TicksFollow(h, r2)
    BY <1>1, <1>3, <1>6, <2>1 DEF TicksFollow, InTicks, Ticking, r
  <2> QED
    BY <1>1, <1>5, <2>2, <2>3, <2>4, KernelStep DEF r
<1>7. CASE l \in {"clock_wake", "sleep_check"}
  <2>1. /\ tickslock = NoHart /\ tickslock' = h
        /\ q2.state = q.state /\ q2.lock = q.lock
        /\ s2.caller = s.caller /\ s2.frame = s.frame
        /\ l = "clock_wake" => r.code = "devintr"
        /\ l = "sleep_check" => r.code \in {"sleep", "sleep_again"}
    BY <1>1, <1>7
  <2> HIDE DEF r, s, q
  <2>2. ProcFits(h, r2, q2)
    BY <1>1, <1>3, <1>7, <2>1 DEF ProcFits, Fits, FitsKernel, Switching
  <2>3. FitsLocks(h, r2)
    BY <1>1, <1>3, <1>7, <2>1 DEF FitsLocks, Fits, FitsKernel, Switching, Ticking, CallCode, Open
  <2>4. FitsStack(h, r2, s2, q2)
    BY <1>1, <1>3, <1>7, <2>1 DEF FitsStack, Fits, FitsKernel, Carried
  <2>5. TicksFollow(h, r2)
    BY <1>1, <1>3, <1>7, <2>1 DEF TicksFollow, InTicks, Ticking, Carried, r
  <2> QED
    BY <1>1, <1>5, <2>2, <2>3, <2>4, <2>5, KernelStep DEF r
<1> QED
  BY <1>6, <1>7

\* yield() holds p->lock when it calls sched(), and its caller is on the stack.
LEMMA YieldStep ==
  ASSUME HartIInv, NEW h \in Harts, Yield(h) PROVE HartIInv'
<1> DEFINE s == stack[hart[h].sp]
           q == proc[Me(h)]
           q2 == [q EXCEPT !.lock = h, !.state = "RUNNABLE"]
<1>1. hart[h].mode = "S" /\ hart[h].code = "yield" /\ UNCHANGED <<stack, tickslock>>
  BY DEF Yield, At
<1>2. /\ Me(h) \in Procs /\ Me(h) = hart[h].proc /\ Me(h) # NoProc
      /\ DOMAIN q = ProcFields /\ Fits(h, hart[h], s, q) /\ DOMAIN s = StackFields
  BY <1>1, InProc
<1>3. proc' = [proc EXCEPT ![Me(h)] = q2]
  BY <1>2 DEF Yield, HartIInv, Shapes
<1>4. DOMAIN q2 = ProcFields /\ q2.ctx = q.ctx /\ q2.state = "RUNNABLE" /\ q2.lock = h
  BY <1>2, Fields DEF FieldNames
<1>5. StackTo(h, s) /\ hart' = [hart EXCEPT ![h] = [Acquire(hart[h]) EXCEPT !.code = "sched"]]
  BY <1>1, Unchanged DEF Yield, HartIInv, Shapes
<1>6. Saved(Me(h), [s EXCEPT !.intena = hart[h].sie])
  BY <1>1, <1>2, Fields DEF FieldNames, Saved, Fits, FitsKernel, FitsLocks, FitsStack, StackOf,
     Open, CallCode
<1> HIDE DEF q2
<1>7. ProcTo(h, q2)
  BY <1>2, <1>3, <1>4, ProcIs
<1> QED
  BY <1>1, <1>2, <1>4, <1>5, <1>6, <1>7, AcquireStep DEF Switching, Ticking

\* exit() holds p->lock when it calls sched(), which does not return.
LEMMA ExitStep ==
  ASSUME HartIInv, NEW h \in Harts, Exit(h) PROVE HartIInv'
<1> DEFINE s == stack[hart[h].sp]
           q == proc[Me(h)]
           q2 == [q EXCEPT !.lock = h, !.state = "ZOMBIE"]
<1>1. hart[h].mode = "S" /\ hart[h].code = "exit" /\ UNCHANGED <<stack, tickslock>>
  BY DEF Exit, At
<1>2. Me(h) \in Procs /\ Me(h) # NoProc /\ DOMAIN q = ProcFields
  BY <1>1, InProc
<1>3. proc' = [proc EXCEPT ![Me(h)] = q2]
  BY <1>2 DEF Exit, HartIInv, Shapes
<1>4. DOMAIN q2 = ProcFields /\ q2.ctx = q.ctx /\ q2.state = "ZOMBIE" /\ q2.lock = h
  BY <1>2, Fields DEF FieldNames
<1>5. StackTo(h, s) /\ hart' = [hart EXCEPT ![h] = [Acquire(hart[h]) EXCEPT !.code = "sched"]]
  BY <1>1, Unchanged DEF Exit, HartIInv, Shapes
<1> HIDE DEF q2
<1>6. ProcTo(h, q2)
  BY <1>2, <1>3, <1>4, ProcIs
<1> QED
  BY <1>1, <1>2, <1>4, <1>5, <1>6, AcquireStep DEF Switching, Ticking

\* clockintr() takes tickslock in a trap, with interrupts disabled.
LEMMA ClockTickStep ==
  ASSUME HartIInv, NEW h \in Harts, ClockTick(h) PROVE HartIInv'
<1>1. /\ hart[h].mode = "S" /\ hart[h].code = "devintr" /\ UNCHANGED <<stack, proc>>
      /\ tickslock = NoHart /\ tickslock' = h
  BY DEF ClockTick, At
<1>2. /\ StackTo(h, stack[hart[h].sp]) /\ ProcTo(h, proc[Me(h)])
      /\ hart' = [hart EXCEPT ![h] = [Acquire(hart[h]) EXCEPT !.code = "clock_wake"]]
  BY <1>1, Unchanged DEF ClockTick, HartIInv, Shapes
<1> QED
  BY <1>1, <1>2, AcquireStep DEF Switching, Ticking

\* sys_sleep() takes tickslock with interrupts enabled, also when sleep() returns.
LEMMA SleepAcquireStep ==
  ASSUME HartIInv, NEW h \in Harts, SleepAcquire(h) PROVE HartIInv'
<1> DEFINE s == stack[hart[h].sp]
<1>1. /\ hart[h].mode = "S" /\ hart[h].code \in {"sleep", "sleep_again"} /\ UNCHANGED proc
      /\ tickslock = NoHart /\ tickslock' = h
  BY DEF SleepAcquire, At
<1>2. /\ ProcTo(h, proc[Me(h)])
      /\ hart' = [hart EXCEPT ![h] = [Acquire(hart[h]) EXCEPT !.code = "sleep_check"]]
  BY <1>1, Unchanged DEF SleepAcquire, HartIInv, Shapes
<1>3. PICK s2 : StackTo(h, s2) /\ s2.caller = s.caller /\ s2.frame = s.frame
  <2>1. CASE UNCHANGED stack
    BY <2>1, Unchanged
  <2>2. CASE stack' = [stack EXCEPT ![hart[h].sp].ticks0 = ticks]
    <3> DEFINE s2 == [s EXCEPT !.ticks0 = ticks]
    <3>1. DOMAIN s2 = StackFields /\ s2.caller = s.caller /\ s2.frame = s.frame
      BY Here, Fields DEF FieldNames
    <3>2. StackTo(h, s2)
      BY <2>2, <3>1 DEF StackTo
    <3> QED
      BY <3>1, <3>2
  <2> QED
    BY <2>1, <2>2 DEF SleepAcquire
<1> QED
  BY <1>1, <1>2, <1>3, AcquireStep DEF Switching, Ticking

-----------------------------------------------------------------------------
(* sys_sleep() and the other system calls *)

\* The loop of sys_sleep() goes on, or releases tickslock and enables interrupts.
LEMMA SleepCheckStep ==
  ASSUME HartIInv, NEW h \in Harts, SleepCheck(h) PROVE HartIInv'
<1> DEFINE r == hart[h]
           s == stack[r.sp]
           q == proc[r.proc]
<1>1. r.mode = "S" /\ r.code = "sleep_check" /\ UNCHANGED <<stack, proc>>
  BY DEF SleepCheck, At
<1>2. /\ Fits(h, r, s, q) /\ Me(h) = r.proc /\ r.proc # NoProc /\ DOMAIN r = HartFields
      /\ StackTo(h, s) /\ ProcTo(h, q)
  BY <1>1, InProc, Unchanged
<1>3. /\ r.noff = 1 /\ r.sie = FALSE /\ r.intena = TRUE /\ r.stvec = "kernelvec"
      /\ q.state = "RUNNING" /\ q.lock = NoHart
  BY <1>1, <1>2 DEF Fits, FitsKernel, FitsLocks, Ticking, Open, CallCode, Switching
<1>4. CASE Goto(h, "sleep_in") /\ UNCHANGED tickslock
  <2> DEFINE r2 == [r EXCEPT !.code = "sleep_in"]
  <2>1. hart' = [hart EXCEPT ![h] = r2]
    BY <1>4 DEF Goto, HartIInv, Shapes
  <2>2. /\ Carried(r, r2) /\ r2.code = "sleep_in" /\ r2.sie = FALSE /\ r2.intena = TRUE
        /\ r2.noff = 1 /\ r2.stvec = "kernelvec"
    BY <1>2, <1>3, GotoIs
  <2> HIDE DEF r2
  <2>3. KernelTo(h, r2, s, q)
    BY <1>2, <2>1, <2>2 DEF KernelTo
  <2>4. ProcFits(h, r2, q) /\ FitsLocks(h, r2) /\ FitsStack(h, r2, s, q)
    BY <1>2, <1>3, <2>2 DEF ProcFits, FitsLocks, FitsStack, Switching, Ticking, CallCode
  <2>5. TicksFollow(h, r2)
    BY <1>1, <1>4, <2>2 DEF TicksFollow, InTicks, Ticking, Carried, HartIInv, TicksLocked
  <2> QED
    BY <1>1, <2>3, <2>4, <2>5, KernelStep
<1>5. ASSUME NEW l \in {"sleep_killed", "sleep_over"}, tickslock' = NoHart,
             hart' = [hart EXCEPT ![h] = [Release(r) EXCEPT !.code = l]]
      PROVE  HartIInv'
  <2> DEFINE r2 == [Release(r) EXCEPT !.code = l]
  <2>1. /\ Carried(r, r2) /\ r2.code = l /\ r2.sie \in BOOLEAN /\ r2.sie
        /\ r2.intena \in BOOLEAN /\ r2.noff = 0 /\ r2.stvec = "kernelvec"
    BY <1>2, <1>3, ReleaseIs
  <2>2. hart' = [hart EXCEPT ![h] = r2]
    BY <1>5
  <2> HIDE DEF r2
  <2>3. KernelTo(h, r2, s, q)
    BY <1>2, <2>1, <2>2 DEF KernelTo
  <2>4. ProcFits(h, r2, q) /\ FitsLocks(h, r2) /\ FitsStack(h, r2, s, q)
    BY <1>2, <1>3, <2>1 DEF ProcFits, FitsLocks, FitsStack, Switching, Ticking, CallCode, Open
  <2>5. TicksFollow(h, r2)
    BY <1>1, <1>5, <2>1 DEF TicksFollow, InTicks, Ticking
  <2> QED
    BY <1>1, <2>3, <2>4, <2>5, KernelStep
<1> QED
  BY <1>4, <1>5 DEF SleepCheck

\* sleep() takes p->lock, then releases tickslock: interrupts stay disabled and
\* intena says that they were enabled.
LEMMA SleepInStep ==
  ASSUME HartIInv, NEW h \in Harts, SleepIn(h) PROVE HartIInv'
<1> DEFINE r == hart[h]
           r2 == [Release(Acquire(r)) EXCEPT !.code = "sched"]
           s == stack[r.sp]
           s2 == [s EXCEPT !.caller = "sleep"]
           q == proc[r.proc]
           q2 == [q EXCEPT !.lock = h, !.state = "SLEEPING"]
<1>1. r.mode = "S" /\ r.code = "sleep_in" /\ tickslock' = NoHart
  BY DEF SleepIn, At
<1>2. /\ Fits(h, r, s, q) /\ Me(h) = r.proc /\ r.proc # NoProc /\ DOMAIN r = HartFields
      /\ r.proc \in Procs /\ DOMAIN q = ProcFields /\ DOMAIN s = StackFields
  BY <1>1, InProc
<1>3. /\ r.noff = 1 /\ r.sie = FALSE /\ r.intena = TRUE /\ r.stvec = "kernelvec"
  BY <1>1, <1>2 DEF Fits, FitsKernel, FitsLocks, Ticking, Open, CallCode, Switching
<1>4. /\ Carried(r, r2) /\ r2.code = "sched" /\ r2.sie \in BOOLEAN /\ ~ r2.sie
      /\ r2.intena \in BOOLEAN /\ r2.intena /\ r2.noff = 1 /\ r2.stvec = "kernelvec"
  <2> DEFINE a == Acquire(r)
  <2>1. /\ Carried(r, a) /\ a.sie = FALSE /\ a.intena = TRUE /\ a.noff = 2
        /\ a.stvec = "kernelvec"
    BY <1>2, <1>3, Fields DEF FieldNames, Carried, Acquire, PushOff
  <2>2. r2 = [Release(a) EXCEPT !.code = "sched"]
    OBVIOUS
  <2> HIDE DEF a, r2
  <2>3. /\ Carried(a, r2) /\ r2.code = "sched" /\ r2.sie \in BOOLEAN /\ ~ r2.sie
        /\ r2.intena \in BOOLEAN /\ r2.intena /\ r2.noff = 1 /\ r2.stvec = a.stvec
    <3>1. DOMAIN a = HartFields
      BY <2>1 DEF Carried
    <3> QED
      BY ONLY <2>1, <2>2, <3>1, ReleaseInner
  <2> QED
    BY <2>1, <2>3 DEF Carried
<1>5. hart' = [hart EXCEPT ![h] = r2] /\ stack' = [stack EXCEPT ![hart[h].sp] = s2]
  BY DEF SleepIn, HartIInv, Shapes
<1>6. proc' = [proc EXCEPT ![Me(h)] = q2]
  BY <1>2 DEF SleepIn, HartIInv, Shapes
<1>7. DOMAIN q2 = ProcFields /\ q2.ctx = q.ctx /\ q2.state = "SLEEPING" /\ q2.lock = h
  BY <1>2, Fields DEF FieldNames
<1>8. DOMAIN s2 = StackFields /\ s2.caller = "sleep"
  BY <1>2, Fields DEF FieldNames
<1>9. StackTo(h, s2)
  BY <1>5, <1>8 DEF StackTo
<1> HIDE DEF r2, s2, q2
<1>10. ProcTo(h, q2)
  BY <1>2, <1>6, <1>7, ProcIs
<1>11. Saved(r2.proc, [s2 EXCEPT !.intena = r2.intena])
  BY <1>4, <1>8, Fields DEF FieldNames, Saved
<1>12. ProcFits(h, r2, q2) /\ FitsLocks(h, r2) /\ FitsStack(h, r2, s2, q2)
  BY <1>2, <1>4, <1>7, <1>11 DEF ProcFits, FitsLocks, FitsStack, Switching, Ticking, CallCode, Carried
<1>13. TicksFollow(h, r2)
  BY <1>1, <1>4 DEF TicksFollow, InTicks, Ticking
<1>14. KernelTo(h, r2, s2, q2)
  BY <1>4, <1>5, <1>9, <1>10 DEF KernelTo
<1> QED
  BY <1>1, <1>12, <1>13, <1>14, KernelStep

\* A system call stores its result, or moves on.
LEMMA SyscallStep ==
  ASSUME HartIInv, NEW h \in Harts, Syscall(h) PROVE HartIInv'
<1> DEFINE s == stack[hart[h].sp]
           q == proc[Me(h)]
<1>1. hart[h].mode = "S" /\ hart[h].code = "syscall" /\ UNCHANGED tickslock
  BY DEF Syscall, At
<1>2. Me(h) \in Procs /\ DOMAIN q = ProcFields /\ DOMAIN s = StackFields /\ hart[h].sp \in Stacks
  BY <1>1, InProc
<1>3. ASSUME NEW q2, NEW s2, NEW l \in {"tail", "exit", "work", "sleep"}, Goto(h, l),
             proc' = [proc EXCEPT ![Me(h)] = q2], stack' = [stack EXCEPT ![hart[h].sp] = s2],
             DOMAIN q2 = ProcFields, q2.ctx = q.ctx, q2.state = q.state, q2.lock = q.lock,
             DOMAIN s2 = StackFields
      PROVE  HartIInv'
  <2>1. ProcTo(h, q2) /\ StackTo(h, s2)
    BY <1>2, <1>3, ProcIs DEF StackTo
  <2> QED
    BY <1>1, <1>3, <2>1, GotoStep DEF Open, CallCode
<1>4. /\ UNCHANGED proc => proc' = [proc EXCEPT ![Me(h)] = q]
      /\ UNCHANGED stack => stack' = [stack EXCEPT ![hart[h].sp] = s]
  BY DEF HartIInv, Shapes
<1>5. CASE SysSigalarm(h)
  <2> DEFINE a == IF q.tf.a0 = 0 THEN q.alarm
                  ELSE [q.alarm EXCEPT !.interval = q.tf.a0, !.ticks = 0]
             t == [q.tf EXCEPT !.a0 = 0]
             q2 == [q EXCEPT !.tf = t, !.alarm = a]
  <2>1. proc' = [proc EXCEPT ![Me(h)] = q2]
    BY <1>2, <1>5, Fields DEF FieldNames, SysSigalarm, HartIInv, Shapes
  <2> HIDE DEF a, t
  <2>2. DOMAIN q2 = ProcFields /\ q2.ctx = q.ctx /\ q2.state = q.state /\ q2.lock = q.lock
    BY <1>2, Fields DEF FieldNames
  <2> HIDE DEF q2
  <2> QED
    BY <1>2, <1>3, <1>4, <1>5, <2>1, <2>2 DEF SysSigalarm
<1>6. CASE SysSigreturn(h)
  <2> DEFINE a == [q.alarm EXCEPT !.cp = ZeroRegs, !.state = 0]
             t == [q.alarm.cp EXCEPT !.a0 = 0]
             q2 == [q EXCEPT !.tf = t, !.alarm = a]
  <2>1. proc' = [proc EXCEPT ![Me(h)] = q2]
    BY <1>2, <1>6, Fields, ZenonT(60) DEF FieldNames, SysSigreturn, HartIInv, Shapes
  <2> HIDE DEF a, t
  <2>2. DOMAIN q2 = ProcFields /\ q2.ctx = q.ctx /\ q2.state = q.state /\ q2.lock = q.lock
    BY <1>2, Fields DEF FieldNames
  <2> HIDE DEF q2
  <2> QED
    BY <1>2, <1>3, <1>4, <1>6, <2>1, <2>2 DEF SysSigreturn
<1>7. CASE \E l \in {"work", "exit"} : Goto(h, l) /\ UNCHANGED <<stack, proc>>
  BY <1>2, <1>3, <1>4, <1>7
<1>8. CASE Finish(h, Err) /\ UNCHANGED stack
  <2> DEFINE t == [q.tf EXCEPT !.a0 = Err]
             q2 == [q EXCEPT !.tf = t]
  <2>1. proc' = [proc EXCEPT ![Me(h)] = q2] /\ Goto(h, "tail")
    BY <1>8 DEF Finish
  <2> HIDE DEF t
  <2>2. DOMAIN q2 = ProcFields /\ q2.ctx = q.ctx /\ q2.state = q.state /\ q2.lock = q.lock
    BY <1>2, Fields DEF FieldNames
  <2> HIDE DEF q2
  <2> QED
    BY <1>2, <1>3, <1>4, <1>8, <2>1, <2>2
<1>9. CASE /\ stack' = [stack EXCEPT ![hart[h].sp].n = q.tf.a0]
           /\ Goto(h, "sleep") /\ UNCHANGED proc
  <2> DEFINE s2 == [s EXCEPT !.n = q.tf.a0]
  <2>1. stack' = [stack EXCEPT ![hart[h].sp] = s2] /\ DOMAIN s2 = StackFields
    BY <1>2, <1>9
  <2> HIDE DEF s2
  <2> QED
    BY <1>2, <1>3, <1>4, <1>9, <2>1
<1> QED
  BY <1>5, <1>6, <1>7, <1>8, <1>9 DEF Syscall

\* A call returns v.
LEMMA FinishStep ==
  ASSUME HartIInv, NEW h \in Harts, hart[h].mode = "S", hart[h].code \in CallCode,
         NEW v, Finish(h, v), UNCHANGED tickslock, NEW s2, StackTo(h, s2)
  PROVE  HartIInv'
<1> DEFINE q == proc[Me(h)]
           t == [q.tf EXCEPT !.a0 = v]
           q2 == [q EXCEPT !.tf = t]
<1>1. Me(h) \in Procs /\ DOMAIN q = ProcFields
  BY InProc DEF CallCode
<1>2. proc' = [proc EXCEPT ![Me(h)] = q2] /\ Goto(h, "tail")
  BY DEF Finish
<1> HIDE DEF t
<1>3. DOMAIN q2 = ProcFields /\ q2.ctx = q.ctx /\ q2.state = q.state /\ q2.lock = q.lock
  BY <1>1, Fields DEF FieldNames
<1> HIDE DEF q2
<1>4. ProcTo(h, q2)
  BY <1>1, <1>2, <1>3, ProcIs
<1> QED
  BY <1>2, <1>3, <1>4, GotoStep DEF Open

\* A system call returns to the end of usertrap() with interrupts enabled.
LEMMA WorkDoneStep ==
  ASSUME HartIInv, NEW h \in Harts, WorkDone(h) PROVE HartIInv'
<1>1. StackTo(h, stack[hart[h].sp])
  BY Unchanged DEF WorkDone
<1> QED
  BY <1>1, FinishStep DEF WorkDone, At, CallCode

\* sys_sleep() returns to the end of usertrap() with interrupts enabled.
LEMMA SleepReturnStep ==
  ASSUME HartIInv, NEW h \in Harts, SleepReturn(h) PROVE HartIInv'
<1> DEFINE s == stack[hart[h].sp]
           s2 == [s EXCEPT !.n = 0, !.ticks0 = 0]
<1>1. stack' = [stack EXCEPT ![hart[h].sp] = s2] /\ DOMAIN s2 = StackFields
  BY Here, Fields DEF FieldNames, SleepReturn, HartIInv, Shapes
<1> HIDE DEF s2
<1>2. StackTo(h, s2)
  BY <1>1 DEF StackTo
<1> QED
  BY <1>2, FinishStep DEF SleepReturn, At, CallCode

\* usertrap() sends traps to kernelvec before it enables interrupts or calls
\* devintr().
LEMMA UsertrapStep ==
  ASSUME HartIInv, NEW h \in Harts, Usertrap(h) PROVE HartIInv'
<1> DEFINE r == hart[h]
           s == stack[r.sp]
           q == proc[r.proc]
<1>1. r.mode = "S" /\ r.code = "usertrap" /\ UNCHANGED tickslock
  BY DEF Usertrap, At
<1>2. /\ Fits(h, r, s, q) /\ Me(h) = r.proc /\ r.proc # NoProc /\ DOMAIN r = HartFields
      /\ r.proc \in Procs /\ DOMAIN q = ProcFields /\ DOMAIN s = StackFields
  BY <1>1, InProc
<1>3. /\ r.noff = 0 /\ r.sie = FALSE /\ r.intena \in BOOLEAN
      /\ q.state = "RUNNING" /\ q.lock = NoHart
  BY <1>1, <1>2 DEF Fits, FitsKernel, FitsLocks, Ticking, Open, CallCode, Switching
<1>4. ASSUME NEW r2, NEW q2, NEW s2, hart' = [hart EXCEPT ![h] = r2],
             proc' = [proc EXCEPT ![Me(h)] = q2], stack' = [stack EXCEPT ![hart[h].sp] = s2],
             Carried(r, r2), r2.stvec = "kernelvec", r2.noff = r.noff, r2.intena = r.intena,
             r2.sie \in BOOLEAN,
             \/ r2.code = "syscall" /\ r2.sie
             \/ r2.code = "exit"
             \/ r2.code = "devintr" /\ ~ r2.sie /\ s2.caller = "usertrap",
             DOMAIN q2 = ProcFields, q2.ctx = q.ctx, q2.state = q.state, q2.lock = q.lock,
             DOMAIN s2 = StackFields
      PROVE  HartIInv'
  <2>1. ProcTo(h, q2) /\ StackTo(h, s2)
    BY <1>2, <1>4, ProcIs DEF StackTo
  <2>2. KernelTo(h, r2, s2, q2)
    BY <1>3, <1>4, <2>1 DEF KernelTo
  <2>3. ProcFits(h, r2, q2) /\ FitsLocks(h, r2)
    BY <1>2, <1>3, <1>4 DEF ProcFits, FitsLocks, Switching, Ticking, CallCode, Open
  <2>4. FitsStack(h, r2, s2, q2)
    BY <1>2, <1>4 DEF FitsStack, Carried
  <2>5. TicksFollow(h, r2)
    BY <1>1, <1>4 DEF TicksFollow, InTicks, Ticking
  <2> QED
    BY <1>1, <2>2, <2>3, <2>4, <2>5, KernelStep
<1>5. UNCHANGED stack => stack' = [stack EXCEPT ![hart[h].sp] = s]
  BY DEF HartIInv, Shapes
<1> DEFINE k == [KernelStvec(r) EXCEPT !.sepc = 0, !.spc = "none"]
<1>6. /\ Carried(r, k) /\ k.stvec = "kernelvec" /\ k.noff = r.noff /\ k.intena = r.intena
      /\ k.sie = FALSE
  BY <1>2, <1>3, Fields, SMTT(30) DEF FieldNames, Carried, KernelStvec
<1> HIDE DEF k
<1>7. CASE /\ hart' = [hart EXCEPT ![h] = [k EXCEPT !.code = "syscall", !.sie = TRUE,
                                                    !.cause = "none"]]
           /\ proc' = [proc EXCEPT ![r.proc].tf.pc = CallEpc(r.sepc)]
           /\ UNCHANGED stack
  <2> DEFINE r2 == [k EXCEPT !.code = "syscall", !.sie = TRUE, !.cause = "none"]
             t == [q.tf EXCEPT !.pc = CallEpc(r.sepc)]
             q2 == [q EXCEPT !.tf = t]
  <2>1. /\ Carried(r, r2) /\ r2.stvec = "kernelvec" /\ r2.noff = r.noff /\ r2.sie = TRUE
        /\ r2.intena = r.intena /\ r2.code = "syscall"
    BY <1>2, <1>6, Fields DEF FieldNames, Carried
  <2>2. hart' = [hart EXCEPT ![h] = r2] /\ proc' = [proc EXCEPT ![Me(h)] = q2]
    BY <1>2, <1>7
  <2> HIDE DEF t
  <2>3. DOMAIN q2 = ProcFields /\ q2.ctx = q.ctx /\ q2.state = q.state /\ q2.lock = q.lock
    BY <1>2, Fields, SMTT(30) DEF FieldNames
  <2> HIDE DEF r2, q2
  <2> QED
    BY <1>2, <1>4, <1>5, <1>7, <2>1, <2>2, <2>3
<1>8. CASE /\ hart' = [hart EXCEPT ![h] = [k EXCEPT !.code = "exit", !.cause = "none"]]
           /\ \/ proc' = [proc EXCEPT ![r.proc].tf.pc = r.sepc]
              \/ proc' = [proc EXCEPT ![r.proc].tf.pc = r.sepc, ![r.proc].killed = TRUE]
           /\ UNCHANGED stack
  <2> DEFINE r2 == [k EXCEPT !.code = "exit", !.cause = "none"]
             t == [q.tf EXCEPT !.pc = r.sepc]
             q2 == [q EXCEPT !.tf = t]
             q3 == [q EXCEPT !.tf = t, !.killed = TRUE]
  <2>1. /\ Carried(r, r2) /\ r2.stvec = "kernelvec" /\ r2.noff = r.noff /\ r2.sie = FALSE
        /\ r2.intena = r.intena /\ r2.code = "exit"
    BY <1>2, <1>6, Fields DEF FieldNames, Carried
  <2>2. /\ hart' = [hart EXCEPT ![h] = r2]
        /\ proc' = [proc EXCEPT ![Me(h)] = q2] \/ proc' = [proc EXCEPT ![Me(h)] = q3]
    BY <1>2, <1>8, Fields DEF FieldNames, HartIInv, Shapes
  <2> HIDE DEF t
  <2>3. /\ DOMAIN q2 = ProcFields /\ q2.ctx = q.ctx /\ q2.state = q.state /\ q2.lock = q.lock
        /\ DOMAIN q3 = ProcFields /\ q3.ctx = q.ctx /\ q3.state = q.state /\ q3.lock = q.lock
    BY <1>2, Fields DEF FieldNames
  <2> HIDE DEF r2, q2, q3
  <2> QED
    BY <1>2, <1>4, <1>5, <1>8, <2>1, <2>2, <2>3
<1>9. CASE /\ hart' = [hart EXCEPT ![h] = [k EXCEPT !.code = "devintr"]]
           /\ stack' = [stack EXCEPT ![k.sp].caller = "usertrap"]
           /\ proc' = [proc EXCEPT ![r.proc].tf.pc = r.sepc]
  <2> DEFINE r2 == [k EXCEPT !.code = "devintr"]
             t == [q.tf EXCEPT !.pc = r.sepc]
             q2 == [q EXCEPT !.tf = t]
             s2 == [s EXCEPT !.caller = "usertrap"]
  <2>1. /\ Carried(r, r2) /\ r2.stvec = "kernelvec" /\ r2.noff = r.noff /\ r2.sie = FALSE
        /\ r2.intena = r.intena /\ r2.code = "devintr"
    BY <1>2, <1>6, Fields DEF FieldNames, Carried
  <2>2. /\ hart' = [hart EXCEPT ![h] = r2] /\ proc' = [proc EXCEPT ![Me(h)] = q2]
        /\ stack' = [stack EXCEPT ![hart[h].sp] = s2]
    BY <1>2, <1>6, <1>9 DEF Carried
  <2>3. DOMAIN s2 = StackFields /\ s2.caller = "usertrap"
    BY <1>2, Fields DEF FieldNames
  <2> HIDE DEF t
  <2>4. DOMAIN q2 = ProcFields /\ q2.ctx = q.ctx /\ q2.state = q.state /\ q2.lock = q.lock
    BY <1>2, Fields DEF FieldNames
  <2> HIDE DEF r2, q2, s2
  <2> QED
    BY <1>4, <2>1, <2>2, <2>3, <2>4
<1> QED
  BY <1>2, <1>7, <1>8, <1>9 DEF Usertrap, k

-----------------------------------------------------------------------------
(* devintr(), kerneltrap() and the switches *)

\* A step inside the kernel that also changes other processes, as kill() and
\* wakeup() do.
LEMMA WideStep ==
  ASSUME HartIInv, NEW h \in Harts, NEW r2, hart[h].mode = "S",
         hart' = [hart EXCEPT ![h] = r2], UNCHANGED stack,
         proc' = [p \in Procs |-> proc'[p]],
         \A p \in Procs : DOMAIN proc'[p] = ProcFields /\ SameThread(proc[p], proc'[p]),
         Carried(hart[h], r2), r2.stvec = "kernelvec", r2.sie \in BOOLEAN, r2.intena \in BOOLEAN,
         ProcFits(h, r2, proc[Me(h)]), FitsLocks(h, r2),
         FitsStack(h, r2, stack[hart[h].sp], proc[Me(h)]), TicksFollow(h, r2)
  PROVE  HartIInv'
<1> DEFINE r == hart[h]
           s == stack[r.sp]
           q == proc[r.proc]
           q2 == proc'[r.proc]
<1>1. /\ Fits(h, r, s, q) /\ Me(h) = r.proc /\ r.proc \in Procs \cup {NoProc}
  BY Here
<1>2. Shapes' /\ OthersKept(h)
  <2>1. hart' = [g \in Harts |-> hart'[g]] /\ stack' = stack
    BY DEF HartIInv, Shapes
  <2>2. \A p \in Procs : proc'[p].ctx = proc[p].ctx
    BY DEF SameThread
  <2> QED
    BY <2>1, <2>2 DEF HartIInv, Shapes, OthersKept
<1>3. r.proc # NoProc => SameThread(q, q2)
  BY <1>1
<1>4. ProcFits(h, r2, q) /\ FitsStack(h, r2, s, q) /\ r.mode = "S" /\ Carried(r, r2)
  BY <1>1
<1> HIDE DEF r, s, q, q2
<1>5. FitsStack(h, r2, s, q2)
  <2>1. CASE r.proc = NoProc
    BY <1>1, <1>4, <2>1 DEF FitsStack, ProcFits
  <2>2. CASE r.proc # NoProc
    BY <1>3, <1>4, <2>2 DEF FitsStack, SameThread
  <2> QED
    BY <2>1, <2>2
<1>6. r.proc # NoProc => q2.lock = q.lock /\ (q2.state = "RUNNING" <=> q.state = "RUNNING")
  BY <1>3 DEF SameThread
<1>7. Fits(h, r2, s, q2)
  BY <1>1, <1>4, <1>5, <1>6, KernelMoves DEF ProcFits
<1> QED
  BY <1>1, <1>2, <1>4, <1>7, HartMoves DEF Carried, r, s, q2

\* kill() leaves a process in the place where it is.
LEMMA KillStep ==
  ASSUME HartIInv, NEW h \in Harts, NEW p \in Procs, Kill(h, p) PROVE HartIInv'
<1> DEFINE r == hart[h]
           s == stack[r.sp]
           q == proc[r.proc]
<1>1. /\ r.mode = "S" /\ r.code = "work" /\ UNCHANGED <<hart, stack, tickslock>>
      /\ hart' = [hart EXCEPT ![h] = r]
  BY DEF Kill, At, HartIInv, Shapes
<1>2. /\ Fits(h, r, s, q) /\ Me(h) = r.proc /\ DOMAIN r = HartFields
  BY <1>1, InProc
<1>3. /\ proc' = [x \in Procs |-> proc'[x]]
      /\ \A x \in Procs : DOMAIN proc'[x] = ProcFields /\ SameThread(proc[x], proc'[x])
  BY Fields DEF FieldNames, Kill, HartIInv, Shapes, SameThread
<1> HIDE DEF r, s, q
<1>4. /\ ProcFits(h, r, q) /\ FitsLocks(h, r) /\ FitsStack(h, r, s, q)
      /\ r.stvec = "kernelvec" /\ r.sie \in BOOLEAN /\ r.intena \in BOOLEAN /\ Carried(r, r)
  BY <1>1, <1>2 DEF Fits, FitsKernel, ProcFits, Carried
<1>5. TicksFollow(h, r)
  BY <1>1 DEF TicksFollow, InTicks, Ticking, r
<1> QED
  BY <1>1, <1>2, <1>3, <1>4, <1>5, WideStep DEF r, s, q

\* devintr() returns to usertrap() or to kerneltrap().
LEMMA DevReturnStep ==
  ASSUME HartIInv, NEW h \in Harts, NEW rr, NEW d, hart[h].mode = "S",
         hart[h].code \in {"devintr", "clock_wake"}, DevReturn(h, rr, d),
         Carried(hart[h], rr), rr.stvec = "kernelvec", rr.noff = 0,
         rr.sie \in BOOLEAN, ~ rr.sie, rr.intena \in BOOLEAN,
         UNCHANGED stack, proc' = [p \in Procs |-> proc'[p]],
         \A p \in Procs : DOMAIN proc'[p] = ProcFields /\ SameThread(proc[p], proc'[p]),
         tickslock' = IF hart[h].code = "clock_wake" THEN NoHart ELSE tickslock
  PROVE  HartIInv'
<1> DEFINE r == hart[h]
           s == stack[r.sp]
           q == proc[r.proc]
           k == s.caller = "kerneltrap"
           yields == d = 2 /\ rr.proc # NoProc /\ proc[rr.proc].state = "RUNNING"
           l == CASE k /\ yields -> "yield" [] k /\ ~ yields -> "kt_tail"
                  [] ~ k /\ d = 2 -> "tail_timer" [] OTHER -> "tail"
           r2 == [rr EXCEPT !.cause = "none", !.code = l]
<1>1. /\ Fits(h, r, s, q) /\ Me(h) = r.proc /\ r.mode = "S" /\ r.code \in {"devintr", "clock_wake"}
  BY Here
<1>2. rr.sp = r.sp /\ rr.proc = r.proc
  BY DEF Carried
<1>3. hart' = [hart EXCEPT ![h] = r2]
  BY <1>2 DEF DevReturn
<1>4. /\ l \in {"yield", "kt_tail", "tail_timer", "tail"}
      /\ l \in {"yield", "kt_tail"} <=> k
      /\ l = "yield" => r.proc # NoProc
  BY <1>2
<1> HIDE DEF l
<1>5. /\ Carried(r, r2) /\ r2.stvec = "kernelvec" /\ r2.noff = 0 /\ r2.sie = rr.sie
      /\ r2.intena = rr.intena /\ r2.code = l
  BY Fields DEF FieldNames, Carried
<1> HIDE DEF r2, r, s, q
<1>6. /\ s.caller \in {"usertrap", "kerneltrap"} /\ (r.proc = NoProc => k)
      /\ k => Framed(s.frame, r.sp, IF r.proc = NoProc THEN {"scheduler"} ELSE Open)
      /\ r.proc # NoProc => q.state = "RUNNING" /\ q.lock = NoHart
  BY <1>1 DEF Fits, FitsKernel, FitsStack, Switching
<1>7. ProcFits(h, r2, q)
  BY <1>1, <1>4, <1>5, <1>6 DEF ProcFits, Switching
<1>8. FitsLocks(h, r2)
  BY <1>4, <1>5 DEF FitsLocks, Switching, Ticking, CallCode
<1>9. FitsStack(h, r2, s, q)
  BY <1>4, <1>5, <1>6 DEF FitsStack, Carried
<1>10. TicksFollow(h, r2)
  BY <1>1, <1>4, <1>5 DEF TicksFollow, InTicks, Ticking, r
<1> QED
  BY <1>1, <1>3, <1>5, <1>7, <1>8, <1>9, <1>10, WideStep DEF r, s, q

\* devintr() has interrupts disabled and no lock when it returns.
LEMMA DevintrStep ==
  ASSUME HartIInv, NEW h \in Harts, Devintr(h) PROVE HartIInv'
<1> DEFINE r == hart[h]
<1>1. /\ r.mode = "S" /\ r.code = "devintr" /\ UNCHANGED <<stack, proc, tickslock>>
      /\ \E d \in {1, 2} : DevReturn(h, r, d)
  BY DEF Devintr, At
<1>2. Fits(h, r, stack[r.sp], proc[r.proc]) /\ DOMAIN r = HartFields
  BY Here
<1>3. /\ Carried(r, r) /\ r.stvec = "kernelvec" /\ r.noff = 0
      /\ r.sie \in BOOLEAN /\ ~ r.sie /\ r.intena \in BOOLEAN
  BY <1>1, <1>2 DEF Fits, FitsKernel, FitsLocks, Carried, Switching, Ticking, Open, CallCode
<1>4. /\ proc' = [p \in Procs |-> proc'[p]]
      /\ \A p \in Procs : DOMAIN proc'[p] = ProcFields /\ SameThread(proc[p], proc'[p])
  BY <1>1 DEF HartIInv, Shapes, SameThread
<1> QED
  BY <1>1, <1>3, <1>4, DevReturnStep

\* wakeup() leaves every process in the place where it is, and release() does not
\* enable interrupts inside a trap.
LEMMA ClockWakeStep ==
  ASSUME HartIInv, NEW h \in Harts, ClockWake(h) PROVE HartIInv'
<1> DEFINE r == hart[h]
           rr == Release(r)
<1>1. /\ r.mode = "S" /\ r.code = "clock_wake" /\ UNCHANGED stack /\ tickslock' = NoHart
      /\ DevReturn(h, rr, 2) /\ proc' = Wakeup(h)
  BY DEF ClockWake, At
<1>2. Fits(h, r, stack[r.sp], proc[r.proc]) /\ DOMAIN r = HartFields
  BY Here
<1>3. r.noff = 1 /\ r.sie = FALSE /\ r.intena = FALSE /\ r.stvec = "kernelvec"
  BY <1>1, <1>2 DEF Fits, FitsKernel, FitsLocks, Switching, Ticking, Open, CallCode
<1>4. /\ Carried(r, rr) /\ rr.stvec = "kernelvec" /\ rr.noff = 0
  BY <1>2, <1>3, Fields DEF FieldNames, Carried, Release, PopOff
<1>5. rr.sie \in BOOLEAN /\ (rr.sie <=> r.intena)
  BY <1>2, <1>3, Fields DEF FieldNames, Release, PopOff
<1>6. rr.intena \in BOOLEAN
  BY <1>2, <1>3, Fields DEF FieldNames, Release, PopOff
<1>7. /\ proc' = [p \in Procs |-> proc'[p]]
      /\ \A p \in Procs : DOMAIN proc'[p] = ProcFields /\ SameThread(proc[p], proc'[p])
  <2>1. proc' = [p \in Procs |-> proc'[p]]
    BY <1>1 DEF Wakeup
  <2>2. ASSUME NEW p \in Procs
        PROVE  DOMAIN proc'[p] = ProcFields /\ SameThread(proc[p], proc'[p])
    <3>1. \/ proc'[p] = proc[p]
          \/ proc[p].state = "SLEEPING" /\ proc'[p] = [proc[p] EXCEPT !.state = "RUNNABLE"]
      BY <1>1 DEF Wakeup
    <3> QED
      BY <3>1, Fields DEF FieldNames, HartIInv, Shapes, SameThread
  <2> QED
    BY <2>1, <2>2
<1> HIDE DEF rr
<1> QED
  BY <1>1, <1>3, <1>4, <1>5, <1>6, <1>7, DevReturnStep

\* The frame of kernelvec leads back to code that had interrupts enabled, on the
\* stack of that code; tp is that of the hart that runs it now.
LEMMA KerneltrapTailStep ==
  ASSUME HartIInv, NEW h \in Harts, KerneltrapTail(h) PROVE HartIInv'
<1> DEFINE r == hart[h]
           s == stack[r.sp]
           q == proc[r.proc]
           f == s.frame
           k == KernelvecRegs(KerneltrapStatus(r, f), f)
           r2 == [k EXCEPT !.mode = k.spp, !.code = k.spc, !.sie = k.spie,
                           !.spp = "U", !.spie = TRUE, !.spc = "none"]
           s2 == [s EXCEPT !.frame = NoFrame, !.caller = "none"]
<1>1. r.mode = "S" /\ r.code = "kt_tail" /\ UNCHANGED <<proc, tickslock>>
  BY DEF KerneltrapTail, At
<1>2. /\ Fits(h, r, s, q) /\ DOMAIN r = HartFields /\ DOMAIN s = StackFields
      /\ Me(h) = r.proc /\ ProcTo(h, q)
  BY <1>1, Here, Unchanged
<1>3. /\ f.sp = r.sp /\ f.spp = "S" /\ f.spie = TRUE
      /\ f.code \in IF r.proc = NoProc THEN {"scheduler"} ELSE Open
      /\ r.noff = 0 /\ r.intena \in BOOLEAN /\ r.stvec = "kernelvec"
      /\ r.proc # NoProc => q.state = "RUNNING" /\ q.lock = NoHart
  BY <1>1, <1>2 DEF Fits, FitsKernel, FitsLocks, FitsStack, Framed, Switching, Ticking
<1>4. hart' = [hart EXCEPT ![h] = r2] /\ stack' = [stack EXCEPT ![r.sp] = s2]
  <2>1. hart' = [hart EXCEPT ![h] = r2]
    BY DEF KerneltrapTail
  <2>2. stack' = [stack EXCEPT ![r.sp].frame = NoFrame, ![r.sp].caller = "none"]
    BY DEF KerneltrapTail
  <2> HIDE DEF r2, r
  <2>3. stack' = [stack EXCEPT ![r.sp] = s2]
    BY <2>2 DEF HartIInv, Shapes
  <2> QED
    BY <2>1, <2>3
<1>5. /\ Carried(r, r2) /\ r2.code = f.code /\ r2.sie = TRUE /\ r2.noff = 0
      /\ r2.intena = r.intena /\ r2.stvec = "kernelvec"
  <2> HIDE DEF f
  <2> QED
    BY <1>1, <1>2, <1>3, Fields, ZenonT(60) DEF FieldNames, Carried, KernelvecRegs, KerneltrapStatus
<1>6. DOMAIN s2 = StackFields
  BY <1>2, Fields DEF FieldNames
<1> HIDE DEF r2, s2, f
<1>7. KernelTo(h, r2, s2, q)
  BY <1>2, <1>3, <1>4, <1>5, <1>6 DEF KernelTo, StackTo
<1>8. ProcFits(h, r2, q) /\ FitsLocks(h, r2)
  BY <1>2, <1>3, <1>5 DEF ProcFits, FitsLocks, Switching, Ticking, Open, CallCode
<1>9. FitsStack(h, r2, s2, q)
  BY <1>3, <1>5 DEF FitsStack, Open, CallCode
<1>10. TicksFollow(h, r2)
  BY <1>1, <1>3, <1>5 DEF TicksFollow, InTicks, Ticking, Open, CallCode
<1> QED
  BY <1>1, <1>7, <1>8, <1>9, <1>10, KernelStep

\* An interrupt in the kernel.
LEMMA KernelInterruptStep ==
  ASSUME HartIInv, NEW h \in Harts, NEW c, hart[h].mode = "S", hart[h].sie,
         Vector(h, Taken(hart[h], c)), UNCHANGED tickslock
  PROVE  HartIInv'
<1> DEFINE r == hart[h]
           s == stack[r.sp]
           q == proc[r.proc]
           k == Taken(r, c)
           f == [code |-> k.spc, sp |-> k.sp, spp |-> k.spp, spie |-> k.spie]
           r2 == [k EXCEPT !.code = "devintr", !.spc = "none", !.spp = "U", !.spie = TRUE]
           s2 == [s EXCEPT !.frame = f, !.caller = "kerneltrap"]
<1>1. /\ Fits(h, r, s, q) /\ DOMAIN r = HartFields /\ DOMAIN s = StackFields
      /\ Me(h) = r.proc /\ r.mode = "S" /\ r.sie
  BY Here
<1>2. /\ r.code \in Open \cup {"scheduler"} /\ r.noff = 0 /\ r.intena \in BOOLEAN
      /\ r.stvec = "kernelvec" /\ r.sie = TRUE
      /\ r.proc = NoProc => r.code = "scheduler"
      /\ r.proc # NoProc => r.code # "scheduler" /\ q.state = "RUNNING" /\ q.lock = NoHart
  BY <1>1 DEF Fits, FitsKernel, FitsLocks, Switching, Ticking, Open, CallCode
<1>3. /\ Carried([r EXCEPT !.mode = "S"], k) /\ k.code = "kernelvec" /\ k.spc = r.code
      /\ k.spp = "S" /\ k.spie = TRUE /\ k.sie = FALSE /\ k.noff = 0 /\ k.intena = r.intena
      /\ k.stvec = "kernelvec" /\ k.mode = "S" /\ k.sp = r.sp
  BY <1>1, <1>2, Fields DEF FieldNames, Carried, Taken
<1>4. Carried(r, k)
  BY <1>1, <1>2, <1>3, Fields DEF FieldNames, Carried
<1> HIDE DEF k
<1>5. Kernelvec(h, k)
  BY <1>3 DEF Vector, k
<1>6. hart' = [hart EXCEPT ![h] = r2] /\ stack' = [stack EXCEPT ![r.sp] = s2] /\ UNCHANGED proc
  <2>1. hart' = [hart EXCEPT ![h] = r2] /\ UNCHANGED proc
    BY <1>5 DEF Kernelvec
  <2>2. stack' = [stack EXCEPT ![k.sp].frame = f, ![k.sp].caller = "kerneltrap"]
    BY <1>5 DEF Kernelvec
  <2> HIDE DEF r2, r, f
  <2>3. stack' = [stack EXCEPT ![r.sp] = s2]
    BY <1>3, <2>2 DEF HartIInv, Shapes
  <2> QED
    BY <2>1, <2>3
<1>7. /\ Carried(r, r2) /\ r2.code = "devintr" /\ r2.sie = FALSE /\ r2.noff = 0
      /\ r2.intena = r.intena /\ r2.stvec = "kernelvec"
  BY <1>3, <1>4, Fields DEF FieldNames, Carried
<1>8. f.code = r.code /\ f.sp = r.sp /\ f.spp = "S" /\ f.spie = TRUE
  BY <1>3
<1> HIDE DEF f
<1>9. DOMAIN s2 = StackFields /\ s2.caller = "kerneltrap" /\ s2.frame = f
  BY <1>1, Fields DEF FieldNames
<1> HIDE DEF r2, s2
<1>10. KernelTo(h, r2, s2, q)
  <2>1. ProcTo(h, q)
    BY <1>1, <1>6, Unchanged
  <2> QED
    BY <1>2, <1>6, <1>7, <1>9, <2>1 DEF KernelTo, StackTo
<1>11. ProcFits(h, r2, q) /\ FitsLocks(h, r2)
  BY <1>1, <1>2, <1>7 DEF ProcFits, FitsLocks, Switching, Ticking, CallCode
<1>12. FitsStack(h, r2, s2, q)
  BY <1>2, <1>7, <1>8, <1>9 DEF FitsStack, Framed, Carried
<1>13. TicksFollow(h, r2)
  BY <1>1, <1>2, <1>7 DEF TicksFollow, InTicks, Ticking, Open, CallCode
<1> QED
  BY <1>1, <1>10, <1>11, <1>12, <1>13, KernelStep

\* scheduler() enables interrupts without a lock.
LEMMA SchedulerLoopStep ==
  ASSUME HartIInv, NEW h \in Harts, SchedulerLoop(h) PROVE HartIInv'
<1> DEFINE r == hart[h]
           r2 == [r EXCEPT !.sie = TRUE]
           s == stack[r.sp]
           q == proc[r.proc]
<1>1. /\ r.mode = "S" /\ r.code = "scheduler" /\ UNCHANGED <<stack, proc, tickslock>>
      /\ hart' = [hart EXCEPT ![h] = r2]
  BY DEF SchedulerLoop, At
<1>2. /\ Fits(h, r, s, q) /\ DOMAIN r = HartFields /\ Me(h) = r.proc
      /\ StackTo(h, s) /\ ProcTo(h, q)
  BY <1>1, Here, Unchanged
<1>3. /\ Carried(r, r2) /\ r2.code = "scheduler" /\ r2.sie = TRUE /\ r2.noff = r.noff
      /\ r2.intena = r.intena /\ r2.stvec = r.stvec
  BY <1>1, <1>2, Fields DEF FieldNames, Carried
<1> HIDE DEF r2
<1>4. /\ r.proc = NoProc /\ r.noff = 0 /\ r.intena \in BOOLEAN /\ r.stvec = "kernelvec"
  BY <1>1, <1>2 DEF Fits, FitsKernel, FitsLocks, Switching, Ticking
<1>5. KernelTo(h, r2, s, q)
  BY <1>1, <1>2, <1>3, <1>4 DEF KernelTo
<1>6. ProcFits(h, r2, q) /\ FitsLocks(h, r2) /\ FitsStack(h, r2, s, q)
  BY <1>2, <1>3, <1>4 DEF ProcFits, FitsLocks, FitsStack, Switching, Ticking, CallCode
<1>7. TicksFollow(h, r2)
  BY <1>1, <1>3 DEF TicksFollow, InTicks, Ticking
<1> QED
  BY <1>1, <1>5, <1>6, <1>7, KernelStep

\* forkret() releases the p->lock that scheduler() took.
LEMMA ForkretStep ==
  ASSUME HartIInv, NEW h \in Harts, Forkret(h) PROVE HartIInv'
<1> DEFINE r == hart[h]
           r2 == [Release(r) EXCEPT !.code = "usertrapret"]
           s == stack[r.sp]
           q == proc[r.proc]
           q2 == [q EXCEPT !.lock = NoHart]
<1>1. /\ r.mode = "S" /\ r.code = "forkret" /\ UNCHANGED <<stack, tickslock>>
      /\ hart' = [hart EXCEPT ![h] = r2]
  BY DEF Forkret, At, HartIInv, Shapes
<1>2. /\ Fits(h, r, s, q) /\ DOMAIN r = HartFields /\ Me(h) = r.proc /\ r.proc \in Procs
      /\ r.proc # NoProc /\ DOMAIN q = ProcFields /\ StackTo(h, s)
  BY <1>1, InProc, Unchanged
<1>3. /\ r.noff = 1 /\ r.sie = FALSE /\ r.intena \in BOOLEAN /\ r.stvec = "kernelvec"
      /\ q.state = "RUNNING"
  BY <1>1, <1>2 DEF Fits, FitsKernel, FitsLocks, Switching, Ticking, Open, CallCode
<1>4. /\ Carried(r, r2) /\ r2.code = "usertrapret" /\ r2.sie \in BOOLEAN
      /\ r2.intena \in BOOLEAN /\ r2.noff = 0 /\ r2.stvec = r.stvec
  BY <1>2, <1>3, ReleaseIs, ZenonT(60)
<1>5. proc' = [proc EXCEPT ![Me(h)] = q2]
  BY <1>2 DEF Forkret
<1>6. DOMAIN q2 = ProcFields /\ q2.ctx = q.ctx /\ q2.state = q.state /\ q2.lock = NoHart
  BY <1>2, Fields DEF FieldNames
<1> HIDE DEF r2, q2
<1>7. ProcTo(h, q2)
  BY <1>2, <1>5, <1>6, ProcIs
<1>8. KernelTo(h, r2, s, q2)
  BY <1>1, <1>2, <1>3, <1>4, <1>7 DEF KernelTo
<1>9. ProcFits(h, r2, q2) /\ FitsLocks(h, r2) /\ FitsStack(h, r2, s, q2)
  BY <1>2, <1>3, <1>4, <1>6 DEF ProcFits, FitsLocks, FitsStack, Switching, Ticking, CallCode, Open
<1>10. TicksFollow(h, r2)
  BY <1>1, <1>4 DEF TicksFollow, InTicks, Ticking
<1> QED
  BY <1>1, <1>8, <1>9, <1>10, KernelStep

\* sched() returns to yield() or to sleep(), which release p->lock: interrupts are
\* enabled only in the system call, whatever intena the scheduler of the hart left.
LEMMA ResumedStep ==
  ASSUME HartIInv, NEW h \in Harts, Resumed(h) PROVE HartIInv'
<1> DEFINE r == hart[h]
           s == stack[r.sp]
           q == proc[r.proc]
           l == CASE s.caller = "usertrap" -> "usertrapret"
                  [] s.caller = "kerneltrap" -> "kt_tail"
                  [] OTHER -> "sleep_again"
           b == IntenaBack(r, s)
           r2 == [Release(b) EXCEPT !.code = l]
           s2 == [s EXCEPT !.intena = FALSE, !.caller = "none"]
           q2 == [q EXCEPT !.lock = NoHart]
<1>1. r.mode = "S" /\ r.code = "resumed" /\ UNCHANGED tickslock
  BY DEF Resumed, At
<1>2. /\ Fits(h, r, s, q) /\ DOMAIN r = HartFields /\ Me(h) = r.proc /\ r.proc \in Procs
      /\ r.proc # NoProc /\ DOMAIN q = ProcFields /\ DOMAIN s = StackFields
  BY <1>1, InProc
<1>3. /\ r.noff = 1 /\ r.sie = FALSE /\ r.stvec = "kernelvec" /\ q.state = "RUNNING"
      /\ Saved(r.proc, s) /\ r.sp = KStack(r.proc)
  BY <1>1, <1>2 DEF Fits, FitsKernel, FitsLocks, FitsStack, Switching, Ticking, Open, CallCode,
     StackOf
<1>4. hart' = [hart EXCEPT ![h] = r2]
  BY DEF Resumed
<1>5. proc' = [proc EXCEPT ![Me(h)] = q2]
  BY <1>2 DEF Resumed
<1>6. stack' = [stack EXCEPT ![r.sp] = s2]
  <2>1. stack' = [stack EXCEPT ![r.sp].intena = FALSE, ![r.sp].caller = "none"]
    BY DEF Resumed
  <2> HIDE DEF r
  <2> QED
    BY <2>1 DEF HartIInv, Shapes
<1>7. \/ s.caller = "usertrap" /\ l = "usertrapret" /\ ~ s.intena
      \/ s.caller = "kerneltrap" /\ l = "kt_tail" /\ ~ s.intena /\ Framed(s.frame, r.sp, Open)
      \/ s.caller = "sleep" /\ l = "sleep_again" /\ s.intena
  BY <1>3 DEF Saved
<1> HIDE DEF l
<1>8. /\ Carried(r, b) /\ b.noff = 1 /\ b.sie = FALSE /\ b.intena = s.intena
      /\ b.stvec = "kernelvec" /\ b.intena \in BOOLEAN
  BY <1>2, <1>3, Fields DEF FieldNames, Carried, IntenaBack, Saved
<1> HIDE DEF b
<1>9. /\ Carried(b, r2) /\ r2.code = l /\ r2.sie \in BOOLEAN /\ (r2.sie <=> s.intena)
      /\ r2.intena \in BOOLEAN /\ r2.noff = 0 /\ r2.stvec = "kernelvec"
  <2>1. DOMAIN b = HartFields
    BY <1>8 DEF Carried
  <2>2. /\ Carried(b, r2) /\ r2.code = l /\ r2.sie \in BOOLEAN /\ (r2.sie <=> b.intena)
        /\ r2.intena \in BOOLEAN /\ r2.noff = 0 /\ r2.stvec = b.stvec
    BY <1>8, <2>1, ReleaseIs, ZenonT(60)
  <2> QED
    BY <1>8, <2>2
<1>10. DOMAIN q2 = ProcFields /\ q2.ctx = q.ctx /\ q2.state = q.state /\ q2.lock = NoHart
  BY <1>2, Fields DEF FieldNames
<1>11. DOMAIN s2 = StackFields /\ s2.frame = s.frame
  BY <1>2, Fields DEF FieldNames
<1> HIDE DEF r2, q2, s2
<1>12. ProcTo(h, q2) /\ Carried(r, r2)
  BY <1>2, <1>5, <1>8, <1>9, <1>10, ProcIs DEF Carried
<1>13. KernelTo(h, r2, s2, q2)
  BY <1>4, <1>6, <1>9, <1>11, <1>12 DEF KernelTo, StackTo
<1>14. ProcFits(h, r2, q2)
  BY <1>2, <1>3, <1>7, <1>9, <1>10 DEF ProcFits, Switching
<1>15. FitsLocks(h, r2)
  BY <1>7, <1>9 DEF FitsLocks, Switching, Ticking, CallCode, Open
<1>16. FitsStack(h, r2, s2, q2)
  BY <1>2, <1>7, <1>9, <1>11, <1>12 DEF FitsStack, Carried
<1>17. TicksFollow(h, r2)
  BY <1>1, <1>7, <1>9 DEF TicksFollow, InTicks, Ticking
<1> QED
  BY <1>1, <1>13, <1>14, <1>15, <1>16, <1>17, KernelStep

-----------------------------------------------------------------------------
(* Between user space and the kernel *)

\* usertrapret() leaves in the trapframe what uservec needs on this hart.
LEMMA UserretStep ==
  ASSUME HartIInv, NEW h \in Harts, Userret(h) PROVE HartIInv'
<1> DEFINE r == hart[h]
           s == stack[r.sp]
           q == proc[r.proc]
           r2 == [r EXCEPT !.stvec = "uservec", !.satp = UserTable(r.proc),
                           !.u = UserretRegs(r.proc), !.mode = "U", !.sie = TRUE, !.code = "user"]
           s2 == [s EXCEPT !.caller = "none"]
           q2 == [q EXCEPT !.ksatp = r.satp, !.ksp = KStack(r.proc), !.khart = r.tp,
                           !.tf = ZeroRegs]
<1>1. r.mode = "S" /\ r.code = "utr_csr" /\ UNCHANGED tickslock
  BY DEF Userret, At
<1>2. /\ Fits(h, r, s, q) /\ DOMAIN r = HartFields /\ Me(h) = r.proc /\ r.proc \in Procs
      /\ r.proc # NoProc /\ DOMAIN q = ProcFields /\ DOMAIN s = StackFields
  BY <1>1, InProc, SMTT(30)
<1>3. hart' = [hart EXCEPT ![h] = r2] /\ stack' = [stack EXCEPT ![r.sp] = s2]
  BY <1>2, SMTT(30) DEF Userret
<1>4. proc' = [proc EXCEPT ![Me(h)] = q2]
  <2>1. proc' = [proc EXCEPT ![Me(h)].ksatp = r.satp, ![Me(h)].ksp = KStack(r.proc),
                             ![Me(h)].khart = r.tp, ![Me(h)].tf = ZeroRegs]
    BY <1>2 DEF Userret
  <2> HIDE DEF r
  <2> QED
    BY <1>2, <2>1 DEF HartIInv, Shapes
<1>5. /\ r.noff = 0 /\ r.intena \in BOOLEAN /\ q.state = "RUNNING" /\ q.lock = NoHart
      /\ r.tp = h /\ r.satp = KernTable(r.proc) /\ r.sp = StackOf(h, r.proc)
      /\ r.ctx = [ra |-> "scheduler", sp |-> BootStack(h)]
  BY <1>1, <1>2 DEF Fits, FitsKernel, FitsLocks, Switching, Ticking, TableOf
<1>6. /\ DOMAIN r2 = HartFields /\ r2.proc = r.proc /\ r2.sp = r.sp /\ r2.ctx = r.ctx
      /\ r2.stvec = "uservec" /\ r2.satp = UserTable(r.proc) /\ r2.mode = "U"
      /\ r2.code = "user" /\ r2.sie = TRUE /\ r2.noff = r.noff /\ r2.intena = r.intena
  BY <1>2, Fields DEF FieldNames
<1>7. /\ DOMAIN q2 = ProcFields /\ q2.ctx = q.ctx /\ q2.state = q.state /\ q2.lock = q.lock
      /\ q2.khart = r.tp /\ q2.ksp = KStack(r.proc) /\ q2.ksatp = r.satp
  BY <1>2, Fields DEF FieldNames
<1>8. DOMAIN s2 = StackFields
  BY <1>2, Fields DEF FieldNames
<1> HIDE DEF r2, q2, s2
<1>9. ProcTo(h, q2) /\ StackTo(h, s2)
  BY <1>2, <1>3, <1>4, <1>7, <1>8, ProcIs DEF StackTo
<1>10. Shapes' /\ OthersKept(h) /\ proc'[r.proc] = q2
  BY <1>2, <1>3, <1>9, OthersStay
<1>11. TicksFollow(h, r2)
  BY <1>1, <1>6 DEF TicksFollow, InTicks, Ticking
<1> HIDE DEF r
<1>12. Fits(h, r2, stack'[r2.sp], q2)
  BY <1>2, <1>5, <1>6, <1>7, ZenonT(60) DEF Fits, FitsUser
<1> QED
  BY <1>2, <1>3, <1>6, <1>10, <1>11, <1>12, HartMoves DEF r

\* A hart that runs a user program.
LEMMA InUser ==
  ASSUME HartIInv, NEW h \in Harts, hart[h].mode = "U"
  PROVE  /\ Me(h) \in Procs /\ Me(h) = hart[h].proc /\ Me(h) # NoProc
         /\ DOMAIN proc[Me(h)] = ProcFields
         /\ Fits(h, hart[h], stack[hart[h].sp], proc[Me(h)])
         /\ FitsUser(h, hart[h], proc[Me(h)])
         /\ DOMAIN hart[h] = HartFields
<1>1. Fits(h, hart[h], stack[hart[h].sp], proc[hart[h].proc])
  BY Here
<1>2. FitsUser(h, hart[h], proc[hart[h].proc]) /\ hart[h].proc \in Procs
  BY <1>1 DEF Fits, FitsUser
<1> QED
  BY <1>1, <1>2, Here

\* A trap of a user program, which may have changed its registers: uservec.
LEMMA UservecStep ==
  ASSUME HartIInv, NEW h \in Harts, NEW c, NEW r0, hart[h].mode = "U",
         r0 = hart[h] \/ \E u0 : r0 = [hart[h] EXCEPT !.u = u0],
         Vector(h, Taken(r0, c)), UNCHANGED tickslock
  PROVE  HartIInv'
<1> DEFINE r == hart[h]
           s == stack[r.sp]
           q == proc[r.proc]
           k == Taken(r0, c)
           t == [k.u EXCEPT !.pc = q.tf.pc]
           r2 == [k EXCEPT !.sp = q.ksp, !.tp = q.khart, !.satp = q.ksatp,
                           !.code = "usertrap", !.u = ZeroRegs]
           q2 == [q EXCEPT !.tf = t, !.khart = NoHart]
<1>1. /\ Fits(h, r, s, q) /\ FitsUser(h, r, q) /\ DOMAIN r = HartFields /\ Me(h) = r.proc
      /\ r.proc \in Procs /\ r.proc # NoProc /\ DOMAIN q = ProcFields /\ r.mode = "U"
  BY InUser
<1>2. /\ r.noff = 0 /\ r.intena \in BOOLEAN /\ r.sie \in BOOLEAN /\ r.stvec = "uservec"
      /\ r.satp = UserTable(r.proc)
      /\ q.state = "RUNNING" /\ q.lock = NoHart /\ r.sp = KStack(r.proc)
      /\ q.khart = h /\ q.ksp = KStack(r.proc) /\ q.ksatp = KernTable(r.proc)
      /\ r.ctx = [ra |-> "scheduler", sp |-> BootStack(h)]
  BY <1>1 DEF Fits, FitsUser, StackOf
<1>3. /\ DOMAIN k = HartFields /\ k.code = "uservec" /\ k.mode = "S" /\ k.spp = "U"
      /\ k.sie = FALSE /\ k.noff = r.noff /\ k.intena = r.intena /\ k.stvec = r.stvec
      /\ k.satp = r.satp /\ k.proc = r.proc /\ k.ctx = r.ctx
  <2>1. /\ DOMAIN r0 = HartFields /\ r0.mode = "U" /\ r0.noff = r.noff /\ r0.intena = r.intena
        /\ r0.stvec = r.stvec /\ r0.satp = r.satp /\ r0.proc = r.proc /\ r0.ctx = r.ctx
    BY <1>1, Fields DEF FieldNames
  <2> QED
    BY <1>2, <2>1, Fields DEF FieldNames, Taken
<1>4. Vector(h, k)
  OBVIOUS
<1> HIDE DEF k
<1>5. Uservec(h, k) /\ k.satp[2] = r.proc
  BY <1>2, <1>3, <1>4 DEF Vector, UserTable
<1>6. hart' = [hart EXCEPT ![h] = r2] /\ UNCHANGED stack
  BY <1>5 DEF Uservec
<1>7. proc' = [proc EXCEPT ![Me(h)] = q2]
  <2>1. proc' = [proc EXCEPT ![Me(h)].tf = t, ![Me(h)].khart = NoHart]
    BY <1>1, <1>5 DEF Uservec
  <2> HIDE DEF t
  <2> QED
    BY <1>1, <2>1 DEF HartIInv, Shapes
<1> HIDE DEF t
<1>8. /\ DOMAIN q2 = ProcFields /\ q2.ctx = q.ctx /\ q2.state = q.state /\ q2.lock = q.lock
  BY <1>1, Fields DEF FieldNames
<1>9. /\ DOMAIN r2 = HartFields /\ r2.proc = r.proc /\ r2.sp = r.sp /\ r2.ctx = r.ctx
      /\ r2.stvec = "uservec" /\ r2.satp = KernTable(r.proc) /\ r2.mode = "S" /\ r2.tp = h
      /\ r2.code = "usertrap" /\ r2.sie = FALSE /\ r2.noff = 0 /\ r2.intena = r.intena
      /\ r2.spp = "U"
  BY <1>2, <1>3, Fields DEF FieldNames
<1> HIDE DEF r2, q2
<1>10. ProcTo(h, q2) /\ StackTo(h, s)
  BY <1>1, <1>6, <1>7, <1>8, ProcIs, Unchanged
<1>11. Shapes' /\ OthersKept(h) /\ proc'[r.proc] = q2
  BY <1>1, <1>6, <1>10, OthersStay, ZenonT(60)
<1>12. TicksFollow(h, r2)
  BY <1>1, <1>9 DEF TicksFollow, InTicks, Ticking
<1> HIDE DEF r, q, s
<1>13. FitsLocks(h, r2) /\ FitsStack(h, r2, stack'[r2.sp], q2)
  BY <1>1, <1>9 DEF FitsLocks, FitsStack, Switching, Ticking, CallCode
<1>14. Fits(h, r2, stack'[r2.sp], q2)
  BY <1>1, <1>2, <1>8, <1>9, <1>13 DEF Fits, FitsKernel, StackOf, TableOf, Switching
<1> QED
  BY <1>1, <1>6, <1>9, <1>11, <1>12, <1>14, HartMoves DEF r

\* A user program does not change what the kernel depends on.
LEMMA UserJumpStep ==
  ASSUME HartIInv, NEW h \in Harts, UserJump(h) PROVE HartIInv'
<1> DEFINE r == hart[h]
           s == stack[r.sp]
           q == proc[r.proc]
           t == [pc |-> r.u.pc - 1, a0 |-> 1, a7 |-> "none",
                 x |-> IF r.u.pc = 1 THEN r.u.x ELSE Me(h) + NP]
           r2 == [r EXCEPT !.u = t]
<1>1. /\ hart' = [hart EXCEPT ![h] = r2] /\ r.mode = "U" /\ UNCHANGED <<stack, proc, tickslock>>
  BY DEF UserJump
<1>2. /\ Fits(h, r, s, q) /\ FitsUser(h, r, q) /\ DOMAIN r = HartFields /\ Me(h) = r.proc
      /\ r.proc \in Procs /\ r.proc # NoProc
  BY <1>1, InUser
<1> HIDE DEF t
<1>3. /\ DOMAIN r2 = HartFields /\ r2.proc = r.proc /\ r2.sp = r.sp /\ r2.ctx = r.ctx
      /\ r2.stvec = r.stvec /\ r2.satp = r.satp /\ r2.mode = "U"
      /\ r2.code = r.code /\ r2.sie = r.sie /\ r2.noff = r.noff /\ r2.intena = r.intena
  BY <1>1, <1>2, Fields DEF FieldNames
<1> HIDE DEF r2
<1>4. Shapes' /\ OthersKept(h) /\ proc'[r.proc] = q
  BY <1>1, <1>2, Unchanged, OthersStay
<1>5. TicksFollow(h, r2)
  BY <1>1, <1>3 DEF TicksFollow, InTicks
<1> HIDE DEF r, q, s
<1>6. Fits(h, r2, stack'[r2.sp], q)
  BY <1>2, <1>3 DEF Fits, FitsUser
<1> QED
  BY <1>1, <1>2, <1>3, <1>4, <1>5, <1>6, HartMoves DEF r

-----------------------------------------------------------------------------
(* Processes that leave a hart and come to one *)

\* sched() leaves the hart to its scheduler, on its stack, in the page table of the
\* kernel and without a lock, and the process with its intena saved.
LEMMA SchedStep ==
  ASSUME HartIInv, NEW h \in Harts, Sched(h) PROVE HartIInv'
<1> DEFINE r == hart[h]
           s == stack[r.sp]
           p == r.proc
           q == proc[p]
           w == Swtch(r, r.ctx)
           v == Release(w)
           r2 == [v EXCEPT !.satp = SchedulerTable(r), !.proc = NoProc]
           s2 == [s EXCEPT !.intena = r.intena]
           q2 == [q EXCEPT !.ctx = [ra |-> "resumed", sp |-> r.sp], !.lock = NoHart]
<1>1. r.mode = "S" /\ r.code = "sched" /\ UNCHANGED tickslock
  BY DEF Sched, At
<1>2. /\ Fits(h, r, s, q) /\ DOMAIN r = HartFields /\ Me(h) = p /\ p \in Procs
      /\ p # NoProc /\ DOMAIN q = ProcFields /\ DOMAIN s = StackFields /\ r.sp \in Stacks
  BY <1>1, InProc
<1>3. /\ r.noff = 1 /\ r.sie = FALSE /\ r.intena \in BOOLEAN /\ r.stvec = "kernelvec"
      /\ q.state # "RUNNING" /\ r.sp = KStack(p) /\ r.tp = h
      /\ r.ctx = [ra |-> "scheduler", sp |-> BootStack(h)]
      /\ q.state # "ZOMBIE" => Saved(p, s2)
  BY <1>1, <1>2 DEF Fits, FitsKernel, FitsLocks, FitsStack, Switching, Ticking, Open, CallCode,
     StackOf
<1>4. hart' = [hart EXCEPT ![h] = r2] /\ stack' = [stack EXCEPT ![r.sp] = s2]
  BY DEF Sched
<1>5. proc' = [proc EXCEPT ![p] = q2]
  <2>1. proc' = [proc EXCEPT ![p].ctx = [ra |-> "resumed", sp |-> r.sp], ![p].lock = NoHart]
    BY <1>2 DEF Sched
  <2> HIDE DEF r
  <2> QED
    BY <1>2, <2>1 DEF HartIInv, Shapes
<1>6. /\ DOMAIN w = HartFields /\ w.code = "scheduler" /\ w.sp = BootStack(h) /\ w.mode = "S"
      /\ w.noff = 1 /\ w.sie = FALSE /\ w.intena = r.intena /\ w.stvec = "kernelvec"
      /\ w.tp = h /\ w.ctx = r.ctx
  BY <1>1, <1>2, <1>3, Fields DEF FieldNames, Swtch
<1> HIDE DEF w
<1>7. /\ Carried(w, v) /\ v.noff = 0 /\ v.code = "scheduler" /\ v.stvec = "kernelvec"
  BY <1>6, Fields DEF FieldNames, Release, PopOff, Carried
<1>8. v.sie \in BOOLEAN /\ v.intena \in BOOLEAN
  <2>1. v.sie \in BOOLEAN
    BY <1>6, Fields DEF FieldNames, Release, PopOff
  <2>2. v.intena \in BOOLEAN
    BY <1>6, Fields DEF FieldNames, Release, PopOff
  <2> QED
    BY <2>1, <2>2
<1> HIDE DEF v
<1>9. /\ DOMAIN r2 = HartFields /\ r2.proc = NoProc /\ r2.satp = KernelTable
      /\ r2.sp = BootStack(h) /\ r2.ctx = [ra |-> "scheduler", sp |-> BootStack(h)]
      /\ r2.mode = "S" /\ r2.code = "scheduler" /\ r2.noff = 0 /\ r2.stvec = "kernelvec"
      /\ r2.tp = h /\ r2.sie = v.sie /\ r2.intena = v.intena
  BY <1>3, <1>6, <1>7, Fields DEF FieldNames, Carried, SchedulerTable
<1>10. /\ DOMAIN q2 = ProcFields /\ q2.ctx = [ra |-> "resumed", sp |-> r.sp]
       /\ q2.state = q.state /\ q2.lock = NoHart
  BY <1>2, Fields DEF FieldNames
<1>11. DOMAIN s2 = StackFields
  BY <1>2, Fields DEF FieldNames
<1> HIDE DEF r2, q2, s2
<1>12. ProcTo(h, q2) /\ StackTo(h, s2)
  BY <1>2, <1>3, <1>4, <1>5, <1>10, <1>11 DEF ProcTo, StackTo
<1>13. Shapes' /\ OthersKept(h) /\ stack'[r.sp] = s2 /\ proc'[p] = q2
  BY <1>2, <1>4, <1>12, OthersStay
<1>14. Parked(p, stack'[KStack(p)], proc'[p])
  BY <1>3, <1>10, <1>13 DEF Parked
<1>15. TicksFollow(h, r2)
  BY <1>1, <1>9 DEF TicksFollow, InTicks, Ticking
<1>16. ASSUME NEW t, NEW x PROVE Fits(h, r2, t, x)
  BY <1>8, <1>9 DEF Fits, FitsKernel, FitsLocks, FitsStack, StackOf, TableOf, Switching, Ticking,
     CallCode
<1>17. Me(h) = p /\ r2.proc = NoProc
  BY <1>2, <1>9
<1> HIDE DEF r, q, s
<1> QED
  BY <1>4, <1>13, <1>14, <1>15, <1>16, <1>17, HartTurns DEF OthersKept, r

\* A process that has no lock, and that is not RUNNING, is on no hart.
LEMMA OnNoHart ==
  ASSUME HartIInv, NEW p \in Procs, proc[p].lock = NoHart, proc[p].state # "RUNNING"
  PROVE  /\ \A h \in Harts : Me(h) # p
         /\ Parked(p, stack[KStack(p)], proc[p])
<1>1. ASSUME NEW h \in Harts, Me(h) = p PROVE FALSE
  <2>1. Fits(h, hart[h], stack[hart[h].sp], proc[p]) /\ hart[h].proc = p
    BY <1>1, Here
  <2>2. p # NoProc /\ h # NoHart
    BY StacksApart
  <2> QED
    BY <2>1, <2>2 DEF Fits, FitsUser, FitsKernel, Switching
<1> QED
  BY <1>1 DEF HartIInv, ProcsParked

\* scheduler() goes on where the process left its last hart, or in forkret().
LEMMA SchedulerPickStep ==
  ASSUME HartIInv, NEW h \in Harts, NEW p \in Procs, SchedulerPick(h, p) PROVE HartIInv'
<1> DEFINE r == hart[h]
           s == stack[KStack(p)]
           q == proc[p]
           c == [ra |-> "scheduler", sp |-> r.sp]
           a == Acquire(r)
           b == [a EXCEPT !.proc = p, !.satp = KernTable(p), !.ctx = c]
           r2 == Swtch(b, q.ctx)
           q2 == [q EXCEPT !.lock = h, !.state = "RUNNING"]
<1>1. /\ r.mode = "S" /\ r.code = "scheduler" /\ UNCHANGED <<stack, tickslock>>
      /\ q.state = "RUNNABLE" /\ q.lock = NoHart
  BY DEF SchedulerPick, At
<1>2. /\ Fits(h, r, stack[r.sp], proc[r.proc]) /\ DOMAIN r = HartFields /\ Me(h) = r.proc
      /\ DOMAIN q = ProcFields /\ q.ctx.sp = KStack(p) /\ q.ctx.ra \in {"forkret", "resumed"}
  BY Here DEF HartIInv, Shapes
<1>3. /\ r.proc = NoProc /\ r.noff = 0 /\ r.sie \in BOOLEAN /\ r.stvec = "kernelvec"
      /\ r.sp = BootStack(h) /\ r.tp = h
  BY <1>1, <1>2 DEF Fits, FitsKernel, FitsLocks, Switching, Ticking, StackOf
<1>4. /\ \A g \in Harts : Me(g) # p
      /\ Parked(p, s, q)
  BY <1>1, OnNoHart
<1>5. q.ctx.ra = "resumed" => Saved(p, s)
  BY <1>1, <1>4 DEF Parked
<1>6. hart' = [hart EXCEPT ![h] = r2]
  BY DEF SchedulerPick
<1>7. proc' = [proc EXCEPT ![p] = q2]
  <2>1. proc' = [proc EXCEPT ![p].lock = h, ![p].state = "RUNNING"]
    BY DEF SchedulerPick
  <2> QED
    BY <2>1 DEF HartIInv, Shapes
<1>8. /\ DOMAIN a = HartFields /\ a.noff = 1 /\ a.sie = FALSE /\ a.intena = r.sie
      /\ a.stvec = "kernelvec" /\ a.tp = h /\ a.mode = "S"
  BY <1>1, <1>2, <1>3, Fields DEF FieldNames, Acquire, PushOff
<1> HIDE DEF a, c
<1>9. /\ DOMAIN r2 = HartFields /\ r2.proc = p /\ r2.satp = KernTable(p) /\ r2.ctx = c
      /\ r2.sp = KStack(p) /\ r2.mode = "S" /\ r2.code = q.ctx.ra /\ r2.noff = 1
      /\ r2.sie = FALSE /\ r2.intena = r.sie /\ r2.stvec = "kernelvec" /\ r2.tp = h
  BY <1>2, <1>8, Fields DEF FieldNames, Swtch
<1>10. /\ DOMAIN q2 = ProcFields /\ q2.ctx = q.ctx /\ q2.state = "RUNNING" /\ q2.lock = h
  BY <1>2, Fields DEF FieldNames
<1>11. c = [ra |-> "scheduler", sp |-> BootStack(h)] /\ p # NoProc
  BY <1>3, StacksApart DEF c
<1> HIDE DEF r2, q2
<1>12. /\ proc' = [x \in Procs |-> proc'[x]] /\ proc'[p] = q2
       /\ \A x \in Procs : x # p => proc'[x] = proc[x]
  BY <1>7 DEF HartIInv, Shapes
<1>13. Shapes'
  <2>1. hart' = [g \in Harts |-> hart'[g]]
    BY <1>6 DEF HartIInv, Shapes
  <2>2. /\ stack' = [t \in Stacks |-> stack'[t]] /\ \A t \in Stacks : DOMAIN stack'[t] = StackFields
    BY <1>1 DEF HartIInv, Shapes
  <2>3. \A x \in Procs : /\ DOMAIN proc'[x] = ProcFields
                         /\ proc'[x].ctx.sp = KStack(x) /\ proc'[x].ctx.ra \in {"forkret", "resumed"}
    BY <1>2, <1>10, <1>12 DEF HartIInv, Shapes
  <2> QED
    BY <1>12, <2>1, <2>2, <2>3 DEF Shapes
<1>14. TicksFollow(h, r2)
  BY <1>1, <1>2, <1>9 DEF TicksFollow, InTicks, Ticking
<1>15. \A x \in Procs : x \notin {Me(h), r2.proc} => SameThread(proc[x], proc'[x])
  BY <1>9, <1>12 DEF SameThread
<1>16. Fits(h, r2, s, q2)
  <2> HIDE DEF q, s, r
  <2>1. FitsLocks(h, r2) /\ FitsStack(h, r2, s, q2)
    BY <1>2, <1>5, <1>9 DEF FitsLocks, FitsStack, Switching, Ticking, CallCode
  <2> QED
    BY <1>2, <1>3, <1>9, <1>10, <1>11, <2>1 DEF Fits, FitsKernel, StackOf, TableOf, Switching
<1>17. Me(h) = NoProc /\ r2.proc = p /\ stack'[r2.sp] = s /\ proc'[r2.proc] = q2
  BY <1>1, <1>2, <1>3, <1>9, <1>12
<1>18. \A g \in Harts \ {h} : Me(g) # r2.proc \/ r2.proc = NoProc
  BY <1>4, <1>17
<1>19. Fits(h, r2, stack'[r2.sp], proc'[r2.proc])
  BY <1>16, <1>17
<1>20. \A t \in Stacks : t # hart[h].sp => stack'[t] = stack[t]
  BY <1>1
<1>21. Me(h) \notin {NoProc, r2.proc} => Parked(Me(h), stack'[KStack(Me(h))], proc'[Me(h)])
  BY <1>17
<1> QED
  BY ONLY HartIInv, h \in Harts, <1>6, <1>13, <1>14, <1>15, <1>18, <1>19, <1>20, <1>21, HartTurns

\* The slot of a zombie that no hart runs any more is used again.
LEMMA SpawnStep ==
  ASSUME HartIInv, NEW p \in Procs, Spawn(p) PROVE HartIInv'
<1> DEFINE n == NewProc(p, proc[p].calls)
           q2 == [n EXCEPT !.alarm.cp = proc[p].alarm.cp]
<1>1. /\ proc[p].state = "ZOMBIE" /\ proc[p].lock = NoHart
      /\ proc' = [proc EXCEPT ![p] = q2] /\ stack' = [stack EXCEPT ![KStack(p)] = NewStack]
      /\ UNCHANGED <<hart, tickslock>>
  BY DEF Spawn
<1>2. \A h \in Harts : Me(h) # p /\ Me(h)' = Me(h)
  BY <1>1, OnNoHart DEF Me
<1>3. /\ DOMAIN n = ProcFields /\ n.ctx = [ra |-> "forkret", sp |-> KStack(p)]
      /\ n.state = "RUNNABLE" /\ n.lock = NoHart
  BY Fields DEF FieldNames, NewProc
<1> HIDE DEF n
<1>4. /\ DOMAIN q2 = ProcFields /\ q2.ctx = [ra |-> "forkret", sp |-> KStack(p)]
      /\ q2.state = "RUNNABLE" /\ q2.lock = NoHart
  BY <1>3, Fields DEF FieldNames
<1> HIDE DEF q2
<1>5. /\ proc' = [x \in Procs |-> proc'[x]] /\ proc'[p] = q2
      /\ \A x \in Procs : x # p => proc'[x] = proc[x]
  BY <1>1 DEF HartIInv, Shapes
<1>6. /\ stack' = [t \in Stacks |-> stack'[t]]
      /\ \A t \in Stacks : stack'[t] = IF t = KStack(p) THEN NewStack ELSE stack[t]
  BY <1>1, StacksApart DEF HartIInv, Shapes
<1>7. Shapes'
  <2>1. \A t \in Stacks : DOMAIN stack'[t] = StackFields
    BY <1>6 DEF HartIInv, Shapes, StackFields
  <2>2. \A x \in Procs : /\ DOMAIN proc'[x] = ProcFields
                         /\ proc'[x].ctx.sp = KStack(x) /\ proc'[x].ctx.ra \in {"forkret", "resumed"}
    BY <1>4, <1>5 DEF HartIInv, Shapes
  <2> QED
    BY <1>1, <1>5, <1>6, <2>1, <2>2 DEF HartIInv, Shapes
<1>8. OneHart' /\ TicksLocked'
  BY <1>1, <1>2 DEF HartIInv, OneHart, TicksLocked
<1>9. HartsFit'
  <2> SUFFICES ASSUME NEW h \in Harts
               PROVE  Fits(h, hart[h], stack'[hart[h].sp], proc'[hart[h].proc])
    BY <1>1 DEF HartsFit, Me
  <2>1. /\ Fits(h, hart[h], stack[hart[h].sp], proc[hart[h].proc])
        /\ hart[h].sp = StackOf(h, hart[h].proc) /\ hart[h].sp \in Stacks
        /\ hart[h].proc \in Procs \cup {NoProc} /\ hart[h].proc # p
    BY <1>2, Here
  <2>2. hart[h].sp # KStack(p)
    BY <2>1, StacksApart DEF StackOf
  <2>3. hart[h].proc # NoProc => SameThread(proc[hart[h].proc], proc'[hart[h].proc])
    BY <1>5, <2>1 DEF SameThread
  <2> QED
    BY <1>6, <2>1, <2>2, <2>3, FitsKept
<1>10. ProcsParked'
  <2> SUFFICES ASSUME NEW x \in Procs, \A h \in Harts : Me(h) # x
               PROVE  Parked(x, stack'[KStack(x)], proc'[x])
    BY <1>2 DEF ProcsParked
  <2>1. CASE x = p
    BY <1>4, <1>5, <2>1 DEF Parked
  <2>2. CASE x # p
    BY <1>5, <1>6, <2>2, StacksApart DEF HartIInv, ProcsParked
  <2> QED
    BY <2>1, <2>2
<1> QED
  BY <1>7, <1>8, <1>9, <1>10 DEF HartIInv

-----------------------------------------------------------------------------
(* The invariant holds *)

\* Every hart starts in scheduler(), and every process in forkret().
LEMMA InitIInv == Init => HartIInv
<1> SUFFICES ASSUME Init PROVE HartIInv
  OBVIOUS
<1>1. \A h \in Harts : hart[h] = BootHart(h)
  BY DEF Init
<1>2. \A t \in Stacks : stack[t] = NewStack
  BY DEF Init
<1>3. PICK f \in Programs : proc = [p \in Procs |-> NewProc(p, f[p])]
  BY DEF Init
<1>4. ASSUME NEW h \in Harts
      PROVE  /\ DOMAIN hart[h] = HartFields
             /\ hart[h].mode = "S" /\ hart[h].code = "scheduler" /\ hart[h].sp = BootStack(h)
             /\ hart[h].tp = h /\ hart[h].sie = FALSE /\ hart[h].stvec = "kernelvec"
             /\ hart[h].satp = KernelTable /\ hart[h].proc = NoProc /\ hart[h].noff = 0
             /\ hart[h].intena = FALSE /\ hart[h].ctx = [ra |-> "scheduler", sp |-> BootStack(h)]
  <2> DEFINE r == BootHart(h)
  <2>1. DOMAIN r = HartFields
    BY Fields DEF BootHart, FieldNames
  <2>2. /\ r.mode = "S" /\ r.code = "scheduler" /\ r.sp = BootStack(h)
        /\ r.tp = h /\ r.sie = FALSE /\ r.stvec = "kernelvec"
        /\ r.satp = KernelTable /\ r.proc = NoProc /\ r.noff = 0
        /\ r.intena = FALSE /\ r.ctx = [ra |-> "scheduler", sp |-> BootStack(h)]
    BY DEF BootHart
  <2> QED
    BY <1>1, <2>1, <2>2
<1>5. ASSUME NEW p \in Procs
      PROVE  /\ DOMAIN proc[p] = ProcFields
             /\ proc[p].ctx.ra = "forkret" /\ proc[p].ctx.sp = KStack(p)
             /\ proc[p].lock = NoHart /\ proc[p].state = "RUNNABLE"
  BY <1>3, Fields DEF NewProc, FieldNames
<1>6. Shapes
  <2>1. hart = [h \in Harts |-> hart[h]] /\ stack = [t \in Stacks |-> stack[t]]
    BY DEF Init
  <2>2. proc = [p \in Procs |-> proc[p]]
    BY <1>3
  <2>3. \A t \in Stacks : DOMAIN stack[t] = StackFields
    BY <1>2 DEF StackFields
  <2> QED
    BY <1>5, <2>1, <2>2, <2>3 DEF Shapes
<1>7. OneHart /\ TicksLocked
  BY <1>4, StacksApart DEF Init, OneHart, TicksLocked, InTicks, Ticking, Me
<1>8. HartsFit
  <2> SUFFICES ASSUME NEW h \in Harts, NEW s, NEW q PROVE Fits(h, hart[h], s, q)
    BY DEF HartsFit
  <2> QED
    BY <1>4 DEF Fits, FitsKernel, FitsLocks, FitsStack, StackOf, TableOf, Switching, Ticking,
       CallCode
<1>9. ProcsParked
  BY <1>5 DEF ProcsParked, Parked
<1> QED
  BY <1>6, <1>7, <1>8, <1>9 DEF HartIInv

\* What a user program and the interrupts do.
LEMMA HardwareStep ==
  ASSUME HartIInv, NEW h \in Harts, Hardware(h) PROVE HartIInv'
<1>1. CASE Interrupt(h)
  <2>1. PICK c \in {"timer", "ext"} : Vector(h, Taken(hart[h], c))
    BY <1>1 DEF Interrupt
  <2>2. CASE hart[h].mode = "U"
    BY <1>1, <2>1, <2>2, UservecStep DEF Interrupt
  <2>3. CASE hart[h].mode # "U"
    <3>1. hart[h].mode = "S"
      BY <2>3, Here DEF Fits
    <3> QED
      BY <1>1, <2>1, <3>1, KernelInterruptStep DEF Interrupt
  <2> QED
    BY <2>2, <2>3
<1>2. CASE Ecall(h)
  <2>1. PICK u, c : Vector(h, Taken([hart[h] EXCEPT !.u = u], c))
    BY <1>2 DEF Ecall
  <2> QED
    BY <1>2, <2>1, UservecStep DEF Ecall
<1>3. CASE UserFault(h)
  BY <1>3, UservecStep DEF UserFault
<1> QED
  BY <1>1, <1>2, <1>3, UserJumpStep DEF Hardware

\* What the code of the kernel does.
LEMMA KernelActionStep ==
  ASSUME HartIInv, NEW h \in Harts, Kernel(h) PROVE HartIInv'
<1>1. CASE Usertrap(h) \/ UsertrapTail(h) \/ UsertrapretOff(h) \/ Userret(h) \/ KerneltrapTail(h)
  BY <1>1, UsertrapStep, UsertrapTailStep, UsertrapretOffStep, UserretStep, KerneltrapTailStep
<1>2. CASE Devintr(h) \/ ClockTick(h) \/ ClockWake(h)
  BY <1>2, DevintrStep, ClockTickStep, ClockWakeStep
<1>3. CASE Syscall(h) \/ WorkDone(h) \/ SleepAcquire(h) \/ SleepCheck(h) \/ SleepReturn(h)
  BY <1>3, SyscallStep, WorkDoneStep, SleepAcquireStep, SleepCheckStep, SleepReturnStep
<1>4. CASE SleepIn(h) \/ Yield(h) \/ Exit(h) \/ Sched(h)
  BY <1>4, SleepInStep, YieldStep, ExitStep, SchedStep
<1>5. CASE SchedulerLoop(h) \/ Resumed(h) \/ Forkret(h)
  BY <1>5, SchedulerLoopStep, ResumedStep, ForkretStep
<1>6. CASE \E p \in Procs : SchedulerPick(h, p) \/ Kill(h, p)
  BY <1>6, SchedulerPickStep, KillStep
<1> QED
  BY <1>1, <1>2, <1>3, <1>4, <1>5, <1>6 DEF Kernel

\* The place of every hart in the code decides its stack, its page table, its
\* tp, its interrupt enable and its locks, through every trap, swtch() and
\* return to user space, and a process that has left its hart has saved what
\* it needs to go on, on any hart.
THEOREM TrapInvariant == Spec => []HartIInv
<1>1. HartIInv /\ [Next]_vars => HartIInv'
  <2> SUFFICES ASSUME HartIInv, [Next]_vars PROVE HartIInv'
    OBVIOUS
  <2>1. ASSUME NEW h \in Harts, Hardware(h) \/ Kernel(h) PROVE HartIInv'
    BY <2>1, HardwareStep, KernelActionStep
  <2>2. ASSUME NEW p \in Procs, Spawn(p) PROVE HartIInv'
    BY <2>2, SpawnStep
  <2>3. CASE UNCHANGED vars
    BY <2>3 DEF vars, HartIInv, Shapes, OneHart, HartsFit, ProcsParked, TicksLocked, Me
  <2> QED
    BY <2>1, <2>2, <2>3 DEF Next
<1> QED
  BY <1>1, InitIInv, PTL DEF Spec

\* The locks a hart holds are the one its place in the code says: p->lock of
\* its process in sched() and behind swtch(), tickslock in clockintr() and
\* sys_sleep(), none elsewhere.
LEMMA LocksAre ==
  ASSUME HartIInv, NEW h \in Harts
  PROVE  /\ hart[h].mode = "S" /\ hart[h].code \in Switching => Locks(h) = {hart[h].proc}
         /\ hart[h].mode = "S" /\ hart[h].code \in Ticking => Locks(h) = {NoProc}
         /\ hart[h].mode = "U" \/ hart[h].code \notin Switching \cup Ticking => Locks(h) = {}
<1> DEFINE r == hart[h]
           q == proc[r.proc]
<1>1. /\ Fits(h, r, stack[r.sp], q) /\ Me(h) = r.proc /\ r.proc \in Procs \cup {NoProc}
      /\ NoProc \notin Procs /\ h # NoHart
  BY Here
<1>2. ASSUME NEW p \in Procs, proc[p].lock = h PROVE p = r.proc
  <2>1. ASSUME \A g \in Harts : Me(g) # p PROVE FALSE
    BY <1>1, <1>2, <2>1 DEF HartIInv, ProcsParked, Parked
  <2>2. PICK g \in Harts : Me(g) = p
    BY <2>1
  <2>3. Fits(g, hart[g], stack[hart[g].sp], proc[p]) /\ hart[g].proc = p
    BY <2>2, Here
  <2>4. g = h
    BY <1>1, <1>2, <2>3 DEF Fits, FitsUser, FitsKernel
  <2> QED
    BY <2>3, <2>4
<1>3. tickslock = h <=> r.mode = "S" /\ r.code \in Ticking
  BY DEF HartIInv, TicksLocked, InTicks
<1>4. ASSUME r.proc # NoProc
      PROVE  q.lock = h <=> r.mode = "S" /\ r.code \in Switching
  <2> HIDE DEF r, q
  <2> QED
    BY <1>1, <1>4 DEF Fits, FitsUser, FitsKernel
<1>5. r.mode = "S" /\ r.code \in Switching => r.proc # NoProc
  BY <1>1 DEF Fits, FitsKernel, Switching
<1>6. Switching \cap Ticking = {}
  BY DEF Switching, Ticking
<1> QED
  BY <1>1, <1>2, <1>3, <1>4, <1>5, <1>6 DEF Locks

\* What HartInv says of one hart.
LEMMA HartHolds ==
  ASSUME HartIInv, NEW h \in Harts
  PROVE  LET r == hart[h] IN
         /\ At(h, "usertrap") => r.spp = "U"
         /\ At(h, "devintr") /\ stack[r.sp].caller = "kerneltrap" => stack[r.sp].frame.spp = "S"
         /\ At(h, "devintr") => tickslock # h
         /\ At(h, "yield") => proc[r.proc].lock # h
         /\ At(h, "sched") => /\ Locks(h) = {r.proc} /\ r.noff = 1 /\ ~ r.sie
                              /\ proc[r.proc].state # "RUNNING"
         /\ r.mode = "S" /\ r.code \in {"resumed", "forkret", "clock_wake", "sleep_check"}
              => ~ r.sie /\ r.noff = 1
         /\ r.mode = "S" => r.tp = h
         /\ r.noff = Cardinality(Locks(h))
         /\ r.mode = "S" /\ r.sie => r.noff = 0
         /\ r.mode = "U" => r.stvec = "uservec" /\ r.satp = UserTable(r.proc)
         /\ r.mode = "S" /\ r.proc = NoProc => r.satp = KernelTable /\ r.sp = BootStack(h)
         /\ r.mode = "S" /\ r.proc # NoProc => r.satp = KernTable(r.proc) /\ r.sp = KStack(r.proc)
<1> DEFINE r == hart[h]
           s == stack[r.sp]
           q == proc[r.proc]
<1>1. /\ Fits(h, r, s, q) /\ h # NoHart
  BY Here
<1>2. tickslock = h <=> r.mode = "S" /\ r.code \in Ticking
  BY DEF HartIInv, TicksLocked, InTicks
<1>3. /\ r.mode = "S" /\ r.code \in Switching => Locks(h) = {r.proc}
      /\ r.mode = "S" /\ r.code \in Ticking => Locks(h) = {NoProc}
      /\ r.mode = "U" \/ r.code \notin Switching \cup Ticking => Locks(h) = {}
  BY LocksAre
<1>4. r.noff = Cardinality(Locks(h))
  <2>1. /\ r.mode = "S" /\ r.code \in Switching \cup Ticking => r.noff = 1
        /\ r.mode = "U" \/ r.code \notin Switching \cup Ticking => r.noff = 0
        /\ r.mode \in {"U", "S"}
    <3> HIDE DEF r, s, q
    <3> QED
      BY <1>1 DEF Fits, FitsUser, FitsKernel, FitsLocks
  <2>2. CASE r.mode = "S" /\ r.code \in Switching \cup Ticking
    <3>1. \E x : Locks(h) = {x}
      BY <1>3, <2>2
    <3> QED
      BY <2>1, <2>2, <3>1, FS_Singleton
  <2>3. CASE r.mode = "U" \/ r.code \notin Switching \cup Ticking
    BY <1>3, <2>1, <2>3, FS_EmptySet
  <2> QED
    BY <2>1, <2>2, <2>3
<1>5. At(h, "sched") => Locks(h) = {r.proc}
  BY <1>3 DEF At, Switching
<1>6. At(h, "devintr") => tickslock # h
  BY <1>2 DEF At, Ticking
<1>7. At(h, "yield") => q.lock # h
  BY <1>1 DEF At, Fits, FitsKernel, Switching
<1>8. /\ At(h, "usertrap") => r.spp = "U"
      /\ At(h, "devintr") /\ s.caller = "kerneltrap" => s.frame.spp = "S"
  BY <1>1 DEF At, Fits, FitsKernel, FitsStack, Framed
<1>9. /\ At(h, "sched") => r.noff = 1 /\ ~ r.sie /\ q.state # "RUNNING"
      /\ r.mode = "S" /\ r.code \in {"resumed", "forkret", "clock_wake", "sleep_check"}
           => ~ r.sie /\ r.noff = 1
      /\ r.mode = "S" /\ r.sie => r.noff = 0
  BY <1>1 DEF At, Fits, FitsKernel, FitsLocks, Switching, Ticking, Open, CallCode
<1>10. /\ r.mode = "S" => r.tp = h
       /\ r.mode = "U" => r.stvec = "uservec" /\ r.satp = UserTable(r.proc)
       /\ r.mode = "S" /\ r.proc = NoProc => r.satp = KernelTable /\ r.sp = BootStack(h)
       /\ r.mode = "S" /\ r.proc # NoProc => r.satp = KernTable(r.proc) /\ r.sp = KStack(r.proc)
  BY <1>1 DEF Fits, FitsUser, FitsKernel, StackOf, TableOf
<1> QED
  BY <1>4, <1>5, <1>6, <1>7, <1>8, <1>9, <1>10

\* A hart in the kernel is where it believes to be: tp is its own number, the
\* stack and the page table are those of its process or its scheduler, noff is
\* the number of its locks, interrupts are enabled only without one, and no
\* panic of usertrap(), kerneltrap(), acquire(), release() and sched() fires.
THEOREM TrapHart == Spec => []HartInv
<1>1. HartIInv => HartInv
  <2> SUFFICES ASSUME HartIInv PROVE HartInv
    OBVIOUS
  <2>1. TrapNoPanic
    BY HartHolds DEF TrapNoPanic
  <2> QED
    BY <2>1, HartHolds DEF HartInv
<1> QED
  BY <1>1, TrapInvariant, PTL

\* Kernel code that an interrupt took the hart from is resumed as it was left:
\* a system call with interrupts enabled, the inside of a trap with interrupts
\* disabled, and kernelvec's frame leads back to code that may be interrupted.
THEOREM TrapResumes == Spec => []KernelResumes
<1>1. ASSUME HartIInv, NEW h \in Harts
      PROVE  LET r == hart[h] IN
             /\ r.mode = "S" /\ r.code \in CallCode => r.sie
             /\ r.mode = "S" /\ r.code \in TrapCode => ~ r.sie
             /\ At(h, "kt_tail") => stack[r.sp].frame.spp = "S" /\ stack[r.sp].frame.spie
                                      /\ stack[r.sp].frame.code \notin TrapCode \cup {"none"}
             /\ r.mode = "U" => r.code = "user"
  <2> DEFINE r == hart[h]
             s == stack[r.sp]
             q == proc[r.proc]
  <2>1. Fits(h, r, s, q)
    BY <1>1, Here
  <2>2. /\ r.mode = "S" /\ r.code \in CallCode => r.sie
        /\ r.mode = "S" /\ r.code \in TrapCode => ~ r.sie
        /\ r.mode = "U" => r.code = "user"
    BY <2>1 DEF Fits, FitsUser, FitsKernel, FitsLocks, TrapCode, Open, CallCode
  <2>3. At(h, "kt_tail") => Framed(s.frame, r.sp, Open \cup {"scheduler"})
    BY <2>1 DEF At, Fits, FitsKernel, FitsStack, Framed
  <2>4. Open \cup {"scheduler"}
          \subseteq {l \in Open \cup {"scheduler"} : l \notin TrapCode \cup {"none"}}
    BY DEF Open, CallCode, TrapCode
  <2> QED
    BY <2>2, <2>3, <2>4 DEF Framed
<1>2. HartIInv => KernelResumes
  BY <1>1 DEF KernelResumes
<1> QED
  BY <1>2, TrapInvariant, PTL

-----------------------------------------------------------------------------
(***************************************************************************)
(* The inductive invariant, second part: what the trapframe, the copy of   *)
(* it and the sleeper's variables hold, by the place where the thread of a *)
(* process is.  An interrupted thread is at the place its frame leads to,  *)
(* one that has left its hart at the place sched() returns to.             *)
(***************************************************************************)
Names == {"sigalarm", "sigreturn", "sleep", "work", "exit", "bad", "fault", "none"}
Regs == [pc : Nat, a0 : Nat, a7 : Names, x : Nat]
Alarms == [interval : Nat, ticks : Nat, state : {0, 1}, cp : Regs]
Whys == {"fork", "intr", "call", "alarm", "sigreturn", "bare", "ran"}
Views == [why : Whys, cont : Regs, orig : Regs, slept : 0..TickMod]

\* The loop of sys_sleep(), and all of the code that runs a system call.
Loop == {"sleep_again", "sleep_check", "sleep_in", "sleep_over", "sleep_killed"}
CallPlaces == CallCode \cup Loop

\* Where sched() returns to, and where the thread of a process is.
Back(s) == IF s.caller = "sleep" THEN "sleep_again" ELSE "usertrapret"
Place(r, s, q) ==
  IF r.mode = "U" THEN "user"
  ELSE IF q.state = "ZOMBIE" THEN "exit"
  ELSE IF s.frame.code # "none" THEN s.frame.code
  ELSE IF r.code \in {"sched", "resumed"} THEN Back(s) ELSE r.code
ParkedPlace(s, q) ==
  IF q.state = "ZOMBIE" THEN "exit"
  ELSE IF s.frame.code # "none" THEN s.frame.code
  ELSE IF q.ctx.ra = "forkret" THEN "forkret" ELSE Back(s)

\* Registers t are what the program may expect.
Rest(t, u) == t.a7 = u.a7 /\ t.x = u.x
Match(t, w) ==
  /\ w.why \in {"intr", "fork"} => t.pc = w.cont.pc /\ t.a0 = w.cont.a0 /\ Rest(t, w.cont)
  /\ w.why = "call" => t.pc = w.cont.pc + 1 /\ Rest(t, w.cont)
  /\ w.why = "alarm" => /\ t.pc = HandlerPc /\ w.cont.pc < HandlerPc
                        /\ t.a0 = w.cont.a0 /\ Rest(t, w.cont)
  /\ w.why = "sigreturn" => t.pc = w.orig.pc /\ Rest(t, w.orig)

\* The handler runs, or the program is where the handler may interrupt it.
Below(pc, a) == a.state = 0 => pc < HandlerPc

\* A thread at place l, on its way to user space with the registers q.tf.
Returns(l, q, w) ==
  /\ l \notin {"user", "usertrap", "exit"} => Match(q.tf, w) /\ Below(q.tf.pc, q.alarm)
  /\ l \in {"devintr", "clock_wake", "tail_timer"} => w.why = "intr"
  /\ l \in CallPlaces => w.why = "call"

\* A thread in sys_sleep(): the ticks it has seen are those since ticks0.
Counts(l, s, w, n) ==
  /\ l \in Loop /\ s.n # 0 /\ w.slept < TickMod => w.slept = (n - s.ticks0) % TickMod
  /\ l = "sleep_in" => (n - s.ticks0) % TickMod < s.n
  /\ l = "sleep_over" => w.slept >= s.n

\* The registers of a hart in user space, and on entry to the kernel.
UserRegs(r, q, w) ==
  /\ r.mode = "U" => r.u \in Regs /\ Match(r.u, w) /\ Below(r.u.pc, q.alarm)
  /\ r.mode = "S" /\ r.code = "usertrap" =>
       /\ r.sepc \in Nat /\ Below(r.sepc, q.alarm)
       /\ r.cause \in {"timer", "ext", "ecall"} =>
            r.sepc = w.cont.pc /\ q.tf.a0 = w.cont.a0 /\ Rest(q.tf, w.cont)
       /\ r.cause \in {"timer", "ext"} => w.why = "intr"
       /\ r.cause = "ecall" => w.why = "call" /\ r.sepc \in {0, HandlerPc}

\* A frame is on the stack from kernelvec to the end of kerneltrap().
InTrap == {"devintr", "clock_wake", "yield", "sched", "resumed", "kt_tail"}
FrameFits(r, s) ==
  /\ r.mode = "U" \/ r.code \notin InTrap => s.frame.code = "none"
  /\ s.frame.code # "none" /\ r.code # "kt_tail" => s.caller = "kerneltrap"

\* What the process table, the stacks and the observer may hold.
Typed(s, q, w) ==
  /\ q.tf \in Regs /\ q.alarm \in Alarms /\ w \in Views
  /\ q.alarm.cp.pc < HandlerPc /\ (q.alarm.state = 1 => q.alarm.cp = w.orig)
  /\ \A c \in q.calls : c[1] \in Names /\ c[2] \in Nat
  /\ s.n \in Nat /\ s.ticks0 \in 0..(TickMod - 1)

OnHart(r, s, q, w, n) ==
  LET l == Place(r, s, q) IN
  FrameFits(r, s) /\ UserRegs(r, q, w) /\ Returns(l, q, w) /\ Counts(l, s, w, n)
OffHart(s, q, w, n) ==
  LET l == ParkedPlace(s, q) IN
  /\ s.frame.code # "none" => s.caller = "kerneltrap" /\ q.ctx.ra = "resumed"
  /\ Returns(l, q, w) /\ Counts(l, s, w, n)

Types ==
  /\ ticks \in 0..(TickMod - 1) /\ seen = [p \in Procs |-> seen[p]]
  /\ \A p \in Procs : Typed(stack[KStack(p)], proc[p], seen[p])
OnHarts == \A h \in Harts : Me(h) # NoProc =>
  OnHart(hart[h], stack[hart[h].sp], proc[Me(h)], seen[Me(h)], ticks)
OffHarts == \A p \in Procs : (\A h \in Harts : Me(h) # p) =>
  OffHart(stack[KStack(p)], proc[p], seen[p], ticks)

\* The time of a sleeper is over: by the test of sys_sleep(), or by the ticks it has
\* seen, up to the first time ticks has gone all the way round.
Overdue(s, w, n) ==
  ~ (n - s.ticks0) % TickMod < s.n \/ w.slept \in s.n..(TickMod - 1)

\* A sleeper whose time is over is about to be woken.
Due == \A p \in Procs :
  proc[p].state = "SLEEPING" /\ Overdue(stack[KStack(p)], seen[p], ticks)
    => \E h \in Harts : At(h, "clock_wake")

ThreadIInv == Types /\ OnHarts /\ OffHarts /\ Due

-----------------------------------------------------------------------------
(* A step of one hart *)

\* Nothing of q that its thread depends on differs in q2.
SameUser(q, q2) ==
  /\ q2.tf = q.tf /\ q2.alarm = q.alarm /\ q2.calls = q.calls /\ q2.ctx = q.ctx
  /\ q2.state = "ZOMBIE" <=> q.state = "ZOMBIE"
  /\ q2.state = "SLEEPING" => q.state = "SLEEPING"

\* What a step of hart h does to the threads of others: nothing.
OthersAlone(h) ==
  /\ \A g \in Harts \ {h} : hart'[g] = hart[g]
  /\ \A t \in Stacks : t # hart[h].sp => stack'[t] = stack[t]
  /\ \A p \in Procs : p # Me(h) => SameUser(proc[p], proc'[p]) /\ seen'[p] = seen[p]
  /\ seen' = [p \in Procs |-> seen'[p]] /\ ticks' = ticks

\* What a thread depends on is where the process is, and its own.
LEMMA ThreadKept ==
  ASSUME NEW s, NEW q, NEW q2, NEW w, NEW n, SameUser(q, q2)
  PROVE  /\ Typed(s, q, w) => Typed(s, q2, w)
         /\ OffHart(s, q, w, n) => OffHart(s, q2, w, n)
         /\ \A r : OnHart(r, s, q, w, n) => OnHart(r, s, q2, w, n)
<1>1. Typed(s, q, w) => Typed(s, q2, w)
  BY DEF Typed, SameUser
<1>2. ParkedPlace(s, q2) = ParkedPlace(s, q) /\ \A r : Place(r, s, q2) = Place(r, s, q)
  BY DEF ParkedPlace, Place, SameUser
<1>3. \A l : Returns(l, q, w) => Returns(l, q2, w)
  BY DEF Returns, SameUser
<1>4. \A r : UserRegs(r, q, w) => UserRegs(r, q2, w)
  BY DEF UserRegs, SameUser
<1> QED
  BY <1>1, <1>2, <1>3, <1>4 DEF OffHart, OnHart, SameUser

\* A step of hart h keeps the invariant if it does for the threads that run on it
\* before and after.
LEMMA ThreadMoves ==
  ASSUME HartIInv, HartIInv', ThreadIInv, NEW h \in Harts, OthersAlone(h),
         ~ At(h, "clock_wake") \/ \A p \in Procs : proc'[p].state # "SLEEPING",
         Me(h) # NoProc =>
           /\ Typed(stack'[KStack(Me(h))], proc'[Me(h)], seen'[Me(h)])
           /\ /\ proc'[Me(h)].state = "SLEEPING"
              /\ Overdue(stack'[KStack(Me(h))], seen'[Me(h)], ticks)
              => \E g \in Harts : At(g, "clock_wake")
           /\ hart'[h].proc # Me(h) =>
                OffHart(stack'[KStack(Me(h))], proc'[Me(h)], seen'[Me(h)], ticks),
         hart'[h].proc # NoProc =>
           OnHart(hart'[h], stack'[hart'[h].sp], proc'[hart'[h].proc], seen'[hart'[h].proc], ticks)
  PROVE  ThreadIInv'
<1>1. \A g \in Harts \ {h} : Me(g)' = Me(g) /\ hart'[g] = hart[g]
  BY DEF OthersAlone, Me
<1>2. hart[h].sp = StackOf(h, Me(h)) /\ Me(h) \in Procs \cup {NoProc}
  BY Here
<1>3. ASSUME NEW p \in Procs, p # Me(h)
      PROVE  /\ KStack(p) \in Stacks /\ stack'[KStack(p)] = stack[KStack(p)]
             /\ SameUser(proc[p], proc'[p]) /\ seen'[p] = seen[p]
  <2>1. KStack(p) \in Stacks /\ KStack(p) # hart[h].sp
    BY <1>2, <1>3, StacksApart DEF StackOf
  <2> QED
    BY <1>3, <2>1 DEF OthersAlone
<1>4. Types'
  <2>1. \A p \in Procs : Typed(stack'[KStack(p)], proc'[p], seen'[p])
    <3> SUFFICES ASSUME NEW p \in Procs PROVE Typed(stack'[KStack(p)], proc'[p], seen'[p])
      OBVIOUS
    <3>1. CASE p = Me(h)
      BY <3>1, StacksApart
    <3>2. CASE p # Me(h)
      BY <1>3, <3>2, ThreadKept DEF ThreadIInv, Types
    <3> QED
      BY <3>1, <3>2
  <2> QED
    BY <2>1 DEF ThreadIInv, Types, OthersAlone
<1>5. OnHarts'
  <2> SUFFICES ASSUME NEW g \in Harts, hart'[g].proc # NoProc
               PROVE  OnHart(hart'[g], stack'[hart'[g].sp], proc'[hart'[g].proc],
                             seen'[hart'[g].proc], ticks)
    BY DEF OnHarts, Me, OthersAlone
  <2>1. CASE g = h
    BY <2>1
  <2>2. CASE g # h
    <3>1. /\ hart'[g] = hart[g] /\ Me(g) = hart[g].proc /\ Me(g) \in Procs /\ Me(g) # Me(h)
          /\ hart[g].sp = KStack(Me(g))
      BY <1>1, <2>2, Here DEF HartIInv, OneHart, StackOf
    <3>2. OnHart(hart[g], stack[hart[g].sp], proc[Me(g)], seen[Me(g)], ticks)
      BY <2>2, <3>1, StacksApart DEF ThreadIInv, OnHarts
    <3>3. /\ stack'[hart[g].sp] = stack[hart[g].sp] /\ seen'[Me(g)] = seen[Me(g)]
          /\ SameUser(proc[Me(g)], proc'[Me(g)])
      BY <1>3, <3>1
    <3>4. OnHart(hart[g], stack[hart[g].sp], proc'[Me(g)], seen[Me(g)], ticks)
      BY <3>2, <3>3, ThreadKept
    <3> QED
      BY <3>1, <3>3, <3>4
  <2> QED
    BY <2>1, <2>2
<1>6. OffHarts'
  <2> SUFFICES ASSUME NEW p \in Procs, \A g \in Harts : Me(g)' # p
               PROVE  OffHart(stack'[KStack(p)], proc'[p], seen'[p], ticks)
    BY DEF OffHarts, OthersAlone
  <2>1. CASE p = Me(h)
    BY <2>1, StacksApart DEF Me
  <2>2. CASE p # Me(h)
    <3>1. \A g \in Harts : Me(g) # p
      BY <1>1, <2>2
    <3> QED
      BY <1>3, <2>2, <3>1, ThreadKept DEF ThreadIInv, OffHarts
  <2> QED
    BY <2>1, <2>2
<1>7. Due'
  <2> SUFFICES ASSUME NEW p \in Procs, proc'[p].state = "SLEEPING",
                      Overdue(stack'[KStack(p)], seen'[p], ticks)
               PROVE  \E g \in Harts : At(g, "clock_wake")'
    BY DEF Due, OthersAlone
  <2>1. ~ At(h, "clock_wake")
    OBVIOUS
  <2>2. CASE p = Me(h)
    BY <1>1, <2>1, <2>2, StacksApart DEF At
  <2>3. CASE p # Me(h)
    <3>1. PICK g \in Harts : At(g, "clock_wake")
      BY <1>3, <2>3 DEF ThreadIInv, Due, SameUser
    <3> QED
      BY <1>1, <2>1, <3>1 DEF At
  <2> QED
    BY <2>2, <2>3
<1> QED
  BY <1>4, <1>5, <1>6, <1>7 DEF ThreadIInv

\* What the invariant says of the thread on a hart.
LEMMA ThreadHere ==
  ASSUME HartIInv, ThreadIInv, NEW h \in Harts, hart[h].proc # NoProc
  PROVE  /\ Typed(stack[hart[h].sp], proc[hart[h].proc], seen[hart[h].proc])
         /\ OnHart(hart[h], stack[hart[h].sp], proc[hart[h].proc], seen[hart[h].proc], ticks)
         /\ ticks \in 0..(TickMod - 1) /\ hart[h].sp = KStack(hart[h].proc)
         /\ hart[h].proc \in Procs /\ Me(h) = hart[h].proc
<1>1. /\ hart[h].sp = StackOf(h, hart[h].proc) /\ hart[h].proc \in Procs
      /\ Me(h) = hart[h].proc /\ NoProc \notin Procs
  BY Here
<1>2. hart[h].sp = KStack(hart[h].proc)
  BY <1>1 DEF StackOf
<1> QED
  BY <1>1, <1>2 DEF ThreadIInv, Types, OnHarts

\* A step that changes what the observer notes of the process of hart h to w2.
SeenTo(h, w2) == seen' = [seen EXCEPT ![Me(h)] = w2]

\* A step of a thread that stays on its hart keeps the invariant if its new state
\* fits.
LEMMA ThreadStep ==
  ASSUME HartIInv, HartIInv', ThreadIInv, NEW h \in Harts, hart[h].proc # NoProc,
         NEW r2, NEW s2, NEW q2, NEW w2,
         hart' = [hart EXCEPT ![h] = r2], StackTo(h, s2), ProcTo(h, q2), SeenTo(h, w2),
         UNCHANGED ticks, ~ At(h, "clock_wake"), r2.proc = hart[h].proc,
         Typed(s2, q2, w2), OnHart(r2, s2, q2, w2, ticks),
         q2.state = "SLEEPING" => ~ Overdue(s2, w2, ticks)
  PROVE  ThreadIInv'
<1>1. /\ hart[h].proc \in Procs /\ Me(h) = hart[h].proc /\ hart[h].sp = KStack(Me(h))
      /\ Me(h) # NoProc
  BY ThreadHere
<1>2. hart'[h] = r2 /\ \A g \in Harts \ {h} : hart'[g] = hart[g]
  BY DEF HartIInv, Shapes
<1>3. OthersKept(h) /\ stack'[hart[h].sp] = s2 /\ proc'[Me(h)] = q2
  BY <1>1, OthersStay
<1>4. /\ seen' = [p \in Procs |-> seen'[p]] /\ seen'[Me(h)] = w2
      /\ \A p \in Procs : p # Me(h) => seen'[p] = seen[p]
  BY <1>1 DEF SeenTo, ThreadIInv, Types
<1>5. \A p \in Procs : p # Me(h) => proc'[p] = proc[p]
  BY <1>1 DEF ProcTo, HartIInv, Shapes
<1>6. OthersAlone(h)
  BY <1>2, <1>3, <1>4, <1>5 DEF OthersAlone, OthersKept, SameUser
<1>7. hart'[h].sp = KStack(Me(h)) /\ hart'[h].proc = Me(h)
  <2>1. hart'[h].sp = StackOf(h, hart'[h].proc)
    BY DEF HartIInv, HartsFit, Fits
  <2> QED
    BY <1>1, <1>2, <2>1 DEF StackOf
<1> QED
  BY <1>1, <1>2, <1>3, <1>4, <1>6, <1>7, ThreadMoves

\* A thread may go from place l to place l2 without a change of its own.
Leads(l, l2) ==
  /\ l2 \notin {"user", "usertrap", "sleep_in", "sleep_over"}
  /\ l2 # "exit" => l \notin {"user", "usertrap", "exit"}
  /\ l2 \in {"devintr", "clock_wake", "tail_timer"} => l \in {"devintr", "clock_wake", "tail_timer"}
  /\ l2 \in CallPlaces => l \in CallPlaces
  /\ l2 \in Loop => l \in Loop

\* A thread that changes its place only still fits.
LEMMA PlainFits ==
  ASSUME NEW r, NEW s, NEW q, NEW w, NEW n, NEW r2, NEW s2, NEW q2,
         Typed(s, q, w), OnHart(r, s, q, w, n),
         r2.mode = "S", r2.code # "usertrap", FrameFits(r2, s2),
         s2.n = s.n, s2.ticks0 = s.ticks0,
         q2.tf = q.tf, q2.alarm = q.alarm, q2.calls = q.calls,
         Place(r2, s2, q2) = Place(r, s, q) \/ Leads(Place(r, s, q), Place(r2, s2, q2))
  PROVE  Typed(s2, q2, w) /\ OnHart(r2, s2, q2, w, n)
<1> DEFINE l == Place(r, s, q)
           l2 == Place(r2, s2, q2)
<1>1. l2 = l \/ Leads(l, l2)
  OBVIOUS
<1>2. Typed(s2, q2, w)
  BY DEF Typed
<1>3. Returns(l, q, w) /\ Counts(l, s, w, n)
  BY DEF OnHart
<1> HIDE DEF l, l2
<1>4. Returns(l2, q2, w)
  BY <1>1, <1>3 DEF Returns, Leads
<1>5. Counts(l2, s2, w, n)
  BY <1>1, <1>3 DEF Counts, Leads
<1> QED
  BY <1>2, <1>4, <1>5 DEF OnHart, UserRegs, l2

\* A step of a thread that changes its place only.
LEMMA PlainStep ==
  ASSUME HartIInv, HartIInv', ThreadIInv, NEW h \in Harts, hart[h].proc # NoProc,
         NEW r2, NEW s2, NEW q2,
         hart' = [hart EXCEPT ![h] = r2], StackTo(h, s2), ProcTo(h, q2),
         UNCHANGED <<seen, ticks>>, ~ At(h, "clock_wake"), r2.proc = hart[h].proc,
         r2.mode = "S", r2.code # "usertrap", FrameFits(r2, s2),
         s2.n = stack[hart[h].sp].n, s2.ticks0 = stack[hart[h].sp].ticks0,
         q2.tf = proc[hart[h].proc].tf, q2.alarm = proc[hart[h].proc].alarm,
         q2.calls = proc[hart[h].proc].calls, q2.state # "SLEEPING",
         LET l == Place(hart[h], stack[hart[h].sp], proc[hart[h].proc])
             l2 == Place(r2, s2, q2)
         IN l2 = l \/ Leads(l, l2)
  PROVE  ThreadIInv'
<1> DEFINE r == hart[h]
           s == stack[r.sp]
           q == proc[r.proc]
           w == seen[r.proc]
<1>1. /\ Typed(s, q, w) /\ OnHart(r, s, q, w, ticks) /\ r.proc \in Procs /\ Me(h) = r.proc
  BY ThreadHere
<1>2. SeenTo(h, w)
  BY <1>1 DEF SeenTo, ThreadIInv, Types
<1>3. Typed(s2, q2, w) /\ OnHart(r2, s2, q2, w, ticks)
  BY <1>1, PlainFits
<1> QED
  BY <1>1, <1>2, <1>3, ThreadStep

\* The variables are functions.
LEMMA Functions ==
  ASSUME HartIInv
  PROVE  /\ hart = [h \in Harts |-> hart[h]] /\ stack = [t \in Stacks |-> stack[t]]
         /\ proc = [p \in Procs |-> proc[p]]
  BY DEF HartIInv, Shapes

\* A step of a hart without a process.
LEMMA IdleStep ==
  ASSUME HartIInv, HartIInv', ThreadIInv, NEW h \in Harts, hart[h].proc = NoProc, NEW r2, NEW s2,
         hart' = [hart EXCEPT ![h] = r2], r2.proc = NoProc, StackTo(h, s2),
         UNCHANGED <<proc, seen, ticks>>, ~ At(h, "clock_wake")
  PROVE  ThreadIInv'
<1>1. Me(h) = NoProc
  BY DEF Me
<1>2. hart'[h] = r2 /\ \A g \in Harts \ {h} : hart'[g] = hart[g]
  BY DEF HartIInv, Shapes
<1>3. ProcTo(h, proc[Me(h)])
  BY Unchanged
<1>4. OthersKept(h)
  BY <1>3, OthersStay
<1>5. OthersAlone(h)
  BY <1>2, <1>4 DEF OthersAlone, OthersKept, SameUser, ThreadIInv, Types
<1> QED
  BY <1>1, <1>2, <1>5, ThreadMoves

\* A thread outside of traps and of sched() is at the place the hart is.
LEMMA PlaceHere ==
  ASSUME HartIInv, ThreadIInv, NEW h \in Harts, hart[h].mode = "S",
         hart[h].code \notin InTrap \cup {"scheduler"}
  PROVE  /\ hart[h].proc # NoProc /\ stack[hart[h].sp].frame.code = "none"
         /\ Place(hart[h], stack[hart[h].sp], proc[hart[h].proc]) = hart[h].code
         /\ proc[hart[h].proc].state = "RUNNING" /\ ~ At(h, "clock_wake")
<1> DEFINE r == hart[h]
           s == stack[r.sp]
           q == proc[r.proc]
<1>1. r.proc # NoProc
  BY InProc DEF InTrap
<1>2. Fits(h, r, s, q) /\ FrameFits(r, s)
  BY <1>1, Here, ThreadHere DEF OnHart
<1> HIDE DEF s, q
<1>3. s.frame.code = "none" /\ q.state = "RUNNING"
  BY <1>1, <1>2 DEF FrameFits, Fits, FitsKernel, InTrap
<1>4. Place(r, s, q) = r.code
  BY <1>3 DEF Place, InTrap
<1> QED
  BY <1>1, <1>3, <1>4 DEF At, InTrap, s, q

\* Such a thread goes to another place of that kind.
LEMMA GotoThread ==
  ASSUME HartIInv, HartIInv', ThreadIInv, NEW h \in Harts, hart[h].mode = "S",
         hart[h].code \notin InTrap \cup {"scheduler", "usertrap"},
         NEW r2, hart' = [hart EXCEPT ![h] = r2], r2.proc = hart[h].proc, r2.mode = "S",
         UNCHANGED <<stack, seen, ticks>>, NEW q2, ProcTo(h, q2), q2.state = "RUNNING",
         q2.tf = proc[hart[h].proc].tf, q2.alarm = proc[hart[h].proc].alarm,
         q2.calls = proc[hart[h].proc].calls, r2.code \notin InTrap,
         Leads(hart[h].code, r2.code)
  PROVE  ThreadIInv'
<1> DEFINE r == hart[h]
           s == stack[r.sp]
           q == proc[r.proc]
<1>1. /\ r.proc # NoProc /\ s.frame.code = "none" /\ Place(r, s, q) = r.code
      /\ ~ At(h, "clock_wake")
  BY PlaceHere
<1>2. StackTo(h, s)
  BY Unchanged
<1>3. Place(r2, s, q2) = r2.code /\ FrameFits(r2, s)
  BY <1>1 DEF Place, FrameFits, InTrap
<1>4. r2.code # "usertrap"
  BY DEF Leads
<1> QED
  BY <1>1, <1>2, <1>3, <1>4, PlainStep

\* usertrapret(): the trapframe is not touched until interrupts are masked.
LEMMA UsertrapretOffThread ==
  ASSUME HartIInv, HartIInv', ThreadIInv, NEW h \in Harts, UsertrapretOff(h) PROVE ThreadIInv'
<1> DEFINE r == hart[h]
           r2 == [r EXCEPT !.sie = FALSE, !.code = "utr_csr"]
           q == proc[r.proc]
<1>1. /\ hart' = [hart EXCEPT ![h] = r2] /\ UNCHANGED <<stack, proc, seen, ticks>>
      /\ r.mode = "S" /\ r.code = "usertrapret"
  BY DEF UsertrapretOff, HartIInv, Shapes, At
<1>2. ProcTo(h, q) /\ q.state = "RUNNING" /\ DOMAIN r = HartFields
  BY <1>1, PlaceHere, Unchanged, Here DEF InTrap
<1>3. r2.proc = r.proc /\ r2.mode = "S" /\ r2.code = "utr_csr"
  BY <1>1, <1>2, Fields DEF FieldNames
<1> HIDE DEF r2
<1>4. /\ Leads(r.code, r2.code) /\ r2.code \notin InTrap
      /\ r.code \notin InTrap \cup {"scheduler", "usertrap"}
  BY <1>1, <1>3 DEF Leads, InTrap, CallPlaces, CallCode, Loop
<1> QED
  BY <1>1, <1>2, <1>3, <1>4, GotoThread

\* forkret(): the child has the trapframe fork() gave it.
LEMMA ForkretThread ==
  ASSUME HartIInv, HartIInv', ThreadIInv, NEW h \in Harts, Forkret(h) PROVE ThreadIInv'
<1> DEFINE r == hart[h]
           r2 == [Release(r) EXCEPT !.code = "usertrapret"]
           q == proc[r.proc]
           q2 == [q EXCEPT !.lock = NoHart]
<1>1. /\ hart' = [hart EXCEPT ![h] = r2] /\ UNCHANGED <<stack, seen, ticks>>
      /\ r.mode = "S" /\ r.code = "forkret"
  BY DEF Forkret, HartIInv, Shapes, At
<1>2. /\ q.state = "RUNNING" /\ DOMAIN r = HartFields /\ Me(h) = r.proc /\ r.proc \in Procs
      /\ DOMAIN q = ProcFields
  BY <1>1, PlaceHere, InProc DEF InTrap
<1>3. proc' = [proc EXCEPT ![Me(h)] = q2]
  BY <1>2 DEF Forkret
<1>4. /\ DOMAIN q2 = ProcFields /\ q2.ctx = q.ctx /\ q2.state = q.state /\ q2.tf = q.tf
      /\ q2.alarm = q.alarm /\ q2.calls = q.calls
  BY <1>2, Fields DEF FieldNames
<1>5. r2.proc = r.proc /\ r2.mode = "S" /\ r2.code = "usertrapret"
  BY <1>1, <1>2, Fields DEF FieldNames, Release, PopOff
<1> HIDE DEF r2, q2
<1>6. ProcTo(h, q2)
  BY <1>2, <1>3, <1>4, ProcIs
<1>7. /\ Leads(r.code, r2.code) /\ r2.code \notin InTrap
      /\ r.code \notin InTrap \cup {"scheduler", "usertrap"}
  BY <1>1, <1>5 DEF Leads, InTrap, CallPlaces, CallCode, Loop
<1> QED
  BY <1>1, <1>2, <1>4, <1>5, <1>6, <1>7, GotoThread

\* The scheduler of an idle hart.
LEMMA SchedulerLoopThread ==
  ASSUME HartIInv, HartIInv', ThreadIInv, NEW h \in Harts, SchedulerLoop(h) PROVE ThreadIInv'
<1> DEFINE r == hart[h]
           r2 == [r EXCEPT !.sie = TRUE]
<1>1. /\ r.mode = "S" /\ r.code = "scheduler" /\ UNCHANGED <<stack, proc, seen, ticks>>
      /\ hart' = [hart EXCEPT ![h] = r2]
  BY DEF SchedulerLoop, At
<1>2. r.proc = NoProc /\ DOMAIN r = HartFields
  <2>1. Fits(h, r, stack[r.sp], proc[r.proc])
    BY Here
  <2> QED
    BY <1>1, <2>1 DEF Fits, FitsKernel
<1>3. r2.proc = NoProc
  BY <1>2, Fields DEF FieldNames
<1> HIDE DEF r2
<1> QED
  BY <1>1, <1>2, <1>3, IdleStep, Unchanged DEF At

-----------------------------------------------------------------------------
(* Interrupts and returns from them *)

\* The end of kerneltrap() leads to the place where the thread was interrupted.
LEMMA KerneltrapTailThread ==
  ASSUME HartIInv, HartIInv', ThreadIInv, NEW h \in Harts, KerneltrapTail(h) PROVE ThreadIInv'
<1> DEFINE r == hart[h]
           s == stack[r.sp]
           q == proc[r.proc]
           f == s.frame
           k == KernelvecRegs(KerneltrapStatus(r, f), f)
           r2 == [k EXCEPT !.mode = k.spp, !.code = k.spc, !.sie = k.spie,
                           !.spp = "U", !.spie = TRUE, !.spc = "none"]
           s2 == [s EXCEPT !.frame = NoFrame, !.caller = "none"]
<1>1. r.mode = "S" /\ r.code = "kt_tail" /\ UNCHANGED <<proc, seen, ticks>>
  BY DEF KerneltrapTail, At
<1>2. /\ Fits(h, r, s, q) /\ DOMAIN r = HartFields /\ DOMAIN s = StackFields
      /\ Me(h) = r.proc /\ ProcTo(h, q)
  BY <1>1, Here, Unchanged
<1>3. /\ f.spp = "S" /\ f.code \in IF r.proc = NoProc THEN {"scheduler"} ELSE Open
      /\ r.proc # NoProc => q.state = "RUNNING"
  BY <1>1, <1>2 DEF Fits, FitsKernel, FitsStack, Framed
<1>4. hart' = [hart EXCEPT ![h] = r2] /\ stack' = [stack EXCEPT ![r.sp] = s2]
  <2>1. hart' = [hart EXCEPT ![h] = r2]
    BY DEF KerneltrapTail
  <2>2. stack' = [stack EXCEPT ![r.sp].frame = NoFrame, ![r.sp].caller = "none"]
    BY DEF KerneltrapTail
  <2> HIDE DEF r2, r
  <2>3. stack' = [stack EXCEPT ![r.sp] = s2]
    BY <2>2 DEF HartIInv, Shapes
  <2> QED
    BY <2>1, <2>3
<1>5. r2.proc = r.proc /\ r2.mode = "S" /\ r2.code = f.code
  <2> HIDE DEF f
  <2> QED
    BY <1>2, <1>3, Fields DEF FieldNames, KernelvecRegs, KerneltrapStatus
<1>6. /\ DOMAIN s2 = StackFields /\ s2.frame = NoFrame /\ s2.n = s.n /\ s2.ticks0 = s.ticks0
  BY <1>2, Fields DEF FieldNames
<1>7. StackTo(h, s2) /\ ~ At(h, "clock_wake")
  BY <1>1, <1>4, <1>6 DEF StackTo, At
<1> HIDE DEF r2, s2, f
<1>8. CASE r.proc = NoProc
  BY <1>1, <1>4, <1>5, <1>7, <1>8, IdleStep
<1>9. CASE r.proc # NoProc
  <2>1. f.code \in Open /\ f.code \notin {"none", "sched", "resumed", "usertrap"}
    BY <1>3, <1>9 DEF Open, CallCode
  <2>2. Place(r, s, q) = f.code
    BY <1>1, <1>3, <1>9, <2>1 DEF Place, f
  <2>3. Place(r2, s2, q) = f.code /\ FrameFits(r2, s2)
    BY <1>3, <1>5, <1>6, <1>9, <2>1 DEF Place, FrameFits, NoFrame
  <2> HIDE DEF r, s, q
  <2> QED
    BY <1>1, <1>3, <1>4, <1>5, <1>6, <1>7, <1>9, <2>1, <2>2, <2>3, <1>2, PlainStep DEF r, s, q
<1> QED
  BY <1>8, <1>9

\* An interrupt in the kernel notes in its frame the place of the thread.
LEMMA KernelInterruptThread ==
  ASSUME HartIInv, HartIInv', ThreadIInv, NEW h \in Harts, NEW c, hart[h].mode = "S", hart[h].sie,
         Vector(h, Taken(hart[h], c)), UNCHANGED <<seen, ticks>>
  PROVE  ThreadIInv'
<1> DEFINE r == hart[h]
           s == stack[r.sp]
           q == proc[r.proc]
           k == Taken(r, c)
           f == [code |-> k.spc, sp |-> k.sp, spp |-> k.spp, spie |-> k.spie]
           r2 == [k EXCEPT !.code = "devintr", !.spc = "none", !.spp = "U", !.spie = TRUE]
           s2 == [s EXCEPT !.frame = f, !.caller = "kerneltrap"]
<1>1. /\ Fits(h, r, s, q) /\ DOMAIN r = HartFields /\ DOMAIN s = StackFields
      /\ Me(h) = r.proc /\ r.mode = "S" /\ r.sie
  BY Here
<1>2. /\ r.code \in Open \cup {"scheduler"} /\ r.stvec = "kernelvec"
      /\ r.proc # NoProc => r.code \in Open
  BY <1>1 DEF Fits, FitsKernel, FitsLocks, Open, CallCode
<1>3. /\ DOMAIN k = HartFields /\ k.code = "kernelvec" /\ k.spc = r.code /\ k.mode = "S"
      /\ k.sp = r.sp /\ k.proc = r.proc
  BY <1>1, <1>2, Fields DEF FieldNames, Taken
<1> HIDE DEF k
<1>4. Kernelvec(h, k)
  BY <1>3 DEF Vector, k
<1>5. hart' = [hart EXCEPT ![h] = r2] /\ stack' = [stack EXCEPT ![r.sp] = s2] /\ UNCHANGED proc
  <2>1. hart' = [hart EXCEPT ![h] = r2] /\ UNCHANGED proc
    BY <1>4 DEF Kernelvec
  <2>2. stack' = [stack EXCEPT ![k.sp].frame = f, ![k.sp].caller = "kerneltrap"]
    BY <1>4 DEF Kernelvec
  <2> HIDE DEF r2, r, f
  <2>3. stack' = [stack EXCEPT ![r.sp] = s2]
    BY <1>3, <2>2, ZenonT(60) DEF HartIInv, Shapes
  <2> QED
    BY <2>1, <2>3
<1>6. r2.proc = r.proc /\ r2.mode = "S" /\ r2.code = "devintr"
  BY <1>3, Fields DEF FieldNames
<1>7. f.code = r.code
  BY <1>3
<1> HIDE DEF f
<1>8. /\ DOMAIN s2 = StackFields /\ s2.caller = "kerneltrap" /\ s2.frame = f
      /\ s2.n = s.n /\ s2.ticks0 = s.ticks0
  BY <1>1, Fields DEF FieldNames
<1> HIDE DEF r2, s2
<1>9. StackTo(h, s2) /\ ~ At(h, "clock_wake") /\ ProcTo(h, q)
  BY <1>1, <1>2, <1>5, <1>8, Unchanged DEF StackTo, At, Open, CallCode
<1>10. CASE r.proc = NoProc
  BY <1>5, <1>6, <1>9, <1>10, IdleStep
<1>11. CASE r.proc # NoProc
  <2>1. r.code \in Open /\ r.code \notin InTrap \cup {"scheduler", "none", "usertrap"}
    BY <1>2, <1>11 DEF Open, CallCode, InTrap
  <2>2. Place(r, s, q) = r.code /\ q.state = "RUNNING"
    BY <1>1, <2>1, PlaceHere
  <2>3. Place(r2, s2, q) = r.code /\ FrameFits(r2, s2)
    BY <1>6, <1>7, <1>8, <2>1, <2>2 DEF Place, FrameFits, InTrap
  <2> HIDE DEF r, s, q
  <2> QED
    BY <1>1, <1>5, <1>6, <1>8, <1>9, <1>11, <2>2, <2>3, PlainStep DEF r, s, q
<1> QED
  BY <1>10, <1>11

\* devintr() returns to the trap it was called from.
LEMMA DevReturnPlace ==
  ASSUME HartIInv, ThreadIInv, NEW h \in Harts, NEW rr, NEW d, hart[h].mode = "S",
         hart[h].code \in {"devintr", "clock_wake"}, DevReturn(h, rr, d),
         Carried(hart[h], rr), NEW q2, q2.state = proc[hart[h].proc].state
  PROVE  LET r == hart[h]
             s == stack[r.sp]
             l == Place(r, s, proc[r.proc])
             l2 == Place(hart'[h], s, q2)
         IN /\ \E r2 : hart' = [hart EXCEPT ![h] = r2] /\ hart'[h] = r2
            /\ hart'[h].mode = "S" /\ hart'[h].proc = r.proc /\ hart'[h].code # "usertrap"
            /\ r.proc # NoProc => FrameFits(hart'[h], s) /\ (l2 = l \/ Leads(l, l2))
<1> DEFINE r == hart[h]
           s == stack[r.sp]
           q == proc[r.proc]
           k == s.caller = "kerneltrap"
           yields == d = 2 /\ rr.proc # NoProc /\ proc[rr.proc].state = "RUNNING"
           l == CASE k /\ yields -> "yield" [] k /\ ~ yields -> "kt_tail"
                  [] ~ k /\ d = 2 -> "tail_timer" [] OTHER -> "tail"
           r2 == [rr EXCEPT !.cause = "none", !.code = l]
<1>1. /\ Fits(h, r, s, q) /\ r.mode = "S" /\ r.code \in {"devintr", "clock_wake"}
  BY Here
<1>2. /\ rr.sp = r.sp /\ rr.proc = r.proc /\ rr.mode = "S" /\ DOMAIN rr = HartFields
  BY <1>1 DEF Carried
<1>3. hart' = [hart EXCEPT ![h] = r2] /\ hart'[h] = r2
  BY <1>2 DEF DevReturn, HartIInv, Shapes
<1>4. /\ l \in {"yield", "kt_tail", "tail_timer", "tail"}
      /\ l \in {"yield", "kt_tail"} <=> k
  OBVIOUS
<1> HIDE DEF l
<1>5. r2.proc = r.proc /\ r2.mode = "S" /\ r2.code = l
  BY <1>2, Fields DEF FieldNames
<1> HIDE DEF r2
<1>6. ASSUME r.proc # NoProc
      PROVE  /\ FrameFits(r2, s)
             /\ Place(r2, s, q2) = Place(r, s, q) \/ Leads(Place(r, s, q), Place(r2, s, q2))
  <2>1. FrameFits(r, s)
    BY <1>6, ThreadHere DEF OnHart
  <2>2. q2.state = q.state
    OBVIOUS
  <2> HIDE DEF r, s, q
  <2>3. q.state = "RUNNING" /\ (k => s.frame.code \in Open)
    BY <1>1, <1>6 DEF Fits, FitsKernel, FitsStack, Framed
  <2>4. CASE k
    <3>1. s.frame.code # "none"
      BY <2>3, <2>4 DEF Open, CallCode
    <3>2. Place(r2, s, q2) = s.frame.code /\ Place(r, s, q) = s.frame.code
      BY <1>1, <1>5, <2>2, <2>3, <3>1 DEF Place
    <3>3. FrameFits(r2, s)
      BY <1>4, <1>5, <2>4 DEF FrameFits, InTrap
    <3> QED
      BY <3>2, <3>3
  <2>5. CASE ~ k
    <3>1. s.frame.code = "none"
      BY <1>1, <2>1, <2>5 DEF FrameFits
    <3>2. Place(r2, s, q2) = l /\ Place(r, s, q) = r.code /\ FrameFits(r2, s)
      BY <1>1, <1>4, <1>5, <2>2, <2>3, <3>1 DEF Place, FrameFits
    <3>3. Leads(r.code, l)
      BY <1>1, <1>4, <2>5 DEF Leads, CallPlaces, CallCode, Loop
    <3> QED
      BY <3>2, <3>3
  <2> QED
    BY <2>4, <2>5
<1> QED
  BY <1>3, <1>4, <1>5, <1>6

\* devintr() leaves the registers of the interrupted program alone.
LEMMA DevintrThread ==
  ASSUME HartIInv, HartIInv', ThreadIInv, NEW h \in Harts, Devintr(h) PROVE ThreadIInv'
<1> DEFINE r == hart[h]
           s == stack[r.sp]
           q == proc[r.proc]
<1>1. /\ r.mode = "S" /\ r.code = "devintr" /\ UNCHANGED <<stack, proc, seen, ticks>>
      /\ \E d \in {1, 2} : DevReturn(h, r, d)
  BY DEF Devintr, At
<1>2. /\ Fits(h, r, s, q) /\ Carried(r, r) /\ StackTo(h, s) /\ ProcTo(h, q) /\ ~ At(h, "clock_wake")
  BY <1>1, Here, Unchanged DEF Carried, At
<1>3. /\ \E r2 : hart' = [hart EXCEPT ![h] = r2] /\ hart'[h] = r2
      /\ hart'[h].mode = "S" /\ hart'[h].proc = r.proc /\ hart'[h].code # "usertrap"
      /\ r.proc # NoProc => /\ FrameFits(hart'[h], s)
                            /\ \/ Place(hart'[h], s, q) = Place(r, s, q)
                               \/ Leads(Place(r, s, q), Place(hart'[h], s, q))
  BY <1>1, <1>2, DevReturnPlace
<1>4. PICK r2 : hart' = [hart EXCEPT ![h] = r2] /\ hart'[h] = r2
  BY <1>3
<1>5. r.proc # NoProc => q.state = "RUNNING"
  BY <1>1, <1>2 DEF Fits, FitsKernel
<1>6. CASE r.proc = NoProc
  BY <1>1, <1>2, <1>3, <1>4, <1>6, IdleStep
<1>7. CASE r.proc # NoProc
  BY <1>1, <1>2, <1>3, <1>4, <1>5, <1>7, PlainStep
<1> QED
  BY <1>6, <1>7

-----------------------------------------------------------------------------
(* Leaving a hart and coming to one *)

\* yield() keeps the place of the thread for sched() to return to.
LEMMA YieldThread ==
  ASSUME HartIInv, HartIInv', ThreadIInv, NEW h \in Harts, Yield(h) PROVE ThreadIInv'
<1> DEFINE r == hart[h]
           s == stack[r.sp]
           q == proc[r.proc]
           r2 == [Acquire(r) EXCEPT !.code = "sched"]
           q2 == [q EXCEPT !.lock = h, !.state = "RUNNABLE"]
<1>1. /\ r.mode = "S" /\ r.code = "yield" /\ UNCHANGED <<stack, seen, ticks>>
      /\ hart' = [hart EXCEPT ![h] = r2]
  BY DEF Yield, At
<1>2. /\ Fits(h, r, s, q) /\ Me(h) = r.proc /\ r.proc # NoProc /\ DOMAIN r = HartFields
      /\ r.proc \in Procs /\ DOMAIN q = ProcFields /\ StackTo(h, s)
  BY <1>1, InProc, Unchanged
<1>3. FrameFits(r, s)
  BY <1>2, ThreadHere DEF OnHart
<1>4. proc' = [proc EXCEPT ![Me(h)] = q2]
  <2>1. proc' = [proc EXCEPT ![Me(h)].lock = h, ![Me(h)].state = "RUNNABLE"]
    BY DEF Yield
  <2>2. proc = [p \in Procs |-> proc[p]]
    BY Functions
  <2> HIDE DEF r
  <2> QED
    BY ONLY <1>2, <2>1, <2>2 DEF q, q2
<1>5. /\ DOMAIN q2 = ProcFields /\ q2.ctx = q.ctx /\ q2.state = "RUNNABLE" /\ q2.tf = q.tf
      /\ q2.alarm = q.alarm /\ q2.calls = q.calls
  BY <1>2, Fields DEF FieldNames
<1>6. r2.proc = r.proc /\ r2.mode = "S" /\ r2.code = "sched"
  BY <1>1, <1>2, Fields DEF FieldNames, Acquire, PushOff
<1> HIDE DEF r2, q2
<1>7. ProcTo(h, q2) /\ ~ At(h, "clock_wake")
  BY <1>1, <1>2, <1>4, <1>5, ProcIs DEF At
<1>8. /\ q.state = "RUNNING" /\ s.caller \in {"usertrap", "kerneltrap"}
      /\ s.caller = "kerneltrap" => s.frame.code \in Open
  BY <1>1, <1>2 DEF Fits, FitsKernel, FitsStack, Framed
<1>9. FrameFits(r2, s)
  BY <1>3, <1>1, <1>6 DEF FrameFits, InTrap
<1>10. \/ Place(r2, s, q2) = Place(r, s, q)
       \/ Place(r, s, q) = "yield" /\ Place(r2, s, q2) = "usertrapret"
  <2> HIDE DEF r, s, q
  <2> QED
    BY <1>1, <1>5, <1>6, <1>8 DEF Place, Back, Open, CallCode
<1>11. Leads("yield", "usertrapret")
  BY DEF Leads, CallPlaces, CallCode, Loop
<1> QED
  BY <1>1, <1>2, <1>5, <1>6, <1>7, <1>9, <1>10, <1>11, PlainStep

\* A process that exits returns nowhere.
LEMMA ExitThread ==
  ASSUME HartIInv, HartIInv', ThreadIInv, NEW h \in Harts, Exit(h) PROVE ThreadIInv'
<1> DEFINE r == hart[h]
           s == stack[r.sp]
           q == proc[r.proc]
           r2 == [Acquire(r) EXCEPT !.code = "sched"]
           q2 == [q EXCEPT !.lock = h, !.state = "ZOMBIE"]
<1>1. /\ r.mode = "S" /\ r.code = "exit" /\ UNCHANGED <<stack, seen, ticks>>
      /\ hart' = [hart EXCEPT ![h] = r2]
  BY DEF Exit, At
<1>2. /\ Me(h) = r.proc /\ r.proc # NoProc /\ DOMAIN r = HartFields
      /\ r.proc \in Procs /\ DOMAIN q = ProcFields /\ StackTo(h, s)
  BY <1>1, InProc, Unchanged
<1>3. s.frame.code = "none" /\ Place(r, s, q) = "exit" /\ ~ At(h, "clock_wake")
  BY <1>1, PlaceHere DEF InTrap
<1>4. proc' = [proc EXCEPT ![Me(h)] = q2]
  <2>1. proc' = [proc EXCEPT ![Me(h)].lock = h, ![Me(h)].state = "ZOMBIE"]
    BY DEF Exit
  <2>2. proc = [p \in Procs |-> proc[p]]
    BY Functions
  <2> HIDE DEF r
  <2> QED
    BY ONLY <1>2, <2>1, <2>2 DEF q, q2
<1>5. /\ DOMAIN q2 = ProcFields /\ q2.ctx = q.ctx /\ q2.state = "ZOMBIE" /\ q2.tf = q.tf
      /\ q2.alarm = q.alarm /\ q2.calls = q.calls
  BY <1>2, Fields DEF FieldNames
<1>6. r2.proc = r.proc /\ r2.mode = "S" /\ r2.code = "sched"
  BY <1>1, <1>2, Fields DEF FieldNames, Acquire, PushOff
<1> HIDE DEF r2, q2
<1>7. ProcTo(h, q2)
  BY <1>2, <1>4, <1>5, ProcIs
<1>8. FrameFits(r2, s) /\ Place(r2, s, q2) = "exit"
  BY <1>3, <1>5, <1>6 DEF FrameFits, Place
<1> QED
  BY <1>1, <1>2, <1>3, <1>5, <1>6, <1>7, <1>8, PlainStep

\* sched() returns to its caller.
LEMMA ResumedThread ==
  ASSUME HartIInv, HartIInv', ThreadIInv, NEW h \in Harts, Resumed(h) PROVE ThreadIInv'
<1> DEFINE r == hart[h]
           s == stack[r.sp]
           q == proc[r.proc]
           l == CASE s.caller = "usertrap" -> "usertrapret"
                  [] s.caller = "kerneltrap" -> "kt_tail"
                  [] OTHER -> "sleep_again"
           b == IntenaBack(r, s)
           r2 == [Release(b) EXCEPT !.code = l]
           s2 == [s EXCEPT !.intena = FALSE, !.caller = "none"]
           q2 == [q EXCEPT !.lock = NoHart]
<1>1. r.mode = "S" /\ r.code = "resumed" /\ UNCHANGED <<seen, ticks>>
  BY DEF Resumed, At
<1>2. /\ Fits(h, r, s, q) /\ DOMAIN r = HartFields /\ Me(h) = r.proc /\ r.proc \in Procs
      /\ r.proc # NoProc /\ DOMAIN q = ProcFields /\ DOMAIN s = StackFields
  BY <1>1, InProc
<1>3. q.state = "RUNNING" /\ Saved(r.proc, s)
  BY <1>1, <1>2 DEF Fits, FitsKernel, FitsStack
<1>4. hart' = [hart EXCEPT ![h] = r2] /\ proc' = [proc EXCEPT ![Me(h)] = q2]
  BY <1>2 DEF Resumed
<1>5. stack' = [stack EXCEPT ![r.sp] = s2]
  <2>1. stack' = [stack EXCEPT ![r.sp].intena = FALSE, ![r.sp].caller = "none"]
    BY DEF Resumed
  <2> HIDE DEF r
  <2> QED
    BY <2>1 DEF HartIInv, Shapes
<1>6. \/ s.caller = "usertrap" /\ l = "usertrapret"
      \/ s.caller = "kerneltrap" /\ l = "kt_tail" /\ s.frame.code \in Open
      \/ s.caller = "sleep" /\ l = "sleep_again"
  BY <1>3 DEF Saved, Framed
<1> HIDE DEF l
<1>7. b.proc = r.proc /\ b.mode = "S" /\ DOMAIN b = HartFields
  BY <1>1, <1>2, Fields DEF FieldNames, IntenaBack
<1> HIDE DEF b
<1>8. r2.proc = r.proc /\ r2.mode = "S" /\ r2.code = l
  BY <1>7, Fields DEF FieldNames, Release, PopOff
<1>9. /\ DOMAIN q2 = ProcFields /\ q2.ctx = q.ctx /\ q2.state = q.state /\ q2.tf = q.tf
      /\ q2.alarm = q.alarm /\ q2.calls = q.calls
  BY <1>2, Fields DEF FieldNames
<1>10. DOMAIN s2 = StackFields /\ s2.frame = s.frame /\ s2.n = s.n /\ s2.ticks0 = s.ticks0
  BY <1>2, Fields DEF FieldNames
<1> HIDE DEF r2, q2, s2
<1>11. ProcTo(h, q2) /\ StackTo(h, s2) /\ ~ At(h, "clock_wake")
  BY <1>1, <1>2, <1>4, <1>5, <1>9, <1>10, ProcIs DEF StackTo, At
<1>12. s.frame.code # "none" => s.caller = "kerneltrap"
  BY <1>1, <1>2, ThreadHere DEF OnHart, FrameFits
<1> HIDE DEF s, q
<1>13. FrameFits(r2, s2)
  BY <1>6, <1>8, <1>10, <1>12 DEF FrameFits, InTrap
<1>14. Place(r2, s2, q2) = Place(r, s, q) /\ l # "usertrap"
  BY <1>1, <1>3, <1>6, <1>8, <1>9, <1>10, <1>12 DEF Place, Back, Open, CallCode
<1> QED
  BY <1>1, <1>2, <1>3, <1>4, <1>8, <1>9, <1>10, <1>11, <1>13, <1>14, PlainStep DEF s, q

\* A thread that leaves its hart stays at the place where it was.
LEMMA SchedThread ==
  ASSUME HartIInv, HartIInv', ThreadIInv, NEW h \in Harts, Sched(h) PROVE ThreadIInv'
<1> DEFINE r == hart[h]
           s == stack[r.sp]
           p == r.proc
           q == proc[p]
           w == seen[p]
           v == Release(Swtch(r, r.ctx))
           r2 == [v EXCEPT !.satp = SchedulerTable(r), !.proc = NoProc]
           s2 == [s EXCEPT !.intena = r.intena]
           q2 == [q EXCEPT !.ctx = [ra |-> "resumed", sp |-> r.sp], !.lock = NoHart]
<1>1. r.mode = "S" /\ r.code = "sched" /\ UNCHANGED <<seen, ticks>> /\ ~ At(h, "clock_wake")
  BY DEF Sched, At
<1>2. /\ Me(h) = p /\ p \in Procs /\ p # NoProc /\ DOMAIN r = HartFields
      /\ DOMAIN q = ProcFields /\ DOMAIN s = StackFields
  BY <1>1, InProc
<1>3. Typed(s, q, w) /\ OnHart(r, s, q, w, ticks) /\ r.sp = KStack(p)
  BY <1>2, ThreadHere
<1>4. hart' = [hart EXCEPT ![h] = r2] /\ stack' = [stack EXCEPT ![r.sp] = s2]
  BY DEF Sched
<1>5. proc' = [proc EXCEPT ![p] = q2]
  <2>1. proc' = [proc EXCEPT ![p].ctx = [ra |-> "resumed", sp |-> r.sp], ![p].lock = NoHart]
    BY <1>2 DEF Sched
  <2>2. proc = [x \in Procs |-> proc[x]]
    BY Functions
  <2> HIDE DEF r, p
  <2> QED
    BY ONLY <1>2, <2>1, <2>2 DEF q, q2
<1>6. r2.proc = NoProc
  <2>1. DOMAIN v = HartFields
    BY <1>2, Fields DEF FieldNames, Release, PopOff, Swtch
  <2> HIDE DEF v
  <2> QED
    BY <2>1, Fields DEF FieldNames
<1>7. /\ DOMAIN q2 = ProcFields /\ q2.ctx = [ra |-> "resumed", sp |-> r.sp]
      /\ q2.state = q.state /\ q2.tf = q.tf /\ q2.alarm = q.alarm /\ q2.calls = q.calls
  BY <1>2, Fields DEF FieldNames
<1>8. /\ DOMAIN s2 = StackFields /\ s2.frame = s.frame /\ s2.caller = s.caller
      /\ s2.n = s.n /\ s2.ticks0 = s.ticks0
  BY <1>2, Fields DEF FieldNames
<1> HIDE DEF r2, q2, s2
<1>9. ProcTo(h, q2) /\ StackTo(h, s2)
  BY <1>2, <1>3, <1>4, <1>5, <1>7, <1>8 DEF ProcTo, StackTo
<1>10. OthersKept(h) /\ stack'[r.sp] = s2 /\ proc'[p] = q2
  BY <1>2, <1>4, <1>9, OthersStay
<1>11. hart'[h] = r2 /\ \A g \in Harts \ {h} : hart'[g] = hart[g]
  BY <1>4, Functions
<1>12. \A x \in Procs : x # p => proc'[x] = proc[x]
  BY <1>5, Functions
<1>13. OthersAlone(h)
  BY <1>1, <1>2, <1>10, <1>11, <1>12 DEF OthersAlone, OthersKept, SameUser, ThreadIInv, Types
<1>14. Typed(s2, q2, w)
  <2> HIDE DEF s, q, w
  <2> QED
    BY <1>3, <1>7, <1>8 DEF Typed
<1>15. OffHart(s2, q2, w, ticks)
  <2> HIDE DEF r, s, q, w
  <2>1. ParkedPlace(s2, q2) = Place(r, s, q)
    BY <1>1, <1>7, <1>8 DEF ParkedPlace, Place, Back
  <2>2. Returns(Place(r, s, q), q, w) /\ Counts(Place(r, s, q), s, w, ticks) /\ FrameFits(r, s)
    BY <1>3 DEF OnHart
  <2>3. Returns(Place(r, s, q), q2, w) /\ Counts(Place(r, s, q), s2, w, ticks)
    BY <1>7, <1>8, <2>2 DEF Returns, Counts
  <2>4. s2.frame.code # "none" => s2.caller = "kerneltrap" /\ q2.ctx.ra = "resumed"
    BY <1>1, <1>7, <1>8, <2>2 DEF FrameFits
  <2> QED
    BY <2>1, <2>3, <2>4 DEF OffHart
<1>16. q2.state = "SLEEPING" /\ Overdue(s2, w, ticks) => \E g \in Harts : At(g, "clock_wake")
  BY <1>2, <1>3, <1>7, <1>8 DEF ThreadIInv, Due, Overdue
<1> QED
  BY <1>1, <1>2, <1>3, <1>6, <1>10, <1>11, <1>13, <1>14, <1>15, <1>16, ThreadMoves

\* A thread that comes to a hart is at the place where it was.
LEMMA SchedulerPickThread ==
  ASSUME HartIInv, HartIInv', ThreadIInv, NEW h \in Harts, NEW p \in Procs, SchedulerPick(h, p)
  PROVE  ThreadIInv'
<1> DEFINE r == hart[h]
           s == stack[KStack(p)]
           q == proc[p]
           w == seen[p]
           c == [ra |-> "scheduler", sp |-> r.sp]
           a == Acquire(r)
           b == [a EXCEPT !.proc = p, !.satp = KernTable(p), !.ctx = c]
           r2 == Swtch(b, q.ctx)
           q2 == [q EXCEPT !.lock = h, !.state = "RUNNING"]
<1>1. /\ r.mode = "S" /\ r.code = "scheduler" /\ UNCHANGED <<stack, seen, ticks>>
      /\ q.state = "RUNNABLE" /\ q.lock = NoHart /\ ~ At(h, "clock_wake")
  BY DEF SchedulerPick, At
<1>2. /\ Fits(h, r, stack[r.sp], proc[r.proc]) /\ DOMAIN r = HartFields /\ Me(h) = r.proc
      /\ DOMAIN q = ProcFields /\ q.ctx.sp = KStack(p) /\ q.ctx.ra \in {"forkret", "resumed"}
  BY Here DEF HartIInv, Shapes
<1>3. Me(h) = NoProc
  BY <1>1, <1>2 DEF Fits, FitsKernel
<1>4. /\ \A g \in Harts : Me(g) # p
      /\ Parked(p, s, q)
  BY <1>1, OnNoHart
<1>5. OffHart(s, q, w, ticks)
  BY <1>4 DEF ThreadIInv, OffHarts
<1>6. hart' = [hart EXCEPT ![h] = r2]
  BY DEF SchedulerPick
<1>7. proc' = [proc EXCEPT ![p] = q2]
  <2>1. proc' = [proc EXCEPT ![p].lock = h, ![p].state = "RUNNING"]
    BY DEF SchedulerPick
  <2>2. proc = [x \in Procs |-> proc[x]]
    BY Functions
  <2> QED
    BY ONLY p \in Procs, <2>1, <2>2 DEF q, q2
<1>8. DOMAIN a = HartFields /\ a.mode = "S"
  BY <1>1, <1>2, Fields DEF FieldNames, Acquire, PushOff
<1> HIDE DEF a, c
<1>9. r2.proc = p /\ r2.sp = KStack(p) /\ r2.mode = "S" /\ r2.code = q.ctx.ra
  BY <1>2, <1>8, Fields DEF FieldNames, Swtch
<1>10. /\ q2.state = "RUNNING" /\ q2.tf = q.tf /\ q2.alarm = q.alarm /\ q2.calls = q.calls
       /\ q2.ctx = q.ctx
  BY <1>2, Fields DEF FieldNames
<1> HIDE DEF r2, q2
<1>11. /\ proc'[p] = q2 /\ \A x \in Procs : x # p => proc'[x] = proc[x]
  BY <1>7, Functions
<1>12. hart'[h] = r2 /\ \A g \in Harts \ {h} : hart'[g] = hart[g]
  BY <1>6, Functions
<1>13. \A x \in Procs : SameUser(proc[x], proc'[x])
  <2>1. SameUser(q, q2)
    BY <1>1, <1>10 DEF SameUser
  <2> QED
    BY <1>11, <2>1 DEF SameUser
<1>14. OthersAlone(h)
  BY <1>1, <1>12, <1>13 DEF OthersAlone, ThreadIInv, Types
<1>15. OnHart(r2, s, q2, w, ticks)
  <2> HIDE DEF r, s, q, w
  <2>1. Place(r2, s, q2) = ParkedPlace(s, q)
    BY <1>1, <1>2, <1>9, <1>10 DEF ParkedPlace, Place
  <2>2. Returns(ParkedPlace(s, q), q, w) /\ Counts(ParkedPlace(s, q), s, w, ticks)
    BY <1>5 DEF OffHart
  <2>3. Returns(ParkedPlace(s, q), q2, w)
    BY <1>10, <2>2 DEF Returns
  <2>4. FrameFits(r2, s)
    BY <1>2, <1>5, <1>9 DEF OffHart, FrameFits, InTrap
  <2>5. UserRegs(r2, q2, w)
    BY <1>2, <1>9 DEF UserRegs
  <2> QED
    BY <2>1, <2>2, <2>3, <2>4, <2>5 DEF OnHart
<1>16. stack'[r2.sp] = s /\ proc'[r2.proc] = q2 /\ seen'[r2.proc] = w
  BY <1>1, <1>9, <1>11
<1> QED
  BY <1>1, <1>3, <1>12, <1>14, <1>15, <1>16, ThreadMoves

-----------------------------------------------------------------------------
(* sys_sleep() *)

\* ticks - ticks0 is unsigned.
LEMMA ModIn ==
  ASSUME NEW a \in Int
  PROVE  a % TickMod \in 0..(TickMod - 1) /\ TickMod \in Nat \ {0}
  BY TrapAssumption

\* sleep() is entered only with ticks to wait for, which the wakeup of clockintr()
\* cannot have missed.
LEMMA SleepInThread ==
  ASSUME HartIInv, HartIInv', ThreadIInv, NEW h \in Harts, SleepIn(h) PROVE ThreadIInv'
<1> DEFINE r == hart[h]
           s == stack[r.sp]
           q == proc[r.proc]
           w == seen[r.proc]
           a == Acquire(r)
           r2 == [Release(a) EXCEPT !.code = "sched"]
           s2 == [s EXCEPT !.caller = "sleep"]
           q2 == [q EXCEPT !.lock = h, !.state = "SLEEPING"]
           m == (ticks - s.ticks0) % TickMod
<1>1. /\ r.mode = "S" /\ r.code = "sleep_in" /\ UNCHANGED <<seen, ticks>>
      /\ hart' = [hart EXCEPT ![h] = r2] /\ stack' = [stack EXCEPT ![r.sp] = s2]
  BY DEF SleepIn, At
<1>2. /\ Me(h) = r.proc /\ r.proc # NoProc /\ DOMAIN r = HartFields
      /\ r.proc \in Procs /\ DOMAIN q = ProcFields /\ DOMAIN s = StackFields
  BY <1>1, InProc
<1>3. s.frame.code = "none" /\ Place(r, s, q) = "sleep_in" /\ ~ At(h, "clock_wake")
  BY <1>1, PlaceHere DEF InTrap
<1>4. Typed(s, q, w) /\ OnHart(r, s, q, w, ticks) /\ ticks \in 0..(TickMod - 1)
  BY <1>2, ThreadHere
<1>5. proc' = [proc EXCEPT ![Me(h)] = q2]
  <2>1. proc' = [proc EXCEPT ![Me(h)].lock = h, ![Me(h)].state = "SLEEPING"]
    BY DEF SleepIn
  <2>2. proc = [p \in Procs |-> proc[p]]
    BY Functions
  <2> HIDE DEF r
  <2> QED
    BY ONLY <1>2, <2>1, <2>2 DEF q, q2
<1>6. /\ DOMAIN q2 = ProcFields /\ q2.ctx = q.ctx /\ q2.state = "SLEEPING" /\ q2.tf = q.tf
      /\ q2.alarm = q.alarm /\ q2.calls = q.calls
  BY <1>2, Fields DEF FieldNames
<1>7. /\ DOMAIN s2 = StackFields /\ s2.caller = "sleep" /\ s2.frame = s.frame
      /\ s2.n = s.n /\ s2.ticks0 = s.ticks0
  BY <1>2, Fields DEF FieldNames
<1>8. DOMAIN a = HartFields /\ a.proc = r.proc /\ a.mode = "S"
  BY <1>1, <1>2, Fields DEF FieldNames, Acquire, PushOff
<1> HIDE DEF a
<1>9. r2.proc = r.proc /\ r2.mode = "S" /\ r2.code = "sched"
  BY <1>8, Fields DEF FieldNames, Release, PopOff
<1> HIDE DEF r2, q2, s2
<1>10. ProcTo(h, q2) /\ StackTo(h, s2)
  BY <1>1, <1>2, <1>5, <1>6, <1>7, ProcIs DEF StackTo
<1>11. SeenTo(h, w)
  BY <1>1, <1>2 DEF SeenTo, ThreadIInv, Types
<1> HIDE DEF s, q, w
<1>12. Typed(s2, q2, w)
  BY <1>4, <1>6, <1>7 DEF Typed
<1>13. Place(r2, s2, q2) = "sleep_again"
  BY <1>3, <1>6, <1>7, <1>9 DEF Place, Back
<1>14. Returns("sleep_in", q, w) /\ Counts("sleep_in", s, w, ticks)
  BY <1>3, <1>4 DEF OnHart
<1>15. Returns("sleep_again", q2, w) /\ Counts("sleep_again", s2, w, ticks)
  BY <1>6, <1>7, <1>14 DEF Returns, Counts, CallPlaces, CallCode, Loop
<1>16. OnHart(r2, s2, q2, w, ticks)
  BY <1>3, <1>7, <1>9, <1>13, <1>15 DEF OnHart, FrameFits, UserRegs
<1>17. ~ Overdue(s2, w, ticks)
  <2>1. m \in 0..(TickMod - 1) /\ TickMod \in Nat \ {0}
    BY <1>4, ModIn DEF Typed
  <2>2. m < s.n /\ (s.n # 0 /\ w.slept < TickMod => w.slept = m)
    BY <1>14 DEF Counts, Loop
  <2>3. s.n \in Nat /\ w.slept \in 0..TickMod
    BY <1>4 DEF Typed, Views
  <2>4. s2.n = s.n /\ s2.ticks0 = s.ticks0
    BY <1>7
  <2>5. (ticks - s2.ticks0) % TickMod = m
    BY <2>4
  <2> HIDE DEF m, s2
  <2>6. w.slept \notin s2.n..(TickMod - 1)
    BY <2>1, <2>2, <2>3, <2>4
  <2> QED
    BY <2>2, <2>4, <2>5, <2>6 DEF Overdue
<1> QED
  BY <1>1, <1>2, <1>3, <1>9, <1>10, <1>11, <1>12, <1>16, <1>17, ThreadStep

\* sys_sleep() begins to count, or goes on to.
LEMMA SleepAcquireThread ==
  ASSUME HartIInv, HartIInv', ThreadIInv, NEW h \in Harts, SleepAcquire(h) PROVE ThreadIInv'
<1> DEFINE r == hart[h]
           s == stack[r.sp]
           q == proc[r.proc]
           w == seen[r.proc]
           r2 == [Acquire(r) EXCEPT !.code = "sleep_check"]
<1>1. /\ r.mode = "S" /\ r.code \in {"sleep", "sleep_again"} /\ UNCHANGED <<proc, ticks>>
      /\ hart' = [hart EXCEPT ![h] = r2]
  BY DEF SleepAcquire, At
<1>2. /\ Me(h) = r.proc /\ r.proc # NoProc /\ DOMAIN r = HartFields
      /\ r.proc \in Procs /\ DOMAIN s = StackFields /\ ProcTo(h, q)
  BY <1>1, InProc, Unchanged
<1>3. /\ s.frame.code = "none" /\ Place(r, s, q) = r.code /\ q.state = "RUNNING"
      /\ ~ At(h, "clock_wake")
  BY <1>1, PlaceHere DEF InTrap
<1>4. r2.proc = r.proc /\ r2.mode = "S" /\ r2.code = "sleep_check"
  BY <1>1, <1>2, Fields DEF FieldNames, Acquire, PushOff
<1> HIDE DEF r2
<1>5. CASE r.code = "sleep_again" /\ UNCHANGED <<stack, seen>>
  <2>1. Leads(r.code, r2.code) /\ r2.code \notin InTrap
    BY <1>4, <1>5 DEF Leads, CallPlaces, CallCode, Loop, InTrap
  <2>2. r.code \notin InTrap \cup {"scheduler", "usertrap"}
    BY <1>1 DEF InTrap
  <2> QED
    BY <1>1, <1>2, <1>3, <1>4, <1>5, <2>1, <2>2, GotoThread
<1>6. CASE /\ r.code = "sleep" /\ stack' = [stack EXCEPT ![r.sp].ticks0 = ticks]
           /\ seen' = [seen EXCEPT ![Me(h)].slept = 0]
  <2> DEFINE s2 == [s EXCEPT !.ticks0 = ticks]
             w2 == [w EXCEPT !.slept = 0]
  <2>1. stack' = [stack EXCEPT ![r.sp] = s2] /\ SeenTo(h, w2)
    BY <1>2, <1>6 DEF SeenTo
  <2>2. Typed(s, q, w) /\ OnHart(r, s, q, w, ticks) /\ ticks \in 0..(TickMod - 1)
    BY <1>2, ThreadHere
  <2>3. /\ DOMAIN s2 = StackFields /\ s2.frame = s.frame /\ s2.n = s.n /\ s2.ticks0 = ticks
    BY <1>2, Fields DEF FieldNames
  <2>4. /\ w2 \in Views /\ w2.why = w.why /\ w2.cont = w.cont /\ w2.orig = w.orig /\ w2.slept = 0
    BY <2>2, TrapAssumption DEF Typed, Views
  <2> HIDE DEF s, q, w, s2, w2
  <2>5. Typed(s2, q, w2)
    BY <2>2, <2>3, <2>4 DEF Typed
  <2>6. Place(r2, s2, q) = "sleep_check"
    BY <1>3, <1>4, <2>3 DEF Place
  <2>7. Returns("sleep", q, w)
    BY <1>3, <1>6, <2>2 DEF OnHart
  <2>8. Returns("sleep_check", q, w2)
    BY <2>4, <2>7 DEF Returns, Match, CallPlaces, CallCode, Loop
  <2>9. Counts("sleep_check", s2, w2, ticks)
    <3>1. (ticks - s2.ticks0) % TickMod = 0
      BY <2>2, <2>3, TrapAssumption
    <3> QED
      BY <2>4, <3>1 DEF Counts
  <2>10. OnHart(r2, s2, q, w2, ticks)
    BY <1>3, <1>4, <2>3, <2>6, <2>8, <2>9 DEF OnHart, FrameFits, UserRegs
  <2>11. StackTo(h, s2)
    BY <2>1, <2>3 DEF StackTo
  <2>12. q.state = "RUNNING"
    BY <1>3
  <2> QED
    BY <1>1, <1>2, <1>3, <1>4, <2>1, <2>5, <2>10, <2>11, <2>12, ThreadStep
<1> QED
  BY <1>1, <1>5, <1>6 DEF SleepAcquire, At

\* A step of a thread outside of traps that changes its registers or variables.
LEMMA CodeStep ==
  ASSUME HartIInv, HartIInv', ThreadIInv, NEW h \in Harts, hart[h].mode = "S",
         hart[h].code \notin InTrap \cup {"scheduler"},
         NEW r2, NEW s2, NEW q2, NEW w2, hart' = [hart EXCEPT ![h] = r2],
         StackTo(h, s2), ProcTo(h, q2), SeenTo(h, w2), UNCHANGED ticks,
         r2.proc = hart[h].proc, r2.mode = "S", r2.code \notin {"sched", "resumed", "usertrap"},
         s2.frame = stack[hart[h].sp].frame, q2.state = "RUNNING",
         Typed(s2, q2, w2), Returns(r2.code, q2, w2), Counts(r2.code, s2, w2, ticks)
  PROVE  ThreadIInv'
<1>1. /\ hart[h].proc # NoProc /\ stack[hart[h].sp].frame.code = "none"
      /\ ~ At(h, "clock_wake")
  BY PlaceHere
<1>2. Place(r2, s2, q2) = r2.code
  BY <1>1 DEF Place
<1>3. OnHart(r2, s2, q2, w2, ticks)
  BY <1>1, <1>2, SMTT(30) DEF OnHart, FrameFits, UserRegs
<1> QED
  BY <1>1, <1>3, ThreadStep

\* The loop of sys_sleep() ends when the ticks are over.
LEMMA SleepCheckThread ==
  ASSUME HartIInv, HartIInv', ThreadIInv, NEW h \in Harts, SleepCheck(h) PROVE ThreadIInv'
<1> DEFINE r == hart[h]
           s == stack[r.sp]
           q == proc[r.proc]
           w == seen[r.proc]
           m == (ticks - s.ticks0) % TickMod
<1>1. r.mode = "S" /\ r.code = "sleep_check" /\ UNCHANGED <<stack, proc, seen, ticks>>
  BY DEF SleepCheck, At
<1>2. /\ r.proc # NoProc /\ Place(r, s, q) = r.code /\ q.state = "RUNNING"
      /\ ~ At(h, "clock_wake") /\ r.code \notin InTrap \cup {"scheduler"}
  BY <1>1, PlaceHere DEF InTrap
<1>3. /\ Typed(s, q, w) /\ OnHart(r, s, q, w, ticks) /\ ticks \in 0..(TickMod - 1)
      /\ DOMAIN r = HartFields /\ Me(h) = r.proc
  BY <1>2, ThreadHere, Here
<1>4. StackTo(h, s) /\ ProcTo(h, q) /\ SeenTo(h, w)
  BY <1>1, <1>3, Unchanged DEF SeenTo, ThreadIInv, Types
<1>5. Returns("sleep_check", q, w) /\ Counts("sleep_check", s, w, ticks)
  BY <1>1, <1>2, <1>3 DEF OnHart
<1>6. PICK r2 : /\ hart' = [hart EXCEPT ![h] = r2] /\ r2.proc = r.proc /\ r2.mode = "S"
                /\ r2.code \in {"sleep_in", "sleep_killed", "sleep_over"}
                /\ r2.code = "sleep_in" => m < s.n
                /\ r2.code = "sleep_over" => ~ (m < s.n)
  <2>1. CASE SleepMore(s) /\ Goto(h, "sleep_in")
    <3> DEFINE r2 == [r EXCEPT !.code = "sleep_in"]
    <3>1. hart' = [hart EXCEPT ![h] = r2]
      BY <2>1, Functions DEF Goto
    <3>2. r2.proc = r.proc /\ r2.mode = "S" /\ r2.code = "sleep_in"
      BY <1>1, <1>3, Fields DEF FieldNames
    <3> HIDE DEF r2
    <3> QED
      BY <2>1, <3>1, <3>2 DEF SleepMore
  <2>2. ASSUME NEW l \in {"sleep_killed", "sleep_over"}, l = "sleep_over" => ~ SleepMore(s),
               hart' = [hart EXCEPT ![h] = [Release(r) EXCEPT !.code = l]]
        PROVE  \E r2 : /\ hart' = [hart EXCEPT ![h] = r2] /\ r2.proc = r.proc /\ r2.mode = "S"
                       /\ r2.code \in {"sleep_in", "sleep_killed", "sleep_over"}
                       /\ r2.code = "sleep_in" => m < s.n
                       /\ r2.code = "sleep_over" => ~ (m < s.n)
    <3> DEFINE r2 == [Release(r) EXCEPT !.code = l]
    <3>1. r2.proc = r.proc /\ r2.mode = "S" /\ r2.code = l
      BY <1>1, <1>3, Fields DEF FieldNames, Release, PopOff
    <3>2. hart' = [hart EXCEPT ![h] = r2]
      BY <2>2
    <3> HIDE DEF r2
    <3> QED
      BY <2>2, <3>1, <3>2 DEF SleepMore
  <2>3. \/ SleepMore(s) /\ Goto(h, "sleep_in")
        \/ hart' = [hart EXCEPT ![h] = [Release(r) EXCEPT !.code =
                        IF SleepMore(s) THEN "sleep_killed" ELSE "sleep_over"]]
    BY DEF SleepCheck
  <2>4. CASE hart' = [hart EXCEPT ![h] = [Release(r) EXCEPT !.code =
                        IF SleepMore(s) THEN "sleep_killed" ELSE "sleep_over"]]
    <3>1. CASE SleepMore(s)
      BY <2>2, <2>4, <3>1
    <3>2. CASE ~ SleepMore(s)
      BY <2>2, <2>4, <3>2
    <3> QED
      BY <3>1, <3>2
  <2> QED
    BY <2>1, <2>3, <2>4
<1> HIDE DEF s, q, w
<1>7. Returns(r2.code, q, w)
  BY <1>5, <1>6 DEF Returns, CallPlaces, CallCode, Loop
<1>8. Counts(r2.code, s, w, ticks)
  <2>1. m \in 0..(TickMod - 1) /\ TickMod \in Nat \ {0}
    BY <1>3, ModIn DEF Typed
  <2>2. s.n # 0 /\ w.slept < TickMod => w.slept = m
    BY <1>5 DEF Counts, Loop
  <2>3. s.n \in Nat /\ w.slept \in 0..TickMod
    BY <1>3 DEF Typed, Views
  <2>4. r2.code = "sleep_in" => (ticks - s.ticks0) % TickMod < s.n
    BY <1>6
  <2>5. r2.code = "sleep_over" => ~ (m < s.n)
    BY <1>6
  <2>6. r2.code \in Loop /\ s.n # 0 /\ w.slept < TickMod => w.slept = (ticks - s.ticks0) % TickMod
    BY <2>2
  <2> HIDE DEF m
  <2>7. r2.code = "sleep_over" => w.slept >= s.n
    BY <2>1, <2>2, <2>3, <2>5
  <2> QED
    BY <2>4, <2>6, <2>7 DEF Counts
<1> QED
  BY <1>1, <1>2, <1>3, <1>4, <1>6, <1>7, <1>8, CodeStep DEF s, q, w

\* A call that returns stores v in a0 and nowhere else.
LEMMA FinishThread ==
  ASSUME HartIInv, HartIInv', ThreadIInv, NEW h \in Harts, hart[h].mode = "S",
         hart[h].code \in CallCode, NEW v \in Nat, Finish(h, v), UNCHANGED ticks,
         NEW s2, StackTo(h, s2), s2.frame = stack[hart[h].sp].frame,
         s2.n \in Nat, s2.ticks0 \in 0..(TickMod - 1),
         NEW w2, SeenTo(h, w2), w2 \in Views, w2.why = seen[Me(h)].why,
         w2.cont = seen[Me(h)].cont, w2.orig = seen[Me(h)].orig
  PROVE  ThreadIInv'
<1> DEFINE r == hart[h]
           s == stack[r.sp]
           q == proc[r.proc]
           w == seen[r.proc]
           r2 == [r EXCEPT !.code = "tail"]
           t == [q.tf EXCEPT !.a0 = v]
           q2 == [q EXCEPT !.tf = t]
<1>1. r.mode = "S" /\ r.code \in CallCode /\ r.code \notin InTrap \cup {"scheduler"}
  BY DEF CallCode, InTrap
<1>2. /\ r.proc # NoProc /\ Place(r, s, q) = r.code /\ q.state = "RUNNING"
  BY <1>1, PlaceHere
<1>3. /\ Typed(s, q, w) /\ OnHart(r, s, q, w, ticks) /\ DOMAIN r = HartFields
      /\ Me(h) = r.proc /\ r.proc \in Procs /\ DOMAIN q = ProcFields
  BY <1>2, ThreadHere, Here
<1>4. proc' = [proc EXCEPT ![Me(h)] = q2] /\ hart' = [hart EXCEPT ![h] = r2]
  BY <1>3, Functions DEF Finish, Goto
<1>5. r2.proc = r.proc /\ r2.mode = "S" /\ r2.code = "tail"
  BY <1>1, <1>3, Fields DEF FieldNames
<1>6. t \in Regs /\ t.pc = q.tf.pc /\ Rest(t, q.tf)
  BY <1>3 DEF Typed, Regs, Rest
<1> HIDE DEF t, r2
<1>7. /\ DOMAIN q2 = ProcFields /\ q2.ctx = q.ctx /\ q2.state = q.state /\ q2.tf = t
      /\ q2.alarm = q.alarm /\ q2.calls = q.calls
  BY <1>3, Fields DEF FieldNames
<1> HIDE DEF q2
<1>8. ProcTo(h, q2)
  BY <1>3, <1>4, <1>7, ProcIs, ZenonT(60)
<1>9. w2.why = w.why /\ w2.cont = w.cont /\ w2.orig = w.orig
  BY <1>3
<1> HIDE DEF q, s, w
<1>10. Typed(s2, q2, w2)
  BY <1>3, <1>6, <1>7, <1>9 DEF Typed
<1>11. Returns(r.code, q, w)
  BY <1>2, <1>3 DEF OnHart
<1>12. w.why = "call" /\ Match(q.tf, w) /\ Below(q.tf.pc, q.alarm)
  BY <1>1, <1>11 DEF Returns, CallPlaces, CallCode
<1>13. Returns("tail", q2, w2) /\ Counts("tail", s2, w2, ticks)
  BY <1>6, <1>7, <1>9, <1>12 DEF Returns, Counts, Match, Rest, CallPlaces, CallCode, Loop
<1>14. q2.state = "RUNNING"
  BY <1>2, <1>7
<1> QED
  BY <1>1, <1>4, <1>5, <1>8, <1>10, <1>13, <1>14, CodeStep

\* A system call that has nothing to do with traps returns.
LEMMA WorkDoneThread ==
  ASSUME HartIInv, HartIInv', ThreadIInv, NEW h \in Harts, WorkDone(h) PROVE ThreadIInv'
<1> DEFINE s == stack[hart[h].sp]
           w == seen[Me(h)]
<1>1. /\ hart[h].mode = "S" /\ hart[h].code = "work" /\ UNCHANGED <<stack, seen, ticks>>
      /\ Finish(h, 0)
  BY DEF WorkDone, At
<1>2. Me(h) = hart[h].proc /\ Me(h) # NoProc
  BY <1>1, InProc
<1>3. Typed(s, proc[Me(h)], w)
  BY <1>2, ThreadHere
<1>4. StackTo(h, s) /\ SeenTo(h, w)
  BY <1>1, <1>2, Unchanged DEF SeenTo, ThreadIInv, Types
<1> QED
  BY <1>1, <1>3, <1>4, FinishThread DEF CallCode, Typed

\* sys_sleep() returns.
LEMMA SleepReturnThread ==
  ASSUME HartIInv, HartIInv', ThreadIInv, NEW h \in Harts, SleepReturn(h) PROVE ThreadIInv'
<1> DEFINE r == hart[h]
           s == stack[r.sp]
           w == seen[Me(h)]
           s2 == [s EXCEPT !.n = 0, !.ticks0 = 0]
           w2 == [w EXCEPT !.slept = 0]
<1>1. /\ r.mode = "S" /\ r.code \in {"sleep_over", "sleep_killed"} /\ UNCHANGED ticks
      /\ Finish(h, 0) \/ Finish(h, Err)
  BY DEF SleepReturn, At
<1>2. Me(h) = r.proc /\ Me(h) # NoProc /\ DOMAIN s = StackFields
  BY <1>1, InProc
<1>3. Typed(s, proc[Me(h)], w)
  BY <1>2, ThreadHere
<1>4. stack' = [stack EXCEPT ![r.sp] = s2]
  <2>1. stack' = [stack EXCEPT ![r.sp].n = 0, ![r.sp].ticks0 = 0]
    BY DEF SleepReturn
  <2>2. stack = [t \in Stacks |-> stack[t]]
    BY Functions
  <2> HIDE DEF r
  <2> QED
    BY ONLY <2>1, <2>2 DEF s, s2
<1>5. DOMAIN s2 = StackFields /\ s2.frame = s.frame /\ s2.n = 0 /\ s2.ticks0 = 0
  BY <1>2, Fields DEF FieldNames
<1>6. w2 \in Views /\ w2.why = w.why /\ w2.cont = w.cont /\ w2.orig = w.orig
  BY <1>3, TrapAssumption DEF Typed, Views
<1> HIDE DEF s2, w2
<1>7. StackTo(h, s2) /\ 0 \in Nat /\ Err \in Nat /\ 0 \in 0..(TickMod - 1)
  BY <1>4, <1>5, TrapAssumption DEF StackTo, Err
<1>8. SeenTo(h, w2)
  BY DEF SleepReturn, SeenTo, w2
<1> QED
  BY <1>1, <1>5, <1>6, <1>7, <1>8, FinishThread DEF CallCode

-----------------------------------------------------------------------------
(* The alarm and the other system calls *)

\* What holds of a thread that runs a system call.
LEMMA InCall ==
  ASSUME HartIInv, ThreadIInv, NEW h \in Harts, hart[h].mode = "S", hart[h].code \in CallCode
  PROVE  LET r == hart[h]
             s == stack[r.sp]
             q == proc[r.proc]
             w == seen[r.proc]
         IN /\ r.code \notin InTrap \cup {"scheduler", "usertrap"} /\ q.state = "RUNNING"
            /\ Typed(s, q, w) /\ w.why = "call" /\ Match(q.tf, w) /\ Below(q.tf.pc, q.alarm)
            /\ Me(h) = r.proc /\ r.proc \in Procs /\ r.proc # NoProc
            /\ DOMAIN r = HartFields /\ DOMAIN q = ProcFields /\ DOMAIN s = StackFields
<1> DEFINE r == hart[h]
           s == stack[r.sp]
           q == proc[r.proc]
           w == seen[r.proc]
<1>1. r.mode = "S" /\ r.code \in CallCode /\ r.code \notin InTrap \cup {"scheduler", "usertrap"}
  BY DEF CallCode, InTrap
<1>2. /\ r.proc # NoProc /\ Place(r, s, q) = r.code /\ q.state = "RUNNING"
  BY <1>1, PlaceHere
<1>3. /\ Typed(s, q, w) /\ OnHart(r, s, q, w, ticks) /\ DOMAIN r = HartFields
      /\ Me(h) = r.proc /\ r.proc \in Procs /\ DOMAIN q = ProcFields /\ DOMAIN s = StackFields
  BY <1>2, ThreadHere, Here
<1>4. Returns(r.code, q, w)
  BY <1>2, <1>3 DEF OnHart
<1> HIDE DEF q, w
<1>5. w.why = "call" /\ Match(q.tf, w) /\ Below(q.tf.pc, q.alarm)
  BY <1>1, <1>4 DEF Returns, CallPlaces, CallCode
<1> QED
  BY <1>1, <1>2, <1>3, <1>5 DEF q, w

\* A system call sets the alarm, restores the trapframe, or goes somewhere with
\* the trapframe t, the alarm a and the observer's w2.
LEMMA CallStep ==
  ASSUME HartIInv, HartIInv', ThreadIInv, NEW h \in Harts, hart[h].mode = "S",
         hart[h].code = "syscall", UNCHANGED ticks,
         NEW l \in {"tail", "exit", "work", "sleep"}, Goto(h, l), NEW q2, NEW s2, NEW w2,
         proc' = [proc EXCEPT ![Me(h)] = q2], StackTo(h, s2), SeenTo(h, w2),
         DOMAIN q2 = ProcFields, q2.ctx = proc[Me(h)].ctx, q2.state = proc[Me(h)].state,
         s2.frame = stack[hart[h].sp].frame, Typed(s2, q2, w2),
         l # "exit" => Match(q2.tf, w2) /\ Below(q2.tf.pc, q2.alarm),
         l \in {"work", "sleep"} => w2.why = "call"
  PROVE  ThreadIInv'
<1> DEFINE r == hart[h]
           r2 == [r EXCEPT !.code = l]
<1>1. /\ r.code \notin InTrap \cup {"scheduler"} /\ Me(h) = r.proc /\ r.proc \in Procs
      /\ DOMAIN r = HartFields /\ q2.state = "RUNNING"
  BY InCall DEF CallCode
<1>2. hart' = [hart EXCEPT ![h] = r2]
  BY Functions DEF Goto
<1>3. r2.proc = r.proc /\ r2.mode = "S" /\ r2.code = l
  BY <1>1, Fields DEF FieldNames
<1> HIDE DEF r2
<1>4. ProcTo(h, q2)
  BY <1>1, ProcIs
<1>5. Returns(l, q2, w2) /\ Counts(l, s2, w2, ticks)
  BY DEF Returns, Counts, CallPlaces, CallCode, Loop
<1> QED
  BY <1>1, <1>2, <1>3, <1>4, <1>5, CodeStep

\* sigalarm() changes the interval, not the copy of the trapframe.
LEMMA SigalarmThread ==
  ASSUME HartIInv, HartIInv', ThreadIInv, NEW h \in Harts, hart[h].mode = "S",
         hart[h].code = "syscall", UNCHANGED ticks, SysSigalarm(h)
  PROVE  ThreadIInv'
<1> DEFINE r == hart[h]
           s == stack[r.sp]
           q == proc[r.proc]
           w == seen[r.proc]
           a == IF q.tf.a0 = 0 THEN q.alarm
                ELSE [q.alarm EXCEPT !.interval = q.tf.a0, !.ticks = 0]
           t == [q.tf EXCEPT !.a0 = 0]
           q2 == [q EXCEPT !.tf = t, !.alarm = a]
<1>1. /\ Typed(s, q, w) /\ w.why = "call" /\ Match(q.tf, w) /\ Below(q.tf.pc, q.alarm)
      /\ Me(h) = r.proc /\ r.proc \in Procs /\ DOMAIN q = ProcFields
  BY InCall DEF CallCode
<1>2. proc' = [proc EXCEPT ![Me(h)] = q2]
  <2>1. proc' = [proc EXCEPT ![Me(h)].tf.a0 = 0, ![Me(h)].alarm = a]
    BY <1>1 DEF SysSigalarm
  <2>2. proc = [p \in Procs |-> proc[p]]
    BY Functions, SMTT(30)
  <2> HIDE DEF r, a
  <2> QED
    BY ONLY <1>1, <2>1, <2>2 DEF q, q2, t
<1>3. Goto(h, "tail") /\ StackTo(h, s) /\ SeenTo(h, w)
  BY <1>1, Unchanged DEF SysSigalarm, SeenTo, ThreadIInv, Types
<1>4. t \in Regs /\ t.pc = q.tf.pc /\ Rest(t, q.tf)
  BY <1>1, SMTT(30) DEF Typed, Regs, Rest
<1>5. a \in Alarms /\ a.cp = q.alarm.cp /\ a.state = q.alarm.state
  BY <1>1 DEF Typed, Alarms, Regs
<1> HIDE DEF t, a
<1>6. /\ DOMAIN q2 = ProcFields /\ q2.ctx = q.ctx /\ q2.state = q.state /\ q2.tf = t
      /\ q2.alarm = a /\ q2.calls = q.calls
  BY <1>1, Fields DEF FieldNames
<1> HIDE DEF q2
<1>7. Typed(s, q2, w)
  <2> HIDE DEF s, q, w
  <2> QED
    BY <1>1, <1>4, <1>5, <1>6 DEF Typed
<1>8. Match(q2.tf, w) /\ Below(q2.tf.pc, q2.alarm)
  BY <1>1, <1>4, <1>5, <1>6 DEF Match, Rest, Below
<1> QED
  BY <1>1, <1>2, <1>3, <1>6, <1>7, <1>8, CallStep

\* sigreturn() restores what the handler interrupted, all but a0.
LEMMA SigreturnThread ==
  ASSUME HartIInv, HartIInv', ThreadIInv, NEW h \in Harts, hart[h].mode = "S",
         hart[h].code = "syscall", UNCHANGED ticks, SysSigreturn(h)
  PROVE  ThreadIInv'
<1> DEFINE r == hart[h]
           s == stack[r.sp]
           q == proc[r.proc]
           w == seen[r.proc]
           a == [q.alarm EXCEPT !.cp = ZeroRegs, !.state = 0]
           t == [q.alarm.cp EXCEPT !.a0 = 0]
           y == IF q.alarm.state = 1 THEN "sigreturn" ELSE "bare"
           q2 == [q EXCEPT !.tf = t, !.alarm = a]
           w2 == [w EXCEPT !.why = y]
<1>1. /\ Typed(s, q, w) /\ Me(h) = r.proc /\ r.proc \in Procs /\ DOMAIN q = ProcFields
  BY InCall DEF CallCode
<1>2. proc' = [proc EXCEPT ![Me(h)] = q2]
  <2>1. proc' = [proc EXCEPT ![Me(h)].tf = t, ![Me(h)].alarm.cp = ZeroRegs,
                             ![Me(h)].alarm.state = 0]
    BY <1>1 DEF SysSigreturn
  <2>2. proc = [p \in Procs |-> proc[p]]
    BY Functions
  <2>3. q.alarm \in Alarms
    BY <1>1, SMTT(30) DEF Typed
  <2> HIDE DEF r, t
  <2> QED
    BY ONLY <1>1, <2>1, <2>2, <2>3, Fields, ZenonT(60) DEF FieldNames, q, q2, a
<1>3. Goto(h, "tail") /\ StackTo(h, s)
  BY <1>1, Unchanged, ZenonT(60) DEF SysSigreturn
<1>4. SeenTo(h, w2)
  BY <1>1 DEF SysSigreturn, SeenTo
<1>5. /\ t \in Regs /\ t.pc = q.alarm.cp.pc /\ t.a0 = 0 /\ Rest(t, q.alarm.cp)
  BY <1>1 DEF Typed, Alarms, Regs, Rest
<1>6. a \in Alarms /\ a.cp = ZeroRegs /\ a.state = 0
  BY <1>1 DEF Typed, Alarms, Regs, ZeroRegs, Names
<1>7. y \in {"sigreturn", "bare"} /\ (y = "sigreturn" => q.alarm.state = 1)
  OBVIOUS
<1> HIDE DEF t, a, y
<1>8. /\ w2 \in Views /\ w2.why = y /\ w2.orig = w.orig
  BY <1>1, <1>7 DEF Typed, Views, Whys
<1>9. /\ DOMAIN q2 = ProcFields /\ q2.ctx = q.ctx /\ q2.state = q.state /\ q2.tf = t
      /\ q2.alarm = a /\ q2.calls = q.calls
  BY <1>1, Fields DEF FieldNames
<1> HIDE DEF q2, w2
<1>10. Typed(s, q2, w2)
  <2>1. ZeroRegs.pc < HandlerPc
    BY DEF ZeroRegs, HandlerPc
  <2> HIDE DEF s, q, w
  <2> QED
    BY <1>1, <1>5, <1>6, <1>8, <1>9, <2>1 DEF Typed
<1>11. Match(q2.tf, w2) /\ Below(q2.tf.pc, q2.alarm)
  <2>1. q.alarm.cp.pc < HandlerPc /\ (q.alarm.state = 1 => q.alarm.cp = w.orig)
    BY <1>1 DEF Typed
  <2> HIDE DEF s, q, w
  <2> QED
    BY <1>5, <1>6, <1>7, <1>8, <1>9, <2>1 DEF Match, Rest, Below
<1> QED
  BY <1>1, <1>2, <1>3, <1>4, <1>9, <1>10, <1>11, CallStep

\* syscall(), for every number.
LEMMA SyscallThread ==
  ASSUME HartIInv, HartIInv', ThreadIInv, NEW h \in Harts, Syscall(h) PROVE ThreadIInv'
<1> DEFINE r == hart[h]
           s == stack[r.sp]
           q == proc[r.proc]
           w == seen[r.proc]
<1>1. r.mode = "S" /\ r.code = "syscall" /\ UNCHANGED ticks
  BY DEF Syscall, At
<1>2. /\ Typed(s, q, w) /\ w.why = "call" /\ Match(q.tf, w) /\ Below(q.tf.pc, q.alarm)
      /\ Me(h) = r.proc /\ r.proc \in Procs /\ DOMAIN q = ProcFields /\ DOMAIN s = StackFields
  BY <1>1, InCall DEF CallCode
<1>3. /\ UNCHANGED proc => proc' = [proc EXCEPT ![Me(h)] = q]
      /\ UNCHANGED stack => StackTo(h, s)
      /\ UNCHANGED seen => SeenTo(h, w)
  BY <1>2, Functions, Unchanged DEF SeenTo, ThreadIInv, Types
<1>4. CASE \E l \in {"work", "exit"} : Goto(h, l) /\ UNCHANGED <<stack, proc, seen>>
  BY <1>1, <1>2, <1>3, <1>4, CallStep
<1>5. CASE Finish(h, Err) /\ UNCHANGED <<stack, seen>>
  <2>1. Err \in Nat
    BY TrapAssumption, SMTT(30) DEF Err
  <2> QED
    BY <1>1, <1>2, <1>3, <1>5, <2>1, FinishThread DEF CallCode, Typed
<1>6. CASE /\ stack' = [stack EXCEPT ![r.sp].n = q.tf.a0]
           /\ Goto(h, "sleep") /\ UNCHANGED <<proc, seen>>
  <2> DEFINE s2 == [s EXCEPT !.n = q.tf.a0]
  <2>1. stack' = [stack EXCEPT ![r.sp] = s2]
    BY <1>6
  <2>2. DOMAIN s2 = StackFields /\ s2.frame = s.frame /\ s2.ticks0 = s.ticks0 /\ s2.n = q.tf.a0
    BY <1>2, Fields DEF FieldNames
  <2> HIDE DEF s2
  <2>3. StackTo(h, s2)
    BY <2>1, <2>2 DEF StackTo
  <2>4. Typed(s2, q, w)
    <3> HIDE DEF s, q, w
    <3> QED
      BY <1>2, <2>2 DEF Typed, Regs
  <2> QED
    BY <1>1, <1>2, <1>3, <1>6, <2>2, <2>3, <2>4, CallStep
<1>7. \/ SysSigalarm(h) \/ SysSigreturn(h)
      \/ \E l \in {"work", "exit"} : Goto(h, l) /\ UNCHANGED <<stack, proc, seen>>
      \/ Finish(h, Err) /\ UNCHANGED <<stack, seen>>
      \/ /\ stack' = [stack EXCEPT ![r.sp].n = q.tf.a0]
         /\ Goto(h, "sleep") /\ UNCHANGED <<proc, seen>>
  BY <1>2 DEF Syscall
<1> QED
  BY <1>1, <1>4, <1>5, <1>6, <1>7, SigalarmThread, SigreturnThread

\* alarm_handler() keeps the registers of the interrupted program in the copy.
LEMMA AlarmThread ==
  ASSUME HartIInv, HartIInv', ThreadIInv, NEW h \in Harts, At(h, "tail_timer"),
         AlarmHandler(Me(h)), Goto(h, "yield"), UNCHANGED <<stack, ticks>>
  PROVE  ThreadIInv'
<1> DEFINE r == hart[h]
           s == stack[r.sp]
           q == proc[r.proc]
           w == seen[r.proc]
           r2 == [r EXCEPT !.code = "yield"]
<1>1. r.mode = "S" /\ r.code = "tail_timer" /\ r.code \notin InTrap \cup {"scheduler"}
  BY DEF At, InTrap
<1>2. /\ r.proc # NoProc /\ Place(r, s, q) = "tail_timer" /\ q.state = "RUNNING"
  BY <1>1, PlaceHere
<1>3. /\ Typed(s, q, w) /\ OnHart(r, s, q, w, ticks) /\ DOMAIN r = HartFields
      /\ Me(h) = r.proc /\ r.proc \in Procs /\ DOMAIN q = ProcFields /\ StackTo(h, s)
  BY <1>2, ThreadHere, Here, Unchanged
<1>4. hart' = [hart EXCEPT ![h] = r2]
  BY Functions DEF Goto
<1>5. r2.proc = r.proc /\ r2.mode = "S" /\ r2.code = "yield"
  BY <1>1, <1>3, Fields DEF FieldNames
<1>6. w.why = "intr" /\ Match(q.tf, w) /\ Below(q.tf.pc, q.alarm)
  <2>1. Returns("tail_timer", q, w)
    BY <1>2, <1>3 DEF OnHart
  <2> HIDE DEF q, w
  <2> QED
    BY <2>1 DEF Returns
<1> HIDE DEF r2
<1>7. ASSUME NEW q2, NEW w2, proc' = [proc EXCEPT ![Me(h)] = q2], SeenTo(h, w2),
             DOMAIN q2 = ProcFields, q2.ctx = q.ctx, q2.state = q.state, Typed(s, q2, w2),
             Match(q2.tf, w2), Below(q2.tf.pc, q2.alarm)
      PROVE  ThreadIInv'
  <2>1. ProcTo(h, q2)
    BY <1>3, <1>7, ProcIs
  <2>2. Returns("yield", q2, w2) /\ Counts("yield", s, w2, ticks)
    BY <1>7 DEF Returns, Counts, CallPlaces, CallCode, Loop
  <2> QED
    BY <1>1, <1>2, <1>3, <1>4, <1>5, <1>7, <2>1, <2>2, CodeStep
<1>8. CASE AlarmCounts(q.alarm) /\ q.alarm.ticks + 1 = q.alarm.interval
  <2> DEFINE a == [q.alarm EXCEPT !.ticks = 0, !.state = 1, !.cp = q.tf]
             t == [q.tf EXCEPT !.pc = HandlerPc]
             q2 == [q EXCEPT !.alarm = a, !.tf = t]
             w2 == [w EXCEPT !.why = "alarm", !.orig = w.cont]
  <2>1. proc' = [proc EXCEPT ![Me(h)] = q2]
    <3>1. proc' = [proc EXCEPT ![Me(h)].alarm = a, ![Me(h)].tf.pc = HandlerPc]
      BY <1>3, <1>8 DEF AlarmHandler
    <3>2. proc = [p \in Procs |-> proc[p]]
      BY Functions
    <3> HIDE DEF r, a
    <3> QED
      BY ONLY <1>3, <3>1, <3>2, Fields DEF FieldNames, q, q2, t
  <2>2. SeenTo(h, w2)
    <3>1. seen' = [seen EXCEPT ![Me(h)].why = "alarm", ![Me(h)].orig = w.cont]
      BY <1>3, <1>8 DEF AlarmHandler
    <3>2. seen = [p \in Procs |-> seen[p]]
      BY DEF ThreadIInv, Types
    <3> HIDE DEF r
    <3> QED
      BY ONLY <1>3, <3>1, <3>2 DEF SeenTo, w, w2
  <2>3. t \in Regs /\ t.pc = HandlerPc /\ t.a0 = q.tf.a0 /\ Rest(t, q.tf)
    BY <1>3 DEF Typed, Regs, Rest, HandlerPc
  <2>4. a \in Alarms /\ a.cp = q.tf /\ a.state = 1
    BY <1>3 DEF Typed, Alarms
  <2>5. w2 \in Views /\ w2.why = "alarm" /\ w2.cont = w.cont /\ w2.orig = w.cont
    BY <1>3 DEF Typed, Views, Whys
  <2> HIDE DEF t, a
  <2>6. /\ DOMAIN q2 = ProcFields /\ q2.ctx = q.ctx /\ q2.state = q.state /\ q2.tf = t
        /\ q2.alarm = a /\ q2.calls = q.calls
    BY <1>3, Fields DEF FieldNames
  <2> HIDE DEF q2, w2
  <2>7. q.tf = w.cont
    <3>1. /\ q.tf \in Regs /\ w.cont \in Regs /\ q.tf.pc = w.cont.pc /\ q.tf.a0 = w.cont.a0
          /\ q.tf.a7 = w.cont.a7 /\ q.tf.x = w.cont.x
      BY <1>3, <1>6 DEF Typed, Views, Match, Rest
    <3> QED
      BY ONLY <3>1, SMTT(30) DEF Regs
  <2>8. q.tf.pc < HandlerPc
    BY <1>6, <1>8 DEF AlarmCounts, Below
  <2>9. Typed(s, q2, w2)
    <3> HIDE DEF s, q, w
    <3> QED
      BY <1>3, <2>3, <2>4, <2>5, <2>6, <2>7, <2>8 DEF Typed
  <2>10. Match(q2.tf, w2) /\ Below(q2.tf.pc, q2.alarm)
    <3> HIDE DEF s, q, w
    <3> QED
      BY <2>3, <2>4, <2>5, <2>6, <2>7, <2>8 DEF Match, Rest, Below
  <2> QED
    BY <1>7, <2>1, <2>2, <2>6, <2>9, <2>10
<1>9. CASE ~ (AlarmCounts(q.alarm) /\ q.alarm.ticks + 1 = q.alarm.interval)
  <2> DEFINE a == [q.alarm EXCEPT !.ticks = IF AlarmCounts(q.alarm) THEN @ + 1 ELSE @]
             q2 == [q EXCEPT !.alarm = a]
  <2>1. proc' = [proc EXCEPT ![Me(h)] = q2] /\ SeenTo(h, w)
    BY <1>3, <1>9 DEF AlarmHandler, SeenTo, ThreadIInv, Types
  <2>2. a \in Alarms /\ a.cp = q.alarm.cp /\ a.state = q.alarm.state
    BY <1>3 DEF Typed, Alarms
  <2> HIDE DEF a
  <2>3. /\ DOMAIN q2 = ProcFields /\ q2.ctx = q.ctx /\ q2.state = q.state /\ q2.tf = q.tf
        /\ q2.alarm = a /\ q2.calls = q.calls
    BY <1>3, Fields DEF FieldNames
  <2> HIDE DEF q2
  <2>4. Typed(s, q2, w)
    <3> HIDE DEF s, q, w
    <3> QED
      BY <1>3, <2>2, <2>3 DEF Typed
  <2>5. Match(q2.tf, w) /\ Below(q2.tf.pc, q2.alarm)
    BY <1>6, <2>2, <2>3 DEF Below
  <2> QED
    BY <1>7, <2>1, <2>3, <2>4, <2>5
<1> QED
  BY <1>8, <1>9

\* The end of usertrap().
LEMMA UsertrapTailThread ==
  ASSUME HartIInv, HartIInv', ThreadIInv, NEW h \in Harts, UsertrapTail(h) PROVE ThreadIInv'
<1> DEFINE r == hart[h]
           q == proc[Me(h)]
<1>1. r.mode = "S" /\ r.code \in {"tail", "tail_timer"} /\ UNCHANGED <<stack, ticks>>
  BY DEF UsertrapTail, At
<1>2. q.state = "RUNNING" /\ DOMAIN r = HartFields /\ Me(h) = r.proc
  BY <1>1, PlaceHere, Here DEF InTrap
<1>3. ASSUME NEW l \in {"exit", "usertrapret"}, l = "usertrapret" => r.code = "tail",
             Goto(h, l), UNCHANGED <<proc, seen>>
      PROVE  ThreadIInv'
  <2> DEFINE r2 == [r EXCEPT !.code = l]
  <2>1. hart' = [hart EXCEPT ![h] = r2] /\ ProcTo(h, q)
    BY <1>3, Functions, Unchanged DEF Goto
  <2>2. r2.proc = r.proc /\ r2.mode = "S" /\ r2.code = l
    BY <1>1, <1>2, Fields DEF FieldNames
  <2> HIDE DEF r2
  <2>3. /\ Leads(r.code, r2.code) /\ r2.code \notin InTrap
        /\ r.code \notin InTrap \cup {"scheduler", "usertrap"}
    BY <1>1, <1>3, <2>2 DEF Leads, InTrap, CallPlaces, CallCode, Loop
  <2> QED
    BY <1>1, <1>2, <1>3, <2>1, <2>2, <2>3, GotoThread
<1> QED
  BY <1>1, <1>3, AlarmThread DEF UsertrapTail, At

-----------------------------------------------------------------------------
(* Between user space and the kernel *)

\* usertrap() keeps the pc of the program in the trapframe, that of the next
\* instruction for a system call.
LEMMA UsertrapThread ==
  ASSUME HartIInv, HartIInv', ThreadIInv, NEW h \in Harts, Usertrap(h) PROVE ThreadIInv'
<1> DEFINE r == hart[h]
           s == stack[r.sp]
           q == proc[r.proc]
           w == seen[r.proc]
           k == [KernelStvec(r) EXCEPT !.sepc = 0, !.spc = "none"]
<1>1. /\ r.mode = "S" /\ r.code = "usertrap" /\ r.code \notin InTrap \cup {"scheduler"}
      /\ UNCHANGED <<ticks, seen>>
  BY DEF Usertrap, At, InTrap
<1>2. r.proc # NoProc /\ q.state = "RUNNING"
  BY <1>1, PlaceHere
<1>3. /\ Typed(s, q, w) /\ OnHart(r, s, q, w, ticks) /\ DOMAIN r = HartFields /\ Me(h) = r.proc
      /\ r.proc \in Procs /\ DOMAIN q = ProcFields /\ DOMAIN s = StackFields
  BY <1>2, ThreadHere, Here
<1>4. SeenTo(h, w) /\ (UNCHANGED stack => StackTo(h, s))
  BY <1>1, <1>3, Unchanged DEF SeenTo, ThreadIInv, Types
<1>5. UserRegs(r, q, w)
  BY <1>3 DEF OnHart
<1>6. /\ DOMAIN k = HartFields /\ k.mode = "S" /\ k.proc = r.proc /\ k.sp = r.sp
      /\ k.cause = r.cause
  BY <1>1, <1>3, Fields DEF FieldNames, KernelStvec
<1> HIDE DEF k
<1>7. ASSUME NEW r2, NEW q2, NEW s2, NEW t, hart' = [hart EXCEPT ![h] = r2],
             proc' = [proc EXCEPT ![Me(h)] = q2], StackTo(h, s2), r2.proc = r.proc,
             r2.mode = "S", r2.code \in {"syscall", "exit", "devintr"},
             DOMAIN q2 = ProcFields, q2.ctx = q.ctx, q2.state = q.state, q2.calls = q.calls,
             q2.alarm = q.alarm, q2.tf = t, t \in Regs, s2.frame = s.frame, s2.n = s.n,
             s2.ticks0 = s.ticks0,
             r2.code # "exit" => Match(t, w) /\ Below(t.pc, q.alarm),
             r2.code = "syscall" => w.why = "call", r2.code = "devintr" => w.why = "intr"
      PROVE  ThreadIInv'
  <2>1. ProcTo(h, q2)
    BY <1>3, <1>7, ProcIs
  <2>2. Typed(s2, q2, w)
    <3> HIDE DEF s, q, w
    <3> QED
      BY <1>3, <1>7 DEF Typed
  <2>3. Returns(r2.code, q2, w) /\ Counts(r2.code, s2, w, ticks)
    <3> HIDE DEF s, q, w
    <3> QED
      BY <1>7 DEF Returns, Counts, CallPlaces, CallCode, Loop
  <2> QED
    BY <1>1, <1>2, <1>4, <1>7, <2>1, <2>2, <2>3, CodeStep
<1>8. r.sepc \in Nat /\ Below(r.sepc, q.alarm)
  BY <1>1, <1>5, SMTT(30) DEF UserRegs
<1>9. CASE /\ hart' = [hart EXCEPT ![h] = [k EXCEPT !.code = "syscall", !.sie = TRUE,
                                                    !.cause = "none"]]
           /\ proc' = [proc EXCEPT ![r.proc].tf.pc = CallEpc(r.sepc)]
           /\ UNCHANGED stack /\ r.cause = "ecall"
  <2> DEFINE r2 == [k EXCEPT !.code = "syscall", !.sie = TRUE, !.cause = "none"]
             t == [q.tf EXCEPT !.pc = CallEpc(r.sepc)]
             q2 == [q EXCEPT !.tf = t]
  <2>1. r2.proc = r.proc /\ r2.mode = "S" /\ r2.code = "syscall"
    BY <1>6, Fields DEF FieldNames
  <2>2. hart' = [hart EXCEPT ![h] = r2] /\ proc' = [proc EXCEPT ![Me(h)] = q2]
    BY <1>3, <1>9
  <2>3. t \in Regs /\ t.pc = r.sepc + 1 /\ t.a7 = q.tf.a7 /\ t.x = q.tf.x
    BY <1>3, <1>8 DEF Typed, Regs, CallEpc
  <2> HIDE DEF t
  <2>4. /\ DOMAIN q2 = ProcFields /\ q2.ctx = q.ctx /\ q2.state = q.state /\ q2.tf = t
        /\ q2.alarm = q.alarm /\ q2.calls = q.calls
    BY <1>3, Fields DEF FieldNames
  <2> HIDE DEF r2, q2
  <2>5. /\ w.why = "call" /\ r.sepc \in {0, HandlerPc} /\ r.sepc = w.cont.pc /\ Rest(q.tf, w.cont)
    BY <1>1, <1>5, <1>9 DEF UserRegs
  <2>6. Match(t, w) /\ Below(t.pc, q.alarm)
    BY <1>8, <2>3, <2>5 DEF Match, Rest, Below, HandlerPc
  <2> QED
    BY <1>4, <1>7, <1>9, <2>1, <2>2, <2>3, <2>4, <2>5, <2>6
<1>10. CASE /\ hart' = [hart EXCEPT ![h] = [k EXCEPT !.code = "exit", !.cause = "none"]]
            /\ \/ proc' = [proc EXCEPT ![r.proc].tf.pc = r.sepc]
               \/ proc' = [proc EXCEPT ![r.proc].tf.pc = r.sepc, ![r.proc].killed = TRUE]
            /\ UNCHANGED stack
  <2> DEFINE r2 == [k EXCEPT !.code = "exit", !.cause = "none"]
             t == [q.tf EXCEPT !.pc = r.sepc]
             q2 == [q EXCEPT !.tf = t]
             q3 == [q EXCEPT !.tf = t, !.killed = TRUE]
  <2>1. r2.proc = r.proc /\ r2.mode = "S" /\ r2.code = "exit"
    BY <1>6, Fields DEF FieldNames
  <2>2. /\ hart' = [hart EXCEPT ![h] = r2]
        /\ proc' = [proc EXCEPT ![Me(h)] = q2] \/ proc' = [proc EXCEPT ![Me(h)] = q3]
    <3>1. /\ hart' = [hart EXCEPT ![h] = r2]
          /\ \/ proc' = [proc EXCEPT ![r.proc].tf.pc = r.sepc]
             \/ proc' = [proc EXCEPT ![r.proc].tf.pc = r.sepc, ![r.proc].killed = TRUE]
      BY <1>10
    <3>2. proc = [p \in Procs |-> proc[p]]
      BY Functions
    <3> HIDE DEF r, r2
    <3> QED
      BY ONLY <1>3, <3>1, <3>2, Fields DEF FieldNames, q, q2, q3, t
  <2>3. t \in Regs
    BY <1>3, <1>8 DEF Typed, Regs
  <2> HIDE DEF t
  <2>4. /\ DOMAIN q2 = ProcFields /\ q2.ctx = q.ctx /\ q2.state = q.state /\ q2.tf = t
        /\ q2.alarm = q.alarm /\ q2.calls = q.calls
    BY <1>3, Fields DEF FieldNames
  <2>5. /\ DOMAIN q3 = ProcFields /\ q3.ctx = q.ctx /\ q3.state = q.state /\ q3.tf = t
        /\ q3.alarm = q.alarm /\ q3.calls = q.calls
    BY <1>3, Fields, SMTT(30) DEF FieldNames
  <2> HIDE DEF r2, q2, q3
  <2>6. CASE proc' = [proc EXCEPT ![Me(h)] = q2]
    BY <1>4, <1>7, <1>10, <2>1, <2>2, <2>3, <2>4, <2>6
  <2>7. CASE proc' = [proc EXCEPT ![Me(h)] = q3]
    BY <1>4, <1>7, <1>10, <2>1, <2>2, <2>3, <2>5, <2>7
  <2> QED
    BY <2>2, <2>6, <2>7
<1>11. CASE /\ hart' = [hart EXCEPT ![h] = [k EXCEPT !.code = "devintr"]]
            /\ stack' = [stack EXCEPT ![k.sp].caller = "usertrap"]
            /\ proc' = [proc EXCEPT ![r.proc].tf.pc = r.sepc] /\ r.cause \in {"timer", "ext"}
  <2> DEFINE r2 == [k EXCEPT !.code = "devintr"]
             t == [q.tf EXCEPT !.pc = r.sepc]
             q2 == [q EXCEPT !.tf = t]
             s2 == [s EXCEPT !.caller = "usertrap"]
  <2>1. r2.proc = r.proc /\ r2.mode = "S" /\ r2.code = "devintr"
    BY <1>6, Fields DEF FieldNames
  <2>2. /\ hart' = [hart EXCEPT ![h] = r2] /\ proc' = [proc EXCEPT ![Me(h)] = q2]
        /\ stack' = [stack EXCEPT ![r.sp] = s2]
    BY <1>3, <1>6, <1>11
  <2>3. /\ t \in Regs /\ t.pc = r.sepc /\ t.a0 = q.tf.a0 /\ t.a7 = q.tf.a7 /\ t.x = q.tf.x
    BY <1>3, <1>8 DEF Typed, Regs
  <2> HIDE DEF t
  <2>4. /\ DOMAIN q2 = ProcFields /\ q2.ctx = q.ctx /\ q2.state = q.state /\ q2.tf = t
        /\ q2.alarm = q.alarm /\ q2.calls = q.calls
    BY <1>3, Fields DEF FieldNames
  <2>5. DOMAIN s2 = StackFields /\ s2.frame = s.frame /\ s2.n = s.n /\ s2.ticks0 = s.ticks0
    BY <1>3, Fields DEF FieldNames
  <2> HIDE DEF r2, q2, s2
  <2>6. /\ w.why = "intr" /\ r.sepc = w.cont.pc /\ q.tf.a0 = w.cont.a0 /\ Rest(q.tf, w.cont)
    BY <1>1, <1>5, <1>11 DEF UserRegs
  <2>7. Match(t, w) /\ Below(t.pc, q.alarm)
    BY <1>8, <2>3, <2>6 DEF Match, Rest, Below
  <2>8. StackTo(h, s2)
    BY <2>2, <2>5 DEF StackTo
  <2> QED
    BY <1>7, <2>1, <2>2, <2>3, <2>4, <2>5, <2>6, <2>7, <2>8
<1> QED
  BY <1>3, <1>6, <1>9, <1>10, <1>11 DEF Usertrap, k

\* userret loads the registers of the trapframe.
LEMMA UserretThread ==
  ASSUME HartIInv, HartIInv', ThreadIInv, NEW h \in Harts, Userret(h) PROVE ThreadIInv'
<1> DEFINE r == hart[h]
           s == stack[r.sp]
           q == proc[r.proc]
           w == seen[r.proc]
           r2 == [r EXCEPT !.stvec = "uservec", !.satp = UserTable(r.proc),
                           !.u = UserretRegs(r.proc), !.mode = "U", !.sie = TRUE, !.code = "user"]
           s2 == [s EXCEPT !.caller = "none"]
           q2 == [q EXCEPT !.ksatp = r.satp, !.ksp = KStack(r.proc), !.khart = r.tp,
                           !.tf = ZeroRegs]
<1>1. r.mode = "S" /\ r.code = "utr_csr" /\ UNCHANGED <<ticks, seen>>
  BY DEF Userret, At
<1>2. /\ r.proc # NoProc /\ q.state = "RUNNING" /\ s.frame.code = "none"
      /\ Place(r, s, q) = "utr_csr" /\ ~ At(h, "clock_wake")
  BY <1>1, PlaceHere DEF InTrap
<1>3. /\ Typed(s, q, w) /\ OnHart(r, s, q, w, ticks) /\ DOMAIN r = HartFields /\ Me(h) = r.proc
      /\ r.proc \in Procs /\ DOMAIN q = ProcFields /\ DOMAIN s = StackFields
  BY <1>2, ThreadHere, Here, SMTT(30)
<1>4. hart' = [hart EXCEPT ![h] = r2] /\ stack' = [stack EXCEPT ![r.sp] = s2] /\ SeenTo(h, w)
  BY <1>1, <1>3, SMTT(30) DEF Userret, SeenTo, ThreadIInv, Types
<1>5. proc' = [proc EXCEPT ![Me(h)] = q2]
  <2>1. proc' = [proc EXCEPT ![Me(h)].ksatp = r.satp, ![Me(h)].ksp = KStack(r.proc),
                             ![Me(h)].khart = r.tp, ![Me(h)].tf = ZeroRegs]
    BY <1>3 DEF Userret
  <2>2. proc = [p \in Procs |-> proc[p]]
    BY Functions
  <2> HIDE DEF r
  <2> QED
    BY ONLY <1>3, <2>1, <2>2 DEF q, q2
<1>6. r2.proc = r.proc /\ r2.mode = "U" /\ r2.u = q.tf
  BY <1>3, Fields DEF FieldNames, UserretRegs
<1>7. /\ DOMAIN q2 = ProcFields /\ q2.ctx = q.ctx /\ q2.state = q.state /\ q2.tf = ZeroRegs
      /\ q2.alarm = q.alarm /\ q2.calls = q.calls
  BY <1>3, Fields DEF FieldNames
<1>8. DOMAIN s2 = StackFields /\ s2.frame = s.frame /\ s2.n = s.n /\ s2.ticks0 = s.ticks0
  BY <1>3, Fields DEF FieldNames
<1> HIDE DEF r2, q2, s2
<1>9. ProcTo(h, q2) /\ StackTo(h, s2)
  BY <1>3, <1>4, <1>5, <1>7, <1>8, ProcIs DEF StackTo
<1>10. ZeroRegs \in Regs
  BY DEF ZeroRegs, Regs, Names
<1>11. q2.state = "RUNNING"
  BY <1>2, <1>7
<1> HIDE DEF s, q, w
<1>12. Typed(s2, q2, w)
  BY <1>3, <1>7, <1>8, <1>10 DEF Typed
<1>13. Match(q.tf, w) /\ Below(q.tf.pc, q.alarm)
  BY <1>2, <1>3 DEF OnHart, Returns
<1>14. UserRegs(r2, q2, w)
  BY <1>3, <1>6, <1>7, <1>13 DEF UserRegs, Typed
<1>15. Place(r2, s2, q2) = "user"
  BY <1>6 DEF Place
<1>16. OnHart(r2, s2, q2, w, ticks)
  BY <1>2, <1>6, <1>8, <1>14, <1>15 DEF OnHart, FrameFits, Returns, Counts, CallPlaces, CallCode, Loop
<1> QED
  BY <1>1, <1>2, <1>4, <1>6, <1>9, <1>11, <1>12, <1>16, ThreadStep

\* The program of hart h traps with registers u, for cause c.
Entered(h, c, u, w2) ==
  LET q == proc[Me(h)] IN
  /\ u \in Regs /\ Below(u.pc, q.alarm)
  /\ w2 \in Views /\ (q.alarm.state = 1 => w2.orig = seen[Me(h)].orig)
  /\ c \in {"timer", "ext", "ecall"} => u = w2.cont
  /\ c \in {"timer", "ext"} => w2.why = "intr"
  /\ c = "ecall" => w2.why = "call" /\ u.pc \in {0, HandlerPc}

\* uservec saves the registers of the program in the trapframe.
LEMMA UservecThread ==
  ASSUME HartIInv, HartIInv', ThreadIInv, NEW h \in Harts, NEW c, NEW r0, NEW w2,
         hart[h].mode = "U", r0 = hart[h] \/ \E u0 : r0 = [hart[h] EXCEPT !.u = u0],
         Vector(h, Taken(r0, c)), UNCHANGED ticks, SeenTo(h, w2), Entered(h, c, r0.u, w2)
  PROVE  ThreadIInv'
<1> DEFINE r == hart[h]
           s == stack[r.sp]
           q == proc[r.proc]
           w == seen[r.proc]
           k == Taken(r0, c)
           t == [k.u EXCEPT !.pc = q.tf.pc]
           r2 == [k EXCEPT !.sp = q.ksp, !.tp = q.khart, !.satp = q.ksatp,
                           !.code = "usertrap", !.u = ZeroRegs]
           q2 == [q EXCEPT !.tf = t, !.khart = NoHart]
<1>1. /\ FitsUser(h, r, q) /\ DOMAIN r = HartFields /\ Me(h) = r.proc
      /\ r.proc \in Procs /\ r.proc # NoProc /\ DOMAIN q = ProcFields /\ r.mode = "U"
  BY InUser
<1>2. Typed(s, q, w) /\ OnHart(r, s, q, w, ticks) /\ ~ At(h, "clock_wake")
  BY <1>1, ThreadHere DEF At
<1>3. /\ DOMAIN k = HartFields /\ k.code = "uservec" /\ k.mode = "S" /\ k.cause = c
      /\ k.satp = r.satp /\ k.proc = r.proc /\ k.u = r0.u /\ k.sepc = r0.u.pc
  <2>1. /\ DOMAIN r0 = HartFields /\ r0.mode = "U"
        /\ r0.stvec = r.stvec /\ r0.satp = r.satp /\ r0.proc = r.proc
    BY <1>1, Fields DEF FieldNames
  <2>2. r.stvec = "uservec"
    BY <1>1 DEF FitsUser
  <2> HIDE DEF r
  <2> QED
    BY <2>1, <2>2, Fields DEF FieldNames, Taken
<1>4. Vector(h, k)
  OBVIOUS
<1> HIDE DEF k
<1>5. Uservec(h, k) /\ k.satp[2] = r.proc
  BY <1>1, <1>3, <1>4 DEF Vector, UserTable, FitsUser
<1>6. hart' = [hart EXCEPT ![h] = r2] /\ StackTo(h, s)
  BY <1>5, Unchanged DEF Uservec
<1>7. proc' = [proc EXCEPT ![Me(h)] = q2]
  <2>1. proc' = [proc EXCEPT ![Me(h)].tf = t, ![Me(h)].khart = NoHart]
    BY <1>1, <1>5 DEF Uservec
  <2>2. proc = [p \in Procs |-> proc[p]]
    BY Functions
  <2> HIDE DEF t, r
  <2> QED
    BY ONLY <1>1, <2>1, <2>2 DEF q, q2
<1>8. t \in Regs /\ t.a0 = r0.u.a0 /\ Rest(t, r0.u)
  BY <1>1, <1>2, <1>3 DEF Typed, Entered, Regs, Rest
<1> HIDE DEF t
<1>9. /\ DOMAIN q2 = ProcFields /\ q2.ctx = q.ctx /\ q2.state = q.state /\ q2.tf = t
      /\ q2.alarm = q.alarm /\ q2.calls = q.calls
  BY <1>1, Fields DEF FieldNames
<1>10. /\ r2.proc = r.proc /\ r2.mode = "S" /\ r2.code = "usertrap" /\ r2.sepc = r0.u.pc
       /\ r2.cause = c
  BY <1>3, Fields DEF FieldNames
<1> HIDE DEF r2, q2
<1>11. ProcTo(h, q2)
  BY <1>1, <1>7, <1>9, ProcIs
<1>12. q2.state = "RUNNING"
  BY <1>1, <1>9 DEF FitsUser
<1>13. /\ r0.u \in Regs /\ Below(r0.u.pc, q.alarm)
       /\ w2 \in Views /\ (q.alarm.state = 1 => w2.orig = w.orig)
       /\ c \in {"timer", "ext", "ecall"} => r0.u = w2.cont
       /\ c \in {"timer", "ext"} => w2.why = "intr"
       /\ c = "ecall" => w2.why = "call" /\ r0.u.pc \in {0, HandlerPc}
  BY <1>1 DEF Entered
<1> HIDE DEF r, s, q, w
<1>14. Typed(s, q2, w2)
  BY <1>2, <1>8, <1>9, <1>13 DEF Typed
<1>15. s.frame.code = "none"
  BY <1>1, <1>2 DEF OnHart, FrameFits
<1>16. Place(r2, s, q2) = "usertrap"
  BY <1>10, <1>12, <1>15 DEF Place
<1>17. UserRegs(r2, q2, w2)
  BY <1>8, <1>9, <1>10, <1>13 DEF UserRegs, Regs, Rest
<1>18. OnHart(r2, s, q2, w2, ticks)
  BY <1>15, <1>16, <1>17 DEF OnHart, FrameFits, Returns, Counts, CallPlaces, CallCode, Loop
<1> QED
  BY <1>1, <1>2, <1>6, <1>10, <1>11, <1>12, <1>14, <1>18, ThreadStep DEF r

\* What the invariant says of a hart in user space.
LEMMA UserHere ==
  ASSUME HartIInv, ThreadIInv, NEW h \in Harts, hart[h].mode = "U"
  PROVE  LET r == hart[h]
             s == stack[r.sp]
             q == proc[r.proc]
             w == seen[r.proc]
         IN /\ Typed(s, q, w) /\ OnHart(r, s, q, w, ticks) /\ ~ At(h, "clock_wake")
            /\ Me(h) = r.proc /\ r.proc \in Procs /\ r.proc # NoProc /\ DOMAIN r = HartFields
            /\ r.u \in Regs /\ Match(r.u, w) /\ Below(r.u.pc, q.alarm)
            /\ s.frame.code = "none" /\ q.state = "RUNNING"
<1> DEFINE r == hart[h]
           s == stack[r.sp]
           q == proc[r.proc]
           w == seen[r.proc]
<1>1. /\ FitsUser(h, r, q) /\ DOMAIN r = HartFields /\ Me(h) = r.proc
      /\ r.proc \in Procs /\ r.proc # NoProc /\ r.mode = "U"
  BY InUser
<1>2. Typed(s, q, w) /\ OnHart(r, s, q, w, ticks) /\ ~ At(h, "clock_wake")
  BY <1>1, ThreadHere DEF At
<1>3. q.state = "RUNNING"
  BY <1>1 DEF FitsUser
<1> HIDE DEF r, s, q, w
<1>4. r.u \in Regs /\ Match(r.u, w) /\ Below(r.u.pc, q.alarm) /\ s.frame.code = "none"
  BY <1>1, <1>2 DEF OnHart, UserRegs, FrameFits
<1> QED
  BY <1>1, <1>2, <1>3, <1>4 DEF r, s, q, w

\* What the observer notes of a trap.
LEMMA EnterIs ==
  ASSUME HartIInv, ThreadIInv, NEW h \in Harts, hart[h].mode = "U", NEW y \in Whys,
         NEW u \in Regs, Enter(Me(h), y, u)
  PROVE  \E w2 \in Views : /\ SeenTo(h, w2) /\ w2.why = y /\ w2.cont = u
                           /\ proc[Me(h)].alarm.state = 1 => w2.orig = seen[Me(h)].orig
<1> DEFINE a == proc[Me(h)].alarm
           w == seen[Me(h)]
           o == IF a.state = 1 THEN w.orig ELSE ZeroRegs
           w2 == [w EXCEPT !.why = y, !.cont = u, !.orig = o]
<1>1. Me(h) \in Procs /\ w \in Views
  BY UserHere DEF Typed
<1>2. SeenTo(h, w2)
  <2>1. seen' = [seen EXCEPT ![Me(h)].why = y, ![Me(h)].cont = u, ![Me(h)].orig = o]
    BY DEF Enter
  <2>2. seen = [p \in Procs |-> seen[p]]
    BY DEF ThreadIInv, Types
  <2> HIDE DEF o
  <2> QED
    BY ONLY <1>1, <2>1, <2>2 DEF SeenTo, w, w2
<1>3. o \in Regs /\ (a.state = 1 => o = w.orig)
  BY <1>1 DEF Views, ZeroRegs, Regs, Names
<1> HIDE DEF o
<1>4. w2 \in Views /\ w2.why = y /\ w2.cont = u /\ w2.orig = o
  BY <1>1, <1>3 DEF Views
<1> QED
  BY <1>2, <1>3, <1>4

\* Interrupts, system calls and exceptions of a user program.
LEMMA TrapThread ==
  ASSUME HartIInv, HartIInv', ThreadIInv, NEW h \in Harts, Interrupt(h) \/ Ecall(h) \/ UserFault(h)
  PROVE  ThreadIInv'
<1> DEFINE r == hart[h]
           q == proc[Me(h)]
           w == seen[Me(h)]
<1>1. CASE Interrupt(h) /\ r.mode # "U"
  <2>1. r.mode = "S"
    BY <1>1, Here DEF Fits
  <2> QED
    BY <1>1, <2>1, KernelInterruptThread DEF Interrupt
<1>2. CASE Interrupt(h) /\ r.mode = "U"
  <2>1. PICK c \in {"timer", "ext"} : Vector(h, Taken(r, c))
    BY <1>2 DEF Interrupt
  <2>2. r.u \in Regs /\ Below(r.u.pc, q.alarm)
    BY <1>2, UserHere
  <2>3. PICK w2 \in Views : /\ SeenTo(h, w2) /\ w2.why = "intr" /\ w2.cont = r.u
                            /\ q.alarm.state = 1 => w2.orig = w.orig
    BY <1>2, <2>2, EnterIs DEF Interrupt, Whys
  <2>4. Entered(h, c, r.u, w2)
    BY <2>1, <2>2, <2>3 DEF Entered
  <2> QED
    BY <1>2, <2>1, <2>3, <2>4, UservecThread DEF Interrupt
<1>3. CASE Ecall(h)
  <2>1. PICK c \in q.calls : LET u == [r.u EXCEPT !.a7 = c[1], !.a0 = c[2]] IN
               /\ Vector(h, Taken([r EXCEPT !.u = u], "ecall"))
               /\ Enter(Me(h), "call", u)
    BY <1>3 DEF Ecall
  <2> DEFINE u == [r.u EXCEPT !.a7 = c[1], !.a0 = c[2]]
             r0 == [r EXCEPT !.u = u]
  <2>2. r.mode = "U" /\ r.u.pc \in {0, HandlerPc} /\ UNCHANGED ticks
    BY <1>3 DEF Ecall
  <2>3. /\ r.u \in Regs /\ Below(r.u.pc, q.alarm) /\ DOMAIN r = HartFields
        /\ c[1] \in Names /\ c[2] \in Nat
    BY <2>2, UserHere DEF Typed
  <2>4. u \in Regs /\ u.pc = r.u.pc
    BY <2>3 DEF Regs
  <2>5. Vector(h, Taken(r0, "ecall")) /\ Enter(Me(h), "call", u)
    BY <2>1
  <2> HIDE DEF u
  <2>6. r0.u = u
    BY <2>3, Fields DEF FieldNames
  <2>7. PICK w2 \in Views : /\ SeenTo(h, w2) /\ w2.why = "call" /\ w2.cont = u
                            /\ q.alarm.state = 1 => w2.orig = w.orig
    BY <2>2, <2>4, <2>5, EnterIs DEF Whys
  <2>8. Entered(h, "ecall", r0.u, w2)
    BY <2>2, <2>3, <2>4, <2>6, <2>7 DEF Entered
  <2>9. \E u0 : r0 = [r EXCEPT !.u = u0]
    OBVIOUS
  <2> HIDE DEF r0
  <2> QED
    BY <2>2, <2>5, <2>7, <2>8, <2>9, UservecThread
<1>4. CASE UserFault(h)
  <2>1. /\ r.mode = "U" /\ Vector(h, Taken(r, "fault")) /\ UNCHANGED <<ticks, seen>>
    BY <1>4 DEF UserFault
  <2>2. r.u \in Regs /\ Below(r.u.pc, q.alarm) /\ w \in Views /\ Me(h) \in Procs
    BY <2>1, UserHere DEF Typed
  <2>3. SeenTo(h, w)
    BY <2>1, <2>2 DEF SeenTo, ThreadIInv, Types
  <2>4. Entered(h, "fault", r.u, w)
    BY <2>2 DEF Entered
  <2> QED
    BY <2>1, <2>3, <2>4, UservecThread
<1> QED
  BY <1>1, <1>2, <1>3, <1>4

\* The handler is at addresses of its own.
LEMMA UserJumpThread ==
  ASSUME HartIInv, HartIInv', ThreadIInv, NEW h \in Harts, UserJump(h) PROVE ThreadIInv'
<1> DEFINE r == hart[h]
           s == stack[r.sp]
           q == proc[r.proc]
           w == seen[r.proc]
           t == [pc |-> r.u.pc - 1, a0 |-> 1, a7 |-> "none",
                 x |-> IF r.u.pc = 1 THEN r.u.x ELSE Me(h) + NP]
           r2 == [r EXCEPT !.u = t]
           w2 == [w EXCEPT !.why = "ran", !.cont = ZeroRegs]
<1>1. /\ hart' = [hart EXCEPT ![h] = r2] /\ r.mode = "U" /\ UNCHANGED <<stack, proc, ticks>>
      /\ r.u.pc \in {1, HandlerPc + 1}
  BY DEF UserJump
<1>2. /\ Typed(s, q, w) /\ ~ At(h, "clock_wake") /\ Me(h) = r.proc /\ r.proc \in Procs
      /\ r.proc # NoProc /\ DOMAIN r = HartFields /\ r.u \in Regs /\ Below(r.u.pc, q.alarm)
      /\ s.frame.code = "none" /\ q.state = "RUNNING"
  BY <1>1, UserHere
<1>3. StackTo(h, s) /\ ProcTo(h, q)
  BY <1>1, <1>2, Unchanged
<1>4. SeenTo(h, w2)
  <2>1. seen' = [seen EXCEPT ![Me(h)].why = "ran", ![Me(h)].cont = ZeroRegs]
    BY DEF UserJump
  <2>2. seen = [p \in Procs |-> seen[p]]
    BY DEF ThreadIInv, Types
  <2> HIDE DEF r
  <2> QED
    BY ONLY <1>2, <2>1, <2>2 DEF SeenTo, w, w2
<1>5. t \in Regs /\ t.pc = r.u.pc - 1
  <2>1. /\ r.u.pc - 1 \in Nat /\ Me(h) + NP \in Nat /\ r.u.x \in Nat
    BY <1>1, <1>2, TrapAssumption DEF HandlerPc, Regs, Procs
  <2> QED
    BY <2>1 DEF Regs, Names
<1>6. Below(t.pc, q.alarm)
  BY <1>1, <1>2, <1>5 DEF Below, HandlerPc
<1> HIDE DEF t
<1>7. r2.proc = r.proc /\ r2.mode = "U" /\ r2.u = t
  BY <1>1, <1>2, Fields DEF FieldNames
<1>8. w2 \in Views /\ w2.why = "ran" /\ w2.orig = w.orig
  BY <1>2 DEF Typed, Views, Whys, ZeroRegs, Regs, Names
<1> HIDE DEF r2, w2
<1>9. Typed(s, q, w2)
  <2> HIDE DEF s, q, w
  <2> QED
    BY <1>2, <1>8 DEF Typed
<1>10. UserRegs(r2, q, w2)
  BY <1>5, <1>6, <1>7, <1>8 DEF UserRegs, Match
<1>11. Place(r2, s, q) = "user"
  BY <1>7 DEF Place
<1>12. OnHart(r2, s, q, w2, ticks)
  BY <1>2, <1>10, <1>11 DEF OnHart, FrameFits, Returns, Counts, CallPlaces, CallCode, Loop
<1> QED
  BY <1>1, <1>2, <1>3, <1>4, <1>7, <1>9, <1>12, ThreadStep

-----------------------------------------------------------------------------
(* The clock, kill() and fork() *)

\* kill() leaves every thread where it is.
LEMMA KillThread ==
  ASSUME HartIInv, HartIInv', ThreadIInv, NEW h \in Harts, NEW p \in Procs, Kill(h, p)
  PROVE  ThreadIInv'
<1> DEFINE r == hart[h]
           s == stack[r.sp]
           q == proc[r.proc]
           w == seen[r.proc]
<1>1. /\ r.mode = "S" /\ r.code = "work" /\ UNCHANGED <<hart, stack, seen, ticks>> /\ p # Me(h)
      /\ ~ At(h, "clock_wake")
  BY DEF Kill, At
<1>2. Me(h) = r.proc /\ r.proc # NoProc /\ q.state = "RUNNING" /\ r.proc \in Procs
  BY <1>1, InCall DEF CallCode
<1>3. Typed(s, q, w) /\ OnHart(r, s, q, w, ticks) /\ r.sp = KStack(r.proc)
  BY <1>2, ThreadHere
<1>4. \A x \in Procs : SameUser(proc[x], proc'[x]) /\ (x # p => proc'[x] = proc[x])
  <2> DEFINE k == [proc[p] EXCEPT !.killed = TRUE,
                                  !.state = IF @ = "SLEEPING" THEN "RUNNABLE" ELSE @]
  <2>1. proc' = [proc EXCEPT ![p] = k]
    <3>1. proc' = [proc EXCEPT ![p].killed = TRUE,
                               ![p].state = IF @ = "SLEEPING" THEN "RUNNABLE" ELSE @]
      BY DEF Kill
    <3>2. proc = [x \in Procs |-> proc[x]] /\ DOMAIN proc[p] = ProcFields
      BY Functions DEF HartIInv, Shapes
    <3> QED
      BY ONLY p \in Procs, <3>1, <3>2, Fields DEF FieldNames
  <2>2. SameUser(proc[p], k)
    <3>1. DOMAIN proc[p] = ProcFields
      BY DEF HartIInv, Shapes
    <3> QED
      BY ONLY <3>1, Fields DEF FieldNames, SameUser
  <2> HIDE DEF k
  <2> QED
    BY <2>1, <2>2, Functions DEF SameUser
<1>5. OthersAlone(h)
  BY <1>1, <1>4 DEF OthersAlone, ThreadIInv, Types
<1>6. proc'[r.proc] = q
  BY <1>1, <1>2, <1>4
<1> QED
  BY <1>1, <1>2, <1>3, <1>5, <1>6, ThreadMoves

\* wakeup() wakes every sleeper, and devintr() returns.
LEMMA ClockWakeThread ==
  ASSUME HartIInv, HartIInv', ThreadIInv, NEW h \in Harts, ClockWake(h) PROVE ThreadIInv'
<1> DEFINE r == hart[h]
           s == stack[r.sp]
           q == proc[r.proc]
           w == seen[r.proc]
           rr == Release(r)
<1>1. /\ r.mode = "S" /\ r.code = "clock_wake" /\ UNCHANGED <<stack, seen, ticks>>
      /\ DevReturn(h, rr, 2) /\ proc' = Wakeup(h)
  BY DEF ClockWake, At
<1>2. Fits(h, r, s, q) /\ DOMAIN r = HartFields /\ Me(h) = r.proc
  BY Here
<1>3. Carried(r, rr)
  BY <1>1, <1>2, Fields DEF FieldNames, Carried, Release, PopOff
<1> HIDE DEF rr
<1>4. /\ \E r2 : hart' = [hart EXCEPT ![h] = r2] /\ hart'[h] = r2
      /\ hart'[h].mode = "S" /\ hart'[h].proc = r.proc /\ hart'[h].code # "usertrap"
      /\ r.proc # NoProc => /\ FrameFits(hart'[h], s)
                            /\ \/ Place(hart'[h], s, q) = Place(r, s, q)
                               \/ Leads(Place(r, s, q), Place(hart'[h], s, q))
  BY <1>1, <1>3, DevReturnPlace
<1>5. ASSUME NEW p \in Procs PROVE SameUser(proc[p], proc'[p])
  <2>1. \/ proc'[p] = proc[p]
        \/ proc[p].state = "SLEEPING" /\ proc'[p] = [proc[p] EXCEPT !.state = "RUNNABLE"]
    BY <1>1 DEF Wakeup
  <2>2. DOMAIN proc[p] = ProcFields
    BY DEF HartIInv, Shapes
  <2> QED
    BY ONLY <2>1, <2>2, Fields DEF FieldNames, SameUser
<1>6. ASSUME NEW p \in Procs, proc'[p].state = "SLEEPING" PROVE FALSE
  <2>1. CASE p = Me(h)
    <3>1. q.state = "RUNNING" /\ p = r.proc /\ r.proc # NoProc
      BY <1>1, <1>2, <2>1, StacksApart DEF Fits, FitsKernel
    <3> QED
      BY <1>1, <1>6, <2>1, <3>1 DEF Wakeup
  <2>2. CASE p # Me(h)
    <3>1. proc'[p] = IF proc[p].state = "SLEEPING"
                     THEN [proc[p] EXCEPT !.state = "RUNNABLE"] ELSE proc[p]
      BY <1>1, <2>2 DEF Wakeup
    <3>2. DOMAIN proc[p] = ProcFields
      BY DEF HartIInv, Shapes
    <3> QED
      BY ONLY <1>6, <3>1, <3>2, Fields DEF FieldNames
  <2> QED
    BY <2>1, <2>2
<1>7. \A g \in Harts \ {h} : hart'[g] = hart[g]
  BY <1>4, Functions
<1>8. OthersAlone(h)
  BY <1>1, <1>5, <1>7 DEF OthersAlone, ThreadIInv, Types
<1>9. CASE r.proc = NoProc
  BY <1>2, <1>4, <1>6, <1>8, <1>9, ThreadMoves
<1>10. CASE r.proc # NoProc
  <2>1. /\ Typed(s, q, w) /\ OnHart(r, s, q, w, ticks) /\ r.sp = KStack(r.proc)
        /\ r.proc \in Procs
    BY <1>10, ThreadHere
  <2>2. Typed(s, q, w) /\ OnHart(hart'[h], s, q, w, ticks)
    BY <1>4, <1>10, <2>1, PlainFits
  <2>3. proc'[r.proc] = q
    BY <1>1, <1>2, <2>1 DEF Wakeup
  <2>4. hart'[h].sp = KStack(r.proc)
    <3>1. hart'[h].sp = StackOf(h, hart'[h].proc)
      BY DEF HartIInv, HartsFit, Fits
    <3> QED
      BY <1>4, <1>10, <3>1 DEF StackOf
  <2> QED
    BY <1>1, <1>2, <1>4, <1>6, <1>8, <1>10, <2>1, <2>2, <2>3, <2>4, ThreadMoves
<1> QED
  BY <1>9, <1>10

\* The remainder of a number that is not far outside of the range.
LEMMA ModSmall ==
  ASSUME NEW M \in Nat \ {0}, NEW a \in Int
  PROVE  /\ a \in 0..(M - 1) => a % M = a
         /\ a + M \in 0..(M - 1) => a % M = a + M
         /\ a - M \in 0..(M - 1) => a % M = a - M
<1>1. a \in 0..(M - 1) => a % M = a
  OBVIOUS
<1>2. a + M \in 0..(M - 1) => a % M = a + M
  OBVIOUS
<1>3. a - M \in 0..(M - 1) => a % M = a - M
  OBVIOUS
<1> QED
  BY <1>1, <1>2, <1>3

\* ticks - ticks0 counts up to the wrap of ticks and past it.
LEMMA ModNext ==
  ASSUME NEW M \in Nat \ {0}, NEW n \in 0..(M - 1), NEW t \in 0..(M - 1), ((n - t) % M) + 1 < M
  PROVE  (((n + 1) % M) - t) % M = ((n - t) % M) + 1
<1> DEFINE d == IF n >= t THEN n - t ELSE n - t + M
           k == IF n + 1 < M THEN n + 1 ELSE 0
<1>1. (n - t) % M = d /\ (n + 1) % M = k /\ d \in 0..(M - 1) /\ k \in 0..(M - 1)
  BY ModSmall
<1>2. d + 1 < M
  BY <1>1
<1>3. (k - t) % M = d + 1
  <2>1. k - t \in 0..(M - 1) => k - t = d + 1
    BY <1>2
  <2>2. k - t + M \in 0..(M - 1) => k - t + M = d + 1
    BY <1>2
  <2>3. k - t \in 0..(M - 1) \/ k - t + M \in 0..(M - 1)
    OBVIOUS
  <2>4. k - t \in Int /\ M \in Nat \ {0}
    BY <1>1
  <2>5. CASE k - t \in 0..(M - 1)
    <3>1. (k - t) % M = k - t
      BY ONLY <2>4, <2>5, ModSmall
    <3> QED
      BY <2>1, <2>5, <3>1
  <2>6. CASE k - t + M \in 0..(M - 1)
    <3>1. (k - t) % M = k - t + M
      BY ONLY <2>4, <2>6, ModSmall
    <3> QED
      BY <2>2, <2>6, <3>1
  <2> QED
    BY <2>3, <2>5, <2>6
<1> QED
  BY <1>1, <1>3

\* A tick keeps what a sleeper counts, but not what it has read of ticks.
LEMMA TickKept ==
  ASSUME NEW s, NEW q, NEW w, NEW w2, NEW n \in 0..(TickMod - 1), Typed(s, q, w),
         w2 = [w EXCEPT !.slept = IF s.n # 0 /\ @ < TickMod THEN @ + 1 ELSE @]
  PROVE  /\ Typed(s, q, w2)
         /\ \A l : Returns(l, q, w) => Returns(l, q, w2)
         /\ \A r : UserRegs(r, q, w) => UserRegs(r, q, w2)
         /\ \A l : l # "sleep_in" /\ Counts(l, s, w, n) => Counts(l, s, w2, (n + 1) % TickMod)
<1> DEFINE z == IF s.n # 0 /\ w.slept < TickMod THEN w.slept + 1 ELSE w.slept
<1>1. w \in Views /\ s.n \in Nat /\ s.ticks0 \in 0..(TickMod - 1) /\ TickMod \in Nat \ {0}
  BY TrapAssumption DEF Typed
<1>2. w.slept \in 0..TickMod
  BY <1>1 DEF Views
<1>3. z \in 0..TickMod /\ z >= w.slept
  BY <1>1, <1>2
<1>4. w2 = [w EXCEPT !.slept = z]
  OBVIOUS
<1> HIDE DEF z
<1>5. w2 \in Views /\ w2.why = w.why /\ w2.cont = w.cont /\ w2.orig = w.orig /\ w2.slept = z
  BY <1>1, <1>3, <1>4 DEF Views
<1>6. Typed(s, q, w2)
  BY <1>5 DEF Typed
<1>7. \A l : Returns(l, q, w) => Returns(l, q, w2)
  BY <1>5 DEF Returns, Match
<1>8. \A r : UserRegs(r, q, w) => UserRegs(r, q, w2)
  BY <1>5 DEF UserRegs, Match
<1>9. ASSUME NEW l, l # "sleep_in", Counts(l, s, w, n)
      PROVE  Counts(l, s, w2, (n + 1) % TickMod)
  <2>1. ASSUME l \in Loop, s.n # 0, w2.slept < TickMod
        PROVE  w2.slept = (((n + 1) % TickMod) - s.ticks0) % TickMod
    <3>1. w.slept < TickMod
      BY <1>1, <1>2, <1>3, <1>5, <2>1
    <3>2. w2.slept = w.slept + 1 /\ w.slept = (n - s.ticks0) % TickMod
      BY <1>5, <1>9, <2>1, <3>1 DEF z, Counts
    <3>3. ((n - s.ticks0) % TickMod) + 1 < TickMod
      BY <2>1, <3>2
    <3> QED
      BY ONLY n \in 0..(TickMod - 1), <1>1, <3>2, <3>3, ModNext
  <2>2. l = "sleep_over" => w2.slept >= s.n
    BY <1>1, <1>2, <1>3, <1>5, <1>9 DEF Counts
  <2> QED
    BY <1>9, <2>1, <2>2 DEF Counts
<1> QED
  BY <1>6, <1>7, <1>8, <1>9

\* No process is interrupted between its test of ticks and sleep().
LEMMA NoFrameInSleep ==
  ASSUME HartIInv, ThreadIInv
  PROVE  /\ \A h \in Harts : Me(h) # NoProc
              /\ Place(hart[h], stack[hart[h].sp], proc[Me(h)]) = "sleep_in"
              => hart[h].mode = "S" /\ hart[h].code = "sleep_in"
         /\ \A p \in Procs : (\A h \in Harts : Me(h) # p)
              => ParkedPlace(stack[KStack(p)], proc[p]) # "sleep_in"
<1>1. "sleep_in" \notin Open
  BY DEF Open, CallCode
<1>2. ASSUME NEW h \in Harts, Me(h) # NoProc,
             Place(hart[h], stack[hart[h].sp], proc[Me(h)]) = "sleep_in"
      PROVE  hart[h].mode = "S" /\ hart[h].code = "sleep_in"
  <2> DEFINE r == hart[h]
             s == stack[r.sp]
             q == proc[r.proc]
  <2>1. Fits(h, r, s, q) /\ Me(h) = r.proc /\ r.proc # NoProc /\ Place(r, s, q) = "sleep_in"
    BY <1>2, Here
  <2>2. FrameFits(r, s)
    BY <2>1, ThreadHere DEF OnHart
  <2> HIDE DEF r, s, q
  <2>3. r.mode = "S" /\ q.state # "ZOMBIE"
    BY <2>1 DEF Place, Fits
  <2>4. s.frame.code # "none" => s.frame.code \in Open
    BY <2>1, <2>2, <2>3 DEF FrameFits, InTrap, Fits, FitsKernel, FitsStack, Framed, Saved
  <2>5. s.frame.code = "none"
    BY <1>1, <2>1, <2>3, <2>4 DEF Place
  <2>6. r.code = "sleep_in"
    BY <2>1, <2>3, <2>5 DEF Place, Back
  <2> QED
    BY <2>3, <2>6 DEF r
<1>3. ASSUME NEW p \in Procs, \A h \in Harts : Me(h) # p
      PROVE  ParkedPlace(stack[KStack(p)], proc[p]) # "sleep_in"
  <2> DEFINE s == stack[KStack(p)]
             q == proc[p]
  <2>1. OffHart(s, q, seen[p], ticks) /\ Parked(p, s, q)
    BY <1>3 DEF ThreadIInv, OffHarts, HartIInv, ProcsParked
  <2> HIDE DEF s, q
  <2>2. s.frame.code # "none" /\ q.state # "ZOMBIE" => s.frame.code \in Open
    BY <2>1 DEF OffHart, Parked, Saved, Framed
  <2>3. ParkedPlace(s, q) # "sleep_in"
    BY <1>1, <2>2 DEF ParkedPlace, Back
  <2> QED
    BY <2>3 DEF s, q
<1> QED
  BY <1>2, <1>3

\* clockintr() ticks when no process is between its test of ticks and sleep(), and
\* is about to wake the sleepers.
LEMMA ClockTickThread ==
  ASSUME HartIInv, HartIInv', ThreadIInv, NEW h \in Harts, ClockTick(h) PROVE ThreadIInv'
<1> DEFINE n2 == (ticks + 1) % TickMod
           a == Acquire(hart[h])
           r2 == [a EXCEPT !.code = "clock_wake"]
<1>1. /\ hart[h].mode = "S" /\ hart[h].code = "devintr" /\ UNCHANGED <<stack, proc>>
      /\ tickslock = NoHart /\ ticks' = n2 /\ hart' = [hart EXCEPT ![h] = r2]
  BY Functions DEF ClockTick, At
<1>2. DOMAIN hart[h] = HartFields
  BY Here
<1>3. r2.proc = hart[h].proc /\ r2.sp = hart[h].sp /\ r2.mode = "S" /\ r2.code = "clock_wake"
  <2>1. /\ DOMAIN a = HartFields /\ a.mode = "S" /\ a.proc = hart[h].proc /\ a.sp = hart[h].sp
    BY <1>1, <1>2, Fields DEF FieldNames, Acquire, PushOff
  <2> HIDE DEF a
  <2> QED
    BY <2>1, Fields DEF FieldNames
<1> HIDE DEF r2, a
<1>4. hart'[h] = r2 /\ \A g \in Harts \ {h} : hart'[g] = hart[g]
  BY <1>1, Functions
<1>5. \A g \in Harts : Me(g)' = Me(g) /\ hart'[g].sp = hart[g].sp
  BY <1>3, <1>4 DEF Me
<1>6. ticks \in 0..(TickMod - 1)
  BY DEF ThreadIInv, Types
<1>7. ASSUME NEW p \in Procs
      PROVE  LET s == stack[KStack(p)]
                 q == proc[p]
                 w == seen[p]
             IN /\ Typed(s, q, seen'[p])
                /\ \A l : Returns(l, q, w) => Returns(l, q, seen'[p])
                /\ \A r : UserRegs(r, q, w) => UserRegs(r, q, seen'[p])
                /\ \A l : l # "sleep_in" /\ Counts(l, s, w, ticks) => Counts(l, s, seen'[p], n2)
  <2>1. Typed(stack[KStack(p)], proc[p], seen[p])
    BY DEF ThreadIInv, Types
  <2>2. seen'[p] = [seen[p] EXCEPT !.slept = IF stack[KStack(p)].n # 0 /\ @ < TickMod
                                             THEN @ + 1 ELSE @]
    BY DEF ClockTick
  <2> QED
    BY <1>6, <2>1, <2>2, TickKept
<1>8. Types'
  <2>1. ticks' \in 0..(TickMod - 1)
    BY <1>1, <1>6, ModIn
  <2>2. seen' = [p \in Procs |-> seen'[p]]
    BY DEF ClockTick
  <2> QED
    BY <1>1, <1>7, <2>1, <2>2 DEF Types
<1>9. OnHarts'
  <2> SUFFICES ASSUME NEW g \in Harts, Me(g) # NoProc
               PROVE  OnHart(hart'[g], stack[hart[g].sp], proc[Me(g)], seen'[Me(g)], n2)
    BY <1>1, <1>5 DEF OnHarts
  <2> DEFINE r == hart[g]
             s == stack[r.sp]
             q == proc[r.proc]
             w == seen[r.proc]
             w2 == seen'[r.proc]
             l == Place(r, s, q)
  <2>1. Me(g) = r.proc /\ r.proc # NoProc
    BY DEF Me
  <2>2. /\ OnHart(r, s, q, w, ticks) /\ r.sp = KStack(r.proc) /\ r.proc \in Procs
    BY <2>1, ThreadHere
  <2>3. l # "sleep_in"
    <3>1. ~ InTicks(r)
      BY <1>1, Here DEF HartIInv, TicksLocked
    <3> QED
      BY <2>1, <3>1, NoFrameInSleep DEF InTicks, Ticking
  <2>4. FrameFits(r, s) /\ UserRegs(r, q, w) /\ Returns(l, q, w) /\ Counts(l, s, w, ticks)
    BY <2>2 DEF OnHart
  <2>5. UserRegs(r, q, w2) /\ Returns(l, q, w2) /\ Counts(l, s, w2, n2)
    BY <1>7, <2>2, <2>3, <2>4
  <2>6. CASE g # h
    BY <1>4, <2>1, <2>4, <2>5, <2>6 DEF OnHart
  <2>7. CASE g = h
    <3>1. r.mode = "S" /\ r.code = "devintr" /\ hart'[g] = r2
      BY <1>1, <1>4, <2>7
    <3> HIDE DEF r, s, q, w, w2, n2
    <3>2. FrameFits(r2, s)
      BY <1>3, <2>4, <3>1 DEF FrameFits, InTrap
    <3>3. UserRegs(r2, q, w2)
      BY <1>3 DEF UserRegs
    <3>4. Place(r2, s, q) = l \/ (l = "devintr" /\ Place(r2, s, q) = "clock_wake")
      BY <1>3, <3>1 DEF Place
    <3> HIDE DEF l
    <3>5. Returns(Place(r2, s, q), q, w2)
      BY <2>5, <3>4 DEF Returns, CallPlaces, CallCode, Loop
    <3>6. Counts(Place(r2, s, q), s, w2, n2)
      BY <2>5, <3>4 DEF Counts, Loop
    <3> QED
      BY <2>1, <3>1, <3>2, <3>3, <3>5, <3>6 DEF OnHart, r, s, q, w2
  <2> QED
    BY <2>6, <2>7
<1>10. OffHarts'
  <2> SUFFICES ASSUME NEW p \in Procs, \A g \in Harts : Me(g) # p
               PROVE  OffHart(stack[KStack(p)], proc[p], seen'[p], n2)
    BY <1>1, <1>5 DEF OffHarts
  <2>1. ParkedPlace(stack[KStack(p)], proc[p]) # "sleep_in"
    BY NoFrameInSleep
  <2>2. OffHart(stack[KStack(p)], proc[p], seen[p], ticks)
    BY DEF ThreadIInv, OffHarts
  <2> QED
    BY <1>7, <2>1, <2>2 DEF OffHart
<1>11. Due'
  <2>1. At(h, "clock_wake")'
    BY <1>3, <1>4 DEF At
  <2> QED
    BY <2>1 DEF Due
<1> QED
  BY <1>8, <1>9, <1>10, <1>11 DEF ThreadIInv

\* A new process starts with the registers fork() gave it.
LEMMA NewThread ==
  ASSUME NEW p \in Procs, NEW q, NEW n, q.tf = FirstRegs(p), q.alarm \in Alarms,
         q.alarm.state = 0, q.alarm.cp.pc < HandlerPc, q.ctx.ra = "forkret", q.state = "RUNNABLE",
         \A c \in q.calls : c[1] \in Names /\ c[2] \in Nat
  PROVE  Typed(NewStack, q, NewSeen(p)) /\ OffHart(NewStack, q, NewSeen(p), n)
<1> DEFINE s == NewStack
           w == NewSeen(p)
           t == FirstRegs(p)
<1>1. s.n = 0 /\ s.ticks0 = 0 /\ s.frame.code = "none"
  BY DEF NewStack, NoFrame
<1>2. t \in Regs /\ t.pc = 0
  BY TrapAssumption DEF FirstRegs, ZeroRegs, Regs, Names, Procs
<1>3. w \in Views /\ w.why = "fork" /\ w.cont = t
  <2>1. ZeroRegs \in Regs
    BY DEF ZeroRegs, Regs, Names
  <2> QED
    BY <1>2, <2>1, TrapAssumption DEF NewSeen, Views, Whys
<1>4. TickMod \in Nat \ {0}
  BY TrapAssumption
<1>5. q.tf = t
  OBVIOUS
<1> HIDE DEF s, w, t
<1>6. Typed(s, q, w)
  BY <1>1, <1>2, <1>3, <1>4, <1>5 DEF Typed
<1>7. ParkedPlace(s, q) = "forkret"
  BY <1>1 DEF ParkedPlace
<1>8. Match(q.tf, w) /\ Below(q.tf.pc, q.alarm)
  BY <1>2, <1>3, <1>5 DEF Match, Rest, Below, HandlerPc
<1>9. OffHart(s, q, w, n)
  BY <1>1, <1>7, <1>8 DEF OffHart, Returns, Counts, CallPlaces, CallCode, Loop
<1> QED
  BY <1>6, <1>9 DEF s, w

\* The slot of a zombie is used again: nothing of the old program is left.
LEMMA SpawnThread ==
  ASSUME HartIInv, HartIInv', ThreadIInv, NEW p \in Procs, Spawn(p) PROVE ThreadIInv'
<1> DEFINE n == NewProc(p, proc[p].calls)
           c == proc[p].alarm.cp
           q2 == [n EXCEPT !.alarm.cp = c]
<1>1. /\ proc[p].state = "ZOMBIE" /\ proc[p].lock = NoHart
      /\ proc' = [proc EXCEPT ![p] = q2] /\ stack' = [stack EXCEPT ![KStack(p)] = NewStack]
      /\ seen' = [seen EXCEPT ![p] = NewSeen(p)] /\ UNCHANGED <<hart, ticks>>
  BY DEF Spawn
<1>2. \A h \in Harts : Me(h) # p /\ Me(h)' = Me(h)
  BY <1>1, OnNoHart DEF Me
<1>3. Typed(stack[KStack(p)], proc[p], seen[p])
  BY DEF ThreadIInv, Types
<1>4. /\ DOMAIN n = ProcFields /\ n.ctx.ra = "forkret" /\ n.state = "RUNNABLE"
      /\ n.tf = FirstRegs(p) /\ n.calls = proc[p].calls /\ n.alarm = NewAlarm
  BY Fields DEF FieldNames, NewProc
<1> HIDE DEF n
<1>5. /\ q2.ctx.ra = "forkret" /\ q2.state = "RUNNABLE" /\ q2.tf = FirstRegs(p)
      /\ q2.calls = proc[p].calls /\ q2.alarm = [NewAlarm EXCEPT !.cp = c]
  BY <1>4, Fields DEF FieldNames
<1> HIDE DEF q2
<1>6. q2.alarm \in Alarms /\ q2.alarm.state = 0 /\ q2.alarm.cp.pc < HandlerPc
  <2>1. c \in Regs /\ c.pc < HandlerPc
    BY <1>3 DEF Typed, Alarms
  <2> HIDE DEF c
  <2> QED
    BY <1>5, <2>1 DEF NewAlarm, Alarms
<1>7. Typed(NewStack, q2, NewSeen(p)) /\ OffHart(NewStack, q2, NewSeen(p), ticks)
  <2>1. \A x \in q2.calls : x[1] \in Names /\ x[2] \in Nat
    BY <1>3, <1>5 DEF Typed
  <2> QED
    BY <1>5, <1>6, <2>1, NewThread
<1>8. /\ proc'[p] = q2 /\ stack'[KStack(p)] = NewStack /\ seen'[p] = NewSeen(p)
      /\ seen' = [x \in Procs |-> seen'[x]]
  BY <1>1, Functions, StacksApart DEF ThreadIInv, Types
<1>9. ASSUME NEW x \in Procs, x # p
      PROVE  proc'[x] = proc[x] /\ stack'[KStack(x)] = stack[KStack(x)] /\ seen'[x] = seen[x]
  <2>1. KStack(x) # KStack(p) /\ KStack(x) \in Stacks
    BY <1>9, StacksApart
  <2> QED
    BY <1>1, <1>9, <2>1, Functions DEF ThreadIInv, Types
<1>10. Types'
  BY <1>1, <1>7, <1>8, <1>9 DEF ThreadIInv, Types
<1>11. OnHarts'
  <2> SUFFICES ASSUME NEW g \in Harts, Me(g) # NoProc
               PROVE  OnHart(hart[g], stack'[hart[g].sp], proc'[Me(g)], seen'[Me(g)], ticks)
    BY <1>1, <1>2 DEF OnHarts
  <2>1. Me(g) = hart[g].proc /\ hart[g].proc # NoProc
    BY DEF Me
  <2>2. /\ OnHart(hart[g], stack[hart[g].sp], proc[Me(g)], seen[Me(g)], ticks)
        /\ hart[g].sp = KStack(Me(g)) /\ Me(g) \in Procs /\ Me(g) # p
    BY <1>2, <2>1, ThreadHere
  <2> QED
    BY <1>9, <2>2
<1>12. OffHarts'
  <2> SUFFICES ASSUME NEW x \in Procs, \A g \in Harts : Me(g) # x
               PROVE  OffHart(stack'[KStack(x)], proc'[x], seen'[x], ticks)
    BY <1>1, <1>2 DEF OffHarts
  <2>1. CASE x = p
    BY <1>7, <1>8, <2>1
  <2>2. CASE x # p
    BY <1>9, <2>2 DEF ThreadIInv, OffHarts
  <2> QED
    BY <2>1, <2>2
<1>13. Due'
  <2> SUFFICES ASSUME NEW x \in Procs, proc'[x].state = "SLEEPING",
                      Overdue(stack'[KStack(x)], seen'[x], ticks)
               PROVE  \E g \in Harts : At(g, "clock_wake")
    BY <1>1 DEF Due, At
  <2>1. x # p
    BY <1>5, <1>8
  <2> QED
    BY <1>9, <2>1 DEF ThreadIInv, Due
<1> QED
  BY <1>10, <1>11, <1>12, <1>13 DEF ThreadIInv

-----------------------------------------------------------------------------
(* The second part of the invariant holds *)

\* No process has run.
LEMMA InitThread == Init => ThreadIInv
<1> SUFFICES ASSUME Init PROVE ThreadIInv
  OBVIOUS
<1>1. PICK f \in Programs : proc = [p \in Procs |-> NewProc(p, f[p])]
  BY DEF Init
<1>2. \A h \in Harts : Me(h) = NoProc
  BY DEF Init, Me, BootHart
<1>3. ASSUME NEW p \in Procs
      PROVE  /\ stack[KStack(p)] = NewStack /\ seen[p] = NewSeen(p)
             /\ Typed(stack[KStack(p)], proc[p], seen[p])
             /\ OffHart(stack[KStack(p)], proc[p], seen[p], ticks)
             /\ proc[p].state = "RUNNABLE"
  <2> DEFINE q == NewProc(p, f[p])
  <2>1. /\ proc[p] = q /\ stack[KStack(p)] = NewStack /\ seen[p] = NewSeen(p)
    BY <1>1, StacksApart DEF Init
  <2>2. /\ q.tf = FirstRegs(p) /\ q.alarm = NewAlarm /\ q.ctx.ra = "forkret"
        /\ q.state = "RUNNABLE" /\ q.calls = f[p]
    BY DEF NewProc
  <2> HIDE DEF q
  <2>3. NewAlarm \in Alarms /\ NewAlarm.state = 0 /\ NewAlarm.cp.pc < HandlerPc
    BY DEF NewAlarm, Alarms, ZeroRegs, Regs, Names, HandlerPc
  <2>4. \A c \in f[p] : c[1] \in Names /\ c[2] \in Nat
    BY TrapAssumption DEF Procs, Names
  <2> QED
    BY <2>1, <2>2, <2>3, <2>4, NewThread
<1>4. ticks \in 0..(TickMod - 1) /\ seen = [p \in Procs |-> seen[p]]
  BY TrapAssumption DEF Init
<1> QED
  BY <1>2, <1>3, <1>4 DEF ThreadIInv, Types, OnHarts, OffHarts, Due

\* What the code of the kernel does.
LEMMA KernelThread ==
  ASSUME HartIInv, HartIInv', ThreadIInv, NEW h \in Harts, Kernel(h) PROVE ThreadIInv'
<1>1. CASE Usertrap(h) \/ UsertrapTail(h) \/ UsertrapretOff(h) \/ Userret(h) \/ KerneltrapTail(h)
  BY <1>1, UsertrapThread, UsertrapTailThread, UsertrapretOffThread, UserretThread,
     KerneltrapTailThread
<1>2. CASE Devintr(h) \/ ClockTick(h) \/ ClockWake(h)
  BY <1>2, DevintrThread, ClockTickThread, ClockWakeThread
<1>3. CASE Syscall(h) \/ WorkDone(h) \/ SleepAcquire(h) \/ SleepCheck(h) \/ SleepReturn(h)
  BY <1>3, SyscallThread, WorkDoneThread, SleepAcquireThread, SleepCheckThread, SleepReturnThread
<1>4. CASE SleepIn(h) \/ Yield(h) \/ Exit(h) \/ Sched(h)
  BY <1>4, SleepInThread, YieldThread, ExitThread, SchedThread
<1>5. CASE SchedulerLoop(h) \/ Resumed(h) \/ Forkret(h)
  BY <1>5, SchedulerLoopThread, ResumedThread, ForkretThread
<1>6. CASE \E p \in Procs : SchedulerPick(h, p) \/ Kill(h, p)
  BY <1>6, SchedulerPickThread, KillThread
<1> QED
  BY <1>1, <1>2, <1>3, <1>4, <1>5, <1>6 DEF Kernel

\* Whatever interrupts a thread and wherever it goes on, its place in the code
\* decides what its trapframe, the copy alarm_handler() made of it, its frame and
\* its count of ticks hold.
THEOREM ThreadInvariant == Spec => []ThreadIInv
<1>1. HartIInv /\ HartIInv' /\ ThreadIInv /\ [Next]_vars => ThreadIInv'
  <2> SUFFICES ASSUME HartIInv, HartIInv', ThreadIInv, [Next]_vars PROVE ThreadIInv'
    OBVIOUS
  <2>1. ASSUME NEW h \in Harts, Hardware(h) PROVE ThreadIInv'
    BY <2>1, TrapThread, UserJumpThread DEF Hardware
  <2>2. ASSUME NEW h \in Harts, Kernel(h) PROVE ThreadIInv'
    BY <2>2, KernelThread
  <2>3. ASSUME NEW p \in Procs, Spawn(p) PROVE ThreadIInv'
    BY <2>3, SpawnThread
  <2>4. CASE UNCHANGED vars
    BY <2>4 DEF vars, ThreadIInv, Types, OnHarts, OffHarts, Due, Me, At
  <2> QED
    BY <2>1, <2>2, <2>3, <2>4 DEF Next
<1> QED
  BY <1>1, InitThread, TrapInvariant, PTL DEF Spec

\* A user program finds its registers as it left them: uservec, usertrap(),
\* alarm_handler(), sys_sigreturn() and userret lose none of them, whatever
\* interrupts, harts and switches are in between.
THEOREM TrapUser == Spec => []UserResumes
<1>1. ASSUME HartIInv, ThreadIInv, NEW h \in Harts, hart[h].mode = "U"
      PROVE  LET u == hart[h].u
                 w == seen[Me(h)] IN
             CASE w.why \in {"intr", "fork"} -> u = w.cont
               [] w.why = "call" -> u = [w.cont EXCEPT !.pc = w.cont.pc + 1, !.a0 = u.a0]
               [] w.why = "alarm" -> u = [w.cont EXCEPT !.pc = HandlerPc] /\ w.cont.pc < HandlerPc
               [] w.why = "sigreturn" -> u = [w.orig EXCEPT !.a0 = u.a0]
               [] OTHER -> TRUE
  <2> DEFINE u == hart[h].u
             w == seen[Me(h)]
  <2>1. u \in Regs /\ Match(u, w) /\ w \in Views
    BY <1>1, UserHere DEF Typed
  <2>2. w.cont \in Regs /\ w.orig \in Regs /\ w.why \in Whys
    BY <2>1 DEF Views
  <2> HIDE DEF u, w
  <2>3. w.why \in {"intr", "fork"} => u = w.cont
    BY <2>1, <2>2 DEF Match, Rest, Regs
  <2>4. w.why = "call" => u = [w.cont EXCEPT !.pc = w.cont.pc + 1, !.a0 = u.a0]
    BY <2>1, <2>2 DEF Match, Rest, Regs
  <2>5. w.why = "alarm" => u = [w.cont EXCEPT !.pc = HandlerPc] /\ w.cont.pc < HandlerPc
    BY <2>1, <2>2 DEF Match, Rest, Regs
  <2>6. w.why = "sigreturn" => u = [w.orig EXCEPT !.a0 = u.a0]
    BY <2>1, <2>2 DEF Match, Rest, Regs
  <2>7. CASE w.why \in {"intr", "fork"}
    BY <2>3, <2>7 DEF u, w
  <2>8. CASE w.why = "call"
    BY <2>4, <2>8 DEF u, w
  <2>9. CASE w.why = "alarm"
    BY <2>5, <2>9 DEF u, w
  <2>10. CASE w.why = "sigreturn"
    BY <2>6, <2>10 DEF u, w
  <2>11. CASE w.why \notin {"intr", "fork", "call", "alarm", "sigreturn"}
    BY <2>11, SMTT(30) DEF u, w
  <2> QED
    BY <2>7, <2>8, <2>9, <2>10, <2>11
<1>2. HartIInv /\ ThreadIInv => UserResumes
  BY <1>1 DEF UserResumes
<1> QED
  BY <1>2, TrapInvariant, ThreadInvariant, PTL

\* sys_sleep() is never over too early, and the test under tickslock and the wakeup
\* of clockintr() leave no sleeper behind whose time is over, except one that got no
\* hart until ticks had gone all the way round: that one may sleep on.
THEOREM TrapSleep == Spec => []SleepExact
<1>1. ASSUME HartIInv, ThreadIInv, NEW h \in Harts, At(h, "sleep_over")
      PROVE  seen[Me(h)].slept >= stack[hart[h].sp].n
  <2> DEFINE r == hart[h]
             s == stack[r.sp]
             q == proc[r.proc]
             w == seen[r.proc]
  <2>1. r.mode = "S" /\ r.code = "sleep_over"
    BY <1>1 DEF At
  <2>2. r.proc # NoProc /\ Place(r, s, q) = "sleep_over"
    BY <1>1, <2>1, PlaceHere DEF InTrap
  <2>3. OnHart(r, s, q, w, ticks) /\ Me(h) = r.proc
    BY <1>1, <2>2, ThreadHere
  <2> QED
    BY <2>2, <2>3 DEF OnHart, Counts
<1>2. HartIInv /\ ThreadIInv => SleepExact
  <2> SUFFICES ASSUME HartIInv, ThreadIInv, NEW p \in Procs, proc[p].state = "SLEEPING",
                      \A h \in Harts : ~ At(h, "clock_wake")
               PROVE  \/ seen[p].slept < stack[KStack(p)].n /\ SleepMore(stack[KStack(p)])
                      \/ MissedWindow(p)
    BY <1>1 DEF SleepExact
  <2>1. ~ Overdue(stack[KStack(p)], seen[p], ticks)
    BY DEF ThreadIInv, Due
  <2>2. SleepMore(stack[KStack(p)])
    BY <2>1 DEF Overdue, SleepMore
  <2>3. seen[p].slept \notin stack[KStack(p)].n..(TickMod - 1)
    BY <2>1 DEF Overdue
  <2>4. seen[p].slept \in 0..TickMod /\ stack[KStack(p)].n \in Nat /\ TickMod \in Nat \ {0}
    BY TrapAssumption DEF ThreadIInv, Types, Typed, Views
  <2> QED
    BY <2>2, <2>3, <2>4 DEF MissedWindow
<1> QED
  BY <1>2, TrapInvariant, ThreadInvariant, PTL
=============================================================================
