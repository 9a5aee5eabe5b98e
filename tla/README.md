# novice_kernel in TLA+

A verification project for novice_kernel, a RISC-V teaching kernel derived from
xv6 with lazy allocation, a kernel page table per process, symbolic links,
double-indirect files, alarms and a few new system calls.  The modules are
translated from `src/kernel`; TLC checks them on small instances, and TLAPS
proves for every instance the safety of the page allocator, processes, traps, pipes,
the buffer cache, the log, the disk driver and the console, and that pipes implement a
bounded queue and the log atomic group commit.

1. [The system](#1-the-system)
2. [Modules and code](#2-modules-and-code)
3. [Runs](#3-runs)
4. [Fairness](#4-fairness)
5. [Proofs](#5-proofs)
6. [What the code does otherwise than it says](#6-what-the-code-does-otherwise-than-it-says)
7. [Not modelled](#7-not-modelled)
8. [Plan](#8-plan)

Conventions: a critical section under a spin lock is one action, because no
other hart can look inside; where the order in which locks are taken matters
(`Proc`, `Pipe`, `Virtio`) the lock is a variable.  Everything a thread does
outside a lock is a step of its own.  `pc[p]` is where a thread is.  A
definition that begins with `\* Mutant:` is a plausible bug in the definition
that follows it and is used by no specification.

## 1. The system

Up to `NCPU` harts (`CPUS := 1` in the Makefile) run `scheduler()`.  Processes
enter the kernel by system calls, page faults and interrupts; a kernel thread is
preempted by the timer wherever interrupts are on, holds spin locks for short
sections and sleeps on channels.

| Part | State | Operations | What is hard | What makes it correct |
|---|---|---|---|---|
| page allocator (`kalloc.c`) | free list, count per page | `kalloc`, `kfree`, `incref`, `kmemamount` | `kfree` releases the lock between the count and the list; `kmemamount` takes none | no page has two owners, none is lost |
| processes (`proc.c`) | process table, `wait_lock`, `p->lock`, the hart's process and page table | `fork`, `exit`, `wait`, `kill`, `sleep`, `wakeup`, `yield`, `scheduler` | lock hand-over through `swtch()`, lost wakeups, freeing a zombie whose hart still uses its page table | one hart per process, no exit is missed, orphans are reaped |
| address spaces (`vm.c`, `trap_handler.c`, `exec.c`) | page table, size and trapframe per process | page fault, `sbrk`, `copyin`/`copyout`, `fork`, `exec`, `exit` | every allocation may fail halfway; sizes not page aligned; pages mapped lazily by two different routines | no page lost, complete tear-down, `fork` copies, the guard page stays |
| log (`log.c`) | header and blocks on disk, header in memory, operations in flight | `begin_op`, `log_write`, `end_op`, commit, recovery | crash between any two disk writes, also in recovery; reservations | atomic group commit |
| buffer cache, sleep locks (`bio.c`, `sleeplock.c`) | LRU list, block, count and lock per buffer | `bread`, `bwrite`, `brelse`, `bpin`, `bunpin` | sleeping for a buffer that may be recycled; callers that hold several; changes that are never logged | one buffer per block, nothing logged is lost |
| pipes (`pipe.c`) | ring, two free-running counters, two ends | `piperead`, `pipewrite`, `pipeclose` | two channels under one lock, kills, counters that wrap | a bounded FIFO, no lost wakeup, no early end of file |
| inodes, directories, files (`fs.c`, `file.c`, `sysfile.c`) | inode table, directory entries, file table, descriptors | `open`, `create`, `mkdir`, `mknod`, `symlink`, `link`, `unlink`, `chdir`, `close`, path lookup | locks are dropped between the steps of a call; an inode is freed by whoever drops the last reference | references and links counted, no dangling entry, no panic but for a known cause |
| disk driver (`virtio_disk.c`) | descriptors, available and used rings, `b->disk` | request, interrupt | the device finishes in any order, while the handler runs | every request carried out, completed once, and ended |
| block map, open files (`fs.c`, `file.c`, `sysfile.c`) | bitmap, `ip->addrs`, index blocks, size, offset and count of an open file | `read`, `write`, `open` with `O_TRUNC`, `dup`, `close`, `pipe`, `fstat` | copies that fail in the middle, three kinds of index, offsets shared by processes, a full disk | a file is a flat sequence of words, no block lost or shared, no descriptor leaked |
| traps, alarms, clock (`trap.c`, `trampoline.S`, `kernelvec.S`, `swtch.S`, `syscall.c`, `syscallv2.c`, `sysproc.c`) | registers, trapframe, kernel stacks, alarm record, ticks | `usertrap`, `kerneltrap`, `devintr`, `swtch`, `sigalarm`, `sigreturn`, `sleep` | a thread is interrupted anywhere, moves to another hart and goes on; a handler interrupts the program | whoever was interrupted goes on as if nothing had happened |
| spin locks (`spinlock.c`) | lock word, nesting depth and interrupt state of a hart | `acquire`, `release`, `push_off`, `pop_off` | an interrupt handler that needs a lock its own hart holds | interrupts are on only when no lock is held |
| console, serial port (`console.c`, `uart.c`, `printf.c`, `plic.c`) | input ring, transmit ring, the 16550 | `consoleintr`, `consoleread`, `consolewrite`, `uartputc`, `uartstart`, `uartintr`, `printf` | indices at their limits, wakeups from interrupts, three ways to the transmitter under different locks | lines are read as edited, characters are sent once and in order, writers end |

They interact by calls from the system calls down: `sysfile.c` takes references
through `file.c` and `fs.c`, which read blocks through `bio.c` inside an
operation of `log.c`; `bio.c` calls the disk driver, whose interrupt wakes the
sleeping process; all sleeping goes through `sleep()` and `wakeup()` of `proc.c`,
and all memory comes from `kalloc.c`.  The modules cut along these calls: `Log`
sees the cache as a function from blocks to data that may drop unpinned entries,
`Bio` sees the log as something that pins at most `LOGSIZE` blocks, `Virtio` and
`Pipe`, `Console` and `Files` see `sleep()`/`wakeup()` as single steps under the caller's lock (that the
pair loses no wakeup is what `Proc` is about), and `Vm` sees the allocator as a
number of free pages (that pages are exclusive is what `Kalloc` is about).

`PROJECT.json` lists the hazards with the properties that watch them.

## 2. Modules and code

**Kalloc** (`kalloc.c`).  `freelist` is the sequence of linked pages, `refcount`
the counts, `held[t]` the pages a thread was given.  `KallocPop`, then the fill,
is `kalloc()`; decrement, unlocked second look, fill and push are the four steps
of `kfree()`; `kmemamount()` moves a cursor one link at a time, over pages that
may be popped and overwritten meanwhile (`word`).

**Proc** (`proc.c`).  The process table (`state`, `chan`, `killed`, `parent`),
`plock[p]` and `waitlock` with the hart that holds them, and per hart the process
(`cproc`), the page table in use (`satp`) and the place in `scheduler()` (`spc`,
`cur`).  Each round of the loops of `scheduler()`, `reparent()`, `wakeup()` and
`wait()` is an action, because each takes locks.  `kill(0)` is included.  Killing
init, which stops the machine by design, is not.

**Vm** (`vm.c`, `trap_handler.c`, `exec.c`, `sys_sbrk()`, and `fork()`,
`freeproc()`, `sys_exec()` as far as memory goes).  `pte[p]` maps the mapped user
pages to their `PTE_U` bit and one word of contents, `tabs[p]` is the set of
page-table pages, `sz[p]` the size in units of half a page in the runs.  `free`
counts pages.  `fork()` and `exec()` are split at every allocation so that other
processes can take the last page in between; the page table itself is private to
the thread.  The stack pointer is whatever the program put into it and hence an
input of every fault and system call.  The three levels of `walk()` are kept as
root, middle and last-level pages, so that a failed `walk()` can leave a middle
page behind.  A failed allocation inside `kvminit_kern()`, whose results nobody
tests, counts with that of the kernel stack as a stop of the kernel.

**DiskTxn, Log** (`log.c`).  `DiskTxn` is the promise: operations begin, write,
end; a commit makes everything durable at once when no operation is running; a
crash forgets what was not committed.  `Log` has the disk (`home`, `logblk`,
`hdr`), the cache, the in-memory header `lh`, `outstanding` and `committing`.
`commit()` writes one block per step; `Crash` may come between any two steps,
recovery included.  The refinement maps `disk` to what recovery would produce
(`DiskView`) and `mem` to what the running system reads (`MemView`).  The number
of log blocks on disk, `nlog`, comes from mkfs, which is not in the repository.  An
operation may log any blocks any number of times; `used` and the ghost `over` record
whether it kept to `MAXOPBLOCKS`.  A block that an operation changes and does not log
(section 6, `fs.c:528`) is outside this module.

**Bio** (`bio.c`, `sleeplock.c`).  The list in LRU order, `blockno`, `refcnt`,
`valid` and the sleep lock of each buffer; `bget()` (lookup and recycling under
one lock), then `acquiresleep()`, the transfer, `brelse()` in its two steps,
`bpin()`/`bunpin()` as the log uses them.  A process holds up to `MAXHELD` buffers;
`<<p, k>>` is the k-th.  `InOrder` is the order in which the callers in `log.c` and
`fs.c` ask for a further one (log block before home block, index block before bitmap
and data block): the locks depend on it, the code does not enforce it.  `dirty` is a buffer
changed and not yet written or logged; `brelse()` may be called on it, as `writei()`
does after a failed copy, and `kept` and `stray` are history variables for that case.

**Fifo, Pipe** (`pipe.c`).  `Fifo` is a bounded queue with two ends.  `Pipe` has
the ring and the two counters modulo `WRAP` (2^32 in the code), and moves one byte
per step under `pi->lock`, with kills and bad user addresses in the middle.  `unwoken`
is an observer: a killed writer has returned and left bytes without a wakeup.

**Fs** (`fs.c`, `file.c`, `sysfile.c`).  `dinode` and `dir` are inodes and entries
as the log has them, `itable` the in-memory inodes with count, lock and cached
copy, `file` the file table.  A system call is a sequence of actions, cut where
the code drops all the locks that protect what it looked at.  `target` is the path
in a symbolic link; `Follow` is one turn of the loop of `sys_open()` over links.
`calls` is the workload of a behaviour and `sb` the inodes of its disk.  An action in
which `iget()`, `iunlock()` or `dirlookup()` panics is written with `Igot`, `Iunlock` or
`LookedUp` around the step of the caller.  When `open()` gets a file structure and no
descriptor, the way out is a step of its own (`OpenUndo`).  `reused`, `lost` and
`strayed` are history variables for three situations of section 6.

**Virtio** (`virtio_disk.c`).  Descriptors, both rings with indices modulo `WRAP`
(2^16 in the code), `b->disk`, `vdisk_lock`, and the device: it takes chains from
the available ring and completes them in any order (external, from how the driver
uses it).

**FlatFile, Files** (`fs.c` from `balloc()` to `writei()`, `file.c`, the calls on
descriptors in `sysfile.c`).  `FlatFile` is the promise: a file is a sequence of
words, an open file an offset in it.  `Files` has the disk (`disk`: blocks of
`NINDIRECT` words, and the bitmap), the inodes with `addrs`, size and lock, the
file table and the descriptors.  Block numbers and data are words of the same
blocks, as on the disk.  One turn of the loops of `readi()` and `writei()` is a
step under `ip->lock`; `either_copyin()` and `either_copyout()` may fail, the
former after any number of words.  `log` collects the blocks an operation logs.
The refinement maps `flat` to the words reached through the block map and `off`
to the offset plus what a `writei()` under way has written.  Coarser than the code: an
`open()` is one step with its `itrunc()`, and if it fails only its net effect is left (the
steps are in `Fs`); words of a failed write that were not logged stay for ever here, in
the code until the buffer is recycled (`Bio` has that).

**Trap** (`trampoline.S`, `kernelvec.S`, `swtch.S`, `trap.c`, the alarm of
`trap_handler.c`, `syscall()`, `sys_sleep()`, `spinlock.c`).  A hart has its
registers (`mode`, `code`, `sp`, `tp`, `sie`, `spie`, `spp`, `sepc`, `stvec`, `satp`
and the user registers `u`) and its `struct cpu`; `stack` is what kernel threads
keep on their stacks, so that the wrong stack means the wrong variables.  A timer
interrupt can come wherever `sie` is set.  `Uservec`, `Kernelvec`, `Userret` and
`Swtch` save and load exactly the registers the assembly does.  A user program is
an `ecall` in a loop, with a handler; `seen` is an observer that remembers what
the program may expect when it goes on.  `ticks` wraps at `TickMod`.

**Tty, Console** (`console.c`, `uart.c`, `plic.c` as they use it).  `Tty` is a line
discipline: a line under edit, finished lines, what a `read()` has got, and what is
on its way out.  `Console` has both rings with counters that run freely, the
locks, the 16550 with a receiver and a FIFO of `FifoDepth` (external), and the
interrupt handler as a thread of its own, with the echo through
`uartputc_sync()`, which does not take `uart_tx_lock`.  `Printers` are kernel code that
calls `printf()`: it takes `pr.lock` and writes character by character through
`uartputc_sync()` too, as does the handler for `^P`.  `panic()` prints without
`pr.lock` and stops the machine; it is left out.

## 3. Runs

| Run | Instance | States | What it shows |
|---|---|---|---|
| `pages` | 3 pages, 3 threads; a pipe with 2 readers, 2 writers, 2 bytes of room, counters modulo 4, symmetry | 1.6 million | `Kalloc` and `Pipe`, one after the other: a behaviour moves one of them (`MCPages`). `PageExclusive`, `PagesConserved`, `NoPanic`: no page has two owners or is lost, at any point of concurrent `kalloc`/`kfree`. `FifoSpec`: `Pipe` implements `Fifo`; `SleepersJustified`: no wakeup is lost but that of a killed writer; `PipeInv`: the page is not freed under its users, and no reader sees the end too early (`NoFalseEof`). |
| `proc` | 3 slots, 2 harts, symmetry of harts | 179 thousand | `ProcNoPanic`: the checks of `sched()` hold; `SwitchInv`: a process is never on two harts or picked before its switch is complete (`OnOneHart`), and `wait()` never frees a page table that a hart still uses (`KernelTableLive`); `NoLostWakeup`: `wait()` misses no exit; `TreeInv`: every process has a parent that can wait for it. |
| `proc_live` | 3 slots, 1 hart | 23 thousand | `OrphanReaped`: init reaps what exiting parents leave to it. |
| `trap` | 2 harts, 2 processes, ticks modulo 3, 3 pairs of programs | 2.4 million | `HartInv`: hart number, stack and page table are those of what runs, interrupts are on only without locks, and the panics of the trap path and the locks do not fire (`TrapNoPanic`); `KernelResumes` and `UserResumes`: what was interrupted goes on unchanged, `a0` after `sigreturn()` apart; `SleepExact`: `sleep()` ends when its ticks have passed, unless the process gets no hart until `ticks` has gone all the way round (`MissedWindow`). |
| `trap_sigreturn` | 1 hart, 1 process | TRAPS | `AlarmTransparent` is violated: after `sigreturn()` a program does not have the `a0` it was interrupted with, although `user/traptest.c:88-91` says so. |
| `vm` | 2 processes, 21 pages, programs of one and two segments | 328 thousand | `VmInv`: every page is accounted for whatever allocation fails, `freewalk()` never finds a leaf, `loadseg()` never misses a page (`TeardownComplete`); `GuardKept`; `ForkCopies`. |
| `log` | 3 blocks, 3 processes, `MAXOPBLOCKS` = 1, 3 log slots, symmetry | 122 thousand | `TxnSpec`: `Log` implements `DiskTxn`; `SleepJustified`: no lost wakeup in `begin_op()`; `LogInv`: an unpinned buffer can be recycled, the last `end_op()` returns with everything durable, and `log_write()` panics only on a used-up log (`PanicExplained`), which the run reaches. |
| `bio` | 2 buffers, 3 blocks, 2 processes with 2 buffers each, 1 pinned block, symmetry | 2.6 million | `CacheInv`: a block has one buffer, a process that slept gets the block it asked for (`BufferStays`), and `bget()` panics only when every buffer is pinned or in use (`CacheFull`), which the run reaches; `ContentsCurrent`: recycling loses nothing that was logged or written; `SleepJustified`. |
| `fs` | 2 processes, 3 entries in the inode table, disks of 3 and 4 inodes, 2 files; in one workload a process makes and removes the directory the other works in, in one it removes that directory and its parent while the other goes up, in one it opens symbolic links, chains and cycles of them, to what the other removes and makes again, in one devices are made and opened; symmetry | FSS | `TableInv`: references are counted and one slot has the current copy of an inode (`OneCurrentCopy`); `LinksInv`: no entry dangles (`EntriesLive`), links are counted (`LinksExactUnlessLost`), no inode is left over (`NoOrphanUnlessReused`), the situations of section 6 aside; `FsNoPanic`: the panics that are reached have one cause each, the others do not fire, and `iput()` never blocks under a spin lock (`IputNeverBlocks`); no deadlock of the inode locks. |
| `files` | 2 processes, 2 inodes, 3 open files, 3 words per block, 19 blocks, a bitmap block for 3, 5 pairs of programs | 278 thousand | `FlatSpec`: `Files` implements `FlatFile`; `ReadExact`: `read()` returns the words at the offset; `BlocksInv`: every block has one place in one file; `RefsExact`: descriptors are counted; `FilesNoPanic`: no panic but that of a full disk; `FitsUnlessSpread`: operations fit into their share of the log unless their blocks lie under three bitmap blocks, which the run reaches. The programs end, hence no deadlock check. |
| `virtio` | 3 processes, 8 descriptors (`NUM`), ring indices modulo 8 | 25 thousand | `DriverInv`: no descriptor is lost or shared, no panic, no completion is forgotten (`CompletionPending`) and nobody sleeps without cause (`SleepJustified`); `DoneAsAsked`: a completion reaches the buffer it belongs to; `RequestEnds`. |
| `console` | 1 reader, 2 writers, 3 places for input, 2 in the transmit ring, FIFO of 3, 2 callers of `printf()`, 4 loads | CONS | `LineSpec`: `Console` implements `Tty`; `NoOverrun`: the FIFO is never given more than it holds, by three writers under three locks; `SleepJustified`: readers and writers sleep only with cause, and what waits has an interrupt coming; `WriteEnds`. |

Why the bounds are enough to be of interest: three slots hold init, a parent and
an orphan, and two harts are what any race of `scheduler()` with `wait()` needs.
In `vm` a process with an image takes ten pages, so that a second one fits
exactly: each allocation of `fork()` and `exec()` fails in some behaviour and
succeeds in another; sizes from 1 to 8 half pages put the end into every position
relative to text, guard page, stack and heap; a last-level page table covers
three pages, so that the heap needs a second one.  In `log` three operations reserve
all slots, one that logs a second block takes what another has reserved, and all wait
for the commit.  In `bio` three blocks exceed two buffers, one of which the log may pin
while a process needs two.  The pipe's counters wrap after two fillings.  Each of the two
disks of `fs` brings one thing: with more inodes than the table has entries `iget()` runs
out of them, with as many `ialloc()` does.  Eight descriptors serve two requests and leave
two over, so that a third process fails in the middle of `alloc3_desc()`, and the
ring indices wrap.  A block of three words and one direct block give a file of 13
blocks with all three kinds of index, fewer than a disk with 19; three blocks under a
bitmap block make a chunk of `filewrite()` touch four of them; the scenarios of
`MCFiles` fill the largest file, share an offset, truncate what the other writes,
fill the disk, and run out of descriptors and entries.  Ticks modulo 3 make 2 ticks
the same as -1, and the counter wraps during every sleep.  The console's rings hold
fewer characters than a line or a `write()` brings, and all counters wrap.  The
workloads of `Fs`, `Files`, `Trap` and `Console` are the bound of these modules: the
state space of processes making arbitrary calls is out of reach.

## 4. Fairness

*Proc, one hart.*  The scheduler loop goes on, a switch that has begun is
completed (weak fairness), the timer interrupts again and again and a process that
is on the hart again and again executes its next step (strong fairness of both,
since a tick comes only after the process has run for a while).  The program of
init calls `wait()` for ever (`user/init.c`).  With one hart no spin lock is
contended.  `OrphanReaped` speaks of the first zombie in the table only: `wait()`
starts each scan at slot 1, so fast reuse of early slots can starve later ones.

*Virtio.*  The device takes and finishes requests, a raised interrupt is taken and
the handler ends (weak fairness).  `Finish` and `IntrAck` need `vdisk_lock`, which
others take and release in between, so they are strongly fair: the holder never
sleeps with it and spinning harts get it in the end.  `RequestEnds` starts at the
point where a request has its descriptors: a process that waits for descriptors
can be overtaken for ever (`virtio_disk_rw()` retries without a queue).

*Console.*  Weak fairness of `Progress`, the disjunction of all steps but typing
and new calls: the 16550 sends what it has, a pending interrupt is taken, and the
scheduler runs somebody who can run, without a promise to anyone in particular.
`WriteEnds` excepts behaviours in which keys come for ever, since the handler echoes
them before it looks at the transmitter.

## 5. Proofs

A module `XProofs` extends `X` and proves its theorems for every value of the
constants that satisfies the assumption stated in `X`; `MemoryProofs` extends both
`Kalloc` and `Vm`, and `StreamProofs` both `Pipe` and `Console`.  All have the same shape: an
inductive invariant `XIInv`, that `Init` implies it and every action keeps it, one
step per action and per part the action can disturb, and the properties of the run as
consequences.  Each `XIInv` holds of the instance of its run too.

| Module | Theorems | Assumed of the constants |
| --- | --- | --- |
| `MemoryProofs` | `KallocType`, `KallocExclusive`, `KallocConserved`, `KallocNoPanic` | finitely many pages; the null pointer and the fill word are no pages |
| | `VmSafe`, `VmGuard`, `VmFork` | pages, regions and slots are not empty; `userinit()` finds its pages |
| `ProcProofs` | `ProcSwitch`, `ProcPanics`, `ProcTree`, `ProcWakeups` | a slot for init |
| `TrapProofs` | `TrapHart`, `TrapResumes`, `TrapUser`, `TrapSleep` | a hart, a process, calls that exist, sleeps shorter than the range of `ticks` |
| `StreamProofs` | `PipeSafe`, `PipeSleepers`, `PipeFifo` | the word width is a multiple of the pipe's size and larger; readers do not write |
| | `ConsoleNoOverrun`, `ConsoleSleepers` | a FIFO of three at least; readers do not write |
| `BioProofs` | `BioShape`, `BioContents`, `BioSleepers`, `BioSizing` | a buffer; finitely many processes, which ask for further buffers in an order |
| `LogProofs` | `LogSafe`, `LogSleepers`, `LogAtomic` | `MAXOPBLOCKS <= LOGSIZE`, and the log on disk holds `LOGSIZE` blocks and a header |
| `VirtioProofs` | `VirtioDriver`, `VirtioDone` | three descriptors at least; the width of the indices is a multiple of the ring's size |
| `FilesProofs` | `FilesRefs`, `FilesBlocks`, `FilesSafe`, `FilesRead`, `FilesFlat` | sizes are not 0; finitely many processes; `MAXOPBLOCKS > 5`; programs are sequences of system calls |

**Kalloc.**  `PageExclusive` is not inductive: that `kalloc()` pops a page nobody
owns is known, but nothing says that the counts it tests are 0, or that the page a
thread is freeing is not also among those it holds.  `KallocInv` adds `TransitArg`
(the page in transit is a page and not held), `CountsHeld`, `CountsTransit` and
`CountsListed` (the count is 1 exactly from the grant in `kalloc()` to the decrement
in `kfree()`).

**Vm.**  The pages are counted as one set of tagged pages, `Held(p)` of each process,
so that conservation needs no sum.  `VmIInv` says how far the calls that work page by
page have got.  `Covered`: the size of a process covers what is mapped, except for a
child that `uvmcopy()` is filling, whose size is still 0.  `Forking`: that child has
the pages of its parent up to the one `uvmcopy()` is at, with the same contents, and is
nobody else's child (`OneParent`), so that undoing the copy frees all of it and finishing
it gives `ForkCopies`.  `Building`: the new image of `exec()` is mapped without holes up
to the page it is at, which lies between the size it has recorded and the end of the
segment; hence `loadseg()` finds its pages, and `proc_freepagetable()` with that size
leaves nothing behind whichever step fails.  `Round`, `PageBelow` and `RoundLarger` are
what `PGROUNDUP()` gives, `MapNewCost` what a `mappages()` takes from the free list
whether or not it succeeds, and `StepOfTwo` reduces a step to the process that takes it
and the child it works on.

**Proc.**  `HartState` says who holds `p->lock` and `wait_lock` at every place of
`scheduler()`, `sched()`, `wait()` and `exit()`, and where the thread of a process is
in each state of the process; `SwitchInv` and the panics follow.  `TreeIInv` says what
`fork()` and `reparent()` have done of their work: the child of an unfinished
`fork()` is USED and nobody else's, and the slots `reparent()` has passed hold no
child of the exiting process.  `WakeIInv` says what `wait()` has seen and which
sleepers the wakeups of `exit()` have reached.  The last step of `NoLostWakeup` is
that a zombie whose parent sleeps was handed over by a `reparent()` that has not yet
reached its wakeup of init.

**Trap.**  A process may go on on another hart than the one it left, so that what a
hart is set to comes from what was saved elsewhere.  `Fits` says for each place in the
code which stack, page table, `tp`, vector, interrupt state and locks go with it and
what lies on the kernel stack there; `Parked` says what a process that is on no hart
has saved.  `HartTurns` reduces a step to the hart that takes it: the others have
stacks and processes of their own (`StacksApart`, `OneHart`), and what `kill()` and
`wakeup()` do to their processes they do not notice (`SameThread`).  The step that
needs most is `ResumedStep`: `intena` is what `sched()` saved on the stack of the
process, not what the scheduler of the new hart left, so that a system call goes on
with interrupts enabled and a trap with interrupts disabled.

A second part, `ThreadIInv`, is proved on top of it, for what user programs see.  A
thread keeps its place in the code while it is interrupted or off its hart: `Place`
reads it from the frame of `kernelvec` or from the caller of `sched()`, `ParkedPlace`
for a process on no hart.  The place decides what the trapframe holds (`Returns`), so
that `userret` finds the registers the program expects; that the copy of
`alarm_handler()` is of the interrupted program and not of the handler (`Below`,
`Typed`), so that `sys_sigreturn()` restores the right ones; and that a process in the
loop of `sys_sleep()` has seen `ticks - ticks0` ticks (`Counts`).  `ModNext` is why
the unsigned difference counts on when `ticks` wraps.  `Due` says that a sleeper whose
time is over has a `clockintr()` between its increment and its wakeup.  `ThreadMoves`
reduces a step to the threads on its hart before and after, `TickKept` covers the one
step that all sleepers notice.

**Pipe.**  `PipeIInv` adds who holds `pi->lock` and what the flags of `struct pipe`
have to do with the processes that have it open.  A writer asleep on a pipe that is
not full has a reader inside its loop that will wake it, and the other way round, unless
`unwoken`: the wakeup that `pipewrite()` omits when it finds itself killed.
`PipeFifo` is the refinement `Spec => FifoSpec`: the queue is what lies between the
counters, and the lemmas on arithmetic modulo the size and modulo the word width
(`ModOnce`, `ModApart`, `CountIs`, `SlotWraps`) say that a counter that wraps goes on
at the right slot, and that two bytes of a pipe never share one.

**Bio.**  That a buffer is not recycled under its users rests on `CountsExact`:
`refcnt` is the number of uses between `bget()` and `brelse()` plus one for the pin of
the log.  Hence `CacheInv` with its last part: `bget()` panics only when every buffer is
pinned or in use.  That recycling loses nothing rests on `Clean`: a block that differs
from the disk is pinned, or in the hands of a process that has yet to write it, or
`stray`, and then the disk has what was last logged or written of it.  `BioSizing` says
how many buffers would rule the panic out, `NBUF >= LOGSIZE` plus `MAXHELD` for each
process; `param.h` has `NBUF = LOGSIZE`.

**Log.**  `Reserved` counts: `log.outstanding` is the number of operations, and the log
has room for every block that they may still log within `MAXOPBLOCKS`; once one goes
beyond (`over`) this ends with the transaction.  `Header`, `Copied`, `Installed` and
`Coherent` relate the header on disk, the log blocks, the home locations and the cache at
each step of `commit()` and of recovery, wherever the machine stops.  After a panic only
what is on disk counts (`Stopped`).  `LogAtomic` is the refinement `Spec => TxnSpec`: what
recovery would make of the disk changes only when the header is written, and then to what
the operations of the group see.

**Virtio.**  The driver's rings are shared with a device that finishes in any order.
`Located` says that a request that is not done is in exactly one place (about to be
published, in the available ring, with the device, in the used ring) and `Ordered`
that it is there once; otherwise the handler could meet it a second time, when its
descriptors have gone to somebody else.  `Counted` and three descriptors per request
show that the rings are never full, so that free-running indices and slots modulo
`NUM` agree (`RingPut`, `RingTake`, `RingShort`).

**Console.**  `Locks` says who holds `cons.lock` and `uart_tx_lock`, `AboutToSleep`
that a process on its way into `sleep()` has just seen the condition it sleeps on,
and `FifoRoom` that `LSR_TX_IDLE`, read under one lock, still leaves room for a
character after somebody has written one under each of the two others; hence a FIFO of
three.

**Files.**  There are six parts.  `RefsIInv` adds to `RefsExact` that the entries a
`pipe()` has allocated are its own and have one reference (`OwnEnds`), so that closing
them on the way out frees them and nothing else.  `Typed` says that an entry with a
descriptor has been filled in, so that `fileread()` and `filewrite()` do not panic.

`BlocksInv` counts, and `bmap()` may allocate three blocks on its way and fail at any of
them.  The proof has instead a home for every marked block: its inode, the index block
above it, its place there and the levels below it (`Placed`).  Homes are unique because a
function has one value, `AttachTop` and `AttachWord` give the home of a block that `balloc()`
has just found, `Detach` takes away those of a truncated inode, and `TreeOf` says that
`itrunc()` frees exactly the blocks whose home is in the inode.  At the end homes are a
bijection between marked blocks and places, hence the count (`BlocksFrom`).

`FilesIInv` says what a call under way may rely on: a descriptor keeps its entry of the
file table alive (`HasFd`), the inode is locked, a read is within the size, a write
within the largest file, and the blocks up to the size and up to where `writei()` has
come are mapped (`Mapped`).  So `readi()` finds every block it asks for and allocates
none (`BmapFinds`).  `FilesStep` reduces a step to the process that takes it: others
keep their entries, and inodes that are locked by others stay (`Apart`).

`ReadExact` needs to know that nobody changes the file under a reader.  `Word` is the word
at an offset, reached through the block map; `EndFacts` gives end and contents of a file
in these terms.  A block has one place in one file (`BlockApart`, from the homes), so a
`writei()` changes words of its own part of its own block only (`WriteWords`), although
`bmap()` may add index blocks on the way.  `ReadsIInv` says that the words a `readi()` has
copied are those at the offset; the lock on the inode keeps it true for the others
(`OthersRead`), and the one that reads adds what `bmap()` finds (`CopiesRead`).

`FilesFlat` is the refinement of `FlatFile`, without a further invariant.  Offset and end of
a file depend on the `writei()` under way, of which there is one at most per inode
(`Alone`): `SameWriters` and `SameFronts` say when a step leaves both as they are.  Every
step then is an open, a read or a write of the flat file, the smear of a write that failed in
the middle of a block, or changes nothing there (`ActFlat`).  The end of a `writei()`, which
moves offset and size, is one of the last kind: the flat file has seen the words before.

Only model-checked:

- liveness (`OrphanReaped`, `RequestEnds`, `WriteEnds`), which is beyond the prover;
- `Console => Tty`: its mapping filters the FIFO, a recursive definition whose laws
  need induction over data;
- `FitsUnlessSpread`, whose bound comes from adding up what `bmap()` may log on each of its
  ways;
- the invariants of `Fs`: they do not hold for every workload.  That an inode in use is
  allocated fails once somebody looks up `..` in a removed directory (section 6), and the
  other invariants rest on it.

## 6. What the code does otherwise than it says

All of this was met while modelling and is part of the models, unless it says
otherwise; the passing runs hold with it or stay clear of it as described.

- A stack overflow can stop the kernel.  `pagefault_handler()` rejects addresses
  below the page of `sp`; when the overflowing function has moved `sp` into the
  guard page already, the fault passes, and `mappages()` finds the guard page valid
  and panics with "mappages: remap" (`trap_handler.c:37-44`), although `usertests.c`
  and the repository's README speak of protection against overflow.  The stack tests
  read one page below an `sp` that is still in the stack page.  `Vm` has this panic;
  `VmInv` speaks of the others.
- `iput()` frees the inode on disk and gives up `ip->lock` before it drops its
  reference under `itable.lock` (`fs.c:330`).  A file that is created with the same
  inode number, unlinked and closed in between is never freed (`reused`).
- `..` of a removed directory that is somebody's current directory may name a free
  inode; looking it up panics with "ilock: no type" (`fs.c:294`).  When the number has
  been given to a new file meanwhile, the process behind `..` has a reference to that
  file, and its `iput()` can free it while `create()` has not linked it yet.  Run `fs` has
  both (`strayed`).
- `NINODE` is 50 and `NFILE` 100, so that open files and current directories can fill the
  inode table: `iget()` panics with "iget: no inodes" (`fs.c:249`).  Run `fs` has it.
- `sigreturn()` restores the registers of the interrupted program, and `syscall()`
  then stores its result 0 over `a0` (`syscallv2.c:104`, `syscall.c:294-305`).  The
  alarm tests do not look at `a0`, although `user/traptest.c:88-91` speaks of "all
  registers".  Run `trap_sigreturn` has the counterexample, `UserResumes` says what happens.
- `sys_sleep()` compares `ticks - ticks0` with `n`; a process that gets no hart from the
  end of its sleep until `ticks` has gone all the way round sleeps on (`sysproc.c:69`;
  `MissedWindow`).
- `sigalarm(0, 0)` returns before it clears the interval (`syscallv2.c:90`), so the
  alarm goes on.  `allocproc()` does not clear the alarm's copy of the trapframe, so
  that a new process that calls `sigreturn()` first gets what an earlier process of
  the slot left.
- `MAXOPBLOCKS` = 10 is the "max # of blocks any FS op writes" (`param.h:9`).  An
  operation may write more.  `filewrite()` (`file.c:142-148`) leaves room for two bitmap
  blocks; with `FSSIZE` = 200000 there are 25, and a chunk whose blocks lie under three, or
  an `itrunc()` under ten, goes beyond (`FitsUnlessSpread`).  `Log` has operations of any
  size: such an operation can use up the room of others, and `log_write()` stops the
  kernel (`PanicExplained`).
- A full disk stops the kernel (`balloc()`), also for a `write()` that could fail.
- A `write()` whose buffer becomes invalid in the middle of a block has put words
  into the cached block without logging them: they are read until the buffer is
  recycled (`fs.c:528`; `Smear` of `FlatFile`, `stray` of `Bio`).
- `read()` with a length of -1 reads the whole file at offset 0, since `off + n < off`
  does not hold there, and returns 0 at any other offset (`fs.c:491`).
- A process killed in `consoleread()` loses the characters it has taken
  (`console.c:89-97`).
- `sys_open()` refuses a directory opened for writing before it follows symbolic
  links (`sysfile.c:288`), not after: through a link the directory is opened, and
  `write()` on the descriptor changes its entries.  `Open` of `Fs` has this, with the
  test only where no link has been followed; the writing itself is in no module.
- `kill(0)` matches the pid of an unused slot and marks it killed; nothing clears
  that before the next process takes the slot, which then dies at once
  (`proc.c:605`; action `KillZero`).
- A process killed between the test in `wait()` and `sleep()` sleeps on
  (`proc.c:439`).
- `kmemamount()` can follow a page that has just been allocated and read junk as a
  link (`kalloc.c:120`; `WalkStaysOnPages`).
- A writer killed in the middle of a write leaves bytes in the pipe without waking
  the reader (`pipe.c:78`; `unwoken` in `ReaderSleepJustified`).  A `read()` whose address
  is bad at its first byte returns 0, like the end of the file (`pipe.c:116`).
- With `NBUF = LOGSIZE`, as in `param.h`, a full log pins every buffer and `bget()`
  panics (`bio.c:89`); `commit()` needs two more, `bmap()` and `itrunc()` three.  Run `bio`
  has this panic; `BioShape` proves that it needs every buffer pinned or in use, and
  `BioSizing` how many buffers are enough.
- `log_write()` tests for room before it looks for the block in the log
  (`log.c:206`): when every operation has logged its `MAXOPBLOCKS`, logging one of those
  blocks once more stops the kernel.  Run `log` has this (`PanicExplained`).
- `create()` and `link()` do not test that the directory is still linked; what is
  created in a removed directory is lost with it (`sysfile.c:228`; `lost`).
- `fork()` stops the kernel when memory runs out between the trapframe and the user
  page table (`proc.c:137`; `AllocProc`).
- `walkaddr()` maps a lazily grown page without clearing it, a page fault clears it
  (`vm.c:143`); they also disagree on how far below `sp` they go (`vm.c:139`,
  `trap_handler.c:37`).
- `kfree()` reads the count again after it has released the lock; with shared
  pages two threads could both read 0.  `incref()` has no caller at this commit, so
  pages are not shared, and `Kalloc` leaves it out.

## 7. Not modelled

- The super block, the spelling of names (`skipelem()`), devices other than the
  console.
- Fetching of arguments other than `argraw()`, `argfd()` and `copyin()`, strace,
  sysinfo: tables and copies.
- `main()`, the enable bits of the PLIC, string routines, the formatting of `printf()`:
  no concurrency of their own.  That `printf()` writes to the transmitter on any hart under
  `pr.lock` is in `Console`.  `ramdisk.c` is not built.  `timervec` is the interrupt it raises.
- User programs, and mkfs, which the repository does not contain.

## 8. Plan

Modules: an abstract address space that `Vm`
implements; the scheduling of `Proc` under the interrupts of `Trap`.

Theorems: the reference counts of `Fs`, which should not depend on the workload.
