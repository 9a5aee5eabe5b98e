--------------------------------- MODULE Vm ---------------------------------
(***************************************************************************)
(* User address spaces: vm.c, the lazy allocation of trap_handler.c,       *)
(* sys_sbrk(), and the parts of fork(), exec() and freeproc() that build   *)
(* and take down page tables.                                              *)
(*                                                                         *)
(* A page table belongs to one process and only that process's own thread  *)
(* touches it while it is alive, so what processes share here is the       *)
(* number of free pages: kalloc() fails when another process took the last *)
(* one.  fork() and exec() are therefore split at every page they          *)
(* allocate; a call that allocates at most once, or only frees, is one     *)
(* step.  Which page kalloc() returns is the subject of module Kalloc and  *)
(* left out: pages are counted.                                            *)
(*                                                                         *)
(* Addresses are numbers in units of a fraction of a page (PGSIZE of them  *)
(* make one), so that sizes need not be page aligned.  A page table is the *)
(* function from the mapped user pages to their PTE_U bit and the value of *)
(* one word of the page, with the set of its page-table pages: the root,   *)
(* the two above TRAMPOLINE and TRAPFRAME, the middle one over all user    *)
(* addresses, and a last-level one for every REGION pages.                 *)
(***************************************************************************)
EXTENDS Integers, Sequences, FiniteSets, Functions

CONSTANTS
  NPROC,      \* slots 1..NPROC; slot 1 is init
  NFRAMES,    \* pages the allocator starts with
  KPAGES,     \* pages of allocproc(): trapframe, kernel page table, stack
  PGSIZE,     \* address units in a page
  REGION,     \* pages under one last-level page table
  SZMAX,      \* largest size an int in sys_sbrk() can hold
  MAXARG,     \* argument pages of sys_exec()
  Images,     \* programs: the sequence of the end addresses of the segments
  Words       \* values a program stores

ASSUME VmConstants ==
  /\ NPROC \in Nat \ {0} /\ NFRAMES \in Nat /\ KPAGES \in Nat
  /\ PGSIZE \in Nat \ {0} /\ REGION \in Nat \ {0} /\ SZMAX \in Nat /\ MAXARG \in Nat
  /\ Images \subseteq Seq(1..SZMAX)
  /\ 0 \in Words /\ Words \subseteq Nat \ {5}
  /\ NFRAMES >= KPAGES + 6  \* userinit() finds its pages

VARIABLES
  free,     \* pages on the free list
  kp,       \* kp[p]: pages of allocproc() the slot holds, 0 when UNUSED
  pc,       \* where p's thread is
  sz,       \* p->sz
  pte,      \* p->pagetable: user page |-> [u, word]
  tabs,     \* page-table pages of p->pagetable
  np,       \* fork(): the child's slot
  i,        \* fork(): the page uvmcopy() is at; exec(): the one uvmalloc() is at
  args,     \* sys_exec(): argument pages held
  img,      \* exec(): ends of the segments still to load
  nsz,      \* exec(): its local sz
  npte,     \* exec(): the page table being built
  ntabs,    \* exec(): its page-table pages
  guard,    \* history: the guard page of the image, while it is part of memory
  panic     \* "none", or why the kernel stopped

procs == <<kp, pc, sz, pte, tabs, guard>>
exec == <<args, img, nsz, npte, ntabs>>
vars == <<free, kp, pc, sz, pte, tabs, np, i, args, img, nsz, npte, ntabs, guard, panic>>

Procs == 1..NPROC
InitProc == 1
NoGuard == -1
NoWord == -1
Junk == 5                   \* what kalloc() leaves in a page
Data == Words \cup {Junk}

PGROUNDUP(a) == (a + PGSIZE - 1) \div PGSIZE      \* as a page number
PGROUNDDOWN(a) == a \div PGSIZE                   \* as a page number
UserPages == 0..(PGROUNDUP(SZMAX) + 2)

RootTabs == {0, 1, 2}
MidTab == 3
LeafTab(v) == 4 + v \div REGION
AllTabs == RootTabs \cup {MidTab} \cup {LeafTab(v) : v \in UserPages}

-----------------------------------------------------------------------------
(* Page tables *)

\* walk(.., v, 1) with f free pages: the page-table pages there are after it.
\* The middle page stays when only the last-level one cannot be allocated.
walk(t, f, v) ==
  LET missing == {MidTab, LeafTab(v)} \ t
  IN  t \cup {x \in missing : Cardinality({y \in missing : y <= x}) <= f}

\* Mutant: the page is not given back when mappages() fails.
MapNewLeak(t, f, v) ==
  LET w    == walk(t, f - 1, v)
      used == Cardinality(w) - Cardinality(t)
  IN  IF f = 0 THEN [ok |-> FALSE, tabs |-> t, free |-> 0]
      ELSE [ok |-> LeafTab(v) \in w, tabs |-> w, free |-> f - used - 1]

\* kalloc() of a page and mappages() of it at v: whether that worked, and the
\* page-table pages and the number of free pages it leaves.
MapNew(t, f, v) ==
  LET w    == walk(t, f - 1, v)
      used == Cardinality(w) - Cardinality(t)
      ok   == f > 0 /\ LeafTab(v) \in w
  IN  IF f = 0 THEN [ok |-> FALSE, tabs |-> t, free |-> 0]
      ELSE [ok |-> ok, tabs |-> w, free |-> f - used - (IF ok THEN 1 ELSE 0)]

\* mappages() of one page v that was not mapped, with entry e.
mappages(t, v, e) == [x \in DOMAIN t \cup {v} |-> IF x = v THEN e ELSE t[x]]

\* uvmunmap(.., va, npages, 1): the mapped pages that stay.
uvmunmap(t, first, npages) == RestrictDomain(t, LAMBDA v : v \notin first..(first + npages - 1))

\* uvmdealloc(), for newsz < oldsz.
uvmdealloc(t, oldsz, newsz) ==
  IF PGROUNDUP(newsz) < PGROUNDUP(oldsz)
  THEN uvmunmap(t, PGROUNDUP(newsz), PGROUNDUP(oldsz) - PGROUNDUP(newsz)) ELSE t

\* proc_freepagetable(): what is still mapped when freewalk() starts.
LeftAfter(t, size) == uvmunmap(t, 0, PGROUNDUP(size))

\* The number of pages proc_freepagetable() gives back.
PagesOf(t, tb) == Cardinality(DOMAIN t) + Cardinality(tb)

Empty == [v \in {} |-> [u |-> TRUE, word |-> 0]]

Running(p) == panic = "none" /\ pc[p] = "user"

\* freewalk() panics when a leaf is left.
StopIfLeaf(t) == panic' = IF DOMAIN t = {} THEN panic ELSE "freewalk: leaf"

Init ==
  /\ kp = [p \in Procs |-> IF p = InitProc THEN KPAGES ELSE 0]
  /\ pc = [p \in Procs |-> IF p = InitProc THEN "user" ELSE "unused"]
  /\ sz = [p \in Procs |-> IF p = InitProc THEN PGSIZE ELSE 0]
  /\ pte = [p \in Procs |-> IF p = InitProc THEN [v \in {0} |-> [u |-> TRUE, word |-> 0]]
                            ELSE Empty]
  /\ tabs = [p \in Procs |-> IF p = InitProc THEN RootTabs \cup {MidTab, LeafTab(0)} ELSE {}]
  /\ free = NFRAMES - KPAGES - PagesOf(pte[InitProc], tabs[InitProc])
  /\ np = [p \in Procs |-> 0]
  /\ i = [p \in Procs |-> 0]
  /\ args = [p \in Procs |-> 0]
  /\ img = [p \in Procs |-> <<>>]
  /\ nsz = [p \in Procs |-> 0]
  /\ npte = [p \in Procs |-> Empty]
  /\ ntabs = [p \in Procs |-> {}]
  /\ guard = [p \in Procs |-> NoGuard]
  /\ panic = "none"

-----------------------------------------------------------------------------
(* User memory of a running process *)

\* exit() of p; the death of init stops the kernel.
Dies(p) ==
  IF p = InitProc THEN panic' = "init exiting" /\ UNCHANGED pc
  ELSE pc' = [pc EXCEPT ![p] = "zombie"] /\ UNCHANGED panic

\* A store of the program to a page it may use.
Store(p, v, w) ==
  /\ Running(p)
  /\ v \in DOMAIN pte[p] /\ pte[p][v].u
  /\ pte' = [pte EXCEPT ![p][v].word = w]
  /\ UNCHANGED <<free, kp, pc, sz, tabs, np, i, exec, guard, panic>>

\* usertrap() and pagefault_handler() for a load or store at va that the MMU
\* refuses, with stack pointer sp.
PageFault(p, va, sp) ==
  LET v == PGROUNDDOWN(va)
      m == MapNew(tabs[p], free, v)
  IN
  /\ Running(p)
  /\ v \in DOMAIN pte[p] => ~ pte[p][v].u
  /\ IF free = 0 \/ va >= sz[p] \/ v < PGROUNDDOWN(sp)
     THEN Dies(p) /\ UNCHANGED <<free, pte, tabs>>
     ELSE IF v \in DOMAIN pte[p]
     THEN panic' = "mappages: remap" /\ UNCHANGED <<free, pc, pte, tabs>>
     ELSE /\ free' = m.free
          /\ tabs' = [tabs EXCEPT ![p] = m.tabs]
          /\ IF m.ok
             THEN /\ pte' = [pte EXCEPT ![p] = mappages(@, v, [u |-> TRUE, word |-> 0])]
                  /\ UNCHANGED <<pc, panic>>
             ELSE Dies(p) /\ UNCHANGED pte
  /\ UNCHANGED <<kp, sz, np, i, exec, guard>>

\* walkaddr() gives page v, which is not mapped, a page of its own.
LazyByWalkaddr(p, v, sp) ==
  v \notin DOMAIN pte[p] /\ v * PGSIZE < sz[p] /\ v >= PGROUNDUP(sp)

\* One round of copyin(), copyout() or copyinstr() in a system call of p at
\* page v, with stack pointer sp; walkaddr() does not clear the page it maps,
\* and the copy may store w in it.
CopyUser(p, v, sp, w) ==
  LET m == MapNew(tabs[p], free, v)
      Copied(word) == IF w \in Words THEN w ELSE word
  IN
  /\ panic = "none" /\ pc[p] \in {"user", "args"}
  /\ \/ /\ v \in DOMAIN pte[p] /\ pte[p][v].u
        /\ pte' = [pte EXCEPT ![p][v].word = Copied(@)]
        /\ UNCHANGED <<free, tabs>>
     \/ /\ LazyByWalkaddr(p, v, sp)
        /\ free' = m.free
        /\ tabs' = [tabs EXCEPT ![p] = m.tabs]
        /\ pte' = IF m.ok
                  THEN [pte EXCEPT ![p] = mappages(@, v, [u |-> TRUE, word |-> Copied(Junk)])]
                  ELSE pte
  /\ UNCHANGED <<kp, pc, sz, np, i, exec, guard, panic>>

\* sys_sbrk() to a new size that int can hold; growing maps nothing.
Sbrk(p, newsz) ==
  /\ Running(p)
  /\ newsz \in 1..SZMAX /\ newsz # sz[p]
  /\ pte' = IF newsz < sz[p] THEN [pte EXCEPT ![p] = uvmdealloc(@, sz[p], newsz)] ELSE pte
  /\ free' = free + Cardinality(DOMAIN pte[p]) - Cardinality(DOMAIN pte'[p])
  /\ sz' = [sz EXCEPT ![p] = newsz]
  /\ guard' = [guard EXCEPT ![p] = IF @ >= PGROUNDUP(newsz) THEN NoGuard ELSE @]
  /\ UNCHANGED <<kp, pc, tabs, np, i, exec, panic>>

\* The system call exit(), or a fault that no handler resolves.
Exit(p) ==
  /\ Running(p)
  /\ Dies(p)
  /\ UNCHANGED <<free, kp, sz, pte, tabs, np, i, exec, guard>>

-----------------------------------------------------------------------------
(* fork() and wait() *)

\* freeproc() of slot q, with f pages free before it.
FreeProc(q, f, t) ==
  /\ free' = f + kp[q] + PagesOf(t, tabs[q])
  /\ kp' = [kp EXCEPT ![q] = 0]
  /\ sz' = [sz EXCEPT ![q] = 0]
  /\ pte' = [pte EXCEPT ![q] = Empty]
  /\ tabs' = [tabs EXCEPT ![q] = {}]
  /\ guard' = [guard EXCEPT ![q] = NoGuard]
  /\ StopIfLeaf(LeftAfter(t, sz[q]))

\* fork(): allocproc() takes slot q.  A failed kalloc() of the trapframe or
\* in proc_pagetable() is undone; one of the kernel page table or the kernel
\* stack stops the kernel.
AllocProc(p, q) ==
  /\ Running(p)
  /\ pc[q] = "unused" /\ \A r \in 1..(q - 1) : pc[r] # "unused"
  /\ IF free = 0 \/ free \in KPAGES..(KPAGES + Cardinality(RootTabs) - 1)
     THEN UNCHANGED <<free, kp, pc, tabs, np, i, panic>>
     ELSE IF free < KPAGES
     THEN panic' = "kern_pagetable kalloc" /\ UNCHANGED <<free, kp, pc, tabs, np, i>>
     ELSE /\ free' = free - KPAGES - Cardinality(RootTabs)
          /\ kp' = [kp EXCEPT ![q] = KPAGES]
          /\ tabs' = [tabs EXCEPT ![q] = RootTabs]
          /\ pc' = [pc EXCEPT ![p] = "fork", ![q] = "embryo"]
          /\ np' = [np EXCEPT ![p] = q]
          /\ i' = [i EXCEPT ![p] = 0]
          /\ UNCHANGED panic
  /\ UNCHANGED <<sz, pte, exec, guard>>

\* Mutant: the copy gets the flags of uvmalloc().
CopyFlagsAll(e) == [e EXCEPT !.u = TRUE]

\* uvmcopy(): the child's page table entry has the flags and contents of e.
CopyFlags(e) == e

\* What stays mapped in the child when uvmcopy() fails at page n.
CopyUndo(t, n) == uvmunmap(t, 0, n)

\* Mutant: the loop ends one page early when the size is not page aligned.
CopyDoneRoundDown(p) == i[p] >= PGROUNDDOWN(sz[p])

\* The loop condition of uvmcopy() is false.
CopyDone(p) == i[p] * PGSIZE >= sz[p]

\* One round of the loop of uvmcopy(); at its failure freeproc() of the child.
ForkCopy(p) ==
  LET q == np[p]
      m == MapNew(tabs[q], free, i[p])
  IN
  /\ panic = "none" /\ pc[p] = "fork" /\ ~ CopyDone(p)
  /\ IF i[p] \notin DOMAIN pte[p]
     THEN /\ i' = [i EXCEPT ![p] = @ + 1]
          /\ UNCHANGED <<free, kp, pc, sz, pte, tabs, np, guard, panic>>
     ELSE IF m.ok
     THEN /\ free' = m.free
          /\ tabs' = [tabs EXCEPT ![q] = m.tabs]
          /\ pte' = [pte EXCEPT ![q] = mappages(@, i[p], CopyFlags(pte[p][i[p]]))]
          /\ i' = [i EXCEPT ![p] = @ + 1]
          /\ UNCHANGED <<kp, pc, sz, np, guard, panic>>
     ELSE LET kept == CopyUndo(pte[q], i[p])
              undone == Cardinality(DOMAIN pte[q]) - Cardinality(DOMAIN kept)
          IN  /\ FreeProc(q, free + undone, kept)
              /\ pc' = [pc EXCEPT ![p] = "user", ![q] = "unused"]
              /\ np' = [np EXCEPT ![p] = 0]
              /\ i' = [i EXCEPT ![p] = 0]
  /\ UNCHANGED exec

\* The rest of fork(): the child gets its size and may run.
ForkDone(p) ==
  /\ panic = "none" /\ pc[p] = "fork" /\ CopyDone(p)
  /\ sz' = [sz EXCEPT ![np[p]] = sz[p]]
  /\ guard' = [guard EXCEPT ![np[p]] = guard[p]]
  /\ pc' = [pc EXCEPT ![p] = "user", ![np[p]] = "user"]
  /\ np' = [np EXCEPT ![p] = 0]
  /\ i' = [i EXCEPT ![p] = 0]
  /\ UNCHANGED <<free, kp, pte, tabs, exec, panic>>

\* wait(): freeproc() of a zombie, by its parent.
Reap(q) ==
  /\ panic = "none" /\ pc[q] = "zombie"
  /\ FreeProc(q, free, pte[q])
  /\ pc' = [pc EXCEPT ![q] = "unused"]
  /\ UNCHANGED <<np, i, exec>>

-----------------------------------------------------------------------------
(* exec() *)

ExecReset(p) ==
  /\ pc' = [pc EXCEPT ![p] = "user"]
  /\ args' = [args EXCEPT ![p] = 0]
  /\ img' = [img EXCEPT ![p] = <<>>]
  /\ nsz' = [nsz EXCEPT ![p] = 0]
  /\ npte' = [npte EXCEPT ![p] = Empty]
  /\ ntabs' = [ntabs EXCEPT ![p] = {}]
  /\ i' = [i EXCEPT ![p] = 0]

\* The label bad of exec(), with n pages given back just before, t the page
\* table and size the local sz; then sys_exec() frees the argument pages.
ExecBad(p, n, t, size) ==
  /\ free' = free + n + args[p] + PagesOf(t, ntabs[p])
  /\ StopIfLeaf(LeftAfter(t, size))
  /\ ExecReset(p)
  /\ UNCHANGED <<kp, sz, pte, tabs, np, guard>>

\* sys_exec() starts to fetch its arguments.
ExecCall(p) ==
  /\ Running(p)
  /\ pc' = [pc EXCEPT ![p] = "args"]
  /\ UNCHANGED <<free, kp, sz, pte, tabs, np, i, exec, guard, panic>>

\* One argument: a page for it, and the string is fetched.
ExecArg(p) ==
  /\ panic = "none" /\ pc[p] = "args" /\ args[p] < MAXARG /\ free > 0
  /\ args' = [args EXCEPT ![p] = @ + 1]
  /\ free' = free - 1
  /\ UNCHANGED <<kp, pc, sz, pte, tabs, np, i, img, nsz, npte, ntabs, guard, panic>>

\* Too many arguments, no page for one, a bad address, or no such program.
ExecArgBad(p) ==
  /\ panic = "none" /\ pc[p] = "args"
  /\ ExecBad(p, 0, npte[p], 0)

\* exec() up to proc_pagetable(), for program im.
ExecOpen(p, im) ==
  /\ panic = "none" /\ pc[p] = "args" /\ args[p] < MAXARG
  /\ free >= Cardinality(RootTabs)
  /\ free' = free - Cardinality(RootTabs)
  /\ ntabs' = [ntabs EXCEPT ![p] = RootTabs]
  /\ img' = [img EXCEPT ![p] = im]
  /\ pc' = [pc EXCEPT ![p] = "load"]
  /\ UNCHANGED <<kp, sz, pte, tabs, np, i, args, nsz, npte, guard, panic>>

\* newsz of the uvmalloc() exec() is in: the end of a segment, and at last the
\* guard page and the stack.
NewSize(p) == IF img[p] # <<>> THEN Head(img[p]) ELSE (PGROUNDUP(nsz[p]) + 2) * PGSIZE
Loading(p) == panic = "none" /\ pc[p] = "load"
Grown(p) == i[p] * PGSIZE >= NewSize(p)

\* What uvmalloc() leaves mapped when it fails.
AllocUndo(p) == uvmdealloc(npte[p], i[p] * PGSIZE, PGROUNDUP(nsz[p]) * PGSIZE)

\* One round of the loop of uvmalloc().
ExecAlloc(p) ==
  LET m == MapNew(ntabs[p], free, i[p])
  IN
  /\ Loading(p) /\ ~ Grown(p)
  /\ IF m.ok
     THEN /\ free' = m.free
          /\ ntabs' = [ntabs EXCEPT ![p] = m.tabs]
          /\ npte' = [npte EXCEPT ![p] = mappages(@, i[p], [u |-> TRUE, word |-> 0])]
          /\ i' = [i EXCEPT ![p] = @ + 1]
          /\ UNCHANGED <<kp, pc, sz, pte, tabs, np, args, img, nsz, guard, panic>>
     ELSE ExecBad(p, Cardinality(DOMAIN npte[p]) - Cardinality(DOMAIN AllocUndo(p)),
                  AllocUndo(p), nsz[p])

\* sz = sz1 after the uvmalloc() of a segment.
SegSize(p) == IF NewSize(p) < nsz[p] THEN nsz[p] ELSE NewSize(p)

\* loadseg() of a segment that starts at page first; it stops the kernel when
\* a page of the segment is not mapped.
ExecSegment(p, first, w) ==
  LET seg == first..(PGROUNDUP(NewSize(p)) - 1)
  IN
  /\ Loading(p) /\ img[p] # <<>> /\ Grown(p)
  /\ seg # {}
  /\ nsz' = [nsz EXCEPT ![p] = SegSize(p)]
  /\ img' = [img EXCEPT ![p] = Tail(@)]
  /\ npte' = [npte EXCEPT ![p] =
                [v \in DOMAIN @ |-> IF v \in seg THEN [@[v] EXCEPT !.word = w] ELSE @[v]]]
  /\ panic' = IF seg \subseteq DOMAIN npte[p] THEN panic ELSE "loadseg: address should exist"
  /\ UNCHANGED <<free, kp, pc, sz, pte, tabs, np, i, args, ntabs, guard>>

\* A segment that is not page aligned or cannot be read.
ExecSegmentBad(p) ==
  /\ Loading(p) /\ img[p] # <<>> /\ Grown(p)
  /\ ExecBad(p, 0, npte[p], SegSize(p))

\* The arguments do not fit into the stack page.
ExecStackBad(p) ==
  /\ Loading(p) /\ img[p] = <<>> /\ Grown(p)
  /\ ExecBad(p, 0, npte[p], NewSize(p))

\* The guard page loses PTE_U, the arguments are pushed, and the new image
\* takes the place of the old one, which is freed with its old size.
ExecCommit(p) ==
  LET g == PGROUNDUP(nsz[p])
  IN
  /\ Loading(p) /\ img[p] = <<>> /\ Grown(p)
  /\ pte' = [pte EXCEPT ![p] = [npte[p] EXCEPT ![g].u = FALSE]]
  /\ tabs' = [tabs EXCEPT ![p] = ntabs[p]]
  /\ sz' = [sz EXCEPT ![p] = NewSize(p)]
  /\ guard' = [guard EXCEPT ![p] = g]
  /\ free' = free + args[p] + PagesOf(pte[p], tabs[p])
  /\ StopIfLeaf(LeftAfter(pte[p], sz[p]))
  /\ ExecReset(p)
  /\ UNCHANGED <<kp, np>>

\* panic() never returns.
Halted == panic # "none" /\ UNCHANGED vars

-----------------------------------------------------------------------------
Next ==
  \/ \E p \in Procs :
       \/ \E v \in UserPages, w \in Words : Store(p, v, w)
       \/ \E va, sp \in 0..SZMAX : PageFault(p, va, sp)
       \/ \E v \in UserPages, sp \in 0..SZMAX, w \in Words \cup {NoWord} : CopyUser(p, v, sp, w)
       \/ \E newsz \in 1..SZMAX : Sbrk(p, newsz)
       \/ Exit(p)
       \/ \E q \in Procs : AllocProc(p, q)
       \/ ForkCopy(p) \/ ForkDone(p) \/ Reap(p)
       \/ ExecCall(p) \/ ExecArg(p) \/ ExecArgBad(p)
       \/ \E im \in Images : ExecOpen(p, im)
       \/ ExecAlloc(p)
       \/ \E first \in UserPages, w \in Words : ExecSegment(p, first, w)
       \/ ExecSegmentBad(p) \/ ExecStackBad(p) \/ ExecCommit(p)
  \/ Halted

Spec == Init /\ [][Next]_vars

-----------------------------------------------------------------------------
(* Properties *)

TypeOK ==
  /\ free \in 0..NFRAMES
  /\ kp \in [Procs -> {0, KPAGES}]
  /\ pc \in [Procs -> {"unused", "embryo", "user", "fork", "args", "load", "zombie"}]
  /\ sz \in [Procs -> Nat]
  /\ \A p \in Procs : DOMAIN pte[p] \subseteq UserPages /\ DOMAIN npte[p] \subseteq UserPages
  /\ \A p \in Procs, v \in UserPages :
       v \in DOMAIN pte[p] => pte[p][v] \in [u : BOOLEAN, word : Data]
  /\ tabs \in [Procs -> SUBSET AllTabs] /\ ntabs \in [Procs -> SUBSET AllTabs]
  /\ np \in [Procs -> 0..NPROC] /\ i \in [Procs -> Nat]
  /\ args \in [Procs -> 0..MAXARG]
  /\ guard \in [Procs -> UserPages \cup {NoGuard}]

\* The pages of p: of allocproc(), argument pages, user pages and page-table
\* pages, those of the image exec() builds included.
Held(p) ==
  ({"slot"} \X (1..kp[p])) \cup ({"arg"} \X (1..args[p]))
    \cup ({"page"} \X DOMAIN pte[p]) \cup ({"table"} \X tabs[p])
    \cup ({"new page"} \X DOMAIN npte[p]) \cup ({"new table"} \X ntabs[p])

\* Every page is free or held by exactly one page table, page-table page,
\* slot or argument vector.
FramesConserved == free + Cardinality(UNION {{p} \X Held(p) : p \in Procs}) = NFRAMES

\* freewalk() never finds a leaf and loadseg() never misses a page: the size
\* passed to proc_freepagetable() covers all that is mapped (vm.c:305).
TeardownComplete == panic \notin {"freewalk: leaf", "loadseg: address should exist"}

\* Whatever kalloc() refuses halfway through fork(), exec() or a page fault,
\* no page of memory is lost or counted twice (vm.c:264, 361; exec.c:123), and
\* page tables are taken down whole.
VmInv == TypeOK /\ FramesConserved /\ TeardownComplete

\* Until sbrk() gives it back, the guard page below the stack stays mapped
\* and out of the program's reach, in forked children too (vm.c:368).
GuardKept ==
  \A p \in Procs : guard[p] # NoGuard /\ pc[p] # "unused" =>
    guard[p] \in DOMAIN pte[p] /\ ~ pte[p][guard[p]].u

\* The child of a fork() that succeeds has the parent's memory: size, pages
\* that are mapped, their flags and their contents (vm.c:336).
ForkCopies ==
  [][\A p \in Procs : pc[p] = "fork" /\ pc'[p] = "user" /\ pc'[np[p]] = "user" =>
       /\ pte'[np[p]] = pte'[p]
       /\ sz'[np[p]] = sz'[p]]_vars
=============================================================================
