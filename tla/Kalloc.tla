------------------------------- MODULE Kalloc -------------------------------
(***************************************************************************)
(* The physical page allocator, kernel/kalloc.c: a free list of pages, a   *)
(* reference count per page, kalloc(), kfree() and the lock-free           *)
(* kmemamount() behind the sysinfo system call.  incref() has no caller at *)
(* this commit, so no page has two references.                             *)
(*                                                                         *)
(* A section of the code under kmem.lock is one action.  What the code     *)
(* does outside the lock (filling pages, the second look of kfree() at the *)
(* reference count, the walk of kmemamount()) is a step of its own.        *)
(***************************************************************************)
EXTENDS Naturals, Sequences, FiniteSets

CONSTANTS
  Pages,    \* the page frames between end and PHYSTOP
  Threads,  \* kernel threads that call the allocator
  NoPage,   \* the null pointer
  FillWord  \* a word of a page that is no link: fill bytes or owner's data

ASSUME KallocAssumption ==
  /\ IsFiniteSet(Pages)
  /\ NoPage \notin Pages /\ FillWord \notin Pages /\ NoPage # FillWord

VARIABLES
  freelist,  \* kmem.freelist, the pages in the order of their links
  refcount,  \* refcount[p], the number of references to page p
  held,      \* held[t], the pages t owns a reference to
  kpc,       \* what t is doing inside the allocator
  arg,       \* the page t is allocating or freeing
  cursor,    \* the pointer r of t in kmemamount()
  word       \* first word of a page that is not on the list

kallocVars == <<freelist, refcount, held, kpc, arg, cursor, word>>

InTransit == {"fill", "check", "junk", "push"}
Pcs == InTransit \cup {"idle", "walk", "wild", "panic"}
Pointers == Pages \cup {NoPage, FillWord}

Listed == {freelist[i] : i \in DOMAIN freelist}

\* What a load of r->next returns: the link while r is on the list, else
\* whatever its last owner left there.
NextOf(r) ==
  IF r \in Listed
  THEN LET i == CHOOSE k \in DOMAIN freelist : freelist[k] = r
       IN IF i < Len(freelist) THEN freelist[i + 1] ELSE NoPage
  ELSE word[r]

KallocGoto(t, l) == kpc' = [kpc EXCEPT ![t] = l]

(***************************************************************************)
(* kinit() and freerange() have pushed every page; the order on the list   *)
(* is that of the addresses, which the model does not tell apart.          *)
(***************************************************************************)
KallocInit ==
  /\ freelist \in [1..Cardinality(Pages) -> Pages]
  /\ Listed = Pages
  /\ \A i, j \in DOMAIN freelist : freelist[i] = freelist[j] => i = j
  /\ refcount = [p \in Pages |-> 0]
  /\ held = [t \in Threads |-> {}]
  /\ kpc = [t \in Threads |-> "idle"]
  /\ arg = [t \in Threads |-> NoPage]
  /\ cursor = [t \in Threads |-> NoPage]
  /\ word = [p \in Pages |-> FillWord]

\* Mutant: the head is read but not unlinked.
KallocPopKeepsHead(t) ==
  /\ kpc[t] = "idle" /\ freelist # <<>>
  /\ LET r == Head(freelist) IN
       /\ refcount' = [refcount EXCEPT ![r] = 1]
       /\ arg' = [arg EXCEPT ![t] = r]
       /\ KallocGoto(t, "fill")
  /\ UNCHANGED <<freelist, held, cursor, word>>

\* Mutant: the reference count of the new page is left at 0.
KallocPopNoRef(t) ==
  /\ kpc[t] = "idle" /\ freelist # <<>>
  /\ LET r == Head(freelist) IN
       /\ freelist' = Tail(freelist)
       /\ word' = [word EXCEPT ![r] = NextOf(r)]
       /\ arg' = [arg EXCEPT ![t] = r]
       /\ KallocGoto(t, "fill")
  /\ UNCHANGED <<refcount, held, cursor>>

\* kalloc() under the lock.  An empty list returns 0 and changes nothing.
KallocPop(t) ==
  /\ kpc[t] = "idle" /\ freelist # <<>>
  /\ LET r == Head(freelist) IN
       /\ freelist' = Tail(freelist)
       /\ word' = [word EXCEPT ![r] = NextOf(r)]
       /\ \/ /\ refcount[r] # 0
             /\ KallocGoto(t, "panic")
             /\ UNCHANGED <<refcount, arg>>
          \/ /\ refcount[r] = 0
             /\ refcount' = [refcount EXCEPT ![r] = 1]
             /\ arg' = [arg EXCEPT ![t] = r]
             /\ KallocGoto(t, "fill")
  /\ UNCHANGED <<held, cursor>>

\* kalloc() after the lock: memset(r, 5) and return the page.
KallocFill(t) ==
  /\ kpc[t] = "fill"
  /\ word' = [word EXCEPT ![arg[t]] = FillWord]
  /\ held' = [held EXCEPT ![t] = @ \cup {arg[t]}]
  /\ KallocGoto(t, "idle")
  /\ UNCHANGED <<freelist, refcount, arg, cursor>>

\* kfree() under its first lock: give up one reference.
KfreeDec(t, p) ==
  /\ kpc[t] = "idle" /\ p \in held[t]
  /\ held' = [held EXCEPT ![t] = @ \ {p}]
  /\ arg' = [arg EXCEPT ![t] = p]
  /\ \/ refcount[p] < 1 /\ KallocGoto(t, "panic") /\ UNCHANGED refcount
     \/ /\ refcount[p] >= 1
        /\ refcount' = [refcount EXCEPT ![p] = @ - 1]
        /\ KallocGoto(t, "check")
  /\ UNCHANGED <<freelist, cursor, word>>

\* Mutant: the test of the count is off by one, so the last reference
\* is taken for one of several.
KfreeCheckOffByOne(t) ==
  /\ kpc[t] = "check"
  /\ KallocGoto(t, IF refcount[arg[t]] >= 0 THEN "idle" ELSE "junk")
  /\ UNCHANGED <<freelist, refcount, held, arg, cursor, word>>

\* kfree() between its two locks: the count is read again, without the lock.
KfreeCheck(t) ==
  /\ kpc[t] = "check"
  /\ KallocGoto(t, IF refcount[arg[t]] > 0 THEN "idle" ELSE "junk")
  /\ UNCHANGED <<freelist, refcount, held, arg, cursor, word>>

\* kfree(): memset(pa, 1).
KfreeFill(t) ==
  /\ kpc[t] = "junk"
  /\ word' = [word EXCEPT ![arg[t]] = FillWord]
  /\ KallocGoto(t, "push")
  /\ UNCHANGED <<freelist, refcount, held, arg, cursor>>

\* kfree() under its second lock: link the page in front of the list.
KfreePush(t) ==
  /\ kpc[t] = "push"
  /\ freelist' = <<arg[t]>> \o freelist
  /\ KallocGoto(t, "idle")
  /\ UNCHANGED <<refcount, held, arg, cursor, word>>

\* kmemamount(): r = kmem.freelist, without the lock.
WalkStart(t) ==
  /\ kpc[t] = "idle"
  /\ cursor' = [cursor EXCEPT ![t] = IF freelist = <<>> THEN NoPage
                                                        ELSE Head(freelist)]
  /\ KallocGoto(t, "walk")
  /\ UNCHANGED <<freelist, refcount, held, arg, word>>

\* kmemamount(): while (r) r = r->next.  A load through FillWord is a fault
\* in the kernel: kerneltrap() panics.
WalkStep(t) ==
  /\ kpc[t] = "walk"
  /\ \/ cursor[t] = NoPage /\ KallocGoto(t, "idle") /\ UNCHANGED cursor
     \/ cursor[t] = FillWord /\ KallocGoto(t, "wild") /\ UNCHANGED cursor
     \/ /\ cursor[t] \in Pages
        /\ cursor' = [cursor EXCEPT ![t] = NextOf(cursor[t])]
        /\ UNCHANGED kpc
  /\ UNCHANGED <<freelist, refcount, held, arg, word>>

KallocNext == \E t \in Threads :
  \/ KallocPop(t) \/ KallocFill(t)
  \/ \E p \in Pages : KfreeDec(t, p)
  \/ KfreeCheck(t) \/ KfreeFill(t) \/ KfreePush(t)
  \/ WalkStart(t) \/ WalkStep(t)

KallocSpec == KallocInit /\ [][KallocNext]_kallocVars

-----------------------------------------------------------------------------
\* The type of the state: what each variable of kalloc.c may hold.
KallocTypeOK ==
  /\ freelist \in Seq(Pages)
  /\ refcount \in [Pages -> Nat]
  /\ held \in [Threads -> SUBSET Pages]
  /\ kpc \in [Threads -> Pcs]
  /\ arg \in [Threads -> Pages \cup {NoPage}]
  /\ cursor \in [Threads -> Pointers]
  /\ word \in [Pages -> Pointers]

\* The pages t owns: those kalloc() gave it, and the one it is just
\* allocating or freeing.
Owns(t) == held[t] \cup IF kpc[t] \in InTransit THEN {arg[t]} ELSE {}

\* kalloc() never hands a page to one thread while another one owns it or
\* while it is still linked, and no page is linked twice: two owners of a
\* page table or kernel stack are what the list, the counts and the lock
\* sections of kalloc()/kfree() together must exclude.
PageExclusive ==
  /\ \A t, u \in Threads : t # u => Owns(t) \cap Owns(u) = {}
  /\ \A t \in Threads : Owns(t) \cap Listed = {}
  /\ \A i, j \in DOMAIN freelist : freelist[i] = freelist[j] => i = j

\* No page is lost: every page of the machine is linked or owned, whatever
\* point the allocating and freeing threads have reached.
PagesConserved == \A p \in Pages : p \in Listed \/ \E t \in Threads : p \in Owns(t)

\* The consistency checks of kalloc.c, panic("kalloc: ref") and
\* panic("kfree cow"), never fire.
NoPanic == \A t \in Threads : kpc[t] # "panic"

\* kmemamount() reads links only through pages that hold links: the
\* pointer it follows is never a page's fill bytes or data.
WalkStaysOnPages == \A t \in Threads : cursor[t] # FillWord
=============================================================================
