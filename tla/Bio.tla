-------------------------------- MODULE Bio --------------------------------
(***************************************************************************)
(* The buffer cache, kernel/bio.c, with the sleep locks of its buffers     *)
(* (kernel/sleeplock.c): bget(), bread(), bwrite(), brelse(), and bpin()   *)
(* and bunpin() as the log uses them.                                      *)
(*                                                                         *)
(* A section under bcache.lock, and a section under the spin lock inside a *)
(* sleep lock, is one action.  A disk transfer is one action of the        *)
(* process that holds the buffer; others run before and after it.          *)
(*                                                                         *)
(* A process may hold several buffers: write_log() and install_trans() the *)
(* block of the log and the home block, bmap() and itrunc() one or two     *)
(* index blocks and the bitmap block.  A use <<p, k>> is the k-th buffer   *)
(* of process p, from its bget() to its brelse().                          *)
(***************************************************************************)
EXTENDS Naturals, Sequences, FiniteSets

CONSTANTS
  NBUF,     \* size of the cache
  Blocks,   \* block numbers of the disk
  Data,     \* contents of a block
  Procs,    \* processes that use the cache
  MAXHELD,  \* the buffers a process may hold at a time
  Rank,     \* of a block: log or index block, second index block, all others
  LOGSIZE,  \* at most so many blocks are pinned by the log
  None      \* no block, no process

ASSUME BioAssumption ==
  /\ NBUF \in Nat \ {0} /\ LOGSIZE \in Nat
  /\ MAXHELD \in Nat \ {0} /\ Rank \in [Blocks -> Nat]
  /\ None \notin Blocks /\ None \notin Procs \X (1..MAXHELD) /\ IsFiniteSet(Procs)

Bufs == 1..NBUF
Uses == Procs \X (1..MAXHELD)

VARIABLES
  lru,      \* the list from head.next, the most recently released, on
  blockno,  \* b->blockno
  valid,    \* b->valid
  refcnt,   \* b->refcnt
  data,     \* b->data
  owner,    \* who holds b->lock
  disk,     \* the blocks on disk
  pinned,   \* blocks the log has pinned
  panicked, \* bget() has found no buffer
  pc,       \* where use u is
  buf,      \* the buffer of u
  want,     \* the block u is for
  latest,   \* history: what was last put into a block's buffer
  kept,     \* history: what was last logged or written of a block
  stray     \* history: blocks whose latest change was neither logged nor written

bufVars == <<lru, blockno, valid, refcnt, data, owner>>
history == <<latest, kept, stray>>
vars == <<bufVars, disk, pinned, panicked, pc, buf, want, history>>

Using == {"lock", "asleep", "fill", "own", "dirty", "unpin", "put"}
Holding == {"fill", "own", "dirty", "unpin"}

Goto(u, l) == pc' = [pc EXCEPT ![u] = l]

\* Process u[1] is not in the middle of another bget(), bread() or brelse().
Turn(u) == \A w \in Uses :
  w[1] = u[1] /\ w # u => pc[w] \in {"idle", "own", "dirty", "unpin"}

\* A further block is always asked for in the same order: the home block after
\* the log's, the bitmap or data block after the index blocks.
InOrder(u, n) == \A w \in Uses :
  w[1] = u[1] /\ pc[w] \in Using => w[2] < u[2] /\ Rank[want[w]] < Rank[n]

\* The change of block n is logged, or written to the disk.
Keep(n) ==
  /\ kept' = [kept EXCEPT ![n] = latest[n]]
  /\ stray' = stray \ {n}
  /\ UNCHANGED latest

Init ==
  /\ lru = [k \in Bufs |-> NBUF + 1 - k]
  /\ blockno = [b \in Bufs |-> None]
  /\ valid = [b \in Bufs |-> FALSE]
  /\ refcnt = [b \in Bufs |-> 0]
  /\ data \in [Bufs -> Data] /\ \A b, c \in Bufs : data[b] = data[c]
  /\ owner = [b \in Bufs |-> None]
  /\ disk \in [Blocks -> Data]
  /\ pinned = {}
  /\ panicked = FALSE
  /\ pc = [u \in Uses |-> "idle"]
  /\ buf = [u \in Uses |-> 1]
  /\ want = [u \in Uses |-> None]
  /\ latest = disk /\ kept = disk /\ stray = {}

-----------------------------------------------------------------------------
\* Mutant: a cached block is found only while somebody uses its buffer.
BgetHitReferencedOnly(u, n) ==
  /\ ~ panicked /\ pc[u] = "idle" /\ InOrder(u, n)
  /\ want' = [want EXCEPT ![u] = n]
  /\ LET Hits == {b \in Bufs : blockno[b] = n /\ refcnt[b] > 0}
         Free == {k \in Bufs : refcnt[lru[k]] = 0} IN
     \/ \E b \in Hits :
          /\ refcnt' = [refcnt EXCEPT ![b] = @ + 1]
          /\ buf' = [buf EXCEPT ![u] = b]
          /\ Goto(u, "lock")
          /\ UNCHANGED <<blockno, valid, panicked>>
     \/ /\ Hits = {} /\ Free # {}
        /\ LET b == lru[CHOOSE k \in Free : \A l \in Free : l <= k] IN
             /\ blockno' = [blockno EXCEPT ![b] = n]
             /\ valid' = [valid EXCEPT ![b] = FALSE]
             /\ refcnt' = [refcnt EXCEPT ![b] = 1]
             /\ buf' = [buf EXCEPT ![u] = b]
        /\ Goto(u, "lock")
        /\ UNCHANGED panicked
  /\ UNCHANGED <<lru, data, owner, disk, pinned, history>>

\* bget() under bcache.lock: the buffer of block n, or else the least
\* recently used one with no references, or else panic.
Bget(u, n) ==
  /\ ~ panicked /\ pc[u] = "idle" /\ InOrder(u, n)
  /\ want' = [want EXCEPT ![u] = n]
  /\ LET Hits == {b \in Bufs : blockno[b] = n}
         Free == {k \in Bufs : refcnt[lru[k]] = 0} IN
     \/ \E b \in Hits :
          /\ refcnt' = [refcnt EXCEPT ![b] = @ + 1]
          /\ buf' = [buf EXCEPT ![u] = b]
          /\ Goto(u, "lock")
          /\ UNCHANGED <<blockno, valid, panicked>>
     \/ /\ Hits = {} /\ Free # {}
        /\ LET b == lru[CHOOSE k \in Free : \A l \in Free : l <= k] IN
             /\ blockno' = [blockno EXCEPT ![b] = n]
             /\ valid' = [valid EXCEPT ![b] = FALSE]
             /\ refcnt' = [refcnt EXCEPT ![b] = 1]
             /\ buf' = [buf EXCEPT ![u] = b]
        /\ Goto(u, "lock")
        /\ UNCHANGED panicked
     \/ /\ Hits = {} /\ Free = {}
        /\ panicked' = TRUE
        /\ UNCHANGED <<blockno, valid, refcnt, buf, pc>>
  /\ UNCHANGED <<lru, data, owner, disk, pinned, history>>

\* acquiresleep(&b->lock): one round of its loop.
AcquireSleep(u) ==
  /\ ~ panicked /\ pc[u] = "lock"
  /\ \/ owner[buf[u]] # None /\ Goto(u, "asleep") /\ UNCHANGED owner
     \/ /\ owner[buf[u]] = None
        /\ owner' = [owner EXCEPT ![buf[u]] = u]
        /\ Goto(u, "fill")
  /\ UNCHANGED <<lru, blockno, valid, refcnt, data, disk, pinned, panicked, buf, want, history>>

\* Mutant: the block is read even if the buffer holds it.
BreadAlways(u) ==
  /\ ~ panicked /\ pc[u] = "fill"
  /\ data' = [data EXCEPT ![buf[u]] = disk[blockno[buf[u]]]]
  /\ valid' = [valid EXCEPT ![buf[u]] = TRUE]
  /\ Goto(u, "own")
  /\ UNCHANGED <<lru, blockno, refcnt, owner, disk, pinned, panicked, buf, want, history>>

\* bread() after bget(): read the block unless the buffer holds it.
Bread(u) ==
  /\ ~ panicked /\ pc[u] = "fill"
  /\ LET b == buf[u] IN
     \/ valid[b] /\ UNCHANGED <<data, valid>>
     \/ /\ ~ valid[b]
        /\ data' = [data EXCEPT ![b] = disk[blockno[b]]]
        /\ valid' = [valid EXCEPT ![b] = TRUE]
  /\ Goto(u, "own")
  /\ UNCHANGED <<lru, blockno, refcnt, owner, disk, pinned, panicked, buf, want, history>>

\* The caller of bread() changes b->data.
Modify(u, v) ==
  /\ ~ panicked /\ pc[u] \in {"own", "dirty"}
  /\ data' = [data EXCEPT ![buf[u]] = v]
  /\ latest' = [latest EXCEPT ![want[u]] = v]
  /\ Goto(u, "dirty")
  /\ UNCHANGED <<lru, blockno, valid, refcnt, owner, disk, pinned, panicked, buf, want>>
  /\ UNCHANGED <<kept, stray>>

\* bwrite() of what was changed.
Bwrite(u) ==
  /\ ~ panicked /\ pc[u] = "dirty" /\ want[u] \notin pinned
  /\ disk' = [disk EXCEPT ![blockno[buf[u]]] = data[buf[u]]]
  /\ Keep(want[u])
  /\ Goto(u, "own")
  /\ UNCHANGED <<bufVars, pinned, panicked, buf, want>>

\* log_write() instead of bwrite(): bpin() unless the block is in the log.
Bpin(u) ==
  /\ ~ panicked /\ pc[u] = "dirty"
  /\ want[u] \in pinned \/ Cardinality(pinned) < LOGSIZE
  /\ refcnt' = [refcnt EXCEPT ![buf[u]] = IF want[u] \in pinned THEN @ ELSE @ + 1]
  /\ pinned' = pinned \cup {want[u]}
  /\ Keep(want[u])
  /\ Goto(u, "own")
  /\ UNCHANGED <<lru, blockno, valid, data, owner, disk, panicked, buf, want>>

\* install_trans(): bwrite() of a pinned block ...
InstallWrite(u) ==
  /\ ~ panicked /\ pc[u] = "own" /\ want[u] \in pinned
  /\ disk' = [disk EXCEPT ![blockno[buf[u]]] = data[buf[u]]]
  /\ Keep(want[u])
  /\ Goto(u, "unpin")
  /\ UNCHANGED <<bufVars, pinned, panicked, buf, want>>

\* ... and bunpin().
Bunpin(u) ==
  /\ ~ panicked /\ pc[u] = "unpin"
  /\ refcnt' = [refcnt EXCEPT ![buf[u]] = @ - 1]
  /\ pinned' = pinned \ {want[u]}
  /\ Goto(u, "own")
  /\ UNCHANGED <<lru, blockno, valid, data, owner, disk, panicked, buf, want, history>>

\* Mutant: releasesleep() wakes nobody.
ReleaseSleepSilent(u) ==
  /\ ~ panicked /\ pc[u] \in {"own", "dirty"}
  /\ owner' = [owner EXCEPT ![buf[u]] = None]
  /\ stray' = IF pc[u] = "dirty" THEN stray \cup {want[u]} ELSE stray
  /\ Goto(u, "put")
  /\ UNCHANGED <<lru, blockno, valid, refcnt, data, disk, pinned, panicked, buf, want>>
  /\ UNCHANGED <<latest, kept>>

\* brelse(): releasesleep(), which wakes all who sleep on this lock.  writei()
\* gives back a buffer it has changed without log_write() when the copy from
\* the caller's memory fails halfway.
ReleaseSleep(u) ==
  /\ ~ panicked /\ pc[u] \in {"own", "dirty"}
  /\ owner' = [owner EXCEPT ![buf[u]] = None]
  /\ stray' = IF pc[u] = "dirty" THEN stray \cup {want[u]} ELSE stray
  /\ pc' = [w \in Uses |-> IF w = u THEN "put"
                           ELSE IF pc[w] = "asleep" /\ buf[w] = buf[u] THEN "lock"
                           ELSE pc[w]]
  /\ UNCHANGED <<lru, blockno, valid, refcnt, data, disk, pinned, panicked, buf, want>>
  /\ UNCHANGED <<latest, kept>>

\* Move buffer b from its place k in the list to the front.
ToFront(b) ==
  LET k == CHOOSE l \in Bufs : lru[l] = b IN
  [l \in Bufs |-> IF l = 1 THEN b ELSE IF l <= k THEN lru[l - 1] ELSE lru[l]]

\* brelse() under bcache.lock.
BrelsePut(u) ==
  /\ ~ panicked /\ pc[u] = "put"
  /\ refcnt' = [refcnt EXCEPT ![buf[u]] = @ - 1]
  /\ lru' = IF refcnt[buf[u]] = 1 THEN ToFront(buf[u]) ELSE lru
  /\ buf' = [buf EXCEPT ![u] = 1] /\ want' = [want EXCEPT ![u] = None]
  /\ Goto(u, "idle")
  /\ UNCHANGED <<blockno, valid, data, owner, disk, pinned, panicked, history>>

\* What a process does once it has asked for a block.
Step(u) ==
  \/ AcquireSleep(u) \/ Bread(u) \/ Bwrite(u) \/ Bpin(u) \/ InstallWrite(u)
  \/ Bunpin(u) \/ ReleaseSleep(u) \/ BrelsePut(u)

\* panic() stops the machine.
Halted == panicked /\ UNCHANGED vars

Next ==
  \/ \E u \in Uses :
       /\ Turn(u)
       /\ Step(u) \/ (\E n \in Blocks : Bget(u, n)) \/ (\E v \in Data : Modify(u, v))
  \/ Halted

Spec == Init /\ [][Next]_vars

-----------------------------------------------------------------------------
\* The type of the cache; the list holds every buffer once.
TypeOK ==
  /\ lru \in [Bufs -> Bufs] /\ \A k, l \in Bufs : lru[k] = lru[l] => k = l
  /\ blockno \in [Bufs -> Blocks \cup {None}]
  /\ valid \in [Bufs -> BOOLEAN]
  /\ refcnt \in [Bufs -> Nat]
  /\ data \in [Bufs -> Data]
  /\ owner \in [Bufs -> Uses \cup {None}]
  /\ disk \in [Blocks -> Data] /\ latest \in [Blocks -> Data] /\ kept \in [Blocks -> Data]
  /\ pinned \in SUBSET Blocks /\ stray \in SUBSET Blocks
  /\ panicked \in BOOLEAN
  /\ pc \in [Uses -> Using \cup {"idle"}]
  /\ buf \in [Uses -> Bufs]
  /\ want \in [Uses -> Blocks \cup {None}]

\* A block is cached in one buffer at most, so that its lock is the lock of
\* the block ("Only one process at a time can use a buffer"), however the
\* misses, hits and releases of several processes interleave.
OneBuffer == \A b, c \in Bufs :
  blockno[b] = blockno[c] /\ blockno[b] # None => b = c

\* From bget() to brelse(), asleep or not, a process's buffer stays the
\* buffer of the block it asked for.
BufferStays == \A u \in Uses : pc[u] \in Using => blockno[buf[u]] = want[u]

\* Whoever holds a buffer finds what was last put into the block, and a buffer
\* that is recycled loses nothing that was logged or written.  A change that
\* was neither, which writei() leaves behind after a failed copy, is seen until
\* the buffer is recycled; then the block is what was last logged or written.
ContentsCurrent == \A n \in Blocks :
  \/ \E b \in Bufs : /\ blockno[b] = n /\ valid[b]
                     /\ data[b] = latest[n] \/ (n \in stray /\ data[b] = kept[n])
  \/ /\ \A b \in Bufs : ~ (blockno[b] = n /\ valid[b])
     /\ disk[n] = kept[n] /\ (n \in stray \/ kept[n] = latest[n])

\* A process asleep in acquiresleep() is asleep because somebody holds the lock.
SleepJustified == \A u \in Uses : pc[u] = "asleep" => owner[buf[u]] # None

\* The uses that are between bget() and brelse() with buffer b.
UsersOf(b) == {u \in Uses : pc[u] \in Using /\ buf[u] = b}

\* Every buffer is in use or pinned by the log.
CacheFull == \A b \in Bufs : blockno[b] \in pinned \/ UsersOf(b) # {}

\* panic("bget: no buffers") has not fired.
BufferFound == ~ panicked

\* The shape of the cache: well typed, a block in one buffer at most, the same
\* buffer from bget() to brelse(), and a panic of bget() only when each buffer
\* is pinned or in use: no reference is lost.
CacheInv == TypeOK /\ OneBuffer /\ BufferStays /\ (BufferFound \/ CacheFull)
=============================================================================
