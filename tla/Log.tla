-------------------------------- MODULE Log --------------------------------
(***************************************************************************)
(* The redo log, kernel/log.c: begin_op(), log_write(), end_op(), commit() *)
(* with a crash possible between any two disk writes, and recovery, which  *)
(* may crash as well.                                                      *)
(*                                                                         *)
(* A section under log.lock is one action, and so is one block written to  *)
(* disk.  A block write is atomic (the device's promise).  An operation    *)
(* holds the buffer's lock from the change of b->data to its log_write(),  *)
(* so the two are one action.  A change that never reaches log_write(), as *)
(* writei() leaves behind when either_copyin() fails, is not the log's:    *)
(* modules Bio and Files have it.                                          *)
(***************************************************************************)
EXTENDS Naturals, FiniteSets, Sequences, Functions

CONSTANTS
  Blocks,       \* block numbers outside the log
  Data,         \* contents of a block
  Ops,          \* processes that make file system calls
  NoData,       \* of a block that is not in the buffer cache
  MAXOPBLOCKS,
  LOGSIZE,
  nlog          \* sb->nlog, the size of the log on disk, header included

\* mkfs, which is not part of the repository, must make the log on disk large
\* enough for LOGSIZE blocks and the header.
ASSUME LogAssumption ==
  /\ MAXOPBLOCKS \in Nat \ {0} /\ LOGSIZE \in Nat /\ nlog \in Nat
  /\ MAXOPBLOCKS <= LOGSIZE /\ LOGSIZE + 1 <= nlog
  /\ NoData \notin Data

VARIABLES
  home,        \* on disk: the blocks at their home locations
  logblk,      \* on disk: the blocks of the log
  hdr,         \* on disk: the header block, the numbers of the n logged blocks
  cache,       \* the buffer cache, for blocks outside the log
  lh,          \* log.lh
  outstanding, \* log.outstanding
  committing,  \* log.committing
  mode,        \* "up", recovering, or stopped in panic()
  tail,        \* the loop variable of write_log() and install_trans()
  pc,          \* where process o is in begin_op() ... end_op()
  used,        \* the blocks that o's operation has logged
  over         \* ghost: an operation of this transaction logged more than MAXOPBLOCKS

diskVars == <<home, logblk, hdr>>
memVars == <<cache, lh, outstanding, committing, tail, pc, used, over>>
vars == <<diskVars, memVars, mode>>

Slots == 1..LOGSIZE
Committer == {"write_log", "install", "finish"}
Pcs == {"idle", "asleep", "retry", "op"} \cup Committer

Goto(o, l) == pc' = [pc EXCEPT ![o] = l]

\* What bread(b) returns.
Bread(b) == IF cache[b] = NoData THEN home[b] ELSE cache[b]

\* Blocks that log_write() has pinned and install_trans() not yet unpinned.
Installing == \E o \in Ops : pc[o] = "install"
Pinned == {lh[k] : k \in {k \in DOMAIN lh : ~ (Installing /\ k < tail)}}

\* Mutant: the operation that begins is not counted.
NoSpaceForOthers == Len(lh) + outstanding * MAXOPBLOCKS > LOGSIZE

\* begin_op() must wait for log space.
NoSpace == Len(lh) + (outstanding + 1) * MAXOPBLOCKS > LOGSIZE

Init ==
  /\ home \in [Blocks -> Data]
  /\ logblk \in [Slots -> Data]
  /\ hdr = <<>>
  /\ cache = [b \in Blocks |-> NoData]
  /\ lh = <<>> /\ outstanding = 0 /\ committing = FALSE /\ tail = 1
  /\ pc = [o \in Ops |-> "idle"]
  /\ used = [o \in Ops |-> {}] /\ over = FALSE
  /\ mode = "read_head"

\* wakeup(&log), with o going on to l.
Wakeup(o, l) ==
  pc' = [q \in Ops |-> IF q = o THEN l ELSE IF pc[q] = "asleep" THEN "retry" ELSE pc[q]]

-----------------------------------------------------------------------------
\* begin_op(): one round of its loop.
BeginOp(o) ==
  /\ mode = "up" /\ pc[o] \in {"idle", "retry"}
  /\ \/ /\ committing \/ NoSpace
        /\ Goto(o, "asleep")
        /\ UNCHANGED outstanding
     \/ /\ ~ committing /\ ~ NoSpace
        /\ outstanding' = outstanding + 1
        /\ Goto(o, "op")
  /\ UNCHANGED <<diskVars, cache, lh, committing, tail, used, over, mode>>

\* The operation of o changes block b to v and calls log_write(), which looks
\* for room before it looks for an entry of b that it could absorb this one in.
LogWrite(o, b, v) ==
  /\ mode = "up" /\ pc[o] = "op"
  /\ \/ /\ Len(lh) >= LOGSIZE \/ Len(lh) >= nlog - 1 \/ outstanding < 1
        /\ mode' = "panic"
        /\ UNCHANGED <<lh, used>>
     \/ /\ Len(lh) < LOGSIZE /\ Len(lh) < nlog - 1 /\ outstanding >= 1
        /\ lh' = IF b \in Range(lh) THEN lh ELSE Append(lh, b)
        /\ used' = [used EXCEPT ![o] = @ \cup {b}]
        /\ UNCHANGED mode
  /\ cache' = [cache EXCEPT ![b] = v]
  /\ over' = (over \/ Cardinality(used[o] \cup {b}) > MAXOPBLOCKS)
  /\ UNCHANGED <<diskVars, outstanding, committing, tail, pc>>

\* Mutant: the end of an operation that is not the last wakes nobody.
EndOpSilent(o) ==
  /\ mode = "up" /\ pc[o] = "op"
  /\ outstanding' = outstanding - 1
  /\ used' = [used EXCEPT ![o] = {}]
  /\ IF outstanding = 1
     THEN committing' = TRUE /\ Goto(o, IF lh = <<>> THEN "finish" ELSE "write_log")
     ELSE Goto(o, "idle") /\ UNCHANGED committing
  /\ UNCHANGED <<diskVars, cache, lh, tail, over, mode>>

\* end_op() under the lock.  The last operation goes on to commit(), which
\* does nothing when no block was logged.
EndOp(o) ==
  /\ mode = "up" /\ pc[o] = "op"
  /\ outstanding' = outstanding - 1
  /\ used' = [used EXCEPT ![o] = {}]
  /\ \/ committing /\ mode' = "panic" /\ UNCHANGED <<committing, pc>>
     \/ /\ ~ committing /\ outstanding = 1
        /\ committing' = TRUE
        /\ Goto(o, IF lh = <<>> THEN "finish" ELSE "write_log")
        /\ UNCHANGED mode
     \/ /\ ~ committing /\ outstanding # 1
        /\ Wakeup(o, "idle")
        /\ UNCHANGED <<committing, mode>>
  /\ UNCHANGED <<diskVars, cache, lh, tail, over>>

-----------------------------------------------------------------------------
(* commit(), by the process whose end_op() was the last *)

\* write_log(): copy the next modified block from the cache to the log.
WriteLog(o) ==
  /\ mode = "up" /\ pc[o] = "write_log" /\ tail <= Len(lh)
  /\ logblk' = [logblk EXCEPT ![tail] = Bread(lh[tail])]
  /\ tail' = tail + 1
  /\ UNCHANGED <<home, hdr, cache, lh, outstanding, committing, pc, used, over, mode>>

\* Mutant: the header is written before the log blocks are.
WriteHeadFirst(o) ==
  /\ mode = "up" /\ pc[o] = "write_log"
  /\ hdr' = lh
  /\ IF tail > Len(lh) THEN tail' = 1 /\ Goto(o, "install") ELSE UNCHANGED <<tail, pc>>
  /\ UNCHANGED <<home, logblk, cache, lh, outstanding, committing, used, over, mode>>

\* write_head(): the transaction commits.
WriteHead(o) ==
  /\ mode = "up" /\ pc[o] = "write_log" /\ tail > Len(lh)
  /\ hdr' = lh
  /\ tail' = 1
  /\ Goto(o, "install")
  /\ UNCHANGED <<home, logblk, cache, lh, outstanding, committing, used, over, mode>>

\* Copy block tail of the log to its home location, through the cache.
InstallBlock ==
  /\ tail <= Len(lh)
  /\ home' = [home EXCEPT ![lh[tail]] = logblk[tail]]
  /\ cache' = [cache EXCEPT ![lh[tail]] = logblk[tail]]
  /\ tail' = tail + 1
  /\ UNCHANGED <<logblk, hdr, lh, outstanding, committing, pc, used, over, mode>>

\* install_trans(0), which unpins the block it has installed.
InstallTrans(o) == mode = "up" /\ pc[o] = "install" /\ InstallBlock

\* log.lh.n = 0; write_head(): the log is empty again.
ClearHead(o) ==
  /\ mode = "up" /\ pc[o] = "install" /\ tail > Len(lh)
  /\ lh' = <<>> /\ hdr' = <<>>
  /\ tail' = 1 /\ over' = FALSE
  /\ Goto(o, "finish")
  /\ UNCHANGED <<home, logblk, cache, outstanding, committing, used, mode>>

\* end_op() after commit().
EndCommit(o) ==
  /\ mode = "up" /\ pc[o] = "finish"
  /\ committing' = FALSE
  /\ Wakeup(o, "idle")
  /\ UNCHANGED <<diskVars, cache, lh, outstanding, tail, used, over, mode>>

-----------------------------------------------------------------------------
(* Crash and recover_from_log() *)

\* The machine stops, in whatever step it is; the disk is all that is left.
Crash ==
  /\ cache' = [b \in Blocks |-> NoData]
  /\ lh' = <<>> /\ outstanding' = 0 /\ committing' = FALSE /\ tail' = 1
  /\ pc' = [o \in Ops |-> "idle"]
  /\ used' = [o \in Ops |-> {}] /\ over' = FALSE
  /\ mode' = "read_head"
  /\ UNCHANGED diskVars

\* read_head().
ReadHead ==
  /\ mode = "read_head"
  /\ lh' = hdr
  /\ mode' = "install"
  /\ UNCHANGED <<diskVars, cache, outstanding, committing, tail, pc, used, over>>

\* install_trans(1).
RecoverInstall == mode = "install" /\ InstallBlock

\* log.lh.n = 0; write_head(); file system calls may begin.
RecoverClear ==
  /\ mode = "install" /\ tail > Len(lh)
  /\ lh' = <<>> /\ hdr' = <<>>
  /\ tail' = 1
  /\ mode' = "up"
  /\ UNCHANGED <<home, logblk, cache, outstanding, committing, pc, used, over>>

-----------------------------------------------------------------------------
(* The buffer cache, as the log uses it: see module Bio *)

\* bread() of a block that is not cached.
Load(b) ==
  /\ mode = "up" /\ cache[b] = NoData
  /\ cache' = [cache EXCEPT ![b] = home[b]]
  /\ UNCHANGED <<diskVars, lh, outstanding, committing, tail, pc, used, over, mode>>

\* bget() recycles the buffer of a block that nobody uses and nobody pinned.
Evict(b) ==
  /\ mode = "up" /\ cache[b] # NoData /\ b \notin Pinned
  /\ cache' = [cache EXCEPT ![b] = NoData]
  /\ UNCHANGED <<diskVars, lh, outstanding, committing, tail, pc, used, over, mode>>

CommitNext(o) ==
  WriteLog(o) \/ WriteHead(o) \/ InstallTrans(o) \/ ClearHead(o) \/ EndCommit(o)

Other ==
  \/ \E o \in Ops : BeginOp(o) \/ EndOp(o) \/ CommitNext(o)
  \/ \E b \in Blocks : Load(b) \/ Evict(b)
  \/ ReadHead \/ RecoverInstall \/ RecoverClear

\* An operation may log any blocks, any number of times.
Next == Other \/ Crash \/ \E o \in Ops, b \in Blocks, v \in Data : LogWrite(o, b, v)
Spec == Init /\ [][Next]_vars

-----------------------------------------------------------------------------
\* The type of the log on disk and in memory.
TypeOK ==
  /\ home \in [Blocks -> Data]
  /\ logblk \in [Slots -> Data]
  /\ hdr \in Seq(Blocks) /\ Len(hdr) <= LOGSIZE
  /\ cache \in [Blocks -> Data \cup {NoData}]
  /\ lh \in Seq(Blocks) /\ Len(lh) <= LOGSIZE
  /\ outstanding \in Nat
  /\ committing \in BOOLEAN
  /\ mode \in {"up", "read_head", "install", "panic"}
  /\ tail \in 1..(LOGSIZE + 1)
  /\ pc \in [Ops -> Pcs]
  /\ used \in [Ops -> SUBSET Blocks] /\ over \in BOOLEAN

\* What the disk will hold after recovery.
DiskView == [b \in Blocks |->
  IF b \in Range(hdr) THEN logblk[CHOOSE k \in DOMAIN hdr : hdr[k] = b] ELSE home[b]]

\* The blocks as file system calls see them.
MemView == IF mode = "up" THEN [b \in Blocks |-> Bread(b)] ELSE DiskView

Txn == INSTANCE DiskTxn WITH mem <- MemView, disk <- DiskView,
         active <- IF mode = "up" THEN {o \in Ops : pc[o] = "op"} ELSE {}

\* The log implements atomic group commit: wherever the machine stops, in
\* write_log(), install_trans() or recovery, the disk recovers to the state
\* after some commit, with no operation half done.
TxnSpec == Txn!Spec

\* panic("log_write outside of trans") and panic("log.committing") never fire,
\* and panic("too big a transaction") only on a log that is really used up: an
\* operation logged more than MAXOPBLOCKS different blocks, or every one in
\* progress has logged its MAXOPBLOCKS and one of them logs such a block again.
\* An operation that keeps within MAXOPBLOCKS finds room for each new block,
\* whatever the other operations and the commits do.
PanicExplained == mode = "panic" =>
  /\ Len(lh) = LOGSIZE /\ outstanding >= 1 /\ ~ committing
  /\ over \/ \A o \in Ops : pc[o] = "op" => Cardinality(used[o]) >= MAXOPBLOCKS

\* A process that sleeps in begin_op() still has a reason to: no end_op() and
\* no end of a commit goes by without waking it.
SleepJustified == \A o \in Ops : pc[o] = "asleep" => committing \/ NoSpace

\* Recycling an unpinned buffer loses no update, and reading the block again
\* finds the same contents.
CacheCoherent == mode = "up" =>
  \A b \in Blocks : cache[b] # NoData /\ b \notin Pinned => cache[b] = home[b]

\* The last end_op() returns only when everything written is durable ("Log
\* appends are synchronous").
QuiescentDurable ==
  mode = "up" /\ outstanding = 0 /\ ~ committing => MemView = DiskView

\* The log's state is well typed, log.c panics on a used-up log only, unpinned
\* buffers can be recycled, and the last end_op() returns with everything on disk.
LogInv == TypeOK /\ PanicExplained /\ CacheCoherent /\ QuiescentDurable
=============================================================================
