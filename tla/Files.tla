------------------------------- MODULE Files --------------------------------
(***************************************************************************)
(* Reading and writing files: the block allocator and the block map of     *)
(* kernel/fs.c (balloc, bfree, bmap, itrunc, readi, writei, stati), open   *)
(* files and their offsets (kernel/file.c) and the system calls on         *)
(* descriptors (kernel/sysfile.c: open, read, write, fstat, dup, close,    *)
(* pipe).  Directories and references to inodes are in module Fs, the log  *)
(* in Log, pipes in Pipe, the console in Console.                          *)
(*                                                                         *)
(* The unit of data is the word, a block has NINDIRECT of them, and data   *)
(* and block numbers are stored alike.  One turn of the loops of readi()   *)
(* and writei() is one step: the process holds ip->lock, and balloc()      *)
(* holds the bitmap block.                                                 *)
(***************************************************************************)
EXTENDS Integers, Sequences, FiniteSets, FiniteSetsExt

CONSTANTS
  Inodes, Procs, Files,  \* inodes, processes, entries of the file table
  NDIRECT, NINDIRECT,    \* direct blocks of an inode, words of a block
  NBLOCKS,               \* data blocks of the disk
  BPB,                   \* blocks a bitmap block describes
  MAXOPBLOCKS,           \* blocks a file system operation may log
  NOFILE,                \* descriptors of a process
  UMod,                  \* where uint wraps
  Programs,              \* for every process the system calls it makes
  None

\* System calls with their arguments: a descriptor and a length, or an inode
\* and a mode.
SysCalls ==
  ({"read", "write", "fstat", "dup", "close", "pipe"} \X Int \X Int)
    \cup ({"open"} \X Inodes \X {"rdonly", "wronly", "rdwr", "trunc"})

ASSUME FilesAssumption ==
  /\ {NDIRECT, NINDIRECT, NBLOCKS, BPB, NOFILE, UMod} \subseteq Nat \ {0}
  /\ MAXOPBLOCKS \in Nat /\ MAXOPBLOCKS > 5
  /\ Procs \subseteq Nat \ {0} /\ Inodes \subseteq Nat \ {0}
  /\ IsFiniteSet(Procs) /\ None \notin Procs
  /\ 1 \in Inodes /\ 1 \in Files /\ Files \subseteq Nat \ {0}
  /\ \A prog \in Programs : \A p \in Procs : prog[p] \in Seq(SysCalls)

BSIZE == NINDIRECT
NDIRECT_EX == NDIRECT + 1
MAXFILE == NDIRECT + NINDIRECT + NINDIRECT * NINDIRECT
Blocks == 1..NBLOCKS
Zero == [k \in 0..(BSIZE - 1) |-> 0]

\* max of filewrite(): the words one transaction writes.
MaxChunk == ((MAXOPBLOCKS - 1 - 1 - 2) \div 2) * BSIZE

\* The word at index k of process p's buffer.
Source(p, k) == 2 * p + (k % 2)

VARIABLES
  disk,   \* contents and bitmap: blk, used
  ino,    \* the in-memory inodes: size, addrs, lock
  file,   \* the file table
  proc,   \* per process: its descriptors, its program and its system call
  panic   \* the message of the panic that has stopped the kernel

vars == <<disk, ino, file, proc, panic>>

Idle == [pc |-> "user", f |-> 0, g |-> 0, n |-> 0, i |-> 0, n1 |-> 0, tot |-> 0,
         data |-> <<>>, log |-> {}]

FreeFile == [ref |-> 0, type |-> "NONE", readable |-> FALSE, writable |-> FALSE,
             ip |-> 1, off |-> 0]

\* An empty disk, and a file that all processes have inherited as descriptor 0.
Init ==
  /\ disk = [blk |-> [b \in Blocks |-> Zero], used |-> {}]
  /\ ino = [i \in Inodes |->
       [size |-> 0, addrs |-> [k \in 0..NDIRECT_EX |-> 0], lock |-> None]]
  /\ file = [f \in Files |-> IF f # 1 THEN FreeFile ELSE
       [FreeFile EXCEPT !.ref = Cardinality(Procs), !.type = "INODE", !.readable = TRUE,
                        !.writable = TRUE]]
  /\ \E prog \in Programs :
       proc = [p \in Procs |->
         [call |-> Idle, todo |-> prog[p],
          ofile |-> [d \in 0..(NOFILE - 1) |-> IF d = 0 THEN 1 ELSE 0]]]
  /\ panic = ""

-----------------------------------------------------------------------------
(* Blocks: an operation on the disk for inode ip is a change of a record     *)
(* with the disk, ip->addrs, the block found and the blocks logged.          *)

Data(b) == <<"data", b>>
Bitmap(b) == <<"bitmap", b \div BPB>>
Inode(i) == <<"inode", i>>

\* balloc() and bzero(): the first block that is not marked; 0 stands for the panic.
Balloc(s) ==
  LET free == Blocks \ s.used IN
  IF free = {} THEN [s EXCEPT !.addr = 0, !.panic = "balloc: out of blocks"]
  ELSE LET b == Min(free) IN
       [s EXCEPT !.addr = b, !.used = @ \cup {b}, !.blk[b] = Zero,
                 !.log = @ \cup {Bitmap(b), Data(b)}]

\* The block in slot k of ip->addrs, or in word k of the index block just
\* found; it is allocated if there is none.
Top(s, k) ==
  IF s.addrs[k] # 0 THEN [s EXCEPT !.addr = s.addrs[k]]
  ELSE LET t == Balloc(s) IN [t EXCEPT !.addrs[k] = t.addr]

Sub(s, k) ==
  LET b == s.addr IN
  IF s.panic # "" \/ s.blk[b][k] # 0 THEN [s EXCEPT !.addr = IF b = 0 THEN 0 ELSE s.blk[b][k]]
  ELSE LET t == Balloc(s) IN [t EXCEPT !.blk[b][k] = t.addr, !.log = @ \cup {Data(b)}]

\* bmap().
Bmap(s, bn) ==
  LET bn1 == bn - NDIRECT
      bn2 == bn1 - NINDIRECT IN
  CASE bn < NDIRECT -> Top(s, bn)
    [] bn >= NDIRECT /\ bn1 < NINDIRECT -> Sub(Top(s, NDIRECT), bn1)
    [] bn1 >= NINDIRECT /\ bn2 < NINDIRECT * NINDIRECT ->
         Sub(Sub(Top(s, NDIRECT_EX), bn2 \div NINDIRECT), bn2 % NINDIRECT)
    [] OTHER -> [s EXCEPT !.panic = "bmap: out of range"]

Looking(i, log) ==
  [blk |-> disk.blk, used |-> disk.used, addrs |-> ino[i].addrs, addr |-> 0, log |-> log,
   panic |-> ""]

\* The blocks that an index block of depth d refers to, itself included.
Under(b, d) ==
  LET words(c) == {disk.blk[c][k] : k \in DOMAIN Zero} \ {0} IN
  CASE b = 0 -> {}
    [] b # 0 /\ d = 0 -> {b}
    [] b # 0 /\ d = 1 -> {b} \cup words(b)
    [] OTHER -> {b} \cup words(b) \cup UNION {words(c) : c \in words(b)}

\* Mutant: itrunc() forgets the second level of the double index.
TruncDepthOne == 1

\* Levels of index blocks below ip->addrs[NDIRECT_EX].
TruncDepth == 2

\* The blocks itrunc() gives to bfree().
Freed(i) ==
  LET a == ino[i].addrs IN
  (UNION {Under(a[k], 0) : k \in 0..(NDIRECT - 1)})
    \cup Under(a[NDIRECT], 1) \cup Under(a[NDIRECT_EX], TruncDepth)
-----------------------------------------------------------------------------
(* read(), write() and fstat() *)

Lowest(a, b) == IF a < b THEN a ELSE b
Highest(a, b) == IF a > b THEN a ELSE b

Call(p) == proc[p].call
At(p, l) == panic = "" /\ Call(p).pc = l
Calls(p, name) == At(p, "user") /\ proc[p].todo # <<>> /\ Head(proc[p].todo)[1] = name
Arg(p, k) == Head(proc[p].todo)[k]

\* The system call at the head of the program starts, or is over at once.
Start(p, call, ofile) ==
  proc' = [proc EXCEPT ![p] = [call |-> call, todo |-> Tail(@.todo), ofile |-> ofile]]
Step(p, call) == proc' = [proc EXCEPT ![p].call = call]

\* argfd(): 0 if the descriptor is not open.
Argfd(p) == LET d == Arg(p, 2) IN IF d \in 0..(NOFILE - 1) THEN proc[p].ofile[d] ELSE 0

\* sys_read(), sys_write() and the tests at the start of fileread() and
\* filewrite(), which panic for an entry without a type; reading and writing
\* pipes and devices is in other modules.
SysReadWrite(p) ==
  \E op \in {"read", "write"} :
    LET f == Argfd(p)
        Has(type) == /\ f # 0 /\ file[f].type = type
                     /\ IF op = "read" THEN file[f].readable ELSE file[f].writable IN
    /\ Calls(p, op)
    /\ Start(p, IF Has("INODE") THEN [Idle EXCEPT !.pc = op, !.f = f, !.n = Arg(p, 3)] ELSE Idle,
             proc[p].ofile)
    /\ panic' = IF Has("NONE") THEN [read |-> "fileread", write |-> "filewrite"][op] ELSE panic
    /\ UNCHANGED <<disk, ino, file>>

\* Mutant: readi() goes past the end of the file.
ClippedNot(n, off, size) == n

\* The words readi() reads at most.
Clipped(n, off, size) == Lowest(n, size - off)

\* fileread() up to the loop of readi(): n is an unsigned number here.
ReadStart(p) ==
  LET f == Call(p).f
      i == file[f].ip
      off == file[f].off
      n == Call(p).n % UMod IN
  /\ At(p, "read") /\ ino[i].lock = None
  /\ IF off > ino[i].size \/ (off + n) % UMod < off
     THEN Step(p, Idle) /\ UNCHANGED ino
     ELSE /\ ino' = [ino EXCEPT ![i].lock = p]
          /\ Step(p, [Call(p) EXCEPT !.pc = "readi", !.n = Clipped(n, off, ino[i].size)])
  /\ UNCHANGED <<disk, file, panic>>

\* The words of block bn of inode i that a copy of n words at o takes.
Part(o, n) == Lowest(n, BSIZE - (o % BSIZE))

\* Mutant: readi() copies from the start of the block.
CopiedFromStart(block, o, m) == [t \in 1..m |-> block[t - 1]]

\* The m words readi() copies out of a block for offset o.
Copied(block, o, m) == [t \in 1..m |-> block[(o % BSIZE) + t - 1]]

\* readi(): one block; either_copyout() may fail.  log_write() panics if bmap()
\* allocates, for there is no transaction.
ReadBlock(p) ==
  LET c == Call(p)
      i == file[c.f].ip
      o == file[c.f].off + c.tot
      m == Part(o, c.n - c.tot)
      s == Bmap(Looking(i, {}), o \div BSIZE) IN
  /\ At(p, "readi") /\ c.tot < c.n
  /\ panic' = IF s.log # {} THEN "log_write outside of trans" ELSE s.panic
  /\ \/ /\ Step(p, [c EXCEPT !.tot = @ + m,
              !.data = @ \o Copied(s.blk[s.addr], o, m)])
        /\ UNCHANGED ino
     \/ /\ Step(p, Idle)
        /\ ino' = [ino EXCEPT ![i].lock = None]
  /\ UNCHANGED <<disk, file>>

\* fileread(): the offset moves on.
ReadEnd(p) ==
  LET c == Call(p) IN
  /\ At(p, "readi") /\ c.tot = c.n
  /\ file' = [file EXCEPT ![c.f].off = @ + c.tot]
  /\ ino' = [ino EXCEPT ![file[c.f].ip].lock = None]
  /\ Step(p, Idle)
  /\ UNCHANGED <<disk, panic>>

\* Mutant: filewrite() puts one block too many in a transaction.
ChunkOneMore == MaxChunk + BSIZE

\* The words filewrite() hands to writei() at once.
Chunk == MaxChunk

\* filewrite(): the loop's test, ilock(), and writei() up to its loop.
WriteStart(p) ==
  LET c == Call(p)
      i == file[c.f].ip
      off == file[c.f].off
      n1 == Lowest(c.n - c.i, Chunk) IN
  /\ At(p, "write")
  /\ \/ c.i >= c.n /\ Step(p, Idle) /\ UNCHANGED ino
     \/ /\ c.i < c.n /\ ino[i].lock = None
        /\ IF off > ino[i].size \/ off + n1 > MAXFILE * BSIZE
           THEN Step(p, Idle) /\ UNCHANGED ino
           ELSE /\ ino' = [ino EXCEPT ![i].lock = p]
                /\ Step(p, [c EXCEPT !.pc = "writei", !.n1 = n1, !.tot = 0, !.log = {Inode(i)}])
  /\ UNCHANGED <<disk, file, panic>>

\* writei(): one block; either_copyin() copies all m words, or fails after k.
WriteBlock(p) ==
  LET c == Call(p)
      i == file[c.f].ip
      o == file[c.f].off + c.tot
      m == Part(o, c.n1 - c.tot)
      s == Bmap(Looking(i, c.log), o \div BSIZE) IN
  /\ At(p, "writei") /\ c.tot < c.n1
  /\ panic' = s.panic
  /\ IF s.panic # "" THEN UNCHANGED <<disk, ino, proc>>
     ELSE \E k \in 0..m :
       /\ disk' = [used |-> s.used, blk |-> [s.blk EXCEPT ![s.addr] = [t \in DOMAIN @ |->
            IF t \in (o % BSIZE)..((o % BSIZE) + k - 1)
            THEN Source(p, c.i + c.tot + t - (o % BSIZE) + 1) ELSE @[t]]]]
       /\ ino' = [ino EXCEPT ![i].addrs = s.addrs]
       /\ Step(p, IF k = m THEN [c EXCEPT !.tot = @ + m, !.log = s.log \cup {Data(s.addr)}]
                           ELSE [c EXCEPT !.pc = "writei_end", !.log = s.log])
  /\ UNCHANGED file

\* Mutant: filewrite() moves the offset by what it asked for.
MovedAll(c) == c.n1

\* f->off += r.
Moved(c) == c.tot

\* writei() after its loop, with iupdate(), and the end of filewrite()'s turn.
WriteEnd(p) ==
  LET c == Call(p)
      i == file[c.f].ip
      off == file[c.f].off IN
  /\ At(p, "writei_end") \/ (At(p, "writei") /\ c.tot = c.n1)
  /\ ino' = [ino EXCEPT ![i].size = Highest(@, off + c.tot), ![i].lock = None]
  /\ file' = [file EXCEPT ![c.f].off = @ + Moved(c)]
  /\ Step(p, IF c.tot # c.n1 THEN Idle
             ELSE [Idle EXCEPT !.pc = "write", !.f = c.f, !.n = c.n, !.i = c.i + c.tot])
  /\ UNCHANGED <<disk, panic>>

\* sys_fstat(), filestat() and stati() look at an inode that nobody has locked.
SysFstat(p) ==
  LET f == Argfd(p) IN
  /\ Calls(p, "fstat")
  /\ f = 0 \/ file[f].type # "INODE" \/ ino[file[f].ip].lock = None
  /\ Start(p, Idle, proc[p].ofile)
  /\ UNCHANGED <<disk, ino, file, panic>>

-----------------------------------------------------------------------------
(* open(), dup(), close() and pipe() *)

\* filealloc() and fdalloc(): the first that is free.
FreeFiles == {f \in Files : file[f].ref = 0}
FreeFds(p) == {d \in DOMAIN proc[p].ofile : proc[p].ofile[d] = 0}

\* fileclose() on the entries S of the file table t, which have one reference.
Closed(t, S) == [f \in DOMAIN t |-> IF f \in S THEN [t[f] EXCEPT !.ref = 0, !.type = "NONE"]
                                    ELSE t[f]]

\* itrunc().
Itrunc(i) ==
  /\ disk' = [disk EXCEPT !.used = @ \ Freed(i)]
  /\ ino' = [ino EXCEPT ![i].size = 0, ![i].addrs = [k \in DOMAIN @ |-> 0]]
  /\ panic' = IF Freed(i) \subseteq disk.used THEN "" ELSE "freeing free block"

\* sys_open() from its ilock() on, for an inode that namei() has found.
SysOpen(p) ==
  LET i == Arg(p, 2)
      mode == Arg(p, 3)
      f == Min(FreeFiles)
      d == Min(FreeFds(p)) IN
  /\ Calls(p, "open") /\ ino[i].lock = None
  /\ IF FreeFiles = {} \/ FreeFds(p) = {}
     THEN Start(p, Idle, proc[p].ofile) /\ UNCHANGED <<disk, ino, file, panic>>
     ELSE /\ file' = [file EXCEPT ![f] =
               [ref |-> 1, type |-> "INODE", readable |-> mode # "wronly",
                writable |-> mode # "rdonly", ip |-> i, off |-> 0]]
          /\ Start(p, Idle, [proc[p].ofile EXCEPT ![d] = f])
          /\ IF mode = "trunc" THEN Itrunc(i) ELSE UNCHANGED <<disk, ino, panic>>

\* filedup().
Filedup(f) == [file EXCEPT ![f].ref = @ + 1]

\* sys_dup(): fdalloc(), then filedup().
SysDup(p) ==
  LET f == Argfd(p)
      ok == f # 0 /\ FreeFds(p) # {} IN
  /\ Calls(p, "dup")
  /\ Start(p, Idle, IF ok THEN [proc[p].ofile EXCEPT ![Min(FreeFds(p))] = f] ELSE proc[p].ofile)
  /\ file' = IF ok THEN Filedup(f) ELSE file
  /\ panic' = IF ok /\ file[f].ref < 1 THEN "filedup" ELSE ""
  /\ UNCHANGED <<disk, ino>>

\* sys_close() and fileclose(); the rest of it is in Fs and Pipe.
SysClose(p) ==
  LET f == Argfd(p) IN
  /\ Calls(p, "close")
  /\ Start(p, Idle, IF f = 0 THEN proc[p].ofile ELSE [proc[p].ofile EXCEPT ![Arg(p, 2)] = 0])
  /\ file' = IF f = 0 THEN file
             ELSE IF file[f].ref = 1 THEN Closed(file, {f})
             ELSE [file EXCEPT ![f].ref = @ - 1]
  /\ panic' = IF f # 0 /\ file[f].ref < 1 THEN "fileclose" ELSE ""
  /\ UNCHANGED <<disk, ino>>

\* sys_pipe() and pipealloc(): the first filealloc().
PipeFirst(p) ==
  LET f == Min(FreeFiles) IN
  /\ Calls(p, "pipe")
  /\ IF FreeFiles = {} THEN Start(p, Idle, proc[p].ofile) /\ UNCHANGED file
     ELSE /\ file' = [file EXCEPT ![f].ref = 1]
          /\ Start(p, [Idle EXCEPT !.pc = "pipe", !.f = f], proc[p].ofile)
  /\ UNCHANGED <<disk, ino, panic>>

\* pipealloc(): the second filealloc() and the pipe's page.
PipeSecond(p) ==
  LET c == Call(p)
      g == Min(FreeFiles) IN
  /\ At(p, "pipe")
  /\ \/ \* no entry, or no page
        Step(p, Idle) /\ file' = Closed(file, {c.f})
     \/ /\ FreeFiles # {}
        /\ Step(p, [c EXCEPT !.pc = "pipe_fds", !.g = g])
        /\ file' = [file EXCEPT
             ![c.f] = [@ EXCEPT !.type = "PIPE", !.readable = TRUE, !.writable = FALSE],
             ![g] = [@ EXCEPT !.ref = 1, !.type = "PIPE", !.readable = FALSE, !.writable = TRUE]]
  /\ UNCHANGED <<disk, ino, panic>>

\* Mutant: sys_pipe() closes only one end when it fails.
PipeUndoOne(c) == {c.f}

\* What sys_pipe() closes when it fails.
PipeUndo(c) == {c.f, c.g}

\* sys_pipe(): two descriptors and copyout(), or both ends are closed.
PipeFds(p) ==
  LET c == Call(p)
      d0 == Min(FreeFds(p))
      d1 == Min(FreeFds(p) \ {d0}) IN
  /\ At(p, "pipe_fds")
  /\ \/ /\ Cardinality(FreeFds(p)) >= 2
        /\ proc' = [proc EXCEPT ![p].call = Idle, ![p].ofile[d0] = c.f, ![p].ofile[d1] = c.g]
        /\ UNCHANGED file
     \/ Step(p, Idle) /\ file' = Closed(file, PipeUndo(c))
  /\ UNCHANGED <<disk, ino, panic>>

-----------------------------------------------------------------------------
Next == \E p \in Procs :
  \/ SysReadWrite(p) \/ ReadStart(p) \/ ReadBlock(p) \/ ReadEnd(p)
  \/ WriteStart(p) \/ WriteBlock(p) \/ WriteEnd(p) \/ SysFstat(p)
  \/ SysOpen(p) \/ SysDup(p) \/ SysClose(p)
  \/ PipeFirst(p) \/ PipeSecond(p) \/ PipeFds(p)

Spec == Init /\ [][Next]_vars

-----------------------------------------------------------------------------
Words(b) == {disk.blk[b][k] : k \in DOMAIN Zero} \ {0}
Leaves(i) == IF ino[i].addrs[NDIRECT_EX] = 0 THEN {} ELSE Words(ino[i].addrs[NDIRECT_EX])

\* The index blocks and all blocks of inode i.
Index(i) == ({ino[i].addrs[k] : k \in {NDIRECT, NDIRECT_EX}} \ {0}) \cup Leaves(i)
Tree(i) == ({ino[i].addrs[k] : k \in DOMAIN ino[i].addrs} \ {0})
             \cup UNION {Words(b) : b \in Index(i)}

\* The places where a block number is: in ip->addrs, and in an index block.
Tops == {x \in Inodes \X (0..NDIRECT_EX) : ino[x[1]].addrs[x[2]] # 0}
Links == {x \in (UNION {Index(i) : i \in Inodes}) \X (DOMAIN Zero) : disk.blk[x[1]][x[2]] # 0}

\* A block belongs to one place of one file and is marked in the bitmap; no
\* other block is marked: writes that fail in the middle, truncation of files
\* that others write, and reuse of freed blocks lose none and share none.
BlocksInv ==
  /\ UNION {Tree(i) : i \in Inodes} = disk.used
  /\ Cardinality(Tops) + Cardinality(Links) = Cardinality(disk.used)

\* Every entry of the file table has as many references as there are
\* descriptors for it, pipe() calls under way counted: the ways out of pipe()
\* that fail leak none and close none twice.
RefsExact == \A f \in Files : file[f].ref =
  Cardinality({pd \in Procs \X (0..(NOFILE - 1)) : proc[pd[1]].ofile[pd[2]] = f})
    + Cardinality({p \in Procs : /\ Call(p).pc \in {"pipe", "pipe_fds"}
                                  /\ f \in {Call(p).f, Call(p).g}})

\* A transaction of write() goes past what begin_op() has reserved for it only
\* through the bitmap: its chunk leaves room for two bitmap blocks besides the
\* inode, the index blocks and the data.  A chunk whose blocks lie under three
\* logs more than MAXOPBLOCKS, and so does a truncation under as many.
FitsUnlessSpread == \A p \in Procs :
  Cardinality(Call(p).log) > MAXOPBLOCKS => Cardinality({x \in Call(p).log : x[1] = "bitmap"}) > 2

\* The only panic is that of a full disk: bmap() is never asked for a block
\* past the largest file, readi() allocates nothing, no block and no entry of
\* the file table is freed twice, and no descriptor is for an entry that open()
\* or pipe() has not filled in.
FilesNoPanic == panic \in {"", "balloc: out of blocks"}

Writing(p) == Call(p).pc \in {"writei", "writei_end"}

\* Where inode i ends, or where a writei() under way has come.
Frontiers(i) == {file[Call(p).f].off + Call(p).tot :
                 p \in {q \in Procs : Writing(q) /\ file[Call(q).f].ip = i}}
End(i) == Max(Frontiers(i) \cup {ino[i].size})

\* Block bn of inode i.
BlockNo(i, bn) ==
  LET a == ino[i].addrs
      bn2 == bn - NDIRECT - NINDIRECT IN
  CASE bn < NDIRECT -> a[bn]
    [] bn >= NDIRECT /\ bn2 < 0 -> disk.blk[a[NDIRECT]][bn - NDIRECT]
    [] OTHER -> disk.blk[disk.blk[a[NDIRECT_EX]][bn2 \div NINDIRECT]][bn2 % NINDIRECT]

\* The contents of inode i.
Contents(i) ==
  [k \in 1..End(i) |-> disk.blk[BlockNo(i, (k - 1) \div BSIZE)][(k - 1) % BSIZE]]

\* What the writei() under way has added to the offset of f.
Pending(f) ==
  LET by == {p \in Procs : Writing(p) /\ Call(p).f = f} IN
  IF by = {} THEN 0 ELSE Call(CHOOSE p \in by : TRUE).tot

Flat == INSTANCE FlatFile WITH
  Sources <- Procs, MaxSize <- MAXFILE * BSIZE, MaxStep <- BSIZE,
  MaxBuf <- 1,  \* Source() has period 2
  flat <- [i \in Inodes |-> Contents(i)],
  off <- [f \in Files |-> file[f].off + Pending(f)],
  of <- [f \in Files |-> file[f].ip]

\* The block map is a flat sequence of words: what write() puts at the offset
\* is what is there, nothing else changes, and processes that share an offset
\* write one behind the other.
FlatSpec == Flat!Spec

\* read() returns the words of the file at the offset.
ReadExact == \A p \in Procs : Call(p).pc = "readi" =>
  LET f == file[Call(p).f] IN Call(p).data = SubSeq(Contents(f.ip), f.off + 1, f.off + Call(p).tot)
=============================================================================
