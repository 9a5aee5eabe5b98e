--------------------------------- MODULE Fs ---------------------------------
(***************************************************************************)
(* Inodes, directories and open files: the inode table and directory code  *)
(* of kernel/fs.c, the file table of kernel/file.c and the system calls of *)
(* kernel/sysfile.c and syscallv2.c (open, create, mkdir, mknod, symlink,  *)
(* link, unlink, chdir, close), with the part of fork() and exit()         *)
(* (kernel/proc.c) that copies and drops file and directory references.    *)
(*                                                                         *)
(* A section under itable.lock or ftable.lock is one action.  What a       *)
(* process does between ilock() and iunlock() to the inodes it has locked  *)
(* is one action too: nobody else can look at them.  begin_op() and        *)
(* end_op() are left out, the module Log is about them; the contents of    *)
(* regular files and the block map are left out.                           *)
(***************************************************************************)
EXTENDS Naturals, Sequences, FiniteSets

CONSTANTS
  Procs,   \* process slots
  InitProc,\* the process that exists at the start and never exits
  NINODE,  \* size of the inode table
  Inums,   \* inode numbers
  ROOTINO, \* the root directory's
  Names,   \* file names, ".." aside
  Files,   \* entries of the file table
  Loads,   \* sb.ninodes, and the system calls with path arguments of each process
  MAXDEPTH,\* symbolic links an open() follows
  None

ASSUME FsAssumption ==
  /\ InitProc \in Procs /\ NINODE \in Nat \ {0} /\ MAXDEPTH \in Nat \ {0}
  /\ ROOTINO \in Inums /\ 0 \notin Inums
  /\ \A l \in Loads : l.ninodes \in 1..Cardinality(Inums)
  /\ \A l \in Loads, p \in Procs : l.calls[p] \subseteq
       [op : {"open", "rdonly", "nofollow", "create", "mkdir", "mknod", "symlink", "unlink",
              "link", "chdir"},
        path : Seq(Names \cup {"..", "/"}), new : Seq(Names \cup {"..", "/"})]
  /\ ".." \notin Names /\ "/" \notin Names /\ None \notin Procs \cup Files
  /\ IsFiniteSet(Procs) /\ IsFiniteSet(Files) /\ IsFiniteSet(Inums)

Slots == 1..NINODE
Elems == Names \cup {".."}

VARIABLES
  dinode,   \* type and nlink of the inodes on disk, the log's pending writes included
  dir,      \* entries of the directories: name -> inode number, 0 if none
  target,   \* the path a symbolic link holds
  itable,   \* the in-memory inodes
  file,     \* the file table: reference count and inode
  proc,     \* per process: where it is and the references it holds
  panicked, \* the message of the panic that has stopped the kernel
  reused,   \* history: inodes allocated again while an iput() still held their slot
  lost,     \* history: inodes named in a directory that had been unlinked itself
  strayed,  \* history: inodes reached through the ".." of an unlinked directory
  sb,       \* the inodes the disk has
  calls     \* the calls the processes make

vars == <<dinode, dir, target, itable, file, proc, panicked, reused, lost, strayed, sb, calls>>
inert == <<target, sb, calls>>
others == <<reused, lost, strayed, inert>>

Idle(cwd, fd) ==
  [pc |-> "idle", op |-> "none", cwd |-> cwd, fd |-> fd, path |-> <<>>,
   new |-> <<>>, parent |-> FALSE, ip |-> 0, dp |-> 0, old |-> 0, inum |-> 0,
   f |-> None, puts |-> <<>>, ret |-> "idle", cnt |-> MAXDEPTH]
Dead == [Idle(0, None) EXCEPT !.pc = "dead"]

FreeSlot == [inum |-> 0, ref |-> 0, valid |-> FALSE, type |-> "free", nlink |-> 0,
             lock |-> None]

\* The file system as mkfs leaves it, an empty root directory, and the first
\* process with the root as its current directory (userinit()).
Init ==
  /\ dinode = [i \in Inums |-> IF i = ROOTINO THEN [type |-> "DIR", nlink |-> 1]
                                              ELSE [type |-> "free", nlink |-> 0]]
  /\ dir = [i \in Inums |-> [n \in Elems |->
              IF i = ROOTINO /\ n = ".." THEN ROOTINO ELSE 0]]
  /\ itable = [s \in Slots |->
       IF s = 1 THEN [FreeSlot EXCEPT !.inum = ROOTINO, !.ref = 1] ELSE FreeSlot]
  /\ file = [f \in Files |-> [ref |-> 0, ip |-> 0]]
  /\ proc = [p \in Procs |-> IF p = InitProc THEN Idle(1, None) ELSE Dead]
  /\ panicked = ""
  /\ target = [i \in Inums |-> <<>>]
  /\ \E l \in Loads :
       /\ calls = l.calls
       /\ sb \in {S \in SUBSET Inums : ROOTINO \in S /\ Cardinality(S) = l.ninodes}
  /\ reused = {} /\ lost = {} /\ strayed = {}

-----------------------------------------------------------------------------
(* Building blocks.                                                         *)

At(p, l) == panicked = "" /\ proc[p].pc = l

Panic(m) == panicked' = m /\ UNCHANGED <<dinode, dir, itable, file, proc, others>>

\* iget() under itable.lock: the slot that holds inode i, or else the first
\* free one; the step A of its caller is taken if there is one.
Cached(i) == {s \in Slots : itable[s].ref > 0 /\ itable[s].inum = i}
FreeSlots == {s \in Slots : itable[s].ref = 0}
First(S) == CHOOSE s \in S : \A t \in S : s <= t
Iget(i) == IF Cached(i) # {} THEN First(Cached(i)) ELSE First(FreeSlots)
Igot(i, A) == IF Cached(i) \cup FreeSlots = {} THEN Panic("iget: no inodes") ELSE A
Referenced(i, t) ==
  LET s == Iget(i) IN
  IF s \in Cached(i) THEN [t EXCEPT ![s].ref = @ + 1]
  ELSE [t EXCEPT ![s].inum = i, ![s].ref = 1, ![s].valid = FALSE]

\* ilock(): take the sleep lock of slot s, read the inode if the copy is not
\* valid, and go on at l.
Ilock(p, s, l) ==
  LET i == itable[s].inum IN
  IF itable[s].ref < 1 THEN Panic("ilock")
  ELSE /\ itable[s].lock = None
       /\ IF ~ itable[s].valid /\ dinode[i].type = "free"
          THEN Panic("ilock: no type")
          ELSE /\ itable' = [itable EXCEPT ![s] =
                    IF @.valid THEN [@ EXCEPT !.lock = p]
                    ELSE [@ EXCEPT !.lock = p, !.valid = TRUE,
                                   !.type = dinode[i].type, !.nlink = dinode[i].nlink]]
               /\ proc' = [proc EXCEPT ![p].pc = l]
               /\ UNCHANGED <<dinode, dir, file, panicked, others>>

\* iunlock() by p, as a change of the table t; the step A of its caller is taken
\* if p holds the lock and a reference.
Unlocked(s, t) == [t EXCEPT ![s].lock = None]
Iunlock(p, s, A) ==
  IF s = 0 \/ itable[s].lock # p \/ itable[s].ref < 1 THEN Panic("iunlock") ELSE A

\* nlink of slot s set to n and written back (iupdate()).
Relinked(s, n, t) == [t EXCEPT ![s].nlink = n]
Iupdate(s, n, d) == [d EXCEPT ![itable[s].inum] = [type |-> itable[s].type, nlink |-> n]]

\* dirlookup(): the inode number that directory slot s gives to name n, or 0, and
\* the step A of its caller, with iget() of what was found.
Dirlookup(s, n) == dir[itable[s].inum][n]
LookedUp(s, n, A) ==
  IF itable[s].type # "DIR" THEN Panic("dirlookup not DIR")
  ELSE IF Dirlookup(s, n) = 0 THEN A ELSE Igot(Dirlookup(s, n), A)

\* itrunc(): the contents of inode i are given back; here, its entries.
Itrunc(i) == [dir EXCEPT ![i] = [n \in Elems |-> 0]]

\* Inode i gets a name in the directory of slot s.
Named(i, s) == lost' = IF itable[s].nlink = 0 THEN lost \cup {i} ELSE lost

\* The record of p once it has to iput() the slots in seq and then go on at l;
\* its fields with these slots are cleared by the caller.
Putting(r, seq, l) == [r EXCEPT !.pc = "put", !.puts = seq, !.ret = l]

-----------------------------------------------------------------------------
(* iput().                                                                  *)

\* Mutant: other references do not matter.
LastUnlinkedShared(s) == itable[s].valid /\ itable[s].nlink = 0
\* Mutant: the count is tested as if it had been decremented already.
LastUnlinkedLate(s) == itable[s].ref = 0 /\ itable[s].valid /\ itable[s].nlink = 0
LastUnlinked(s) == itable[s].ref = 1 /\ itable[s].valid /\ itable[s].nlink = 0

\* ip->ref--, and on with the next slot to put or with the call.  Nobody reads
\* the other fields of a slot without references; the model blanks them.
DroppedRef(p) ==
  LET r == proc[p]
      rest == Tail(r.puts) IN
  /\ itable' = [itable EXCEPT ![Head(r.puts)] =
       IF @.ref = 1 THEN FreeSlot ELSE [@ EXCEPT !.ref = @ - 1]]
  /\ proc' = [proc EXCEPT ![p] =
       CASE rest # <<>> -> Putting(r, rest, r.ret)
         [] rest = <<>> /\ r.ret = "dead" -> Dead
         [] rest = <<>> /\ r.ret = "idle" -> Idle(r.cwd, r.fd)
         [] OTHER -> [r EXCEPT !.pc = r.ret, !.puts = <<>>, !.ret = "idle"]]
  /\ UNCHANGED <<dinode, dir, file, panicked, others>>

\* iput() under itable.lock: drop the reference, or, for the last reference to
\* an inode without links, lock it to free it.
Iput(p) ==
  /\ At(p, "put")
  /\ LET s == Head(proc[p].puts) IN
     IF LastUnlinked(s)
     THEN /\ itable[s].lock = None
          /\ itable' = [itable EXCEPT ![s].lock = p]
          /\ proc' = [proc EXCEPT ![p].pc = "free"]
          /\ UNCHANGED <<dinode, dir, file, panicked, others>>
     ELSE DroppedRef(p)

\* itrunc(ip); ip->type = 0; iupdate(ip).
IputFree(p) ==
  /\ At(p, "free")
  /\ LET s == Head(proc[p].puts)
         i == itable[s].inum IN
     /\ itable' = [itable EXCEPT ![s].type = "free"]
     /\ dinode' = [dinode EXCEPT ![i].type = "free", ![i].nlink = 0]
     /\ dir' = Itrunc(i)
     /\ proc' = [proc EXCEPT ![p].pc = "freed"]
     /\ target' = [target EXCEPT ![i] = <<>>]
     /\ reused' = reused \ {i} /\ lost' = lost \ {i}
  /\ UNCHANGED <<file, panicked, strayed, sb, calls>>

\* Mutant: the copy stays valid.
IputReleaseValid(p) ==
  /\ At(p, "freed")
  /\ LET s == Head(proc[p].puts) IN itable' = Unlocked(s, itable)
  /\ proc' = [proc EXCEPT ![p].pc = "drop"]
  /\ UNCHANGED <<dinode, dir, file, panicked, others>>

\* ip->valid = 0; releasesleep(&ip->lock).
IputRelease(p) ==
  /\ At(p, "freed")
  /\ LET s == Head(proc[p].puts) IN
       itable' = [itable EXCEPT ![s].valid = FALSE, ![s].lock = None]
  /\ proc' = [proc EXCEPT ![p].pc = "drop"]
  /\ UNCHANGED <<dinode, dir, file, panicked, others>>

\* acquire(&itable.lock); ip->ref--.
IputDrop(p) == At(p, "drop") /\ DroppedRef(p)

-----------------------------------------------------------------------------
(* namex().                                                                 *)

\* namex() begins in r, the record of p: iget() of the root or idup() of the
\* current directory.
NamexStart(p, r) ==
  LET abs == r.path # <<>> /\ Head(r.path) = "/"
      From(s, t, path) ==
        /\ itable' = t
        /\ proc' = [proc EXCEPT ![p] = [r EXCEPT !.pc = "walk", !.path = path, !.ip = s]]
        /\ UNCHANGED <<dinode, dir, file, panicked, others>> IN
  IF abs THEN Igot(ROOTINO, From(Iget(ROOTINO), Referenced(ROOTINO, itable), Tail(r.path)))
  ELSE From(r.cwd, [itable EXCEPT ![r.cwd].ref = @ + 1], r.path)

\* The calls that run create(), and the type they give it.
Makes == {"create", "mkdir", "mknod", "symlink"}
NewType(op) == [create |-> "FILE", mkdir |-> "DIR", mknod |-> "DEVICE", symlink |-> "SYMLINK"][op]

\* A system call with path arguments begins.
Call(p, c) ==
  /\ At(p, "idle")
  /\ NamexStart(p, [proc[p] EXCEPT !.op = c.op, !.path = c.path, !.new = c.new,
                      !.parent = c.op \in Makes \cup {"unlink"}])

\* link() goes on to the new name, open() to the path of a symbolic link.
NextWalk(p) == At(p, "start") /\ NamexStart(p, proc[p])

\* A lookup that fails: the call ends, or link() undoes its increment.
Failed(r) == IF r.old # 0 THEN "bad" ELSE "idle"

\* The loop ends when the path is used up; otherwise the next inode is locked.
NamexLock(p) ==
  /\ At(p, "walk")
  /\ LET r == proc[p] IN
     IF r.path # <<>> THEN Ilock(p, r.ip, "look")
     ELSE /\ proc' = [proc EXCEPT ![p] =
               IF r.parent THEN Putting([r EXCEPT !.ip = 0], <<r.ip>>, Failed(r))
               ELSE [r EXCEPT !.pc = "got"]]
          /\ UNCHANGED <<dinode, dir, itable, file, panicked, others>>

\* One element of the path, with the inode locked: it is no directory or has no
\* such entry, the parent is reached, or the walk goes one level down.
NamexStep(p) ==
  /\ At(p, "look")
  /\ LET r == proc[p]
         isdir == itable[r.ip].type = "DIR"
         stop == r.parent /\ Len(r.path) = 1
         n == Head(r.path)
         i == Dirlookup(r.ip, n)
         beyond == IF n = ".." /\ itable[r.ip].nlink = 0 THEN {i} ELSE {}
         Leave(t, q, S) ==
           Iunlock(p, r.ip, /\ itable' = t /\ proc' = [proc EXCEPT ![p] = q]
                            /\ strayed' = strayed \cup S
                            /\ UNCHANGED <<dinode, dir, file, panicked, reused, lost, inert>>) IN
     \/ /\ ~ isdir \/ (~ stop /\ i = 0)
        /\ Leave(Unlocked(r.ip, itable), Putting([r EXCEPT !.ip = 0], <<r.ip>>, Failed(r)), {})
     \/ /\ isdir /\ stop
        /\ Leave(Unlocked(r.ip, itable), [r EXCEPT !.pc = "gotdir", !.dp = r.ip, !.ip = 0], {})
     \/ /\ isdir /\ ~ stop /\ i # 0
        /\ LookedUp(r.ip, n, Leave(Referenced(i, Unlocked(r.ip, itable)),
             Putting([r EXCEPT !.ip = Iget(i), !.path = Tail(r.path)], <<r.ip>>, "walk"), beyond))

\* The caller locks what namei() or nameiparent() has returned.
LockFound(p) == At(p, "got") /\ Ilock(p, proc[p].ip, "locked")
LockParent(p) == At(p, "gotdir") /\ Ilock(p, proc[p].dp, "dirlocked")

-----------------------------------------------------------------------------
(* open(), chdir() and close().                                             *)

\* The inode in ip is unlocked and put, and the call ends.
Abandon(p) ==
  LET s == proc[p].ip IN
  Iunlock(p, s,
    /\ itable' = Unlocked(s, itable)
    /\ proc' = [proc EXCEPT ![p] = Putting([@ EXCEPT !.ip = 0], <<s>>, "idle")]
    /\ UNCHANGED <<dinode, dir, file, panicked, others>>)

\* The inode open() has locked is a symbolic link to follow.
IsLink(p) == proc[p].op \in {"open", "rdonly"} /\ itable[proc[p].ip].type = "SYMLINK"

\* sys_open(): one turn of the loop over symbolic links.  The link is let go
\* before its path is walked; after MAXDEPTH of them the call fails.
Follow(p) ==
  /\ At(p, "locked") /\ IsLink(p)
  /\ LET r == proc[p] IN
     IF r.cnt = 0 THEN Abandon(p)
     ELSE Iunlock(p, r.ip,
          /\ itable' = Unlocked(r.ip, itable)
          /\ proc' = [proc EXCEPT ![p] =
               Putting([r EXCEPT !.ip = 0, !.path = target[itable[r.ip].inum], !.cnt = @ - 1],
                       <<r.ip>>, "start")]
          /\ UNCHANGED <<dinode, dir, file, panicked, others>>)

\* sys_open() with the inode locked: a directory named by the path itself is
\* opened only for reading; a bad device number; no free file structure; a file
\* structure and no descriptor for it; success.
Open(p) ==
  /\ At(p, "locked") /\ proc[p].op \in {"open", "rdonly", "nofollow", "create"} /\ ~ IsLink(p)
  /\ LET s == proc[p].ip
         Free == {f \in Files : file[f].ref = 0}
         refused == /\ proc[p].op \in {"open", "nofollow"} /\ proc[p].cnt = MAXDEPTH
                    /\ itable[s].type = "DIR" IN
     \/ refused /\ Abandon(p)
     \/ itable[s].type = "DEVICE" /\ Abandon(p)
     \/ ~ refused /\ Free = {} /\ Abandon(p)
     \/ /\ ~ refused /\ proc[p].fd # None
        /\ \E f \in Free :
             /\ file' = [file EXCEPT ![f].ref = 1]
             /\ proc' = [proc EXCEPT ![p].f = f, ![p].pc = "nofd"]
        /\ UNCHANGED <<dinode, dir, itable, panicked, others>>
     \/ /\ ~ refused /\ proc[p].fd = None
        /\ Iunlock(p, s,
             /\ \E f \in Free :
                  /\ file' = [file EXCEPT ![f] = [ref |-> 1, ip |-> s]]
                  /\ proc' = [proc EXCEPT ![p] = Idle(@.cwd, f)]
             /\ itable' = Unlocked(s, itable)
             /\ UNCHANGED <<dinode, dir, panicked, others>>)

\* sys_chdir() with the inode locked.
Chdir(p) ==
  /\ At(p, "locked") /\ proc[p].op = "chdir"
  /\ LET s == proc[p].ip IN
     IF itable[s].type # "DIR" THEN Abandon(p)
     ELSE Iunlock(p, s,
          /\ itable' = Unlocked(s, itable)
          /\ proc' = [proc EXCEPT ![p] =
               Putting([@ EXCEPT !.cwd = s, !.ip = 0], <<@.cwd>>, "idle")]
          /\ UNCHANGED <<dinode, dir, file, panicked, others>>)

\* fileclose() under ftable.lock; the last close puts the inode afterwards.
FilePuts(f) == IF file[f].ref = 1 THEN <<file[f].ip>> ELSE <<>>
Fileclose(f) == [file EXCEPT ![f] = [ref |-> @.ref - 1,
                                     ip |-> IF @.ref = 1 THEN 0 ELSE @.ip]]

\* sys_open(): fileclose() of a file structure that has no inode yet, and out.
OpenUndo(p) ==
  /\ At(p, "nofd")
  /\ LET s == proc[p].ip IN
     Iunlock(p, s,
       /\ file' = Fileclose(proc[p].f)
       /\ itable' = Unlocked(s, itable)
       /\ proc' = [proc EXCEPT ![p] = Putting([@ EXCEPT !.ip = 0, !.f = None], <<s>>, "idle")]
       /\ UNCHANGED <<dinode, dir, panicked, others>>)

\* sys_close().
Close(p) ==
  /\ At(p, "idle") /\ proc[p].fd # None
  /\ LET f == proc[p].fd IN
     /\ file' = Fileclose(f)
     /\ proc' = [proc EXCEPT ![p] =
          IF FilePuts(f) = <<>> THEN Idle(@.cwd, None)
          ELSE Putting([@ EXCEPT !.fd = None], FilePuts(f), "idle")]
  /\ UNCHANGED <<dinode, dir, itable, panicked, others>>

\* fork(): the child gets the parent's file (filedup()) and directory (idup()).
Fork(p, q) ==
  /\ At(p, "idle") /\ proc[q].pc = "dead"
  /\ itable' = [itable EXCEPT ![proc[p].cwd].ref = @ + 1]
  /\ file' = [f \in Files |-> IF f = proc[p].fd THEN [file[f] EXCEPT !.ref = @ + 1]
                                                 ELSE file[f]]
  /\ proc' = [proc EXCEPT ![q] = Idle(proc[p].cwd, proc[p].fd)]
  /\ UNCHANGED <<dinode, dir, panicked, others>>

\* exit(): close the file, then put the current directory.
Exit(p) ==
  /\ At(p, "idle") /\ p # InitProc
  /\ LET f == proc[p].fd
         puts == IF f = None THEN <<>> ELSE FilePuts(f) IN
     /\ file' = IF f = None THEN file ELSE Fileclose(f)
     /\ proc' = [proc EXCEPT ![p] =
          Putting([@ EXCEPT !.fd = None, !.cwd = 0], Append(puts, @.cwd), "dead")]
  /\ UNCHANGED <<dinode, dir, itable, panicked, others>>

-----------------------------------------------------------------------------
(* create(): open(O_CREATE), mkdir(), mknod() and symlink().                *)

\* With the parent locked: the name exists, and the parent is let go, or a free
\* inode is marked allocated on disk (ialloc()).
Create(p) ==
  /\ At(p, "dirlocked") /\ proc[p].op \in Makes
  /\ LET r == proc[p]
         i == Dirlookup(r.dp, Head(r.path))
         Free == {k \in sb : dinode[k].type = "free"} IN
     LookedUp(r.dp, Head(r.path),
     \/ /\ i # 0
        /\ Iunlock(p, r.dp,
             /\ itable' = Referenced(i, Unlocked(r.dp, itable))
             /\ proc' = [proc EXCEPT ![p] =
                  Putting([r EXCEPT !.ip = Iget(i), !.dp = 0], <<r.dp>>, "exists")]
             /\ UNCHANGED <<dinode, dir, file, panicked, others>>)
     \/ i = 0 /\ Free = {} /\ Panic("ialloc: no inodes")
     \/ /\ i = 0
        /\ \E k \in Free :
             /\ dinode' = [dinode EXCEPT ![k] = [type |-> NewType(r.op), nlink |-> 0]]
             /\ proc' = [proc EXCEPT ![p] = [r EXCEPT !.pc = "ialloc", !.inum = k]]
        /\ UNCHANGED <<dir, itable, file, panicked, others>>)

\* The rest of ialloc(): iget() of the new inode, which is then locked.
IallocGet(p) ==
  /\ At(p, "ialloc")
  /\ LET i == proc[p].inum IN
     Igot(i,
       /\ itable' = Referenced(i, itable)
       /\ proc' = [proc EXCEPT ![p] = [@ EXCEPT !.pc = "new", !.ip = Iget(i), !.inum = 0]]
       /\ reused' = IF Cached(i) # {} THEN reused \cup {i} ELSE reused
       /\ UNCHANGED <<dinode, dir, file, panicked, lost, strayed, inert>>)
LockNew(p) == At(p, "new") /\ Ilock(p, proc[p].ip, "newlocked")

\* Parent and new inode locked: one link, the dot entries of a directory with
\* the parent's link for "..", the entry in the parent, the parent let go.
CreateLink(p) ==
  /\ At(p, "newlocked")
  /\ LET r == proc[p]
         n == Head(r.path)
         d == itable[r.dp].inum
         i == itable[r.ip].inum
         up == IF r.op = "mkdir" THEN itable[r.dp].nlink + 1 ELSE itable[r.dp].nlink IN
     IF dir[d][n] # 0 THEN Panic("create: dirlink")
     ELSE Iunlock(p, r.dp,
          /\ itable' = Unlocked(r.dp, Relinked(r.dp, up, Relinked(r.ip, 1, itable)))
          /\ dinode' = Iupdate(r.dp, up, Iupdate(r.ip, 1, dinode))
          /\ dir' = IF r.op = "mkdir" THEN [dir EXCEPT ![i][".."] = d, ![d][n] = i]
                                      ELSE [dir EXCEPT ![d][n] = i]
          /\ proc' = [proc EXCEPT ![p] =
               Putting([r EXCEPT !.dp = 0], <<r.dp>>,
                       IF r.op \in {"mkdir", "mknod"} THEN "created" ELSE "locked")]
          /\ Named(i, r.dp)
          /\ UNCHANGED <<file, panicked, reused, strayed, inert>>)

\* sys_mkdir() and sys_mknod() let the new inode go; sys_open() goes on with the
\* file; sys_symlink() writes the path into it and lets it go.
MkdirDone(p) == At(p, "created") /\ Abandon(p)
SymlinkDone(p) ==
  /\ At(p, "locked") /\ proc[p].op = "symlink"
  /\ LET s == proc[p].ip IN
     Iunlock(p, s,
       /\ target' = [target EXCEPT ![itable[s].inum] = proc[p].new]
       /\ itable' = Unlocked(s, itable)
       /\ proc' = [proc EXCEPT ![p] = Putting([@ EXCEPT !.ip = 0], <<s>>, "idle")]
       /\ UNCHANGED <<dinode, dir, file, panicked, reused, lost, strayed, sb, calls>>)

\* The name existed: lock what it names; only open() of a file or a device
\* is content.
LockExisting(p) == At(p, "exists") /\ Ilock(p, proc[p].ip, "existing")
Existing(p) ==
  /\ At(p, "existing")
  /\ IF proc[p].op = "create" /\ itable[proc[p].ip].type \in {"FILE", "DEVICE"}
     THEN /\ proc' = [proc EXCEPT ![p].pc = "locked"]
          /\ UNCHANGED <<dinode, dir, itable, file, panicked, others>>
     ELSE Abandon(p)

-----------------------------------------------------------------------------
(* unlink().                                                                *)

\* The parent, if it is locked, is unlocked and put, and the call goes on at l.
LeaveParent(p, l) ==
  LET s == proc[p].dp IN
  Iunlock(p, s,
    /\ itable' = Unlocked(s, itable)
    /\ proc' = [proc EXCEPT ![p] = Putting([@ EXCEPT !.dp = 0], <<s>>, l)]
    /\ UNCHANGED <<dinode, dir, file, panicked, others>>)

\* With the parent locked: refuse "..", look the name up.
UnlinkLookup(p) ==
  /\ At(p, "dirlocked") /\ proc[p].op = "unlink"
  /\ LET r == proc[p]
         n == Head(r.path)
         i == Dirlookup(r.dp, n) IN
     IF n = ".." THEN LeaveParent(p, "idle")
     ELSE LookedUp(r.dp, n,
          \/ i = 0 /\ LeaveParent(p, "idle")
          \/ /\ i # 0
             /\ itable' = Referenced(i, itable)
             /\ proc' = [proc EXCEPT ![p] = [r EXCEPT !.pc = "victim", !.ip = Iget(i)]]
             /\ UNCHANGED <<dinode, dir, file, panicked, others>>)
LockVictim(p) == At(p, "victim") /\ Ilock(p, proc[p].ip, "unlink")

IsDirEmpty(i) == \A n \in Names : dir[i][n] = 0

\* Parent and victim locked: a directory that is not empty stays; otherwise the
\* entry is erased, the parent loses the link of "..", and is let go.
Unlink(p) ==
  /\ At(p, "unlink")
  /\ LET r == proc[p]
         d == itable[r.dp].inum
         i == itable[r.ip].inum
         isdir == itable[r.ip].type = "DIR"
         up == IF isdir THEN itable[r.dp].nlink - 1 ELSE itable[r.dp].nlink IN
     IF itable[r.ip].nlink < 1 THEN Panic("unlink: nlink < 1")
     ELSE \/ /\ isdir /\ ~ IsDirEmpty(i)
             /\ Iunlock(p, r.ip,
                  /\ itable' = Unlocked(r.ip, itable)
                  /\ proc' = [proc EXCEPT ![p] = Putting([r EXCEPT !.ip = 0], <<r.ip>>, "refused")]
                  /\ UNCHANGED <<dinode, dir, file, panicked, others>>)
          \/ /\ ~ isdir \/ IsDirEmpty(i)
             /\ Iunlock(p, r.dp,
                  /\ dir' = [dir EXCEPT ![d][Head(r.path)] = 0]
                  /\ itable' = Unlocked(r.dp, Relinked(r.dp, up, itable))
                  /\ dinode' = Iupdate(r.dp, up, dinode)
                  /\ proc' = [proc EXCEPT ![p] = Putting([r EXCEPT !.dp = 0], <<r.dp>>, "erased")]
                  /\ UNCHANGED <<file, panicked, others>>)
UnlinkRefused(p) == At(p, "refused") /\ LeaveParent(p, "idle")

\* ip->nlink--; iupdate(ip); iunlockput(ip).
UnlinkDrop(p) ==
  /\ At(p, "erased")
  /\ LET r == proc[p]
         n == itable[r.ip].nlink - 1 IN
     Iunlock(p, r.ip,
       /\ itable' = Unlocked(r.ip, Relinked(r.ip, n, itable))
       /\ dinode' = Iupdate(r.ip, n, dinode)
       /\ proc' = [proc EXCEPT ![p] = Putting([r EXCEPT !.ip = 0], <<r.ip>>, "idle")]
       /\ UNCHANGED <<dir, file, panicked, others>>)

-----------------------------------------------------------------------------
(* link().                                                                  *)

\* The old name's inode locked: no links to directories; one link more, and
\* the lookup of the new name's parent begins.
LinkOld(p) ==
  /\ At(p, "locked") /\ proc[p].op = "link"
  /\ LET r == proc[p]
         n == itable[r.ip].nlink + 1 IN
     IF itable[r.ip].type = "DIR" THEN Abandon(p)
     ELSE Iunlock(p, r.ip,
          /\ itable' = Unlocked(r.ip, Relinked(r.ip, n, itable))
          /\ dinode' = Iupdate(r.ip, n, dinode)
          /\ proc' = [proc EXCEPT ![p] =
               [r EXCEPT !.pc = "start", !.old = r.ip, !.ip = 0, !.parent = TRUE,
                         !.path = r.new, !.new = <<>>]]
          /\ UNCHANGED <<dir, file, panicked, others>>)

\* dirlink() with the new name's parent locked: the name exists, and what it
\* names is got and put again, or the entry is written.
LinkNew(p) ==
  /\ At(p, "dirlocked") /\ proc[p].op = "link"
  /\ LET r == proc[p]
         d == itable[r.dp].inum
         i == Dirlookup(r.dp, Head(r.path)) IN
     LookedUp(r.dp, Head(r.path),
     \/ /\ i # 0
        /\ itable' = Referenced(i, itable)
        /\ proc' = [proc EXCEPT ![p] = Putting(r, <<Iget(i)>>, "taken")]
        /\ UNCHANGED <<dinode, dir, file, panicked, others>>
     \/ /\ i = 0
        /\ Iunlock(p, r.dp,
             /\ dir' = [dir EXCEPT ![d][Head(r.path)] = itable[r.old].inum]
             /\ itable' = Unlocked(r.dp, itable)
             /\ proc' = [proc EXCEPT ![p] =
                  Putting([r EXCEPT !.dp = 0, !.old = 0], <<r.dp, r.old>>, "idle")]
             /\ Named(itable[r.old].inum, r.dp)
             /\ UNCHANGED <<dinode, file, panicked, reused, strayed, inert>>))
LinkTaken(p) == At(p, "taken") /\ LeaveParent(p, "bad")

\* bad: the increment is undone.
LinkBad(p) == At(p, "bad") /\ Ilock(p, proc[p].old, "undo")
LinkUndo(p) ==
  /\ At(p, "undo")
  /\ LET r == proc[p]
         n == itable[r.old].nlink - 1 IN
     Iunlock(p, r.old,
       /\ itable' = Unlocked(r.old, Relinked(r.old, n, itable))
       /\ dinode' = Iupdate(r.old, n, dinode)
       /\ proc' = [proc EXCEPT ![p] = Putting([r EXCEPT !.old = 0], <<r.old>>, "idle")]
       /\ UNCHANGED <<dir, file, panicked, others>>)

-----------------------------------------------------------------------------
\* panic() never returns.
Halted == panicked # "" /\ UNCHANGED vars

Next ==
  \/ \E p \in Procs :
       \/ \E c \in calls[p] : Call(p, c)
       \/ Iput(p) \/ IputFree(p) \/ IputRelease(p) \/ IputDrop(p)
       \/ NextWalk(p) \/ NamexLock(p) \/ NamexStep(p) \/ LockFound(p) \/ LockParent(p)
       \/ Follow(p) \/ Open(p) \/ OpenUndo(p) \/ Chdir(p)
       \/ Close(p) \/ Exit(p) \/ \E q \in Procs : Fork(p, q)
       \/ Create(p) \/ IallocGet(p) \/ LockNew(p) \/ CreateLink(p) \/ MkdirDone(p)
       \/ SymlinkDone(p) \/ LockExisting(p) \/ Existing(p)
       \/ UnlinkLookup(p) \/ LockVictim(p) \/ Unlink(p) \/ UnlinkRefused(p) \/ UnlinkDrop(p)
       \/ LinkOld(p) \/ LinkNew(p) \/ LinkTaken(p) \/ LinkBad(p) \/ LinkUndo(p)
  \/ Halted

Spec == Init /\ [][Next]_vars

-----------------------------------------------------------------------------
Types == {"free"} \cup {NewType(op) : op \in Makes}

\* Types of the tables and of the processes' references.
TypeOK ==
  /\ dinode \in [Inums -> [type : Types, nlink : Nat]]
  /\ dir \in [Inums -> [Elems -> Inums \cup {0}]]
  /\ itable \in [Slots -> [inum : Inums \cup {0}, ref : Nat, valid : BOOLEAN,
                           type : Types, nlink : Nat,
                           lock : Procs \cup {None}]]
  /\ file \in [Files -> [ref : Nat, ip : Slots \cup {0}]]
  /\ \A p \in Procs :
       /\ {proc[p].fd, proc[p].f} \subseteq Files \cup {None}
       /\ {proc[p].cwd, proc[p].ip, proc[p].dp, proc[p].old} \subseteq Slots \cup {0}
       /\ \A k \in DOMAIN proc[p].puts : proc[p].puts[k] \in Slots

\* "ip->ref tracks the number of in-memory pointers to the entry" (fs.c:126):
\* the pointers of the running calls, the current directories and the open
\* files; f->ref likewise counts the descriptors.
RefsCounted ==
  /\ \A s \in Slots : itable[s].ref =
         Cardinality({x \in Procs \X {"cwd", "ip", "dp", "old"} : proc[x[1]][x[2]] = s})
       + Cardinality({x \in Procs \X (1..2) :
            x[2] \in DOMAIN proc[x[1]].puts /\ proc[x[1]].puts[x[2]] = s})
       + Cardinality({f \in Files : file[f].ip = s})
  /\ \A f \in Files : file[f].ref = Cardinality({x \in Procs \X {"fd", "f"} : proc[x[1]][x[2]] = f})

\* An inode is in the table at most once, and the copy that lies unlocked in
\* the table is the inode on disk (iget(), iupdate(), iput()).
OneCurrentCopy ==
  \A s \in Slots : itable[s].ref > 0 =>
    /\ Cached(itable[s].inum) = {s}
    /\ itable[s].valid /\ itable[s].lock = None =>
         /\ itable[s].type = dinode[itable[s].inum].type
         /\ itable[s].nlink = dinode[itable[s].inum].nlink

\* The entries that name inode i, and the ".." entries of the named
\* directories in i.
NamedBy(i) == {x \in Inums \X Names : dinode[x[1]].type = "DIR" /\ dir[x[1]][x[2]] = i}
Subdirs(i) == {k \in Inums \ {ROOTINO} : dinode[k].type = "DIR" /\ NamedBy(k) # {}
                                          /\ dir[k][".."] = i}

\* No dangling entry: what an allocated directory names is allocated, and has
\* no fewer links than names, whatever calls are half done (unlink() erases the
\* entry first, link() and create() count first).
EntriesLive ==
  \A i \in Inums :
    /\ NamedBy(i) # {} => dinode[i].type # "free"
    /\ Cardinality(NamedBy(i)) + Cardinality(Subdirs(i)) <= dinode[i].nlink

\* "iput() frees if the reference and link counts have fallen to zero"
\* (fs.c:122): an allocated inode without links is still referenced by somebody,
\* or is about to be (ialloc()).
Orphan(i) ==
  /\ dinode[i].type # "free" /\ dinode[i].nlink = 0 /\ Cached(i) = {}
  /\ \A p \in Procs : proc[p].pc = "ialloc" => proc[p].inum # i

\* iput() frees every inode that loses its last link and reference, unless the
\* inode was allocated while another iput() had freed it and not yet dropped its
\* own reference to the slot.
NoOrphanUnlessReused == \A i \in Inums \ reused : ~ Orphan(i)

\* "ip->ref == 1 means no other process can have ip locked, so this
\* acquiresleep() won't block" (fs.c:319), with itable.lock held.
IputNeverBlocks ==
  \A p \in Procs : proc[p].pc = "put" /\ LastUnlinked(Head(proc[p].puts)) =>
    itable[Head(proc[p].puts)].lock = None

\* An open file and a current directory keep their inode, unlinked or not.
HeldInodeAllocated ==
  LET TypeOf(s) == {dinode[i].type : i \in Inums \cap {itable[s].inum}} IN
  /\ \A f \in Files : file[f].ip # 0 => TypeOf(file[f].ip) \notin {{}, {"free"}}
  /\ \A p \in Procs : proc[p].cwd # 0 => TypeOf(proc[p].cwd) = {"DIR"}

\* The tables: well typed, with every reference counted, with the inodes that
\* are held allocated, and with one copy of an inode, the current one.
TableInv == TypeOK /\ RefsCounted /\ HeldInodeAllocated /\ OneCurrentCopy

\* Slot s is what an open file, a current directory or a running call refers to.
InUse(s) ==
  \/ \E f \in Files : file[f].ip = s
  \/ \E p \in Procs : LET r == proc[p] IN
       s \in {r.cwd, r.ip, r.dp, r.old} \cup {r.puts[k] : k \in DOMAIN r.puts}

\* A process is about to lock a freed inode that somebody reached through the ".."
\* of a removed directory, whose parent had been removed too.
BehindRemoved ==
  \E p \in Procs : LET r == proc[p] IN
    /\ r.pc \in {"walk", "got", "gotdir", "new", "exists", "victim", "bad"}
    /\ \E i \in strayed : /\ dinode[i].type = "free"
                          /\ Cached(i) \cap {r.ip, r.dp, r.old} # {}

\* The panics of this code that are reached, each with its only cause: no free
\* inode on disk; a table in which every slot is in use by an open file, a current
\* directory or a running call; an inode reached through the ".." that unlink()
\* leaves in a removed directory, which does not count as a link.  No other is: not
\* "ilock", "iunlock", "dirlookup not DIR", "create: dirlink" or "unlink: nlink <
\* 1", and iput() never waits with itable.lock held.
FsNoPanic ==
  /\ \/ panicked = ""
     \/ panicked = "ialloc: no inodes" /\ \A i \in sb : dinode[i].type # "free"
     \/ panicked = "iget: no inodes" /\ \A s \in Slots : InUse(s)
     \/ panicked = "ilock: no type" /\ BehindRemoved
  /\ IputNeverBlocks

\* Once no call is running, the link count of an allocated inode is the number
\* of entries that refer to it (fs.h:43, "Number of links to inode in file
\* system"), unless it was named in a directory that was no longer linked:
\* create() and link() do not test for that, and such an inode is lost with the
\* directory.
LinksExactUnlessLost ==
  (\A p \in Procs : proc[p].pc \in {"idle", "dead"}) =>
    \A i \in Inums \ (lost \cup {ROOTINO}) : dinode[i].type # "free" =>
      dinode[i].nlink = Cardinality(NamedBy(i)) + Cardinality(Subdirs(i))

\* Names, link counts and inodes agree, whatever calls interleave: no dangling
\* entry, no inode freed early or kept for ever, counts exact at rest.
LinksInv == EntriesLive /\ LinksExactUnlessLost /\ NoOrphanUnlessReused
=============================================================================
