---------------------------- MODULE FilesProofs -----------------------------
(***************************************************************************)
(* Theorems about Files, for any numbers of processes, inodes, open files, *)
(* descriptors and blocks, and any programs.                               *)
(***************************************************************************)
EXTENDS Files, FiniteSetTheorems, FunctionTheorems, WellFoundedInduction, TLAPS

-----------------------------------------------------------------------------
(* Part 1: the references to entries of the file table *)

Fds == 0..(NOFILE - 1)
Pcs == {"user", "read", "readi", "write", "writei", "writei_end", "pipe", "pipe_fds"}
Piping == {"pipe", "pipe_fds"}

\* The shapes of a call, a process and an entry of the file table.
IsCall(c) ==
  /\ DOMAIN c = {"pc", "f", "g", "n", "i", "n1", "tot", "data", "log"}
  /\ c.pc \in Pcs /\ c.f \in Files \cup {0} /\ c.g \in Files \cup {0}
  /\ c.pc # "user" => c.f \in Files
IsProc(r) ==
  /\ DOMAIN r = {"call", "todo", "ofile"}
  /\ IsCall(r.call) /\ r.todo \in Seq(SysCalls) /\ r.ofile \in [Fds -> Files \cup {0}]
IsFile(r) ==
  /\ DOMAIN r = {"ref", "type", "readable", "writable", "ip", "off"}
  /\ r.ref \in Nat /\ r.ip \in Inodes

Shapes ==
  /\ file = [f \in Files |-> file[f]] /\ \A f \in Files : IsFile(file[f])
  /\ proc = [p \in Procs |-> proc[p]] /\ \A p \in Procs : IsProc(proc[p])

\* The entries a pipe() under way has allocated are its own.
OwnEnds(p) ==
  /\ Call(p).pc = "pipe" => file[Call(p).f].ref = 1 /\ Call(p).g = 0
  /\ Call(p).pc = "pipe_fds" =>
       /\ file[Call(p).f].ref = 1
       /\ Call(p).g \in Files /\ file[Call(p).g].ref = 1 /\ Call(p).f # Call(p).g

RefsIInv == Shapes /\ (\A p \in Procs : OwnEnds(p)) /\ RefsExact

\* Descriptors for f, and pipe() calls that hold f.
FdsOf(f) == {pd \in Procs \X Fds : proc[pd[1]].ofile[pd[2]] = f}
PipesOf(f) == {p \in Procs : Call(p).pc \in Piping /\ f \in {Call(p).f, Call(p).g}}

\* The counts of RefsExact are numbers.
LEMMA Counts ==
  /\ RefsExact <=> \A f \in Files : file[f].ref = Cardinality(FdsOf(f)) + Cardinality(PipesOf(f))
  /\ \A f : IsFiniteSet(FdsOf(f)) /\ IsFiniteSet(PipesOf(f))
  /\ \A f : Cardinality(FdsOf(f)) \in Nat /\ Cardinality(PipesOf(f)) \in Nat
<1>1. IsFiniteSet(Procs) /\ NOFILE \in Nat
  BY FilesAssumption
<1>2. IsFiniteSet(Fds)
  BY <1>1, FS_Interval DEF Fds
<1>3. IsFiniteSet(Procs \X Fds)
  BY <1>1, <1>2, FS_Product
<1>4. \A f : IsFiniteSet(FdsOf(f)) /\ IsFiniteSet(PipesOf(f))
  BY <1>1, <1>3, FS_Subset DEF FdsOf, PipesOf
<1>5. \A f : Cardinality(FdsOf(f)) \in Nat /\ Cardinality(PipesOf(f)) \in Nat
  BY <1>4, FS_CardinalityType
<1> QED
  BY <1>4, <1>5 DEF RefsExact, FdsOf, PipesOf, Fds, Piping

\* An entry without references is in no descriptor and no pipe() call.
LEMMA NoneOf ==
  ASSUME RefsExact, NEW f \in Files, file[f].ref = 0
  PROVE  FdsOf(f) = {} /\ PipesOf(f) = {}
<1>1. Cardinality(FdsOf(f)) = 0 /\ Cardinality(PipesOf(f)) = 0
  BY Counts
<1> QED
  BY <1>1, Counts, FS_EmptySet

\* A set that gains or loses an element.
LEMMA PlusMinus ==
  ASSUME NEW S, IsFiniteSet(S), NEW x
  PROVE  /\ x \notin S => Cardinality(S \cup {x}) = Cardinality(S) + 1
         /\ x \in S => Cardinality(S \ {x}) = Cardinality(S) - 1 /\ Cardinality(S) >= 1
         /\ Cardinality(S) \in Nat /\ Cardinality({x}) = 1 /\ Cardinality({}) = 0
<1>1. Cardinality(S) \in Nat
  BY FS_CardinalityType
<1>2. x \in S => Cardinality(S) # 0
  BY FS_EmptySet
<1>3. x \notin S => Cardinality(S \cup {x}) = Cardinality(S) + 1
  BY FS_AddElement
<1>4. x \in S => Cardinality(S \ {x}) = Cardinality(S) - 1
  BY FS_RemoveElement
<1>5. Cardinality({x}) = 1 /\ Cardinality({}) = 0
  BY FS_Singleton, FS_EmptySet
<1> QED
  BY <1>1, <1>2, <1>3, <1>4, <1>5

\* A set of one element has no two.
LEMMA OnlyOne ==
  ASSUME NEW S, IsFiniteSet(S), NEW x \in S, Cardinality(S) = 1
  PROVE  S = {x}
<1>1. Cardinality(S \ {x}) = 0 /\ IsFiniteSet(S \ {x})
  BY FS_RemoveElement
<1> QED
  BY <1>1, FS_EmptySet

\* An entry with one reference that a pipe() call holds is nobody else's.
LEMMA OwnOf ==
  ASSUME RefsExact, NEW f \in Files, file[f].ref = 1, NEW p \in PipesOf(f)
  PROVE  FdsOf(f) = {} /\ PipesOf(f) = {p}
<1>1. Cardinality(PipesOf(f)) # 0
  BY Counts, FS_EmptySet
<1>2. Cardinality(FdsOf(f)) = 0 /\ Cardinality(PipesOf(f)) = 1
  BY <1>1, Counts
<1> QED
  BY <1>2, Counts, FS_EmptySet, OnlyOne

\* An entry that a descriptor is for has a reference; with one reference it is
\* in that descriptor only.
LEMMA FdOf ==
  ASSUME RefsExact, NEW f \in Files, NEW x \in FdsOf(f)
  PROVE  file[f].ref >= 1 /\ (file[f].ref = 1 => FdsOf(f) = {x} /\ PipesOf(f) = {})
<1>1. Cardinality(FdsOf(f)) # 0
  BY Counts, FS_EmptySet
<1>2. file[f].ref = 1 => Cardinality(FdsOf(f)) = 1 /\ Cardinality(PipesOf(f)) = 0
  BY <1>1, Counts
<1>3. file[f].ref >= 1
  BY <1>1, Counts
<1> QED
  BY <1>2, <1>3, Counts, FS_EmptySet, OnlyOne

\* A step of p changes the descriptors and the pipe() call of p only.
LEMMA SetsMove ==
  ASSUME Shapes, NEW p \in Procs, NEW r, proc' = [proc EXCEPT ![p] = r]
  PROVE  /\ \A f : PipesOf(f)' = {q \in PipesOf(f) : q # p}
              \cup {q \in {p} : r.call.pc \in Piping /\ f \in {r.call.f, r.call.g}}
         /\ r.ofile = proc[p].ofile => \A f : FdsOf(f)' = FdsOf(f)
<1>1. \A q \in Procs : proc'[q] = IF q = p THEN r ELSE proc[q]
  BY DEF Shapes
<1>2. ASSUME NEW f
      PROVE  PipesOf(f)' = {q \in PipesOf(f) : q # p}
              \cup {q \in {p} : r.call.pc \in Piping /\ f \in {r.call.f, r.call.g}}
  <2>1. PipesOf(f)' = {q \in Procs : proc'[q].call.pc \in Piping
                                      /\ f \in {proc'[q].call.f, proc'[q].call.g}}
    BY DEF PipesOf, Call
  <2>2. PipesOf(f) = {q \in Procs : proc[q].call.pc \in Piping
                                      /\ f \in {proc[q].call.f, proc[q].call.g}}
    BY DEF PipesOf, Call
  <2> QED
    BY <1>1, <2>1, <2>2
<1>3. ASSUME r.ofile = proc[p].ofile, NEW f
      PROVE  FdsOf(f)' = FdsOf(f)
  BY <1>1, <1>3 DEF FdsOf
<1> QED
  BY <1>2, <1>3

\* A step of p outside pipe() changes no pipe() call.
LEMMA PipesSame ==
  ASSUME Shapes, NEW p \in Procs, NEW r, proc' = [proc EXCEPT ![p] = r],
         Call(p).pc \notin Piping, r.call.pc \notin Piping
  PROVE  \A f : PipesOf(f)' = PipesOf(f)
<1>1. \A f : PipesOf(f)' = {q \in PipesOf(f) : q # p}
        \cup {q \in {p} : r.call.pc \in Piping /\ f \in {r.call.f, r.call.g}}
  BY SetsMove
<1>2. \A f : p \notin PipesOf(f)
  BY DEF PipesOf
<1> QED
  BY <1>1, <1>2

\* Entries after fileclose() of those in S.
LEMMA ClosedFiles ==
  ASSUME Shapes, NEW S, file' = Closed(file, S)
  PROVE  /\ file' = [f \in Files |-> file'[f]] /\ \A f \in Files : IsFile(file'[f])
         /\ \A f \in Files : f \notin S => file'[f] = file[f]
         /\ \A f \in Files : f \in S => file'[f].ref = 0
<1>1. DOMAIN file = Files /\ \A f \in Files : IsFile(file[f])
  BY DEF Shapes
<1>2. file' = [f \in Files |-> IF f \in S THEN [file[f] EXCEPT !.ref = 0, !.type = "NONE"]
                                          ELSE file[f]]
  BY <1>1 DEF Closed
<1>3. ASSUME NEW f \in Files, f \in S PROVE IsFile(file'[f]) /\ file'[f].ref = 0
  <2>1. file'[f] = [file[f] EXCEPT !.ref = 0, !.type = "NONE"] /\ IsFile(file[f])
    BY <1>1, <1>2, <1>3
  <2> QED
    BY <2>1 DEF IsFile
<1>4. \A f \in Files : f \notin S => file'[f] = file[f]
  BY <1>2
<1>5. file' = [f \in Files |-> file'[f]]
  BY <1>2
<1> QED
  BY <1>1, <1>3, <1>4, <1>5

\* Descriptors o with d set to v.
SetFd(new, o, d, v) == \A x \in Fds : new[x] = IF x = d THEN v ELSE o[x]

\* A free descriptor d of p is set to f.
LEMMA FdGain ==
  ASSUME Shapes, NEW p \in Procs, NEW r, proc' = [proc EXCEPT ![p] = r],
         NEW d \in Fds, NEW f \in Files, proc[p].ofile[d] = 0,
         SetFd(r.ofile, proc[p].ofile, d, f)
  PROVE  /\ Cardinality(FdsOf(f)') = Cardinality(FdsOf(f)) + 1
         /\ \A g \in Files : g # f => FdsOf(g)' = FdsOf(g)
<1>1. \A q \in Procs : proc'[q] = IF q = p THEN r ELSE proc[q]
  BY DEF Shapes
<1>2. \A x \in Procs \X Fds : x = <<x[1], x[2]>>
  OBVIOUS
<1>3. \A x \in Procs \X Fds : proc'[x[1]].ofile[x[2]] =
        IF x = <<p, d>> THEN f ELSE proc[x[1]].ofile[x[2]]
  BY <1>1, <1>2 DEF SetFd
<1>4. <<p, d>> \in Procs \X Fds /\ proc[<<p, d>>[1]].ofile[<<p, d>>[2]] = 0 /\ 0 \notin Files
  BY FilesAssumption
<1>5. FdsOf(f)' = FdsOf(f) \cup {<<p, d>>} /\ <<p, d>> \notin FdsOf(f)
  BY <1>3, <1>4 DEF FdsOf
<1>6. ASSUME NEW g \in Files, g # f PROVE FdsOf(g)' = FdsOf(g)
  BY <1>3, <1>4, <1>6 DEF FdsOf
<1>7. Cardinality(FdsOf(f) \cup {<<p, d>>}) = Cardinality(FdsOf(f)) + 1
  BY <1>5, Counts, PlusMinus
<1> QED
  BY <1>5, <1>6, <1>7

\* Descriptor d of p, for f, is cleared.
LEMMA FdLoss ==
  ASSUME Shapes, NEW p \in Procs, NEW r, proc' = [proc EXCEPT ![p] = r],
         NEW d \in Fds, NEW f \in Files, proc[p].ofile[d] = f,
         SetFd(r.ofile, proc[p].ofile, d, 0)
  PROVE  /\ Cardinality(FdsOf(f)') = Cardinality(FdsOf(f)) - 1 /\ Cardinality(FdsOf(f)) >= 1
         /\ \A g \in Files : g # f => FdsOf(g)' = FdsOf(g)
<1>1. \A q \in Procs : proc'[q] = IF q = p THEN r ELSE proc[q]
  BY DEF Shapes
<1>2. \A x \in Procs \X Fds : x = <<x[1], x[2]>>
  OBVIOUS
<1>3. \A x \in Procs \X Fds : proc'[x[1]].ofile[x[2]] =
        IF x = <<p, d>> THEN 0 ELSE proc[x[1]].ofile[x[2]]
  BY <1>1, <1>2 DEF SetFd
<1>4. <<p, d>> \in Procs \X Fds /\ proc[<<p, d>>[1]].ofile[<<p, d>>[2]] = f /\ 0 \notin Files
  BY FilesAssumption
<1>5. FdsOf(f)' = FdsOf(f) \ {<<p, d>>} /\ <<p, d>> \in FdsOf(f)
  BY <1>3, <1>4 DEF FdsOf
<1>6. ASSUME NEW g \in Files, g # f PROVE FdsOf(g)' = FdsOf(g)
  BY <1>3, <1>4, <1>6 DEF FdsOf
<1>7. /\ Cardinality(FdsOf(f) \ {<<p, d>>}) = Cardinality(FdsOf(f)) - 1
      /\ Cardinality(FdsOf(f)) >= 1
  BY <1>5, Counts, PlusMinus
<1> QED
  BY <1>5, <1>6, <1>7

\* What p does outside pipe() without touching its descriptors or the counts.
LEMMA QuietStep ==
  ASSUME RefsIInv, NEW p \in Procs, NEW r, proc' = [proc EXCEPT ![p] = r], IsProc(r),
         r.ofile = proc[p].ofile, Call(p).pc \notin Piping, r.call.pc \notin Piping,
         file' = [f \in Files |-> file'[f]],
         \A f \in Files : IsFile(file'[f]) /\ file'[f].ref = file[f].ref
  PROVE  RefsIInv'
<1>0. Shapes
  BY DEF RefsIInv
<1>1. \A q \in Procs : proc'[q] = IF q = p THEN r ELSE proc[q]
  BY <1>0 DEF Shapes
<1>2. Shapes'
  <2>1. proc' = [q \in Procs |-> proc'[q]]
    BY <1>0 DEF Shapes
  <2> QED
    BY <1>0, <1>1, <2>1 DEF Shapes
<1>3. \A q \in Procs : OwnEnds(q)'
  <2> SUFFICES ASSUME NEW q \in Procs PROVE OwnEnds(q)'
    OBVIOUS
  <2>1. CASE q = p
    BY <1>1, <2>1 DEF OwnEnds, Call, Piping
  <2>2. CASE q # p
    <3>1. proc'[q] = proc[q] /\ OwnEnds(q) /\ IsCall(proc[q].call)
      BY <1>0, <1>1, <2>2 DEF RefsIInv, Shapes, IsProc
    <3> QED
      BY <3>1 DEF OwnEnds, Call, IsCall
  <2> QED
    BY <2>1, <2>2
<1>4. RefsExact'
  <2>1. \A f : FdsOf(f)' = FdsOf(f)
    BY <1>0, SetsMove
  <2>2. \A f : PipesOf(f)' = PipesOf(f)
    <3>1. \A f : PipesOf(f)' = {q \in PipesOf(f) : q # p} \cup {q \in {p} : FALSE}
      <4>1. \A f : PipesOf(f)' = {q \in PipesOf(f) : q # p}
              \cup {q \in {p} : r.call.pc \in Piping /\ f \in {r.call.f, r.call.g}}
        BY <1>0, SetsMove
      <4> QED
        BY <4>1
    <3>2. \A f : p \notin PipesOf(f)
      BY DEF PipesOf
    <3> QED
      BY <3>1, <3>2
  <2>3. \A f \in Files : file'[f].ref = Cardinality(FdsOf(f)') + Cardinality(PipesOf(f)')
    BY <2>1, <2>2, Counts DEF RefsIInv
  <2>4. RefsExact' <=> \A f \in Files :
          file'[f].ref = Cardinality(FdsOf(f)') + Cardinality(PipesOf(f)')
    BY DEF RefsExact, FdsOf, PipesOf, Fds, Piping
  <2> QED
    BY <2>3, <2>4
<1> QED
  BY <1>2, <1>3, <1>4 DEF RefsIInv

\* A process that makes no call.
LEMMA IdleCall == IsCall(Idle) /\ Idle.pc = "user" /\ Idle.f = 0 /\ Idle.g = 0
  BY DEF Idle, IsCall, Pcs

\* Moving the offset keeps an entry's shape, its references and its inode.
LEMMA FileWith ==
  ASSUME NEW r, IsFile(r), NEW x, NEW t, t = [r EXCEPT !.off = x]
  PROVE  IsFile(t) /\ t.ref = r.ref /\ t.ip = r.ip
<1>1. DOMAIN t = DOMAIN r /\ t.ref = r.ref /\ t.ip = r.ip
  BY DEF IsFile
<1> QED
  BY <1>1 DEF IsFile

\* The call at the head of a program, and the rest.
LEMMA HeadCall ==
  ASSUME Shapes, NEW p \in Procs, NEW name, Calls(p, name)
  PROVE  /\ Call(p).pc = "user" /\ panic = ""
         /\ Head(proc[p].todo) \in SysCalls /\ Tail(proc[p].todo) \in Seq(SysCalls)
         /\ name = "open" => Arg(p, 2) \in Inodes
<1>1. proc[p].todo \in Seq(SysCalls) /\ proc[p].todo # <<>>
  BY DEF Shapes, IsProc, Calls
<1>2. Head(proc[p].todo) \in SysCalls /\ Tail(proc[p].todo) \in Seq(SysCalls)
  BY <1>1
<1>3. name = "open" => Arg(p, 2) \in Inodes
  BY <1>2 DEF Calls, Arg, SysCalls
<1> QED
  BY <1>2, <1>3 DEF Calls, At

\* A call begins or is over: the record of the process.
LEMMA Starts ==
  ASSUME Shapes, NEW p \in Procs, NEW name, Calls(p, name), NEW c, IsCall(c),
         NEW o \in [Fds -> Files \cup {0}], Start(p, c, o)
  PROVE  \E r : proc' = [proc EXCEPT ![p] = r] /\ IsProc(r) /\ r.call = c /\ r.ofile = o
<1>1. Tail(proc[p].todo) \in Seq(SysCalls)
  BY HeadCall
<1> DEFINE r == [call |-> c, todo |-> Tail(proc[p].todo), ofile |-> o]
<1>2. IsProc(r)
  BY <1>1 DEF IsProc
<1>3. proc' = [proc EXCEPT ![p] = r]
  BY DEF Start, Shapes
<1>4. r.call = c /\ r.ofile = o
  OBVIOUS
<1> HIDE DEF r
<1> QED
  BY <1>2, <1>3, <1>4

\* A call goes on.
LEMMA Steps ==
  ASSUME Shapes, NEW p \in Procs, NEW c, IsCall(c), Step(p, c)
  PROVE  \E r : /\ proc' = [proc EXCEPT ![p] = r] /\ IsProc(r)
                /\ r.call = c /\ r.ofile = proc[p].ofile
<1> DEFINE r == [proc[p] EXCEPT !.call = c]
<1>1. IsProc(proc[p])
  BY DEF Shapes
<1>2. DOMAIN r = {"call", "todo", "ofile"} /\ r.call = c /\ r.todo = proc[p].todo
      /\ r.ofile = proc[p].ofile
  BY <1>1 DEF IsProc
<1>3. IsProc(r) /\ r.call = c /\ r.ofile = proc[p].ofile
  BY <1>1, <1>2 DEF IsProc
<1>4. proc' = [proc EXCEPT ![p] = r]
  BY DEF Step, Shapes
<1> QED
  BY <1>3, <1>4

\* One of two ways a call goes on.
LEMMA StepIf ==
  ASSUME NEW p, NEW b, NEW c, NEW d, Step(p, IF b THEN c ELSE d)
  PROVE  Step(p, c) \/ Step(p, d)
  BY DEF Step

\* argfd().
LEMMA Descriptor ==
  ASSUME Shapes, NEW p \in Procs
  PROVE  /\ Argfd(p) \in Files \cup {0} /\ 0 \notin Files
         /\ Argfd(p) # 0 => /\ Argfd(p) \in Files /\ Arg(p, 2) \in Fds
                            /\ <<p, Arg(p, 2)>> \in FdsOf(Argfd(p))
                            /\ proc[p].ofile[Arg(p, 2)] = Argfd(p)
<1>1. proc[p].ofile \in [Fds -> Files \cup {0}]
  BY DEF Shapes, IsProc
<1>2. 0 \notin Files
  BY FilesAssumption
<1> QED
  BY <1>1, <1>2 DEF Argfd, Fds, FdsOf

\* read(), write() and fstat() leave the references alone.
LEMMA ReadWriteRefs ==
  ASSUME RefsIInv, NEW p \in Procs,
         \/ SysReadWrite(p) \/ ReadStart(p) \/ ReadBlock(p) \/ ReadEnd(p)
         \/ WriteStart(p) \/ WriteBlock(p) \/ WriteEnd(p) \/ SysFstat(p)
  PROVE  RefsIInv'
<1>0. Shapes /\ IsProc(proc[p]) /\ IsCall(Call(p)) /\ IsCall(Idle) /\ Idle.pc = "user"
  BY IdleCall DEF RefsIInv, Shapes, IsProc, Call
<1>1. ASSUME NEW c, IsCall(c), Step(p, c), c.pc \notin Piping, Call(p).pc \notin Piping,
             \/ UNCHANGED file
             \/ \E x : file' = [file EXCEPT ![Call(p).f].off = x]
      PROVE  RefsIInv'
  <2>1. PICK r : /\ proc' = [proc EXCEPT ![p] = r] /\ IsProc(r)
                 /\ r.call = c /\ r.ofile = proc[p].ofile
    BY <1>0, <1>1, Steps
  <2>2. /\ file' = [f \in Files |-> file'[f]]
        /\ \A f \in Files : IsFile(file'[f]) /\ file'[f].ref = file[f].ref
    <3>1. CASE UNCHANGED file
      BY <1>0, <3>1 DEF Shapes
    <3>2. CASE \E x : file' = [file EXCEPT ![Call(p).f].off = x]
      <4>1. PICK x : file' = [file EXCEPT ![Call(p).f].off = x]
        BY <3>2
      <4>2. \A f \in Files : file'[f] = file[f] \/ file'[f] = [file[f] EXCEPT !.off = x]
        BY <1>0, <4>1 DEF Shapes
      <4>3. file' = [f \in Files |-> file'[f]]
        BY <1>0, <4>1 DEF Shapes
      <4> QED
        <5>1. ASSUME NEW f \in Files PROVE IsFile(file'[f]) /\ file'[f].ref = file[f].ref
          <6>1. IsFile(file[f])
            BY <1>0 DEF Shapes
          <6> QED
            <7>1. CASE file'[f] = file[f]
              BY <6>1, <7>1
            <7>2. CASE file'[f] = [file[f] EXCEPT !.off = x]
              <8> DEFINE t == file'[f]
              <8>1. t = [file[f] EXCEPT !.off = x]
                BY <7>2
              <8> HIDE DEF t
              <8>2. IsFile(t) /\ t.ref = file[f].ref
                BY <6>1, <8>1, FileWith
              <8> QED
                BY <8>2 DEF t
            <7> QED
              BY <4>2, <7>1, <7>2
        <5> QED
          BY <4>3, <5>1
    <3> QED
      BY <1>1, <3>1, <3>2
  <2> QED
    BY <1>1, <2>1, <2>2, QuietStep
<1>2. ASSUME NEW name, NEW c, IsCall(c), Calls(p, name), Start(p, c, proc[p].ofile),
             c.pc \notin Piping, UNCHANGED file
      PROVE  RefsIInv'
  <2>1. PICK r : /\ proc' = [proc EXCEPT ![p] = r] /\ IsProc(r)
                 /\ r.call = c /\ r.ofile = proc[p].ofile
    BY <1>0, <1>2, Starts DEF IsProc
  <2>2. Call(p).pc \notin Piping
    BY <1>0, <1>2, HeadCall DEF Piping
  <2>3. /\ file' = [f \in Files |-> file'[f]]
        /\ \A f \in Files : IsFile(file'[f]) /\ file'[f].ref = file[f].ref
    BY <1>0, <1>2 DEF Shapes
  <2> QED
    BY <1>2, <2>1, <2>2, <2>3, QuietStep
<1>3. CASE SysReadWrite(p)
  <2>1. PICK op \in {"read", "write"} :
          LET f == Argfd(p)
              ok == /\ f # 0 /\ file[f].type = "INODE"
                    /\ IF op = "read" THEN file[f].readable ELSE file[f].writable IN
          /\ Calls(p, op)
          /\ Start(p, IF ok THEN [Idle EXCEPT !.pc = op, !.f = f, !.n = Arg(p, 3)] ELSE Idle,
                   proc[p].ofile)
          /\ UNCHANGED <<disk, ino, file>>
    BY <1>3 DEF SysReadWrite
  <2>2. Argfd(p) # 0 => IsCall([Idle EXCEPT !.pc = op, !.f = Argfd(p), !.n = Arg(p, 3)])
    <3> DEFINE c == [Idle EXCEPT !.pc = op, !.f = Argfd(p), !.n = Arg(p, 3)]
    <3>1. DOMAIN c = DOMAIN Idle /\ c.pc = op /\ c.f = Argfd(p) /\ c.g = 0
      BY DEF Idle
    <3> HIDE DEF c
    <3>2. Argfd(p) # 0 => IsCall(c)
      BY <1>0, <3>1, Descriptor DEF IsCall, Pcs
    <3> QED
      BY <3>2 DEF c
  <2>3. [Idle EXCEPT !.pc = op, !.f = Argfd(p), !.n = Arg(p, 3)].pc \notin Piping
    BY DEF Idle, Piping
  <2>4. Idle.pc \notin Piping
    BY <1>0 DEF Piping
  <2>5. CASE /\ Argfd(p) # 0
             /\ Start(p, [Idle EXCEPT !.pc = op, !.f = Argfd(p), !.n = Arg(p, 3)], proc[p].ofile)
    <3> DEFINE c == [Idle EXCEPT !.pc = op, !.f = Argfd(p), !.n = Arg(p, 3)]
    <3>1. IsCall(c) /\ c.pc \notin Piping /\ Start(p, c, proc[p].ofile) /\ Calls(p, op)
          /\ UNCHANGED file
      BY <2>1, <2>2, <2>3, <2>5
    <3> HIDE DEF c
    <3> QED
      BY <1>2, <3>1
  <2>6. CASE Start(p, Idle, proc[p].ofile)
    BY <1>0, <1>2, <2>1, <2>4, <2>6
  <2> QED
    BY <2>1, <2>5, <2>6
<1>4. CASE ReadStart(p)
  <2> DEFINE c(n) == [Call(p) EXCEPT !.pc = "readi", !.n = n]
  <2>1. Call(p).pc = "read" /\ Call(p).pc \notin Piping /\ UNCHANGED file
    BY <1>4 DEF ReadStart, At, Piping
  <2>2. Step(p, Idle) \/ \E n : Step(p, c(n))
    BY <1>4 DEF ReadStart
  <2>3. \A n : IsCall(c(n)) /\ c(n).pc \notin Piping
    <3>1. ASSUME NEW n PROVE IsCall(c(n)) /\ c(n).pc \notin Piping
      <4>1. /\ c(n).pc = "readi" /\ c(n).f = Call(p).f /\ c(n).g = Call(p).g
            /\ DOMAIN c(n) = DOMAIN Call(p)
        BY <1>0 DEF IsCall
      <4> QED
        BY <1>0, <2>1, <4>1 DEF IsCall, Pcs, Piping
    <3> QED
      BY <3>1
  <2>4. Idle.pc \notin Piping
    BY <1>0 DEF Piping
  <2> HIDE DEF c
  <2> QED
    BY <1>0, <1>1, <2>1, <2>2, <2>3, <2>4
<1>5. CASE ReadBlock(p)
  <2> DEFINE c(n, d) == [Call(p) EXCEPT !.tot = n, !.data = d]
  <2>1. Call(p).pc = "readi" /\ Call(p).pc \notin Piping /\ UNCHANGED file
    BY <1>5 DEF ReadBlock, At, Piping
  <2>2. Step(p, Idle) \/ \E n, d : Step(p, c(n, d))
    BY <1>5 DEF ReadBlock
  <2>3. \A n, d : IsCall(c(n, d)) /\ c(n, d).pc \notin Piping
    BY <1>0, <2>1 DEF IsCall
  <2>4. Idle.pc \notin Piping
    BY <1>0 DEF Piping
  <2> HIDE DEF c
  <2> QED
    BY <1>0, <1>1, <2>1, <2>2, <2>3, <2>4
<1>6. CASE ReadEnd(p)
  <2>1. /\ Call(p).pc = "readi" /\ Call(p).pc \notin Piping /\ Idle.pc \notin Piping
        /\ Step(p, Idle) /\ \E x : file' = [file EXCEPT ![Call(p).f].off = x]
    BY <1>0, <1>6 DEF ReadEnd, At, Piping
  <2> QED
    BY <1>0, <1>1, <2>1
<1>7. CASE WriteStart(p)
  <2> DEFINE c(n, l) == [Call(p) EXCEPT !.pc = "writei", !.n1 = n, !.tot = 0, !.log = l]
  <2>1. Call(p).pc = "write" /\ Call(p).pc \notin Piping /\ UNCHANGED file
    BY <1>7 DEF WriteStart, At, Piping
  <2>2. Step(p, Idle) \/ \E n, l : Step(p, c(n, l))
    BY <1>7 DEF WriteStart
  <2>3. ASSUME NEW n, NEW l PROVE IsCall(c(n, l)) /\ c(n, l).pc \notin Piping
    <3>1. /\ c(n, l).pc = "writei" /\ c(n, l).f = Call(p).f /\ c(n, l).g = Call(p).g
          /\ DOMAIN c(n, l) = DOMAIN Call(p)
      BY <1>0 DEF IsCall
    <3> QED
      BY <1>0, <2>1, <3>1 DEF IsCall, Pcs, Piping
  <2>4. Idle.pc \notin Piping
    BY <1>0 DEF Piping
  <2> HIDE DEF c
  <2> QED
    BY <1>0, <1>1, <2>1, <2>2, <2>3, <2>4
<1>8. CASE WriteBlock(p)
  <2> DEFINE c(n, l) == [Call(p) EXCEPT !.tot = n, !.log = l]
             e(l) == [Call(p) EXCEPT !.pc = "writei_end", !.log = l]
  <2>1. Call(p).pc = "writei" /\ Call(p).pc \notin Piping /\ UNCHANGED file
    BY <1>8 DEF WriteBlock, At, Piping
  <2>2. UNCHANGED proc \/ (\E n, l : Step(p, c(n, l))) \/ (\E l : Step(p, e(l)))
    BY <1>8, StepIf DEF WriteBlock
  <2>3. \A n, l : IsCall(c(n, l)) /\ c(n, l).pc \notin Piping
    BY <1>0, <2>1 DEF IsCall
  <2>4. ASSUME NEW l PROVE IsCall(e(l)) /\ e(l).pc \notin Piping
    <3>1. /\ e(l).pc = "writei_end" /\ e(l).f = Call(p).f /\ e(l).g = Call(p).g
          /\ DOMAIN e(l) = DOMAIN Call(p)
      BY <1>0 DEF IsCall
    <3> QED
      BY <1>0, <2>1, <3>1 DEF IsCall, Pcs, Piping
  <2>5. CASE UNCHANGED proc
    <3>1. /\ proc' = [proc EXCEPT ![p] = proc[p]] /\ proc[p].call.pc \notin Piping
          /\ file' = [f \in Files |-> file'[f]]
          /\ \A f \in Files : IsFile(file'[f]) /\ file'[f].ref = file[f].ref
      BY <1>0, <2>1, <2>5 DEF Shapes, Call
    <3> QED
      BY <1>0, <2>1, <3>1, QuietStep
  <2> HIDE DEF c, e
  <2> QED
    BY <1>0, <1>1, <2>1, <2>2, <2>3, <2>4, <2>5
<1>9. CASE WriteEnd(p)
  <2> DEFINE c(f, n, j) == [Idle EXCEPT !.pc = "write", !.f = f, !.n = n, !.i = j]
  <2>1. /\ Call(p).pc \in {"writei", "writei_end"} /\ Call(p).pc \notin Piping
        /\ \E x : file' = [file EXCEPT ![Call(p).f].off = x]
    BY <1>9 DEF WriteEnd, At, Piping
  <2>2. Step(p, Idle) \/ \E n, j : Step(p, c(Call(p).f, n, j))
    BY <1>9, StepIf DEF WriteEnd
  <2>3. ASSUME NEW n, NEW j
        PROVE  IsCall(c(Call(p).f, n, j)) /\ c(Call(p).f, n, j).pc \notin Piping
    <3> DEFINE d == c(Call(p).f, n, j)
    <3>1. d.pc = "write" /\ d.f = Call(p).f /\ d.g = 0 /\ DOMAIN d = DOMAIN Idle
      BY DEF Idle
    <3> HIDE DEF d
    <3>2. IsCall(d) /\ d.pc \notin Piping
      BY <1>0, <2>1, <3>1 DEF IsCall, Pcs, Piping
    <3> QED
      BY <3>2 DEF d
  <2>4. Idle.pc \notin Piping
    BY <1>0 DEF Piping
  <2> HIDE DEF c
  <2> QED
    BY <1>0, <1>1, <2>1, <2>2, <2>3, <2>4
<1>10. CASE SysFstat(p)
  BY <1>0, <1>2, <1>10 DEF SysFstat, Piping
<1> QED
  BY <1>3, <1>4, <1>5, <1>6, <1>7, <1>8, <1>9, <1>10

\* The lowest of a set of numbers.
LEMMA MinIn ==
  ASSUME NEW S \in SUBSET Nat, S # {}
  PROVE  Min(S) \in S /\ \A y \in S : Min(S) <= y
<1> DEFINE R == OpToRel(<, Nat)
<1>1. IsWellFoundedOn(R, Nat)
  BY NatLessThanWellFounded
<1>2. \A x, y \in Nat : x < y => <<x, y>> \in R
  BY DEF OpToRel
<1> HIDE DEF R
<1>3. PICK x \in S : \A y \in S : <<y, x>> \notin R
  BY <1>1, WFMin
<1>4. \A y \in S : x <= y
  <2> SUFFICES ASSUME NEW y \in S PROVE x <= y
    OBVIOUS
  <2>1. x \in Nat /\ y \in Nat /\ ~ (y < x)
    BY <1>2, <1>3
  <2> QED
    BY <2>1
<1> QED
  BY <1>4 DEF Min

\* filealloc() and fdalloc() find a free entry.
LEMMA FirstFree ==
  ASSUME Shapes, NEW p \in Procs
  PROVE  /\ FreeFiles # {} => Min(FreeFiles) \in Files /\ file[Min(FreeFiles)].ref = 0
         /\ \A S \in SUBSET FreeFds(p) : S # {} =>
              Min(S) \in S /\ Min(S) \in Fds /\ proc[p].ofile[Min(S)] = 0
<1>1. Files \subseteq Nat /\ Fds \subseteq Nat
  BY FilesAssumption DEF Fds
<1>2. DOMAIN proc[p].ofile = Fds
  BY DEF Shapes, IsProc
<1>3. FreeFiles # {} => Min(FreeFiles) \in FreeFiles
  BY <1>1, MinIn DEF FreeFiles
<1>4. ASSUME NEW S \in SUBSET FreeFds(p), S # {}
      PROVE  Min(S) \in S /\ Min(S) \in Fds /\ proc[p].ofile[Min(S)] = 0
  <2>1. S \in SUBSET Nat
    BY <1>1, <1>2 DEF FreeFds
  <2>2. Min(S) \in S
    BY <1>4, <2>1, MinIn
  <2> QED
    BY <1>2, <2>2 DEF FreeFds
<1> QED
  BY <1>3, <1>4 DEF FreeFiles

\* A step of p keeps the invariant if the counts follow the sets, the entries of
\* other pipe() calls are left alone, and those of p are its own.
LEMMA RefsStep ==
  ASSUME RefsIInv, NEW p \in Procs, NEW r, proc' = [proc EXCEPT ![p] = r], IsProc(r),
         file' = [f \in Files |-> file'[f]], \A f \in Files : IsFile(file'[f]),
         \A f \in Files : file'[f].ref = Cardinality(FdsOf(f)') + Cardinality(PipesOf(f)'),
         \A f \in Files : \A q \in PipesOf(f) : q # p /\ file[f].ref = 1 => file'[f].ref = 1,
         OwnEnds(p)'
  PROVE  RefsIInv'
<1>0. Shapes
  BY DEF RefsIInv
<1>1. \A q \in Procs : proc'[q] = IF q = p THEN r ELSE proc[q]
  BY <1>0 DEF Shapes
<1>2. Shapes'
  <2>1. proc' = [q \in Procs |-> proc'[q]]
    BY <1>0 DEF Shapes
  <2> QED
    BY <1>0, <1>1, <2>1 DEF Shapes
<1>3. ASSUME NEW q \in Procs, q # p PROVE OwnEnds(q)'
  <2>1. proc'[q] = proc[q] /\ OwnEnds(q) /\ IsCall(proc[q].call)
    BY <1>0, <1>1, <1>3 DEF RefsIInv, Shapes, IsProc
  <2>2. proc[q].call.pc \in Piping => q \in PipesOf(proc[q].call.f) /\ q \in PipesOf(proc[q].call.g)
    BY DEF PipesOf, Call
  <2> QED
    BY <1>3, <2>1, <2>2 DEF OwnEnds, Call, IsCall, Piping
<1>4. RefsExact'
  BY DEF RefsExact, FdsOf, PipesOf, Fds, Piping
<1> QED
  BY <1>2, <1>3, <1>4 DEF RefsIInv

\* open() gives the new entry its first reference.
LEMMA OpenRefs ==
  ASSUME RefsIInv, NEW p \in Procs, SysOpen(p)
  PROVE  RefsIInv'
<1>0. Shapes /\ IsProc(proc[p]) /\ IsCall(Idle) /\ Idle.pc = "user" /\ RefsExact
  BY IdleCall DEF RefsIInv, Shapes, IsProc
<1>1. Calls(p, "open") /\ Call(p).pc = "user" /\ Arg(p, 2) \in Inodes
  BY <1>0, HeadCall DEF SysOpen
<1>2. CASE FreeFiles = {} \/ FreeFds(p) = {}
  <2>1. PICK r : /\ proc' = [proc EXCEPT ![p] = r] /\ IsProc(r)
                 /\ r.call = Idle /\ r.ofile = proc[p].ofile
    BY <1>0, <1>1, <1>2, Starts DEF SysOpen, IsProc
  <2>2. /\ file' = [f \in Files |-> file'[f]]
        /\ \A f \in Files : IsFile(file'[f]) /\ file'[f].ref = file[f].ref
    BY <1>0, <1>2 DEF Shapes, SysOpen
  <2> QED
    BY <1>0, <1>1, <2>1, <2>2, QuietStep DEF Piping
<1>3. CASE FreeFiles # {} /\ FreeFds(p) # {}
  <2>1. PICK f \in Files : f = Min(FreeFiles) /\ file[f].ref = 0
    BY <1>0, <1>3, FirstFree
  <2>2. PICK d \in Fds : d = Min(FreeFds(p)) /\ proc[p].ofile[d] = 0
    BY <1>0, <1>3, FirstFree
  <2>3. PICK e : /\ file' = [file EXCEPT ![f] = e] /\ IsFile(e) /\ e.ref = 1
                 /\ Start(p, Idle, [proc[p].ofile EXCEPT ![d] = f])
    <3> DEFINE e == [ref |-> 1, type |-> "INODE", readable |-> Arg(p, 3) # "wronly",
                     writable |-> Arg(p, 3) # "rdonly", ip |-> Arg(p, 2), off |-> 0]
    <3>1. /\ file' = [file EXCEPT ![f] = e]
          /\ Start(p, Idle, [proc[p].ofile EXCEPT ![d] = f])
      BY <1>3, <2>1, <2>2 DEF SysOpen
    <3>2. IsFile(e) /\ e.ref = 1
      BY <1>1 DEF IsFile
    <3> HIDE DEF e
    <3> QED
      BY <3>1, <3>2
  <2>4. [proc[p].ofile EXCEPT ![d] = f] \in [Fds -> Files \cup {0}]
    BY <1>0 DEF IsProc
  <2>5. PICK r : /\ proc' = [proc EXCEPT ![p] = r] /\ IsProc(r)
                 /\ r.call = Idle /\ r.ofile = [proc[p].ofile EXCEPT ![d] = f]
    BY <1>0, <1>1, <2>3, <2>4, Starts
  <2>6. \A g \in Files : file'[g] = IF g = f THEN e ELSE file[g]
    BY <1>0, <2>3 DEF Shapes
  <2>7. \A g \in Files : PipesOf(g)' = PipesOf(g)
    BY <1>0, <1>1, <2>5, PipesSame DEF Piping
  <2>8. /\ Cardinality(FdsOf(f)') = Cardinality(FdsOf(f)) + 1
        /\ \A g \in Files : g # f => FdsOf(g)' = FdsOf(g)
    <3>1. SetFd(r.ofile, proc[p].ofile, d, f)
      BY <1>0, <2>5 DEF IsProc, SetFd
    <3>2. proc' = [proc EXCEPT ![p] = r]
      BY <2>5
    <3> QED
      BY <1>0, <2>2, <3>1, <3>2, FdGain
  <2>9. Cardinality(FdsOf(f)) + Cardinality(PipesOf(f)) = 0
    BY <1>0, <2>1, Counts
  <2>10. \A g \in Files : file'[g].ref = Cardinality(FdsOf(g)') + Cardinality(PipesOf(g)')
    <3> SUFFICES ASSUME NEW g \in Files
                 PROVE  file'[g].ref = Cardinality(FdsOf(g)') + Cardinality(PipesOf(g)')
      OBVIOUS
    <3>1. CASE g = f
      <4>1. file'[f].ref = 1
        BY <2>3, <2>6
      <4> QED
        BY <2>7, <2>8, <2>9, <3>1, <4>1, Counts
    <3>2. CASE g # f
      BY <1>0, <2>6, <2>7, <2>8, <3>2, Counts
    <3> QED
      BY <3>1, <3>2
  <2>11. /\ file' = [g \in Files |-> file'[g]] /\ \A g \in Files : IsFile(file'[g])
         /\ \A g \in Files : \A q \in PipesOf(g) : q # p /\ file[g].ref = 1 => file'[g].ref = 1
    BY <1>0, <2>3, <2>6 DEF Shapes
  <2>12. OwnEnds(p)'
    BY <1>0, <2>5 DEF OwnEnds, Call, Shapes
  <2> QED
    BY <2>5, <2>10, <2>11, <2>12, RefsStep
<1> QED
  BY <1>2, <1>3

\* dup() adds a descriptor and a reference.
LEMMA DupRefs ==
  ASSUME RefsIInv, NEW p \in Procs, SysDup(p)
  PROVE  RefsIInv' /\ panic' = ""
<1>0. Shapes /\ IsProc(proc[p]) /\ IsCall(Idle) /\ Idle.pc = "user" /\ RefsExact
  BY IdleCall DEF RefsIInv, Shapes, IsProc
<1>1. Calls(p, "dup") /\ Call(p).pc = "user"
  BY <1>0, HeadCall DEF SysDup
<1>2. CASE Argfd(p) = 0 \/ FreeFds(p) = {}
  <2>0. Start(p, Idle, proc[p].ofile)
    BY <1>2 DEF SysDup
  <2>1. file' = file /\ panic' = ""
    BY <1>2 DEF SysDup
  <2>2. PICK r : /\ proc' = [proc EXCEPT ![p] = r] /\ IsProc(r)
                 /\ r.call = Idle /\ r.ofile = proc[p].ofile
    BY <1>0, <1>1, <2>0, Starts DEF IsProc
  <2>3. /\ file' = [f \in Files |-> file'[f]]
        /\ \A f \in Files : IsFile(file'[f]) /\ file'[f].ref = file[f].ref
    BY <1>0, <2>1 DEF Shapes
  <2> QED
    BY <1>0, <1>1, <2>1, <2>2, <2>3, QuietStep DEF Piping
<1>3. CASE Argfd(p) # 0 /\ FreeFds(p) # {}
  <2>1. PICK f \in Files : f = Argfd(p) /\ <<p, Arg(p, 2)>> \in FdsOf(f)
    BY <1>0, <1>3, Descriptor
  <2>2. PICK d \in Fds : d = Min(FreeFds(p)) /\ proc[p].ofile[d] = 0
    BY <1>0, <1>3, FirstFree
  <2>3. file[f].ref >= 1 /\ (file[f].ref = 1 => PipesOf(f) = {}) /\ file[f].ref \in Nat
    BY <1>0, <2>1, FdOf DEF Shapes, IsFile
  <2>4. Start(p, Idle, [proc[p].ofile EXCEPT ![d] = f])
    BY <1>3, <2>1, <2>2 DEF SysDup
  <2>13. file' = [file EXCEPT ![f].ref = @ + 1]
    BY <1>3, <2>1 DEF SysDup, Filedup
  <2>14. panic' = ""
    <3>1. panic' = IF file[f].ref < 1 THEN "filedup" ELSE ""
      BY <1>3, <2>1 DEF SysDup
    <3>2. ~ (file[f].ref < 1)
      BY <2>3
    <3> QED
      BY <3>1, <3>2
  <2>5. [proc[p].ofile EXCEPT ![d] = f] \in [Fds -> Files \cup {0}]
    BY <1>0 DEF IsProc
  <2>6. PICK r : /\ proc' = [proc EXCEPT ![p] = r] /\ IsProc(r)
                 /\ r.call = Idle /\ r.ofile = [proc[p].ofile EXCEPT ![d] = f]
    BY <1>0, <1>1, <2>4, <2>5, Starts
  <2>7. /\ Cardinality(FdsOf(f)') = Cardinality(FdsOf(f)) + 1
        /\ \A g \in Files : g # f => FdsOf(g)' = FdsOf(g)
    <3>1. SetFd(r.ofile, proc[p].ofile, d, f)
      BY <1>0, <2>6 DEF IsProc, SetFd
    <3>2. proc' = [proc EXCEPT ![p] = r]
      BY <2>6
    <3> QED
      BY <1>0, <2>2, <3>1, <3>2, FdGain
  <2>8. \A g : PipesOf(g)' = PipesOf(g)
    BY <1>0, <1>1, <2>6, PipesSame DEF Piping
  <2>9. /\ file' = [g \in Files |-> file'[g]]
        /\ \A g \in Files : g # f => file'[g] = file[g]
        /\ IsFile(file'[f]) /\ file'[f].ref = file[f].ref + 1
    <3>1. IsFile(file[f])
      BY <1>0 DEF Shapes
    <3>2. file'[f] = [file[f] EXCEPT !.ref = file[f].ref + 1]
      BY <1>0, <2>13 DEF Shapes
    <3>3. IsFile(file'[f]) /\ file'[f].ref = file[f].ref + 1
      BY <2>3, <3>1, <3>2 DEF IsFile
    <3> QED
      BY <1>0, <2>13, <3>3 DEF Shapes
  <2>10. \A g \in Files : file'[g].ref = Cardinality(FdsOf(g)') + Cardinality(PipesOf(g)')
    <3> SUFFICES ASSUME NEW g \in Files
                 PROVE  file'[g].ref = Cardinality(FdsOf(g)') + Cardinality(PipesOf(g)')
      OBVIOUS
    <3>1. CASE g = f
      BY <1>0, <2>7, <2>8, <2>9, <3>1, Counts
    <3>2. CASE g # f
      BY <1>0, <2>7, <2>8, <2>9, <3>2, Counts
    <3> QED
      BY <3>1, <3>2
  <2>11. /\ \A g \in Files : IsFile(file'[g])
         /\ \A g \in Files : \A q \in PipesOf(g) : q # p /\ file[g].ref = 1 => file'[g].ref = 1
    BY <1>0, <2>3, <2>9 DEF Shapes
  <2>12. OwnEnds(p)'
    BY <1>0, <2>6 DEF OwnEnds, Call, Shapes
  <2> QED
    <3>1. proc' = [proc EXCEPT ![p] = r] /\ IsProc(r)
      BY <2>6
    <3>2. file' = [g \in Files |-> file'[g]]
      BY <2>9
    <3> QED
      BY <2>10, <2>11, <2>12, <2>14, <3>1, <3>2, RefsStep
<1> QED
  BY <1>2, <1>3

\* close() drops a descriptor and a reference; the entry is free with the last.
LEMMA CloseRefs ==
  ASSUME RefsIInv, NEW p \in Procs, SysClose(p)
  PROVE  RefsIInv' /\ panic' = ""
<1>0. Shapes /\ IsProc(proc[p]) /\ IsCall(Idle) /\ Idle.pc = "user" /\ RefsExact
  BY IdleCall DEF RefsIInv, Shapes, IsProc
<1>1. Calls(p, "close") /\ Call(p).pc = "user"
  BY <1>0, HeadCall DEF SysClose
<1>2. CASE Argfd(p) = 0
  <2>0. Start(p, Idle, proc[p].ofile)
    BY <1>2 DEF SysClose
  <2>1. file' = file /\ panic' = ""
    BY <1>2 DEF SysClose
  <2>2. PICK r : /\ proc' = [proc EXCEPT ![p] = r] /\ IsProc(r)
                 /\ r.call = Idle /\ r.ofile = proc[p].ofile
    BY <1>0, <1>1, <2>0, Starts DEF IsProc
  <2>3. /\ file' = [f \in Files |-> file'[f]]
        /\ \A f \in Files : IsFile(file'[f]) /\ file'[f].ref = file[f].ref
    BY <1>0, <2>1 DEF Shapes
  <2> QED
    BY <1>0, <1>1, <2>1, <2>2, <2>3, QuietStep DEF Piping
<1>3. CASE Argfd(p) # 0
  <2>1. PICK f \in Files : f = Argfd(p) /\ <<p, Arg(p, 2)>> \in FdsOf(f)
    BY <1>0, <1>3, Descriptor
  <2>2. PICK d \in Fds : d = Arg(p, 2) /\ proc[p].ofile[d] = f
    BY <1>0, <1>3, <2>1, Descriptor
  <2>3. file[f].ref >= 1 /\ (file[f].ref = 1 => PipesOf(f) = {}) /\ file[f].ref \in Nat
    BY <1>0, <2>1, FdOf DEF Shapes, IsFile
  <2>4. Start(p, Idle, [proc[p].ofile EXCEPT ![d] = 0])
    BY <1>3, <2>1, <2>2 DEF SysClose
  <2>13. file' = IF file[f].ref = 1 THEN Closed(file, {f}) ELSE [file EXCEPT ![f].ref = @ - 1]
    BY <1>3, <2>1 DEF SysClose
  <2>14. panic' = ""
    <3>1. panic' = IF file[f].ref < 1 THEN "fileclose" ELSE ""
      BY <1>3, <2>1 DEF SysClose
    <3>2. ~ (file[f].ref < 1)
      BY <2>3
    <3> QED
      BY <3>1, <3>2
  <2>5. [proc[p].ofile EXCEPT ![d] = 0] \in [Fds -> Files \cup {0}]
    BY <1>0 DEF IsProc
  <2>6. PICK r : /\ proc' = [proc EXCEPT ![p] = r] /\ IsProc(r)
                 /\ r.call = Idle /\ r.ofile = [proc[p].ofile EXCEPT ![d] = 0]
    BY <1>0, <1>1, <2>4, <2>5, Starts
  <2>7. /\ Cardinality(FdsOf(f)') = Cardinality(FdsOf(f)) - 1
        /\ \A g \in Files : g # f => FdsOf(g)' = FdsOf(g)
    <3>1. SetFd(r.ofile, proc[p].ofile, d, 0)
      BY <1>0, <2>6 DEF IsProc, SetFd
    <3>2. proc' = [proc EXCEPT ![p] = r]
      BY <2>6
    <3> QED
      BY <1>0, <2>2, <3>1, <3>2, FdLoss
  <2>8. \A g : PipesOf(g)' = PipesOf(g)
    BY <1>0, <1>1, <2>6, PipesSame DEF Piping
  <2>9. /\ file' = [g \in Files |-> file'[g]]
        /\ \A g \in Files : g # f => file'[g] = file[g]
        /\ IsFile(file'[f]) /\ file'[f].ref = file[f].ref - 1
    <3>1. IsFile(file[f])
      BY <1>0 DEF Shapes
    <3>2. CASE file[f].ref = 1
      <4>1. file' = Closed(file, {f})
        BY <2>13, <3>2
      <4>2. IsFile(file'[f]) /\ file'[f].ref = 0
        BY <1>0, <4>1, ClosedFiles
      <4> QED
        BY <1>0, <3>2, <4>1, <4>2, ClosedFiles
    <3>3. CASE file[f].ref # 1
      <4>1. file' = [file EXCEPT ![f].ref = @ - 1]
        BY <2>13, <3>3
      <4>2. file'[f] = [file[f] EXCEPT !.ref = file[f].ref - 1]
        BY <1>0, <4>1 DEF Shapes
      <4>3. IsFile(file'[f]) /\ file'[f].ref = file[f].ref - 1
        BY <2>3, <3>1, <4>2 DEF IsFile
      <4> QED
        BY <1>0, <4>1, <4>3 DEF Shapes
    <3> QED
      BY <3>2, <3>3
  <2>10. \A g \in Files : file'[g].ref = Cardinality(FdsOf(g)') + Cardinality(PipesOf(g)')
    <3> SUFFICES ASSUME NEW g \in Files
                 PROVE  file'[g].ref = Cardinality(FdsOf(g)') + Cardinality(PipesOf(g)')
      OBVIOUS
    <3>1. CASE g = f
      BY <1>0, <2>7, <2>8, <2>9, <3>1, Counts
    <3>2. CASE g # f
      BY <1>0, <2>7, <2>8, <2>9, <3>2, Counts
    <3> QED
      BY <3>1, <3>2
  <2>11. /\ \A g \in Files : IsFile(file'[g])
         /\ \A g \in Files : \A q \in PipesOf(g) : q # p /\ file[g].ref = 1 => file'[g].ref = 1
    BY <1>0, <2>3, <2>9 DEF Shapes
  <2>12. OwnEnds(p)'
    BY <1>0, <2>6 DEF OwnEnds, Call, Shapes
  <2> QED
    <3>1. proc' = [proc EXCEPT ![p] = r] /\ IsProc(r)
      BY <2>6
    <3>2. file' = [g \in Files |-> file'[g]]
      BY <2>9
    <3> QED
      BY <2>10, <2>11, <2>12, <2>14, <3>1, <3>2, RefsStep
<1> QED
  BY <1>2, <1>3

\* The entries that a pipe() call holds.
Ends(c) == IF c.pc \in Piping THEN {c.f, c.g} ELSE {}

\* How the pipe() calls that hold f change with a step of p.
LEMMA EndsMove ==
  ASSUME Shapes, NEW p \in Procs, NEW r, proc' = [proc EXCEPT ![p] = r], NEW f
  PROVE  /\ (f \in Ends(Call(p)) <=> f \in Ends(r.call)) => PipesOf(f)' = PipesOf(f)
         /\ f \notin Ends(Call(p)) /\ f \in Ends(r.call) =>
              Cardinality(PipesOf(f)') = Cardinality(PipesOf(f)) + 1
         /\ f \in Ends(Call(p)) /\ f \notin Ends(r.call) =>
              Cardinality(PipesOf(f)') = Cardinality(PipesOf(f)) - 1
         /\ f \in Ends(Call(p)) => p \in PipesOf(f)
<1>1. PipesOf(f)' = {q \in PipesOf(f) : q # p} \cup {q \in {p} : f \in Ends(r.call)}
  <2>1. f \in Ends(r.call) <=> r.call.pc \in Piping /\ f \in {r.call.f, r.call.g}
    BY DEF Ends
  <2>2. \A x : PipesOf(x)' = {q \in PipesOf(x) : q # p}
          \cup {q \in {p} : r.call.pc \in Piping /\ x \in {r.call.f, r.call.g}}
    BY SetsMove
  <2>3. PipesOf(f)' = {q \in PipesOf(f) : q # p}
          \cup {q \in {p} : r.call.pc \in Piping /\ f \in {r.call.f, r.call.g}}
    BY <2>2
  <2> QED
    BY <2>1, <2>3
<1>2. p \in PipesOf(f) <=> f \in Ends(Call(p))
  BY DEF PipesOf, Ends
<1>3. (f \in Ends(Call(p)) <=> f \in Ends(r.call)) => PipesOf(f)' = PipesOf(f)
  BY <1>1, <1>2
<1>4. f \notin Ends(Call(p)) /\ f \in Ends(r.call) => PipesOf(f)' = PipesOf(f) \cup {p}
  BY <1>1, <1>2
<1>5. f \in Ends(Call(p)) /\ f \notin Ends(r.call) => PipesOf(f)' = PipesOf(f) \ {p}
  BY <1>1, <1>2
<1>6. f \notin Ends(Call(p)) => Cardinality(PipesOf(f) \cup {p}) = Cardinality(PipesOf(f)) + 1
  BY <1>2, Counts, PlusMinus
<1>7. f \in Ends(Call(p)) => Cardinality(PipesOf(f) \ {p}) = Cardinality(PipesOf(f)) - 1
  BY <1>2, Counts, PlusMinus
<1> QED
  BY <1>2, <1>3, <1>4, <1>5, <1>6, <1>7

\* pipealloc() takes the first entry.
LEMMA PipeFirstRefs ==
  ASSUME RefsIInv, NEW p \in Procs, PipeFirst(p)
  PROVE  RefsIInv'
<1>0. Shapes /\ IsProc(proc[p]) /\ IsCall(Idle) /\ Idle.pc = "user" /\ RefsExact
  BY IdleCall DEF RefsIInv, Shapes, IsProc
<1>1. Calls(p, "pipe") /\ Call(p).pc = "user"
  BY <1>0, HeadCall DEF PipeFirst
<1>2. CASE FreeFiles = {}
  <2>0. Start(p, Idle, proc[p].ofile)
    BY <1>2 DEF PipeFirst
  <2>1. file' = file
    BY <1>2 DEF PipeFirst
  <2>2. PICK r : /\ proc' = [proc EXCEPT ![p] = r] /\ IsProc(r)
                 /\ r.call = Idle /\ r.ofile = proc[p].ofile
    BY <1>0, <1>1, <2>0, Starts DEF IsProc
  <2>3. /\ file' = [f \in Files |-> file'[f]]
        /\ \A f \in Files : IsFile(file'[f]) /\ file'[f].ref = file[f].ref
    BY <1>0, <2>1 DEF Shapes
  <2> QED
    BY <1>0, <1>1, <2>2, <2>3, QuietStep DEF Piping
<1>3. CASE FreeFiles # {}
  <2>1. PICK f \in Files : f = Min(FreeFiles) /\ file[f].ref = 0
    BY <1>0, <1>3, FirstFree
  <2>2. PICK c : /\ Start(p, c, proc[p].ofile) /\ IsCall(c)
                 /\ c.pc = "pipe" /\ c.f = f /\ c.g = 0
    <3> DEFINE c == [Idle EXCEPT !.pc = "pipe", !.f = f]
    <3>1. Start(p, c, proc[p].ofile)
      BY <1>3, <2>1 DEF PipeFirst
    <3>2. c.pc = "pipe" /\ c.f = f /\ c.g = 0 /\ DOMAIN c = DOMAIN Idle
      BY DEF Idle
    <3> HIDE DEF c
    <3>3. IsCall(c)
      BY <1>0, <3>2 DEF IsCall, Pcs
    <3> QED
      BY <3>1, <3>2, <3>3
  <2>3. PICK r : /\ proc' = [proc EXCEPT ![p] = r] /\ IsProc(r)
                 /\ r.call = c /\ r.ofile = proc[p].ofile
    BY <1>0, <1>1, <2>2, Starts DEF IsProc
  <2>4. /\ file' = [g \in Files |-> file'[g]]
        /\ \A g \in Files : g # f => file'[g] = file[g]
        /\ IsFile(file'[f]) /\ file'[f].ref = 1
    <3>1. IsFile(file[f])
      BY <1>0 DEF Shapes
    <3>2. file' = [file EXCEPT ![f].ref = 1]
      BY <1>3, <2>1 DEF PipeFirst
    <3>3. file'[f] = [file[f] EXCEPT !.ref = 1]
      BY <1>0, <3>2 DEF Shapes
    <3>4. IsFile(file'[f]) /\ file'[f].ref = 1
      BY <3>1, <3>3 DEF IsFile
    <3> QED
      BY <1>0, <3>2, <3>4 DEF Shapes
  <2>5. \A g : FdsOf(g)' = FdsOf(g)
    BY <1>0, <2>3, SetsMove
  <2>6. /\ Cardinality(PipesOf(f)') = Cardinality(PipesOf(f)) + 1
        /\ \A g \in Files : g # f => PipesOf(g)' = PipesOf(g)
    <3>1. Ends(Call(p)) = {} /\ Ends(r.call) = {f, 0} /\ 0 \notin Files
      BY <1>1, <2>2, <2>3, FilesAssumption DEF Ends, Piping
    <3> QED
      BY <1>0, <2>3, <3>1, EndsMove
  <2>7. Cardinality(FdsOf(f)) + Cardinality(PipesOf(f)) = 0
    BY <1>0, <2>1, Counts
  <2>8. \A g \in Files : file'[g].ref = Cardinality(FdsOf(g)') + Cardinality(PipesOf(g)')
    <3> SUFFICES ASSUME NEW g \in Files
                 PROVE  file'[g].ref = Cardinality(FdsOf(g)') + Cardinality(PipesOf(g)')
      OBVIOUS
    <3>1. CASE g = f
      BY <2>4, <2>5, <2>6, <2>7, <3>1, Counts
    <3>2. CASE g # f
      BY <1>0, <2>4, <2>5, <2>6, <3>2, Counts
    <3> QED
      BY <3>1, <3>2
  <2>9. /\ \A g \in Files : IsFile(file'[g])
        /\ \A g \in Files : \A q \in PipesOf(g) : q # p /\ file[g].ref = 1 => file'[g].ref = 1
    BY <1>0, <2>4 DEF Shapes
  <2>10. OwnEnds(p)'
    <3>1. proc'[p].call = c
      BY <1>0, <2>3 DEF Shapes
    <3> QED
      BY <2>2, <2>4, <3>1 DEF OwnEnds, Call
  <2>11. proc' = [proc EXCEPT ![p] = r] /\ IsProc(r)
    BY <2>3
  <2>12. file' = [g \in Files |-> file'[g]]
    BY <2>4
  <2> QED
    BY <2>8, <2>9, <2>10, <2>11, <2>12, RefsStep
<1> QED
  BY <1>2, <1>3

\* pipe() fails: the entries that it holds are closed.
LEMMA PipeUndone ==
  ASSUME RefsIInv, NEW p \in Procs, Call(p).pc \in Piping, Step(p, Idle),
         file' = Closed(file, Ends(Call(p)))
  PROVE  RefsIInv'
<1>0. Shapes /\ IsProc(proc[p]) /\ IsCall(Idle) /\ Idle.pc = "user" /\ RefsExact
      /\ OwnEnds(p)
  BY IdleCall DEF RefsIInv, Shapes, IsProc
<1>1. PICK r : /\ proc' = [proc EXCEPT ![p] = r] /\ IsProc(r)
               /\ r.call = Idle /\ r.ofile = proc[p].ofile
  BY <1>0, Steps
<1>2. /\ file' = [f \in Files |-> file'[f]] /\ \A f \in Files : IsFile(file'[f])
      /\ \A f \in Files : f \notin Ends(Call(p)) => file'[f] = file[f]
      /\ \A f \in Files : f \in Ends(Call(p)) => file'[f].ref = 0
  BY <1>0, ClosedFiles
<1>3. \A f : FdsOf(f)' = FdsOf(f)
  BY <1>0, <1>1, SetsMove
<1>4. Ends(r.call) = {}
  BY <1>0, <1>1 DEF Ends, Piping
<1>5. ASSUME NEW f \in Files, f \in Ends(Call(p))
      PROVE  /\ file[f].ref = 1 /\ p \in PipesOf(f) /\ PipesOf(f) = {p}
             /\ file'[f].ref = Cardinality(FdsOf(f)') + Cardinality(PipesOf(f)')
  <2>1. file[f].ref = 1
    BY <1>0, <1>5, FilesAssumption DEF OwnEnds, Ends, Piping
  <2>2. p \in PipesOf(f) /\ Cardinality(PipesOf(f)') = Cardinality(PipesOf(f)) - 1
    BY <1>0, <1>1, <1>4, <1>5, EndsMove
  <2>3. FdsOf(f) = {} /\ PipesOf(f) = {p}
    BY <1>0, <2>1, <2>2, OwnOf
  <2>4. Cardinality(FdsOf(f)) = 0 /\ Cardinality(PipesOf(f)) = 1
    BY <2>3, FS_EmptySet, FS_Singleton
  <2> QED
    BY <1>2, <1>3, <1>5, <2>1, <2>2, <2>3, <2>4
<1>6. ASSUME NEW f \in Files, f \notin Ends(Call(p))
      PROVE  file'[f].ref = Cardinality(FdsOf(f)') + Cardinality(PipesOf(f)')
  <2>1. PipesOf(f)' = PipesOf(f)
    BY <1>0, <1>1, <1>4, <1>6, EndsMove
  <2> QED
    BY <1>0, <1>2, <1>3, <1>6, <2>1, Counts
<1>7. \A f \in Files : \A q \in PipesOf(f) : q # p /\ file[f].ref = 1 => file'[f].ref = 1
  BY <1>2, <1>5
<1>8. OwnEnds(p)'
  BY <1>0, <1>1 DEF OwnEnds, Call, Shapes
<1>9. proc' = [proc EXCEPT ![p] = r] /\ IsProc(r)
  BY <1>1
<1>10. file' = [f \in Files |-> file'[f]] /\ \A f \in Files : IsFile(file'[f])
  BY <1>2
<1> QED
  BY <1>5, <1>6, <1>7, <1>8, <1>9, <1>10, RefsStep

\* pipealloc() takes the second entry, or gives the first one back.
LEMMA PipeSecondRefs ==
  ASSUME RefsIInv, NEW p \in Procs, PipeSecond(p)
  PROVE  RefsIInv'
<1>0. /\ Shapes /\ IsProc(proc[p]) /\ IsCall(Call(p)) /\ RefsExact /\ OwnEnds(p)
      /\ Call(p).pc = "pipe" /\ 0 \notin Files
  BY FilesAssumption DEF RefsIInv, Shapes, IsProc, Call, PipeSecond, At
<1>1. PICK f \in Files : f = Call(p).f /\ file[f].ref = 1 /\ Call(p).g = 0
  BY <1>0 DEF OwnEnds, IsCall
<1>2. CASE Step(p, Idle) /\ file' = Closed(file, {f})
  <2>1. Closed(file, {f}) = Closed(file, Ends(Call(p)))
    <3>1. DOMAIN file = Files
      BY <1>0 DEF Shapes
    <3>2. \A x \in Files : x \in {f} <=> x \in Ends(Call(p))
      BY <1>0, <1>1 DEF Ends, Piping
    <3> QED
      BY <3>1, <3>2 DEF Closed
  <2>2. Call(p).pc \in Piping
    BY <1>0 DEF Piping
  <2> QED
    BY <1>2, <2>1, <2>2, PipeUndone
<1>3. CASE /\ FreeFiles # {}
           /\ Step(p, [Call(p) EXCEPT !.pc = "pipe_fds", !.g = Min(FreeFiles)])
           /\ file' = [file EXCEPT
                ![f] = [@ EXCEPT !.type = "PIPE", !.readable = TRUE, !.writable = FALSE],
                ![Min(FreeFiles)] =
                  [@ EXCEPT !.ref = 1, !.type = "PIPE", !.readable = FALSE, !.writable = TRUE]]
  <2>1. PICK g \in Files : g = Min(FreeFiles) /\ file[g].ref = 0
    BY <1>0, <1>3, FirstFree
  <2>2. f # g
    BY <1>1, <2>1
  <2>3. PICK c : /\ Step(p, c) /\ IsCall(c) /\ c.pc = "pipe_fds" /\ c.f = f /\ c.g = g
    <3> DEFINE c == [Call(p) EXCEPT !.pc = "pipe_fds", !.g = g]
    <3>1. Step(p, c)
      BY <1>3, <2>1
    <3>2. c.pc = "pipe_fds" /\ c.f = f /\ c.g = g /\ DOMAIN c = DOMAIN Call(p)
      BY <1>0, <1>1 DEF IsCall
    <3> HIDE DEF c
    <3>3. IsCall(c)
      BY <1>0, <3>2 DEF IsCall, Pcs
    <3> QED
      BY <3>1, <3>2, <3>3
  <2>4. PICK r : /\ proc' = [proc EXCEPT ![p] = r] /\ IsProc(r)
                 /\ r.call = c /\ r.ofile = proc[p].ofile
    BY <1>0, <2>3, Steps
  <2>5. /\ file' = [x \in Files |-> file'[x]]
        /\ \A x \in Files : x # g => file'[x].ref = file[x].ref /\ IsFile(file'[x])
        /\ IsFile(file'[g]) /\ file'[g].ref = 1
    <3>1. /\ DOMAIN file = Files /\ \A x \in Files : IsFile(file[x])
          /\ file' = [file EXCEPT
                ![f] = [@ EXCEPT !.type = "PIPE", !.readable = TRUE, !.writable = FALSE],
                ![g] = [@ EXCEPT !.ref = 1, !.type = "PIPE", !.readable = FALSE, !.writable = TRUE]]
      BY <1>0, <1>3, <2>1 DEF Shapes
    <3>2. file' = [x \in Files |-> file'[x]]
      BY <3>1
    <3>3. /\ file'[f] = [file[f] EXCEPT !.type = "PIPE", !.readable = TRUE, !.writable = FALSE]
          /\ file'[g] = [file[g] EXCEPT !.ref = 1, !.type = "PIPE", !.readable = FALSE,
                                        !.writable = TRUE]
          /\ \A x \in Files : x # f /\ x # g => file'[x] = file[x]
      BY <2>2, <3>1
    <3>4. IsFile(file'[f]) /\ file'[f].ref = file[f].ref
      BY <3>1, <3>3 DEF IsFile
    <3>5. IsFile(file'[g]) /\ file'[g].ref = 1
      BY <3>1, <3>3 DEF IsFile
    <3>6. ASSUME NEW x \in Files, x # g PROVE file'[x].ref = file[x].ref /\ IsFile(file'[x])
      <4>1. CASE x = f
        BY <3>4, <4>1
      <4>2. CASE x # f
        BY <3>1, <3>3, <3>6, <4>2
      <4> QED
        BY <4>1, <4>2
    <3> QED
      BY <3>2, <3>5, <3>6
  <2>6. \A x : FdsOf(x)' = FdsOf(x)
    BY <1>0, <2>4, SetsMove
  <2>7. /\ Cardinality(PipesOf(g)') = Cardinality(PipesOf(g)) + 1
        /\ \A x \in Files : x # g => PipesOf(x)' = PipesOf(x)
    <3>1. Ends(Call(p)) = {f, 0} /\ Ends(r.call) = {f, g}
      BY <1>0, <1>1, <2>3, <2>4 DEF Ends, Piping
    <3>2. proc' = [proc EXCEPT ![p] = r]
      BY <2>4
    <3> QED
      BY <1>0, <2>2, <3>1, <3>2, EndsMove
  <2>8. Cardinality(FdsOf(g)) + Cardinality(PipesOf(g)) = 0
    BY <1>0, <2>1, Counts
  <2>9. \A x \in Files : file'[x].ref = Cardinality(FdsOf(x)') + Cardinality(PipesOf(x)')
    <3> SUFFICES ASSUME NEW x \in Files
                 PROVE  file'[x].ref = Cardinality(FdsOf(x)') + Cardinality(PipesOf(x)')
      OBVIOUS
    <3>1. CASE x = g
      BY <2>5, <2>6, <2>7, <2>8, <3>1, Counts
    <3>2. CASE x # g
      BY <1>0, <2>5, <2>6, <2>7, <3>2, Counts
    <3> QED
      BY <3>1, <3>2
  <2>10. /\ \A x \in Files : IsFile(file'[x])
         /\ \A x \in Files : \A q \in PipesOf(x) : q # p /\ file[x].ref = 1 => file'[x].ref = 1
    BY <2>5
  <2>11. OwnEnds(p)'
    <3>1. proc'[p].call = c
      BY <1>0, <2>4 DEF Shapes
    <3> QED
      BY <1>1, <2>2, <2>3, <2>5, <3>1 DEF OwnEnds, Call
  <2>12. proc' = [proc EXCEPT ![p] = r] /\ IsProc(r)
    BY <2>4
  <2>13. file' = [x \in Files |-> file'[x]]
    BY <2>5
  <2> QED
    BY <2>9, <2>10, <2>11, <2>12, <2>13, RefsStep
<1> QED
  BY <1>1, <1>2, <1>3 DEF PipeSecond

\* pipe() gives its two entries to descriptors, or closes both.
LEMMA PipeFdsRefs ==
  ASSUME RefsIInv, NEW p \in Procs, PipeFds(p)
  PROVE  RefsIInv'
<1>0. /\ Shapes /\ IsProc(proc[p]) /\ IsCall(Call(p)) /\ RefsExact /\ OwnEnds(p)
      /\ Call(p).pc = "pipe_fds" /\ 0 \notin Files /\ IsCall(Idle) /\ Idle.pc = "user"
  BY FilesAssumption, IdleCall DEF RefsIInv, Shapes, IsProc, Call, PipeFds, At
<1>1. PICK f \in Files : f = Call(p).f /\ file[f].ref = 1
  BY <1>0 DEF OwnEnds, IsCall
<1>2. PICK g \in Files : g = Call(p).g /\ file[g].ref = 1 /\ f # g
  BY <1>0, <1>1 DEF OwnEnds
<1>3. Ends(Call(p)) = {f, g} /\ Call(p).pc \in Piping
  BY <1>0, <1>1, <1>2 DEF Ends, Piping
<1>4. CASE Step(p, Idle) /\ file' = Closed(file, PipeUndo(Call(p)))
  BY <1>1, <1>2, <1>3, <1>4, PipeUndone DEF PipeUndo
<1>5. CASE LET d0 == Min(FreeFds(p))
               d1 == Min(FreeFds(p) \ {d0}) IN
           /\ Cardinality(FreeFds(p)) >= 2
           /\ proc' = [proc EXCEPT ![p].call = Idle, ![p].ofile[d0] = f, ![p].ofile[d1] = g]
           /\ UNCHANGED file
  <2>1. IsFiniteSet(FreeFds(p)) /\ Cardinality(FreeFds(p)) \in Nat
    <3>1. IsFiniteSet(Fds)
      BY FilesAssumption, FS_Interval DEF Fds
    <3>2. FreeFds(p) \subseteq Fds
      BY <1>0 DEF FreeFds, IsProc
    <3> QED
      BY <3>1, <3>2, FS_Subset, FS_CardinalityType
  <2>2. PICK d \in Fds : d = Min(FreeFds(p)) /\ proc[p].ofile[d] = 0 /\ d \in FreeFds(p)
    <3>1. FreeFds(p) # {}
      BY <1>5, <2>1, FS_EmptySet
    <3> QED
      BY <1>0, <3>1, FirstFree
  <2>3. PICK e \in Fds : e = Min(FreeFds(p) \ {d}) /\ proc[p].ofile[e] = 0 /\ e # d
    <3>0. Cardinality(FreeFds(p)) >= 2
      BY <1>5
    <3>a. Cardinality(FreeFds(p) \ {d}) = Cardinality(FreeFds(p)) - 1
      BY <2>1, <2>2, PlusMinus
    <3>b. IsFiniteSet(FreeFds(p) \ {d})
      BY <2>1, FS_Subset
    <3>1. Cardinality(FreeFds(p) \ {d}) >= 1 /\ IsFiniteSet(FreeFds(p) \ {d})
      BY <2>1, <3>0, <3>a, <3>b
    <3>2. FreeFds(p) \ {d} # {}
      BY <3>1, FS_EmptySet
    <3>3. PICK S \in SUBSET FreeFds(p) : S = FreeFds(p) \ {d}
      OBVIOUS
    <3>4. Min(S) \in S /\ Min(S) \in Fds /\ proc[p].ofile[Min(S)] = 0
      BY <1>0, <3>2, <3>3, FirstFree
    <3> QED
      BY <3>3, <3>4
  <2> DEFINE o == [[proc[p].ofile EXCEPT ![d] = f] EXCEPT ![e] = g]
             r0 == [proc[p] EXCEPT !.call = Idle]
             r1 == [r0 EXCEPT !.ofile[d] = f]
             r == [r1 EXCEPT !.ofile[e] = g]
  <2>4. o \in [Fds -> Files \cup {0}] /\ o[d] = f /\ o[e] = g
        /\ \A x \in Fds : x # d /\ x # e => o[x] = proc[p].ofile[x]
    BY <1>0, <2>2, <2>3 DEF IsProc
  <2>5. proc' = [proc EXCEPT ![p] = [[[proc[p] EXCEPT !.call = Idle] EXCEPT !.ofile[d] = f]
                                       EXCEPT !.ofile[e] = g]]
    BY <1>0, <1>5, <2>2, <2>3 DEF Shapes
  <2>6. proc' = [proc EXCEPT ![p] = r]
    BY <2>5
  <2>7. r.call = Idle /\ r.ofile = o /\ IsProc(r)
    <3>1. /\ DOMAIN r0 = {"call", "todo", "ofile"} /\ r0.call = Idle
          /\ r0.todo = proc[p].todo /\ r0.ofile = proc[p].ofile
      BY <1>0 DEF IsProc
    <3>2. /\ DOMAIN r1 = {"call", "todo", "ofile"} /\ r1.call = Idle
          /\ r1.todo = proc[p].todo /\ r1.ofile = [proc[p].ofile EXCEPT ![d] = f]
      <4> HIDE DEF r0
      <4> QED
        BY <3>1
    <3>3. /\ DOMAIN r = {"call", "todo", "ofile"} /\ r.call = Idle
          /\ r.todo = proc[p].todo /\ r.ofile = o
      <4> HIDE DEF r0, r1
      <4> QED
        BY <3>2
    <3>4. r.ofile \in [Fds -> Files \cup {0}]
      <4> HIDE DEF r, o
      <4> QED
        BY <2>4, <3>3
    <3> HIDE DEF r, o
    <3> QED
      BY <1>0, <3>3, <3>4 DEF IsProc
  <2> HIDE DEF o, r
  <2>8. FdsOf(f) = {} /\ PipesOf(f) = {p} /\ FdsOf(g) = {} /\ PipesOf(g) = {p}
    <3>1. p \in PipesOf(f) /\ p \in PipesOf(g)
      BY <1>0, <1>1, <1>2, <1>3 DEF PipesOf
    <3> QED
      BY <1>0, <1>1, <1>2, <3>1, OwnOf
  <2>9. \A x \in Procs \X Fds : proc'[x[1]].ofile[x[2]] =
          IF x = <<p, d>> THEN f ELSE IF x = <<p, e>> THEN g ELSE proc[x[1]].ofile[x[2]]
    <3>1. \A q \in Procs : proc'[q] = IF q = p THEN r ELSE proc[q]
      BY <1>0, <2>6 DEF Shapes
    <3>2. \A x \in Procs \X Fds : x = <<x[1], x[2]>>
      OBVIOUS
    <3> QED
      BY <2>3, <2>4, <2>7, <3>1, <3>2
  <2>10. /\ <<p, d>> \in Procs \X Fds /\ <<p, e>> \in Procs \X Fds /\ <<p, d>> # <<p, e>>
         /\ proc[<<p, d>>[1]].ofile[<<p, d>>[2]] = 0 /\ proc[<<p, e>>[1]].ofile[<<p, e>>[2]] = 0
    BY <2>2, <2>3
  <2>11. FdsOf(f)' = {<<p, d>>} /\ FdsOf(g)' = {<<p, e>>}
    BY <1>0, <1>2, <2>8, <2>9, <2>10 DEF FdsOf
  <2>12. ASSUME NEW x \in Files, x # f, x # g PROVE FdsOf(x)' = FdsOf(x)
    BY <1>0, <2>9, <2>10, <2>12 DEF FdsOf
  <2>13. Ends(r.call) = {}
    BY <1>0, <2>7 DEF Ends, Piping
  <2>14. ASSUME NEW x \in Files
         PROVE  file'[x].ref = Cardinality(FdsOf(x)') + Cardinality(PipesOf(x)')
    <3>1. file' = file
      BY <1>5
    <3>2. CASE x \in {f, g}
      <4>1. Cardinality(PipesOf(x)') = Cardinality(PipesOf(x)) - 1
        BY <1>0, <1>3, <2>6, <2>13, <3>2, EndsMove
      <4>2. Cardinality(PipesOf(x)) = 1
        BY <2>8, <3>2, FS_Singleton
      <4>3. Cardinality(FdsOf(x)') = 1
        BY <2>11, <3>2, FS_Singleton
      <4> QED
        BY <1>1, <1>2, <3>1, <3>2, <4>1, <4>2, <4>3
    <3>3. CASE x \notin {f, g}
      <4>1. PipesOf(x)' = PipesOf(x)
        BY <1>0, <1>3, <2>6, <2>13, <3>3, EndsMove
      <4> QED
        BY <1>0, <2>12, <3>1, <3>3, <4>1, Counts
    <3> QED
      BY <3>2, <3>3
  <2>15. /\ file' = [x \in Files |-> file'[x]] /\ \A x \in Files : IsFile(file'[x])
         /\ \A x \in Files : \A q \in PipesOf(x) : q # p /\ file[x].ref = 1 => file'[x].ref = 1
    BY <1>0, <1>5 DEF Shapes
  <2>16. OwnEnds(p)'
    BY <1>0, <2>6, <2>7 DEF OwnEnds, Call, Shapes
  <2> QED
    BY <2>6, <2>7, <2>14, <2>15, <2>16, RefsStep
<1> QED
  BY <1>1, <1>2, <1>4, <1>5 DEF PipeFds

\* Every process has descriptor 0 for the first entry.
LEMMA InitRefs == Init => RefsIInv
<1> SUFFICES ASSUME Init PROVE RefsIInv
  OBVIOUS
<1>1. PICK prog \in Programs :
        proc = [p \in Procs |-> [call |-> Idle, todo |-> prog[p],
                                 ofile |-> [d \in Fds |-> IF d = 0 THEN 1 ELSE 0]]]
  BY DEF Init, Fds
<1>2. /\ IsFiniteSet(Procs) /\ Cardinality(Procs) \in Nat /\ 1 \in Files /\ 1 \in Inodes
      /\ 0 \notin Files /\ 0 \in Fds /\ \A p \in Procs : prog[p] \in Seq(SysCalls)
  BY FilesAssumption, FS_CardinalityType DEF Fds
<1>3. ASSUME NEW p \in Procs
      PROVE  /\ IsProc(proc[p]) /\ Call(p).pc = "user"
             /\ \A d \in Fds : proc[p].ofile[d] = IF d = 0 THEN 1 ELSE 0
  BY <1>1, <1>2, IdleCall DEF IsProc, Call
<1>4. ASSUME NEW f \in Files
      PROVE  IsFile(file[f]) /\ file[f].ref = IF f = 1 THEN Cardinality(Procs) ELSE 0
  BY <1>2 DEF Init, FreeFile, IsFile
<1>5. file = [f \in Files |-> file[f]] /\ proc = [p \in Procs |-> proc[p]]
  BY <1>1 DEF Init
<1>6. Shapes
  BY <1>3, <1>4, <1>5 DEF Shapes
<1>7. \A p \in Procs : OwnEnds(p)
  BY <1>3 DEF OwnEnds
<1>8. \A f : PipesOf(f) = {}
  BY <1>3 DEF PipesOf, Piping
<1>9. \A x \in Procs \X Fds : x = <<x[1], x[2]>> /\ x[1] \in Procs /\ x[2] \in Fds
  OBVIOUS
<1>10. FdsOf(1) = Procs \X {0}
  BY <1>2, <1>3, <1>9 DEF FdsOf
<1>11. \A f \in Files : f # 1 => FdsOf(f) = {}
  BY <1>2, <1>3, <1>9 DEF FdsOf
<1>12. Cardinality(Procs \X {0}) = Cardinality(Procs) /\ Cardinality({}) = 0
  <2>1. Cardinality({0}) = 1 /\ IsFiniteSet({0})
    BY FS_Singleton
  <2>2. Cardinality(Procs \X {0}) = Cardinality(Procs) * Cardinality({0})
    BY <1>2, <2>1, FS_Product
  <2> QED
    BY <1>2, <2>1, <2>2, FS_EmptySet
<1>13. ASSUME NEW f \in Files
       PROVE  file[f].ref = Cardinality(FdsOf(f)) + Cardinality(PipesOf(f))
  <2>1. PipesOf(f) = {}
    BY <1>8
  <2>2. CASE f = 1
    <3>1. file[f].ref = Cardinality(Procs) /\ FdsOf(f) = Procs \X {0}
      BY <1>4, <1>10, <2>2
    <3> QED
      BY <1>2, <1>12, <2>1, <3>1
  <2>3. CASE f # 1
    <3>1. file[f].ref = 0 /\ FdsOf(f) = {}
      BY <1>4, <1>11, <2>3
    <3> QED
      BY <1>12, <2>1, <3>1
  <2> QED
    BY <2>2, <2>3
<1> QED
  BY <1>6, <1>7, <1>13, Counts DEF RefsIInv

\* Every step keeps the counts.
LEMMA NextRefs == RefsIInv /\ [Next]_vars => RefsIInv'
<1> SUFFICES ASSUME RefsIInv, [Next]_vars PROVE RefsIInv'
  OBVIOUS
<1>1. CASE UNCHANGED vars
  <2>1. file' = file /\ proc' = proc
    BY <1>1 DEF vars
  <2> QED
    BY <2>1 DEF RefsIInv, Shapes, OwnEnds, RefsExact, Call
<1>2. ASSUME NEW p \in Procs,
             \/ SysReadWrite(p) \/ ReadStart(p) \/ ReadBlock(p) \/ ReadEnd(p)
             \/ WriteStart(p) \/ WriteBlock(p) \/ WriteEnd(p) \/ SysFstat(p)
      PROVE  RefsIInv'
  BY <1>2, ReadWriteRefs
<1>3. ASSUME NEW p \in Procs,
             \/ SysOpen(p) \/ SysDup(p) \/ SysClose(p)
             \/ PipeFirst(p) \/ PipeSecond(p) \/ PipeFds(p)
      PROVE  RefsIInv'
  BY <1>3, OpenRefs, DupRefs, CloseRefs, PipeFirstRefs, PipeSecondRefs, PipeFdsRefs
<1> QED
  BY <1>1, <1>2, <1>3 DEF Next

\* Every entry of the file table has as many references as descriptors and pipe()
\* calls hold it: filealloc(), filedup() and fileclose() leak none and free none early,
\* on the ways out of pipe() that fail too.
THEOREM FilesRefs == Spec => []RefsExact
<1>1. Spec => []RefsIInv
  BY InitRefs, NextRefs, PTL DEF Spec
<1>2. RefsIInv => RefsExact
  BY DEF RefsIInv
<1> QED
  BY <1>1, <1>2, PTL

\* What a descriptor is for, and what pipe() is about to give descriptors to, has a type.
TypedAt(q) ==
  /\ \A d \in Fds : proc[q].ofile[d] # 0 => file[proc[q].ofile[d]].type # "NONE"
  /\ Call(q).pc = "pipe_fds" =>
       file[Call(q).f].type # "NONE" /\ file[Call(q).g].type # "NONE"
Typed == \A q \in Procs : TypedAt(q)

\* A step of p that takes the type only of entries that p alone refers to.
LEMMA TypedStep ==
  ASSUME RefsIInv, Typed, NEW p \in Procs, NEW r, proc' = [proc EXCEPT ![p] = r],
         \A f \in Files : file[f].type # "NONE" =>
           \/ file'[f].type # "NONE"
           \/ (\A x \in FdsOf(f) : x[1] = p) /\ (\A q \in PipesOf(f) : q = p),
         \A d \in Fds : r.ofile[d] # 0 => file'[r.ofile[d]].type # "NONE",
         r.call.pc = "pipe_fds" =>
           file'[r.call.f].type # "NONE" /\ file'[r.call.g].type # "NONE"
  PROVE  Typed'
<1>0. Shapes
  BY DEF RefsIInv
<1>1. \A q \in Procs : proc'[q] = IF q = p THEN r ELSE proc[q]
  BY <1>0 DEF Shapes
<1>2. ASSUME NEW q \in Procs PROVE TypedAt(q)'
  <2>1. CASE q = p
    BY <1>1, <2>1 DEF TypedAt, Call
  <2>2. CASE q # p
    <3>1. proc'[q] = proc[q] /\ IsProc(proc[q]) /\ TypedAt(q)
      BY <1>0, <1>1, <2>2 DEF Typed, Shapes
    <3>2. ASSUME NEW d \in Fds, proc[q].ofile[d] # 0
          PROVE  file'[proc[q].ofile[d]].type # "NONE"
      <4>1. PICK f \in Files : f = proc[q].ofile[d] /\ file[f].type # "NONE"
        BY <3>1, <3>2 DEF IsProc, TypedAt
      <4>2. <<q, d>> \in FdsOf(f) /\ <<q, d>>[1] # p
        BY <2>2, <4>1 DEF FdsOf
      <4> QED
        BY <4>1, <4>2
    <3>3. ASSUME Call(q).pc = "pipe_fds"
          PROVE  file'[Call(q).f].type # "NONE" /\ file'[Call(q).g].type # "NONE"
      <4>1. PICK f \in Files : f = Call(q).f /\ file[f].type # "NONE"
        BY <3>1, <3>3 DEF IsProc, IsCall, TypedAt, Call
      <4>2. PICK g \in Files : g = Call(q).g /\ file[g].type # "NONE"
        BY <3>1, <3>3 DEF RefsIInv, OwnEnds, TypedAt
      <4>3. q \in PipesOf(f) /\ q \in PipesOf(g)
        BY <3>3, <4>1, <4>2 DEF PipesOf, Piping
      <4> QED
        BY <2>2, <4>1, <4>2, <4>3
    <3> QED
      BY <3>1, <3>2, <3>3 DEF TypedAt, Call
  <2> QED
    BY <2>1, <2>2
<1> QED
  BY <1>2 DEF Typed

\* A step of p that changes no type, no descriptor, and is not in pipe() when it is over.
LEMMA TypedQuiet ==
  ASSUME RefsIInv, Typed, NEW p \in Procs, NEW r, proc' = [proc EXCEPT ![p] = r],
         r.ofile = proc[p].ofile, r.call.pc # "pipe_fds",
         \A f \in Files : file[f].type # "NONE" => file'[f].type # "NONE"
  PROVE  Typed'
<1>1. IsProc(proc[p]) /\ TypedAt(p)
  BY DEF RefsIInv, Shapes, Typed
<1>2. ASSUME NEW d \in Fds, r.ofile[d] # 0 PROVE file'[r.ofile[d]].type # "NONE"
  BY <1>1, <1>2 DEF IsProc, TypedAt
<1> QED
  BY <1>2, TypedStep

\* The steps of read(), write() and fstat().
LEMMA ReadWriteTyped ==
  ASSUME RefsIInv, Typed, NEW p \in Procs,
         \/ SysReadWrite(p) \/ ReadStart(p) \/ ReadBlock(p) \/ ReadEnd(p)
         \/ WriteStart(p) \/ WriteBlock(p) \/ WriteEnd(p) \/ SysFstat(p)
  PROVE  Typed'
<1>0. Shapes /\ IsProc(proc[p]) /\ IsCall(Call(p))
  BY DEF RefsIInv, Shapes, IsProc, Call
<1>1. ASSUME NEW f \in Files PROVE file'[f].type = file[f].type
  <2>1. file' = file \/ \E x : file' = [file EXCEPT ![Call(p).f].off = x]
    BY DEF SysReadWrite, ReadStart, ReadBlock, ReadEnd, WriteStart, WriteBlock, WriteEnd, SysFstat
  <2>2. ASSUME NEW x, file' = [file EXCEPT ![Call(p).f].off = x]
        PROVE  file'[f].type = file[f].type
    <3>1. file'[f] = IF f = Call(p).f THEN [file[f] EXCEPT !.off = x] ELSE file[f]
      BY <1>0, <2>2 DEF Shapes
    <3>2. IsFile(file[f])
      BY <1>0 DEF Shapes
    <3> QED
      BY <3>1, <3>2 DEF IsFile
  <2> QED
    BY <2>1, <2>2
<1>2. ASSUME NEW c, Step(p, c) \/ Start(p, c, proc[p].ofile), c.pc # "pipe_fds" PROVE Typed'
  <2>1. PICK r : proc' = [proc EXCEPT ![p] = r] /\ r.ofile = proc[p].ofile /\ r.call = c
    <3>1. CASE Step(p, c)
      <4> DEFINE r == [proc[p] EXCEPT !.call = c]
      <4>1. proc' = [proc EXCEPT ![p] = r]
        BY <1>0, <3>1 DEF Step, Shapes
      <4>2. r.ofile = proc[p].ofile /\ r.call = c
        BY <1>0 DEF IsProc
      <4> QED
        BY <4>1, <4>2
    <3>2. CASE Start(p, c, proc[p].ofile)
      <4> DEFINE r == [call |-> c, todo |-> Tail(proc[p].todo), ofile |-> proc[p].ofile]
      <4>1. proc' = [proc EXCEPT ![p] = r]
        BY <1>0, <3>2 DEF Start, Shapes
      <4>2. r.ofile = proc[p].ofile /\ r.call = c
        OBVIOUS
      <4> QED
        BY <4>1, <4>2
    <3> QED
      BY <1>2, <3>1, <3>2
  <2> QED
    BY <1>1, <1>2, <2>1, TypedQuiet
<1>3. Idle.pc # "pipe_fds"
  BY DEF Idle
<1>4. CASE SysReadWrite(p) \/ SysFstat(p)
  <2>1. PICK op \in {"read", "write"} : \/ Start(p, Idle, proc[p].ofile)
          \/ Start(p, [Idle EXCEPT !.pc = op, !.f = Argfd(p), !.n = Arg(p, 3)], proc[p].ofile)
    BY <1>4 DEF SysReadWrite, SysFstat
  <2>2. PICK c : c = [Idle EXCEPT !.pc = op, !.f = Argfd(p), !.n = Arg(p, 3)]
    OBVIOUS
  <2>3. c.pc # "pipe_fds"
    BY <2>2 DEF Idle
  <2>4. Start(p, Idle, proc[p].ofile) \/ Start(p, c, proc[p].ofile)
    BY <2>1, <2>2
  <2> QED
    BY <1>2, <1>3, <2>3, <2>4
<1>5. CASE ReadStart(p)
  <2> DEFINE c(n) == [Call(p) EXCEPT !.pc = "readi", !.n = n]
  <2>1. Step(p, Idle) \/ \E n : Step(p, c(n))
    BY <1>5 DEF ReadStart
  <2>2. \A n : c(n).pc # "pipe_fds"
    BY <1>0 DEF IsCall
  <2> HIDE DEF c
  <2> QED
    BY <1>2, <1>3, <2>1, <2>2
<1>6. CASE ReadBlock(p)
  <2> DEFINE c(n, d) == [Call(p) EXCEPT !.tot = n, !.data = d]
  <2>1. Step(p, Idle) \/ \E n, d : Step(p, c(n, d))
    BY <1>6 DEF ReadBlock
  <2>2. \A n, d : c(n, d).pc # "pipe_fds"
    BY <1>0, <1>6 DEF IsCall, ReadBlock, At
  <2> HIDE DEF c
  <2> QED
    BY <1>2, <1>3, <2>1, <2>2
<1>7. CASE ReadEnd(p)
  BY <1>2, <1>3, <1>7 DEF ReadEnd
<1>8. CASE WriteStart(p)
  <2> DEFINE c(n, l) == [Call(p) EXCEPT !.pc = "writei", !.n1 = n, !.tot = 0, !.log = l]
  <2>1. Step(p, Idle) \/ \E n, l : Step(p, c(n, l))
    BY <1>8 DEF WriteStart
  <2>2. \A n, l : c(n, l).pc # "pipe_fds"
    BY <1>0 DEF IsCall
  <2> HIDE DEF c
  <2> QED
    BY <1>2, <1>3, <2>1, <2>2
<1>9. CASE WriteBlock(p)
  <2> DEFINE c(n, l) == [Call(p) EXCEPT !.tot = n, !.log = l]
             e(l) == [Call(p) EXCEPT !.pc = "writei_end", !.log = l]
  <2>0. Call(p).pc = "writei"
    BY <1>9 DEF WriteBlock, At
  <2>1. UNCHANGED proc \/ (\E n, l : Step(p, c(n, l))) \/ (\E l : Step(p, e(l)))
    BY <1>9, StepIf DEF WriteBlock
  <2>2. \A n, l : c(n, l).pc # "pipe_fds"
    BY <1>0, <2>0 DEF IsCall
  <2>3. \A l : e(l).pc # "pipe_fds"
    BY <1>0 DEF IsCall
  <2>4. CASE UNCHANGED proc
    <3>1. proc' = [proc EXCEPT ![p] = proc[p]] /\ proc[p].call.pc # "pipe_fds"
      BY <1>0, <2>0, <2>4 DEF Shapes, Call
    <3> QED
      BY <1>1, <3>1, TypedQuiet
  <2> HIDE DEF c, e
  <2> QED
    BY <1>2, <2>1, <2>2, <2>3, <2>4
<1>10. CASE WriteEnd(p)
  <2> DEFINE c(f, n, j) == [Idle EXCEPT !.pc = "write", !.f = f, !.n = n, !.i = j]
  <2>1. Step(p, Idle) \/ \E n, j : Step(p, c(Call(p).f, n, j))
    BY <1>10, StepIf DEF WriteEnd
  <2>2. \A f, n, j : c(f, n, j).pc # "pipe_fds"
    BY DEF Idle
  <2> HIDE DEF c
  <2> QED
    BY <1>2, <1>3, <2>1, <2>2
<1> QED
  BY <1>4, <1>5, <1>6, <1>7, <1>8, <1>9, <1>10

\* open(), dup() and close().
LEMMA OpenTyped ==
  ASSUME RefsIInv, Typed, NEW p \in Procs, SysOpen(p) \/ SysDup(p) \/ SysClose(p)
  PROVE  Typed'
<1>0. Shapes /\ IsProc(proc[p]) /\ TypedAt(p) /\ Idle.pc = "user" /\ RefsExact
  BY IdleCall DEF RefsIInv, Shapes, Typed
<1>1. ASSUME NEW o, Start(p, Idle, o),
             \A f \in Files : file[f].type # "NONE" =>
               \/ file'[f].type # "NONE"
               \/ (\A x \in FdsOf(f) : x[1] = p) /\ (\A q \in PipesOf(f) : q = p),
             \A d \in Fds : o[d] # 0 => file'[o[d]].type # "NONE"
      PROVE  Typed'
  <2>1. PICK r : proc' = [proc EXCEPT ![p] = r] /\ r.ofile = o /\ r.call = Idle
    <3> DEFINE r == [call |-> Idle, todo |-> Tail(proc[p].todo), ofile |-> o]
    <3>1. proc' = [proc EXCEPT ![p] = r]
      BY <1>0, <1>1 DEF Start, Shapes
    <3>2. r.ofile = o /\ r.call = Idle
      OBVIOUS
    <3> QED
      BY <3>1, <3>2
  <2>2. r.call.pc # "pipe_fds"
    BY <1>0, <2>1
  <2> QED
    BY <1>1, <2>1, <2>2, TypedStep
<1>2. ASSUME UNCHANGED file, Start(p, Idle, proc[p].ofile) PROVE Typed'
  <2>1. \A d \in Fds : proc[p].ofile[d] # 0 => file'[proc[p].ofile[d]].type # "NONE"
    BY <1>0, <1>2 DEF TypedAt
  <2> QED
    BY <1>1, <1>2, <2>1
<1>3. CASE SysOpen(p)
  <2>1. CASE FreeFiles = {} \/ FreeFds(p) = {}
    BY <1>2, <1>3, <2>1 DEF SysOpen
  <2>2. CASE FreeFiles # {} /\ FreeFds(p) # {}
    <3>1. PICK f \in Files : f = Min(FreeFiles)
      BY <1>0, <2>2, FirstFree
    <3>2. PICK d \in Fds : d = Min(FreeFds(p))
      BY <1>0, <2>2, FirstFree
    <3>3. PICK e : /\ file' = [file EXCEPT ![f] = e] /\ e.type = "INODE"
                   /\ Start(p, Idle, [proc[p].ofile EXCEPT ![d] = f])
      <4> DEFINE e == [ref |-> 1, type |-> "INODE", readable |-> Arg(p, 3) # "wronly",
                       writable |-> Arg(p, 3) # "rdonly", ip |-> Arg(p, 2), off |-> 0]
      <4>1. /\ file' = [file EXCEPT ![f] = e]
            /\ Start(p, Idle, [proc[p].ofile EXCEPT ![d] = f])
        BY <1>3, <2>2, <3>1, <3>2 DEF SysOpen
      <4>2. e.type = "INODE"
        OBVIOUS
      <4> QED
        BY <4>1, <4>2
    <3>4. \A g \in Files : file'[g] = IF g = f THEN e ELSE file[g]
      BY <1>0, <3>3 DEF Shapes
    <3>5. \A g \in Files : file[g].type # "NONE" => file'[g].type # "NONE"
      BY <3>3, <3>4
    <3>6. PICK o : o = [proc[p].ofile EXCEPT ![d] = f]
      OBVIOUS
    <3>7. \A c \in Fds : o[c] = IF c = d THEN f ELSE proc[p].ofile[c]
      BY <1>0, <3>6 DEF IsProc
    <3>8. ASSUME NEW c \in Fds, o[c] # 0 PROVE file'[o[c]].type # "NONE"
      <4>1. CASE c = d
        BY <3>3, <3>4, <3>7, <4>1
      <4>2. CASE c # d
        <5>1. o[c] \in Files /\ file[o[c]].type # "NONE"
          BY <1>0, <3>7, <3>8, <4>2 DEF IsProc, TypedAt
        <5> QED
          BY <3>5, <5>1
      <4> QED
        BY <4>1, <4>2
    <3>9. Start(p, Idle, o)
      BY <3>3, <3>6
    <3> QED
      BY <1>1, <3>5, <3>8, <3>9
  <2> QED
    BY <2>1, <2>2
<1>4. CASE SysDup(p)
  <2>1. CASE Argfd(p) = 0 \/ FreeFds(p) = {}
    BY <1>2, <1>4, <2>1 DEF SysDup
  <2>2. CASE Argfd(p) # 0 /\ FreeFds(p) # {}
    <3>1. PICK f \in Files : f = Argfd(p) /\ file[f].type # "NONE"
      BY <1>0, <2>2, Descriptor DEF TypedAt
    <3>2. PICK d \in Fds : d = Min(FreeFds(p))
      BY <1>0, <2>2, FirstFree
    <3>3. /\ file' = [file EXCEPT ![f].ref = @ + 1]
          /\ Start(p, Idle, [proc[p].ofile EXCEPT ![d] = f])
      BY <1>4, <2>2, <3>1, <3>2 DEF SysDup, Filedup
    <3>4. ASSUME NEW g \in Files PROVE file'[g].type = file[g].type
      <4>1. file'[g] = IF g = f THEN [file[g] EXCEPT !.ref = @ + 1] ELSE file[g]
        BY <1>0, <3>3 DEF Shapes
      <4>2. IsFile(file[g])
        BY <1>0 DEF Shapes
      <4> QED
        BY <4>1, <4>2 DEF IsFile
    <3>6. PICK o : o = [proc[p].ofile EXCEPT ![d] = f]
      OBVIOUS
    <3>7. \A c \in Fds : o[c] = IF c = d THEN f ELSE proc[p].ofile[c]
      BY <1>0, <3>6 DEF IsProc
    <3>8. ASSUME NEW c \in Fds, o[c] # 0 PROVE file'[o[c]].type # "NONE"
      <4>1. o[c] \in Files /\ file[o[c]].type # "NONE"
        BY <1>0, <3>1, <3>7, <3>8 DEF IsProc, TypedAt
      <4> QED
        BY <3>4, <4>1
    <3>9. Start(p, Idle, o)
      BY <3>3, <3>6
    <3> QED
      BY <1>1, <3>4, <3>8, <3>9
  <2> QED
    BY <2>1, <2>2
<1>5. CASE SysClose(p)
  <2>1. CASE Argfd(p) = 0
    BY <1>2, <1>5, <2>1 DEF SysClose
  <2>2. CASE Argfd(p) # 0
    <3>1. PICK f \in Files : f = Argfd(p)
      BY <1>0, <2>2, Descriptor
    <3>2. PICK d \in Fds : d = Arg(p, 2) /\ <<p, d>> \in FdsOf(f)
      BY <1>0, <2>2, <3>1, Descriptor
    <3>3. /\ file' = IF file[f].ref = 1 THEN Closed(file, {f}) ELSE [file EXCEPT ![f].ref = @ - 1]
          /\ Start(p, Idle, [proc[p].ofile EXCEPT ![d] = 0])
      BY <1>5, <2>2, <3>1, <3>2 DEF SysClose
    <3>4. ASSUME NEW g \in Files PROVE file'[g].type = file[g].type \/ (g = f /\ file[f].ref = 1)
      <4>1. CASE file[f].ref = 1
        <5>1. file' = Closed(file, {f})
          BY <3>3, <4>1
        <5>2. CASE g = f
          BY <4>1, <5>2
        <5>3. CASE g # f
          <6>1. g \notin {f}
            BY <5>3
          <6>2. file'[g] = file[g]
            BY <1>0, <5>1, <6>1, ClosedFiles
          <6> QED
            BY <6>2
        <5> QED
          BY <5>2, <5>3
      <4>2. CASE file[f].ref # 1
        <5>1. file'[g] = IF g = f THEN [file[g] EXCEPT !.ref = @ - 1] ELSE file[g]
          BY <1>0, <3>3, <4>2 DEF Shapes
        <5>2. IsFile(file[g])
          BY <1>0 DEF Shapes
        <5> QED
          BY <5>1, <5>2 DEF IsFile
      <4> QED
        BY <4>1, <4>2
    <3>5. file[f].ref = 1 => FdsOf(f) = {<<p, d>>} /\ PipesOf(f) = {}
      BY <1>0, <3>2, FdOf
    <3>6. PICK o : o = [proc[p].ofile EXCEPT ![d] = 0]
      OBVIOUS
    <3>7. \A c \in Fds : o[c] = IF c = d THEN 0 ELSE proc[p].ofile[c]
      BY <1>0, <3>6 DEF IsProc
    <3>8. ASSUME NEW c \in Fds, o[c] # 0 PROVE file'[o[c]].type # "NONE"
      <4>1. o[c] \in Files /\ file[o[c]].type # "NONE" /\ c # d /\ o[c] = proc[p].ofile[c]
        BY <1>0, <3>7, <3>8 DEF IsProc, TypedAt
      <4>2. <<p, c>> \in FdsOf(o[c]) /\ <<p, c>> # <<p, d>>
        BY <4>1 DEF FdsOf
      <4> QED
        BY <3>4, <3>5, <4>1, <4>2
    <3>9. Start(p, Idle, o)
      BY <3>3, <3>6
    <3>10. ASSUME NEW g \in Files, file[g].type # "NONE"
           PROVE  \/ file'[g].type # "NONE"
                  \/ (\A x \in FdsOf(g) : x[1] = p) /\ (\A q \in PipesOf(g) : q = p)
      BY <3>4, <3>5, <3>10
    <3> QED
      BY <1>1, <3>8, <3>9, <3>10
  <2> QED
    BY <2>1, <2>2
<1> QED
  BY <1>3, <1>4, <1>5

\* pipe().
LEMMA PipeTyped ==
  ASSUME RefsIInv, Typed, NEW p \in Procs, PipeFirst(p) \/ PipeSecond(p) \/ PipeFds(p)
  PROVE  Typed'
<1>0. /\ Shapes /\ IsProc(proc[p]) /\ TypedAt(p) /\ Idle.pc = "user" /\ RefsExact
      /\ IsCall(Call(p)) /\ OwnEnds(p)
  BY IdleCall DEF RefsIInv, Shapes, Typed, IsProc, Call
<1>1. ASSUME NEW c, Step(p, c) \/ Start(p, c, proc[p].ofile)
      PROVE  \E r : proc' = [proc EXCEPT ![p] = r] /\ r.ofile = proc[p].ofile /\ r.call = c
  <2>1. CASE Step(p, c)
    <3> DEFINE r == [proc[p] EXCEPT !.call = c]
    <3>1. proc' = [proc EXCEPT ![p] = r]
      BY <1>0, <2>1 DEF Step, Shapes
    <3>2. r.ofile = proc[p].ofile /\ r.call = c
      BY <1>0 DEF IsProc
    <3> QED
      BY <3>1, <3>2
  <2>2. CASE Start(p, c, proc[p].ofile)
    <3> DEFINE r == [call |-> c, todo |-> Tail(proc[p].todo), ofile |-> proc[p].ofile]
    <3>1. proc' = [proc EXCEPT ![p] = r]
      BY <1>0, <2>2 DEF Start, Shapes
    <3>2. r.ofile = proc[p].ofile /\ r.call = c
      OBVIOUS
    <3> QED
      BY <3>1, <3>2
  <2> QED
    BY <1>1, <2>1, <2>2
<1>2. ASSUME NEW S \in SUBSET Files, Step(p, Idle), file' = Closed(file, S),
             Call(p).pc \in Piping, S \subseteq {Call(p).f, Call(p).g},
             \A f \in S : file[f].ref = 1
      PROVE  Typed'
  <2>1. PICK r : proc' = [proc EXCEPT ![p] = r] /\ r.ofile = proc[p].ofile /\ r.call = Idle
    BY <1>1, <1>2
  <2>2. ASSUME NEW f \in S PROVE FdsOf(f) = {} /\ PipesOf(f) = {p}
    <3>1. p \in PipesOf(f)
      BY <1>2, <2>2 DEF PipesOf
    <3> QED
      BY <1>0, <1>2, <2>2, <3>1, OwnOf
  <2>3. \A f \in Files : f \notin S => file'[f] = file[f]
    BY <1>0, <1>2, ClosedFiles
  <2>4. ASSUME NEW f \in Files, file[f].type # "NONE"
        PROVE  \/ file'[f].type # "NONE"
               \/ (\A x \in FdsOf(f) : x[1] = p) /\ (\A q \in PipesOf(f) : q = p)
    BY <2>2, <2>3, <2>4
  <2>5. ASSUME NEW d \in Fds, r.ofile[d] # 0 PROVE file'[r.ofile[d]].type # "NONE"
    <3>1. PICK f \in Files : f = r.ofile[d] /\ file[f].type # "NONE" /\ <<p, d>> \in FdsOf(f)
      BY <1>0, <2>1, <2>5 DEF IsProc, TypedAt, FdsOf
    <3> QED
      BY <2>2, <2>3, <3>1
  <2>6. r.call.pc # "pipe_fds"
    BY <1>0, <2>1
  <2> QED
    BY <2>1, <2>4, <2>5, <2>6, TypedStep
<1>3. CASE PipeFirst(p)
  <2>1. CASE FreeFiles = {}
    <3>1. PICK r : proc' = [proc EXCEPT ![p] = r] /\ r.ofile = proc[p].ofile /\ r.call = Idle
      BY <1>1, <1>3, <2>1 DEF PipeFirst
    <3>2. r.call.pc # "pipe_fds" /\ file' = file
      BY <1>0, <1>3, <2>1, <3>1 DEF PipeFirst
    <3> QED
      BY <3>1, <3>2, TypedQuiet
  <2>2. CASE FreeFiles # {}
    <3>1. PICK f \in Files : f = Min(FreeFiles)
      BY <1>0, <2>2, FirstFree
    <3>2. PICK c : c = [Idle EXCEPT !.pc = "pipe", !.f = f]
      OBVIOUS
    <3>3. Start(p, c, proc[p].ofile) /\ file' = [file EXCEPT ![f].ref = 1]
      BY <1>3, <2>2, <3>1, <3>2 DEF PipeFirst
    <3>4. PICK r : proc' = [proc EXCEPT ![p] = r] /\ r.ofile = proc[p].ofile /\ r.call = c
      BY <1>1, <3>3
    <3>5. r.call.pc # "pipe_fds"
      BY <3>2, <3>4 DEF Idle
    <3>6. ASSUME NEW g \in Files PROVE file'[g].type = file[g].type
      <4>1. file'[g] = IF g = f THEN [file[g] EXCEPT !.ref = 1] ELSE file[g]
        BY <1>0, <3>3 DEF Shapes
      <4>2. IsFile(file[g])
        BY <1>0 DEF Shapes
      <4> QED
        BY <4>1, <4>2 DEF IsFile
    <3> QED
      BY <3>4, <3>5, <3>6, TypedQuiet
  <2> QED
    BY <2>1, <2>2
<1>4. CASE PipeSecond(p)
  <2>0. Call(p).pc = "pipe" /\ Call(p).f \in Files /\ file[Call(p).f].ref = 1
    BY <1>0, <1>4 DEF PipeSecond, At, OwnEnds, IsCall
  <2>1. CASE Step(p, Idle) /\ file' = Closed(file, {Call(p).f})
    BY <1>2, <2>0, <2>1 DEF Piping
  <2>2. CASE FreeFiles # {} /\ ~ (Step(p, Idle) /\ file' = Closed(file, {Call(p).f}))
    <3>1. PICK f \in Files, g \in Files : f = Call(p).f /\ g = Min(FreeFiles)
      BY <1>0, <2>0, <2>2, FirstFree
    <3>2. PICK c : c = [Call(p) EXCEPT !.pc = "pipe_fds", !.g = g]
      OBVIOUS
    <3>3. /\ Step(p, c)
          /\ file' = [file EXCEPT
             ![f] = [@ EXCEPT !.type = "PIPE", !.readable = TRUE, !.writable = FALSE],
             ![g] = [@ EXCEPT !.ref = 1, !.type = "PIPE", !.readable = FALSE, !.writable = TRUE]]
      BY <1>4, <2>2, <3>1, <3>2 DEF PipeSecond
    <3>4. PICK r : proc' = [proc EXCEPT ![p] = r] /\ r.ofile = proc[p].ofile /\ r.call = c
      BY <1>1, <3>3
    <3>5. c.f = f /\ c.g = g
      BY <1>0, <3>1, <3>2 DEF IsCall
    <3>6. ASSUME NEW e \in Files
          PROVE  file'[e].type = IF e \in {f, g} THEN "PIPE" ELSE file[e].type
      <4>1. IsFile(file[e]) /\ DOMAIN file = Files
        BY <1>0 DEF Shapes
      <4>2. CASE e = g
        <5>1. PICK h : file'[e] = [h EXCEPT !.ref = 1, !.type = "PIPE", !.readable = FALSE,
                                            !.writable = TRUE]
                       /\ DOMAIN h = DOMAIN file[e]
          <6>1. CASE g = f
            <7>1. file'[e] = [[file[e] EXCEPT !.type = "PIPE", !.readable = TRUE,
                       !.writable = FALSE] EXCEPT !.ref = 1, !.type = "PIPE",
                       !.readable = FALSE, !.writable = TRUE]
              BY <3>3, <4>1, <4>2, <6>1
            <7> QED
              BY <7>1
          <6>2. CASE g # f
            <7>1. file'[e] = [file[e] EXCEPT !.ref = 1, !.type = "PIPE",
                       !.readable = FALSE, !.writable = TRUE]
              BY <3>3, <4>1, <4>2, <6>2
            <7> QED
              BY <7>1
          <6> QED
            BY <6>1, <6>2
        <5>2. "type" \in DOMAIN h
          BY <4>1, <5>1 DEF IsFile
        <5>3. file'[e].type = "PIPE"
          BY <5>1, <5>2
        <5> QED
          BY <4>2, <5>3
      <4>3. CASE e # g /\ e = f
        <5>1. file'[e] = [file[e] EXCEPT !.type = "PIPE", !.readable = TRUE, !.writable = FALSE]
          BY <3>3, <4>1, <4>3
        <5>2. file'[e].type = "PIPE"
          BY <4>1, <5>1 DEF IsFile
        <5> QED
          BY <4>3, <5>2
      <4>4. CASE e # g /\ e # f
        <5>1. file'[e] = file[e]
          BY <3>3, <4>1, <4>4
        <5> QED
          BY <4>4, <5>1
      <4> QED
        BY <4>2, <4>3, <4>4
    <3>7. \A e \in Files : file[e].type # "NONE" => file'[e].type # "NONE"
      BY <3>6
    <3>8. ASSUME NEW d \in Fds, r.ofile[d] # 0 PROVE file'[r.ofile[d]].type # "NONE"
      <4>1. r.ofile[d] \in Files /\ file[r.ofile[d]].type # "NONE"
        BY <1>0, <3>4, <3>8 DEF IsProc, TypedAt
      <4> QED
        BY <3>7, <4>1
    <3>9. file'[r.call.f].type # "NONE" /\ file'[r.call.g].type # "NONE"
      BY <3>4, <3>5, <3>6
    <3> QED
      BY <3>4, <3>7, <3>8, <3>9, TypedStep
  <2> QED
    BY <1>4, <2>1, <2>2 DEF PipeSecond
<1>5. CASE PipeFds(p)
  <2>0. /\ Call(p).pc = "pipe_fds" /\ Call(p).f \in Files /\ Call(p).g \in Files
        /\ file[Call(p).f].ref = 1 /\ file[Call(p).g].ref = 1
        /\ file[Call(p).f].type # "NONE" /\ file[Call(p).g].type # "NONE"
    BY <1>0, <1>5 DEF PipeFds, At, OwnEnds, IsCall, TypedAt
  <2>1. CASE Step(p, Idle) /\ file' = Closed(file, PipeUndo(Call(p)))
    BY <1>2, <2>0, <2>1 DEF Piping, PipeUndo
  <2>2. CASE UNCHANGED file /\ \E d0, d1 : proc' = [proc EXCEPT ![p].call = Idle,
                                  ![p].ofile[d0] = Call(p).f, ![p].ofile[d1] = Call(p).g]
    <3>1. PICK d0, d1 : proc' = [proc EXCEPT ![p].call = Idle,
                                  ![p].ofile[d0] = Call(p).f, ![p].ofile[d1] = Call(p).g]
      BY <2>2
    <3>2. PICK r : /\ proc' = [proc EXCEPT ![p] = r] /\ r.call = Idle
                   /\ r.ofile = [[proc[p].ofile EXCEPT ![d0] = Call(p).f] EXCEPT ![d1] = Call(p).g]
      <4> DEFINE o == [[proc[p].ofile EXCEPT ![d0] = Call(p).f] EXCEPT ![d1] = Call(p).g]
                 r == [proc[p] EXCEPT !.call = Idle, !.ofile = o]
      <4>1. proc' = [proc EXCEPT ![p] = r]
        BY <1>0, <3>1 DEF Shapes, IsProc
      <4>2. r.call = Idle /\ r.ofile = o
        BY <1>0 DEF IsProc
      <4> QED
        BY <4>1, <4>2
    <3>3. \A d \in Fds : r.ofile[d] \in {proc[p].ofile[d], Call(p).f, Call(p).g}
      BY <1>0, <3>2 DEF IsProc
    <3>4. ASSUME NEW d \in Fds, r.ofile[d] # 0 PROVE file'[r.ofile[d]].type # "NONE"
      BY <1>0, <2>0, <2>2, <3>3, <3>4 DEF TypedAt
    <3>5. r.call.pc # "pipe_fds"
      BY <1>0, <3>2
    <3>6. proc' = [proc EXCEPT ![p] = r] /\ \A f \in Files : file'[f] = file[f]
      BY <2>2, <3>2
    <3> QED
      BY <3>4, <3>5, <3>6, TypedStep
  <2> QED
    BY <1>5, <2>1, <2>2 DEF PipeFds
<1> QED
  BY <1>3, <1>4, <1>5

\* No descriptor is for an entry without a type.
LEMMA TypedAlways == Spec => []Typed
<1>1. Init => Typed
  <2> SUFFICES ASSUME Init, NEW p \in Procs PROVE TypedAt(p)
    BY DEF Typed
  <2>1. PICK prog \in Programs :
          proc = [q \in Procs |-> [call |-> Idle, todo |-> prog[q],
                                   ofile |-> [d \in Fds |-> IF d = 0 THEN 1 ELSE 0]]]
    BY DEF Init, Fds
  <2>2. Call(p) = Idle /\ \A d \in Fds : proc[p].ofile[d] \in {0, 1}
    BY <2>1 DEF Call
  <2>3. file[1].type = "INODE"
    BY FilesAssumption DEF Init, FreeFile
  <2> QED
    BY <2>2, <2>3 DEF TypedAt, Idle
<1>2. RefsIInv /\ Typed /\ [Next]_vars => Typed'
  <2> SUFFICES ASSUME RefsIInv, Typed, [Next]_vars PROVE Typed'
    OBVIOUS
  <2>1. CASE UNCHANGED vars
    BY <2>1 DEF vars, Typed, TypedAt, Call
  <2>2. CASE Next
    BY <2>2, ReadWriteTyped, OpenTyped, PipeTyped DEF Next
  <2> QED
    BY <2>1, <2>2
<1>3. Spec => []RefsIInv
  BY InitRefs, NextRefs, PTL DEF Spec
<1> QED
  BY <1>1, <1>2, <1>3, PTL DEF Spec

-----------------------------------------------------------------------------
(* Part 2: the blocks.  Every marked block has a home in one place of one file *)

Cells == 0..(BSIZE - 1)
Slots == 0..NDIRECT_EX

\* How many levels of blocks are below slot k of ip->addrs.
Level(k) == IF k = NDIRECT_EX THEN 2 ELSE IF k = NDIRECT THEN 1 ELSE 0

\* Every marked block x has a home h[x]: the inode, the index block above it or 0, the place
\* in there, and the levels below it.  a are the block numbers in the inodes, m the contents
\* of the blocks, and U the marked blocks.
Homes(U, h) == \A x \in U : h[x].own \in Inodes /\ h[x].lev \in 0..2

\* What an inode refers to is at home there, ...
TopsHome(a, U, h) == \A i \in Inodes, k \in Slots : a[i][k] # 0 =>
  /\ a[i][k] \in U /\ h[a[i][k]].own = i /\ h[a[i][k]].up = 0 /\ h[a[i][k]].pos = k
  /\ h[a[i][k]].lev = Level(k)

\* ... what an index block refers to is at home there, ...
WordsHome(m, U, h) == \A b \in U, k \in Cells : h[b].lev # 0 /\ m[b][k] # 0 =>
  /\ m[b][k] \in U /\ h[m[b][k]].own = h[b].own /\ h[m[b][k]].up = b /\ h[m[b][k]].pos = k
  /\ h[m[b][k]].lev = h[b].lev - 1

\* ... and every marked block is where it is at home.
Found(a, m, U, h) == \A x \in U :
  \/ h[x].up = 0 /\ h[x].pos \in Slots /\ a[h[x].own][h[x].pos] = x
  \/ /\ h[x].up \in U /\ h[h[x].up].lev # 0
     /\ h[x].pos \in Cells /\ m[h[x].up][h[x].pos] = x

Placed(a, m, U, h) ==
  /\ U \subseteq Blocks /\ Homes(U, h)
  /\ TopsHome(a, U, h) /\ WordsHome(m, U, h) /\ Found(a, m, U, h)

\* The numbers of slots and of blocks.
LEMMA Numbers ==
  /\ NDIRECT \in Slots /\ NDIRECT_EX \in Slots /\ NDIRECT # NDIRECT_EX
  /\ 0 \notin Blocks /\ Cells = DOMAIN Zero /\ \A k \in Cells : Zero[k] = 0
  /\ NDIRECT \in Nat /\ NINDIRECT \in Nat /\ NINDIRECT > 0 /\ BSIZE = NINDIRECT
  /\ Blocks \subseteq Nat
<1> QED
  BY FilesAssumption DEF Slots, Cells, NDIRECT_EX, Blocks, Zero, BSIZE

\* A new block n: it is in slot k of inode i, or in word k of block c; it is cleared; and it
\* has a home, the others keep theirs.
PutTop(a, i, k, n, a2) ==
  \A j \in Inodes, l \in Slots : a2[j][l] = IF j = i /\ l = k THEN n ELSE a[j][l]
Cleared(m, n, m2) ==
  \A b \in Blocks, l \in Cells : m2[b][l] = IF b = n THEN 0 ELSE m[b][l]
PutWord(m, c, k, n, m2) == \A b \in Blocks, l \in Cells :
  m2[b][l] = IF b = c /\ l = k THEN n ELSE IF b = n THEN 0 ELSE m[b][l]
NewHome(U, h, n, g, own, up, pos, lev) ==
  /\ \A x \in U : g[x] = h[x]
  /\ g[n].own = own /\ g[n].up = up /\ g[n].pos = pos /\ g[n].lev = lev

\* A new block in a free slot of ip->addrs.
LEMMA AttachTop ==
  ASSUME NEW a, NEW m, NEW U, NEW h, Placed(a, m, U, h), NEW i \in Inodes, NEW k \in Slots,
         a[i][k] = 0, NEW n \in Blocks, n \notin U, NEW a2, NEW m2, NEW h2,
         PutTop(a, i, k, n, a2), Cleared(m, n, m2), NewHome(U, h, n, h2, i, 0, k, Level(k))
  PROVE  Placed(a2, m2, U \cup {n}, h2)
<1> USE DEF PutTop, Cleared, NewHome
<1>0. /\ U \subseteq Blocks /\ Homes(U, h) /\ 0 \notin Blocks
      /\ TopsHome(a, U, h) /\ WordsHome(m, U, h) /\ Found(a, m, U, h)
  BY Numbers DEF Placed
<1>1. Homes(U \cup {n}, h2)
  BY <1>0 DEF Homes, Level
<1>2. TopsHome(a2, U \cup {n}, h2)
  BY <1>0 DEF TopsHome
<1>3. WordsHome(m2, U \cup {n}, h2)
  BY <1>0 DEF WordsHome
<1>4. Found(a2, m2, U \cup {n}, h2)
  <2>1. ASSUME NEW x \in U, h[x].up = 0, h[x].pos \in Slots, a[h[x].own][h[x].pos] = x
        PROVE  a2[h[x].own][h[x].pos] = x
    BY <1>0, <2>1 DEF Homes
  <2>2. ASSUME NEW x \in U, h[x].up \in U, h[x].pos \in Cells, m[h[x].up][h[x].pos] = x
        PROVE  m2[h[x].up][h[x].pos] = x
    BY <1>0, <2>2
  <2> QED
    BY <1>0, <2>1, <2>2 DEF Found
<1> QED
  BY <1>0, <1>1, <1>2, <1>3, <1>4 DEF Placed

\* A new block in a free word of an index block.
LEMMA AttachWord ==
  ASSUME NEW a, NEW m, NEW U, NEW h, Placed(a, m, U, h), NEW c \in U, h[c].lev # 0,
         NEW k \in Cells, m[c][k] = 0, NEW n \in Blocks, n \notin U, NEW m2, NEW h2,
         PutWord(m, c, k, n, m2), NewHome(U, h, n, h2, h[c].own, c, k, h[c].lev - 1)
  PROVE  Placed(a, m2, U \cup {n}, h2)
<1> USE DEF PutWord, NewHome
<1>0. /\ U \subseteq Blocks /\ Homes(U, h) /\ 0 \notin Blocks
      /\ TopsHome(a, U, h) /\ WordsHome(m, U, h) /\ Found(a, m, U, h)
  BY Numbers DEF Placed
<1>1. Homes(U \cup {n}, h2)
  <2>1. h2[n].own \in Inodes /\ h2[n].lev \in 0..2
    BY <1>0 DEF Homes
  <2> QED
    BY <1>0, <2>1 DEF Homes
<1>2. TopsHome(a, U \cup {n}, h2)
  BY <1>0 DEF TopsHome
<1>3. WordsHome(m2, U \cup {n}, h2)
  BY <1>0 DEF WordsHome
<1>4. Found(a, m2, U \cup {n}, h2)
  <2>2. ASSUME NEW x \in U, h[x].up \in U, h[x].pos \in Cells, m[h[x].up][h[x].pos] = x
        PROVE  m2[h[x].up][h[x].pos] = x
    BY <1>0, <2>2
  <2> QED
    BY <1>0, <2>2 DEF Found
<1> QED
  BY <1>0, <1>1, <1>2, <1>3, <1>4 DEF Placed

\* A write to a block of data.
LEMMA WriteLeaf ==
  ASSUME NEW a, NEW m, NEW U, NEW h, Placed(a, m, U, h), NEW x \in U, h[x].lev = 0, NEW m2,
         \A b \in Blocks : b # x => m2[b] = m[b]
  PROVE  Placed(a, m2, U, h)
<1>0. /\ U \subseteq Blocks /\ Homes(U, h)
      /\ TopsHome(a, U, h) /\ WordsHome(m, U, h) /\ Found(a, m, U, h)
  BY DEF Placed
<1>1. WordsHome(m2, U, h)
  BY <1>0 DEF WordsHome
<1>2. Found(a, m2, U, h)
  BY <1>0 DEF Found
<1> QED
  BY <1>0, <1>1, <1>2 DEF Placed

\* An inode without its blocks.
LEMMA Detach ==
  ASSUME NEW a, NEW m, NEW U, NEW h, Placed(a, m, U, h), NEW i \in Inodes, NEW a2, NEW V,
         \A j \in Inodes, l \in Slots : a2[j][l] = IF j = i THEN 0 ELSE a[j][l],
         V = {x \in U : h[x].own # i}
  PROVE  Placed(a2, m, V, h)
<1>0. /\ U \subseteq Blocks /\ Homes(U, h)
      /\ TopsHome(a, U, h) /\ WordsHome(m, U, h) /\ Found(a, m, U, h)
  BY DEF Placed
<1>1. Homes(V, h)
  BY <1>0 DEF Homes
<1>2. TopsHome(a2, V, h)
  BY <1>0 DEF TopsHome
<1>3. WordsHome(m, V, h)
  BY <1>0 DEF WordsHome
<1>4. Found(a2, m, V, h)
  <2>1. ASSUME NEW x \in V, h[x].up = 0, h[x].pos \in Slots, a[h[x].own][h[x].pos] = x
        PROVE  a2[h[x].own][h[x].pos] = x
    BY <1>0, <2>1 DEF Homes
  <2>2. ASSUME NEW x \in V, h[x].up \in U, h[h[x].up].lev # 0, h[x].pos \in Cells,
               m[h[x].up][h[x].pos] = x
        PROVE  h[x].up \in V
    <3>1. x # 0
      BY <1>0, Numbers
    <3> QED
    BY <1>0, <2>2, <3>1 DEF WordsHome
  <2> QED
    BY <1>0, <2>1, <2>2 DEF Found
<1> QED
  BY <1>0, <1>1, <1>2, <1>3, <1>4 DEF Placed

-----------------------------------------------------------------------------
(* balloc() and one step of bmap() *)

\* The block numbers of the inodes, with x for those of inode i.
With(i, x) == [j \in Inodes |-> IF j = i THEN x ELSE ino[j].addrs]

\* A lookup of inode i that has the homes h.
IsLook(s) ==
  /\ DOMAIN s = {"blk", "used", "addrs", "addr", "log", "panic"}
  /\ s.blk \in [Blocks -> [Cells -> Nat]] /\ s.addrs \in [Slots -> Nat]
Sound(s, i, h) == IsLook(s) /\ s.panic = "" /\ Placed(With(i, s.addrs), s.blk, s.used, h)

\* It has found a block with lev levels below, or the disk is full.
Reached(s, i, h, lev) ==
  /\ Sound(s, i, h) /\ s.addr # 0 /\ s.addr \in s.used /\ h[s.addr].lev = lev
DiskFull(s) == "panic" \in DOMAIN s /\ s.panic = "balloc: out of blocks"

\* The level below.
Below(lev) == IF lev = 2 THEN 1 ELSE 0

\* A lookup keeps what is there: block numbers, data and homes.
Kept(s, h, t, g) ==
  /\ s.used \subseteq t.used /\ s.log \subseteq t.log
  /\ \A k \in Slots : s.addrs[k] # 0 => t.addrs[k] = s.addrs[k]
  /\ \A b \in s.used : /\ g[b] = h[b]
                       /\ h[b].lev = 0 => t.blk[b] = s.blk[b]
                       /\ \A k \in Cells : s.blk[b][k] # 0 => t.blk[b][k] = s.blk[b][k]

\* z is m with block n cleared.
Clears(m, n, z) ==
  /\ z \in [Blocks -> [Cells -> Nat]]
  /\ \A b \in Blocks : b # n => z[b] = m[b]
  /\ \A l \in Cells : z[n][l] = 0

\* bzero().
LEMMA Bzero ==
  ASSUME NEW m \in [Blocks -> [Cells -> Nat]], NEW n \in Blocks
  PROVE  Clears(m, n, [m EXCEPT ![n] = Zero])
<1>1. Zero \in [Cells -> Nat] /\ \A l \in Cells : Zero[l] = 0
  BY DEF Zero, Cells
<1> QED
  BY <1>1 DEF Clears

\* balloc() marks a block that was not marked and clears it.
LEMMA BallocIs ==
  ASSUME NEW s, IsLook(s), NEW t, t = Balloc(s), s.used \subseteq Blocks
  PROVE  \/ DiskFull(t)
         \/ /\ t.addr \in Blocks /\ t.addr \notin s.used /\ DOMAIN t = DOMAIN s
            /\ t.used = s.used \cup {t.addr} /\ t.addrs = s.addrs /\ t.panic = s.panic
            /\ s.log \subseteq t.log /\ Clears(s.blk, t.addr, t.blk)
<1>1. CASE Blocks \ s.used = {}
  BY <1>1 DEF Balloc, IsLook, DiskFull
<1>2. CASE Blocks \ s.used # {}
  <2>1. Blocks \ s.used \in SUBSET Nat
    BY DEF Blocks
  <2>2. PICK b \in Blocks \ s.used : b = Min(Blocks \ s.used)
    BY <1>2, <2>1, MinIn
  <2>3. t = [s EXCEPT !.addr = b, !.used = @ \cup {b}, !.blk[b] = Zero,
                      !.log = @ \cup {Bitmap(b), Data(b)}]
    BY <1>2, <2>2 DEF Balloc
  <2>4. /\ t.addr = b /\ DOMAIN t = DOMAIN s /\ t.used = s.used \cup {b} /\ t.addrs = s.addrs
        /\ t.panic = s.panic /\ s.log \subseteq t.log
    BY <2>3 DEF IsLook
  <2>5. t.blk = [s.blk EXCEPT ![b] = Zero] /\ b \in Blocks
    BY <2>2, <2>3 DEF IsLook
  <2>6. s.blk \in [Blocks -> [Cells -> Nat]]
    BY DEF IsLook
  <2>7. Clears(s.blk, b, t.blk)
    BY <2>5, <2>6, Bzero
  <2> QED
    BY <2>2, <2>4, <2>7
<1> QED
  BY <1>1, <1>2

\* The blocks that a lookup has found in ip->addrs and in an index block.
LEMMA TopAt ==
  ASSUME NEW s, NEW i \in Inodes, NEW h, Sound(s, i, h), NEW k \in Slots, s.addrs[k] # 0
  PROVE  s.addrs[k] \in s.used /\ h[s.addrs[k]].own = i /\ h[s.addrs[k]].lev = Level(k)
<1>1. TopsHome(With(i, s.addrs), s.used, h) /\ With(i, s.addrs)[i] = s.addrs
  BY DEF Sound, Placed, With
<1>2. With(i, s.addrs)[i][k] # 0 /\ With(i, s.addrs)[i][k] = s.addrs[k]
  BY <1>1
<1> QED
  BY <1>1, <1>2 DEF TopsHome

\* A word of an index block is the number of a block of the same inode, one level below.
LEMMA WordAt ==
  ASSUME NEW s, NEW i \in Inodes, NEW h, Sound(s, i, h), NEW c \in s.used, h[c].lev # 0,
         NEW k \in Cells, s.blk[c][k] # 0
  PROVE  /\ s.blk[c][k] \in s.used /\ h[s.blk[c][k]].own = h[c].own
         /\ h[s.blk[c][k]].lev = h[c].lev - 1
  BY DEF Sound, Placed, WordsHome

\* The first level of bmap().
LEMMA TopKeeps ==
  ASSUME NEW s, NEW i \in Inodes, NEW h, Sound(s, i, h), NEW k \in Slots,
         NEW t, t = Top(s, k)
  PROVE  \/ DiskFull(t)
         \/ /\ t.addr = t.addrs[k]
            /\ \E g : Reached(t, i, g, Level(k)) /\ Kept(s, h, t, g)
<1>0. /\ IsLook(s) /\ Placed(With(i, s.addrs), s.blk, s.used, h) /\ s.used \subseteq Blocks
      /\ s.addrs[k] \in Nat /\ s.addrs \in [Slots -> Nat]
  BY DEF Sound, Placed, IsLook
<1>1. CASE s.addrs[k] # 0
  <2>1. t = [s EXCEPT !.addr = s.addrs[k]]
    BY <1>1 DEF Top
  <2>2. /\ DOMAIN t = DOMAIN s /\ t.addr = s.addrs[k] /\ t.blk = s.blk /\ t.used = s.used
        /\ t.addrs = s.addrs /\ t.panic = s.panic /\ t.log = s.log
    BY <1>0, <2>1 DEF IsLook
  <2>3. Sound(t, i, h) /\ Kept(s, h, t, h)
    BY <1>0, <2>2 DEF Sound, IsLook, Kept
  <2>4. Reached(t, i, h, Level(k))
    <3>0. s.addrs[k] \in s.used /\ h[s.addrs[k]].lev = Level(k)
      BY <1>1, TopAt
    <3>1. t.addrs[k] \in t.used /\ h[t.addrs[k]].lev = Level(k)
      BY <2>2, <3>0
    <3> QED
      BY <1>1, <2>2, <2>3, <3>1 DEF Reached
  <2> QED
    BY <2>2, <2>3, <2>4
<1>2. CASE s.addrs[k] = 0
  <2> DEFINE u == Balloc(s)
  <2>1. t = [u EXCEPT !.addrs[k] = u.addr]
    BY <1>2 DEF Top
  <2>2. \/ DiskFull(u)
        \/ /\ u.addr \in Blocks /\ u.addr \notin s.used /\ DOMAIN u = DOMAIN s
           /\ u.used = s.used \cup {u.addr} /\ u.addrs = s.addrs /\ u.panic = s.panic
           /\ s.log \subseteq u.log /\ Clears(s.blk, u.addr, u.blk)
    BY <1>0, BallocIs
  <2>3. "panic" \in DOMAIN u /\ "addr" \in DOMAIN u
    BY <1>0 DEF Balloc, IsLook
  <2> HIDE DEF u
  <2>4. t.panic = u.panic /\ t.addr = u.addr
    BY <2>1, <2>3
  <2>5. CASE DiskFull(u)
    BY <2>1, <2>3, <2>4, <2>5 DEF DiskFull
  <2>6. CASE /\ u.addr \in Blocks /\ u.addr \notin s.used /\ DOMAIN u = DOMAIN s
             /\ u.used = s.used \cup {u.addr} /\ u.addrs = s.addrs /\ u.panic = s.panic
             /\ s.log \subseteq u.log /\ Clears(s.blk, u.addr, u.blk)
    <3>1. PICK n \in Blocks : n = u.addr /\ n # 0 /\ n \notin s.used
      BY <2>6, Numbers
    <3>2. /\ DOMAIN t = DOMAIN s /\ t.addr = n /\ t.used = s.used \cup {n} /\ s.log \subseteq t.log
          /\ t.panic = ""
      BY <1>0, <2>1, <2>4, <2>6, <3>1 DEF IsLook, Sound
    <3>a. t.addrs = [s.addrs EXCEPT ![k] = u.addr]
      BY <1>0, <2>1, <2>6 DEF IsLook
    <3>b. t.blk = u.blk
      BY <1>0, <2>1, <2>6 DEF IsLook
    <3>c. n \in Nat
      BY <3>1, Numbers
    <3>d. n \in Blocks /\ n \notin s.used
      BY <3>1
    <3>3. /\ t.blk \in [Blocks -> [Cells -> Nat]]
          /\ \A b \in Blocks, l \in Cells : t.blk[b][l] = IF b = n THEN 0 ELSE s.blk[b][l]
          /\ \A b \in Blocks : b # n => t.blk[b] = s.blk[b]
      BY <2>6, <3>1, <3>b DEF Clears
    <3>4. t.addrs \in [Slots -> Nat] /\ t.addrs[k] = n
          /\ \A l \in Slots : l # k => t.addrs[l] = s.addrs[l]
      BY <1>0, <3>1, <3>a, <3>c
    <3>5. IsLook(t)
      BY <1>0, <3>2, <3>3, <3>4 DEF IsLook
    <3> DEFINE g == [x \in s.used \cup {n} |-> IF x = n
                       THEN [own |-> i, up |-> 0, pos |-> k, lev |-> Level(k)] ELSE h[x]]
    <3>6. NewHome(s.used, h, n, g, i, 0, k, Level(k))
      BY <3>d DEF NewHome
    <3> HIDE DEF g
    <3>7. With(i, s.addrs)[i][k] = 0
      BY <1>2 DEF With
    <3>8. PutTop(With(i, s.addrs), i, k, n, With(i, t.addrs)) /\ Cleared(s.blk, n, t.blk)
      BY <3>3, <3>4 DEF With, PutTop, Cleared
    <3>9. Placed(With(i, t.addrs), t.blk, s.used \cup {n}, g)
      BY <1>0, <3>6, <3>7, <3>8, <3>d, AttachTop
    <3>10. Sound(t, i, g)
      BY <3>2, <3>5, <3>9 DEF Sound
    <3>11. Kept(s, h, t, g)
      <4>1. \A b \in s.used : t.blk[b] = s.blk[b]
        BY <1>0, <3>1, <3>3
      <4> QED
        BY <1>2, <3>2, <3>4, <3>6, <4>1 DEF Kept, NewHome
    <3>12. Reached(t, i, g, Level(k))
      BY <3>1, <3>2, <3>6, <3>10 DEF Reached, NewHome
    <3> QED
      BY <3>2, <3>4, <3>11, <3>12
  <2> QED
    BY <2>2, <2>5, <2>6
<1> QED
  BY <1>1, <1>2

\* The next level of bmap().
LEMMA SubKeeps ==
  ASSUME NEW s, NEW i \in Inodes, NEW h, NEW lev \in {1, 2}, Reached(s, i, h, lev),
         NEW k \in Cells, NEW t, t = Sub(s, k)
  PROVE  \/ DiskFull(t)
         \/ /\ t.addr = t.blk[s.addr][k] /\ t.addrs = s.addrs
            /\ \E g : Reached(t, i, g, Below(lev)) /\ Kept(s, h, t, g)
<1>c. PICK c \in s.used : c = s.addr
  BY DEF Reached
<1>d. Sound(s, i, h) /\ h[c].lev = lev
  BY <1>c DEF Reached
<1>f. lev # 0 /\ lev - 1 = Below(lev)
  BY DEF Below
<1>e. h[c].lev # 0 /\ h[c].lev - 1 = Below(lev)
  BY <1>d, <1>f
<1>g. h[c].lev # 0
  BY <1>e
<1>h. Sound(s, i, h)
  BY <1>d
<1>0. /\ IsLook(s) /\ Placed(With(i, s.addrs), s.blk, s.used, h) /\ s.used \subseteq Blocks
      /\ c \in Blocks /\ c # 0 /\ s.blk[c][k] \in Nat
  BY <1>c, <1>d, Numbers DEF Sound, Placed, IsLook
<1>1. CASE s.blk[c][k] # 0
  <2>1. t = [s EXCEPT !.addr = s.blk[c][k]]
    BY <1>0, <1>1, <1>c, <1>d DEF Sub, Sound
  <2>2. /\ DOMAIN t = DOMAIN s /\ t.addr = s.blk[c][k] /\ t.blk = s.blk /\ t.used = s.used
        /\ t.addrs = s.addrs /\ t.panic = s.panic /\ t.log = s.log
    BY <1>0, <2>1 DEF IsLook
  <2>3. Sound(t, i, h) /\ Kept(s, h, t, h)
    BY <1>0, <1>d, <2>2 DEF Sound, IsLook, Kept
  <2> QED
    <3>a. c \in s.used
      BY <1>c
    <3>0. s.blk[c][k] \in s.used /\ h[s.blk[c][k]].lev = h[c].lev - 1
      BY <1>1, <1>g, <1>h, <3>a, WordAt
    <3>1. t.blk[c][k] \in t.used /\ h[t.blk[c][k]].lev = Below(lev)
      BY <1>e, <2>2, <3>0
    <3>2. Reached(t, i, h, Below(lev))
      BY <1>1, <1>d, <2>2, <2>3, <3>1 DEF Reached
    <3> QED
      BY <1>c, <2>2, <2>3, <3>2
<1>2. CASE s.blk[c][k] = 0
  <2> DEFINE u == Balloc(s)
  <2>1. t = [u EXCEPT !.blk[c][k] = u.addr, !.log = @ \cup {Data(c)}]
    BY <1>0, <1>2, <1>c, <1>d DEF Sub, Sound
  <2>2. \/ DiskFull(u)
        \/ /\ u.addr \in Blocks /\ u.addr \notin s.used /\ DOMAIN u = DOMAIN s
           /\ u.used = s.used \cup {u.addr} /\ u.addrs = s.addrs /\ u.panic = s.panic
           /\ s.log \subseteq u.log /\ Clears(s.blk, u.addr, u.blk)
    BY <1>0, BallocIs
  <2>3. "panic" \in DOMAIN u /\ "addr" \in DOMAIN u
    BY <1>0 DEF Balloc, IsLook
  <2> HIDE DEF u
  <2>4. t.panic = u.panic /\ t.addr = u.addr
    BY <2>1, <2>3
  <2>5. CASE DiskFull(u)
    BY <2>1, <2>3, <2>4, <2>5 DEF DiskFull
  <2>6. CASE /\ u.addr \in Blocks /\ u.addr \notin s.used /\ DOMAIN u = DOMAIN s
             /\ u.used = s.used \cup {u.addr} /\ u.addrs = s.addrs /\ u.panic = s.panic
             /\ s.log \subseteq u.log /\ Clears(s.blk, u.addr, u.blk)
    <3>1. PICK n \in Blocks : n = u.addr /\ n # 0 /\ n \notin s.used /\ n # c
      BY <1>c, <2>6, Numbers
    <3>a. DOMAIN u = {"blk", "used", "addrs", "addr", "log", "panic"}
      BY <1>0, <2>6 DEF IsLook
    <3>b. /\ DOMAIN t = DOMAIN u /\ t.used = u.used /\ u.log \subseteq t.log
          /\ t.addrs = u.addrs
      BY <2>1, <3>a
    <3>2. /\ DOMAIN t = DOMAIN s /\ t.addr = n /\ t.used = s.used \cup {n} /\ s.log \subseteq t.log
          /\ t.panic = "" /\ t.addrs = s.addrs
      BY <1>d, <2>4, <2>6, <3>1, <3>b DEF Sound
    <3>c. n \in Nat
      BY <3>1, Numbers
    <3>d. n \in Blocks /\ n \notin s.used
      BY <3>1
    <3>3. /\ t.blk \in [Blocks -> [Cells -> Nat]]
          /\ \A b \in Blocks, l \in Cells : t.blk[b][l] = IF b = c /\ l = k THEN n ELSE u.blk[b][l]
          /\ \A b \in Blocks : b # c => t.blk[b] = u.blk[b]
      <4>1. t.blk = [u.blk EXCEPT ![c] = [u.blk[c] EXCEPT ![k] = u.addr]]
        BY <2>1, <3>a
      <4>2. u.blk \in [Blocks -> [Cells -> Nat]] /\ u.blk[c] \in [Cells -> Nat] /\ u.addr \in Nat
        BY <1>0, <2>6, <3>1, <3>c DEF Clears
      <4>3. PICK w : w = [u.blk[c] EXCEPT ![k] = u.addr]
        OBVIOUS
      <4>4. w \in [Cells -> Nat] /\ \A l \in Cells : w[l] = IF l = k THEN u.addr ELSE u.blk[c][l]
        BY <4>2, <4>3
      <4>5. t.blk = [u.blk EXCEPT ![c] = w]
        BY <4>1, <4>3
      <4> QED
        <5>1. \A b \in Blocks : t.blk[b] = IF b = c THEN w ELSE u.blk[b]
          BY <4>2, <4>5
        <5>2. t.blk \in [Blocks -> [Cells -> Nat]]
          BY <4>2, <4>4, <4>5
        <5> QED
          BY <3>1, <4>4, <5>1, <5>2
    <3>5. IsLook(t)
      BY <1>0, <3>2, <3>3 DEF IsLook
    <3> DEFINE g == [x \in s.used \cup {n} |-> IF x = n
                THEN [own |-> h[c].own, up |-> c, pos |-> k, lev |-> h[c].lev - 1] ELSE h[x]]
    <3>6. NewHome(s.used, h, n, g, h[c].own, c, k, h[c].lev - 1)
      BY <3>d DEF NewHome
    <3> HIDE DEF g
    <3>7. \A b \in Blocks, l \in Cells :
            t.blk[b][l] = IF b = c /\ l = k THEN n ELSE IF b = n THEN 0 ELSE s.blk[b][l]
      <4>1. \A b \in Blocks, l \in Cells : u.blk[b][l] = IF b = n THEN 0 ELSE s.blk[b][l]
        BY <2>6, <3>1 DEF Clears
      <4>2. ASSUME NEW b \in Blocks, NEW l \in Cells
            PROVE  t.blk[b][l] = IF b = c /\ l = k THEN n ELSE IF b = n THEN 0 ELSE s.blk[b][l]
        <5>1. u.blk[b][l] = IF b = n THEN 0 ELSE s.blk[b][l]
          BY <4>1
        <5>2. t.blk[b][l] = IF b = c /\ l = k THEN n ELSE u.blk[b][l]
          BY <3>3
        <5> QED
          BY <5>1, <5>2
      <4> QED
        BY <4>2
    <3>8. PutWord(s.blk, c, k, n, t.blk)
      BY <3>7 DEF PutWord
    <3>9. Placed(With(i, s.addrs), t.blk, s.used \cup {n}, g)
      BY <1>0, <1>2, <1>c, <1>e, <3>6, <3>8, <3>d, AttachWord
    <3>10. Sound(t, i, g)
      BY <3>2, <3>5, <3>9 DEF Sound
    <3>11. Kept(s, h, t, g)
      <4>1. \A b \in s.used : b # c => t.blk[b] = s.blk[b]
        BY <1>0, <2>6, <3>1, <3>3 DEF Clears
      <4>2. \A l \in Cells : s.blk[c][l] # 0 => t.blk[c][l] = s.blk[c][l]
        BY <1>0, <1>2, <3>1, <3>7
      <4>3. s.used \subseteq t.used /\ s.log \subseteq t.log /\ t.addrs = s.addrs
        BY <3>2
      <4>4. \A b \in s.used : g[b] = h[b]
        BY <3>6 DEF NewHome
      <4>5. \A b \in s.used : h[b].lev = 0 => t.blk[b] = s.blk[b]
        BY <1>g, <4>1
      <4>6. \A b \in s.used : \A l \in Cells : s.blk[b][l] # 0 => t.blk[b][l] = s.blk[b][l]
        BY <4>1, <4>2
      <4> QED
        BY <4>3, <4>4, <4>5, <4>6 DEF Kept
    <3>12. Reached(t, i, g, Below(lev))
      BY <1>d, <1>e, <3>1, <3>2, <3>6, <3>10 DEF Reached, NewHome
    <3>13. t.addr = t.blk[c][k]
      BY <1>0, <3>2, <3>3
    <3> QED
      BY <1>c, <3>2, <3>11, <3>12, <3>13
  <2> QED
    BY <2>2, <2>5, <2>6
<1> QED
  BY <1>1, <1>2

-----------------------------------------------------------------------------
(* bmap() *)

\* Keeping what is there is transitive.
LEMMA KeptTwice ==
  ASSUME NEW s, NEW h, NEW t, NEW g, NEW u, NEW f, Kept(s, h, t, g), Kept(t, g, u, f)
  PROVE  Kept(s, h, u, f)
<1>1. s.used \subseteq u.used /\ s.log \subseteq u.log
  BY DEF Kept
<1>2. \A k \in Slots : s.addrs[k] # 0 => u.addrs[k] = s.addrs[k]
  BY DEF Kept
<1>3. ASSUME NEW b \in s.used
      PROVE  /\ f[b] = h[b] /\ (h[b].lev = 0 => u.blk[b] = s.blk[b])
             /\ \A k \in Cells : s.blk[b][k] # 0 => u.blk[b][k] = s.blk[b][k]
  <2>1. b \in t.used /\ g[b] = h[b] /\ f[b] = g[b]
    BY DEF Kept
  <2> QED
    BY <2>1 DEF Kept
<1> QED
  BY <1>1, <1>2, <1>3 DEF Kept

\* The block that a file has for its block number bn, or 0.
BlockIn(m, b, k) == IF b = 0 THEN 0 ELSE m[b][k]
BlockAt(ad, m, bn) ==
  LET bn1 == bn - NDIRECT
      bn2 == bn1 - NINDIRECT IN
  IF bn < NDIRECT THEN ad[bn]
  ELSE IF bn1 < NINDIRECT THEN BlockIn(m, ad[NDIRECT], bn1)
  ELSE BlockIn(m, BlockIn(m, ad[NDIRECT_EX], bn2 \div NINDIRECT), bn2 % NINDIRECT)

\* Quotient and remainder.
LEMMA DivMod ==
  ASSUME NEW b \in Nat \ {0}, NEW a \in Nat
  PROVE  a % b \in 0..(b - 1) /\ a \div b \in Int /\ a = b * (a \div b) + (a % b)
  OBVIOUS

\* A number in terms of its quotient.
LEMMA DivBounds ==
  ASSUME NEW b \in Nat \ {0}, NEW c \in Nat, NEW q \in Int, NEW r \in 0..(b - 1)
  PROVE  (b * q + r >= 0 => q >= 0) /\ (b * q + r < b * c => q < c)
         /\ (q < c => b * q + r < b * c)
  OBVIOUS

\* Quotient and remainder of a number by the size of a block.
LEMMA Quotient ==
  ASSUME NEW b \in Nat \ {0}, NEW a \in Nat
  PROVE  /\ a \div b \in Nat /\ a % b \in 0..(b - 1) /\ a = b * (a \div b) + (a % b)
         /\ \A c \in Nat : a < b * c <=> a \div b < c
<1> DEFINE q == a \div b
           r == a % b
<1>1. r \in 0..(b - 1) /\ q \in Int /\ a = b * q + r
  BY DivMod
<1> HIDE DEF q, r
<1>2. q >= 0 /\ \A c \in Nat : a < b * c <=> q < c
  BY <1>1, DivBounds
<1> QED
  BY <1>1, <1>2 DEF q, r

\* Once balloc() has stopped the kernel, bmap() does not go on.
LEMMA PanicStays ==
  ASSUME NEW s, NEW k, DiskFull(s)
  PROVE  DiskFull(Sub(s, k))
  BY DEF Sub, DiskFull

\* The three kinds of block numbers.
LEMMA Kinds ==
  /\ NDIRECT \in Slots /\ NDIRECT_EX \in Slots /\ Level(NDIRECT) = 1 /\ Level(NDIRECT_EX) = 2
  /\ Below(2) = 1 /\ Below(1) = 0 /\ MAXFILE \in Nat
  /\ \A bn \in Nat : /\ bn < NDIRECT => Level(bn) = 0
                     /\ bn >= NDIRECT => ~ (bn < NDIRECT)
                     /\ bn - NDIRECT >= NINDIRECT => ~ (bn - NDIRECT < NINDIRECT)
                     /\ bn < MAXFILE => ~ (bn >= MAXFILE)
<1>0. NDIRECT \in Nat /\ NINDIRECT \in Nat
  BY FilesAssumption
<1>1. NINDIRECT * NINDIRECT \in Nat
  BY <1>0
<1>2. MAXFILE \in Nat
  BY <1>0, <1>1 DEF MAXFILE
<1>3. Level(NDIRECT) = 1 /\ Level(NDIRECT_EX) = 2
  BY <1>0 DEF Level, NDIRECT_EX
<1>4. ASSUME NEW bn \in Nat
      PROVE  /\ bn < NDIRECT => Level(bn) = 0
             /\ bn >= NDIRECT => ~ (bn < NDIRECT)
             /\ bn - NDIRECT >= NINDIRECT => ~ (bn - NDIRECT < NINDIRECT)
             /\ bn < MAXFILE => ~ (bn >= MAXFILE)
  BY <1>0, <1>2 DEF Level, NDIRECT_EX
<1> QED
  BY <1>2, <1>3, <1>4, Numbers DEF Below

\* Where bmap() looks: the three kinds of block.
LEMMA BmapIs ==
  ASSUME NEW s, NEW bn \in Nat
  PROVE  \/ bn < NDIRECT /\ bn \in Slots /\ Bmap(s, bn) = Top(s, bn)
         \/ \E k \in Cells : /\ bn >= NDIRECT /\ k = bn - NDIRECT /\ bn - NDIRECT < NINDIRECT
                             /\ Bmap(s, bn) = Sub(Top(s, NDIRECT), k)
         \/ \E k, l \in Cells :
              LET bn2 == bn - NDIRECT - NINDIRECT IN
              /\ bn >= NDIRECT /\ bn - NDIRECT >= NINDIRECT
              /\ k = bn2 \div NINDIRECT /\ l = bn2 % NINDIRECT
              /\ Bmap(s, bn) = Sub(Sub(Top(s, NDIRECT_EX), k), l)
         \/ bn >= MAXFILE
<1>0. NDIRECT \in Nat /\ NINDIRECT \in Nat \ {0} /\ NINDIRECT * NINDIRECT \in Nat
  BY FilesAssumption
<1>1. CASE bn < NDIRECT
  <2>1. bn \in Slots
    BY <1>0, <1>1 DEF Slots, NDIRECT_EX
  <2>0. ~ (bn - NDIRECT >= NINDIRECT) /\ ~ (bn >= NDIRECT)
    BY <1>0, <1>1
  <2>2. Bmap(s, bn) = Top(s, bn)
    BY <1>1, <2>0 DEF Bmap
  <2> QED
    BY <1>1, <2>1, <2>2
<1>2. CASE bn >= NDIRECT /\ bn - NDIRECT < NINDIRECT
  <2>1. bn - NDIRECT \in Cells
    BY <1>0, <1>2 DEF Cells, BSIZE
  <2>0. ~ (bn - NDIRECT >= NINDIRECT) /\ ~ (bn < NDIRECT)
    BY <1>0, <1>2
  <2>2. Bmap(s, bn) = Sub(Top(s, NDIRECT), bn - NDIRECT)
    BY <1>2, <2>0 DEF Bmap
  <2> QED
    BY <1>2, <2>1, <2>2
<1>3. CASE bn - NDIRECT >= NINDIRECT /\ bn - NDIRECT - NINDIRECT < NINDIRECT * NINDIRECT
  <2> DEFINE x == bn - NDIRECT - NINDIRECT
  <2>1. x \in Nat /\ x < NINDIRECT * NINDIRECT
    BY <1>0, <1>3
  <2>2. Bmap(s, bn) = Sub(Sub(Top(s, NDIRECT_EX), x \div NINDIRECT), x % NINDIRECT)
    BY <1>0, <1>3 DEF Bmap
  <2> HIDE DEF x
  <2>3. x \div NINDIRECT \in Cells /\ x % NINDIRECT \in Cells
    <3>1. x \div NINDIRECT \in Nat /\ x % NINDIRECT \in 0..(NINDIRECT - 1)
          /\ x \div NINDIRECT < NINDIRECT
      BY <1>0, <2>1, Quotient
    <3> QED
      BY <1>0, <3>1 DEF Cells, BSIZE
  <2>4. bn >= NDIRECT
    BY <1>0, <1>3
  <2> QED
    BY <1>3, <2>2, <2>3, <2>4 DEF x
<1>4. CASE bn >= MAXFILE
  BY <1>4
<1> QED
  BY <1>0, <1>1, <1>2, <1>3, <1>4 DEF MAXFILE

\* What bmap() does for a block number of a file: it finds the block that the file then has
\* there, which is data, or the disk is full.
LEMMA BmapKeeps ==
  ASSUME NEW s, NEW i \in Inodes, NEW h, Sound(s, i, h),
         NEW bn \in Nat, bn < MAXFILE, NEW t, t = Bmap(s, bn)
  PROVE  \/ DiskFull(t)
         \/ /\ t.addr = BlockAt(t.addrs, t.blk, bn)
            /\ \E g : Reached(t, i, g, 0) /\ Kept(s, h, t, g)
<1>1. ASSUME bn < NDIRECT, bn \in Slots, t = Top(s, bn), ~ DiskFull(t)
      PROVE  /\ t.addr = BlockAt(t.addrs, t.blk, bn)
             /\ \E g : Reached(t, i, g, 0) /\ Kept(s, h, t, g)
  <2>1. Level(bn) = 0 /\ bn < NDIRECT
    BY <1>1, Kinds
  <2>2. t.addr = t.addrs[bn] /\ \E g : Reached(t, i, g, Level(bn)) /\ Kept(s, h, t, g)
    BY <1>1, TopKeeps
  <2>3. BlockAt(t.addrs, t.blk, bn) = t.addrs[bn]
    BY <2>1 DEF BlockAt
  <2> QED
    BY <2>1, <2>2, <2>3
<1>2. ASSUME NEW k \in Cells, bn >= NDIRECT, k = bn - NDIRECT, bn - NDIRECT < NINDIRECT,
             t = Sub(Top(s, NDIRECT), k), ~ DiskFull(t)
      PROVE  /\ t.addr = BlockAt(t.addrs, t.blk, bn)
             /\ \E g : Reached(t, i, g, 0) /\ Kept(s, h, t, g)
  <2> DEFINE u == Top(s, NDIRECT)
  <2>1. u.addr = u.addrs[NDIRECT] /\ \E g : Reached(u, i, g, 1) /\ Kept(s, h, u, g)
    <3>1. ~ DiskFull(u)
      BY <1>2, PanicStays
    <3> QED
      BY <3>1, Kinds, TopKeeps
  <2>2. t = Sub(u, k)
    BY <1>2
  <2> HIDE DEF u
  <2>3. PICK g : Reached(u, i, g, 1) /\ Kept(s, h, u, g)
    BY <2>1
  <2>4. /\ t.addr = t.blk[u.addr][k] /\ t.addrs = u.addrs
        /\ \E f : Reached(t, i, f, Below(1)) /\ Kept(u, g, t, f)
    BY <1>2, <2>2, <2>3, SubKeeps
  <2>5. PICK f : Reached(t, i, f, 0) /\ Kept(u, g, t, f)
    BY <2>4, Kinds
  <2>6. Kept(s, h, t, f)
    BY <2>3, <2>5, KeptTwice
  <2>7. t.addr = BlockAt(t.addrs, t.blk, bn)
    <3>1. ~ (bn < NDIRECT) /\ bn - NDIRECT < NINDIRECT
      BY <1>2, Kinds
    <3>2. t.addrs[NDIRECT] = u.addr /\ u.addr # 0
      BY <2>1, <2>3, <2>4 DEF Reached
    <3> QED
      BY <1>2, <2>4, <3>1, <3>2 DEF BlockAt, BlockIn
  <2> QED
    BY <2>5, <2>6, <2>7
<1>3. ASSUME NEW k \in Cells, NEW l \in Cells, bn >= NDIRECT, bn - NDIRECT >= NINDIRECT,
             k = (bn - NDIRECT - NINDIRECT) \div NINDIRECT,
             l = (bn - NDIRECT - NINDIRECT) % NINDIRECT,
             t = Sub(Sub(Top(s, NDIRECT_EX), k), l), ~ DiskFull(t)
      PROVE  /\ t.addr = BlockAt(t.addrs, t.blk, bn)
             /\ \E g : Reached(t, i, g, 0) /\ Kept(s, h, t, g)
  <2> DEFINE u == Top(s, NDIRECT_EX)
             v == Sub(u, k)
  <2>1. ~ DiskFull(v) /\ ~ DiskFull(u)
    BY <1>3, PanicStays
  <2>2. u.addr = u.addrs[NDIRECT_EX] /\ \E g : Reached(u, i, g, 2) /\ Kept(s, h, u, g)
    BY <2>1, Kinds, TopKeeps
  <2> HIDE DEF u
  <2>3. PICK g : Reached(u, i, g, 2) /\ Kept(s, h, u, g)
    BY <2>2
  <2>4. /\ v.addr = v.blk[u.addr][k] /\ v.addrs = u.addrs
        /\ \E f : Reached(v, i, f, Below(2)) /\ Kept(u, g, v, f)
    BY <2>1, <2>3, SubKeeps
  <2>5. PICK f : Reached(v, i, f, 1) /\ Kept(u, g, v, f)
    BY <2>4, Kinds
  <2>6. Kept(s, h, v, f)
    BY <2>3, <2>5, KeptTwice
  <2>7. t = Sub(v, l)
    BY <1>3 DEF u
  <2> HIDE DEF v
  <2>8. /\ t.addr = t.blk[v.addr][l] /\ t.addrs = v.addrs
        /\ \E e : Reached(t, i, e, Below(1)) /\ Kept(v, f, t, e)
    BY <1>3, <2>5, <2>7, SubKeeps
  <2>9. PICK e : Reached(t, i, e, 0) /\ Kept(v, f, t, e)
    BY <2>8, Kinds
  <2>10. Kept(s, h, t, e)
    BY <2>6, <2>9, KeptTwice
  <2>11. t.blk[u.addr][k] = v.addr /\ u.addr # 0 /\ v.addr # 0
    BY <2>3, <2>4, <2>5, <2>9 DEF Kept, Reached
  <2>12. t.addr = BlockAt(t.addrs, t.blk, bn)
    <3>1. t.addrs[NDIRECT_EX] = u.addr
      BY <2>2, <2>4, <2>8
    <3>2. ~ (bn < NDIRECT) /\ ~ (bn - NDIRECT < NINDIRECT)
      BY <1>3, Kinds
    <3>3. BlockIn(t.blk, t.addrs[NDIRECT_EX], k) = v.addr
      BY <2>11, <3>1 DEF BlockIn
    <3>4. BlockIn(t.blk, v.addr, l) = t.addr
      BY <2>8, <2>11 DEF BlockIn
    <3> QED
      BY <1>3, <3>2, <3>3, <3>4 DEF BlockAt
  <2> QED
    BY <2>9, <2>10, <2>12
<1> QED
  <2>1. ~ (bn >= MAXFILE)
    BY Kinds
  <2> QED
    BY <1>1, <1>2, <1>3, <2>1, BmapIs

-----------------------------------------------------------------------------
(* The blocks of an inode, and itrunc() *)

\* The blocks of inode i: in ip->addrs, in a single or double index block, or in an index
\* block of the second level.
InTree(a, m, i, x) ==
  /\ x # 0
  /\ \/ \E k \in Slots : x = a[i][k]
     \/ a[i][NDIRECT] # 0 /\ \E l \in Cells : x = m[a[i][NDIRECT]][l]
     \/ a[i][NDIRECT_EX] # 0 /\ \E l \in Cells : x = m[a[i][NDIRECT_EX]][l]
     \/ /\ a[i][NDIRECT_EX] # 0
        /\ \E k, l \in Cells : /\ m[a[i][NDIRECT_EX]][k] # 0
                               /\ x = m[m[a[i][NDIRECT_EX]][k]][l]
IsIndex(a, m, i, x) ==
  /\ x # 0
  /\ \/ x = a[i][NDIRECT] \/ x = a[i][NDIRECT_EX]
     \/ a[i][NDIRECT_EX] # 0 /\ \E l \in Cells : x = m[a[i][NDIRECT_EX]][l]

\* The home of an index block.
LEMMA IndexHome ==
  ASSUME NEW a, NEW m, NEW U, NEW h, Placed(a, m, U, h), NEW c \in U, h[c].lev # 0
  PROVE  /\ h[c].own \in Inodes
         /\ \/ h[c].lev = 1 /\ c = a[h[c].own][NDIRECT]
            \/ h[c].lev = 2 /\ c = a[h[c].own][NDIRECT_EX]
            \/ /\ h[c].lev = 1 /\ a[h[c].own][NDIRECT_EX] # 0
               /\ \E l \in Cells : c = m[a[h[c].own][NDIRECT_EX]][l]
<1>0. /\ U \subseteq Blocks /\ Homes(U, h) /\ 0 \notin Blocks
      /\ TopsHome(a, U, h) /\ WordsHome(m, U, h) /\ Found(a, m, U, h)
  BY Numbers DEF Placed
<1>1. ASSUME NEW x \in U, h[x].up = 0, h[x].pos \in Slots, a[h[x].own][h[x].pos] = x
      PROVE  h[x].lev = Level(h[x].pos)
  <2>1. x # 0 /\ h[x].own \in Inodes
    BY <1>0 DEF Homes
  <2> QED
    BY <1>0, <1>1, <2>1 DEF TopsHome
<1>2. ASSUME NEW x \in U, h[x].up \in U, h[h[x].up].lev # 0, h[x].pos \in Cells,
             m[h[x].up][h[x].pos] = x
      PROVE  h[x].lev = h[h[x].up].lev - 1 /\ h[x].own = h[h[x].up].own
  <2>1. x # 0
    BY <1>0
  <2> QED
    BY <1>0, <1>2, <2>1 DEF WordsHome
<1>3. \A k \in Slots : (Level(k) = 1 => k = NDIRECT) /\ (Level(k) = 2 => k = NDIRECT_EX)
  BY Numbers DEF Level
<1>4. \A x \in U : h[x].lev \in {0, 1, 2} /\ h[x].own \in Inodes
  BY <1>0 DEF Homes
<1>5. CASE h[c].up = 0 /\ h[c].pos \in Slots /\ a[h[c].own][h[c].pos] = c
  <2>1. h[c].lev = Level(h[c].pos)
    BY <1>1, <1>5
  <2> QED
    BY <1>3, <1>4, <1>5, <2>1
<1>6. CASE /\ h[c].up \in U /\ h[h[c].up].lev # 0 /\ h[c].pos \in Cells
           /\ m[h[c].up][h[c].pos] = c
  <2>1. PICK d \in U : d = h[c].up
    BY <1>6
  <2>2. h[c].lev = h[d].lev - 1 /\ h[c].own = h[d].own /\ h[d].lev # 0
    BY <1>2, <1>6, <2>1
  <2>3. h[d].lev = 2 /\ h[c].lev = 1
    BY <1>4, <2>2
  <2>4. ~ (/\ h[d].up \in U /\ h[h[d].up].lev # 0 /\ h[d].pos \in Cells
           /\ m[h[d].up][h[d].pos] = d)
    <3> SUFFICES ASSUME h[d].up \in U, h[h[d].up].lev # 0, h[d].pos \in Cells,
                        m[h[d].up][h[d].pos] = d
                 PROVE  FALSE
      OBVIOUS
    <3>1. h[d].lev = h[h[d].up].lev - 1
      BY <1>2
    <3>2. h[h[d].up].lev \in {0, 1, 2}
      BY <1>4
    <3> QED
      BY <2>3, <3>1, <3>2
  <2>5. h[d].up = 0 /\ h[d].pos \in Slots /\ a[h[d].own][h[d].pos] = d
    BY <1>0, <2>4 DEF Found
  <2>6. Level(h[d].pos) = 2
    BY <1>1, <2>3, <2>5
  <2>7. a[h[d].own][NDIRECT_EX] = d /\ d # 0
    BY <1>0, <1>3, <2>5, <2>6
  <2>8. c = m[d][h[c].pos] /\ h[c].pos \in Cells
    BY <1>6, <2>1
  <2>9. a[h[c].own][NDIRECT_EX] = d
    BY <2>2, <2>7
  <2> QED
    BY <1>4, <2>3, <2>7, <2>8, <2>9
<1> QED
  BY <1>0, <1>5, <1>6 DEF Found

\* A marked block is in the tree of the inode it belongs to, and only there.
LEMMA TreeIs ==
  ASSUME NEW a, NEW m, NEW U, NEW h, Placed(a, m, U, h), NEW i \in Inodes, NEW x
  PROVE  /\ InTree(a, m, i, x) <=> x \in U /\ h[x].own = i
         /\ IsIndex(a, m, i, x) <=> x \in U /\ h[x].own = i /\ h[x].lev # 0
<1>0. /\ U \subseteq Blocks /\ Homes(U, h) /\ 0 \notin Blocks
      /\ TopsHome(a, U, h) /\ WordsHome(m, U, h) /\ Found(a, m, U, h)
  BY Numbers DEF Placed
<1>1. \A k \in Slots : a[i][k] # 0 =>
        a[i][k] \in U /\ h[a[i][k]].own = i /\ h[a[i][k]].lev = Level(k)
  BY <1>0 DEF TopsHome
<1>2. \A b \in U, k \in Cells : h[b].lev # 0 /\ m[b][k] # 0 =>
        m[b][k] \in U /\ h[m[b][k]].own = h[b].own /\ h[m[b][k]].lev = h[b].lev - 1
  BY <1>0 DEF WordsHome
<1>3. a[i][NDIRECT] # 0 =>
        a[i][NDIRECT] \in U /\ h[a[i][NDIRECT]].own = i /\ h[a[i][NDIRECT]].lev = 1
  BY <1>1, Kinds
<1>4. a[i][NDIRECT_EX] # 0 =>
        a[i][NDIRECT_EX] \in U /\ h[a[i][NDIRECT_EX]].own = i /\ h[a[i][NDIRECT_EX]].lev = 2
  BY <1>1, Kinds
<1>5. ASSUME a[i][NDIRECT_EX] # 0, NEW k \in Cells, m[a[i][NDIRECT_EX]][k] # 0
      PROVE  /\ m[a[i][NDIRECT_EX]][k] \in U /\ h[m[a[i][NDIRECT_EX]][k]].own = i
             /\ h[m[a[i][NDIRECT_EX]][k]].lev = 1
  BY <1>2, <1>4, <1>5
<1>6. InTree(a, m, i, x) => x \in U /\ h[x].own = i
  <2>1. ASSUME NEW k \in Slots, x = a[i][k], x # 0 PROVE x \in U /\ h[x].own = i
    BY <1>1, <2>1
  <2>2. ASSUME a[i][NDIRECT] # 0, NEW l \in Cells, x = m[a[i][NDIRECT]][l], x # 0
        PROVE  x \in U /\ h[x].own = i
    BY <1>2, <1>3, <2>2
  <2>3. ASSUME a[i][NDIRECT_EX] # 0, NEW l \in Cells, x = m[a[i][NDIRECT_EX]][l], x # 0
        PROVE  x \in U /\ h[x].own = i
    BY <1>5, <2>3
  <2>4. ASSUME a[i][NDIRECT_EX] # 0, NEW k \in Cells, NEW l \in Cells,
               m[a[i][NDIRECT_EX]][k] # 0, x = m[m[a[i][NDIRECT_EX]][k]][l], x # 0
        PROVE  x \in U /\ h[x].own = i
    BY <1>2, <1>5, <2>4
  <2> QED
    BY <2>1, <2>2, <2>3, <2>4 DEF InTree
<1>7. IsIndex(a, m, i, x) => x \in U /\ h[x].own = i /\ h[x].lev # 0
  BY <1>3, <1>4, <1>5 DEF IsIndex
<1>8. ASSUME x \in U, h[x].own = i, h[x].lev # 0 PROVE IsIndex(a, m, i, x)
  BY <1>0, <1>8, IndexHome DEF IsIndex
<1>9. ASSUME x \in U, h[x].own = i PROVE InTree(a, m, i, x)
  <2>0. x # 0
    BY <1>0, <1>9
  <2>1. CASE h[x].up = 0 /\ h[x].pos \in Slots /\ a[h[x].own][h[x].pos] = x
    BY <1>9, <2>0, <2>1 DEF InTree
  <2>2. CASE /\ h[x].up \in U /\ h[h[x].up].lev # 0 /\ h[x].pos \in Cells
             /\ m[h[x].up][h[x].pos] = x
    <3>1. PICK c \in U : c = h[x].up /\ h[c].lev # 0
      BY <2>2
    <3>2. PICK l \in Cells : x = m[c][l]
      BY <2>2, <3>1
    <3>3. h[c].own = i
      BY <1>2, <1>9, <2>0, <3>1, <3>2
    <3>4. \/ c = a[i][NDIRECT] \/ c = a[i][NDIRECT_EX]
          \/ a[i][NDIRECT_EX] # 0 /\ \E k \in Cells : c = m[a[i][NDIRECT_EX]][k]
      BY <3>1, <3>3, IndexHome
    <3>5. c # 0
      BY <1>0, <3>1
    <3> QED
      BY <2>0, <3>2, <3>4, <3>5 DEF InTree
  <2> QED
    BY <1>0, <1>9, <2>1, <2>2 DEF Found
<1> QED
  BY <1>6, <1>7, <1>8, <1>9

-----------------------------------------------------------------------------
(* The bitmap and the places *)

\* The block numbers in the inodes, and the shapes of the inodes and of the disk.
Addrs == [j \in Inodes |-> ino[j].addrs]
IsInode(r) ==
  DOMAIN r = {"size", "addrs", "lock"} /\ r.size \in Nat /\ r.addrs \in [Slots -> Nat]
IsStore ==
  /\ DOMAIN disk = {"blk", "used"} /\ disk.blk \in [Blocks -> [Cells -> Nat]]
  /\ ino = [i \in Inodes |-> ino[i]] /\ \A i \in Inodes : IsInode(ino[i])

\* The marked blocks have the homes h.
HasHomes(h) == Placed(Addrs, disk.blk, disk.used, h)

\* The blocks that belong to inode i; itrunc() frees just these.
LEMMA TreeOf ==
  ASSUME IsStore, NEW h, HasHomes(h), NEW i \in Inodes
  PROVE  /\ Tree(i) = {x \in disk.used : h[x].own = i}
         /\ Index(i) = {x \in disk.used : h[x].own = i /\ h[x].lev # 0}
         /\ Freed(i) = {x \in disk.used : h[x].own = i}
<1> DEFINE a == Addrs
           m == disk.blk
<1>0. Placed(a, m, disk.used, h) /\ a[i] = ino[i].addrs /\ DOMAIN ino[i].addrs = Slots
  BY DEF HasHomes, Addrs, IsStore, IsInode
<1>1. \A x : /\ InTree(a, m, i, x) <=> x \in disk.used /\ h[x].own = i
             /\ IsIndex(a, m, i, x) <=> x \in disk.used /\ h[x].own = i /\ h[x].lev # 0
  BY <1>0, TreeIs
<1>2. Cells = DOMAIN Zero /\ NDIRECT \in Slots /\ NDIRECT_EX \in Slots /\ NDIRECT # NDIRECT_EX
  BY Numbers
<1>3. ASSUME NEW b
      PROVE  \A x : x \in Words(b) <=> x # 0 /\ \E k \in Cells : x = m[b][k]
  BY <1>2 DEF Words
<1>4. \A x : x \in Index(i) <=> IsIndex(a, m, i, x)
  <2>1. \A x : x \in Leaves(i) <=> a[i][NDIRECT_EX] # 0 /\ x \in Words(a[i][NDIRECT_EX])
    BY <1>0 DEF Leaves
  <2> QED
    BY <1>0, <1>3, <2>1 DEF Index, IsIndex
<1>5. \A x : x \in Tree(i) <=> InTree(a, m, i, x)
  <2>1. \A x : x \in Tree(i) <=> \/ x # 0 /\ \E k \in Slots : x = a[i][k]
                                 \/ \E b : IsIndex(a, m, i, b) /\ x \in Words(b)
    BY <1>0, <1>4 DEF Tree
  <2> HIDE DEF a, m
  <2>2. \A x : InTree(a, m, i, x) => \/ x # 0 /\ \E k \in Slots : x = a[i][k]
                                     \/ \E b : IsIndex(a, m, i, b) /\ x \in Words(b)
    <3>1. ASSUME NEW x, NEW b, b # 0, IsIndex(a, m, i, b), NEW l \in Cells, x = m[b][l], x # 0
          PROVE  \E c : IsIndex(a, m, i, c) /\ x \in Words(c)
      BY <1>3, <3>1 DEF m
    <3>2. a[i][NDIRECT] # 0 => IsIndex(a, m, i, a[i][NDIRECT])
      BY DEF IsIndex
    <3>3. a[i][NDIRECT_EX] # 0 => IsIndex(a, m, i, a[i][NDIRECT_EX])
      BY DEF IsIndex
    <3>4. \A k \in Cells : a[i][NDIRECT_EX] # 0 /\ m[a[i][NDIRECT_EX]][k] # 0 =>
            IsIndex(a, m, i, m[a[i][NDIRECT_EX]][k])
      BY DEF IsIndex
    <3> QED
      BY <3>1, <3>2, <3>3, <3>4 DEF InTree
  <2>3. \A x, b : IsIndex(a, m, i, b) /\ x \in Words(b) => InTree(a, m, i, x)
    BY <1>2, <1>3 DEF InTree, IsIndex, m
  <2>4. \A x : x # 0 /\ (\E k \in Slots : x = a[i][k]) => InTree(a, m, i, x)
    BY DEF InTree
  <2> QED
    BY <2>1, <2>2, <2>3, <2>4
<1>6. \A x : x \in Freed(i) <=> InTree(a, m, i, x)
  <2>1. \A b : \A x : x \in Under(b, 0) <=> b # 0 /\ x = b
    BY DEF Under
  <2>2. \A b : \A x : x \in Under(b, 1) <=> b # 0 /\ (x = b \/ x \in Words(b))
    BY DEF Under, Words
  <2>3. \A b : \A x : x \in Under(b, TruncDepth) <=>
          b # 0 /\ (x = b \/ x \in Words(b) \/ \E c \in Words(b) : x \in Words(c))
    BY DEF Under, Words, TruncDepth
  <2>4. \A k : k \in Slots <=> k \in 0..(NDIRECT - 1) \/ k = NDIRECT \/ k = NDIRECT_EX
    BY Numbers DEF Slots, NDIRECT_EX
  <2>5. \A x : x \in Freed(i) <=>
          \/ \E k \in 0..(NDIRECT - 1) : x \in Under(a[i][k], 0)
          \/ x \in Under(a[i][NDIRECT], 1)
          \/ x \in Under(a[i][NDIRECT_EX], TruncDepth)
    <3> DEFINE b == ino[i].addrs
    <3>1. b = a[i]
      BY <1>0
    <3> DEFINE V == UNION {Under(b[k], 0) : k \in 0..(NDIRECT - 1)}
    <3>5. \A x : x \in V <=> \E k \in 0..(NDIRECT - 1) : x \in Under(b[k], 0)
      OBVIOUS
    <3>6. Freed(i) = V \cup Under(b[NDIRECT], 1) \cup Under(b[NDIRECT_EX], TruncDepth)
      BY DEF Freed
    <3> HIDE DEF V, b
    <3>7. \A x : x \in Freed(i) <=>
          \/ \E k \in 0..(NDIRECT - 1) : x \in Under(b[k], 0)
          \/ x \in Under(b[NDIRECT], 1)
          \/ x \in Under(b[NDIRECT_EX], TruncDepth)
      BY <3>5, <3>6
    <3> HIDE DEF a
    <3> QED
      BY <3>1, <3>7
  <2> HIDE DEF a, m
  <2>6. \A x : x \in Freed(i) => InTree(a, m, i, x)
    BY <1>2, <1>3, <2>1, <2>2, <2>3, <2>4, <2>5 DEF InTree, m
  <2>7. ASSUME NEW x, InTree(a, m, i, x) PROVE x \in Freed(i)
    <3>1. ASSUME NEW k \in Slots, x = a[i][k], x # 0 PROVE x \in Freed(i)
      BY <2>1, <2>2, <2>3, <2>4, <2>5, <3>1
    <3>2. ASSUME a[i][NDIRECT] # 0, NEW l \in Cells, x = m[a[i][NDIRECT]][l], x # 0
          PROVE  x \in Freed(i)
      BY <1>3, <2>2, <2>5, <3>2 DEF m
    <3>3. ASSUME a[i][NDIRECT_EX] # 0, NEW l \in Cells, x = m[a[i][NDIRECT_EX]][l], x # 0
          PROVE  x \in Freed(i)
      BY <1>3, <2>3, <2>5, <3>3 DEF m
    <3>4. ASSUME a[i][NDIRECT_EX] # 0, NEW k \in Cells, NEW l \in Cells,
                 m[a[i][NDIRECT_EX]][k] # 0, x = m[m[a[i][NDIRECT_EX]][k]][l], x # 0
          PROVE  x \in Freed(i)
      <4>1. PICK c : c = m[a[i][NDIRECT_EX]][k] /\ c \in Words(a[i][NDIRECT_EX])
        BY <1>3, <3>4 DEF m
      <4>2. x \in Words(c)
        BY <1>3, <3>4, <4>1 DEF m
      <4> QED
        BY <2>3, <2>5, <3>4, <4>1, <4>2
    <3> QED
      BY <2>7, <3>1, <3>2, <3>3, <3>4 DEF InTree
  <2> QED
    BY <2>6, <2>7
<1> QED
  BY <1>1, <1>4, <1>5, <1>6

\* Two sets with a function between them that has an inverse.
LEMMA SameSize ==
  ASSUME NEW S, NEW T, IsFiniteSet(S), NEW F \in [S -> T],
         \A x, y \in S : F[x] = F[y] => x = y, \A z \in T : \E x \in S : F[x] = z
  PROVE  Cardinality(T) = Cardinality(S)
<1>1. F \in Bijection(S, T)
  BY Fun_IsBij
<1> QED
  BY <1>1, FS_Bijection DEF ExistsBijection

\* With homes, each marked block is in one place, and the others are in none.
LEMMA BlocksFrom ==
  ASSUME IsStore, NEW h, HasHomes(h)
  PROVE  BlocksInv
<1> DEFINE a == Addrs
           m == disk.blk
           U == disk.used
           P == {x \in U : h[x].up = 0}
           Q == {x \in U : h[x].up # 0}
<1>0. /\ U \subseteq Blocks /\ Homes(U, h) /\ 0 \notin Blocks /\ DOMAIN Zero = Cells
      /\ TopsHome(a, U, h) /\ WordsHome(m, U, h) /\ Found(a, m, U, h)
  BY Numbers DEF Placed, HasHomes
<1>1. \A i \in Inodes : a[i] = ino[i].addrs
  BY DEF Addrs
<1>2. UNION {Tree(i) : i \in Inodes} = U
  <2>1. \A i \in Inodes : Tree(i) = {x \in U : h[x].own = i}
    BY TreeOf
  <2> QED
    BY <1>0, <2>1 DEF Homes
<1>3. \A x : x \in UNION {Index(i) : i \in Inodes} <=> x \in U /\ h[x].lev # 0
  <2>1. \A i \in Inodes : Index(i) = {x \in U : h[x].own = i /\ h[x].lev # 0}
    BY TreeOf
  <2> QED
    BY <1>0, <2>1 DEF Homes
<1>4. IsFiniteSet(P) /\ IsFiniteSet(Q) /\ Cardinality(P) + Cardinality(Q) = Cardinality(U)
  <2>1. IsFiniteSet(Blocks)
    BY FilesAssumption, FS_Interval DEF Blocks
  <2>2. IsFiniteSet(U)
    BY <1>0, <2>1, FS_Subset
  <2>3. IsFiniteSet(P) /\ IsFiniteSet(Q) /\ P \cup Q = U /\ P \cap Q = {}
    BY <2>2, FS_Subset
  <2> HIDE DEF P, Q, U
  <2>4. Cardinality(P \cup Q) = Cardinality(P) + Cardinality(Q) - Cardinality(P \cap Q)
    BY <2>3, FS_Union
  <2>5. Cardinality(P) \in Nat /\ Cardinality(Q) \in Nat /\ Cardinality({}) = 0
    BY <2>3, FS_CardinalityType, FS_EmptySet
  <2>6. Cardinality(P \cup Q) = Cardinality(U) /\ Cardinality(P \cap Q) = 0
    BY <2>3, <2>5
  <2> QED
    BY <2>3, <2>4, <2>5, <2>6
<1>5. Cardinality(Tops) = Cardinality(P)
  <2> DEFINE F == [x \in P |-> <<h[x].own, h[x].pos>>]
  <2>1. \A x \in P : /\ h[x].pos \in Slots /\ h[x].own \in Inodes /\ a[h[x].own][h[x].pos] = x
                     /\ x # 0
    BY <1>0 DEF Found, Homes
  <2>2. F \in [P -> Tops]
    BY <1>1, <2>1 DEF Tops, Slots
  <2>3. \A x, y \in P : F[x] = F[y] => x = y
    BY <2>1
  <2>4. \A z \in Tops : \E x \in P : F[x] = z
    <3> SUFFICES ASSUME NEW j \in Inodes, NEW k \in Slots, a[j][k] # 0
                 PROVE  \E x \in P : F[x] = <<j, k>>
      <4>1. \A z \in Tops : \E j \in Inodes, k \in Slots : z = <<j, k>> /\ a[j][k] # 0
        BY <1>1 DEF Tops, Slots
      <4> HIDE DEF F, P, a
      <4> QED
        BY <4>1
    <3>1. a[j][k] \in P /\ h[a[j][k]].own = j /\ h[a[j][k]].pos = k
      BY <1>0 DEF TopsHome
    <3> QED
      BY <3>1
  <2> HIDE DEF F, P
  <2> QED
    BY <1>4, <2>2, <2>3, <2>4, SameSize
<1>6. Cardinality(Links) = Cardinality(Q)
  <2> DEFINE F == [x \in Q |-> <<h[x].up, h[x].pos>>]
  <2>1. \A x \in Q : /\ h[x].up \in U /\ h[h[x].up].lev # 0 /\ h[x].pos \in Cells
                     /\ m[h[x].up][h[x].pos] = x /\ x # 0
    BY <1>0 DEF Found
  <2>2. F \in [Q -> Links]
    BY <1>0, <1>3, <2>1 DEF Links
  <2>3. \A x, y \in Q : F[x] = F[y] => x = y
    BY <2>1
  <2>4. \A z \in Links : \E x \in Q : F[x] = z
    <3> SUFFICES ASSUME NEW b \in U, h[b].lev # 0, NEW k \in Cells, m[b][k] # 0
                 PROVE  \E x \in Q : F[x] = <<b, k>>
      <4>1. \A z \in Links : \E b \in U, k \in Cells : /\ h[b].lev # 0 /\ z = <<b, k>>
                                                        /\ m[b][k] # 0
        BY <1>0, <1>3 DEF Links
      <4> HIDE DEF F, Q, U, m
      <4> QED
        BY <4>1
    <3>1. m[b][k] \in Q /\ h[m[b][k]].up = b /\ h[m[b][k]].pos = k
      BY <1>0 DEF WordsHome
    <3> QED
      BY <3>1
  <2> HIDE DEF F, Q
  <2> QED
    BY <1>4, <2>2, <2>3, <2>4, SameSize
<1> QED
  BY <1>2, <1>4, <1>5, <1>6 DEF BlocksInv

-----------------------------------------------------------------------------
(* Part 3: the calls under way *)

Busy == {"read", "readi", "write", "writei", "writei_end"}
Holding == {"readi", "writei", "writei_end"}

\* The largest file.
Limit == MAXFILE * BSIZE

\* The block numbers of a file; a file with addresses ad has the blocks of its first e words.
FileBlocks == 0..(MAXFILE - 1)
Mapped(ad, m, e) == \A bn \in FileBlocks : bn * BSIZE < e => BlockAt(ad, m, bn) # 0

\* The numbers of a call.
IsCount(c) ==
  /\ c.n \in Int /\ c.i \in Nat /\ c.n1 \in Nat /\ c.tot \in Nat
  /\ c.pc = "read" => c.tot = 0 /\ c.data = <<>>
Counted == (\A p \in Procs : IsCount(Call(p))) /\ \A f \in Files : file[f].off \in Nat

\* A call under way with record c and descriptors o: its entry of the file table, fr, is one
\* that it has a descriptor for; it holds the lock of the inode ir; a read() is within the
\* file; a write() starts within it and stays within the largest, and has its blocks.
HasFd(c, o) == c.pc \in Busy => \E d \in Fds : o[d] = c.f
ReadFits(c, fr, ir) == c.pc = "readi" => fr.off + c.n <= ir.size /\ c.tot <= c.n
WriteFits(c, fr, ir, m) == c.pc \in {"writei", "writei_end"} =>
  /\ fr.off <= ir.size /\ fr.off + c.n1 <= Limit /\ c.tot <= c.n1
  /\ Mapped(ir.addrs, m, fr.off + c.tot)
WorksOn(p, c, fr, ir, m) ==
  /\ c.pc \in Holding => ir.lock = p
  /\ ReadFits(c, fr, ir) /\ WriteFits(c, fr, ir, m)
Works(p) ==
  /\ HasFd(Call(p), proc[p].ofile)
  /\ WorksOn(p, Call(p), file[Call(p).f], ino[file[Call(p).f].ip], disk.blk)

\* Files are not larger than the largest, and have all their blocks.
SizesFit == \A i \in Inodes :
  ino[i].size <= Limit /\ Mapped(ino[i].addrs, disk.blk, ino[i].size)

FilesIInv ==
  /\ RefsIInv /\ IsStore /\ Counted /\ (\E h : HasHomes(h))
  /\ (\A p \in Procs : Works(p)) /\ SizesFit /\ FilesNoPanic

\* A step of p leaves alone what others work on: entries of the file table that are in use
\* keep their inode, and inodes that others have locked stay as they are.
Stays(i) ==
  /\ ino'[i].lock = ino[i].lock /\ ino'[i].size = ino[i].size
  /\ \A bn \in FileBlocks : BlockAt(ino[i].addrs, disk.blk, bn) # 0 =>
       BlockAt(ino'[i].addrs, disk'.blk, bn) # 0
Apart(p) ==
  /\ \A f \in Files : file[f].ref >= 1 =>
       /\ file'[f].ip = file[f].ip
       /\ ino[file[f].ip].lock \notin {p, None} => file'[f].off = file[f].off
  /\ \A i \in Inodes : ino[i].lock \notin {p, None} => Stays(i)

\* What a busy call works on.
LEMMA OwnFile ==
  ASSUME RefsIInv, NEW p \in Procs, HasFd(Call(p), proc[p].ofile), Call(p).pc \in Busy
  PROVE  Call(p).f \in Files /\ file[Call(p).f].ref >= 1 /\ file[Call(p).f].ip \in Inodes
<1>0. Shapes /\ RefsExact /\ IsCall(Call(p))
  BY DEF RefsIInv, Shapes, IsProc, Call
<1>1. PICK d \in Fds : proc[p].ofile[d] = Call(p).f
  BY DEF HasFd
<1>2. Call(p).f \in Files
  BY <1>0 DEF IsCall, Busy
<1>3. <<p, d>> \in FdsOf(Call(p).f)
  BY <1>1 DEF FdsOf
<1>4. file[Call(p).f].ref >= 1
  BY <1>0, <1>2, <1>3, FdOf
<1> QED
  BY <1>0, <1>2, <1>4 DEF Shapes, IsFile

\* The others go on with what they were doing.
LEMMA OthersWork ==
  ASSUME FilesIInv, NEW p \in Procs, NEW q \in Procs, q # p, proc'[q] = proc[q], Apart(p)
  PROVE  Works(q)'
<1> DEFINE c == Call(q)
           f == c.f
<1>0. RefsIInv /\ Works(q) /\ None \notin Procs /\ Counted
  BY FilesAssumption DEF FilesIInv
<1>1. Call(q)' = c /\ proc'[q].ofile = proc[q].ofile
  BY DEF Call
<1>2. HasFd(c, proc[q].ofile)
  BY <1>0 DEF Works
<1>3. CASE c.pc \in Holding
  <2>1. c.pc \in Busy
    BY <1>3 DEF Busy, Holding
  <2>2. f \in Files /\ file[f].ref >= 1 /\ file[f].ip \in Inodes
    BY <1>0, <1>2, <2>1, OwnFile
  <2> DEFINE i == file[f].ip
  <2>3. WorksOn(q, c, file[f], ino[i], disk.blk)
    BY <1>0 DEF Works
  <2>4. ino[i].lock = q /\ q \notin {p, None}
    BY <1>0, <1>3, <2>3 DEF WorksOn
  <2>5. file'[f].ip = i /\ file'[f].off = file[f].off /\ Stays(i)
    BY <2>2, <2>4 DEF Apart
  <2>6. ino'[i].lock = q /\ ino'[i].size = ino[i].size
    BY <2>4, <2>5 DEF Stays
  <2>7. \A e : Mapped(ino[i].addrs, disk.blk, e) => Mapped(ino'[i].addrs, disk'.blk, e)
    BY <2>5 DEF Stays, Mapped
  <2> HIDE DEF c, i
  <2>8. WorksOn(q, c, file'[f], ino'[i], disk'.blk)
    BY <2>3, <2>5, <2>6, <2>7 DEF WorksOn, ReadFits, WriteFits
  <2> QED
    BY <1>1, <1>2, <2>5, <2>8 DEF Works
<1>4. CASE c.pc \notin Holding
  <2> HIDE DEF c
  <2>1. \A fr, ir, m : WorksOn(q, c, fr, ir, m)
    BY <1>4 DEF WorksOn, ReadFits, WriteFits, Holding
  <2> QED
    BY <1>1, <1>2, <2>1 DEF Works
<1> QED
  BY <1>3, <1>4

\* A call that works on nothing.
LEMMA RestWorks ==
  ASSUME NEW p, NEW c, c.pc \notin Busy
  PROVE  HasFd(c, proc[p].ofile) /\ \A o : HasFd(c, o) /\ \A fr, ir, m : WorksOn(p, c, fr, ir, m)
  BY DEF HasFd, WorksOn, ReadFits, WriteFits, Holding, Busy

\* A step of p from the invariant.
LEMMA FilesStep ==
  ASSUME FilesIInv, NEW p \in Procs, \A q \in Procs : q # p => proc'[q] = proc[q], Apart(p),
         RefsIInv', IsStore', IsCount(Call(p)'), \A f \in Files : file'[f].off \in Nat,
         (\E h : HasHomes(h))', Works(p)', SizesFit', FilesNoPanic'
  PROVE  FilesIInv'
<1>2. \A q \in Procs : Works(q)'
  BY OthersWork
<1>3. Counted'
  <2>1. \A q \in Procs : IsCount(proc'[q].call)
    BY DEF FilesIInv, Counted, Call
  <2> QED
    BY <2>1 DEF Counted, Call
<1> QED
  BY <1>2, <1>3 DEF FilesIInv

\* What a step does to the processes.
LEMMA Started ==
  ASSUME Shapes, NEW p \in Procs, NEW c, NEW o, Start(p, c, o)
  PROVE  /\ \A q \in Procs : q # p => proc'[q] = proc[q]
         /\ Call(p)' = c /\ proc'[p].ofile = o
<1>1. DOMAIN proc = Procs
  BY DEF Shapes
<1>2. proc' = [proc EXCEPT ![p] = [call |-> c, todo |-> Tail(proc[p].todo), ofile |-> o]]
  BY <1>1 DEF Start
<1>3. proc'[p] = [call |-> c, todo |-> Tail(proc[p].todo), ofile |-> o]
  BY <1>1, <1>2
<1> QED
  BY <1>1, <1>2, <1>3 DEF Call

\* A step within a system call leaves the other processes alone.
LEMMA Stepped ==
  ASSUME Shapes, NEW p \in Procs, NEW c, Step(p, c)
  PROVE  /\ \A q \in Procs : q # p => proc'[q] = proc[q]
         /\ Call(p)' = c /\ proc'[p].ofile = proc[p].ofile
<1>1. DOMAIN proc = Procs /\ IsProc(proc[p])
  BY DEF Shapes
<1>2. proc'[p] = [proc[p] EXCEPT !.call = c]
  BY <1>1 DEF Step
<1>3. proc'[p].call = c /\ proc'[p].ofile = proc[p].ofile
  BY <1>1, <1>2 DEF IsProc
<1>4. \A q \in Procs : q # p => proc'[q] = proc[q]
  BY <1>1 DEF Step
<1> QED
  BY <1>3, <1>4 DEF Call

\* A step that changes neither the disk nor an inode.
LEMMA QuietStore ==
  ASSUME FilesIInv, UNCHANGED <<disk, ino>>
  PROVE  IsStore' /\ (\E h : HasHomes(h))' /\ SizesFit' /\ \A i \in Inodes : Stays(i)
<1>1. IsStore' /\ SizesFit' /\ \A i \in Inodes : Stays(i)
  BY DEF FilesIInv, IsStore, SizesFit, Stays
<1>2. PICK h : HasHomes(h)
  BY DEF FilesIInv
<1>3. Addrs' = Addrs
  BY DEF Addrs
<1>4. HasHomes(h)'
  BY <1>2, <1>3 DEF HasHomes
<1> QED
  BY <1>1, <1>4

\* ilock() and iunlock().
LEMMA LockStore ==
  ASSUME FilesIInv, NEW i \in Inodes, NEW x, UNCHANGED disk, ino' = [ino EXCEPT ![i].lock = x]
  PROVE  /\ IsStore' /\ (\E h : HasHomes(h))' /\ SizesFit'
         /\ ino'[i].lock = x /\ ino'[i].size = ino[i].size /\ ino'[i].addrs = ino[i].addrs
         /\ \A j \in Inodes : j # i => Stays(j)
<1>0. IsStore /\ SizesFit
  BY DEF FilesIInv
<1>1. \A j \in Inodes : IsInode(ino[j]) /\ ino = [k \in Inodes |-> ino[k]]
  BY <1>0 DEF IsStore
<1>2. ino' = [j \in Inodes |-> ino'[j]]
  BY <1>1
<1>3. \A j \in Inodes : j # i => ino'[j] = ino[j]
  BY <1>1
<1>4. ino'[i] = [ino[i] EXCEPT !.lock = x]
  BY <1>1
<1>5. /\ DOMAIN ino'[i] = {"size", "addrs", "lock"} /\ ino'[i].lock = x
      /\ ino'[i].size = ino[i].size /\ ino'[i].addrs = ino[i].addrs
  BY <1>1, <1>4 DEF IsInode
<1>6. \A j \in Inodes : IsInode(ino'[j]) /\ ino'[j].addrs = ino[j].addrs
                        /\ ino'[j].size = ino[j].size
  BY <1>1, <1>3, <1>5 DEF IsInode
<1>7. IsStore'
  BY <1>0, <1>2, <1>6 DEF IsStore
<1>8. SizesFit'
  BY <1>0, <1>6 DEF SizesFit
<1>9. \A j \in Inodes : j # i => Stays(j)
  BY <1>3 DEF Stays
<1>10. PICK h : HasHomes(h)
  BY DEF FilesIInv
<1>11. Addrs' = Addrs
  BY <1>6 DEF Addrs
<1>12. HasHomes(h)'
  BY <1>10, <1>11 DEF HasHomes
<1> QED
  BY <1>5, <1>7, <1>8, <1>9, <1>12

\* No call.
LEMMA IdleCount == IsCount(Idle) /\ Idle.pc \notin Busy
  BY DEF Idle, IsCount, Busy

\* A step that opens, closes or duplicates descriptors.
TableMoves(p) ==
  /\ UNCHANGED <<disk, ino>> /\ \A q \in Procs : q # p => proc'[q] = proc[q]
  /\ IsCount(Call(p)') /\ Call(p).pc \notin Busy /\ Call(p)'.pc \notin Busy
  /\ \A f \in Files : file'[f].ip = file[f].ip /\ file'[f].off = file[f].off

\* It keeps the invariant.
LEMMA TableStep ==
  ASSUME FilesIInv, NEW p \in Procs, TableMoves(p), RefsIInv', FilesNoPanic'
  PROVE  FilesIInv'
<1>0. /\ UNCHANGED <<disk, ino>> /\ \A q \in Procs : q # p => proc'[q] = proc[q]
      /\ IsCount(Call(p)') /\ Call(p)'.pc \notin Busy
      /\ \A f \in Files : file'[f].ip = file[f].ip /\ file'[f].off = file[f].off
  BY DEF TableMoves
<1>1. IsStore' /\ (\E h : HasHomes(h))' /\ SizesFit' /\ \A i \in Inodes : Stays(i)
  BY <1>0, QuietStore
<1>2. Apart(p)
  BY <1>0, <1>1 DEF Apart
<1>3. \A f \in Files : file'[f].off \in Nat
  BY <1>0 DEF FilesIInv, Counted
<1>4. Works(p)'
  BY <1>0, RestWorks DEF Works
<1> QED
  BY <1>0, <1>1, <1>2, <1>3, <1>4, FilesStep

\* dup() and close().
LEMMA DupCloseIs ==
  ASSUME FilesIInv, NEW p \in Procs, SysDup(p) \/ SysClose(p)
  PROVE  TableMoves(p)
<1>0. RefsIInv /\ Shapes
  BY DEF FilesIInv, RefsIInv
<1>2. UNCHANGED <<disk, ino>> /\ (\E o : Start(p, Idle, o)) /\ Call(p).pc \notin Busy
  BY DEF SysDup, SysClose, Calls, At, Busy
<1>3. (\A q \in Procs : q # p => proc'[q] = proc[q]) /\ Call(p)' = Idle
  BY <1>0, <1>2, Started
<1>4. DOMAIN file = Files /\ \A f \in Files : IsFile(file[f])
  BY <1>0 DEF Shapes
<1>5. \E g : \/ file' = file \/ file' = Closed(file, {g})
            \/ \E n : file' = [file EXCEPT ![g].ref = n]
  BY DEF SysDup, SysClose, Filedup
<1>6. ASSUME NEW f \in Files PROVE file'[f].ip = file[f].ip /\ file'[f].off = file[f].off
  <2>1. file'[f] = file[f] \/ \E n : file'[f] = [file[f] EXCEPT !.ref = n]
                           \/ file'[f] = [file[f] EXCEPT !.ref = 0, !.type = "NONE"]
    BY <1>4, <1>5 DEF Closed
  <2> QED
    BY <1>4, <2>1 DEF IsFile
<1> QED
  BY <1>2, <1>3, <1>6, IdleCount DEF TableMoves

\* pipe().
LEMMA PipeIs ==
  ASSUME FilesIInv, NEW p \in Procs, PipeFirst(p) \/ PipeSecond(p) \/ PipeFds(p)
  PROVE  TableMoves(p)
<1>0. RefsIInv /\ Shapes /\ FilesNoPanic /\ IsCall(Call(p)) /\ IsCount(Call(p))
  BY DEF FilesIInv, RefsIInv, Counted, Shapes, IsProc, Call
<1>1. UNCHANGED <<disk, ino>> /\ Call(p).pc \notin Busy
  BY DEF PipeFirst, PipeSecond, PipeFds, Calls, At, Busy
<1>4. DOMAIN file = Files /\ \A f \in Files : IsFile(file[f])
  BY <1>0 DEF Shapes
<1>5. ASSUME NEW c, IsCount(c), c.pc \notin Busy,
             \A q \in Procs : q # p => proc'[q] = proc[q], Call(p)' = c,
             \A f \in Files : file'[f].ip = file[f].ip /\ file'[f].off = file[f].off
      PROVE  TableMoves(p)
  BY <1>1, <1>5 DEF TableMoves
<1>6. ASSUME NEW S, file' = Closed(file, S)
      PROVE  \A f \in Files : file'[f].ip = file[f].ip /\ file'[f].off = file[f].off
  <2>1. \A f \in Files : file'[f] = file[f]
                       \/ file'[f] = [file[f] EXCEPT !.ref = 0, !.type = "NONE"]
    BY <1>4, <1>6 DEF Closed
  <2> QED
    BY <1>4, <2>1 DEF IsFile
<1>7. CASE PipeFirst(p)
  <2> DEFINE c == [Idle EXCEPT !.pc = "pipe", !.f = Min(FreeFiles)]
  <2>1. IsCount(c) /\ c.pc \notin Busy
    BY DEF Idle, IsCount, Busy
  <2>2. Start(p, Idle, proc[p].ofile) \/ Start(p, c, proc[p].ofile)
    BY <1>7 DEF PipeFirst
  <2>3. file' = file \/ \E g : file' = [file EXCEPT ![g].ref = 1]
    BY <1>7 DEF PipeFirst
  <2>4. \A f \in Files : file'[f] = file[f] \/ file'[f] = [file[f] EXCEPT !.ref = 1]
    BY <1>4, <2>3
  <2>5. \A f \in Files : file'[f].ip = file[f].ip /\ file'[f].off = file[f].off
    BY <1>4, <2>4 DEF IsFile
  <2> HIDE DEF c
  <2>6. (\A q \in Procs : q # p => proc'[q] = proc[q]) /\ (Call(p)' = Idle \/ Call(p)' = c)
    BY <1>0, <2>2, Started
  <2> QED
    BY <1>5, <2>1, <2>5, <2>6, IdleCount
<1>8. CASE PipeSecond(p)
  <2> DEFINE g == Min(FreeFiles)
             c == [Call(p) EXCEPT !.pc = "pipe_fds", !.g = g]
  <2>1. IsCount(c) /\ c.pc \notin Busy
    BY <1>0 DEF IsCount, IsCall, Busy
  <2>2. CASE Step(p, Idle) /\ file' = Closed(file, {Call(p).f})
    BY <1>0, <1>5, <1>6, <2>2, Stepped, IdleCount
  <2>3. CASE Step(p, c) /\ file' = [file EXCEPT
             ![Call(p).f] = [@ EXCEPT !.type = "PIPE", !.readable = TRUE, !.writable = FALSE],
             ![g] = [@ EXCEPT !.ref = 1, !.type = "PIPE", !.readable = FALSE, !.writable = TRUE]]
    <3> HIDE DEF c, g
    <3>1. ASSUME NEW f \in Files
          PROVE  file'[f].ip = file[f].ip /\ file'[f].off = file[f].off
      <4> DEFINE x == [file[f] EXCEPT !.type = "PIPE", !.readable = TRUE, !.writable = FALSE]
                 y(z) == [z EXCEPT !.ref = 1, !.type = "PIPE", !.readable = FALSE,
                                   !.writable = TRUE]
      <4>1. file'[f] = file[f] \/ file'[f] = x \/ file'[f] = y(file[f]) \/ file'[f] = y(x)
        BY <1>4, <2>3
      <4>2. x.ip = file[f].ip /\ x.off = file[f].off /\ DOMAIN x = DOMAIN file[f]
        BY <1>4 DEF IsFile
      <4>3. y(file[f]).ip = file[f].ip /\ y(file[f]).off = file[f].off
        BY <1>4 DEF IsFile
      <4> HIDE DEF x
      <4>4. y(x).ip = file[f].ip /\ y(x).off = file[f].off
        BY <1>4, <4>2 DEF IsFile
      <4> HIDE DEF y
      <4> QED
        BY <4>1, <4>2, <4>3, <4>4
    <3>2. (\A q \in Procs : q # p => proc'[q] = proc[q]) /\ Call(p)' = c
      BY <1>0, <2>3, Stepped
    <3> QED
      BY <1>5, <2>1, <3>1, <3>2
  <2> QED
    BY <1>8, <2>2, <2>3 DEF PipeSecond
<1>9. CASE PipeFds(p)
  <2>1. CASE Step(p, Idle) /\ file' = Closed(file, PipeUndo(Call(p)))
    BY <1>0, <1>5, <1>6, <2>1, Stepped, IdleCount
  <2>2. CASE /\ UNCHANGED file
             /\ \E d0, d1 : proc' = [proc EXCEPT ![p].call = Idle,
                  ![p].ofile[d0] = Call(p).f, ![p].ofile[d1] = Call(p).g]
    <3>1. PICK d0, d1 : proc' = [proc EXCEPT ![p].call = Idle,
                  ![p].ofile[d0] = Call(p).f, ![p].ofile[d1] = Call(p).g]
      BY <2>2
    <3>2. DOMAIN proc = Procs /\ DOMAIN proc[p] = {"call", "todo", "ofile"}
      BY <1>0 DEF Shapes, IsProc
    <3>3. (\A q \in Procs : q # p => proc'[q] = proc[q]) /\ Call(p)' = Idle
      BY <3>1, <3>2 DEF Call
    <3> QED
      BY <1>5, <2>2, <3>3, IdleCount
  <2> QED
    BY <1>9, <2>1, <2>2 DEF PipeFds
<1> QED
  BY <1>7, <1>8, <1>9

\* They keep the invariant.
LEMMA TableFiles ==
  ASSUME FilesIInv, NEW p \in Procs,
         \/ SysDup(p) \/ SysClose(p) \/ PipeFirst(p) \/ PipeSecond(p) \/ PipeFds(p)
  PROVE  FilesIInv'
<1>0. RefsIInv /\ FilesNoPanic /\ TableMoves(p)
  BY DupCloseIs, PipeIs DEF FilesIInv
<1>1. RefsIInv' /\ panic' \in {"", panic}
  <2>1. CASE SysDup(p) \/ SysClose(p)
    BY <1>0, <2>1, DupRefs, CloseRefs
  <2>2. CASE PipeFirst(p) \/ PipeSecond(p) \/ PipeFds(p)
    <3>1. UNCHANGED panic
      BY <2>2 DEF PipeFirst, PipeSecond, PipeFds
    <3> QED
      BY <1>0, <2>2, <3>1, PipeFirstRefs, PipeSecondRefs, PipeFdsRefs
  <2> QED
    BY <2>1, <2>2
<1>2. FilesNoPanic'
  BY <1>0, <1>1 DEF FilesNoPanic
<1> QED
  BY <1>0, <1>1, <1>2, TableStep

-----------------------------------------------------------------------------
(* ilock() and the start of a read() *)

\* A call that has locked nothing.
LEMMA NotHolding ==
  ASSUME NEW p, NEW c, c.pc \notin Holding
  PROVE  \A fr, ir, m : WorksOn(p, c, fr, ir, m)
  BY DEF WorksOn, ReadFits, WriteFits, Holding

\* A call that works on an inode: the entry, the inode and its lock.
LEMMA Held ==
  ASSUME FilesIInv, NEW p \in Procs, Call(p).pc \in Busy
  PROVE  /\ Call(p).f \in Files /\ file[Call(p).f].ref >= 1 /\ file[Call(p).f].ip \in Inodes
         /\ Shapes /\ IsFile(file[Call(p).f]) /\ IsInode(ino[file[Call(p).f].ip])
         /\ file[Call(p).f].off \in Nat /\ IsCount(Call(p)) /\ IsCall(Call(p)) /\ p # None
         /\ HasFd(Call(p), proc[p].ofile)
         /\ WorksOn(p, Call(p), file[Call(p).f], ino[file[Call(p).f].ip], disk.blk)
         /\ Call(p).pc \in Holding => ino[file[Call(p).f].ip].lock = p
<1>0. RefsIInv /\ IsStore /\ Counted /\ Works(p)
  BY DEF FilesIInv
<1>1. /\ Call(p).f \in Files /\ file[Call(p).f].ref >= 1 /\ file[Call(p).f].ip \in Inodes
      /\ HasFd(Call(p), proc[p].ofile)
  BY <1>0, OwnFile DEF Works
<1>2. Shapes /\ IsFile(file[Call(p).f]) /\ IsCall(Call(p)) /\ IsInode(ino[file[Call(p).f].ip])
  BY <1>0, <1>1 DEF RefsIInv, Shapes, IsProc, Call, IsStore
<1>3. IsCount(Call(p)) /\ file[Call(p).f].off \in Nat /\ p # None
  BY <1>0, <1>1, FilesAssumption DEF Counted
<1>4. WorksOn(p, Call(p), file[Call(p).f], ino[file[Call(p).f].ip], disk.blk)
  BY <1>0 DEF Works
<1> QED
  BY <1>1, <1>2, <1>3, <1>4 DEF WorksOn

\* The other actions keep the counts, too.
LEMMA RefsKept ==
  ASSUME FilesIInv, NEW p \in Procs,
         \/ SysReadWrite(p) \/ ReadStart(p) \/ ReadBlock(p) \/ ReadEnd(p)
         \/ WriteStart(p) \/ WriteBlock(p) \/ WriteEnd(p) \/ SysFstat(p) \/ SysOpen(p)
  PROVE  RefsIInv'
  BY ReadWriteRefs, OpenRefs DEF FilesIInv

\* read(), write() and fstat() begin.
LEMMA BeginFiles ==
  ASSUME FilesIInv, Typed, NEW p \in Procs, SysReadWrite(p) \/ SysFstat(p)
  PROVE  FilesIInv'
<1>0. Shapes /\ FilesNoPanic /\ Counted
  BY DEF FilesIInv, RefsIInv
<1>1. UNCHANGED <<disk, ino, file, panic>> /\ RefsIInv' /\ FilesNoPanic'
  <2>0. Argfd(p) # 0 => file[Argfd(p)].type # "NONE"
    BY <1>0, Descriptor DEF Typed, TypedAt
  <2>1. UNCHANGED <<disk, ino, file, panic>>
    BY <2>0 DEF SysReadWrite, SysFstat
  <2> QED
    BY <1>0, <2>1, RefsKept DEF FilesNoPanic
<1>2. IsStore' /\ (\E h : HasHomes(h))' /\ SizesFit' /\ \A i \in Inodes : Stays(i)
  BY <1>1, QuietStore
<1>3. Apart(p) /\ \A f \in Files : file'[f].off \in Nat
  BY <1>0, <1>1, <1>2 DEF Apart, Counted
<1>4. ASSUME NEW c, IsCount(c), HasFd(c, proc[p].ofile), c.pc \notin Holding,
             Start(p, c, proc[p].ofile)
      PROVE  FilesIInv'
  <2>1. /\ \A q \in Procs : q # p => proc'[q] = proc[q]
        /\ Call(p)' = c /\ proc'[p].ofile = proc[p].ofile
    BY <1>0, <1>4, Started
  <2>2. Works(p)'
    BY <1>4, <2>1, NotHolding DEF Works
  <2> QED
    BY <1>1, <1>2, <1>3, <1>4, <2>1, <2>2, FilesStep
<1>5. ASSUME Start(p, Idle, proc[p].ofile) PROVE FilesIInv'
  BY <1>4, <1>5, IdleCount, RestWorks DEF Busy, Holding
<1>6. CASE SysReadWrite(p)
  <2>1. PICK op \in {"read", "write"} :
          /\ Calls(p, op)
          /\ \/ Start(p, Idle, proc[p].ofile)
             \/ /\ Argfd(p) # 0
                /\ Start(p, [Idle EXCEPT !.pc = op, !.f = Argfd(p), !.n = Arg(p, 3)],
                         proc[p].ofile)
    BY <1>6 DEF SysReadWrite
  <2> DEFINE c == [Idle EXCEPT !.pc = op, !.f = Argfd(p), !.n = Arg(p, 3)]
  <2>2. CASE Argfd(p) # 0 /\ Start(p, c, proc[p].ofile)
    <3>1. Arg(p, 3) \in Int
      <4>1. Head(proc[p].todo) \in SysCalls
        BY <1>0, <2>1, HeadCall
      <4> QED
        BY <2>1, <4>1 DEF SysCalls, Arg, Calls
    <3>2. IsCount(c) /\ c.pc \notin Holding /\ c.f = Argfd(p) /\ c.pc \in Busy
      BY <3>1 DEF Idle, IsCount, Holding, Busy
    <3> HIDE DEF c
    <3>3. HasFd(c, proc[p].ofile)
      BY <1>0, <2>2, <3>2, Descriptor DEF HasFd
    <3> QED
      BY <1>4, <2>2, <3>2, <3>3
  <2> QED
    BY <1>5, <2>1, <2>2
<1>7. CASE SysFstat(p)
  BY <1>5, <1>7 DEF SysFstat
<1> QED
  BY <1>6, <1>7

\* A call gives up before it has locked the inode.
LEMMA GiveUp ==
  ASSUME FilesIInv, NEW p \in Procs, RefsIInv', Step(p, Idle),
         UNCHANGED <<disk, ino, file, panic>>
  PROVE  FilesIInv'
<1>0. Shapes /\ FilesNoPanic' /\ \A f \in Files : file'[f].off \in Nat
  BY DEF FilesIInv, RefsIInv, FilesNoPanic, Counted
<1>1. IsStore' /\ (\E h : HasHomes(h))' /\ SizesFit' /\ \A i \in Inodes : Stays(i)
  BY QuietStore
<1>2. Apart(p)
  BY <1>1 DEF Apart
<1>3. (\A q \in Procs : q # p => proc'[q] = proc[q]) /\ Call(p)' = Idle
  BY <1>0, Stepped
<1>4. Works(p)'
  BY <1>3, IdleCount, RestWorks DEF Works
<1> QED
  BY <1>0, <1>1, <1>2, <1>3, <1>4, IdleCount, FilesStep

\* The inode of f is locked, and the call goes on with c.
LEMMA LockUp ==
  ASSUME FilesIInv, NEW p \in Procs, RefsIInv', Call(p).pc \in Busy, NEW c, Step(p, c),
         ino[file[Call(p).f].ip].lock = None,
         ino' = [ino EXCEPT ![file[Call(p).f].ip].lock = p],
         UNCHANGED <<disk, file, panic>>, IsCount(c), c.f = Call(p).f, c.pc \in Busy,
         ReadFits(c, file[Call(p).f], ino[file[Call(p).f].ip]),
         WriteFits(c, file[Call(p).f], ino[file[Call(p).f].ip], disk.blk)
  PROVE  FilesIInv'
<1>0. Shapes /\ FilesNoPanic' /\ \A f \in Files : file'[f].off \in Nat
  BY DEF FilesIInv, RefsIInv, FilesNoPanic, Counted
<1>1. PICK f \in Files : f = Call(p).f /\ file[f].ip \in Inodes
  BY Held
<1>2. PICK i \in Inodes : i = file[f].ip
  BY <1>1
<1>3. ino' = [ino EXCEPT ![i].lock = p] /\ UNCHANGED disk
  BY <1>1, <1>2
<1>4. /\ IsStore' /\ (\E h : HasHomes(h))' /\ SizesFit'
      /\ ino'[i].lock = p /\ ino'[i].size = ino[i].size /\ ino'[i].addrs = ino[i].addrs
      /\ \A j \in Inodes : j # i => Stays(j)
  BY <1>3, LockStore
<1>5. Apart(p)
  BY <1>1, <1>2, <1>4 DEF Apart
<1>6. /\ \A q \in Procs : q # p => proc'[q] = proc[q]
      /\ Call(p)' = c /\ proc'[p].ofile = proc[p].ofile
  BY <1>0, Stepped
<1>7. HasFd(c, proc[p].ofile)
  BY Held DEF HasFd
<1>8. WorksOn(p, c, file[f], ino'[i], disk'.blk)
  BY <1>1, <1>2, <1>4 DEF WorksOn, ReadFits, WriteFits
<1>9. Works(p)'
  BY <1>1, <1>2, <1>6, <1>7, <1>8 DEF Works
<1> QED
  BY <1>0, <1>4, <1>5, <1>6, <1>9, FilesStep

\* readi() is within the file.
LEMMA ClippedFits ==
  ASSUME NEW n \in Nat, NEW off \in Nat, NEW size \in Nat, ~ (off > size)
  PROVE  Clipped(n, off, size) \in Nat /\ off + Clipped(n, off, size) <= size
         /\ Clipped(n, off, size) <= n
  BY DEF Clipped, Lowest

\* A length that the kernel takes as a uint is not negative.
LEMMA Unsigned ==
  ASSUME NEW n \in Int
  PROVE  n % UMod \in Nat
  BY FilesAssumption

\* fileread() locks the inode, and readi() clips the length to the file's end.
LEMMA ReadStartFiles ==
  ASSUME FilesIInv, NEW p \in Procs, ReadStart(p)
  PROVE  FilesIInv'
<1> DEFINE f == Call(p).f
           i == file[f].ip
           n == Call(p).n % UMod
           c == [Call(p) EXCEPT !.pc = "readi", !.n = Clipped(n, file[f].off, ino[i].size)]
<1>0. RefsIInv'
  BY RefsKept
<1>1. Call(p).pc = "read" /\ UNCHANGED <<disk, file, panic>> /\ ino[i].lock = None
  BY DEF ReadStart, At
<1>2. CASE Step(p, Idle) /\ UNCHANGED ino
  BY <1>0, <1>1, <1>2, GiveUp
<1>3. CASE ~ (file[f].off > ino[i].size) /\ ino' = [ino EXCEPT ![i].lock = p] /\ Step(p, c)
  <2>0. Call(p).pc \in Busy
    BY <1>1 DEF Busy
  <2>1. /\ IsCount(Call(p)) /\ IsCall(Call(p)) /\ IsInode(ino[i]) /\ file[f].off \in Nat
    BY <2>0, Held
  <2>2. PICK x \in Nat : x = Clipped(n, file[f].off, ino[i].size) /\ file[f].off + x <= ino[i].size
    <3>1. n \in Nat
      BY <2>1, Unsigned DEF IsCount
    <3> HIDE DEF n
    <3> QED
      BY <1>3, <2>1, <3>1, ClippedFits DEF IsInode
  <2>3. c = [Call(p) EXCEPT !.pc = "readi", !.n = x]
    BY <2>2
  <2> HIDE DEF c
  <2>4. /\ c.pc = "readi" /\ c.n = x /\ c.f = f /\ c.tot = 0 /\ c.i = Call(p).i
        /\ c.n1 = Call(p).n1
    BY <1>1, <2>1, <2>3 DEF IsCall, IsCount
  <2>5. IsCount(c) /\ c.pc \in Busy
    BY <2>1, <2>4 DEF IsCount, Busy
  <2>6. ReadFits(c, file[f], ino[i]) /\ WriteFits(c, file[f], ino[i], disk.blk)
    BY <2>2, <2>4 DEF ReadFits, WriteFits
  <2> QED
    BY <1>0, <1>1, <1>3, <2>0, <2>4, <2>5, <2>6, LockUp
<1> QED
  BY <1>2, <1>3 DEF ReadStart

-----------------------------------------------------------------------------
(* The start and the end of a write() *)

\* The first words of a file are mapped if more of them are.
LEMMA MappedLess ==
  ASSUME NEW ad, NEW m, NEW d \in Nat, NEW e \in Nat, d <= e, Mapped(ad, m, e)
  PROVE  Mapped(ad, m, d)
<1>1. \A bn \in FileBlocks : bn * BSIZE \in Nat
  BY Numbers, Kinds DEF FileBlocks
<1>2. \A x \in Nat : x < d => x < e
  OBVIOUS
<1> QED
  BY <1>1, <1>2 DEF Mapped

\* What filewrite() hands to writei().
LEMMA ChunkIs == Chunk \in Nat /\ Chunk > 0
<1>1. MAXOPBLOCKS - 1 - 1 - 2 \in Nat /\ MAXOPBLOCKS - 1 - 1 - 2 >= 2
  BY FilesAssumption
<1>2. PICK x \in Nat : x = MAXOPBLOCKS - 1 - 1 - 2 /\ x >= 2
  BY <1>1
<1>3. x \div 2 \in Nat /\ x \div 2 >= 1
  BY <1>2
<1>4. PICK y \in Nat : y = x \div 2 /\ y >= 1
  BY <1>3
<1>5. BSIZE \in Nat /\ BSIZE >= 1
  BY Numbers
<1>6. y * BSIZE \in Nat /\ y * BSIZE > 0
  BY <1>4, <1>5
<1> QED
  BY <1>2, <1>4, <1>6 DEF Chunk, MaxChunk

\* filewrite() and writei() begin: the file has the blocks up to the offset.
LEMMA WriteStartFiles ==
  ASSUME FilesIInv, NEW p \in Procs, WriteStart(p)
  PROVE  FilesIInv'
<1> DEFINE f == Call(p).f
           i == file[f].ip
           n1 == Lowest(Call(p).n - Call(p).i, Chunk)
           c == [Call(p) EXCEPT !.pc = "writei", !.n1 = n1, !.tot = 0, !.log = {Inode(i)}]
<1>0. RefsIInv'
  BY RefsKept
<1>1. Call(p).pc = "write" /\ UNCHANGED <<disk, file, panic>>
  BY DEF WriteStart, At
<1>2. CASE Step(p, Idle) /\ UNCHANGED ino
  BY <1>0, <1>1, <1>2, GiveUp
<1>3. CASE /\ ~ (file[f].off > ino[i].size) /\ ~ (file[f].off + n1 > Limit)
           /\ Call(p).i < Call(p).n
           /\ ino[i].lock = None /\ ino' = [ino EXCEPT ![i].lock = p] /\ Step(p, c)
  <2>0. Call(p).pc \in Busy
    BY <1>1 DEF Busy
  <2>1. /\ IsCount(Call(p)) /\ IsCall(Call(p)) /\ IsInode(ino[i]) /\ file[f].off \in Nat
        /\ i \in Inodes
    BY <2>0, Held
  <2>2. PICK x \in Nat : x = n1
    BY <1>3, <2>1, ChunkIs DEF IsCount, Lowest
  <2>3. c = [Call(p) EXCEPT !.pc = "writei", !.n1 = x, !.tot = 0, !.log = {Inode(i)}]
    BY <2>2
  <2>7. file[f].off + x <= Limit /\ file[f].off <= ino[i].size /\ file[f].off + 0 \in Nat
        /\ file[f].off + 0 = file[f].off
    <3>1. Limit \in Nat
      BY Kinds, Numbers DEF Limit
    <3> QED
      BY <1>3, <2>1, <2>2, <3>1 DEF IsInode
  <2> HIDE DEF c
  <2>4. /\ c.pc = "writei" /\ c.n1 = x /\ c.f = f /\ c.tot = 0 /\ c.i = Call(p).i
        /\ c.n = Call(p).n
    BY <1>1, <2>1, <2>3 DEF IsCall, IsCount
  <2>5. IsCount(c) /\ c.pc \in Busy
    BY <2>1, <2>4 DEF IsCount, Busy
  <2>8. Mapped(ino[i].addrs, disk.blk, file[f].off)
    <3>1. Mapped(ino[i].addrs, disk.blk, ino[i].size) /\ ino[i].size \in Nat
      BY <2>1 DEF FilesIInv, SizesFit, IsInode
    <3> QED
      BY <2>1, <2>7, <3>1, MappedLess
  <2>6. ReadFits(c, file[f], ino[i]) /\ WriteFits(c, file[f], ino[i], disk.blk)
    BY <2>4, <2>7, <2>8 DEF ReadFits, WriteFits
  <2> QED
    BY <1>0, <1>1, <1>3, <2>0, <2>4, <2>5, <2>6, LockUp
<1> QED
  <2>1. Limit = MAXFILE * BSIZE
    BY DEF Limit
  <2> HIDE DEF c
  <2> QED
    BY <1>2, <1>3, <2>1 DEF WriteStart, c

\* Of the inodes only i has changed, and only its lock and its size, which is z now.
Resized(i, z) ==
  /\ ino' = [j \in Inodes |-> ino'[j]] /\ \A j \in Inodes : j # i => ino'[j] = ino[j]
  /\ DOMAIN ino'[i] = {"size", "addrs", "lock"}
  /\ ino'[i].size = z /\ ino'[i].addrs = ino[i].addrs

\* A call is over or goes on without the inode: its offset has moved on, the file may be
\* larger, and the lock is free.
LEMMA Unlock ==
  ASSUME FilesIInv, NEW p \in Procs, RefsIInv', Call(p).pc \in Holding, NEW c, Step(p, c),
         NEW f \in Files, f = Call(p).f, NEW i \in Inodes, i = file[f].ip,
         UNCHANGED disk, FilesNoPanic', IsCount(c), HasFd(c, proc[p].ofile), c.pc \notin Holding,
         NEW x \in Nat, UNCHANGED file \/ file' = [file EXCEPT ![f].off = x],
         NEW z \in Nat, z <= Limit, Mapped(ino[i].addrs, disk.blk, z), Resized(i, z)
  PROVE  FilesIInv'
<1>0. /\ Shapes /\ IsStore /\ SizesFit /\ \A g \in Files : file[g].off \in Nat
  BY DEF FilesIInv, RefsIInv, Counted
<1>1. ino[i].lock = p /\ p # None
  BY Held DEF Busy, Holding
<1>2. DOMAIN file = Files /\ \A g \in Files : IsFile(file[g])
  BY <1>0 DEF Shapes
<1>3. \A g \in Files : /\ file'[g].ip = file[g].ip /\ file'[g].off \in Nat
                       /\ g # f => file'[g] = file[g]
  <2>1. CASE UNCHANGED file
    BY <1>0, <2>1
  <2>2. CASE file' = [file EXCEPT ![f].off = x]
    <3>1. \A g \in Files : g # f => file'[g] = file[g]
      BY <1>2, <2>2
    <3>2. file'[f] = [file[f] EXCEPT !.off = x]
      BY <1>2, <2>2
    <3>3. file'[f].off = x /\ file'[f].ip = file[f].ip
      BY <1>2, <3>2 DEF IsFile
    <3> QED
      BY <1>0, <3>1, <3>3
  <2> QED
    BY <2>1, <2>2
<1>4. \A j \in Inodes : j # i => ino'[j] = ino[j]
  BY DEF Resized
<1>6. /\ ino'[i].size = z /\ ino'[i].addrs = ino[i].addrs
      /\ DOMAIN ino'[i] = {"size", "addrs", "lock"}
  BY DEF Resized
<1>7. \A j \in Inodes : IsInode(ino'[j]) /\ ino'[j].addrs = ino[j].addrs
  BY <1>0, <1>4, <1>6 DEF IsStore, IsInode
<1>8. IsStore'
  <2>1. ino' = [j \in Inodes |-> ino'[j]]
    BY DEF Resized
  <2> QED
    BY <1>0, <1>7, <2>1 DEF IsStore
<1>9. SizesFit'
  BY <1>0, <1>4, <1>6 DEF SizesFit
<1>10. (\E h : HasHomes(h))'
  <2>1. PICK h : HasHomes(h)
    BY DEF FilesIInv
  <2>2. Addrs' = Addrs
    BY <1>7 DEF Addrs
  <2>3. HasHomes(h)'
    BY <2>1, <2>2 DEF HasHomes
  <2> QED
    BY <2>3
<1>11. Apart(p)
  <2>1. \A j \in Inodes : ino[j].lock \notin {p, None} => Stays(j)
    BY <1>1, <1>4 DEF Stays
  <2>2. \A g \in Files : ino[file[g].ip].lock \notin {p, None} => file'[g].off = file[g].off
    BY <1>1, <1>3
  <2> QED
    BY <1>3, <2>1, <2>2 DEF Apart
<1>12. /\ \A q \in Procs : q # p => proc'[q] = proc[q]
       /\ Call(p)' = c /\ proc'[p].ofile = proc[p].ofile
  BY <1>0, Stepped
<1>13. Works(p)'
  BY <1>12, NotHolding DEF Works
<1> QED
  BY <1>3, <1>8, <1>9, <1>10, <1>11, <1>12, <1>13, FilesStep

\* iunlock().
LEMMA UnlockedIs ==
  ASSUME IsStore, NEW i \in Inodes, NEW x, ino' = [ino EXCEPT ![i].lock = x]
  PROVE  Resized(i, ino[i].size) /\ ino'[i].lock = x
<1>1. IsInode(ino[i]) /\ DOMAIN ino = Inodes
  BY DEF IsStore
<1>2. ino'[i] = [ino[i] EXCEPT !.lock = x]
  BY <1>1
<1> QED
  BY <1>1, <1>2 DEF IsInode, Resized

\* fileread() ends.
LEMMA ReadEndFiles ==
  ASSUME FilesIInv, NEW p \in Procs, ReadEnd(p)
  PROVE  FilesIInv'
<1>0. RefsIInv' /\ IsStore /\ FilesNoPanic'
  BY RefsKept DEF FilesIInv, FilesNoPanic, ReadEnd
<1>1. Call(p).pc = "readi" /\ UNCHANGED disk /\ Step(p, Idle)
  BY DEF ReadEnd, At
<1>2. Call(p).pc \in Holding /\ Call(p).pc \in Busy
  BY <1>1 DEF Holding, Busy
<1>3. PICK f \in Files : f = Call(p).f /\ file[f].ip \in Inodes
  BY <1>2, Held
<1>4. PICK i \in Inodes : i = file[f].ip
  BY <1>3
<1>5. Resized(i, ino[i].size)
  <2>1. ino' = [ino EXCEPT ![i].lock = None]
    BY <1>3, <1>4 DEF ReadEnd
  <2> QED
    BY <1>0, <2>1, UnlockedIs
<1>6. PICK x \in Nat : file' = [file EXCEPT ![f].off = x]
  <2>1. DOMAIN file = Files /\ file[f].off \in Nat /\ Call(p).tot \in Nat
    BY DEF FilesIInv, RefsIInv, Shapes, Counted, IsCount
  <2>2. file' = [file EXCEPT ![f].off = file[f].off + Call(p).tot]
    BY <1>3, <2>1 DEF ReadEnd
  <2>3. file[f].off + Call(p).tot \in Nat
    BY <2>1
  <2> QED
    BY <2>2, <2>3
<1>7. ino[i].size \in Nat /\ ino[i].size <= Limit /\ Mapped(ino[i].addrs, disk.blk, ino[i].size)
  BY DEF FilesIInv, IsStore, IsInode, SizesFit
<1>8. IsCount(Idle) /\ HasFd(Idle, proc[p].ofile) /\ Idle.pc \notin Holding
  BY IdleCount, RestWorks DEF Busy, Holding
<1> QED
  BY <1>0, <1>1, <1>2, <1>3, <1>4, <1>5, <1>6, <1>7, <1>8, Unlock

\* writei() and a turn of filewrite() end.
LEMMA WriteEndFiles ==
  ASSUME FilesIInv, NEW p \in Procs, WriteEnd(p)
  PROVE  FilesIInv'
<1>0. RefsIInv' /\ IsStore /\ FilesNoPanic' /\ Shapes
  BY RefsKept DEF FilesIInv, FilesNoPanic, WriteEnd, RefsIInv
<1>1. Call(p).pc \in {"writei", "writei_end"} /\ UNCHANGED disk
  BY DEF WriteEnd, At
<1>2. Call(p).pc \in Holding /\ Call(p).pc \in Busy
  BY <1>1 DEF Holding, Busy
<1>3. PICK f \in Files : f = Call(p).f /\ file[f].ip \in Inodes
  BY <1>2, Held
<1>4. PICK i \in Inodes : i = file[f].ip
  BY <1>3
<1>5. /\ file[f].off \in Nat /\ IsInode(ino[i]) /\ IsCount(Call(p)) /\ IsCall(Call(p))
      /\ WorksOn(p, Call(p), file[f], ino[i], disk.blk) /\ HasFd(Call(p), proc[p].ofile)
  BY <1>2, <1>3, <1>4, Held
<1>6. PICK x \in Nat : x = file[f].off + Call(p).tot
  BY <1>5 DEF IsCount
<1>7. file' = [file EXCEPT ![f].off = x]
  <2>1. DOMAIN file = Files
    BY <1>0 DEF Shapes
  <2> QED
    BY <1>3, <1>6, <2>1 DEF WriteEnd, Moved
<1>8. x <= Limit /\ Mapped(ino[i].addrs, disk.blk, x)
  <2>1. /\ file[f].off + Call(p).n1 <= Limit /\ Call(p).tot <= Call(p).n1
        /\ Mapped(ino[i].addrs, disk.blk, file[f].off + Call(p).tot)
    BY <1>1, <1>5 DEF WorksOn, WriteFits
  <2>2. Limit \in Nat
    BY Kinds, Numbers DEF Limit
  <2> QED
    BY <1>5, <1>6, <2>1, <2>2 DEF IsCount
<1>9. ino[i].size \in Nat /\ ino[i].size <= Limit /\ Mapped(ino[i].addrs, disk.blk, ino[i].size)
  BY DEF FilesIInv, IsStore, IsInode, SizesFit
<1>10. PICK z \in Nat : z = Highest(ino[i].size, x) /\ z \in {ino[i].size, x}
  BY <1>6, <1>9 DEF Highest
<1>11. Resized(i, z)
  <2>1. ino' = [ino EXCEPT ![i].size = z, ![i].lock = None]
    <3>1. DOMAIN ino = Inodes /\ IsInode(ino[i])
      BY <1>0, <1>5 DEF IsStore
    <3> QED
      BY <1>3, <1>4, <1>6, <1>10, <3>1 DEF WriteEnd, IsInode
  <2>2. DOMAIN ino = Inodes /\ DOMAIN ino[i] = {"size", "addrs", "lock"}
    BY <1>0, <1>5 DEF IsStore, IsInode
  <2>3. ino'[i] = [ino[i] EXCEPT !.size = z, !.lock = None]
    BY <2>1, <2>2
  <2> QED
    BY <2>1, <2>2, <2>3 DEF Resized
<1>12. z <= Limit /\ Mapped(ino[i].addrs, disk.blk, z)
  BY <1>8, <1>9, <1>10
<1> DEFINE c == [Idle EXCEPT !.pc = "write", !.f = Call(p).f, !.n = Call(p).n,
                             !.i = Call(p).i + Call(p).tot]
<1>13. Step(p, Idle) \/ Step(p, c)
  BY StepIf DEF WriteEnd
<1>14. IsCount(Idle) /\ HasFd(Idle, proc[p].ofile) /\ Idle.pc \notin Holding
  BY IdleCount, RestWorks DEF Busy, Holding
<1>15. IsCount(c) /\ HasFd(c, proc[p].ofile) /\ c.pc \notin Holding
  <2>1. c.pc = "write" /\ c.f = Call(p).f
    BY DEF Idle
  <2>2. IsCount(c)
    BY <1>5 DEF IsCount, Idle
  <2> HIDE DEF c
  <2> QED
    BY <1>2, <1>5, <2>1, <2>2 DEF HasFd, Holding
<1> HIDE DEF c
<1>16. ASSUME NEW e, Step(p, e), IsCount(e), HasFd(e, proc[p].ofile), e.pc \notin Holding
       PROVE  FilesIInv'
  BY <1>0, <1>1, <1>2, <1>3, <1>4, <1>7, <1>11, <1>12, <1>16, Unlock
<1> QED
  BY <1>13, <1>14, <1>15, <1>16

-----------------------------------------------------------------------------
(* bmap() for a block that the file has *)

\* A lookup in an inode begins.
Looks(s, i, l) ==
  /\ IsLook(s) /\ s.panic = "" /\ s.blk = disk.blk /\ s.used = disk.used
  /\ s.addrs = ino[i].addrs /\ s.log = l

\* It has the homes that the disk has.
LEMMA LookingIs ==
  ASSUME IsStore, NEW i \in Inodes, NEW l, NEW s, s = Looking(i, l)
  PROVE  Looks(s, i, l) /\ \A h : HasHomes(h) => Sound(s, i, h)
<1>1. /\ DOMAIN s = {"blk", "used", "addrs", "addr", "log", "panic"}
      /\ s.blk = disk.blk /\ s.used = disk.used /\ s.addrs = ino[i].addrs /\ s.log = l
      /\ s.panic = ""
  BY DEF Looking
<1>2. IsLook(s)
  BY <1>1 DEF IsStore, IsInode, IsLook
<1>3. With(i, s.addrs) = Addrs
  BY <1>1 DEF With, Addrs
<1> QED
  BY <1>1, <1>2, <1>3 DEF Sound, HasHomes, Looks

\* What has been found: only addr has changed.
Finds(s, x, t) ==
  /\ DOMAIN t = DOMAIN s /\ t.addr = x /\ t.blk = s.blk /\ t.used = s.used
  /\ t.addrs = s.addrs /\ t.log = s.log /\ t.panic = s.panic

\* A block number in ip->addrs is found there.
LEMMA TopFinds ==
  ASSUME NEW s, IsLook(s), NEW k, s.addrs[k] # 0
  PROVE  Finds(s, s.addrs[k], Top(s, k))
  BY DEF Top, IsLook, Finds

\* A block number in an index block is found there.
LEMMA SubFinds ==
  ASSUME NEW s, IsLook(s), s.panic = "", NEW k, s.addr # 0, s.blk[s.addr][k] # 0
  PROVE  Finds(s, s.blk[s.addr][k], Sub(s, k))
<1>1. Sub(s, k) = [s EXCEPT !.addr = s.blk[s.addr][k]]
  BY DEF Sub
<1> QED
  BY <1>1 DEF IsLook, Finds

\* A lookup that finds goes on from one that has found.
LEMMA FindsTwice ==
  ASSUME NEW s, IsLook(s), NEW t, NEW u, NEW x, NEW y, Finds(s, x, t)
  PROVE  IsLook(t) /\ (Finds(t, y, u) => Finds(s, y, u))
  BY DEF Finds, IsLook

\* bmap() allocates nothing for a block that the file has.
LEMMA BmapFinds ==
  ASSUME NEW s, IsLook(s), s.panic = "", NEW bn \in Nat, bn < MAXFILE,
         BlockAt(s.addrs, s.blk, bn) # 0
  PROVE  Finds(s, BlockAt(s.addrs, s.blk, bn), Bmap(s, bn))
<1> DEFINE x == BlockAt(s.addrs, s.blk, bn)
           t == Bmap(s, bn)
<1>0. ~ (bn >= MAXFILE) /\ x # 0
  BY Kinds
<1>1. ASSUME bn < NDIRECT, t = Top(s, bn) PROVE Finds(s, x, t)
  <2>1. x = s.addrs[bn]
    BY <1>1 DEF BlockAt
  <2> HIDE DEF x, t
  <2> QED
    BY <1>0, <1>1, <2>1, TopFinds
<1>2. ASSUME NEW k \in Cells, bn >= NDIRECT, k = bn - NDIRECT, bn - NDIRECT < NINDIRECT,
             t = Sub(Top(s, NDIRECT), k)
      PROVE  Finds(s, x, t)
  <2>0. ~ (bn < NDIRECT)
    BY <1>2, Kinds
  <2>1. x = BlockIn(s.blk, s.addrs[NDIRECT], k)
    BY <1>2, <2>0 DEF BlockAt
  <2> HIDE DEF x, t
  <2>2. s.addrs[NDIRECT] # 0 /\ x = s.blk[s.addrs[NDIRECT]][k]
    BY <1>0, <2>1 DEF BlockIn
  <2> DEFINE u == Top(s, NDIRECT)
  <2>3. Finds(s, s.addrs[NDIRECT], u)
    BY <2>2, TopFinds
  <2> HIDE DEF u
  <2>4. IsLook(u) /\ u.panic = "" /\ u.addr # 0 /\ u.blk[u.addr][k] = x
    BY <2>2, <2>3, FindsTwice DEF Finds
  <2>5. Finds(u, x, Sub(u, k))
    BY <1>0, <2>4, SubFinds
  <2>6. t = Sub(u, k)
    BY <1>2 DEF u
  <2> QED
    BY <2>3, <2>5, <2>6, FindsTwice
<1>3. ASSUME NEW k \in Cells, NEW l \in Cells, bn >= NDIRECT, bn - NDIRECT >= NINDIRECT,
             k = (bn - NDIRECT - NINDIRECT) \div NINDIRECT,
             l = (bn - NDIRECT - NINDIRECT) % NINDIRECT,
             t = Sub(Sub(Top(s, NDIRECT_EX), k), l)
      PROVE  Finds(s, x, t)
  <2>0. ~ (bn < NDIRECT) /\ ~ (bn - NDIRECT < NINDIRECT)
    BY <1>3, Kinds
  <2>1. x = BlockIn(s.blk, BlockIn(s.blk, s.addrs[NDIRECT_EX], k), l)
    BY <1>3, <2>0 DEF BlockAt
  <2> HIDE DEF x, t
  <2>2. PICK y : /\ s.addrs[NDIRECT_EX] # 0 /\ y = s.blk[s.addrs[NDIRECT_EX]][k] /\ y # 0
                 /\ x = s.blk[y][l]
    BY <1>0, <2>1 DEF BlockIn
  <2> DEFINE u == Top(s, NDIRECT_EX)
             v == Sub(u, k)
  <2>3. Finds(s, s.addrs[NDIRECT_EX], u)
    BY <2>2, TopFinds
  <2>6. t = Sub(v, l)
    BY <1>3
  <2> HIDE DEF u
  <2>4. IsLook(u) /\ u.panic = "" /\ u.addr # 0 /\ u.blk[u.addr][k] = y
    BY <2>2, <2>3, FindsTwice DEF Finds
  <2>5. Finds(u, y, v)
    BY <2>2, <2>4, SubFinds
  <2> HIDE DEF v
  <2>7. Finds(s, y, v)
    BY <2>3, <2>5, FindsTwice
  <2>8. IsLook(v) /\ v.panic = "" /\ v.addr # 0 /\ v.blk[v.addr][l] = x
    BY <2>2, <2>7, FindsTwice DEF Finds
  <2>9. Finds(v, x, Sub(v, l))
    BY <1>0, <2>8, SubFinds
  <2> QED
    BY <2>6, <2>7, <2>9, FindsTwice
<1> HIDE DEF x, t
<1> QED
  BY <1>0, <1>1, <1>2, <1>3, BmapIs DEF t, x

\* A block of a file stays where it is, and belongs to the file, if what is in the inodes and
\* in the index blocks stays.
LEMMA BlockStays ==
  ASSUME NEW a, NEW m, NEW U, NEW h, Placed(a, m, U, h), NEW a2, NEW m2,
         \A j \in Inodes, k \in Slots : a[j][k] # 0 => a2[j][k] = a[j][k],
         \A b \in U : h[b].lev # 0 => \A k \in Cells : m[b][k] # 0 => m2[b][k] = m[b][k],
         NEW j \in Inodes, NEW bn \in FileBlocks, BlockAt(a[j], m, bn) # 0
  PROVE  /\ BlockAt(a2[j], m2, bn) = BlockAt(a[j], m, bn)
         /\ BlockAt(a[j], m, bn) \in U /\ h[BlockAt(a[j], m, bn)].own = j
         /\ h[BlockAt(a[j], m, bn)].lev = 0
<1> DEFINE x == BlockAt(a[j], m, bn)
<1>0. TopsHome(a, U, h) /\ WordsHome(m, U, h) /\ bn \in Nat /\ bn < MAXFILE /\ ~ (bn >= MAXFILE)
  BY Kinds DEF Placed, FileBlocks
<1>1. ASSUME NEW k \in Slots, a[j][k] # 0
      PROVE  /\ a2[j][k] = a[j][k] /\ a[j][k] \in U /\ h[a[j][k]].own = j
             /\ h[a[j][k]].lev = Level(k)
  BY <1>0, <1>1 DEF TopsHome
<1>2. ASSUME NEW b \in U, h[b].lev # 0, NEW k \in Cells, m[b][k] # 0
      PROVE  /\ m2[b][k] = m[b][k] /\ m[b][k] \in U /\ h[m[b][k]].own = h[b].own
             /\ h[m[b][k]].lev = h[b].lev - 1
  BY <1>0, <1>2 DEF WordsHome
<1>3. ASSUME bn < NDIRECT, bn \in Slots
      PROVE  BlockAt(a2[j], m2, bn) = x /\ x \in U /\ h[x].own = j /\ h[x].lev = 0
  <2>1. x = a[j][bn] /\ BlockAt(a2[j], m2, bn) = a2[j][bn]
    BY <1>3 DEF BlockAt
  <2>2. Level(bn) = 0
    BY <1>0, <1>3, Kinds
  <2> HIDE DEF x
  <2> QED
    BY <1>1, <1>3, <2>1, <2>2 DEF x
<1>4. ASSUME NEW k \in Cells, bn >= NDIRECT, k = bn - NDIRECT, bn - NDIRECT < NINDIRECT
      PROVE  BlockAt(a2[j], m2, bn) = x /\ x \in U /\ h[x].own = j /\ h[x].lev = 0
  <2>0. ~ (bn < NDIRECT) /\ NDIRECT \in Slots /\ Level(NDIRECT) = 1
    BY <1>0, <1>4, Kinds
  <2>1. x = BlockIn(m, a[j][NDIRECT], k) /\ BlockAt(a2[j], m2, bn) = BlockIn(m2, a2[j][NDIRECT], k)
    BY <1>4, <2>0 DEF BlockAt
  <2>2. x # 0
    OBVIOUS
  <2> HIDE DEF x
  <2>3. PICK b : b = a[j][NDIRECT] /\ b # 0 /\ x = m[b][k]
    BY <2>1, <2>2 DEF BlockIn
  <2>4. b \in U /\ h[b].own = j /\ h[b].lev = 1 /\ a2[j][NDIRECT] = b
    BY <1>1, <2>0, <2>3
  <2>5. m2[b][k] = x /\ x \in U /\ h[x].own = j /\ h[x].lev = 0
    BY <1>2, <2>2, <2>3, <2>4
  <2> QED
    BY <2>1, <2>3, <2>4, <2>5 DEF BlockIn
<1>5. ASSUME NEW k \in Cells, NEW l \in Cells, bn >= NDIRECT, bn - NDIRECT >= NINDIRECT,
             k = (bn - NDIRECT - NINDIRECT) \div NINDIRECT,
             l = (bn - NDIRECT - NINDIRECT) % NINDIRECT
      PROVE  BlockAt(a2[j], m2, bn) = x /\ x \in U /\ h[x].own = j /\ h[x].lev = 0
  <2>0. /\ ~ (bn < NDIRECT) /\ ~ (bn - NDIRECT < NINDIRECT)
        /\ NDIRECT_EX \in Slots /\ Level(NDIRECT_EX) = 2
    BY <1>0, <1>5, Kinds
  <2>1. /\ x = BlockIn(m, BlockIn(m, a[j][NDIRECT_EX], k), l)
        /\ BlockAt(a2[j], m2, bn) = BlockIn(m2, BlockIn(m2, a2[j][NDIRECT_EX], k), l)
    BY <1>5, <2>0 DEF BlockAt
  <2>2. x # 0
    OBVIOUS
  <2> HIDE DEF x
  <2>3. PICK b, c : /\ b = a[j][NDIRECT_EX] /\ b # 0 /\ c = m[b][k] /\ c # 0 /\ x = m[c][l]
    BY <2>1, <2>2 DEF BlockIn
  <2>4. b \in U /\ h[b].own = j /\ h[b].lev = 2 /\ a2[j][NDIRECT_EX] = b
    BY <1>1, <2>0, <2>3
  <2>5. m2[b][k] = c /\ c \in U /\ h[c].own = j /\ h[c].lev = 1
    BY <1>2, <2>3, <2>4
  <2>6. m2[c][l] = x /\ x \in U /\ h[x].own = j /\ h[x].lev = 0
    BY <1>2, <2>2, <2>3, <2>5
  <2> QED
    BY <2>1, <2>3, <2>4, <2>5, <2>6 DEF BlockIn
<1> HIDE DEF x
<1> QED
  BY <1>0, <1>3, <1>4, <1>5, BmapIs DEF x

\* The part of a copy that is in one block.
LEMMA PartIs ==
  ASSUME NEW o \in Nat, NEW n \in Nat, n > 0
  PROVE  /\ Part(o, n) \in Nat /\ Part(o, n) > 0 /\ Part(o, n) <= n
         /\ (o % BSIZE) \in Cells /\ (o % BSIZE) + Part(o, n) <= BSIZE
<1>1. BSIZE \in Nat \ {0}
  BY Numbers
<1>2. PICK r \in 0..(BSIZE - 1) : r = o % BSIZE
  BY <1>1, DivMod
<1>3. r \in Cells
  BY <1>2 DEF Cells
<1>4. Part(o, n) = IF n < BSIZE - r THEN n ELSE BSIZE - r
  BY <1>2 DEF Part, Lowest
<1> QED
  BY <1>1, <1>2, <1>3, <1>4

\* The block number of an offset.
LEMMA BlockOf ==
  ASSUME NEW o \in Nat, o < Limit
  PROVE  o \div BSIZE \in FileBlocks /\ (o \div BSIZE) * BSIZE <= o
         /\ o \div BSIZE \in Nat /\ o \div BSIZE < MAXFILE
<1>1. BSIZE \in Nat \ {0} /\ MAXFILE \in Nat
  BY Numbers, Kinds
<1>2. o < BSIZE * MAXFILE
  BY <1>1 DEF Limit
<1>3. PICK q \in Nat : /\ q = o \div BSIZE /\ q < MAXFILE
                       /\ \E r \in 0..(BSIZE - 1) : o = BSIZE * q + r
  BY <1>1, <1>2, Quotient
<1>4. q * BSIZE <= o
  BY <1>1, <1>3
<1> QED
  BY <1>1, <1>3, <1>4 DEF FileBlocks

\* The blocks of some words more, which are in the block of o.
LEMMA OneBlockMore ==
  ASSUME NEW B \in Nat \ {0}, NEW q \in Nat, NEW r \in 0..(B - 1), NEW m \in Nat, r + m <= B,
         NEW bn \in Nat, bn * B < B * q + r + m
  PROVE  bn * B < B * q + r \/ bn = q
<1>1. bn * B < B * (q + 1)
  BY SMT
<1>2. bn < q + 1
  BY <1>1, SMT
<1>3. CASE bn < q
  <2>1. B * bn + 0 < B * q
    BY <1>3, DivBounds
  <2> QED
    BY <2>1
<1> QED
  BY <1>2, <1>3

-----------------------------------------------------------------------------
(* readi() *)

\* The words o of a readi() under way are in the file, and their blocks are found.
LEMMA ReadFinds ==
  ASSUME FilesIInv, NEW p \in Procs, Call(p).pc = "readi", Call(p).tot < Call(p).n,
         NEW t, t = Bmap(Looking(file[Call(p).f].ip, {}),
                         (file[Call(p).f].off + Call(p).tot) \div BSIZE)
  PROVE  LET f == Call(p).f
             i == file[f].ip
             o == file[f].off + Call(p).tot IN
         /\ f \in Files /\ i \in Inodes /\ o \in Nat /\ o < ino[i].size
         /\ o \div BSIZE \in FileBlocks
         /\ t.panic = "" /\ t.log = {} /\ t.blk = disk.blk
         /\ t.addr = BlockAt(ino[i].addrs, disk.blk, o \div BSIZE) /\ t.addr # 0
<1> DEFINE f == Call(p).f
           i == file[f].ip
           o == file[f].off + Call(p).tot
<1>0. /\ f \in Files /\ i \in Inodes /\ IsCount(Call(p)) /\ IsInode(ino[i])
      /\ file[f].off \in Nat /\ ReadFits(Call(p), file[f], ino[i]) /\ IsStore /\ SizesFit
  <2>1. Call(p).pc \in Busy
    BY DEF Busy
  <2> QED
    BY <2>1, Held DEF WorksOn, FilesIInv
<1>1. o \in Nat /\ o < ino[i].size
  BY <1>0 DEF IsCount, ReadFits, IsInode
<1>2. o < Limit /\ Mapped(ino[i].addrs, disk.blk, ino[i].size)
  <2>1. ino[i].size <= Limit /\ Limit \in Nat /\ ino[i].size \in Nat
    BY <1>0, Kinds, Numbers DEF SizesFit, Limit, IsInode
  <2> QED
    BY <1>0, <1>1, <2>1 DEF SizesFit
<1>3. PICK bn \in FileBlocks : /\ bn = o \div BSIZE /\ bn * BSIZE <= o /\ bn \in Nat
                               /\ bn < MAXFILE /\ bn * BSIZE \in Nat
  <2>1. BSIZE \in Nat
    BY Numbers
  <2> QED
    BY <1>1, <1>2, <2>1, BlockOf
<1>4. bn * BSIZE < ino[i].size
  BY <1>0, <1>1, <1>3 DEF IsInode
<1>5. BlockAt(ino[i].addrs, disk.blk, bn) # 0
  BY <1>2, <1>4 DEF Mapped
<1>a. IsStore /\ i \in Inodes
  BY <1>0
<1>b. t = Bmap(Looking(i, {}), o \div BSIZE)
  OBVIOUS
<1> HIDE DEF i, f, o
<1>d. PICK l, s : l = {} /\ s = Looking(i, l)
  OBVIOUS
<1>6. /\ IsLook(s) /\ s.panic = "" /\ s.blk = disk.blk /\ s.addrs = ino[i].addrs /\ s.log = {}
  <2>1. s = Looking(i, l) /\ i \in Inodes
    BY <1>a, <1>d
  <2>2. Looks(s, i, l)
    BY <1>a, <2>1, LookingIs
  <2> QED
    BY <1>d, <2>2 DEF Looks
<1>c. t = Bmap(s, bn)
  BY <1>3, <1>b, <1>d
<1>7. Finds(s, BlockAt(s.addrs, s.blk, bn), Bmap(s, bn))
  BY <1>3, <1>5, <1>6, BmapFinds
<1>8. Finds(s, BlockAt(ino[i].addrs, disk.blk, bn), t)
  BY <1>6, <1>7, <1>c
<1> QED
  BY <1>0, <1>1, <1>3, <1>5, <1>6, <1>8 DEF Finds, i, f, o

\* readi() reads one block.
LEMMA ReadBlockFiles ==
  ASSUME FilesIInv, NEW p \in Procs, ReadBlock(p)
  PROVE  FilesIInv'
<1> DEFINE f == Call(p).f
           i == file[f].ip
           o == file[f].off + Call(p).tot
           m == Part(o, Call(p).n - Call(p).tot)
           s == Looking(i, {})
           t == Bmap(s, o \div BSIZE)
           c == [Call(p) EXCEPT !.tot = @ + m, !.data = @ \o Copied(t.blk[t.addr], o, m)]
<1>0. /\ Call(p).pc = "readi" /\ Call(p).tot < Call(p).n /\ UNCHANGED <<disk, file>>
      /\ panic' = IF t.log # {} THEN "log_write outside of trans" ELSE t.panic
      /\ \/ Step(p, c) /\ UNCHANGED ino
         \/ Step(p, Idle) /\ ino' = [ino EXCEPT ![i].lock = None]
  BY DEF ReadBlock, At
<1>1. /\ f \in Files /\ i \in Inodes /\ o \in Nat /\ o < ino[i].size
      /\ t.panic = "" /\ t.log = {}
  BY <1>0, ReadFinds
<1>2. panic' = "" /\ FilesNoPanic' /\ RefsIInv'
  <2>1. panic' = ""
    BY <1>0, <1>1
  <2> QED
    BY <2>1, RefsKept DEF FilesNoPanic
<1>3. /\ IsCount(Call(p)) /\ IsCall(Call(p)) /\ IsInode(ino[i]) /\ file[f].off \in Nat
      /\ WorksOn(p, Call(p), file[f], ino[i], disk.blk) /\ HasFd(Call(p), proc[p].ofile)
      /\ Call(p).pc \in Busy /\ Call(p).pc \in Holding /\ Shapes
  <2>1. Call(p).pc \in Busy /\ Call(p).pc \in Holding
    BY <1>0 DEF Busy, Holding
  <2> QED
    BY <2>1, Held
<1>4. CASE Step(p, c) /\ UNCHANGED ino
  <2>1. m \in Nat /\ Call(p).tot + m <= Call(p).n
    <3>0. Call(p).n \in Int /\ Call(p).tot \in Nat /\ Call(p).tot < Call(p).n
      BY <1>0, <1>3 DEF IsCount
    <3>1. Call(p).n - Call(p).tot \in Nat /\ Call(p).n - Call(p).tot > 0
      BY <3>0
    <3>2. Part(o, Call(p).n - Call(p).tot) \in Nat
          /\ Part(o, Call(p).n - Call(p).tot) <= Call(p).n - Call(p).tot
      BY <1>1, <3>1, PartIs
    <3> QED
      BY <1>3, <3>2 DEF IsCount
  <2> HIDE DEF m, t, o
  <2>2. /\ c.pc = "readi" /\ c.n = Call(p).n /\ c.f = f /\ c.tot = Call(p).tot + m
        /\ c.i = Call(p).i /\ c.n1 = Call(p).n1
    BY <1>0, <1>3 DEF IsCall
  <2>3. Step(p, c)
    BY <1>4
  <2> HIDE DEF c
  <2>4. IsCount(c) /\ HasFd(c, proc[p].ofile)
    BY <1>3, <2>1, <2>2 DEF IsCount, HasFd
  <2>5. WorksOn(p, c, file[f], ino[i], disk.blk)
    BY <1>0, <1>3, <2>1, <2>2 DEF WorksOn, ReadFits, WriteFits, Holding
  <2>6. IsStore' /\ (\E h : HasHomes(h))' /\ SizesFit' /\ \A j \in Inodes : Stays(j)
    BY <1>0, <1>4, QuietStore
  <2>7. Apart(p) /\ \A g \in Files : file'[g].off \in Nat
    BY <1>0, <2>6 DEF Apart, FilesIInv, Counted
  <2>8. /\ \A q \in Procs : q # p => proc'[q] = proc[q]
        /\ Call(p)' = c /\ proc'[p].ofile = proc[p].ofile
    BY <1>3, <2>3, Stepped
  <2>9. Works(p)'
    BY <1>0, <1>4, <2>2, <2>4, <2>5, <2>8 DEF Works
  <2> QED
    BY <1>2, <2>4, <2>6, <2>7, <2>8, <2>9, FilesStep
<1>5. CASE Step(p, Idle) /\ ino' = [ino EXCEPT ![i].lock = None]
  <2>0. PICK j \in Inodes : j = file[f].ip
    BY <1>1
  <2>1. Resized(j, ino[j].size)
    BY <1>5, <2>0, UnlockedIs DEF FilesIInv
  <2>2. ino[j].size \in Nat /\ ino[j].size <= Limit /\ Mapped(ino[j].addrs, disk.blk, ino[j].size)
    BY DEF FilesIInv, IsStore, IsInode, SizesFit
  <2>3. IsCount(Idle) /\ HasFd(Idle, proc[p].ofile) /\ Idle.pc \notin Holding
    BY IdleCount, RestWorks DEF Busy, Holding
  <2>4. UNCHANGED disk /\ UNCHANGED file /\ 0 \in Nat /\ Step(p, Idle)
    BY <1>0, <1>5
  <2> HIDE DEF m, t, o, s, c
  <2> QED
    BY <1>1, <1>2, <1>3, <2>0, <2>1, <2>2, <2>3, <2>4, Unlock
<1> QED
  BY <1>0, <1>4, <1>5

-----------------------------------------------------------------------------
(* What writei() does to the disk *)

\* The step of writei() that has found t for inode i and leaves w in its block.
Wrote(i, t, w) ==
  /\ disk' = [used |-> t.used, blk |-> [t.blk EXCEPT ![t.addr] = w]]
  /\ ino' = [ino EXCEPT ![i].addrs = t.addrs]

\* It keeps every block of every file where it is, and the words of all but one.
LEMMA WroteIs ==
  ASSUME IsStore, NEW i \in Inodes, NEW t, NEW w \in [Cells -> Nat], Wrote(i, t, w), IsLook(t),
         t.addr \in Blocks
  PROVE  /\ IsStore' /\ disk'.used = t.used /\ Addrs' = With(i, t.addrs)
         /\ \A b \in Blocks : disk'.blk[b] = IF b = t.addr THEN w ELSE t.blk[b]
         /\ ino'[i].addrs = t.addrs
         /\ \A j \in Inodes : ino'[j].lock = ino[j].lock /\ ino'[j].size = ino[j].size
<1>0. DOMAIN ino = Inodes /\ \A j \in Inodes : IsInode(ino[j])
  BY DEF IsStore
<1>1. disk'.used = t.used /\ disk'.blk = [t.blk EXCEPT ![t.addr] = w]
      /\ DOMAIN disk' = {"blk", "used"}
  BY DEF Wrote
<1>2. t.blk \in [Blocks -> [Cells -> Nat]] /\ t.addrs \in [Slots -> Nat]
  BY DEF IsLook
<1>3. /\ disk'.blk \in [Blocks -> [Cells -> Nat]]
      /\ \A b \in Blocks : disk'.blk[b] = IF b = t.addr THEN w ELSE t.blk[b]
  BY <1>1, <1>2
<1>4. ino' = [j \in Inodes |-> ino'[j]] /\ \A j \in Inodes : j # i => ino'[j] = ino[j]
  BY <1>0 DEF Wrote
<1>5. ino'[i] = [ino[i] EXCEPT !.addrs = t.addrs]
  BY <1>0 DEF Wrote
<1>6. /\ ino'[i].addrs = t.addrs /\ ino'[i].lock = ino[i].lock /\ ino'[i].size = ino[i].size
      /\ DOMAIN ino'[i] = DOMAIN ino[i]
  BY <1>0, <1>5 DEF IsInode
<1>7. \A j \in Inodes : IsInode(ino'[j])
  BY <1>0, <1>2, <1>4, <1>6 DEF IsInode
<1>8. \A j \in Inodes : ino'[j].addrs = IF j = i THEN t.addrs ELSE ino[j].addrs
  BY <1>4, <1>6
<1>9. Addrs' = With(i, t.addrs)
  BY <1>8 DEF Addrs, With
<1>10. IsStore'
  BY <1>1, <1>3, <1>4, <1>7 DEF IsStore
<1> QED
  BY <1>1, <1>3, <1>4, <1>6, <1>9, <1>10

\* The blocks of all files stay where they are, and what is not in the block written
\* keeps its words.
LEMMA WroteKeeps ==
  ASSUME IsStore, NEW h, HasHomes(h), NEW i \in Inodes, NEW l, NEW s, s = Looking(i, l),
         NEW t, NEW g, Reached(t, i, g, 0), Kept(s, h, t, g),
         NEW w \in [Cells -> Nat], Wrote(i, t, w)
  PROVE  /\ HasHomes(g)'
         /\ \A bn \in FileBlocks : BlockAt(t.addrs, t.blk, bn) # 0 =>
              BlockAt(ino'[i].addrs, disk'.blk, bn) = BlockAt(t.addrs, t.blk, bn)
         /\ \A j \in Inodes, bn \in FileBlocks : BlockAt(ino[j].addrs, disk.blk, bn) # 0 =>
              LET x == BlockAt(ino[j].addrs, disk.blk, bn) IN
              /\ BlockAt(ino'[j].addrs, disk'.blk, bn) = x
              /\ x \in Blocks /\ (x # t.addr => disk'.blk[x] = disk.blk[x])
              /\ t.blk[x] = disk.blk[x]
<1>0. Sound(t, i, g) /\ t.addr \in t.used
  BY DEF Reached
<1>a. g[t.addr].lev = 0
  BY DEF Reached
<1>1. IsLook(t) /\ Placed(With(i, t.addrs), t.blk, t.used, g) /\ t.used \subseteq Blocks
  BY <1>0 DEF Sound, Placed
<1>2. t.addr \in Blocks
  BY <1>0, <1>1
<1>3. /\ disk'.used = t.used /\ Addrs' = With(i, t.addrs) /\ IsStore'
      /\ \A b \in Blocks : disk'.blk[b] = IF b = t.addr THEN w ELSE t.blk[b]
      /\ ino'[i].addrs = t.addrs
  BY <1>1, <1>2, WroteIs
<1>4. \A b \in Blocks : b # t.addr => disk'.blk[b] = t.blk[b]
  BY <1>3
<1>5. Placed(With(i, t.addrs), disk'.blk, t.used, g)
  BY <1>0, <1>1, <1>4, <1>a, WriteLeaf
<1>6. HasHomes(g)'
  BY <1>3, <1>5 DEF HasHomes
<1>b. With(i, t.addrs)[i] = t.addrs
  BY DEF With
<1>7. \A b \in t.used : g[b].lev # 0 => disk'.blk[b] = t.blk[b]
  BY <1>1, <1>4, <1>a
<1>8. \A bn \in FileBlocks : BlockAt(t.addrs, t.blk, bn) # 0 =>
        BlockAt(t.addrs, disk'.blk, bn) = BlockAt(t.addrs, t.blk, bn)
  <2> DEFINE a == With(i, t.addrs)
  <2>1. Placed(a, t.blk, t.used, g) /\ a[i] = t.addrs
    BY <1>1, <1>b
  <2> HIDE DEF a
  <2>2. \A j \in Inodes, k \in Slots : a[j][k] # 0 => a[j][k] = a[j][k]
    OBVIOUS
  <2>3. \A b \in t.used : g[b].lev # 0 =>
          \A k \in Cells : t.blk[b][k] # 0 => disk'.blk[b][k] = t.blk[b][k]
    BY <1>7
  <2>4. \A bn \in FileBlocks : BlockAt(a[i], t.blk, bn) # 0 =>
          BlockAt(a[i], disk'.blk, bn) = BlockAt(a[i], t.blk, bn)
    BY <2>1, <2>2, <2>3, BlockStays
  <2> QED
    BY <2>1, <2>4
<1>9. Looks(s, i, l)
  BY LookingIs
<1>10. Placed(Addrs, disk.blk, disk.used, h) /\ s.blk = disk.blk /\ s.used = disk.used
       /\ s.addrs = ino[i].addrs
  BY <1>9 DEF Looks, HasHomes
<1>11. \A j \in Inodes, k \in Slots : Addrs[j][k] # 0 => Addrs'[j][k] = Addrs[j][k]
  <2>1. \A k \in Slots : ino[i].addrs[k] # 0 => t.addrs[k] = ino[i].addrs[k]
    BY <1>10 DEF Kept
  <2>2. \A j \in Inodes : Addrs[j] = ino[j].addrs
                          /\ Addrs'[j] = IF j = i THEN t.addrs ELSE ino[j].addrs
    BY <1>3 DEF Addrs, With
  <2> QED
    BY <2>1, <2>2
<1>12. \A b \in disk.used : h[b].lev # 0 =>
         \A k \in Cells : disk.blk[b][k] # 0 => disk'.blk[b][k] = disk.blk[b][k]
  <2>1. \A b \in disk.used : b \in t.used /\ g[b] = h[b]
          /\ \A k \in Cells : disk.blk[b][k] # 0 => t.blk[b][k] = disk.blk[b][k]
    BY <1>10 DEF Kept
  <2> QED
    BY <1>7, <2>1
<1>13. ASSUME NEW j \in Inodes, NEW bn \in FileBlocks, BlockAt(ino[j].addrs, disk.blk, bn) # 0
       PROVE  LET x == BlockAt(ino[j].addrs, disk.blk, bn) IN
              /\ BlockAt(ino'[j].addrs, disk'.blk, bn) = x
              /\ x \in Blocks /\ (x # t.addr => disk'.blk[x] = disk.blk[x])
              /\ t.blk[x] = disk.blk[x]
  <2> DEFINE x == BlockAt(ino[j].addrs, disk.blk, bn)
  <2>1. Addrs[j] = ino[j].addrs /\ Addrs'[j] = ino'[j].addrs
    BY DEF Addrs
  <2>2. BlockAt(Addrs[j], disk.blk, bn) # 0
    BY <1>13, <2>1
  <2>3. /\ BlockAt(Addrs'[j], disk'.blk, bn) = BlockAt(Addrs[j], disk.blk, bn)
        /\ BlockAt(Addrs[j], disk.blk, bn) \in disk.used
        /\ h[BlockAt(Addrs[j], disk.blk, bn)].lev = 0
    <3>1. Placed(Addrs, disk.blk, disk.used, h)
      BY <1>10
    <3> QED
      BY <1>11, <1>12, <2>2, <3>1, BlockStays
  <2>4. BlockAt(ino'[j].addrs, disk'.blk, bn) = x /\ x \in disk.used /\ h[x].lev = 0
    BY <2>1, <2>3
  <2> HIDE DEF x
  <2>5. x \in t.used /\ t.blk[x] = disk.blk[x]
    <3>1. \A b \in disk.used : b \in t.used /\ (h[b].lev = 0 => t.blk[b] = disk.blk[b])
      BY <1>10 DEF Kept
    <3> QED
      BY <2>4, <3>1
  <2>6. x \in Blocks /\ (x # t.addr => disk'.blk[x] = disk.blk[x])
    BY <1>1, <1>4, <2>5
  <2> QED
    BY <2>4, <2>5, <2>6 DEF x
<1> QED
  BY <1>3, <1>6, <1>8, <1>13

-----------------------------------------------------------------------------
(* writei() *)

\* Block b after k words of process p have been copied into it at offset o.
Filled(p, c, b, o, k) ==
  [x \in DOMAIN b |-> IF x \in (o % BSIZE)..((o % BSIZE) + k - 1)
                      THEN Source(p, c.i + c.tot + x - (o % BSIZE) + 1) ELSE b[x]]

\* A step of writei(): the lookup has found t, and k words are copied.
WritesTo(p, h, t, g, k) ==
  LET c == Call(p)
      i == file[c.f].ip
      o == file[c.f].off + c.tot
      m == Part(o, c.n1 - c.tot) IN
  /\ HasHomes(h) /\ Reached(t, i, g, 0) /\ Kept(Looking(i, c.log), h, t, g)
  /\ t.addr = BlockAt(t.addrs, t.blk, o \div BSIZE)
  /\ k \in 0..m /\ panic' = "" /\ UNCHANGED file
  /\ Wrote(i, t, Filled(p, c, t.blk[t.addr], o, k))
  /\ Step(p, IF k = m THEN [c EXCEPT !.tot = @ + m, !.log = t.log \cup {Data(t.addr)}]
                      ELSE [c EXCEPT !.pc = "writei_end", !.log = t.log])

\* The numbers of a writei() under way.
WriteAt(p) ==
  LET c == Call(p)
      f == c.f
      i == file[f].ip
      o == file[f].off + c.tot
      m == Part(o, c.n1 - c.tot) IN
  /\ f \in Files /\ i \in Inodes /\ o \in Nat /\ o < Limit /\ o \div BSIZE \in FileBlocks
  /\ o \div BSIZE \in Nat /\ o \div BSIZE < MAXFILE
  /\ m \in Nat /\ m > 0 /\ c.tot + m <= c.n1
  /\ o % BSIZE \in Cells /\ (o % BSIZE) + m <= BSIZE

\* What writei() copies stays within one block and within the largest file.
LEMMA WriteNumbers ==
  ASSUME FilesIInv, NEW p \in Procs, Call(p).pc = "writei", Call(p).tot < Call(p).n1
  PROVE  WriteAt(p)
<1> DEFINE c == Call(p)
           f == c.f
           i == file[f].ip
           o == file[f].off + c.tot
           n == c.n1 - c.tot
<1>0. Call(p).pc \in Busy
  BY DEF Busy
<1>1. /\ f \in Files /\ i \in Inodes /\ file[f].off \in Nat /\ IsCount(c)
      /\ WriteFits(c, file[f], ino[i], disk.blk)
  BY <1>0, Held DEF WorksOn
<1>2. /\ c.tot \in Nat /\ c.n1 \in Nat /\ c.tot < c.n1 /\ file[f].off + c.n1 <= Limit
      /\ Limit \in Nat
  BY <1>1, Kinds, Numbers DEF IsCount, WriteFits, Limit
<1>3. o \in Nat /\ n \in Nat /\ n > 0 /\ o < Limit
  BY <1>1, <1>2
<1> HIDE DEF o, n
<1>4. /\ o \div BSIZE \in FileBlocks /\ o \div BSIZE \in Nat /\ o \div BSIZE < MAXFILE
  BY <1>3, BlockOf
<1>5. /\ Part(o, n) \in Nat /\ Part(o, n) > 0 /\ Part(o, n) <= n
      /\ (o % BSIZE) \in Cells /\ (o % BSIZE) + Part(o, n) <= BSIZE
  BY <1>3, PartIs
<1>6. c.tot + Part(o, n) <= c.n1
  BY <1>2, <1>5 DEF n
<1> QED
  BY <1>1, <1>3, <1>4, <1>5, <1>6 DEF WriteAt, o, n

\* writei() writes to one block of its file, or the disk is full.
LEMMA WriteBlockIs ==
  ASSUME FilesIInv, NEW p \in Procs, WriteBlock(p)
  PROVE  \/ panic' = "balloc: out of blocks" /\ UNCHANGED <<disk, ino, proc, file>>
         \/ \E h, t, g, k : WritesTo(p, h, t, g, k)
<1> DEFINE c == Call(p)
           f == c.f
           i == file[f].ip
           o == file[f].off + c.tot
           m == Part(o, c.n1 - c.tot)
           s == Looking(i, c.log)
           t == Bmap(s, o \div BSIZE)
<1>0. /\ Call(p).pc = "writei" /\ Call(p).tot < Call(p).n1 /\ panic' = t.panic /\ UNCHANGED file
      /\ t.panic # "" => UNCHANGED <<disk, ino, proc>>
      /\ t.panic = "" => \E k \in 0..m :
           /\ Wrote(i, t, Filled(p, c, t.blk[t.addr], o, k))
           /\ Step(p, IF k = m THEN [c EXCEPT !.tot = @ + m, !.log = t.log \cup {Data(t.addr)}]
                               ELSE [c EXCEPT !.pc = "writei_end", !.log = t.log])
  BY DEF WriteBlock, At, Wrote, Filled
<1>1. WriteAt(p)
  BY <1>0, WriteNumbers
<1>2. i \in Inodes /\ o \div BSIZE \in Nat /\ o \div BSIZE < MAXFILE
  BY <1>1 DEF WriteAt
<1>3. PICK h : HasHomes(h) /\ IsStore
  BY DEF FilesIInv
<1> HIDE DEF m, o, i
<1>4. Sound(s, i, h)
  <2>1. PICK l, u : l = c.log /\ u = Looking(i, l)
    OBVIOUS
  <2>2. Sound(u, i, h)
    BY <1>2, <1>3, <2>1, LookingIs
  <2> QED
    BY <2>1, <2>2
<1> HIDE DEF s
<1>5. \/ DiskFull(t)
      \/ /\ t.addr = BlockAt(t.addrs, t.blk, o \div BSIZE)
         /\ \E g : Reached(t, i, g, 0) /\ Kept(s, h, t, g)
  BY <1>2, <1>4, BmapKeeps
<1> HIDE DEF t
<1>6. CASE DiskFull(t)
  BY <1>0, <1>6 DEF DiskFull
<1>7. CASE /\ t.addr = BlockAt(t.addrs, t.blk, o \div BSIZE)
           /\ \E g : Reached(t, i, g, 0) /\ Kept(s, h, t, g)
  <2>1. PICK g : Reached(t, i, g, 0) /\ Kept(s, h, t, g)
    BY <1>7
  <2>2. t.panic = ""
    BY <2>1 DEF Reached, Sound
  <2>3. PICK k \in 0..m :
           /\ Wrote(i, t, Filled(p, c, t.blk[t.addr], o, k))
           /\ Step(p, IF k = m THEN [c EXCEPT !.tot = @ + m, !.log = t.log \cup {Data(t.addr)}]
                               ELSE [c EXCEPT !.pc = "writei_end", !.log = t.log])
    BY <1>0, <2>2
  <2>4. panic' = "" /\ UNCHANGED file
    BY <1>0, <2>2
  <2>5. WritesTo(p, h, t, g, k)
    BY <1>3, <1>7, <2>1, <2>3, <2>4 DEF WritesTo, s, i, o, m
  <2> QED
    BY <2>5
<1> QED
  BY <1>5, <1>6, <1>7

\* The words of a buffer are numbers.
LEMMA SourceNat ==
  ASSUME NEW p \in Procs, NEW x \in Int
  PROVE  Source(p, x) \in Nat
<1>1. p \in Nat /\ x % 2 \in 0..1
  BY FilesAssumption
<1> QED
  BY <1>1 DEF Source

\* A block that has been written in part is a block.
LEMMA FilledIs ==
  ASSUME NEW p \in Procs, NEW c, IsCount(c), NEW b \in [Cells -> Nat], NEW o \in Nat, NEW k \in Nat
  PROVE  Filled(p, c, b, o, k) \in [Cells -> Nat]
<1>1. BSIZE \in Nat \ {0}
  BY Numbers
<1>2. PICK r \in Int : r = o % BSIZE
  BY <1>1, DivMod
<1>3. \A x \in Cells : Source(p, c.i + c.tot + x - r + 1) \in Nat
  <2>1. \A x \in Cells : x \in Int
    BY DEF Cells
  <2>2. c.i \in Nat /\ c.tot \in Nat
    BY DEF IsCount
  <2>3. \A x \in Cells : c.i + c.tot + x - r + 1 \in Int
    BY <2>1, <2>2
  <2> QED
    BY <2>3, SourceNat
<1> QED
  BY <1>2, <1>3 DEF Filled

\* writei() writes one block.
LEMMA WriteBlockFiles ==
  ASSUME FilesIInv, NEW p \in Procs, WriteBlock(p)
  PROVE  FilesIInv'
<1> DEFINE c == Call(p)
           f == c.f
           i == file[f].ip
           o == file[f].off + c.tot
           m == Part(o, c.n1 - c.tot)
<1>0. c.pc = "writei" /\ c.tot < c.n1 /\ UNCHANGED file /\ RefsIInv'
  BY RefsKept DEF WriteBlock, At
<1>1. WriteAt(p)
  BY <1>0, WriteNumbers
<1>2. /\ IsCount(c) /\ IsCall(c) /\ file[f].off \in Nat /\ Shapes
      /\ WorksOn(p, c, file[f], ino[i], disk.blk) /\ HasFd(c, proc[p].ofile)
      /\ c.pc \in Busy /\ c.pc \in Holding
  <2>1. c.pc \in Busy /\ c.pc \in Holding
    BY <1>0 DEF Busy, Holding
  <2> QED
    BY <2>1, Held
<1>3. \A x \in Files : file'[x].off \in Nat
  BY <1>0 DEF FilesIInv, Counted
<1>4. CASE panic' = "balloc: out of blocks" /\ UNCHANGED <<disk, ino, proc, file>>
  <2>1. IsStore' /\ (\E h : HasHomes(h))' /\ SizesFit' /\ \A j \in Inodes : Stays(j)
    BY <1>4, QuietStore
  <2>2. Apart(p) /\ FilesNoPanic'
    BY <1>4, <2>1 DEF Apart, FilesNoPanic
  <2>3. Works(p)' /\ IsCount(Call(p)') /\ \A q \in Procs : q # p => proc'[q] = proc[q]
    BY <1>2, <1>4 DEF Works, Call
  <2> QED
    BY <1>0, <1>3, <2>1, <2>2, <2>3, FilesStep
<1>5. CASE \E h, t, g, k : WritesTo(p, h, t, g, k)
  <2>1. PICK h, t, g, k : WritesTo(p, h, t, g, k)
    BY <1>5
  <2>2. /\ HasHomes(h) /\ Reached(t, i, g, 0) /\ Kept(Looking(i, c.log), h, t, g)
        /\ t.addr = BlockAt(t.addrs, t.blk, o \div BSIZE)
        /\ k \in 0..m /\ panic' = ""
        /\ Wrote(i, t, Filled(p, c, t.blk[t.addr], o, k))
        /\ Step(p, IF k = m THEN [c EXCEPT !.tot = @ + m, !.log = t.log \cup {Data(t.addr)}]
                            ELSE [c EXCEPT !.pc = "writei_end", !.log = t.log])
    BY <2>1 DEF WritesTo
  <2>3. /\ f \in Files /\ i \in Inodes /\ o \in Nat /\ o \div BSIZE \in FileBlocks
        /\ m \in Nat /\ c.tot + m <= c.n1 /\ (o % BSIZE) + m <= BSIZE /\ IsStore
        /\ k \in Nat /\ IsLook(t) /\ t.addr \in Blocks /\ t.addr # 0
    <3>1. Sound(t, i, g) /\ t.addr \in t.used /\ t.addr # 0
      BY <2>2 DEF Reached
    <3>2. IsLook(t) /\ t.addr \in Blocks
      BY <3>1 DEF Sound, Placed
    <3>3. /\ f \in Files /\ i \in Inodes /\ o \in Nat /\ o \div BSIZE \in FileBlocks
          /\ m \in Nat /\ c.tot + m <= c.n1 /\ (o % BSIZE) + m <= BSIZE
      BY <1>1 DEF WriteAt
    <3>4. k \in 0..m
      BY <2>2
    <3> HIDE DEF m
    <3>5. k \in Nat
      BY <3>3, <3>4
    <3> QED
      BY <3>1, <3>2, <3>3, <3>5 DEF FilesIInv
  <2> HIDE DEF m
  <2>4. PICK w \in [Cells -> Nat] : Wrote(i, t, w)
    <3>1. t.blk[t.addr] \in [Cells -> Nat]
      BY <2>3 DEF IsLook
    <3>2. IsCount(c) /\ o \in Nat /\ k \in Nat
      BY <1>2, <2>3
    <3> HIDE DEF c, o, f
    <3>3. Filled(p, c, t.blk[t.addr], o, k) \in [Cells -> Nat]
      BY <3>1, <3>2, FilledIs
    <3> QED
      BY <2>2, <3>3
  <2>5. /\ IsStore' /\ ino'[i].addrs = t.addrs
        /\ \A j \in Inodes : ino'[j].lock = ino[j].lock /\ ino'[j].size = ino[j].size
    BY <2>3, <2>4, WroteIs
  <2>6. /\ HasHomes(g)'
        /\ \A bn \in FileBlocks : BlockAt(t.addrs, t.blk, bn) # 0 =>
             BlockAt(ino'[i].addrs, disk'.blk, bn) = BlockAt(t.addrs, t.blk, bn)
        /\ \A j \in Inodes, bn \in FileBlocks : BlockAt(ino[j].addrs, disk.blk, bn) # 0 =>
             BlockAt(ino'[j].addrs, disk'.blk, bn) = BlockAt(ino[j].addrs, disk.blk, bn)
    <3>1. PICK l, s : l = c.log /\ s = Looking(i, l) /\ Kept(s, h, t, g)
      BY <2>2
    <3>2. i \in Inodes /\ IsStore /\ HasHomes(h) /\ Reached(t, i, g, 0) /\ s = Looking(i, l)
      BY <2>2, <2>3, <3>1
    <3> HIDE DEF i
    <3> QED
      BY <2>4, <3>1, <3>2, WroteKeeps
  <2>7. \A j \in Inodes : Stays(j)
    BY <2>5, <2>6 DEF Stays
  <2>8. \A j \in Inodes : \A e : Mapped(ino[j].addrs, disk.blk, e) =>
                                 Mapped(ino'[j].addrs, disk'.blk, e)
    BY <2>7 DEF Mapped, Stays
  <2>9. SizesFit'
    BY <2>5, <2>8 DEF FilesIInv, SizesFit
  <2>10. Apart(p) /\ FilesNoPanic'
    BY <1>0, <2>2, <2>7 DEF Apart, FilesNoPanic
  <2>11. WriteFits(c, file[f], ino[i], disk.blk) /\ ino[i].lock = p
    BY <1>2 DEF WorksOn
  <2>12. /\ file[f].off <= ino'[i].size /\ file[f].off + c.n1 <= Limit /\ c.tot <= c.n1
         /\ Mapped(ino'[i].addrs, disk'.blk, file[f].off + c.tot)
    BY <1>0, <2>3, <2>5, <2>8, <2>11 DEF WriteFits
  <2>13. Mapped(ino'[i].addrs, disk'.blk, file[f].off + (c.tot + m))
    <3> SUFFICES ASSUME NEW bn \in FileBlocks, bn * BSIZE < file[f].off + (c.tot + m)
                 PROVE  BlockAt(ino'[i].addrs, disk'.blk, bn) # 0
      BY DEF Mapped
    <3>1. bn \in Nat /\ BSIZE \in Nat \ {0}
      BY Numbers, Kinds DEF FileBlocks
    <3>2. PICK q \in Nat, r \in 0..(BSIZE - 1) :
            q = o \div BSIZE /\ r = o % BSIZE /\ o = BSIZE * q + r
      BY <2>3, <3>1, Quotient
    <3>3. r + m <= BSIZE /\ bn * BSIZE < BSIZE * q + r + m
      <4>1. c.tot \in Nat
        BY <1>2 DEF IsCount
      <4>2. file[f].off + (c.tot + m) = o + m
        BY <1>2, <2>3, <4>1
      <4> HIDE DEF o
      <4>3. bn * BSIZE < o + m
        BY <4>2
      <4> QED
        BY <2>3, <3>2, <4>3
    <3>4. bn * BSIZE < BSIZE * q + r \/ bn = q
      BY <2>3, <3>1, <3>2, <3>3, OneBlockMore
    <3>5. CASE bn * BSIZE < BSIZE * q + r
      <4>1. bn * BSIZE < file[f].off + c.tot
        BY <3>2, <3>5
      <4> QED
        BY <2>12, <4>1 DEF Mapped
    <3>6. CASE bn = q
      <4>1. BlockAt(t.addrs, t.blk, bn) # 0
        BY <2>2, <2>3, <3>2, <3>6
      <4> QED
        BY <2>6, <4>1
    <3> QED
      BY <3>4, <3>5, <3>6
  <2>14. ASSUME NEW d, Step(p, d), IsCount(d), d.f = c.f, d.pc \in {"writei", "writei_end"},
                d.n1 = c.n1, d.tot <= c.n1, Mapped(ino'[i].addrs, disk'.blk, file[f].off + d.tot)
         PROVE  FilesIInv'
    <3>1. /\ \A q \in Procs : q # p => proc'[q] = proc[q]
          /\ Call(p)' = d /\ proc'[p].ofile = proc[p].ofile
      BY <1>2, <2>14, Stepped
    <3>2. HasFd(d, proc[p].ofile)
      BY <1>2, <2>14 DEF HasFd
    <3>3. WorksOn(p, d, file[f], ino'[i], disk'.blk)
      BY <2>5, <2>3, <2>11, <2>12, <2>14 DEF WorksOn, ReadFits, WriteFits
    <3>4. Works(p)'
      BY <1>0, <2>14, <3>1, <3>2, <3>3 DEF Works
    <3>5. (\E x : HasHomes(x))'
      BY <2>6
    <3> QED
      BY <1>0, <1>3, <2>5, <2>9, <2>10, <2>14, <3>1, <3>4, <3>5, FilesStep
  <2>15. CASE k = m
    <3> DEFINE d == [c EXCEPT !.tot = c.tot + m, !.log = t.log \cup {Data(t.addr)}]
    <3>1. Step(p, d)
      BY <2>2, <2>15
    <3>2. /\ d.pc = "writei" /\ d.f = c.f /\ d.n1 = c.n1 /\ d.tot = c.tot + m /\ d.n = c.n
          /\ d.i = c.i
      BY <1>0, <1>2 DEF IsCall
    <3> HIDE DEF d, c, f
    <3>3. IsCount(d)
      BY <1>2, <2>3, <3>2 DEF IsCount
    <3> QED
      BY <2>3, <2>13, <2>14, <3>1, <3>2, <3>3
  <2>16. CASE k # m
    <3> DEFINE d == [c EXCEPT !.pc = "writei_end", !.log = t.log]
    <3>1. Step(p, d)
      BY <2>2, <2>16
    <3>2. d.pc = "writei_end" /\ d.f = c.f /\ d.n1 = c.n1 /\ d.tot = c.tot /\ d.n = c.n /\ d.i = c.i
      BY <1>0, <1>2 DEF IsCall
    <3> HIDE DEF d, c, f
    <3>3. IsCount(d)
      BY <1>2, <3>2 DEF IsCount
    <3> QED
      BY <2>12, <2>14, <3>1, <3>2, <3>3
  <2> QED
    BY <2>15, <2>16
<1> QED
  BY <1>4, <1>5, WriteBlockIs

-----------------------------------------------------------------------------
(* open(), and the theorems *)

\* itrunc() leaves an inode that nobody has locked without blocks, and frees them once.
LEMMA TruncStore ==
  ASSUME FilesIInv, NEW i \in Inodes, Itrunc(i)
  PROVE  /\ IsStore' /\ (\E h : HasHomes(h))' /\ SizesFit' /\ panic' = ""
         /\ \A j \in Inodes : j # i => Stays(j)
         /\ disk'.blk = disk.blk /\ ino'[i].size = 0 /\ ino'[i].lock = ino[i].lock
         /\ \A j \in Inodes : j # i => ino'[j] = ino[j]
<1>0. IsStore /\ SizesFit /\ DOMAIN disk = {"blk", "used"} /\ DOMAIN ino = Inodes
      /\ \A j \in Inodes : IsInode(ino[j])
  BY DEF FilesIInv, IsStore
<1>1. PICK h : HasHomes(h)
  BY DEF FilesIInv
<1>2. Freed(i) = {x \in disk.used : h[x].own = i}
  BY <1>0, <1>1, TreeOf
<1>3. panic' = ""
  BY <1>2 DEF Itrunc
<1>4. disk'.blk = disk.blk /\ DOMAIN disk' = DOMAIN disk
      /\ disk'.used = {x \in disk.used : h[x].own # i}
  <2>1. disk' = [disk EXCEPT !.used = disk.used \ Freed(i)]
    BY DEF Itrunc
  <2>2. disk'.blk = disk.blk /\ DOMAIN disk' = DOMAIN disk /\ disk'.used = disk.used \ Freed(i)
    BY <1>0, <2>1
  <2> QED
    BY <1>2, <2>2
<1>5. \A j \in Inodes : j # i => ino'[j] = ino[j]
  BY <1>0 DEF Itrunc
<1>6. ino' = [j \in Inodes |-> ino'[j]]
  BY <1>0 DEF Itrunc
<1>7. /\ ino'[i].size = 0 /\ ino'[i].lock = ino[i].lock /\ DOMAIN ino'[i] = DOMAIN ino[i]
      /\ ino'[i].addrs = [k \in DOMAIN ino[i].addrs |-> 0]
  BY <1>0 DEF Itrunc, IsInode
<1>8. ino'[i].addrs \in [Slots -> Nat] /\ \A k \in Slots : ino'[i].addrs[k] = 0
  BY <1>0, <1>7 DEF IsInode
<1>9. IsStore'
  BY <1>0, <1>4, <1>5, <1>6, <1>7, <1>8 DEF IsStore, IsInode
<1>10. \A j \in Inodes, k \in Slots : Addrs'[j][k] = IF j = i THEN 0 ELSE Addrs[j][k]
  <2>1. \A j \in Inodes : Addrs'[j] = ino'[j].addrs /\ Addrs[j] = ino[j].addrs
    BY DEF Addrs
  <2> QED
    BY <1>5, <1>8, <2>1
<1>11. HasHomes(h)'
  <2>1. Placed(Addrs, disk.blk, disk.used, h)
    BY <1>1 DEF HasHomes
  <2>2. Placed(Addrs', disk.blk, disk'.used, h)
    BY <1>4, <1>10, <2>1, Detach
  <2> QED
    BY <1>4, <2>2 DEF HasHomes
<1>12. \A j \in Inodes : j # i => Stays(j)
  BY <1>4, <1>5 DEF Stays
<1>13. SizesFit'
  <2>1. Mapped(ino'[i].addrs, disk'.blk, 0)
    <3>1. \A bn \in FileBlocks : ~ (bn * BSIZE < 0)
      <4>1. BSIZE \in Nat /\ \A bn \in FileBlocks : bn \in Nat
        BY Numbers, Kinds DEF FileBlocks
      <4> QED
        BY <4>1
    <3> QED
      BY <3>1 DEF Mapped
  <2>2. 0 <= Limit
    BY Kinds, Numbers DEF Limit
  <2> QED
    BY <1>0, <1>4, <1>5, <1>7, <2>1, <2>2 DEF SizesFit
<1> QED
  BY <1>3, <1>4, <1>5, <1>7, <1>9, <1>11, <1>12, <1>13

\* open().
LEMMA OpenFiles ==
  ASSUME FilesIInv, NEW p \in Procs, SysOpen(p)
  PROVE  FilesIInv'
<1>0. Shapes /\ RefsIInv' /\ Counted /\ IsStore
  BY RefsKept DEF FilesIInv, RefsIInv
<1>1. PICK i \in Inodes : i = Arg(p, 2) /\ ino[i].lock = None
  BY <1>0, HeadCall DEF SysOpen
<1>2. \E o : Start(p, Idle, o)
  BY DEF SysOpen
<1>3. (\A q \in Procs : q # p => proc'[q] = proc[q]) /\ Call(p)' = Idle
  BY <1>0, <1>2, Started
<1>4. Works(p)' /\ IsCount(Call(p)')
  BY <1>3, IdleCount, RestWorks DEF Works
<1>5. \A f \in Files : /\ file'[f].off \in Nat
                       /\ file[f].ref >= 1 => file'[f] = file[f]
  <2>1. CASE UNCHANGED file
    BY <1>0, <2>1 DEF Counted
  <2>2. CASE FreeFiles # {} /\ \E e : e.off = 0 /\ file' = [file EXCEPT ![Min(FreeFiles)] = e]
    <3>1. Min(FreeFiles) \in Files /\ file[Min(FreeFiles)].ref = 0
      BY <1>0, <2>2, FirstFree
    <3>2. DOMAIN file = Files /\ \A f \in Files : file[f].off \in Nat
      BY <1>0 DEF Shapes, Counted
    <3> QED
      BY <2>2, <3>1, <3>2
  <2> QED
    <3>1. \/ UNCHANGED file
          \/ FreeFiles # {} /\ \E e : e.off = 0 /\ file' = [file EXCEPT ![Min(FreeFiles)] = e]
      BY DEF SysOpen
    <3> QED
      BY <2>1, <2>2, <3>1
<1>6. CASE UNCHANGED <<disk, ino, panic>>
  <2>1. IsStore' /\ (\E h : HasHomes(h))' /\ SizesFit' /\ \A j \in Inodes : Stays(j)
    BY <1>6, QuietStore
  <2>2. Apart(p) /\ FilesNoPanic'
    BY <1>5, <1>6, <2>1 DEF Apart, FilesNoPanic, FilesIInv
  <2> QED
    BY <1>0, <1>3, <1>4, <1>5, <2>1, <2>2, FilesStep
<1>7. CASE Itrunc(i)
  <2>1. /\ IsStore' /\ (\E h : HasHomes(h))' /\ SizesFit' /\ panic' = ""
        /\ \A j \in Inodes : j # i => Stays(j)
    BY <1>7, TruncStore
  <2>2. FilesNoPanic'
    BY <2>1 DEF FilesNoPanic
  <2>3. Apart(p)
    BY <1>1, <1>5, <2>1 DEF Apart
  <2> QED
    BY <1>0, <1>3, <1>4, <1>5, <2>1, <2>2, <2>3, FilesStep
<1> QED
  BY <1>1, <1>6, <1>7 DEF SysOpen

\* An inode without contents.
LEMMA NewInode ==
  ASSUME NEW a \in [Slots -> Nat], NEW r, r = [size |-> 0, addrs |-> a, lock |-> None]
  PROVE  r.addrs = a /\ r.size = 0 /\ IsInode(r)
<1>1. r.addrs = a /\ r.size = 0
  OBVIOUS
<1>2. DOMAIN r = {"size", "addrs", "lock"}
  OBVIOUS
<1> QED
  BY <1>1, <1>2 DEF IsInode

\* The empty disk.
LEMMA InitFiles == Init => FilesIInv
<1> SUFFICES ASSUME Init PROVE FilesIInv
  OBVIOUS
<1>1. RefsIInv
  BY InitRefs
<1>2. \A p \in Procs : Call(p) = Idle
  <2>1. PICK prog \in Programs :
          proc = [p \in Procs |-> [call |-> Idle, todo |-> prog[p],
                                   ofile |-> [d \in Fds |-> IF d = 0 THEN 1 ELSE 0]]]
    BY DEF Init, Fds
  <2> QED
    BY <2>1 DEF Call
<1>3. \A f \in Files : file[f].off = 0
  BY DEF Init, FreeFile
<1>4. disk.used = {} /\ disk.blk = [b \in Blocks |-> Zero] /\ DOMAIN disk = {"blk", "used"}
  BY DEF Init
<1>5. \A i \in Inodes : ino[i] = [size |-> 0, addrs |-> [k \in 0..NDIRECT_EX |-> 0], lock |-> None]
  BY DEF Init
<1>6. \A i \in Inodes : /\ IsInode(ino[i]) /\ ino[i].size = 0
                        /\ \A k \in Slots : ino[i].addrs[k] = 0
  <2> SUFFICES ASSUME NEW i \in Inodes
               PROVE  /\ IsInode(ino[i]) /\ ino[i].size = 0
                      /\ \A k \in Slots : ino[i].addrs[k] = 0
    OBVIOUS
  <2>1. PICK a : a = [k \in 0..NDIRECT_EX |-> 0]
    OBVIOUS
  <2>2. a \in [Slots -> Nat] /\ \A k \in Slots : a[k] = 0
    BY <2>1 DEF Slots
  <2>3. ino[i] = [size |-> 0, addrs |-> a, lock |-> None]
    BY <1>5, <2>1
  <2>4. ino[i].addrs = a /\ ino[i].size = 0 /\ IsInode(ino[i])
    BY <2>2, <2>3, NewInode
  <2> QED
    BY <2>2, <2>4
<1>7. IsStore
  <2>1. Zero \in [Cells -> Nat]
    BY DEF Zero, Cells
  <2>2. ino = [i \in Inodes |-> ino[i]]
    BY DEF Init
  <2> QED
    BY <1>4, <1>6, <2>1, <2>2 DEF IsStore
<1>8. \E h : HasHomes(h)
  <2>1. \A i \in Inodes, k \in Slots : Addrs[i][k] = 0
    BY <1>6 DEF Addrs
  <2>2. \A h : Placed(Addrs, disk.blk, {}, h)
    BY <2>1 DEF Placed, Homes, TopsHome, WordsHome, Found
  <2> QED
    BY <1>4, <2>2 DEF HasHomes
<1>9. SizesFit
  <2>1. ASSUME NEW i \in Inodes PROVE Mapped(ino[i].addrs, disk.blk, ino[i].size)
    <3>1. \A bn \in FileBlocks : ~ (bn * BSIZE < 0)
      <4>1. BSIZE \in Nat /\ \A bn \in FileBlocks : bn \in Nat
        BY Numbers, Kinds DEF FileBlocks
      <4> QED
        BY <4>1
    <3> QED
      BY <1>6, <3>1 DEF Mapped
  <2>2. 0 <= Limit
    BY Kinds, Numbers DEF Limit
  <2> QED
    BY <1>6, <2>1, <2>2 DEF SizesFit
<1>10. Counted /\ \A p \in Procs : Works(p)
  <2>1. Counted
    BY <1>2, <1>3, IdleCount DEF Counted
  <2>2. ASSUME NEW p \in Procs PROVE Works(p)
    <3>1. Call(p) = Idle /\ Call(p).pc \notin Busy
      BY <1>2, IdleCount
    <3> QED
      BY <3>1, RestWorks DEF Works
  <2> QED
    BY <2>1, <2>2
<1>11. FilesNoPanic
  BY DEF Init, FilesNoPanic
<1> QED
  BY <1>1, <1>7, <1>8, <1>9, <1>10, <1>11 DEF FilesIInv

\* Every step keeps the invariant.
LEMMA NextFiles == FilesIInv /\ Typed /\ [Next]_vars => FilesIInv'
<1> SUFFICES ASSUME FilesIInv, Typed, [Next]_vars PROVE FilesIInv'
  OBVIOUS
<1>1. CASE UNCHANGED vars
  <2>1. file' = file /\ proc' = proc /\ UNCHANGED <<disk, ino>> /\ panic' = panic
    BY <1>1 DEF vars
  <2>2. RefsIInv'
    BY <1>1, NextRefs DEF FilesIInv
  <2>3. IsStore' /\ (\E h : HasHomes(h))' /\ SizesFit'
    BY <2>1, QuietStore
  <2>4. Counted' /\ (\A p \in Procs : Works(p)') /\ FilesNoPanic'
    BY <2>1 DEF FilesIInv, Counted, Works, FilesNoPanic, Call
  <2> QED
    BY <2>2, <2>3, <2>4 DEF FilesIInv
<1>2. ASSUME NEW p \in Procs,
             \/ SysReadWrite(p) \/ ReadStart(p) \/ ReadBlock(p) \/ ReadEnd(p)
             \/ WriteStart(p) \/ WriteBlock(p) \/ WriteEnd(p) \/ SysFstat(p)
      PROVE  FilesIInv'
  BY <1>2, BeginFiles, ReadStartFiles, ReadBlockFiles, ReadEndFiles, WriteStartFiles,
     WriteBlockFiles, WriteEndFiles
<1>3. ASSUME NEW p \in Procs,
             \/ SysOpen(p) \/ SysDup(p) \/ SysClose(p)
             \/ PipeFirst(p) \/ PipeSecond(p) \/ PipeFds(p)
      PROVE  FilesIInv'
  BY <1>3, OpenFiles, TableFiles
<1> QED
  BY <1>1, <1>2, <1>3 DEF Next

\* The invariant holds in every reachable state.
LEMMA FilesAlways == Spec => []FilesIInv
  BY InitFiles, NextFiles, TypedAlways, PTL DEF Spec

\* Every block that is marked in the bitmap belongs to exactly one place of one file, and
\* no other is marked: bmap(), which allocates index blocks and data blocks on the way,
\* writei(), which may stop in the middle, and itrunc() of a file that others have open
\* neither lose a block nor give one to two files.
THEOREM FilesBlocks == Spec => []BlocksInv
<1>1. FilesIInv => BlocksInv
  BY BlocksFrom DEF FilesIInv
<1> QED
  BY <1>1, FilesAlways, PTL

\* The kernel stops for nothing but a full disk: bmap() is not asked for a block past the
\* largest file, readi() allocates no block outside of a transaction, neither bfree(),
\* filedup() nor fileclose() meets something that is free, and fileread() and filewrite()
\* no entry without a type.
THEOREM FilesSafe == Spec => []FilesNoPanic
<1>1. FilesIInv => FilesNoPanic
  BY DEF FilesIInv
<1> QED
  BY <1>1, FilesAlways, PTL

-----------------------------------------------------------------------------
(* Part 4: what read() returns.  The end and the contents of a file *)

\* The word at offset o of a file.
Word(ad, m, o) == m[BlockAt(ad, m, o \div BSIZE)][o % BSIZE]

\* The larger of two numbers.
LEMMA MaxOf ==
  ASSUME NEW x \in Nat, NEW y \in Nat
  PROVE  Max({x}) = x /\ Max({x, y}) = Highest(x, y) /\ Highest(x, y) \in {x, y}
         /\ x <= Highest(x, y) /\ y <= Highest(x, y)
<1>1. Max({x}) = x
  BY DEF Max
<1>2. PICK h \in {x, y} : h = Highest(x, y) /\ h >= x /\ h >= y
  BY DEF Highest
<1>3. Max({x, y}) = h
  <2>1. \A z \in {x, y} : (\A u \in {x, y} : z >= u) => z = h
    BY <1>2
  <2>2. \A u \in {x, y} : h >= u
    BY <1>2
  <2> QED
    BY <2>1, <2>2 DEF Max
<1> QED
  BY <1>1, <1>2, <1>3

\* Where a block that the file has is found.
LEMMA BlockNoIs ==
  ASSUME NEW i, NEW bn \in Nat, BlockAt(ino[i].addrs, disk.blk, bn) # 0
  PROVE  BlockNo(i, bn) = BlockAt(ino[i].addrs, disk.blk, bn)
<1>0. NDIRECT \in Nat /\ NINDIRECT \in Nat
  BY Numbers
<1>1. CASE bn < NDIRECT
  BY <1>0, <1>1 DEF BlockNo, BlockAt
<1>2. CASE ~ (bn < NDIRECT) /\ bn - NDIRECT < NINDIRECT
  <2>1. bn >= NDIRECT /\ bn - NDIRECT - NINDIRECT < 0
    BY <1>0, <1>2
  <2>2. BlockAt(ino[i].addrs, disk.blk, bn) = BlockIn(disk.blk, ino[i].addrs[NDIRECT], bn - NDIRECT)
    BY <1>2 DEF BlockAt
  <2>3. BlockNo(i, bn) = disk.blk[ino[i].addrs[NDIRECT]][bn - NDIRECT]
    BY <1>2, <2>1 DEF BlockNo
  <2> QED
    BY <2>2, <2>3 DEF BlockIn
<1>3. CASE ~ (bn < NDIRECT) /\ ~ (bn - NDIRECT < NINDIRECT)
  <2>1. ~ (bn - NDIRECT - NINDIRECT < 0)
    BY <1>0, <1>3
  <2> DEFINE k == (bn - NDIRECT - NINDIRECT) \div NINDIRECT
             l == (bn - NDIRECT - NINDIRECT) % NINDIRECT
  <2>2. BlockAt(ino[i].addrs, disk.blk, bn)
          = BlockIn(disk.blk, BlockIn(disk.blk, ino[i].addrs[NDIRECT_EX], k), l)
    BY <1>3 DEF BlockAt
  <2>3. BlockNo(i, bn) = disk.blk[disk.blk[ino[i].addrs[NDIRECT_EX]][k]][l]
    BY <1>3, <2>1 DEF BlockNo
  <2> HIDE DEF k, l
  <2> QED
    BY <2>2, <2>3 DEF BlockIn
<1> QED
  BY <1>1, <1>2, <1>3

\* An offset before e has a block, if the words before e do.
LEMMA OffsetMapped ==
  ASSUME NEW ad, NEW m, NEW o \in Nat, NEW e \in Nat, o < e, e <= Limit, Mapped(ad, m, e)
  PROVE  /\ o \div BSIZE \in FileBlocks /\ o \div BSIZE \in Nat /\ o % BSIZE \in Cells
         /\ BlockAt(ad, m, o \div BSIZE) # 0
<1>1. Limit \in Nat /\ BSIZE \in Nat \ {0}
  BY Kinds, Numbers DEF Limit
<1>2. o < Limit
  BY <1>1
<1>3. PICK bn \in FileBlocks : bn = o \div BSIZE /\ bn * BSIZE <= o /\ bn \in Nat
  BY <1>2, BlockOf
<1>4. bn * BSIZE < e
  BY <1>1, <1>3
<1>5. o % BSIZE \in Cells
  BY <1>1, DivMod DEF Cells
<1> QED
  BY <1>3, <1>4, <1>5 DEF Mapped

\* Only one process holds the lock of an inode.
LEMMA Alone ==
  ASSUME FilesIInv, NEW p \in Procs, NEW q \in Procs, Call(p).pc \in Holding,
         Call(q).pc \in Holding, file[Call(p).f].ip = file[Call(q).f].ip
  PROVE  p = q
<1>1. Call(p).pc \in Busy /\ Call(q).pc \in Busy
  BY DEF Busy, Holding
<1>2. ino[file[Call(p).f].ip].lock = p /\ ino[file[Call(q).f].ip].lock = q
  BY <1>1, Held
<1> QED
  BY <1>2

\* What a writei() under way has of its file.
LEMMA WritingIs ==
  ASSUME FilesIInv, NEW p \in Procs, Writing(p)
  PROVE  /\ Call(p).pc \in Holding /\ Call(p).pc \in Busy /\ Call(p).f \in Files
         /\ file[Call(p).f].ip \in Inodes /\ ino[file[Call(p).f].ip].lock = p
         /\ file[Call(p).f].off \in Nat /\ Call(p).tot \in Nat
         /\ file[Call(p).f].off + Call(p).tot \in Nat
         /\ file[Call(p).f].off + Call(p).tot <= Limit
         /\ file[Call(p).f].off <= ino[file[Call(p).f].ip].size
         /\ Mapped(ino[file[Call(p).f].ip].addrs, disk.blk, file[Call(p).f].off + Call(p).tot)
<1>1. Call(p).pc \in Holding /\ Call(p).pc \in Busy /\ Call(p).pc \in {"writei", "writei_end"}
  BY DEF Writing, Holding, Busy
<1>2. /\ Call(p).f \in Files /\ file[Call(p).f].ip \in Inodes /\ file[Call(p).f].off \in Nat
      /\ IsCount(Call(p)) /\ ino[file[Call(p).f].ip].lock = p
      /\ WorksOn(p, Call(p), file[Call(p).f], ino[file[Call(p).f].ip], disk.blk)
  BY <1>1, Held
<1>3. Call(p).tot \in Nat /\ Call(p).n1 \in Nat /\ Limit \in Nat
  BY <1>2, Kinds, Numbers DEF IsCount, Limit
<1>4. /\ file[Call(p).f].off + Call(p).n1 <= Limit /\ Call(p).tot <= Call(p).n1
      /\ Mapped(ino[file[Call(p).f].ip].addrs, disk.blk, file[Call(p).f].off + Call(p).tot)
      /\ file[Call(p).f].off <= ino[file[Call(p).f].ip].size
  BY <1>1, <1>2 DEF WorksOn, WriteFits
<1> QED
  BY <1>1, <1>2, <1>3, <1>4

\* Where a file ends.
LEMMA EndIs ==
  ASSUME FilesIInv, NEW i \in Inodes
  PROVE  /\ End(i) \in Nat /\ End(i) <= Limit /\ Mapped(ino[i].addrs, disk.blk, End(i))
         /\ ino[i].size \in Nat /\ ino[i].size <= End(i)
         /\ (\A p \in Procs : Writing(p) => file[Call(p).f].ip # i) => End(i) = ino[i].size
         /\ \A p \in Procs : Writing(p) /\ file[Call(p).f].ip = i =>
              End(i) = Highest(ino[i].size, file[Call(p).f].off + Call(p).tot)
<1>0. ino[i].size \in Nat /\ ino[i].size <= Limit /\ Mapped(ino[i].addrs, disk.blk, ino[i].size)
  BY DEF FilesIInv, IsStore, IsInode, SizesFit
<1>1. CASE \A p \in Procs : Writing(p) => file[Call(p).f].ip # i
  <2>1. {q \in Procs : Writing(q) /\ file[Call(q).f].ip = i} = {}
    BY <1>1
  <2>2. Frontiers(i) = {}
    BY <2>1 DEF Frontiers
  <2>3. PICK z \in Nat : z = ino[i].size
    BY <1>0
  <2>4. Frontiers(i) \cup {z} = {z}
    BY <2>2
  <2>5. End(i) = Max({z})
    BY <2>3, <2>4 DEF End
  <2>6. End(i) = ino[i].size
    BY <2>3, <2>5, MaxOf
  <2> QED
    BY <1>0, <1>1, <2>6
<1>2. ASSUME NEW p \in Procs, Writing(p), file[Call(p).f].ip = i
      PROVE  /\ End(i) \in Nat /\ End(i) <= Limit /\ Mapped(ino[i].addrs, disk.blk, End(i))
             /\ ino[i].size <= End(i)
             /\ End(i) = Highest(ino[i].size, file[Call(p).f].off + Call(p).tot)
  <2>1. PICK e \in Nat : e = file[Call(p).f].off + Call(p).tot /\ e <= Limit
                         /\ Mapped(ino[i].addrs, disk.blk, e)
    BY <1>2, WritingIs
  <2>2. ASSUME NEW q \in Procs, Writing(q), file[Call(q).f].ip = i PROVE q = p
    BY <1>2, <2>2, WritingIs, Alone
  <2>3. {q \in Procs : Writing(q) /\ file[Call(q).f].ip = i} = {p}
    BY <1>2, <2>2
  <2>4. Frontiers(i) = {e}
    <3>1. Frontiers(i) = {file[Call(q).f].off + Call(q).tot : q \in {p}}
      BY <2>3 DEF Frontiers
    <3> QED
      BY <2>1, <3>1
  <2>5. PICK y \in Nat : y = ino[i].size
    BY <1>0
  <2>9. End(i) = Max({y, e})
    <3>1. Frontiers(i) \cup {y} = {y, e}
      BY <2>4
    <3> QED
      BY <2>5, <3>1 DEF End
  <2>6. End(i) = Highest(ino[i].size, e)
    BY <2>5, <2>9, MaxOf
  <2>7. PICK z \in {ino[i].size, e} : z = Highest(ino[i].size, e) /\ ino[i].size <= z
    BY <1>0, MaxOf
  <2>8. z \in Nat /\ z <= Limit /\ Mapped(ino[i].addrs, disk.blk, z)
    BY <1>0, <2>1, <2>7
  <2> QED
    BY <2>1, <2>6, <2>7, <2>8
<1> QED
  BY <1>0, <1>1, <1>2

\* The contents of a file are its words.
LEMMA ContentsIs ==
  ASSUME FilesIInv, NEW i \in Inodes
  PROVE  /\ Contents(i) = [k \in 1..End(i) |-> Word(ino[i].addrs, disk.blk, k - 1)]
         /\ \A k \in 1..End(i) : Word(ino[i].addrs, disk.blk, k - 1) \in Nat
<1>0. End(i) \in Nat /\ End(i) <= Limit /\ Mapped(ino[i].addrs, disk.blk, End(i))
  BY EndIs
<1>1. PICK h : Placed(Addrs, disk.blk, disk.used, h)
  BY DEF FilesIInv, HasHomes
<1>2. ASSUME NEW k \in 1..End(i)
      PROVE  /\ disk.blk[BlockNo(i, (k - 1) \div BSIZE)][(k - 1) % BSIZE]
                  = Word(ino[i].addrs, disk.blk, k - 1)
             /\ Word(ino[i].addrs, disk.blk, k - 1) \in Nat
  <2>1. PICK o \in Nat : o = k - 1 /\ o < End(i)
    BY <1>0
  <2>2. PICK bn \in FileBlocks : bn = o \div BSIZE /\ bn \in Nat /\ o % BSIZE \in Cells
                                 /\ BlockAt(ino[i].addrs, disk.blk, bn) # 0
    BY <1>0, <2>1, OffsetMapped
  <2>3. BlockNo(i, bn) = BlockAt(ino[i].addrs, disk.blk, bn)
    BY <2>2, BlockNoIs
  <2>4. Addrs[i] = ino[i].addrs
    BY DEF Addrs
  <2>5. BlockAt(Addrs[i], disk.blk, bn) \in disk.used
    <3>1. BlockAt(Addrs[i], disk.blk, bn) # 0
      BY <2>2, <2>4
    <3> QED
      BY <1>1, <3>1, BlockStays
  <2>6. BlockAt(ino[i].addrs, disk.blk, bn) \in Blocks
    BY <1>1, <2>4, <2>5 DEF Placed
  <2>7. disk.blk \in [Blocks -> [Cells -> Nat]]
    BY DEF FilesIInv, IsStore
  <2>8. PICK x \in Blocks : x = BlockAt(ino[i].addrs, disk.blk, bn)
    BY <2>6
  <2>9. disk.blk[x][o % BSIZE] \in Nat
    BY <2>2, <2>7
  <2>10. Word(ino[i].addrs, disk.blk, o) = disk.blk[x][o % BSIZE]
    BY <2>2, <2>8 DEF Word
  <2>11. disk.blk[BlockNo(i, o \div BSIZE)][o % BSIZE] = disk.blk[x][o % BSIZE]
    BY <2>2, <2>3, <2>8
  <2> QED
    BY <2>1, <2>9, <2>10, <2>11
<1> QED
  BY <1>2 DEF Contents

-----------------------------------------------------------------------------
(* Blocks of different files are different *)

\* Ends and contents of all files.
EndFacts == \A i \in Inodes :
  /\ End(i) \in Nat /\ End(i) <= Limit /\ Mapped(ino[i].addrs, disk.blk, End(i))
  /\ ino[i].size \in Nat /\ ino[i].size <= End(i)
  /\ (\A p \in Procs : Writing(p) => file[Call(p).f].ip # i) => End(i) = ino[i].size
  /\ \A p \in Procs : Writing(p) /\ file[Call(p).f].ip = i =>
       End(i) = Highest(ino[i].size, file[Call(p).f].off + Call(p).tot)
  /\ Contents(i) = [k \in 1..End(i) |-> Word(ino[i].addrs, disk.blk, k - 1)]
  /\ \A k \in 1..End(i) : Word(ino[i].addrs, disk.blk, k - 1) \in Nat

\* They hold in every state that the calls reach.
LEMMA EndsNow == FilesIInv => EndFacts
  BY EndIs, ContentsIs DEF EndFacts

\* The same after a step.
LEMMA EndsNext == FilesIInv' => EndFacts'
  BY EndsNow, PTL


\* Where the home of a block is, by its number in the file.
HomeOf(h, x, bn) ==
  LET bn2 == bn - NDIRECT - NINDIRECT IN
  \/ bn < NDIRECT /\ h[x].up = 0 /\ h[x].pos = bn
  \/ /\ bn >= NDIRECT /\ bn - NDIRECT < NINDIRECT
     /\ h[x].up # 0 /\ h[h[x].up].up = 0 /\ h[x].pos = bn - NDIRECT
  \/ /\ bn >= NDIRECT /\ bn - NDIRECT >= NINDIRECT
     /\ h[x].up # 0 /\ h[h[x].up].up # 0
     /\ h[x].pos = bn2 % NINDIRECT /\ h[h[x].up].pos = bn2 \div NINDIRECT

\* A block of a file is at home in it, at its number.
LEMMA BlockHome ==
  ASSUME NEW a, NEW m, NEW U, NEW h, Placed(a, m, U, h), NEW j \in Inodes,
         NEW bn \in FileBlocks, NEW x, x = BlockAt(a[j], m, bn), x # 0
  PROVE  x \in U /\ h[x].own = j /\ HomeOf(h, x, bn)
<1>0. /\ TopsHome(a, U, h) /\ WordsHome(m, U, h) /\ bn \in Nat /\ bn < MAXFILE
      /\ ~ (bn >= MAXFILE) /\ U \subseteq Blocks /\ 0 \notin Blocks
  BY Kinds, Numbers DEF Placed, FileBlocks
<1>1. ASSUME NEW k \in Slots, a[j][k] # 0
      PROVE  /\ a[j][k] \in U /\ h[a[j][k]].own = j /\ h[a[j][k]].up = 0
             /\ h[a[j][k]].pos = k /\ h[a[j][k]].lev = Level(k)
  BY <1>0, <1>1 DEF TopsHome
<1>2. ASSUME NEW b \in U, h[b].lev # 0, NEW k \in Cells, m[b][k] # 0
      PROVE  /\ m[b][k] \in U /\ h[m[b][k]].own = h[b].own /\ h[m[b][k]].up = b
             /\ h[m[b][k]].pos = k /\ h[m[b][k]].lev = h[b].lev - 1
  BY <1>0, <1>2 DEF WordsHome
<1>3. ASSUME bn < NDIRECT, bn \in Slots
      PROVE  x \in U /\ h[x].own = j /\ HomeOf(h, x, bn)
  <2>1. x = a[j][bn]
    BY <1>3 DEF BlockAt
  <2> QED
    BY <1>1, <1>3, <2>1 DEF HomeOf
<1>4. ASSUME NEW k \in Cells, bn >= NDIRECT, k = bn - NDIRECT, bn - NDIRECT < NINDIRECT
      PROVE  x \in U /\ h[x].own = j /\ HomeOf(h, x, bn)
  <2>0. ~ (bn < NDIRECT) /\ NDIRECT \in Slots /\ Level(NDIRECT) = 1
    BY <1>0, <1>4, Kinds
  <2>1. x = BlockIn(m, a[j][NDIRECT], k)
    BY <1>4, <2>0 DEF BlockAt
  <2>3. PICK b : b = a[j][NDIRECT] /\ b # 0 /\ x = m[b][k]
    BY <2>1 DEF BlockIn
  <2>4. b \in U /\ h[b].own = j /\ h[b].lev = 1 /\ h[b].up = 0
    BY <1>1, <2>0, <2>3
  <2>5. x \in U /\ h[x].own = j /\ h[x].up = b /\ h[x].pos = k
    BY <1>2, <2>3, <2>4
  <2> QED
    BY <1>4, <2>3, <2>4, <2>5 DEF HomeOf
<1>5. ASSUME NEW k \in Cells, NEW l \in Cells, bn >= NDIRECT, bn - NDIRECT >= NINDIRECT,
             k = (bn - NDIRECT - NINDIRECT) \div NINDIRECT,
             l = (bn - NDIRECT - NINDIRECT) % NINDIRECT
      PROVE  x \in U /\ h[x].own = j /\ HomeOf(h, x, bn)
  <2>0. /\ ~ (bn < NDIRECT) /\ ~ (bn - NDIRECT < NINDIRECT)
        /\ NDIRECT_EX \in Slots /\ Level(NDIRECT_EX) = 2
    BY <1>0, <1>5, Kinds
  <2>1. x = BlockIn(m, BlockIn(m, a[j][NDIRECT_EX], k), l)
    BY <1>5, <2>0 DEF BlockAt
  <2>3. PICK b, c : /\ b = a[j][NDIRECT_EX] /\ b # 0 /\ c = m[b][k] /\ c # 0 /\ x = m[c][l]
    BY <2>1 DEF BlockIn
  <2>4. b \in U /\ h[b].own = j /\ h[b].lev = 2
    BY <1>1, <2>0, <2>3
  <2>5. c \in U /\ h[c].own = j /\ h[c].lev = 1 /\ h[c].up = b /\ h[c].pos = k
    BY <1>2, <2>3, <2>4
  <2>6. x \in U /\ h[x].own = j /\ h[x].up = c /\ h[x].pos = l
    BY <1>2, <2>3, <2>5
  <2> QED
    BY <1>5, <2>3, <2>5, <2>6 DEF HomeOf
<1> QED
  BY <1>0, <1>3, <1>4, <1>5, BmapIs

\* Block bn of inode i is x.
IsBlock(a, m, i, bn, x) == x # 0 /\ x = BlockAt(a[i], m, bn)

\* A block has one place in one file.
LEMMA BlockApart ==
  ASSUME NEW a, NEW m, NEW U, NEW h, Placed(a, m, U, h), NEW i \in Inodes, NEW j \in Inodes,
         NEW bn \in FileBlocks, NEW cn \in FileBlocks, NEW x,
         IsBlock(a, m, i, bn, x), IsBlock(a, m, j, cn, x)
  PROVE  i = j /\ bn = cn
<1>0. ASSUME NEW u \in Inodes, NEW d \in FileBlocks, IsBlock(a, m, u, d, x)
      PROVE  h[x].own = u /\ HomeOf(h, x, d)
  BY <1>0, BlockHome DEF IsBlock
<1>1. h[x].own = i /\ HomeOf(h, x, bn)
  BY <1>0
<1>2. h[x].own = j /\ HomeOf(h, x, cn)
  BY <1>0
<1>3. bn \in Nat /\ cn \in Nat /\ NDIRECT \in Nat /\ NINDIRECT \in Nat \ {0}
  BY Kinds, Numbers DEF FileBlocks
<1>4. CASE bn < NDIRECT
  BY <1>1, <1>2, <1>3, <1>4 DEF HomeOf
<1>5. CASE bn >= NDIRECT /\ bn - NDIRECT < NINDIRECT
  <2>1. h[x].up # 0 /\ h[h[x].up].up = 0 /\ h[x].pos = bn - NDIRECT
    BY <1>1, <1>3, <1>5 DEF HomeOf
  <2>2. h[x].pos = cn - NDIRECT
    BY <1>2, <2>1 DEF HomeOf
  <2> QED
    BY <1>1, <1>2, <1>3, <2>1, <2>2
<1>6. CASE bn >= NDIRECT /\ bn - NDIRECT >= NINDIRECT
  <2>1. /\ h[x].up # 0 /\ h[h[x].up].up # 0
        /\ h[x].pos = (bn - NDIRECT - NINDIRECT) % NINDIRECT
        /\ h[h[x].up].pos = (bn - NDIRECT - NINDIRECT) \div NINDIRECT
    BY <1>1, <1>3, <1>6 DEF HomeOf
  <2>2. /\ cn >= NDIRECT /\ cn - NDIRECT >= NINDIRECT
        /\ h[x].pos = (cn - NDIRECT - NINDIRECT) % NINDIRECT
        /\ h[h[x].up].pos = (cn - NDIRECT - NINDIRECT) \div NINDIRECT
    BY <1>2, <2>1 DEF HomeOf
  <2>3. PICK b, c \in Nat : b = bn - NDIRECT - NINDIRECT /\ c = cn - NDIRECT - NINDIRECT
    BY <1>3, <1>6, <2>2
  <2>4. b % NINDIRECT = c % NINDIRECT /\ b \div NINDIRECT = c \div NINDIRECT
    BY <2>1, <2>2, <2>3
  <2>5. b = NINDIRECT * (b \div NINDIRECT) + (b % NINDIRECT)
        /\ c = NINDIRECT * (c \div NINDIRECT) + (c % NINDIRECT)
    BY <1>3, Quotient
  <2>6. b = c
    BY <2>4, <2>5
  <2> QED
    BY <1>1, <1>2, <1>3, <2>3, <2>6
<1> QED
  BY <1>1, <1>3, <1>4, <1>5, <1>6 DEF HomeOf

-----------------------------------------------------------------------------
(* The words of a file, and what writing a block does to them *)

\* The blocks of a file stay, and their words.
SameBlock(i, bn) == BlockAt(ino[i].addrs, disk.blk, bn) # 0 =>
  LET x == BlockAt(ino[i].addrs, disk.blk, bn) IN
  BlockAt(ino'[i].addrs, disk'.blk, bn) = x /\ disk'.blk[x] = disk.blk[x]
SameWords(i) == \A bn \in FileBlocks : SameBlock(i, bn)

\* Hence the words up to the end of the file stay.
LEMMA WordStays ==
  ASSUME NEW i, NEW o \in Nat, NEW e \in Nat, o < e, e <= Limit,
         Mapped(ino[i].addrs, disk.blk, e), SameBlock(i, o \div BSIZE)
  PROVE  Word(ino'[i].addrs, disk'.blk, o) = Word(ino[i].addrs, disk.blk, o)
<1>1. PICK bn \in FileBlocks : bn = o \div BSIZE /\ BlockAt(ino[i].addrs, disk.blk, bn) # 0
  BY OffsetMapped
<1>2. /\ BlockAt(ino'[i].addrs, disk'.blk, bn) = BlockAt(ino[i].addrs, disk.blk, bn)
      /\ disk'.blk[BlockAt(ino[i].addrs, disk.blk, bn)]
            = disk.blk[BlockAt(ino[i].addrs, disk.blk, bn)]
  BY <1>1 DEF SameBlock
<1> QED
  BY <1>1, <1>2 DEF Word

\* Words that are k words from o on in its block.
LEMMA InBlock ==
  ASSUME NEW B \in Nat \ {0}, NEW o \in Nat, NEW q \in Nat, NEW k \in Nat, (o % B) + k <= B
  PROVE  /\ q \div B = o \div B => q - o = (q % B) - (o % B)
         /\ o <= q /\ q < o + k =>
              q \div B = o \div B /\ (q % B) \in (o % B)..((o % B) + k - 1)
<1>1. PICK a \in Nat, r \in 0..(B - 1) : a = o \div B /\ r = o % B /\ o = B * a + r
  BY Quotient
<1>2. PICK b \in Nat, s \in 0..(B - 1) : b = q \div B /\ s = q % B /\ q = B * b + s
  BY Quotient
<1>3. r + k <= B
  BY <1>1
<1>4. b = a => q - o = s - r
  BY <1>1, <1>2
<1>5. ASSUME o <= q, q < o + k PROVE b = a /\ s \in r..(r + k - 1)
  <2>1. B * b + s < B * (a + 1)
    BY <1>1, <1>2, <1>3, <1>5
  <2>2. b < a + 1
    BY <2>1, DivBounds
  <2>3. B * a + r < B * (b + 1)
    BY <1>1, <1>2, <1>5
  <2>4. a < b + 1
    BY <2>3, DivBounds
  <2>5. b = a
    BY <2>2, <2>4
  <2>6. q - o = s - r
    BY <1>4, <2>5
  <2> QED
    BY <1>1, <1>2, <1>5, <2>5, <2>6
<1> QED
  BY <1>1, <1>2, <1>4, <1>5

\* A write in block bn of inode i changes the words of that block only.
LEMMA WroteWords ==
  ASSUME IsStore, NEW h, HasHomes(h), NEW i \in Inodes, NEW l, NEW s, s = Looking(i, l),
         NEW t, NEW g, Reached(t, i, g, 0), Kept(s, h, t, g),
         NEW w \in [Cells -> Nat], Wrote(i, t, w),
         NEW bn \in FileBlocks, t.addr = BlockAt(t.addrs, t.blk, bn)
  PROVE  /\ \A j \in Inodes, cn \in FileBlocks : (j # i \/ cn # bn) => SameBlock(j, cn)
         /\ BlockAt(ino'[i].addrs, disk'.blk, bn) = t.addr /\ disk'.blk[t.addr] = w
         /\ LET x == BlockAt(ino[i].addrs, disk.blk, bn) IN
            x # 0 => x = t.addr /\ t.blk[x] = disk.blk[x]
<1>1. /\ HasHomes(g)'
      /\ \A cn \in FileBlocks : BlockAt(t.addrs, t.blk, cn) # 0 =>
           BlockAt(ino'[i].addrs, disk'.blk, cn) = BlockAt(t.addrs, t.blk, cn)
      /\ \A j \in Inodes, cn \in FileBlocks : BlockAt(ino[j].addrs, disk.blk, cn) # 0 =>
           LET x == BlockAt(ino[j].addrs, disk.blk, cn) IN
           /\ BlockAt(ino'[j].addrs, disk'.blk, cn) = x
           /\ x \in Blocks /\ (x # t.addr => disk'.blk[x] = disk.blk[x])
           /\ t.blk[x] = disk.blk[x]
  BY WroteKeeps
<1>2. PICK y : y = t.addr /\ y # 0 /\ y = BlockAt(t.addrs, t.blk, bn)
  BY DEF Reached
<1>3. BlockAt(ino'[i].addrs, disk'.blk, bn) = y
  BY <1>1, <1>2
<1>4. disk'.blk[y] = w
  <2>1. Sound(t, i, g) /\ t.addr \in t.used
    BY DEF Reached
  <2>2. IsLook(t) /\ t.addr \in Blocks
    BY <2>1 DEF Sound, Placed
  <2>3. \A b \in Blocks : disk'.blk[b] = IF b = t.addr THEN w ELSE t.blk[b]
    BY <2>2, WroteIs
  <2> QED
    BY <1>2, <2>2, <2>3
<1>5. ASSUME NEW j \in Inodes, NEW cn \in FileBlocks, j # i \/ cn # bn PROVE SameBlock(j, cn)
  <2> SUFFICES ASSUME NEW x, x = BlockAt(ino[j].addrs, disk.blk, cn), x # 0
               PROVE  BlockAt(ino'[j].addrs, disk'.blk, cn) = x /\ disk'.blk[x] = disk.blk[x]
    BY DEF SameBlock
  <2>1. BlockAt(ino'[j].addrs, disk'.blk, cn) = x /\ (x # y => disk'.blk[x] = disk.blk[x])
    BY <1>1, <1>2
  <2>2. x # y
    <3>1. SUFFICES ASSUME x = y PROVE FALSE
      OBVIOUS
    <3>2. PICK a, m, U : a = Addrs' /\ m = disk'.blk /\ U = disk'.used
      OBVIOUS
    <3>3. Placed(a, m, U, g)
      BY <1>1, <3>2 DEF HasHomes
    <3>4. a[i] = ino'[i].addrs /\ a[j] = ino'[j].addrs
      BY <3>2 DEF Addrs
    <3>5. IsBlock(a, m, i, bn, x) /\ IsBlock(a, m, j, cn, x)
      BY <1>3, <2>1, <3>1, <3>2, <3>4 DEF IsBlock
    <3>6. i = j /\ bn = cn
      BY <3>3, <3>5, BlockApart
    <3> QED
      BY <1>5, <3>6
  <2> QED
    BY <2>1, <2>2
<1>6. ASSUME NEW x, x = BlockAt(ino[i].addrs, disk.blk, bn), x # 0
      PROVE  x = y /\ t.blk[x] = disk.blk[x]
  BY <1>1, <1>3, <1>6
<1> QED
  BY <1>2, <1>3, <1>4, <1>5, <1>6

-----------------------------------------------------------------------------
(* What a step of writei() does to the words *)

\* What a step of writei() that copies k words does to the files.
WriteEffect(p, k) ==
  LET c == Call(p)
      i == file[c.f].ip
      o == file[c.f].off + c.tot IN
  /\ \A j \in Inodes : j # i => SameWords(j)
  /\ \A j \in Inodes : ino'[j].size = ino[j].size
  /\ \A q \in Nat : o <= q /\ q < o + k =>
       Word(ino'[i].addrs, disk'.blk, q) = Source(p, c.i + c.tot + (q - o) + 1)
  /\ \A q \in Nat : q < End(i) /\ ~ (o <= q /\ q < o + k) =>
       Word(ino'[i].addrs, disk'.blk, q) = Word(ino[i].addrs, disk.blk, q)

\* It writes the words of its part of the block, and no others.
LEMMA WriteWords ==
  ASSUME FilesIInv, NEW p \in Procs, Call(p).pc = "writei", Call(p).tot < Call(p).n1,
         NEW h, NEW t, NEW g, NEW k, WritesTo(p, h, t, g, k)
  PROVE  WriteEffect(p, k)
<1> DEFINE c == Call(p)
           f == c.f
           i == file[f].ip
           o == file[f].off + c.tot
           m == Part(o, c.n1 - c.tot)
           bn == o \div BSIZE
<1>1. WriteAt(p)
  BY WriteNumbers
<1>2. /\ HasHomes(h) /\ Reached(t, i, g, 0) /\ Kept(Looking(i, c.log), h, t, g)
      /\ t.addr = BlockAt(t.addrs, t.blk, bn) /\ k \in 0..m
      /\ Wrote(i, t, Filled(p, c, t.blk[t.addr], o, k))
  BY DEF WritesTo
<1>3. /\ f \in Files /\ i \in Inodes /\ o \in Nat /\ bn \in FileBlocks
      /\ m \in Nat /\ o % BSIZE \in Cells /\ (o % BSIZE) + m <= BSIZE
  BY <1>1 DEF WriteAt
<1>4. IsStore /\ IsCount(c) /\ BSIZE \in Nat \ {0}
  BY Numbers DEF FilesIInv, Counted
<1>5. k \in Nat /\ (o % BSIZE) + k <= BSIZE
  <2>1. k \in 0..m
    BY <1>2
  <2>2. PICK r \in Nat : r = o % BSIZE
    BY <1>3 DEF Cells
  <2> HIDE DEF m, o
  <2> QED
    BY <1>3, <1>4, <2>1, <2>2
<1>6. IsLook(t) /\ t.addr \in Blocks
  <2>1. Sound(t, i, g) /\ t.addr \in t.used
    BY <1>2 DEF Reached
  <2> QED
    BY <2>1 DEF Sound, Placed
<1> HIDE DEF m
<1>7. PICK w \in [Cells -> Nat] : /\ w = Filled(p, c, t.blk[t.addr], o, k) /\ Wrote(i, t, w)
  <2>1. t.blk[t.addr] \in [Cells -> Nat]
    BY <1>6 DEF IsLook
  <2>2. Filled(p, c, t.blk[t.addr], o, k) \in [Cells -> Nat]
    <3> HIDE DEF c, o, f
    <3> QED
      BY <1>3, <1>4, <1>5, <2>1, FilledIs
  <2> QED
    BY <1>2, <2>2
<1>8. \A x \in Cells : w[x] = IF x \in (o % BSIZE)..((o % BSIZE) + k - 1)
                              THEN Source(p, c.i + c.tot + x - (o % BSIZE) + 1)
                              ELSE t.blk[t.addr][x]
  <2>1. DOMAIN t.blk[t.addr] = Cells
    BY <1>6 DEF IsLook
  <2> HIDE DEF c, o
  <2> QED
    BY <1>7, <2>1 DEF Filled
<1>9. /\ \A j \in Inodes, cn \in FileBlocks : (j # i \/ cn # bn) => SameBlock(j, cn)
      /\ BlockAt(ino'[i].addrs, disk'.blk, bn) = t.addr /\ disk'.blk[t.addr] = w
      /\ LET x == BlockAt(ino[i].addrs, disk.blk, bn) IN
         x # 0 => x = t.addr /\ t.blk[x] = disk.blk[x]
  <2>1. PICK l, s : l = c.log /\ s = Looking(i, l) /\ Kept(s, h, t, g)
    BY <1>2
  <2>2. /\ i \in Inodes /\ IsStore /\ HasHomes(h) /\ Reached(t, i, g, 0) /\ s = Looking(i, l)
        /\ Kept(s, h, t, g) /\ bn \in FileBlocks /\ t.addr = BlockAt(t.addrs, t.blk, bn)
    BY <1>2, <1>3, <1>4, <2>1
  <2> HIDE DEF i, bn
  <2> QED
    BY <1>7, <2>2, WroteWords
<1>10. \A j \in Inodes : ino'[j].size = ino[j].size
  <2> HIDE DEF i
  <2> QED
    BY <1>3, <1>4, <1>6, <1>7, WroteIs
<1>11. \A j \in Inodes : j # i => SameWords(j)
  BY <1>9 DEF SameWords
<1>12. ASSUME NEW q \in Nat, o <= q, q < o + k
       PROVE  Word(ino'[i].addrs, disk'.blk, q) = Source(p, c.i + c.tot + (q - o) + 1)
  <2>1. /\ q \div BSIZE = bn /\ q - o = (q % BSIZE) - (o % BSIZE)
        /\ (q % BSIZE) \in (o % BSIZE)..((o % BSIZE) + k - 1)
    <3> HIDE DEF o
    <3> QED
      BY <1>3, <1>4, <1>5, <1>12, InBlock DEF bn
  <2>2. q % BSIZE \in Cells
    BY <1>4, DivMod DEF Cells
  <2>3. Word(ino'[i].addrs, disk'.blk, q) = w[q % BSIZE]
    <3> HIDE DEF i, bn
    <3> QED
      BY <1>9, <2>1 DEF Word
  <2>4. w[q % BSIZE] = Source(p, c.i + c.tot + (q % BSIZE) - (o % BSIZE) + 1)
    BY <1>8, <2>1, <2>2
  <2>5. c.i + c.tot + (q % BSIZE) - (o % BSIZE) + 1 = c.i + c.tot + (q - o) + 1
    <3>1. PICK x \in Int, r \in Int : x = q % BSIZE /\ r = o % BSIZE /\ q - o = x - r
      BY <1>3, <2>1, <2>2 DEF Cells
    <3>2. c.i \in Int /\ c.tot \in Int
      BY <1>4 DEF IsCount
    <3> HIDE DEF c, o
    <3> QED
      BY <1>3, <3>1, <3>2
  <2> QED
    BY <2>3, <2>4, <2>5
<1>13. ASSUME NEW q \in Nat, q < End(i), ~ (o <= q /\ q < o + k)
       PROVE  Word(ino'[i].addrs, disk'.blk, q) = Word(ino[i].addrs, disk.blk, q)
  <2>1. End(i) \in Nat /\ End(i) <= Limit /\ Mapped(ino[i].addrs, disk.blk, End(i))
    BY <1>3, EndIs
  <2>2. /\ q \div BSIZE \in FileBlocks /\ q % BSIZE \in Cells
        /\ BlockAt(ino[i].addrs, disk.blk, q \div BSIZE) # 0
    BY <1>13, <2>1, OffsetMapped
  <2>3. CASE q \div BSIZE # bn
    <3>1. SameBlock(i, q \div BSIZE)
      BY <1>3, <1>9, <2>2, <2>3
    <3> HIDE DEF i
    <3> QED
      BY <1>13, <2>1, <3>1, WordStays
  <2>4. CASE q \div BSIZE = bn
    <3>1. q - o = (q % BSIZE) - (o % BSIZE)
      <4> HIDE DEF o
      <4> QED
        BY <1>3, <1>4, <1>5, <2>4, InBlock DEF bn
    <3>2. q % BSIZE \notin (o % BSIZE)..((o % BSIZE) + k - 1)
      <4>1. PICK x \in Nat, r \in Nat : x = q % BSIZE /\ r = o % BSIZE /\ q - o = x - r
        BY <1>3, <2>2, <3>1 DEF Cells
      <4>2. x \notin r..(r + k - 1)
        <5> HIDE DEF o
        <5> QED
          BY <1>3, <1>5, <1>13, <4>1
      <4> QED
        BY <4>1, <4>2
    <3>3. w[q % BSIZE] = t.blk[t.addr][q % BSIZE]
      BY <1>8, <2>2, <3>2
    <3>4. PICK x : x = BlockAt(ino[i].addrs, disk.blk, bn) /\ x = t.addr /\ t.blk[x] = disk.blk[x]
      BY <1>9, <2>2, <2>4
    <3>5. Word(ino[i].addrs, disk.blk, q) = disk.blk[x][q % BSIZE]
      <4> HIDE DEF i, bn
      <4> QED
        BY <2>4, <3>4 DEF Word
    <3>6. Word(ino'[i].addrs, disk'.blk, q) = w[q % BSIZE]
      <4> HIDE DEF i, bn
      <4> QED
        BY <1>9, <2>4 DEF Word
    <3> QED
      BY <3>3, <3>4, <3>5, <3>6
  <2> QED
    BY <2>3, <2>4
<1> QED
  BY <1>10, <1>11, <1>12, <1>13 DEF WriteEffect

-----------------------------------------------------------------------------
(* The steps that leave the files alone *)

\* A step of p that leaves the contents of the files and the offsets as they are.
Still(p) ==
  /\ \A q \in Procs : q # p => proc'[q] = proc[q]
  /\ disk'.blk = disk.blk
  /\ \A j \in Inodes : ino'[j].addrs = ino[j].addrs /\ ino'[j].size = ino[j].size
  /\ \A f \in Files : file'[f].ip = file[f].ip /\ file'[f].off = file[f].off

\* A step of p that ends a call on entry f with inode i: the offset moves on to x, the size
\* of the file is z.
Over(p, f, i, x, z) ==
  /\ \A q \in Procs : q # p => proc'[q] = proc[q]
  /\ disk'.blk = disk.blk
  /\ \A j \in Inodes : ino'[j].addrs = ino[j].addrs
  /\ \A j \in Inodes : ino'[j].size = IF j = i THEN z ELSE ino[j].size
  /\ \A g \in Files : file'[g].ip = file[g].ip
  /\ \A g \in Files : file'[g].off = IF g = f THEN x ELSE file[g].off

\* open() takes entry f for inode i.
Opened(p, f, i) ==
  /\ \A q \in Procs : q # p => proc'[q] = proc[q]
  /\ file[f].ref = 0
  /\ \A g \in Files : file'[g].ip = IF g = f THEN i ELSE file[g].ip
  /\ \A g \in Files : file'[g].off = IF g = f THEN 0 ELSE file[g].off

\* Changes of the lock.
LEMMA LockIs ==
  ASSUME IsStore, NEW i \in Inodes, NEW x, ino' = [ino EXCEPT ![i].lock = x]
  PROVE  \A j \in Inodes : ino'[j].addrs = ino[j].addrs /\ ino'[j].size = ino[j].size
<1>1. Resized(i, ino[i].size)
  BY UnlockedIs
<1> QED
  BY <1>1 DEF Resized

\* read(), write() and fstat() begin.
LEMMA BeginIs ==
  ASSUME FilesIInv, NEW p \in Procs, SysReadWrite(p) \/ SysFstat(p)
  PROVE  Still(p) /\ Call(p).pc = "user" /\ Call(p)'.pc \in {"user", "read", "write"}
<1>0. Shapes
  BY DEF FilesIInv, RefsIInv
<1>1. UNCHANGED <<disk, ino, file>> /\ Call(p).pc = "user"
  BY DEF SysReadWrite, SysFstat, Calls, At
<1>2. \E c : Start(p, c, proc[p].ofile) /\ c.pc \in {"user", "read", "write"}
  <2>1. Idle.pc = "user" /\ \A op, f, n : [Idle EXCEPT !.pc = op, !.f = f, !.n = n].pc = op
    BY DEF Idle
  <2>2. CASE SysReadWrite(p)
    <3>1. PICK op \in {"read", "write"} :
            \/ Start(p, Idle, proc[p].ofile)
            \/ Start(p, [Idle EXCEPT !.pc = op, !.f = Argfd(p), !.n = Arg(p, 3)], proc[p].ofile)
      BY <2>2 DEF SysReadWrite
    <3>2. PICK c : c = [Idle EXCEPT !.pc = op, !.f = Argfd(p), !.n = Arg(p, 3)]
      OBVIOUS
    <3>3. c.pc = op
      BY <2>1, <3>2
    <3>4. Start(p, Idle, proc[p].ofile) \/ Start(p, c, proc[p].ofile)
      BY <3>1, <3>2
    <3> QED
      BY <2>1, <3>1, <3>3, <3>4
  <2>3. CASE SysFstat(p)
    BY <2>1, <2>3 DEF SysFstat
  <2> QED
    BY <2>2, <2>3
<1>3. /\ \A q \in Procs : q # p => proc'[q] = proc[q]
      /\ Call(p)'.pc \in {"user", "read", "write"}
  BY <1>0, <1>2, Started
<1> QED
  BY <1>1, <1>3 DEF Still

\* fileread() locks the inode.
LEMMA ReadStartIs ==
  ASSUME FilesIInv, NEW p \in Procs, ReadStart(p)
  PROVE  /\ Still(p) /\ Call(p).pc = "read"
         /\ \/ Call(p)' = Idle
            \/ /\ Call(p)'.pc = "readi" /\ Call(p)'.f = Call(p).f
               /\ Call(p)'.tot = 0 /\ Call(p)'.data = <<>>
<1> DEFINE f == Call(p).f
           i == file[f].ip
           d(n) == [Call(p) EXCEPT !.pc = "readi", !.n = n]
<1>1. Call(p).pc = "read" /\ UNCHANGED <<disk, file>>
  BY DEF ReadStart, At
<1>2. /\ Shapes /\ IsStore /\ i \in Inodes /\ f \in Files
      /\ IsCall(Call(p)) /\ IsCount(Call(p))
  <2>1. Call(p).pc \in Busy
    BY <1>1 DEF Busy
  <2> QED
    BY <2>1, Held DEF FilesIInv
<1>3. CASE Step(p, Idle) /\ UNCHANGED ino
  <2>1. (\A q \in Procs : q # p => proc'[q] = proc[q]) /\ Call(p)' = Idle
    BY <1>2, <1>3, Stepped
  <2> QED
    BY <1>1, <1>3, <2>1 DEF Still
<1>4. ASSUME NEW n, Step(p, d(n)), ino' = [ino EXCEPT ![i].lock = p]
      PROVE  Still(p) /\ Call(p)'.pc = "readi" /\ Call(p)'.f = Call(p).f
             /\ Call(p)'.tot = 0 /\ Call(p)'.data = <<>>
  <2>1. d(n).pc = "readi" /\ d(n).f = f /\ d(n).tot = 0 /\ d(n).data = <<>>
    BY <1>1, <1>2 DEF IsCall, IsCount
  <2>2. PICK c : c = d(n)
    OBVIOUS
  <2>3. Step(p, c)
    BY <1>4, <2>2
  <2>4. (\A q \in Procs : q # p => proc'[q] = proc[q]) /\ Call(p)' = c
    BY <1>2, <2>3, Stepped
  <2>5. \A j \in Inodes : ino'[j].addrs = ino[j].addrs /\ ino'[j].size = ino[j].size
    <3> HIDE DEF i
    <3> QED
      BY <1>2, <1>4, LockIs
  <2> QED
    BY <1>1, <2>1, <2>2, <2>4, <2>5 DEF Still
<1>5. \/ Step(p, Idle) /\ UNCHANGED ino
      \/ \E n : Step(p, d(n)) /\ ino' = [ino EXCEPT ![i].lock = p]
  BY DEF ReadStart
<1> HIDE DEF d
<1> QED
  BY <1>1, <1>3, <1>4, <1>5

\* filewrite() locks the inode.
LEMMA WriteStartIs ==
  ASSUME FilesIInv, NEW p \in Procs, WriteStart(p)
  PROVE  /\ Still(p) /\ Call(p).pc = "write"
         /\ Call(p)' = Idle \/ (Call(p)'.pc = "writei" /\ Call(p)'.tot = 0)
<1> DEFINE f == Call(p).f
           i == file[f].ip
           d(n) == [Call(p) EXCEPT !.pc = "writei", !.n1 = n, !.tot = 0, !.log = {Inode(i)}]
<1>1. Call(p).pc = "write" /\ UNCHANGED <<disk, file>>
  BY DEF WriteStart, At
<1>2. /\ Shapes /\ IsStore /\ i \in Inodes /\ f \in Files
      /\ IsCall(Call(p)) /\ IsCount(Call(p))
  <2>1. Call(p).pc \in Busy
    BY <1>1 DEF Busy
  <2> QED
    BY <2>1, Held DEF FilesIInv
<1>3. CASE Step(p, Idle) /\ UNCHANGED ino
  <2>1. (\A q \in Procs : q # p => proc'[q] = proc[q]) /\ Call(p)' = Idle
    BY <1>2, <1>3, Stepped
  <2> QED
    BY <1>1, <1>3, <2>1 DEF Still
<1>4. ASSUME NEW n, Step(p, d(n)), ino' = [ino EXCEPT ![i].lock = p]
      PROVE  Still(p) /\ Call(p)'.pc = "writei" /\ Call(p)'.tot = 0
  <2>1. d(n).pc = "writei" /\ d(n).tot = 0
    BY <1>1, <1>2 DEF IsCall, IsCount
  <2>2. PICK c : c = d(n)
    OBVIOUS
  <2>3. Step(p, c)
    BY <1>4, <2>2
  <2>4. (\A q \in Procs : q # p => proc'[q] = proc[q]) /\ Call(p)' = c
    BY <1>2, <2>3, Stepped
  <2>5. \A j \in Inodes : ino'[j].addrs = ino[j].addrs /\ ino'[j].size = ino[j].size
    <3> HIDE DEF i
    <3> QED
      BY <1>2, <1>4, LockIs
  <2> QED
    BY <1>1, <2>1, <2>2, <2>4, <2>5 DEF Still
<1>5. \/ Step(p, Idle) /\ UNCHANGED ino
      \/ \E n : Step(p, d(n)) /\ ino' = [ino EXCEPT ![i].lock = p]
  BY DEF WriteStart
<1> HIDE DEF d
<1> QED
  BY <1>1, <1>3, <1>4, <1>5

-----------------------------------------------------------------------------
(* readi(), and the end of a call *)

\* The m words of a file from offset o on.
FileWords(ad, bm, o, m) == [x \in 1..m |-> Word(ad, bm, o + x - 1)]

\* readi() copies m words of the file.
Copies(p, m) ==
  LET c == Call(p)
      i == file[c.f].ip
      o == file[c.f].off + c.tot IN
  /\ m \in Nat /\ o + m <= ino[i].size
  /\ Call(p)'.pc = "readi" /\ Call(p)'.f = c.f /\ Call(p)'.tot = c.tot + m
  /\ Call(p)'.data = c.data \o FileWords(ino[i].addrs, disk.blk, o, m)

\* What is copied out of a block are words of the file.
LEMMA CopiedIs ==
  ASSUME NEW ad, NEW bm, NEW b, NEW o \in Nat, NEW m \in Nat, (o % BSIZE) + m <= BSIZE,
         b = bm[BlockAt(ad, bm, o \div BSIZE)]
  PROVE  Copied(b, o, m) = FileWords(ad, bm, o, m)
<1>0. BSIZE \in Nat \ {0}
  BY Numbers
<1>1. ASSUME NEW x \in 1..m PROVE b[(o % BSIZE) + x - 1] = Word(ad, bm, o + x - 1)
  <2>1. PICK q \in Nat : q = o + x - 1 /\ o <= q /\ q < o + m /\ q - o = x - 1
    BY <1>1
  <2>2. q \div BSIZE = o \div BSIZE
    BY <1>0, <2>1, InBlock
  <2>3. q - o = (q % BSIZE) - (o % BSIZE)
    BY <1>0, <2>2, InBlock
  <2>4. PICK r \in Nat, s \in Nat : r = o % BSIZE /\ s = q % BSIZE
    <3>1. o % BSIZE \in 0..(BSIZE - 1) /\ q % BSIZE \in 0..(BSIZE - 1)
      BY <1>0, DivMod
    <3> QED
      BY <1>0, <3>1
  <2>5. s = r + x - 1
    BY <2>1, <2>3, <2>4
  <2>6. Word(ad, bm, q) = b[s]
    BY <2>2, <2>4 DEF Word
  <2> QED
    BY <2>1, <2>4, <2>5, <2>6
<1> QED
  BY <1>1 DEF Copied, FileWords

\* readi() reads one block, or fails.
LEMMA ReadBlockIs ==
  ASSUME FilesIInv, NEW p \in Procs, ReadBlock(p)
  PROVE  Still(p) /\ Call(p).pc = "readi" /\ (Call(p)' = Idle \/ \E m : Copies(p, m))
<1> DEFINE f == Call(p).f
           i == file[f].ip
           o == file[f].off + Call(p).tot
           n == Call(p).n - Call(p).tot
           m == Part(o, n)
           t == Bmap(Looking(i, {}), o \div BSIZE)
           d(y) == [Call(p) EXCEPT !.tot = @ + m, !.data = @ \o y]
<1>0. /\ Call(p).pc = "readi" /\ Call(p).tot < Call(p).n /\ UNCHANGED <<disk, file>>
      /\ \/ Step(p, d(Copied(t.blk[t.addr], o, m))) /\ UNCHANGED ino
         \/ Step(p, Idle) /\ ino' = [ino EXCEPT ![i].lock = None]
  BY DEF ReadBlock, At
<1>1. /\ f \in Files /\ i \in Inodes /\ o \in Nat /\ t.blk = disk.blk
      /\ t.addr = BlockAt(ino[i].addrs, disk.blk, o \div BSIZE)
  BY <1>0, ReadFinds
<1>3. /\ IsCount(Call(p)) /\ IsCall(Call(p)) /\ IsInode(ino[i]) /\ file[f].off \in Nat
      /\ ReadFits(Call(p), file[f], ino[i]) /\ Shapes /\ IsStore
  <2>1. Call(p).pc \in Busy
    BY <1>0 DEF Busy
  <2> QED
    BY <2>1, Held DEF WorksOn, FilesIInv
<1>4. m \in Nat /\ o + m <= ino[i].size /\ (o % BSIZE) + m <= BSIZE
  <2>0. Call(p).n \in Int /\ Call(p).tot \in Nat /\ Call(p).tot < Call(p).n
    BY <1>0, <1>3 DEF IsCount
  <2>1. n \in Nat /\ n > 0
    BY <2>0
  <2>2. m \in Nat /\ m <= n /\ (o % BSIZE) + m <= BSIZE
    BY <1>1, <2>1, PartIs
  <2>3. file[f].off + Call(p).n <= ino[i].size /\ ino[i].size \in Nat
    BY <1>0, <1>3 DEF ReadFits, IsInode
  <2> HIDE DEF m
  <2> QED
    BY <1>3, <2>0, <2>2, <2>3
<1>5. ASSUME NEW y, y = Copied(t.blk[t.addr], o, m), Step(p, d(y)), UNCHANGED ino
      PROVE  Still(p) /\ Copies(p, m)
  <2>0. y = FileWords(ino[i].addrs, disk.blk, o, m)
    <3>1. PICK b, ad, bm : b = t.blk[t.addr] /\ ad = ino[i].addrs /\ bm = disk.blk
      OBVIOUS
    <3>2. b = bm[BlockAt(ad, bm, o \div BSIZE)]
      BY <1>1, <3>1
    <3> HIDE DEF m, o, t
    <3>3. Copied(b, o, m) = FileWords(ad, bm, o, m)
      BY <1>1, <1>4, <3>2, CopiedIs
    <3> QED
      BY <1>5, <3>1, <3>3
  <2> HIDE DEF m, t, o
  <2>1. /\ d(y).pc = "readi" /\ d(y).f = f /\ d(y).tot = Call(p).tot + m
        /\ d(y).data = Call(p).data \o y
    BY <1>0, <1>3 DEF IsCall
  <2>2. PICK c : c = d(y)
    OBVIOUS
  <2>3. Step(p, c)
    BY <1>5, <2>2
  <2>4. (\A q \in Procs : q # p => proc'[q] = proc[q]) /\ Call(p)' = c
    BY <1>3, <2>3, Stepped
  <2>5. Still(p)
    BY <1>0, <1>5, <2>4 DEF Still
  <2>6. /\ Call(p)'.pc = "readi" /\ Call(p)'.f = f /\ Call(p)'.tot = Call(p).tot + m
        /\ Call(p)'.data = Call(p).data \o y
    BY <2>1, <2>2, <2>4
  <2> HIDE DEF d
  <2> QED
    BY <1>4, <2>0, <2>5, <2>6 DEF Copies, o
<1>6. ASSUME Step(p, Idle), ino' = [ino EXCEPT ![i].lock = None]
      PROVE  Still(p) /\ Call(p)' = Idle
  <2>1. (\A q \in Procs : q # p => proc'[q] = proc[q]) /\ Call(p)' = Idle
    BY <1>3, <1>6, Stepped
  <2>2. \A j \in Inodes : ino'[j].addrs = ino[j].addrs /\ ino'[j].size = ino[j].size
    <3> HIDE DEF i
    <3> QED
      BY <1>1, <1>3, <1>6, LockIs
  <2> QED
    BY <1>0, <2>1, <2>2 DEF Still
<1> HIDE DEF d, m, t, o, i
<1> QED
  BY <1>0, <1>5, <1>6

\* The offset of an entry moves on.
LEMMA OffsetMoves ==
  ASSUME Shapes, NEW f \in Files, NEW x, file' = [file EXCEPT ![f].off = x]
  PROVE  /\ \A g \in Files : file'[g].ip = file[g].ip
         /\ \A g \in Files : file'[g].off = IF g = f THEN x ELSE file[g].off
<1>1. DOMAIN file = Files /\ \A g \in Files : IsFile(file[g])
  BY DEF Shapes
<1>2. \A g \in Files : g # f => file'[g] = file[g]
  BY <1>1
<1>3. file'[f] = [file[f] EXCEPT !.off = x]
  BY <1>1
<1>4. file'[f].off = x /\ file'[f].ip = file[f].ip
  BY <1>1, <1>3 DEF IsFile
<1> QED
  BY <1>2, <1>4

\* fileread() ends.
LEMMA ReadEndIs ==
  ASSUME FilesIInv, NEW p \in Procs, ReadEnd(p), NEW f, f = Call(p).f, NEW i, i = file[f].ip
  PROVE  /\ Call(p).pc = "readi" /\ Call(p)' = Idle /\ f \in Files /\ i \in Inodes
         /\ Over(p, f, i, file[f].off + Call(p).tot, ino[i].size)
<1>1. Call(p).pc = "readi" /\ UNCHANGED disk /\ Step(p, Idle)
  BY DEF ReadEnd, At
<1>2. Call(p).pc \in Busy
  BY <1>1 DEF Busy
<1>3. f \in Files /\ i \in Inodes /\ Shapes /\ IsStore
  BY <1>2, Held DEF FilesIInv
<1>4. PICK x : x = file[f].off + Call(p).tot
  OBVIOUS
<1>5. file' = [file EXCEPT ![f].off = x]
  <2>1. DOMAIN file = Files
    BY <1>3 DEF Shapes
  <2> QED
    BY <1>3, <1>4, <2>1 DEF ReadEnd
<1>6. /\ \A g \in Files : file'[g].ip = file[g].ip
      /\ \A g \in Files : file'[g].off = IF g = f THEN x ELSE file[g].off
  BY <1>3, <1>5, OffsetMoves
<1>7. ino' = [ino EXCEPT ![i].lock = None]
  BY DEF ReadEnd
<1>8. \A j \in Inodes : ino'[j].addrs = ino[j].addrs /\ ino'[j].size = ino[j].size
  BY <1>3, <1>7, LockIs
<1>9. (\A q \in Procs : q # p => proc'[q] = proc[q]) /\ Call(p)' = Idle
  BY <1>1, <1>3, Stepped
<1> QED
  BY <1>1, <1>3, <1>4, <1>6, <1>8, <1>9 DEF Over

\* A turn of filewrite() ends.
LEMMA WriteEndIs ==
  ASSUME FilesIInv, NEW p \in Procs, WriteEnd(p), NEW f, f = Call(p).f, NEW i, i = file[f].ip
  PROVE  /\ Writing(p) /\ Call(p)'.pc \in {"user", "write"} /\ f \in Files /\ i \in Inodes
         /\ LET x == file[f].off + Call(p).tot IN Over(p, f, i, x, Highest(ino[i].size, x))
<1>1. Writing(p) /\ UNCHANGED disk
  BY DEF WriteEnd, At, Writing
<1>2. Call(p).pc \in Busy
  BY <1>1 DEF Busy, Writing
<1>3. f \in Files /\ i \in Inodes /\ Shapes /\ IsStore /\ IsInode(ino[i])
  BY <1>2, Held DEF FilesIInv
<1>4. PICK x, z : x = file[f].off + Call(p).tot /\ z = Highest(ino[i].size, x)
  OBVIOUS
<1>5. file' = [file EXCEPT ![f].off = x]
  <2>1. DOMAIN file = Files
    BY <1>3 DEF Shapes
  <2> QED
    BY <1>3, <1>4, <2>1 DEF WriteEnd, Moved
<1>6. /\ \A g \in Files : file'[g].ip = file[g].ip
      /\ \A g \in Files : file'[g].off = IF g = f THEN x ELSE file[g].off
  BY <1>3, <1>5, OffsetMoves
<1>7. DOMAIN ino = Inodes /\ DOMAIN ino[i] = {"size", "addrs", "lock"}
  BY <1>3 DEF IsStore, IsInode
<1>8. ino' = [ino EXCEPT ![i].size = z, ![i].lock = None]
  BY <1>3, <1>4, <1>7 DEF WriteEnd
<1>9. ino'[i] = [ino[i] EXCEPT !.size = z, !.lock = None]
  BY <1>3, <1>7, <1>8
<1>10. ino'[i].addrs = ino[i].addrs /\ ino'[i].size = z
  BY <1>7, <1>9
<1>11. \A j \in Inodes : j # i => ino'[j] = ino[j]
  BY <1>7, <1>8
<1>12. (\A q \in Procs : q # p => proc'[q] = proc[q]) /\ Call(p)'.pc \in {"user", "write"}
  <2> DEFINE d == [Idle EXCEPT !.pc = "write", !.f = Call(p).f, !.n = Call(p).n,
                               !.i = Call(p).i + Call(p).tot]
  <2>1. Step(p, Idle) \/ Step(p, d)
    BY StepIf DEF WriteEnd
  <2>2. Idle.pc = "user" /\ d.pc = "write"
    BY DEF Idle
  <2> HIDE DEF d
  <2> QED
    BY <1>3, <2>1, <2>2, Stepped
<1> QED
  BY <1>1, <1>3, <1>4, <1>6, <1>10, <1>11, <1>12 DEF Over

-----------------------------------------------------------------------------
(* open() and writei() *)

\* open() gives the entry f to inode i, which nobody has locked, and may truncate the file.
Truncated(i) ==
  disk'.blk = disk.blk /\ ino'[i].size = 0 /\ \A j \in Inodes : j # i => ino'[j] = ino[j]
Opens(p, f, i) ==
  /\ Opened(p, f, i) /\ ino[i].lock = None
  /\ UNCHANGED <<disk, ino>> \/ Truncated(i)

\* open() fails or opens a file.
LEMMA OpenIs ==
  ASSUME FilesIInv, NEW p \in Procs, SysOpen(p)
  PROVE  /\ Call(p).pc = "user" /\ Call(p)' = Idle
         /\ Still(p) \/ \E f \in Files, i \in Inodes : Opens(p, f, i)
<1>0. Shapes /\ DOMAIN file = Files
  BY DEF FilesIInv, RefsIInv, Shapes
<1>1. PICK i \in Inodes : i = Arg(p, 2) /\ ino[i].lock = None
  BY <1>0, HeadCall DEF SysOpen
<1>2. (\E o : Start(p, Idle, o)) /\ Call(p).pc = "user"
  BY DEF SysOpen, Calls, At
<1>3. (\A q \in Procs : q # p => proc'[q] = proc[q]) /\ Call(p)' = Idle
  BY <1>0, <1>2, Started
<1>4. CASE UNCHANGED <<disk, ino, file>>
  BY <1>2, <1>3, <1>4 DEF Still
<1>5. CASE /\ FreeFiles # {}
           /\ \E e : e.off = 0 /\ e.ip = i /\ file' = [file EXCEPT ![Min(FreeFiles)] = e]
           /\ UNCHANGED <<disk, ino>> \/ Itrunc(i)
  <2>1. PICK f \in Files : f = Min(FreeFiles) /\ file[f].ref = 0
    BY <1>0, <1>5, FirstFree
  <2>2. PICK e : e.off = 0 /\ e.ip = i /\ file' = [file EXCEPT ![f] = e]
    BY <1>5, <2>1
  <2>3. \A g \in Files : file'[g] = IF g = f THEN e ELSE file[g]
    BY <1>0, <2>2
  <2>4. Opened(p, f, i)
    BY <1>3, <2>1, <2>2, <2>3 DEF Opened
  <2>5. Itrunc(i) => Truncated(i)
    BY TruncStore DEF Truncated
  <2> QED
    BY <1>1, <1>2, <1>3, <1>5, <2>4, <2>5 DEF Opens
<1> QED
  <2>1. \/ UNCHANGED <<disk, ino, file>>
        \/ /\ FreeFiles # {}
           /\ \E e : e.off = 0 /\ e.ip = i /\ file' = [file EXCEPT ![Min(FreeFiles)] = e]
           /\ UNCHANGED <<disk, ino>> \/ Itrunc(i)
    BY <1>1 DEF SysOpen
  <2> QED
    BY <1>4, <1>5, <2>1

\* writei() goes on with the next block, or has failed.
LEMMA WriteCall ==
  ASSUME FilesIInv, NEW p \in Procs, Call(p).pc = "writei", Call(p).tot < Call(p).n1,
         NEW h, NEW t, NEW g, NEW k, WritesTo(p, h, t, g, k)
  PROVE  LET c == Call(p)
             m == Part(file[c.f].off + c.tot, c.n1 - c.tot) IN
         /\ \A q \in Procs : q # p => proc'[q] = proc[q]
         /\ UNCHANGED file /\ k \in 0..m /\ m \in Nat
         /\ Writing(p)' /\ Call(p)'.f = c.f /\ Call(p)'.tot = c.tot + (IF k = m THEN m ELSE 0)
<1> DEFINE c == Call(p)
           m == Part(file[c.f].off + c.tot, c.n1 - c.tot)
<1>0. Shapes /\ IsCall(c) /\ IsCount(c) /\ m \in Nat
  <2>1. Call(p).pc \in Busy
    BY DEF Busy
  <2>2. m \in Nat
    BY WriteNumbers DEF WriteAt
  <2> QED
    BY <2>1, <2>2, Held
<1>1. /\ UNCHANGED file /\ k \in 0..m
      /\ Step(p, IF k = m THEN [c EXCEPT !.tot = @ + m, !.log = t.log \cup {Data(t.addr)}]
                          ELSE [c EXCEPT !.pc = "writei_end", !.log = t.log])
  BY DEF WritesTo
<1> HIDE DEF m
<1>2. ASSUME NEW d, Step(p, d)
      PROVE  (\A q \in Procs : q # p => proc'[q] = proc[q]) /\ Call(p)' = d
  BY <1>0, <1>2, Stepped
<1>3. CASE k = m
  <2> DEFINE d == [c EXCEPT !.tot = c.tot + m, !.log = t.log \cup {Data(t.addr)}]
  <2>1. Step(p, d)
    BY <1>1, <1>3
  <2>2. d.pc = "writei" /\ d.f = c.f /\ d.tot = c.tot + m
    BY <1>0 DEF IsCall
  <2> HIDE DEF d
  <2>3. (\A q \in Procs : q # p => proc'[q] = proc[q]) /\ Call(p)' = d
    BY <1>2, <2>1
  <2>4. Writing(p)'
    BY <2>2, <2>3 DEF Writing
  <2> QED
    BY <1>0, <1>1, <1>3, <2>2, <2>3, <2>4 DEF m
<1>4. CASE k # m
  <2> DEFINE d == [c EXCEPT !.pc = "writei_end", !.log = t.log]
  <2>1. Step(p, d)
    BY <1>1, <1>4
  <2>2. d.pc = "writei_end" /\ d.f = c.f /\ d.tot = c.tot
    BY <1>0 DEF IsCall
  <2> HIDE DEF d
  <2>3. (\A q \in Procs : q # p => proc'[q] = proc[q]) /\ Call(p)' = d
    BY <1>2, <2>1
  <2>4. Writing(p)'
    BY <2>2, <2>3 DEF Writing
  <2>5. c.tot + 0 = c.tot
    BY <1>0 DEF IsCount
  <2> QED
    BY <1>0, <1>1, <1>4, <2>2, <2>3, <2>4, <2>5 DEF m
<1> QED
  BY <1>3, <1>4

-----------------------------------------------------------------------------
(* What has been read *)

\* What a readi() under way has copied are the words of the file from the offset on.
HasRead(c, ad, m, off) == c.pc = "readi" =>
  /\ c.data \in Seq(Nat) /\ Len(c.data) = c.tot
  /\ \A k \in 1..c.tot : c.data[k] = Word(ad, m, off + k - 1)
ReadInv(q) == HasRead(Call(q), ino[file[Call(q).f].ip].addrs, disk.blk, file[Call(q).f].off)
ReadsIInv == \A q \in Procs : ReadInv(q)

\* A step leaves the file that q reads alone, and where q reads.
Undisturbed(q) == Call(q).pc = "readi" =>
  LET f == Call(q).f IN
  file'[f].ip = file[f].ip /\ file'[f].off = file[f].off /\ SameWords(file[f].ip)

\* A readi() under way: its numbers, and the blocks of the file.
LEMMA ReadingIs ==
  ASSUME FilesIInv, NEW q \in Procs, Call(q).pc = "readi"
  PROVE  LET f == Call(q).f
             i == file[f].ip IN
         /\ f \in Files /\ file[f].ref >= 1 /\ i \in Inodes /\ Call(q).pc \in Holding
         /\ file[f].off \in Nat /\ Call(q).tot \in Nat /\ ino[i].size \in Nat /\ ino[i].lock = q
         /\ q # None /\ file[f].off + Call(q).tot <= ino[i].size
         /\ ino[i].size <= Limit /\ Mapped(ino[i].addrs, disk.blk, ino[i].size)
<1> DEFINE f == Call(q).f
           i == file[f].ip
<1>1. Call(q).pc \in Holding /\ Call(q).pc \in Busy
  BY DEF Holding, Busy
<1>2. /\ f \in Files /\ file[f].ref >= 1 /\ i \in Inodes /\ file[f].off \in Nat
      /\ IsCount(Call(q)) /\ IsInode(ino[i]) /\ ino[i].lock = q /\ q # None
      /\ ReadFits(Call(q), file[f], ino[i]) /\ SizesFit
  BY <1>1, Held DEF WorksOn, FilesIInv
<1>3. /\ Call(q).tot \in Nat /\ Call(q).n \in Int /\ ino[i].size \in Nat
      /\ file[f].off + Call(q).n <= ino[i].size /\ Call(q).tot <= Call(q).n
  BY <1>2 DEF IsCount, IsInode, ReadFits
<1>4. file[f].off + Call(q).tot <= ino[i].size
  BY <1>2, <1>3
<1> QED
  BY <1>1, <1>2, <1>3, <1>4 DEF SizesFit

\* It goes on with what it has read.
LEMMA ReadStays ==
  ASSUME FilesIInv, NEW q \in Procs, ReadInv(q), proc'[q] = proc[q], Undisturbed(q)
  PROVE  ReadInv(q)'
<1> DEFINE c == Call(q)
           f == c.f
           i == file[f].ip
<1>1. Call(q)' = c
  BY DEF Call
<1>2. CASE c.pc # "readi"
  BY <1>1, <1>2 DEF ReadInv, HasRead
<1>3. CASE c.pc = "readi"
  <2>1. file'[f].ip = i /\ file'[f].off = file[f].off /\ SameWords(i)
    BY <1>3 DEF Undisturbed
  <2>2. /\ i \in Inodes /\ file[f].off \in Nat /\ c.tot \in Nat /\ ino[i].size \in Nat
        /\ file[f].off + c.tot <= ino[i].size /\ ino[i].size <= Limit
        /\ Mapped(ino[i].addrs, disk.blk, ino[i].size)
    BY <1>3, ReadingIs
  <2>3. /\ c.data \in Seq(Nat) /\ Len(c.data) = c.tot
        /\ \A k \in 1..c.tot : c.data[k] = Word(ino[i].addrs, disk.blk, file[f].off + k - 1)
    BY <1>3 DEF ReadInv, HasRead
  <2> HIDE DEF c, i
  <2>4. ASSUME NEW k \in 1..c.tot
        PROVE  Word(ino'[i].addrs, disk'.blk, file[f].off + k - 1)
                 = Word(ino[i].addrs, disk.blk, file[f].off + k - 1)
    <3>1. PICK o \in Nat : o = file[f].off + k - 1 /\ o < ino[i].size
      BY <2>2
    <3>2. o \div BSIZE \in FileBlocks
      BY <2>2, <3>1, OffsetMapped
    <3>3. SameBlock(i, o \div BSIZE)
      BY <2>1, <3>2 DEF SameWords
    <3>4. Word(ino'[i].addrs, disk'.blk, o) = Word(ino[i].addrs, disk.blk, o)
      BY <2>2, <3>1, <3>3, WordStays
    <3> QED
      BY <3>1, <3>4
  <2>5. HasRead(c, ino'[i].addrs, disk'.blk, file[f].off)
    BY <2>3, <2>4 DEF HasRead
  <2> QED
    BY <1>1, <2>1, <2>5 DEF ReadInv
<1> QED
  BY <1>2, <1>3

\* Blocks and words that do not change are the same.
LEMMA SameAll ==
  ASSUME disk'.blk = disk.blk, NEW i, ino'[i].addrs = ino[i].addrs
  PROVE  SameWords(i)
  BY DEF SameWords, SameBlock

\* A step of p does not disturb what another process reads.
LEMMA OthersRead ==
  ASSUME FilesIInv, NEW p \in Procs, NEW q \in Procs, q # p, Call(q).pc = "readi",
         \/ Still(p)
         \/ \E f, i, x, z : f = Call(p).f /\ i = file[f].ip /\ Call(p).pc \in Holding
                            /\ Over(p, f, i, x, z)
         \/ \E f, i : Opens(p, f, i)
         \/ /\ WriteBlock(p) /\ UNCHANGED file
            /\ Call(p).pc = "writei" /\ Call(p).tot < Call(p).n1
            /\ \E h, t, g, k : WritesTo(p, h, t, g, k)
  PROVE  Undisturbed(q)
<1> DEFINE c == Call(q)
           f == c.f
           i == file[f].ip
<1>1. /\ f \in Files /\ file[f].ref >= 1 /\ i \in Inodes /\ c.pc \in Holding
      /\ ino[i].lock = q /\ q # None
  BY ReadingIs
<1>2. CASE Still(p)
  <2>1. file'[f].ip = i /\ file'[f].off = file[f].off /\ disk'.blk = disk.blk
        /\ ino'[i].addrs = ino[i].addrs
    BY <1>1, <1>2 DEF Still
  <2>2. SameWords(i)
    BY <2>1, SameAll
  <2> QED
    BY <2>1, <2>2 DEF Undisturbed
<1>3. CASE \E e, j, x, z : e = Call(p).f /\ j = file[e].ip /\ Call(p).pc \in Holding
                           /\ Over(p, e, j, x, z)
  <2>1. PICK e, j, x, z : e = Call(p).f /\ j = file[e].ip /\ Call(p).pc \in Holding
                          /\ Over(p, e, j, x, z)
    BY <1>3
  <2>2. e # f
    BY <1>1, <2>1, Alone
  <2>3. file'[f].ip = i /\ file'[f].off = file[f].off /\ disk'.blk = disk.blk
        /\ ino'[i].addrs = ino[i].addrs
    BY <1>1, <2>1, <2>2 DEF Over
  <2>4. SameWords(i)
    BY <2>3, SameAll
  <2> QED
    BY <2>3, <2>4 DEF Undisturbed
<1>4. CASE \E e, j : Opens(p, e, j)
  <2>1. PICK e, j : Opens(p, e, j)
    BY <1>4
  <2>2. Opened(p, e, j) /\ ino[j].lock = None /\ (UNCHANGED <<disk, ino>> \/ Truncated(j))
    BY <2>1 DEF Opens
  <2>3. e # f
    BY <1>1, <2>2 DEF Opened
  <2>4. file'[f].ip = i /\ file'[f].off = file[f].off
    BY <1>1, <2>2, <2>3 DEF Opened
  <2>5. i # j
    BY <1>1, <2>2
  <2>6. disk'.blk = disk.blk /\ ino'[i].addrs = ino[i].addrs
    BY <1>1, <2>2, <2>5 DEF Truncated
  <2>7. SameWords(i)
    BY <2>6, SameAll
  <2> QED
    BY <2>4, <2>7 DEF Undisturbed
<1>5. CASE /\ WriteBlock(p) /\ UNCHANGED file
           /\ Call(p).pc = "writei" /\ Call(p).tot < Call(p).n1
           /\ \E h, t, g, k : WritesTo(p, h, t, g, k)
  <2>1. PICK h, t, g, k : WritesTo(p, h, t, g, k)
    BY <1>5
  <2>2. WriteEffect(p, k)
    BY <1>5, <2>1, WriteWords
  <2>3. file[Call(p).f].ip # i
    <3>1. Call(p).pc \in Holding
      BY <1>5 DEF Holding
    <3> QED
      BY <1>1, <3>1, Alone
  <2>4. SameWords(i)
    BY <1>1, <2>2, <2>3 DEF WriteEffect
  <2> QED
    BY <1>5, <2>4 DEF Undisturbed
<1> QED
  BY <1>2, <1>3, <1>4, <1>5

-----------------------------------------------------------------------------
(* read() returns what the file holds *)

\* A word of the file is a number.
LEMMA WordIs ==
  ASSUME FilesIInv, NEW i \in Inodes, NEW o \in Nat, o < End(i)
  PROVE  Word(ino[i].addrs, disk.blk, o) \in Nat
<1>1. End(i) \in Nat /\ \A k \in 1..End(i) : Word(ino[i].addrs, disk.blk, k - 1) \in Nat
  BY EndIs, ContentsIs
<1>2. o + 1 \in 1..End(i) /\ (o + 1) - 1 = o
  BY <1>1
<1> QED
  BY <1>1, <1>2

\* A sequence that goes on with m values of a function.
LEMMA Longer ==
  ASSUME NEW s \in Seq(Nat), NEW m \in Nat, NEW r \in Seq(Nat), Len(r) = m
  PROVE  /\ s \o r \in Seq(Nat) /\ Len(s \o r) = Len(s) + m
         /\ \A k \in 1..(Len(s) + m) :
              (s \o r)[k] = IF k \in 1..Len(s) THEN s[k] ELSE r[k - Len(s)]
<1>1. Len(s) \in Nat
  OBVIOUS
<1> QED
  BY <1>1

\* Functions that are sequences, and when sequences are equal.
LEMMA SeqOf ==
  ASSUME NEW m \in Nat, NEW r, r = [k \in 1..m |-> r[k]], \A k \in 1..m : r[k] \in Nat
  PROVE  r \in Seq(Nat) /\ Len(r) = m
<1>1. r \in [1..m -> Nat]
  OBVIOUS
<1> QED
  BY <1>1

\* Sequences with the same elements are equal.
LEMMA SeqSame ==
  ASSUME NEW m \in Nat, NEW r \in Seq(Nat), NEW s \in Seq(Nat), Len(r) = m, Len(s) = m,
         \A k \in 1..m : r[k] = s[k]
  PROVE  r = s
<1>1. r \in [1..m -> Nat] /\ s \in [1..m -> Nat]
  OBVIOUS
<1> QED
  BY <1>1

\* readi() goes on with the next words.
LEMMA CopiesRead ==
  ASSUME FilesIInv, NEW p \in Procs, ReadInv(p), Call(p).pc = "readi", Still(p), NEW m, Copies(p, m)
  PROVE  ReadInv(p)'
<1> DEFINE c == Call(p)
           f == c.f
           i == file[f].ip
           ad == ino[i].addrs
           off == file[f].off
<1>1. /\ f \in Files /\ i \in Inodes /\ off \in Nat /\ c.tot \in Nat /\ ino[i].size \in Nat
  BY ReadingIs
<1>2. /\ m \in Nat /\ (off + c.tot) + m <= ino[i].size
      /\ Call(p)'.pc = "readi" /\ Call(p)'.f = f /\ Call(p)'.tot = c.tot + m
      /\ Call(p)'.data = c.data \o FileWords(ad, disk.blk, off + c.tot, m)
  BY DEF Copies
<1>3. /\ c.data \in Seq(Nat) /\ Len(c.data) = c.tot
      /\ \A k \in 1..c.tot : c.data[k] = Word(ad, disk.blk, off + k - 1)
  BY DEF ReadInv, HasRead
<1>4. file'[f].ip = i /\ file'[f].off = off /\ disk'.blk = disk.blk /\ ino'[i].addrs = ad
  BY <1>1 DEF Still
<1> HIDE DEF ad, i, off, c
<1>5. PICK r : r = FileWords(ad, disk.blk, off + c.tot, m)
  OBVIOUS
<1>6. r \in Seq(Nat) /\ Len(r) = m /\ \A x \in 1..m : r[x] = Word(ad, disk.blk, off + c.tot + x - 1)
  <2>1. \A x \in 1..m : Word(ad, disk.blk, off + c.tot + x - 1) \in Nat
    <3> SUFFICES ASSUME NEW x \in 1..m PROVE Word(ad, disk.blk, off + c.tot + x - 1) \in Nat
      OBVIOUS
    <3>1. ino[i].size <= End(i) /\ End(i) \in Nat
      BY <1>1, EndIs
    <3>2. PICK o \in Nat : o = off + c.tot + x - 1 /\ o < End(i)
      BY <1>1, <1>2, <3>1
    <3> QED
      BY <1>1, <3>2, WordIs DEF ad
  <2>2. r = [x \in 1..m |-> Word(ad, disk.blk, off + c.tot + x - 1)]
    BY <1>5 DEF FileWords
  <2>3. /\ r = [x \in 1..m |-> r[x]]
        /\ \A x \in 1..m : r[x] = Word(ad, disk.blk, off + c.tot + x - 1)
    BY <2>2
  <2>4. \A x \in 1..m : r[x] \in Nat
    BY <2>1, <2>3
  <2> QED
    BY <1>2, <2>3, <2>4, SeqOf
<1>7. /\ c.data \o r \in Seq(Nat) /\ Len(c.data \o r) = c.tot + m
      /\ \A k \in 1..(c.tot + m) :
           (c.data \o r)[k] = IF k \in 1..c.tot THEN c.data[k] ELSE r[k - c.tot]
  <2>1. PICK s \in Seq(Nat) : s = c.data /\ Len(s) = c.tot
    BY <1>3
  <2>2. /\ s \o r \in Seq(Nat) /\ Len(s \o r) = Len(s) + m
        /\ \A k \in 1..(Len(s) + m) :
             (s \o r)[k] = IF k \in 1..Len(s) THEN s[k] ELSE r[k - Len(s)]
    BY <1>2, <1>6, Longer
  <2> QED
    BY <2>1, <2>2
<1>8. ASSUME NEW k \in 1..(c.tot + m)
      PROVE  (c.data \o r)[k] = Word(ad, disk.blk, off + k - 1)
  <2>1. CASE k \in 1..c.tot
    BY <1>3, <1>7, <2>1
  <2>2. CASE k \notin 1..c.tot
    <3>1. PICK x \in 1..m : x = k - c.tot /\ off + c.tot + x - 1 = off + k - 1
      BY <1>1, <1>2, <2>2
    <3>2. r[x] = Word(ad, disk.blk, off + k - 1)
      BY <1>6, <3>1
    <3> QED
      BY <1>7, <2>2, <3>1, <3>2
  <2> QED
    BY <2>1, <2>2
<1>9. PICK d : d = Call(p)'
  OBVIOUS
<1>10. d.pc = "readi" /\ d.f = f /\ d.tot = c.tot + m /\ d.data = c.data \o r
  BY <1>2, <1>5, <1>9
<1>11. HasRead(d, ad, disk.blk, off)
  BY <1>7, <1>8, <1>10 DEF HasRead
<1> QED
  BY <1>4, <1>9, <1>10, <1>11 DEF ReadInv

\* A call that is not in readi() has read nothing.
LEMMA NotReading ==
  ASSUME NEW p, Call(p)'.pc # "readi"
  PROVE  ReadInv(p)'
  BY DEF ReadInv, HasRead

\* A step of p.
LEMMA StepReads ==
  ASSUME FilesIInv, ReadsIInv, NEW p \in Procs, ReadInv(p)',
         \A q \in Procs : q # p => proc'[q] = proc[q],
         \A q \in Procs : q # p /\ Call(q).pc = "readi" => Undisturbed(q)
  PROVE  ReadsIInv'
<1>1. ASSUME NEW q \in Procs, q # p PROVE ReadInv(q)'
  <2>1. Undisturbed(q)
    BY <1>1 DEF Undisturbed
  <2> QED
    BY <1>1, <2>1, ReadStays DEF ReadsIInv
<1> QED
  BY <1>1 DEF ReadsIInv

\* Every step of a process keeps what the calls under way have read.
LEMMA ActReads ==
  ASSUME FilesIInv, ReadsIInv, NEW p \in Procs,
         \/ SysReadWrite(p) \/ ReadStart(p) \/ ReadBlock(p) \/ ReadEnd(p)
         \/ WriteStart(p) \/ WriteBlock(p) \/ WriteEnd(p) \/ SysFstat(p)
         \/ SysOpen(p) \/ SysDup(p) \/ SysClose(p)
         \/ PipeFirst(p) \/ PipeSecond(p) \/ PipeFds(p)
  PROVE  ReadsIInv'
<1>0. ReadInv(p) /\ Idle.pc = "user"
  BY DEF ReadsIInv, Idle
<1>1. ASSUME Still(p), ReadInv(p)' PROVE ReadsIInv'
  <2>1. \A q \in Procs : q # p => proc'[q] = proc[q]
    BY <1>1 DEF Still
  <2>2. \A q \in Procs : q # p /\ Call(q).pc = "readi" => Undisturbed(q)
    BY <1>1, OthersRead
  <2> QED
    BY <1>1, <2>1, <2>2, StepReads
<1>2. CASE SysReadWrite(p) \/ SysFstat(p)
  <2>1. Still(p) /\ Call(p)'.pc # "readi"
    BY <1>2, BeginIs
  <2> QED
    BY <1>1, <2>1, NotReading
<1>3. CASE ReadStart(p)
  <2>1. Still(p)
    BY <1>3, ReadStartIs
  <2>2. CASE Call(p)' = Idle
    BY <1>0, <1>1, <2>1, <2>2, NotReading
  <2>3. CASE Call(p)'.pc = "readi" /\ Call(p)'.tot = 0 /\ Call(p)'.data = <<>>
    <3>1. PICK d : d = Call(p)' /\ d.pc = "readi" /\ d.tot = 0 /\ d.data = <<>>
      BY <2>3
    <3>2. \A ad, m, off : HasRead(d, ad, m, off)
      BY <3>1 DEF HasRead
    <3>3. ReadInv(p)'
      BY <3>1, <3>2 DEF ReadInv
    <3> QED
      BY <1>1, <2>1, <3>3
  <2> QED
    BY <1>3, <2>2, <2>3, ReadStartIs
<1>4. CASE ReadBlock(p)
  <2>1. Still(p) /\ Call(p).pc = "readi" /\ (Call(p)' = Idle \/ \E m : Copies(p, m))
    BY <1>4, ReadBlockIs
  <2>2. CASE Call(p)' = Idle
    BY <1>0, <1>1, <2>1, <2>2, NotReading
  <2>3. ASSUME NEW m, Copies(p, m) PROVE ReadsIInv'
    <3>1. ReadInv(p)'
      BY <1>0, <2>1, <2>3, CopiesRead
    <3> QED
      BY <1>1, <2>1, <3>1
  <2> QED
    BY <2>1, <2>2, <2>3
<1>5. CASE WriteStart(p)
  <2>1. Still(p) /\ Call(p)'.pc # "readi"
    BY <1>0, <1>5, WriteStartIs
  <2> QED
    BY <1>1, <2>1, NotReading
<1>6. CASE ReadEnd(p) \/ WriteEnd(p)
  <2>1. PICK f, i, x, z : /\ f = Call(p).f /\ i = file[f].ip /\ Call(p).pc \in Holding
                          /\ Over(p, f, i, x, z) /\ Call(p)'.pc # "readi"
    <3>1. PICK f, i : f = Call(p).f /\ i = file[f].ip
      OBVIOUS
    <3>2. CASE ReadEnd(p)
      BY <1>0, <3>1, <3>2, ReadEndIs DEF Holding
    <3>3. CASE WriteEnd(p)
      BY <3>1, <3>3, WriteEndIs DEF Holding, Writing
    <3> QED
      BY <1>6, <3>2, <3>3
  <2>2. \A q \in Procs : q # p => proc'[q] = proc[q]
    BY <2>1 DEF Over
  <2>3. \A q \in Procs : q # p /\ Call(q).pc = "readi" => Undisturbed(q)
    BY <2>1, OthersRead
  <2> QED
    BY <2>1, <2>2, <2>3, StepReads, NotReading
<1>7. CASE WriteBlock(p)
  <2>0. Call(p).pc = "writei" /\ Call(p).tot < Call(p).n1
    BY <1>7 DEF WriteBlock, At
  <2>1. CASE UNCHANGED <<disk, ino, proc, file>>
    <3>1. Still(p)
      BY <2>1 DEF Still
    <3>2. Call(p)'.pc # "readi"
      BY <2>0, <2>1 DEF Call
    <3> QED
      BY <1>1, <3>1, <3>2, NotReading
  <2>2. ASSUME NEW h, NEW t, NEW g, NEW k, WritesTo(p, h, t, g, k) PROVE ReadsIInv'
    <3>1. /\ \A q \in Procs : q # p => proc'[q] = proc[q]
          /\ UNCHANGED file /\ Writing(p)'
      BY <2>0, <2>2, WriteCall
    <3>2. Call(p)'.pc # "readi"
      BY <3>1 DEF Writing
    <3>3. \A q \in Procs : q # p /\ Call(q).pc = "readi" => Undisturbed(q)
      BY <1>7, <2>0, <2>2, <3>1, OthersRead
    <3> QED
      BY <3>1, <3>2, <3>3, StepReads, NotReading
  <2> QED
    BY <1>7, <2>1, <2>2, WriteBlockIs
<1>8. CASE SysOpen(p)
  <2>0. Call(p)'.pc # "readi"
    BY <1>0, <1>8, OpenIs
  <2>1. CASE Still(p)
    BY <1>1, <2>0, <2>1, NotReading
  <2>2. ASSUME NEW f, NEW i, Opens(p, f, i) PROVE ReadsIInv'
    <3>1. \A q \in Procs : q # p => proc'[q] = proc[q]
      BY <2>2 DEF Opens, Opened
    <3>2. \A q \in Procs : q # p /\ Call(q).pc = "readi" => Undisturbed(q)
      BY <2>2, OthersRead
    <3> QED
      BY <2>0, <3>1, <3>2, StepReads, NotReading
  <2> QED
    BY <1>8, <2>1, <2>2, OpenIs
<1>9. CASE SysDup(p) \/ SysClose(p) \/ PipeFirst(p) \/ PipeSecond(p) \/ PipeFds(p)
  <2>1. TableMoves(p)
    BY <1>9, DupCloseIs, PipeIs
  <2>2. Still(p) /\ Call(p)'.pc # "readi"
    BY <2>1 DEF TableMoves, Still, Busy
  <2> QED
    BY <1>1, <2>2, NotReading
<1> QED
  BY <1>2, <1>3, <1>4, <1>5, <1>6, <1>7, <1>8, <1>9

\* Nobody reads at the start, and every step keeps what has been read.
LEMMA ReadsAlways == Spec => []ReadsIInv
<1>1. Init => ReadsIInv
  <2> SUFFICES ASSUME Init, NEW p \in Procs PROVE ReadInv(p)
    BY DEF ReadsIInv
  <2>1. PICK prog \in Programs :
          proc = [q \in Procs |-> [call |-> Idle, todo |-> prog[q],
                                   ofile |-> [d \in Fds |-> IF d = 0 THEN 1 ELSE 0]]]
    BY DEF Init, Fds
  <2>2. Call(p) = Idle
    BY <2>1 DEF Call
  <2>3. Call(p).pc # "readi"
    BY <2>2 DEF Idle
  <2> QED
    BY <2>3 DEF ReadInv, HasRead
<1>2. FilesIInv /\ ReadsIInv /\ [Next]_vars => ReadsIInv'
  <2> SUFFICES ASSUME FilesIInv, ReadsIInv, [Next]_vars PROVE ReadsIInv'
    OBVIOUS
  <2>1. CASE UNCHANGED vars
    BY <2>1 DEF vars, ReadsIInv, ReadInv, Call
  <2>2. CASE Next
    BY <2>2, ActReads DEF Next
  <2> QED
    BY <2>1, <2>2
<1> QED
  BY <1>1, <1>2, FilesAlways, PTL DEF Spec

\* What a readi() under way has copied is what the file holds at the offset.
LEMMA ReadsFrom == FilesIInv /\ ReadsIInv => ReadExact
<1> SUFFICES ASSUME FilesIInv, ReadsIInv, NEW p \in Procs, Call(p).pc = "readi"
             PROVE  LET f == file[Call(p).f] IN
                    Call(p).data = SubSeq(Contents(f.ip), f.off + 1, f.off + Call(p).tot)
  BY DEF ReadExact
<1>1. PICK f, i, off, tot : /\ f = Call(p).f /\ i = file[f].ip
                            /\ off = file[f].off /\ tot = Call(p).tot
  OBVIOUS
<1>2. i \in Inodes /\ off \in Nat /\ tot \in Nat /\ off + tot <= ino[i].size
  BY <1>1, ReadingIs
<1>3. ino[i].size \in Nat /\ ino[i].size <= End(i) /\ End(i) \in Nat
  BY <1>2, EndIs
<1>4. PICK s : s = Contents(i)
  OBVIOUS
<1>5. /\ s = [k \in 1..End(i) |-> Word(ino[i].addrs, disk.blk, k - 1)]
      /\ \A k \in 1..End(i) : Word(ino[i].addrs, disk.blk, k - 1) \in Nat
  BY <1>2, <1>4, ContentsIs
<1>6. s \in Seq(Nat) /\ Len(s) = End(i)
  BY <1>3, <1>5
<1>7. PICK d : d = Call(p).data
  OBVIOUS
<1>8. /\ d \in Seq(Nat) /\ Len(d) = tot
      /\ \A k \in 1..tot : d[k] = Word(ino[i].addrs, disk.blk, off + k - 1)
  BY <1>1, <1>7 DEF ReadsIInv, ReadInv, HasRead
<1>9. PICK u : u = SubSeq(s, off + 1, off + tot)
  OBVIOUS
<1>10. u \in Seq(Nat) /\ Len(u) = tot /\ \A k \in 1..tot : u[k] = s[off + k]
  <2>1. off + 1 \in Int /\ off + tot \in Int /\ \A k \in (off + 1)..(off + tot) : s[k] \in Nat
    BY <1>2, <1>3, <1>5
  <2> QED
    BY <1>2, <1>3, <1>6, <1>9
<1>11. ASSUME NEW k \in 1..tot PROVE u[k] = d[k]
  <2>1. off + k \in 1..End(i) /\ (off + k) - 1 = off + k - 1
    BY <1>2, <1>3
  <2>2. s[off + k] = Word(ino[i].addrs, disk.blk, (off + k) - 1)
    BY <1>5, <2>1
  <2> QED
    BY <1>8, <1>10, <2>1, <2>2
<1>12. d = u
  BY <1>2, <1>8, <1>10, <1>11, SeqSame
<1> QED
  BY <1>1, <1>4, <1>7, <1>9, <1>12

\* A read() returns the words of the file at its offset, whatever other processes write,
\* truncate, open and close meanwhile: readi() looks every block up with bmap() again, and
\* the blocks it meets are those the file had when it took the inode's lock.
THEOREM FilesRead == Spec => []ReadExact
  BY ReadsFrom, FilesAlways, ReadsAlways, PTL

-----------------------------------------------------------------------------
(* Part 5: the files are flat.  The steps of FlatFile *)

\* The flat files that the block map stands for.
FlatOf == [i \in Inodes |-> Contents(i)]
OffOf == [f \in Files |-> file[f].off + Pending(f)]
IpOf == [f \in Files |-> file[f].ip]
SameFlat == FlatOf' = FlatOf /\ OffOf' = OffOf /\ IpOf' = IpOf

\* The words of s with n words of p's buffer in place of what is at offset o, and more.
Splice(s, o, p, k, n) ==
  [j \in 1..(IF o + n > Len(s) THEN o + n ELSE Len(s)) |->
     IF j > o /\ j <= o + n THEN Source(p, k + j - o) ELSE s[j]]

\* The steps of FlatFile in these terms.
LEMMA FlatWrite ==
  ASSUME NEW f \in Files, NEW p \in Procs, NEW k \in 0..1, NEW n \in 1..BSIZE,
         OffOf[f] <= Len(FlatOf[IpOf[f]]), OffOf[f] + n <= Limit,
         OffOf' = [OffOf EXCEPT ![f] = @ + n], IpOf' = IpOf,
         FlatOf' = [FlatOf EXCEPT ![IpOf[f]] = Splice(@, OffOf[f], p, k, n)]
  PROVE  Flat!Next
<1>1. Flat!Write(f, p, k, n)
  BY DEF Flat!Write, Flat!Spliced, Splice, FlatOf, OffOf, IpOf, Limit
<1> QED
  BY <1>1 DEF Flat!Next

\* A write() that fails.
LEMMA FlatSmear ==
  ASSUME NEW f \in Files, NEW p \in Procs, NEW k \in 0..1, NEW n \in 1..BSIZE,
         OffOf[f] <= Len(FlatOf[IpOf[f]]), OffOf' = OffOf, IpOf' = IpOf,
         FlatOf' = [FlatOf EXCEPT ![IpOf[f]] =
                      SubSeq(Splice(FlatOf[IpOf[f]], OffOf[f], p, k, n), 1, Len(FlatOf[IpOf[f]]))]
  PROVE  Flat!Next
<1>1. Flat!Smear(f, p, k, n)
  BY DEF Flat!Smear, Flat!Spliced, Splice, FlatOf, OffOf, IpOf
<1> QED
  BY <1>1 DEF Flat!Next

\* A read() moves the offset.
LEMMA FlatRead ==
  ASSUME NEW f \in Files, NEW n \in 1..Limit, OffOf[f] + n <= Len(FlatOf[IpOf[f]]),
         OffOf' = [OffOf EXCEPT ![f] = @ + n], IpOf' = IpOf, FlatOf' = FlatOf
  PROVE  Flat!Next
<1>1. Flat!Read(f, n)
  BY DEF Flat!Read, FlatOf, OffOf, IpOf
<1> QED
  BY <1>1 DEF Flat!Next, Limit

\* open() sets the offset, and may truncate the file.
LEMMA FlatOpen ==
  ASSUME NEW f \in Files, NEW i \in Inodes,
         IpOf' = [IpOf EXCEPT ![f] = i], OffOf' = [OffOf EXCEPT ![f] = 0],
         FlatOf' = FlatOf \/ FlatOf' = [FlatOf EXCEPT ![i] = <<>>]
  PROVE  Flat!Next
<1>1. Flat!Open(f, i) \/ Flat!OpenTrunc(f, i)
  BY DEF Flat!Open, Flat!OpenTrunc, FlatOf, OffOf, IpOf
<1> QED
  BY <1>1 DEF Flat!Next

\* What the calls under way have added to the offsets.
Front(q) == file[Call(q).f].off + Call(q).tot
PendFacts ==
  /\ \A f \in Files :
       /\ (\A p \in Procs : Writing(p) => Call(p).f # f) => Pending(f) = 0
       /\ \A p \in Procs : Writing(p) /\ Call(p).f = f => Pending(f) = Call(p).tot
       /\ file[f].off \in Nat /\ file[f].ip \in Inodes
  /\ \A p \in Procs : Writing(p) =>
       /\ Call(p).f \in Files /\ Call(p).tot \in Nat /\ Front(p) \in Nat /\ Front(p) <= Limit
       /\ file[Call(p).f].off <= ino[file[Call(p).f].ip].size

\* One process at most writes with an entry.
LEMMA PendNow == FilesIInv => PendFacts
<1> SUFFICES ASSUME FilesIInv PROVE PendFacts
  OBVIOUS
<1>1. \A f \in Files : (\A p \in Procs : Writing(p) => Call(p).f # f) => Pending(f) = 0
  BY DEF Pending
<1>2. ASSUME NEW f \in Files, NEW p \in Procs, Writing(p), Call(p).f = f
      PROVE  Pending(f) = Call(p).tot
  <2>1. ASSUME NEW q \in Procs, Writing(q), Call(q).f = f PROVE q = p
    BY <1>2, <2>1, WritingIs, Alone
  <2>2. {q \in Procs : Writing(q) /\ Call(q).f = f} = {p}
    BY <1>2, <2>1
  <2>3. (CHOOSE q \in {p} : TRUE) = p
    OBVIOUS
  <2> QED
    BY <2>2, <2>3 DEF Pending
<1>3. \A f \in Files : file[f].off \in Nat /\ file[f].ip \in Inodes
  BY DEF FilesIInv, Counted, RefsIInv, Shapes, IsFile
<1>4. \A p \in Procs : Writing(p) =>
        /\ Call(p).f \in Files /\ Call(p).tot \in Nat /\ Front(p) \in Nat /\ Front(p) <= Limit
        /\ file[Call(p).f].off <= ino[file[Call(p).f].ip].size
  BY WritingIs DEF Front
<1> QED
  BY <1>1, <1>2, <1>3, <1>4 DEF PendFacts

\* That holds after a step, too.
LEMMA PendNext == FilesIInv' => PendFacts'
  BY PendNow, PTL

\* Writers of a file that go on, before and after a step; others add nothing to the file.
OnFile(q, i) == Writing(q) /\ file[Call(q).f].ip = i
SameFronts(i) == \A q \in Procs :
  /\ OnFile(q, i) => (OnFile(q, i)' /\ Front(q)' = Front(q)) \/ Front(q) <= ino[i].size
  /\ OnFile(q, i)' => (OnFile(q, i) /\ Front(q)' = Front(q)) \/ Front(q)' <= ino'[i].size

\* Then the file ends where it did.
LEMMA EndSame ==
  ASSUME FilesIInv, FilesIInv', NEW i \in Inodes, ino'[i].size = ino[i].size, SameFronts(i)
  PROVE  End(i)' = End(i)
<1>1. /\ ino[i].size \in Nat
      /\ (\A q \in Procs : ~ OnFile(q, i)) => End(i) = ino[i].size
      /\ \A q \in Procs : OnFile(q, i) => End(i) = Highest(ino[i].size, Front(q))
  BY EndsNow DEF EndFacts, OnFile, Front
<1>2. /\ (\A q \in Procs : ~ OnFile(q, i)') => End(i)' = ino'[i].size
      /\ \A q \in Procs : OnFile(q, i)' => End(i)' = Highest(ino'[i].size, Front(q)')
  BY EndsNext DEF EndFacts, OnFile, Front
<1>3. ASSUME NEW q \in Procs, OnFile(q, i), OnFile(q, i)', Front(q)' = Front(q)
      PROVE  End(i)' = End(i)
  BY <1>1, <1>2, <1>3
<1>4. \A q \in Procs : OnFile(q, i) => Front(q) \in Nat
  BY PendNow DEF PendFacts, OnFile
<1>5. \A q \in Procs : OnFile(q, i)' => Front(q)' \in Nat
  BY PendNext DEF PendFacts, OnFile
<1>6. CASE \A q \in Procs : OnFile(q, i) => Front(q) <= ino[i].size
  <2>1. End(i) = ino[i].size
    BY <1>1, <1>4, <1>6 DEF Highest
  <2>2. \A q \in Procs : OnFile(q, i)' => Front(q)' <= ino'[i].size
    BY <1>6 DEF SameFronts
  <2>3. End(i)' = ino'[i].size
    BY <1>1, <1>2, <1>5, <2>2 DEF Highest
  <2> QED
    BY <2>1, <2>3
<1>7. CASE ~ \A q \in Procs : OnFile(q, i) => Front(q) <= ino[i].size
  BY <1>3, <1>7 DEF SameFronts
<1> QED
  BY <1>6, <1>7

-----------------------------------------------------------------------------
(* Steps that do not touch the flat files *)

\* Writers with an entry that go on; others have added nothing to its offset.
OnEntry(q, f) == Writing(q) /\ Call(q).f = f
SameWriters(f) == \A q \in Procs :
  /\ OnEntry(q, f) => (OnEntry(q, f)' /\ Call(q)'.tot = Call(q).tot) \/ Call(q).tot = 0
  /\ OnEntry(q, f)' => (OnEntry(q, f) /\ Call(q)'.tot = Call(q).tot) \/ Call(q)'.tot = 0

\* Then they have added to it what they had.
LEMMA PendSame ==
  ASSUME FilesIInv, FilesIInv', NEW f \in Files, SameWriters(f)
  PROVE  Pending(f)' = Pending(f)
<1>1. /\ (\A q \in Procs : ~ OnEntry(q, f)) => Pending(f) = 0
      /\ \A q \in Procs : OnEntry(q, f) => Pending(f) = Call(q).tot
  BY PendNow DEF PendFacts, OnEntry
<1>2. /\ (\A q \in Procs : ~ OnEntry(q, f)') => Pending(f)' = 0
      /\ \A q \in Procs : OnEntry(q, f)' => Pending(f)' = Call(q)'.tot
  BY PendNext DEF PendFacts, OnEntry
<1> QED
  BY <1>1, <1>2 DEF SameWriters

\* A process that takes no step.
LEMMA Sleeps ==
  ASSUME NEW q, proc'[q] = proc[q]
  PROVE  Call(q)' = Call(q) /\ (Writing(q)' <=> Writing(q))
  BY DEF Call, Writing

\* Contents with the same words are the same.
LEMMA ContentsSame ==
  ASSUME FilesIInv, FilesIInv', NEW i \in Inodes, End(i)' = End(i),
         \A o \in Nat : o < End(i) =>
           Word(ino'[i].addrs, disk'.blk, o) = Word(ino[i].addrs, disk.blk, o)
  PROVE  Contents(i)' = Contents(i)
<1>1. /\ End(i) \in Nat
      /\ Contents(i) = [k \in 1..End(i) |-> Word(ino[i].addrs, disk.blk, k - 1)]
  BY EndsNow DEF EndFacts
<1>2. Contents(i)' = [k \in 1..End(i)' |-> Word(ino'[i].addrs, disk'.blk, k - 1)]
  BY EndsNext DEF EndFacts, Word, BlockAt, BlockIn
<1>3. ASSUME NEW k \in 1..End(i)
      PROVE  Word(ino'[i].addrs, disk'.blk, k - 1) = Word(ino[i].addrs, disk.blk, k - 1)
  <2>1. PICK o \in Nat : o = k - 1 /\ o < End(i)
    BY <1>1
  <2>2. Word(ino'[i].addrs, disk'.blk, o) = Word(ino[i].addrs, disk.blk, o)
    BY <2>1
  <2> QED
    BY <2>1, <2>2
<1>4. PICK e : e = End(i)
  OBVIOUS
<1> QED
  BY <1>1, <1>2, <1>3, <1>4

\* The whole picture is the same if every file and every entry is.
LEMMA FlatSame ==
  ASSUME \A i \in Inodes : Contents(i)' = Contents(i),
         \A f \in Files : /\ file'[f].ip = file[f].ip
                          /\ file'[f].off + Pending(f)' = file[f].off + Pending(f)
  PROVE  SameFlat
  BY DEF SameFlat, FlatOf, OffOf, IpOf

\* A step that leaves files and offsets alone, by a process that does not write or begins to.
LEMMA StillFlat ==
  ASSUME FilesIInv, FilesIInv', NEW p \in Procs, Still(p),
         \/ proc'[p] = proc[p]
         \/ ~ Writing(p) /\ (Writing(p)' => Call(p)'.tot = 0)
  PROVE  SameFlat
<1>1. /\ \A q \in Procs : q # p => proc'[q] = proc[q]
      /\ disk'.blk = disk.blk
      /\ \A j \in Inodes : ino'[j].addrs = ino[j].addrs /\ ino'[j].size = ino[j].size
      /\ \A f \in Files : file'[f].ip = file[f].ip /\ file'[f].off = file[f].off
  BY DEF Still
<1>2. PendFacts /\ PendFacts'
  BY PendNow, PendNext
<1>3. ASSUME NEW q \in Procs, proc'[q] = proc[q]
      PROVE  /\ Call(q)' = Call(q) /\ (Writing(q)' <=> Writing(q))
             /\ Writing(q) => Call(q).f \in Files /\ Front(q)' = Front(q)
                              /\ file'[Call(q).f].ip = file[Call(q).f].ip
  <2>1. Call(q)' = Call(q) /\ (Writing(q)' <=> Writing(q))
    BY <1>3, Sleeps
  <2>2. Writing(q) => Call(q).f \in Files
    BY <1>2 DEF PendFacts
  <2> QED
    BY <1>1, <2>1, <2>2 DEF Front
<1>4. ASSUME Writing(p)', Call(p)'.tot = 0
      PROVE  Front(p)' <= ino'[file'[Call(p)'.f].ip].size
  <2>1. Call(p)'.f \in Files /\ file'[Call(p)'.f].off <= ino'[file'[Call(p)'.f].ip].size
    BY <1>2, <1>4 DEF PendFacts
  <2>2. file'[Call(p)'.f].off \in Nat
    BY <1>2, <2>1 DEF PendFacts
  <2>3. Front(p)' = file'[Call(p)'.f].off + 0
    BY <1>4 DEF Front
  <2>4. Front(p)' = file'[Call(p)'.f].off
    BY <2>2, <2>3
  <2> QED
    BY <2>1, <2>4
<1>5. ASSUME NEW i \in Inodes PROVE Contents(i)' = Contents(i)
  <2>1. ASSUME NEW q \in Procs, proc'[q] = proc[q]
        PROVE  /\ OnFile(q, i) => OnFile(q, i)' /\ Front(q)' = Front(q)
               /\ OnFile(q, i)' => OnFile(q, i) /\ Front(q)' = Front(q)
    BY <1>3, <2>1 DEF OnFile
  <2>2. ASSUME ~ Writing(p), Writing(p)' => Call(p)'.tot = 0
        PROVE  ~ OnFile(p, i) /\ (OnFile(p, i)' => Front(p)' <= ino'[i].size)
    BY <1>4, <2>2 DEF OnFile
  <2>3. SameFronts(i)
    BY <1>1, <2>1, <2>2 DEF SameFronts
  <2>4. End(i)' = End(i)
    BY <1>1, <2>3, EndSame
  <2>5. ino'[i].addrs = ino[i].addrs
    BY <1>1
  <2> QED
    BY <1>1, <2>4, <2>5, ContentsSame
<1>6. ASSUME NEW f \in Files PROVE Pending(f)' = Pending(f)
  <2>1. ASSUME NEW q \in Procs, proc'[q] = proc[q]
        PROVE  /\ OnEntry(q, f) => OnEntry(q, f)' /\ Call(q)'.tot = Call(q).tot
               /\ OnEntry(q, f)' => OnEntry(q, f) /\ Call(q)'.tot = Call(q).tot
    BY <1>3, <2>1 DEF OnEntry
  <2>2. ASSUME ~ Writing(p), Writing(p)' => Call(p)'.tot = 0
        PROVE  ~ OnEntry(p, f) /\ (OnEntry(p, f)' => Call(p)'.tot = 0)
    BY <2>2 DEF OnEntry
  <2>3. SameWriters(f)
    BY <1>1, <2>1, <2>2 DEF SameWriters
  <2> QED
    BY <2>3, PendSame
<1> QED
  BY <1>1, <1>5, <1>6, FlatSame

-----------------------------------------------------------------------------
(* The end of a read() and of a writei() *)

\* The end of a call on entry f and inode i: nobody else works on that inode.
LEMMA OverFlat ==
  ASSUME FilesIInv, FilesIInv', NEW p \in Procs, NEW f \in Files, f = Call(p).f,
         NEW i \in Inodes, i = file[f].ip, Call(p).pc \in Holding, ~ Writing(p)',
         NEW x, NEW z, Over(p, f, i, x, z), End(i) = z
  PROVE  /\ \A j \in Inodes : Contents(j)' = Contents(j)
         /\ \A g \in Files : g # f => Pending(g)' = Pending(g)
         /\ Pending(f)' = 0
<1>1. /\ \A q \in Procs : q # p => proc'[q] = proc[q]
      /\ disk'.blk = disk.blk
      /\ \A j \in Inodes : ino'[j].addrs = ino[j].addrs
      /\ \A j \in Inodes : ino'[j].size = IF j = i THEN z ELSE ino[j].size
      /\ \A g \in Files : file'[g].ip = file[g].ip
      /\ \A g \in Files : file'[g].off = IF g = f THEN x ELSE file[g].off
  BY DEF Over
<1>2. PendFacts /\ EndFacts'
  BY PendNow, EndsNext
<1>3. ASSUME NEW q \in Procs, q # p
      PROVE  /\ Call(q)' = Call(q) /\ (Writing(q)' <=> Writing(q))
             /\ Writing(q) => /\ Call(q).f # f /\ file[Call(q).f].ip # i /\ Front(q)' = Front(q)
                              /\ file'[Call(q).f].ip = file[Call(q).f].ip
  <2>1. Call(q)' = Call(q) /\ (Writing(q)' <=> Writing(q))
    BY <1>1, <1>3, Sleeps
  <2>2. ASSUME Writing(q)
        PROVE  /\ Call(q).f # f /\ file[Call(q).f].ip # i /\ Front(q)' = Front(q)
               /\ file'[Call(q).f].ip = file[Call(q).f].ip
    <3>1. Call(q).f \in Files /\ Call(q).pc \in Holding
      BY <2>2, WritingIs
    <3>2. file[Call(q).f].ip # i
      BY <1>3, <3>1, Alone
    <3>3. Call(q).f # f
      BY <3>2
    <3> QED
      BY <1>1, <2>1, <3>1, <3>2, <3>3 DEF Front
  <2> QED
    BY <2>1, <2>2
<1>4. ASSUME NEW j \in Inodes PROVE End(j)' = End(j)
  <2>1. CASE j # i
    <3>1. ASSUME NEW q \in Procs, q # p
          PROVE  /\ OnFile(q, j) => OnFile(q, j)' /\ Front(q)' = Front(q)
                 /\ OnFile(q, j)' => OnFile(q, j) /\ Front(q)' = Front(q)
      BY <1>3, <3>1 DEF OnFile
    <3>2. ~ OnFile(p, j) /\ ~ OnFile(p, j)'
      BY <2>1 DEF OnFile
    <3>3. SameFronts(j)
      BY <3>1, <3>2 DEF SameFronts
    <3> QED
      BY <1>1, <2>1, <3>3, EndSame
  <2>2. CASE j = i
    <3>1. \A q \in Procs : Writing(q)' => file'[Call(q)'.f].ip # i
      BY <1>3
    <3>2. End(i)' = ino'[i].size
      BY <1>2, <3>1 DEF EndFacts
    <3> QED
      BY <1>1, <2>2, <3>2
  <2> QED
    BY <2>1, <2>2
<1>5. ASSUME NEW j \in Inodes PROVE Contents(j)' = Contents(j)
  <2>1. ino'[j].addrs = ino[j].addrs /\ disk'.blk = disk.blk
    BY <1>1
  <2> QED
    BY <1>4, <2>1, ContentsSame
<1>6. ASSUME NEW g \in Files, g # f PROVE Pending(g)' = Pending(g)
  <2>1. ASSUME NEW q \in Procs, q # p
        PROVE  /\ OnEntry(q, g) => OnEntry(q, g)' /\ Call(q)'.tot = Call(q).tot
               /\ OnEntry(q, g)' => OnEntry(q, g) /\ Call(q)'.tot = Call(q).tot
    BY <1>3, <2>1 DEF OnEntry
  <2>2. ~ OnEntry(p, g) /\ ~ OnEntry(p, g)'
    BY <1>6 DEF OnEntry
  <2>3. SameWriters(g)
    BY <2>1, <2>2 DEF SameWriters
  <2> QED
    BY <2>3, PendSame
<1>7. Pending(f)' = 0
  <2>1. PendFacts'
    BY PendNext
  <2>2. \A q \in Procs : Writing(q)' => Call(q)'.f # f
    BY <1>3
  <2> QED
    BY <2>1, <2>2 DEF PendFacts
<1> QED
  BY <1>5, <1>6, <1>7

\* The end of a read() is a read of the flat file.
LEMMA ReadEndFlat ==
  ASSUME FilesIInv, FilesIInv', NEW p \in Procs, ReadEnd(p)
  PROVE  Flat!Next \/ SameFlat
<1>1. PICK f, i : f = Call(p).f /\ i = file[f].ip
  OBVIOUS
<1>2. /\ Call(p).pc = "readi" /\ Call(p)' = Idle /\ f \in Files /\ i \in Inodes
      /\ Over(p, f, i, file[f].off + Call(p).tot, ino[i].size)
  BY <1>1, ReadEndIs
<1>3. /\ file[f].off \in Nat /\ Call(p).tot \in Nat /\ file[f].off + Call(p).tot <= ino[i].size
      /\ ino[i].size \in Nat /\ ino[i].size <= Limit /\ Call(p).pc \in Holding
  BY <1>1, <1>2, ReadingIs
<1>4. \A q \in Procs : Writing(q) => file[Call(q).f].ip # i
  <2> SUFFICES ASSUME NEW q \in Procs, Writing(q), file[Call(q).f].ip = i PROVE FALSE
    OBVIOUS
  <2>1. q = p
    BY <1>1, <1>3, WritingIs, Alone
  <2> QED
    BY <1>2, <2>1 DEF Writing
<1>5. End(i) = ino[i].size /\ Len(Contents(i)) = End(i)
  <2>1. EndFacts
    BY EndsNow
  <2>2. End(i) = ino[i].size
    BY <1>2, <1>4, <2>1 DEF EndFacts
  <2>3. /\ Contents(i) = [k \in 1..End(i) |-> Word(ino[i].addrs, disk.blk, k - 1)]
        /\ End(i) \in Nat
    BY <1>2, <2>1 DEF EndFacts
  <2> QED
    BY <2>2, <2>3
<1>6. ~ Writing(p)'
  BY <1>2 DEF Writing, Idle
<1>7. PICK x : x = file[f].off + Call(p).tot
  OBVIOUS
<1>8. /\ \A j \in Inodes : Contents(j)' = Contents(j)
      /\ \A g \in Files : g # f => Pending(g)' = Pending(g)
      /\ Pending(f)' = 0
  BY <1>1, <1>2, <1>3, <1>5, <1>6, <1>7, OverFlat
<1>9. Pending(f) = 0
  <2>1. \A q \in Procs : Writing(q) => Call(q).f # f
    BY <1>1, <1>4
  <2> QED
    BY <1>2, <2>1, PendNow DEF PendFacts
<1>10. /\ \A g \in Files : file'[g].ip = file[g].ip
       /\ \A g \in Files : file'[g].off = IF g = f THEN x ELSE file[g].off
  BY <1>2, <1>7 DEF Over
<1>11. CASE Call(p).tot = 0
  <2>1. x = file[f].off
    BY <1>3, <1>7, <1>11
  <2>2. \A g \in Files : file'[g].off + Pending(g)' = file[g].off + Pending(g)
    BY <1>8, <1>9, <1>10, <2>1
  <2> QED
    BY <1>8, <1>10, <2>2, FlatSame
<1>12. CASE Call(p).tot # 0
  <2>1. PICK n \in 1..Limit : n = Call(p).tot
    <3>1. Limit \in Nat
      BY Kinds, Numbers DEF Limit
    <3> QED
      BY <1>3, <1>12, <3>1
  <2>2. FlatOf' = FlatOf /\ IpOf' = IpOf
    BY <1>8, <1>10 DEF FlatOf, IpOf
  <2>3. OffOf[f] = file[f].off /\ IpOf[f] = i /\ Len(FlatOf[i]) = ino[i].size
    BY <1>1, <1>2, <1>3, <1>5, <1>9 DEF OffOf, IpOf, FlatOf
  <2>4. OffOf' = [OffOf EXCEPT ![f] = @ + n]
    <3>1. \A g \in Files : file'[g].off + Pending(g)'
                             = IF g = f THEN (file[f].off + Pending(f)) + n
                               ELSE file[g].off + Pending(g)
      BY <1>3, <1>7, <1>8, <1>9, <1>10, <2>1
    <3> QED
      BY <3>1 DEF OffOf
  <2>5. OffOf[f] + n <= Len(FlatOf[IpOf[f]])
    BY <1>3, <2>1, <2>3
  <2> QED
    BY <1>2, <2>1, <2>2, <2>4, <2>5, FlatRead
<1> QED
  BY <1>11, <1>12

\* The end of a writei() changes nothing more.
LEMMA WriteEndFlat ==
  ASSUME FilesIInv, FilesIInv', NEW p \in Procs, WriteEnd(p)
  PROVE  SameFlat
<1>1. PICK f, i, x, z : /\ f = Call(p).f /\ i = file[f].ip /\ x = file[f].off + Call(p).tot
                        /\ z = Highest(ino[i].size, x)
  OBVIOUS
<1>2. /\ Writing(p) /\ Call(p)'.pc \in {"user", "write"} /\ f \in Files /\ i \in Inodes
      /\ Over(p, f, i, x, z)
  BY <1>1, WriteEndIs
<1>3. Call(p).pc \in Holding /\ file[f].off \in Nat /\ Call(p).tot \in Nat
  BY <1>1, <1>2, WritingIs
<1>4. End(i) = z
  BY <1>1, <1>2, EndsNow DEF EndFacts
<1>6. ~ Writing(p)'
  BY <1>2 DEF Writing
<1>8. /\ \A j \in Inodes : Contents(j)' = Contents(j)
      /\ \A g \in Files : g # f => Pending(g)' = Pending(g)
      /\ Pending(f)' = 0
  BY <1>1, <1>2, <1>3, <1>4, <1>6, OverFlat
<1>9. Pending(f) = Call(p).tot
  BY <1>1, <1>2, PendNow DEF PendFacts
<1>10. /\ \A g \in Files : file'[g].ip = file[g].ip
       /\ \A g \in Files : file'[g].off = IF g = f THEN x ELSE file[g].off
  BY <1>2 DEF Over
<1>11. \A g \in Files : file'[g].off + Pending(g)' = file[g].off + Pending(g)
  <2>1. x + 0 = file[f].off + Call(p).tot
    BY <1>1, <1>3
  <2> QED
    BY <1>8, <1>9, <1>10, <2>1
<1> QED
  BY <1>8, <1>10, <1>11, FlatSame

-----------------------------------------------------------------------------
(* open(), and what a writei() leaves alone *)

\* open() sets the offset of an entry that nobody uses, and may truncate a file that nobody
\* has locked.
LEMMA OpenFlat ==
  ASSUME FilesIInv, FilesIInv', NEW p \in Procs, Call(p).pc = "user", Call(p)' = Idle,
         NEW f \in Files, NEW i \in Inodes, Opens(p, f, i)
  PROVE  Flat!Next
<1>1. Opened(p, f, i) /\ ino[i].lock = None /\ (UNCHANGED <<disk, ino>> \/ Truncated(i))
  BY DEF Opens
<1>2. /\ \A q \in Procs : q # p => proc'[q] = proc[q]
      /\ file[f].ref = 0
      /\ \A g \in Files : file'[g].ip = IF g = f THEN i ELSE file[g].ip
      /\ \A g \in Files : file'[g].off = IF g = f THEN 0 ELSE file[g].off
  BY <1>1 DEF Opened
<1>3. ~ Writing(p) /\ ~ Writing(p)'
  BY DEF Writing, Idle
<1>4. ASSUME NEW q \in Procs, q # p
      PROVE  /\ Call(q)' = Call(q) /\ (Writing(q)' <=> Writing(q))
             /\ Writing(q) => /\ Call(q).f # f /\ file[Call(q).f].ip # i /\ Front(q)' = Front(q)
                              /\ file'[Call(q).f].ip = file[Call(q).f].ip
  <2>1. Call(q)' = Call(q) /\ (Writing(q)' <=> Writing(q))
    BY <1>2, <1>4, Sleeps
  <2>2. ASSUME Writing(q)
        PROVE  /\ Call(q).f # f /\ file[Call(q).f].ip # i /\ Front(q)' = Front(q)
               /\ file'[Call(q).f].ip = file[Call(q).f].ip
    <3>1. Call(q).pc \in Busy /\ ino[file[Call(q).f].ip].lock = q
      BY <2>2, WritingIs
    <3>2. Call(q).f \in Files /\ file[Call(q).f].ref >= 1 /\ q # None
      BY <3>1, Held
    <3>3. Call(q).f # f
      BY <1>2, <3>2
    <3>4. file[Call(q).f].ip # i
      BY <1>1, <3>1, <3>2
    <3> QED
      BY <1>2, <2>1, <3>2, <3>3, <3>4 DEF Front
  <2> QED
    BY <2>1, <2>2
<1>5. ASSUME NEW j \in Inodes, ino'[j].size = ino[j].size PROVE End(j)' = End(j)
  <2>1. ASSUME NEW q \in Procs, q # p
        PROVE  /\ OnFile(q, j) => OnFile(q, j)' /\ Front(q)' = Front(q)
               /\ OnFile(q, j)' => OnFile(q, j) /\ Front(q)' = Front(q)
    BY <1>4, <2>1 DEF OnFile
  <2>2. ~ OnFile(p, j) /\ ~ OnFile(p, j)'
    BY <1>3 DEF OnFile
  <2>3. SameFronts(j)
    BY <2>1, <2>2 DEF SameFronts
  <2> QED
    BY <1>5, <2>3, EndSame
<1>6. ASSUME NEW j \in Inodes, ino'[j] = ino[j], disk'.blk = disk.blk
      PROVE  Contents(j)' = Contents(j)
  <2>1. End(j)' = End(j) /\ ino'[j].addrs = ino[j].addrs
    BY <1>5, <1>6
  <2> QED
    BY <1>6, <2>1, ContentsSame
<1>7. ASSUME NEW g \in Files, g # f PROVE Pending(g)' = Pending(g)
  <2>1. ASSUME NEW q \in Procs, q # p
        PROVE  /\ OnEntry(q, g) => OnEntry(q, g)' /\ Call(q)'.tot = Call(q).tot
               /\ OnEntry(q, g)' => OnEntry(q, g) /\ Call(q)'.tot = Call(q).tot
    BY <1>4, <2>1 DEF OnEntry
  <2>2. ~ OnEntry(p, g) /\ ~ OnEntry(p, g)'
    BY <1>3 DEF OnEntry
  <2>3. SameWriters(g)
    BY <2>1, <2>2 DEF SameWriters
  <2> QED
    BY <2>3, PendSame
<1>8. Pending(f)' = 0
  <2>1. \A q \in Procs : Writing(q)' => Call(q)'.f # f
    BY <1>3, <1>4
  <2> QED
    BY <2>1, PendNext DEF PendFacts
<1>9. OffOf' = [OffOf EXCEPT ![f] = 0]
  <2>1. \A g \in Files : file'[g].off + Pending(g)' = IF g = f THEN 0 ELSE file[g].off + Pending(g)
    BY <1>2, <1>7, <1>8
  <2> QED
    BY <2>1 DEF OffOf
<1>10. IpOf' = [IpOf EXCEPT ![f] = i]
  BY <1>2 DEF IpOf
<1>11. CASE UNCHANGED <<disk, ino>>
  <2>1. FlatOf' = FlatOf
    BY <1>6, <1>11 DEF FlatOf
  <2> QED
    BY <1>9, <1>10, <2>1, FlatOpen
<1>12. CASE Truncated(i)
  <2>1. disk'.blk = disk.blk /\ ino'[i].size = 0 /\ \A j \in Inodes : j # i => ino'[j] = ino[j]
    BY <1>12 DEF Truncated
  <2>2. \A q \in Procs : Writing(q)' => file'[Call(q)'.f].ip # i
    BY <1>3, <1>4
  <2>3. End(i)' = 0
    BY <2>1, <2>2, EndsNext DEF EndFacts
  <2>4. PICK s : s = Contents(i)'
    OBVIOUS
  <2>5. s = [k \in 1..0 |-> Word(ino'[i].addrs, disk'.blk, k - 1)]
    <3>1. Contents(i)' = [k \in 1..End(i)' |-> Word(ino'[i].addrs, disk'.blk, k - 1)]
      BY EndsNext DEF EndFacts, Word, BlockAt, BlockIn
    <3> QED
      BY <2>3, <2>4, <3>1
  <2>6. s = <<>>
    <3>1. s = [k \in 1..0 |-> s[k]] /\ \A k \in 1..0 : s[k] \in Nat
      BY <2>5
    <3>2. s \in Seq(Nat) /\ Len(s) = 0
      BY <3>1, SeqOf
    <3> QED
      BY <3>2
  <2>7. FlatOf' = [FlatOf EXCEPT ![i] = <<>>]
    BY <1>6, <2>1, <2>4, <2>6 DEF FlatOf
  <2> QED
    BY <1>9, <1>10, <2>7, FlatOpen
<1> QED
  BY <1>1, <1>11, <1>12

\* A buffer has period 2.
LEMMA SourceTwo ==
  ASSUME NEW p, NEW a \in Nat, NEW d \in Nat
  PROVE  a % 2 \in 0..1 /\ Source(p, (a % 2) + d) = Source(p, a + d)
<1>1. a % 2 \in 0..1 /\ ((a % 2) + d) % 2 = (a + d) % 2
  OBVIOUS
<1> QED
  BY <1>1 DEF Source

\* A step of writei() on inode i and entry f, which copies k words to offset o.
WriteFacts(p, f, i, o, k, m) ==
  /\ f \in Files /\ i \in Inodes /\ f = Call(p).f /\ i = file[f].ip /\ o = file[f].off + Call(p).tot
  /\ o \in Nat /\ k \in 0..m /\ m \in 1..BSIZE /\ UNCHANGED file
  /\ \A q \in Procs : q # p => proc'[q] = proc[q]
  /\ Writing(p) /\ Writing(p)' /\ Call(p)'.f = f
  /\ Call(p)'.tot = Call(p).tot + (IF k = m THEN m ELSE 0)

\* Files and offsets after it.
LEMMA WriteRest ==
  ASSUME FilesIInv, FilesIInv', NEW p \in Procs, NEW f, NEW i, NEW o, NEW k, NEW m,
         WriteFacts(p, f, i, o, k, m), WriteEffect(p, k)
  PROVE  LET n == IF k = m THEN m ELSE 0 IN
         /\ \A j \in Inodes : j # i => Contents(j)' = Contents(j)
         /\ OffOf[f] = o /\ OffOf' = [OffOf EXCEPT ![f] = o + n] /\ IpOf' = IpOf /\ IpOf[f] = i
         /\ End(i) \in Nat /\ o <= End(i) /\ o + n <= Limit
         /\ End(i)' = Highest(End(i), o + n)
<1> DEFINE n == IF k = m THEN m ELSE 0
<1>1. /\ f \in Files /\ i \in Inodes /\ f = Call(p).f /\ i = file[f].ip
      /\ o = file[f].off + Call(p).tot
      /\ o \in Nat /\ k \in 0..m /\ m \in 1..BSIZE /\ UNCHANGED file
      /\ \A q \in Procs : q # p => proc'[q] = proc[q]
      /\ Writing(p) /\ Writing(p)' /\ Call(p)'.f = f /\ Call(p)'.tot = Call(p).tot + n
  BY DEF WriteFacts
<1>2. /\ \A j \in Inodes : j # i => SameWords(j)
      /\ \A j \in Inodes : ino'[j].size = ino[j].size
  BY <1>1 DEF WriteEffect
<1>3. ASSUME NEW q \in Procs, q # p
      PROVE  /\ Call(q)' = Call(q) /\ (Writing(q)' <=> Writing(q))
             /\ Writing(q) => Call(q).f # f /\ file[Call(q).f].ip # i /\ Front(q)' = Front(q)
  <2>1. Call(q)' = Call(q) /\ (Writing(q)' <=> Writing(q))
    BY <1>1, <1>3, Sleeps
  <2>2. ASSUME Writing(q)
        PROVE  Call(q).f # f /\ file[Call(q).f].ip # i /\ Front(q)' = Front(q)
    <3>1. Call(q).pc \in Holding /\ Call(p).pc \in Holding
      BY <1>1, <2>2, WritingIs
    <3>2. file[Call(q).f].ip # i
      BY <1>1, <1>3, <3>1, Alone
    <3> QED
      BY <1>1, <2>1, <3>2 DEF Front
  <2> QED
    BY <2>1, <2>2
<1>4. ASSUME NEW j \in Inodes, j # i PROVE Contents(j)' = Contents(j)
  <2>1. ASSUME NEW q \in Procs, q # p
        PROVE  /\ OnFile(q, j) => OnFile(q, j)' /\ Front(q)' = Front(q)
               /\ OnFile(q, j)' => OnFile(q, j) /\ Front(q)' = Front(q)
    BY <1>1, <1>3, <2>1 DEF OnFile
  <2>2. ~ OnFile(p, j) /\ ~ OnFile(p, j)'
    BY <1>1, <1>4 DEF OnFile
  <2>3. SameFronts(j)
    BY <2>1, <2>2 DEF SameFronts
  <2>4. End(j)' = End(j)
    BY <1>2, <2>3, EndSame
  <2>5. End(j) \in Nat /\ End(j) <= Limit /\ Mapped(ino[j].addrs, disk.blk, End(j))
    BY EndsNow DEF EndFacts
  <2>6. ASSUME NEW u \in Nat, u < End(j)
        PROVE  Word(ino'[j].addrs, disk'.blk, u) = Word(ino[j].addrs, disk.blk, u)
    <3>1. u \div BSIZE \in FileBlocks
      BY <2>5, <2>6, OffsetMapped
    <3>2. SameBlock(j, u \div BSIZE)
      BY <1>2, <1>4, <3>1 DEF SameWords
    <3> QED
      BY <2>5, <2>6, <3>2, WordStays
  <2> QED
    BY <2>4, <2>6, ContentsSame
<1>5. ASSUME NEW g \in Files, g # f PROVE Pending(g)' = Pending(g)
  <2>1. ASSUME NEW q \in Procs, q # p
        PROVE  /\ OnEntry(q, g) => OnEntry(q, g)' /\ Call(q)'.tot = Call(q).tot
               /\ OnEntry(q, g)' => OnEntry(q, g) /\ Call(q)'.tot = Call(q).tot
    BY <1>3, <2>1 DEF OnEntry
  <2>2. ~ OnEntry(p, g) /\ ~ OnEntry(p, g)'
    BY <1>1, <1>5 DEF OnEntry
  <2>3. SameWriters(g)
    BY <2>1, <2>2 DEF SameWriters
  <2> QED
    BY <2>3, PendSame
<1>6. Pending(f) = Call(p).tot /\ Pending(f)' = Call(p).tot + n
  <2>1. Pending(f) = Call(p).tot
    BY <1>1, PendNow DEF PendFacts
  <2>2. Pending(f)' = Call(p)'.tot
    BY <1>1, PendNext DEF PendFacts
  <2> QED
    BY <1>1, <2>1, <2>2
<1>7. n \in Nat /\ file[f].off \in Nat /\ Call(p).tot \in Nat
  <2>1. BSIZE \in Nat
    BY Numbers
  <2> QED
    BY <1>1, <2>1, WritingIs
<1> HIDE DEF n
<1>8. file[f].off + (Call(p).tot + n) = o + n /\ Front(p) = o /\ Front(p)' = o + n
  <2>1. file[f].off + (Call(p).tot + n) = o + n
    BY <1>1, <1>7
  <2> QED
    BY <1>1, <2>1 DEF Front
<1>9. OffOf[f] = o /\ OffOf' = [OffOf EXCEPT ![f] = o + n] /\ IpOf' = IpOf /\ IpOf[f] = i
  <2>1. \A g \in Files : file'[g].off + Pending(g)'
                           = IF g = f THEN o + n ELSE file[g].off + Pending(g)
    BY <1>1, <1>5, <1>6, <1>8
  <2> QED
    BY <1>1, <1>6, <2>1 DEF OffOf, IpOf
<1>10. /\ ino[i].size \in Nat /\ End(i) = Highest(ino[i].size, o)
       /\ End(i)' = Highest(ino[i].size, o + n)
  <2>1. ino[i].size \in Nat /\ End(i) = Highest(ino[i].size, Front(p))
    BY <1>1, EndsNow DEF EndFacts, Front
  <2>2. End(i)' = Highest(ino'[i].size, Front(p)')
    BY <1>1, EndsNext DEF EndFacts, Front
  <2> QED
    BY <1>1, <1>2, <1>8, <2>1, <2>2
<1>11. o + n <= Limit
  BY <1>1, <1>8, PendNext DEF PendFacts
<1>12. End(i) \in Nat /\ o <= End(i) /\ End(i)' = Highest(End(i), o + n)
  BY <1>1, <1>7, <1>10 DEF Highest
<1> QED
  BY <1>4, <1>9, <1>11, <1>12 DEF n

-----------------------------------------------------------------------------
(* What a writei() puts into the file *)

\* The contents of inode i are s and then s2, e and e2 words; the step puts k words of
\* process p at offset o, from index a of its buffer on.
Rewritten(p, s, s2, e, e2, o, a, k) ==
  /\ s \in Seq(Nat) /\ Len(s) = e /\ e \in Nat /\ e2 \in Nat /\ o \in Nat /\ o <= e
  /\ a \in Nat /\ k \in Nat
  /\ s2 = [x \in 1..e2 |-> s2[x]] /\ \A x \in 1..e2 : s2[x] \in Nat
  /\ \A x \in 1..e2 : x > o /\ x <= o + k => s2[x] = Source(p, a + (x - o))
  /\ \A x \in 1..e2 : x <= e /\ ~ (x > o /\ x <= o + k) => s2[x] = s[x]

\* What is in the place of the words at o.
LEMMA SpliceWord ==
  ASSUME NEW p, NEW s, NEW s2, NEW e, NEW e2, NEW o, NEW a, NEW k,
         Rewritten(p, s, s2, e, e2, o, a, k), NEW x \in 1..e2, x <= e \/ x <= o + k
  PROVE  s2[x] = IF x > o /\ x <= o + k THEN Source(p, (a % 2) + x - o) ELSE s[x]
<1>1. CASE x > o /\ x <= o + k
  <2>0. o \in Nat /\ a \in Nat /\ s2[x] = Source(p, a + (x - o)) /\ x \in Nat /\ e2 \in Nat
    BY <1>1 DEF Rewritten
  <2>1. PICK d \in Nat : d = x - o
    BY <1>1, <2>0
  <2>2. Source(p, (a % 2) + d) = Source(p, a + d) /\ a % 2 \in Int
    <3>1. a % 2 \in 0..1 /\ Source(p, (a % 2) + d) = Source(p, a + d)
      BY <2>0, SourceTwo
    <3> QED
      BY <3>1
  <2>3. (a % 2) + x - o = (a % 2) + d
    BY <2>0, <2>1, <2>2
  <2> QED
    BY <1>1, <2>0, <2>1, <2>2, <2>3
<1>2. CASE ~ (x > o /\ x <= o + k)
  <2>1. x <= e
    BY <1>2 DEF Rewritten
  <2> QED
    BY <1>2, <2>1 DEF Rewritten
<1> QED
  BY <1>1, <1>2

\* All words are copied.
LEMMA SpliceAll ==
  ASSUME NEW p, NEW s, NEW s2, NEW e, NEW e2, NEW o, NEW a, NEW k,
         Rewritten(p, s, s2, e, e2, o, a, k), e2 = Highest(e, o + k)
  PROVE  s2 = Splice(s, o, p, a % 2, k)
<1>1. /\ Len(s) = e /\ e \in Nat /\ o \in Nat /\ k \in Nat /\ s2 = [x \in 1..e2 |-> s2[x]]
  BY DEF Rewritten
<1>2. e2 = IF o + k > e THEN o + k ELSE e
  BY <1>1 DEF Highest
<1>3. ASSUME NEW x \in 1..e2
      PROVE  s2[x] = IF x > o /\ x <= o + k THEN Source(p, (a % 2) + x - o) ELSE s[x]
  <2>1. x <= e \/ x <= o + k
    BY <1>1, <1>2
  <2> QED
    BY <2>1, SpliceWord
<1> QED
  BY <1>1, <1>2, <1>3 DEF Splice

\* A sequence cut off.
LEMMA CutOff ==
  ASSUME NEW n \in Nat, NEW e \in Nat, e <= n, NEW r \in Seq(Nat), Len(r) = n,
         NEW u, u = SubSeq(r, 1, e)
  PROVE  u \in Seq(Nat) /\ Len(u) = e /\ \A x \in 1..e : u[x] = r[x]
<1>1. \A x \in 1..e : r[x] \in Nat
  OBVIOUS
<1> QED
  BY <1>1

\* Some words are copied, and the file has not become longer.
LEMMA SpliceSome ==
  ASSUME NEW p \in Procs, NEW s, NEW s2, NEW e, NEW e2, NEW o, NEW a, NEW k,
         Rewritten(p, s, s2, e, e2, o, a, k), e2 = e
  PROVE  s2 = SubSeq(Splice(s, o, p, a % 2, k), 1, Len(s))
<1>1. /\ s \in Seq(Nat) /\ Len(s) = e /\ e \in Nat /\ o \in Nat /\ k \in Nat /\ a \in Nat
      /\ s2 = [x \in 1..e2 |-> s2[x]] /\ \A x \in 1..e2 : s2[x] \in Nat
  BY DEF Rewritten
<1>2. PICK n \in Nat : n = (IF o + k > e THEN o + k ELSE e) /\ e <= n
  BY <1>1
<1>3. PICK r : r = Splice(s, o, p, a % 2, k)
  OBVIOUS
<1>4. /\ r = [x \in 1..n |-> r[x]]
      /\ \A x \in 1..n : r[x] = IF x > o /\ x <= o + k THEN Source(p, (a % 2) + x - o) ELSE s[x]
  BY <1>1, <1>2, <1>3 DEF Splice
<1>5. ASSUME NEW x \in 1..n PROVE r[x] \in Nat
  <2>1. CASE x > o /\ x <= o + k
    <3>1. (a % 2) + x - o \in Int
      <4>1. a % 2 \in Int
        BY <1>1, SourceTwo
      <4> QED
        BY <1>1, <4>1
    <3>2. Source(p, (a % 2) + x - o) \in Nat
      BY <3>1, SourceNat
    <3> QED
      BY <1>4, <2>1, <3>2
  <2>2. CASE ~ (x > o /\ x <= o + k)
    <3>1. x \in 1..e
      <4>1. o <= e
        BY DEF Rewritten
      <4> QED
        BY <1>1, <1>2, <2>2, <4>1
    <3> QED
      BY <1>1, <1>4, <2>2, <3>1
  <2> QED
    BY <2>1, <2>2
<1>6. r \in Seq(Nat) /\ Len(r) = n
  BY <1>4, <1>5, SeqOf
<1>7. PICK u : u = SubSeq(r, 1, e)
  OBVIOUS
<1>11. u \in Seq(Nat) /\ Len(u) = e /\ \A x \in 1..e : u[x] = r[x]
  <2>1. n \in Nat /\ e \in Nat /\ e <= n
    BY <1>1, <1>2
  <2> QED
    BY <1>6, <1>7, <2>1, CutOff
<1>8. s2 \in Seq(Nat) /\ Len(s2) = e
  BY <1>1, SeqOf
<1>9. ASSUME NEW x \in 1..e PROVE s2[x] = u[x]
  <2>1. s2[x] = IF x > o /\ x <= o + k THEN Source(p, (a % 2) + x - o) ELSE s[x]
    BY <1>1, SpliceWord
  <2>2. x \in 1..n
    BY <1>1, <1>2
  <2> QED
    BY <1>4, <1>11, <2>1, <2>2
<1>10. s2 = u
  BY <1>1, <1>11, <1>8, <1>9, SeqSame
<1> QED
  BY <1>1, <1>3, <1>7, <1>10

\* No word is copied.
LEMMA SpliceNone ==
  ASSUME NEW p, NEW s, NEW s2, NEW e, NEW e2, NEW o, NEW a,
         Rewritten(p, s, s2, e, e2, o, a, 0), e2 = e
  PROVE  s2 = s
<1>1. /\ s \in Seq(Nat) /\ Len(s) = e /\ e \in Nat /\ o \in Nat
      /\ s2 = [x \in 1..e2 |-> s2[x]] /\ \A x \in 1..e2 : s2[x] \in Nat
  BY DEF Rewritten
<1>2. s2 \in Seq(Nat) /\ Len(s2) = e
  BY <1>1, SeqOf
<1>3. ASSUME NEW x \in 1..e PROVE s2[x] = s[x]
  <2>1. ~ (x > o /\ x <= o + 0) /\ x <= e /\ x \in 1..e2
    BY <1>1
  <2> QED
    BY <2>1 DEF Rewritten
<1> QED
  BY <1>1, <1>2, <1>3, SeqSame

\* What a step of writei() does to the contents of its file.
LEMMA WriteRewrites ==
  ASSUME FilesIInv, FilesIInv', NEW p \in Procs, NEW f, NEW i, NEW o, NEW k, NEW m,
         WriteFacts(p, f, i, o, k, m), WriteEffect(p, k),
         End(i) \in Nat, o <= End(i), End(i)' = Highest(End(i), o + (IF k = m THEN m ELSE 0))
  PROVE  Rewritten(p, Contents(i), Contents(i)', End(i), End(i)', o, Call(p).i + Call(p).tot, k)
<1>1. /\ f \in Files /\ i \in Inodes /\ f = Call(p).f /\ i = file[f].ip
      /\ o = file[f].off + Call(p).tot /\ o \in Nat /\ k \in 0..m /\ m \in 1..BSIZE
  BY DEF WriteFacts
<1>2. BSIZE \in Nat /\ IsCount(Call(p))
  BY Numbers DEF FilesIInv, Counted
<1>3. k \in Nat /\ m \in Nat
  BY <1>1, <1>2
<1>4. PICK a \in Nat : a = Call(p).i + Call(p).tot
  BY <1>2 DEF IsCount
<1>5. PICK e \in Nat : e = End(i) /\ o <= e
  OBVIOUS
<1>6. PICK e2 \in Nat : e2 = End(i)' /\ (e2 <= e \/ e2 <= o + k)
  <2>1. CASE k = m
    BY <1>1, <1>3, <1>5, <2>1 DEF Highest
  <2>2. CASE k # m
    BY <1>1, <1>3, <1>5, <2>2 DEF Highest
  <2> QED
    BY <2>1, <2>2
<1>7. PICK s : /\ s = Contents(i) /\ s = [x \in 1..e |-> Word(ino[i].addrs, disk.blk, x - 1)]
               /\ \A x \in 1..e : Word(ino[i].addrs, disk.blk, x - 1) \in Nat
  BY <1>1, <1>5, EndsNow DEF EndFacts
<1>8. PICK s2 : /\ s2 = Contents(i)'
                /\ s2 = [x \in 1..e2 |-> Word(ino'[i].addrs, disk'.blk, x - 1)]
                /\ \A x \in 1..e2 : Word(ino'[i].addrs, disk'.blk, x - 1) \in Nat
  BY <1>1, <1>6, EndsNext DEF EndFacts, Word, BlockAt, BlockIn
<1>9. /\ \A q \in Nat : o <= q /\ q < o + k =>
           Word(ino'[i].addrs, disk'.blk, q) = Source(p, a + (q - o) + 1)
      /\ \A q \in Nat : q < e /\ ~ (o <= q /\ q < o + k) =>
           Word(ino'[i].addrs, disk'.blk, q) = Word(ino[i].addrs, disk.blk, q)
  BY <1>1, <1>4, <1>5 DEF WriteEffect
<1>10. s \in Seq(Nat) /\ Len(s) = e
  <2>1. s = [x \in 1..e |-> s[x]] /\ \A x \in 1..e : s[x] \in Nat
    BY <1>7
  <2> QED
    BY <1>5, <2>1, SeqOf
<1>11. s2 = [x \in 1..e2 |-> s2[x]] /\ \A x \in 1..e2 : s2[x] \in Nat
  BY <1>8
<1>12. ASSUME NEW x \in 1..e2, x > o, x <= o + k PROVE s2[x] = Source(p, a + (x - o))
  <2>1. PICK q \in Nat : q = x - 1 /\ o <= q /\ q < o + k /\ a + (q - o) + 1 = a + (x - o)
    BY <1>1, <1>3, <1>4, <1>6, <1>12
  <2>2. Word(ino'[i].addrs, disk'.blk, q) = Source(p, a + (q - o) + 1)
    BY <1>9, <2>1
  <2> QED
    BY <1>8, <2>1, <2>2
<1>13. ASSUME NEW x \in 1..e2, x <= e, ~ (x > o /\ x <= o + k) PROVE s2[x] = s[x]
  <2>1. PICK q \in Nat : q = x - 1 /\ q < e /\ ~ (o <= q /\ q < o + k) /\ x \in 1..e
    BY <1>1, <1>3, <1>5, <1>6, <1>13
  <2>2. Word(ino'[i].addrs, disk'.blk, q) = Word(ino[i].addrs, disk.blk, q)
    BY <1>9, <2>1
  <2> QED
    BY <1>7, <1>8, <2>1, <2>2
<1>14. Rewritten(p, s, s2, e, e2, o, a, k)
  BY <1>1, <1>3, <1>4, <1>5, <1>6, <1>10, <1>11, <1>12, <1>13 DEF Rewritten
<1> QED
  BY <1>4, <1>5, <1>6, <1>7, <1>8, <1>14

-----------------------------------------------------------------------------
(* writei(), and the refinement *)

\* A step of writei() copies its words at the offset, one part of a block.
LEMMA WriteFactsHold ==
  ASSUME FilesIInv, NEW p \in Procs, Call(p).pc = "writei", Call(p).tot < Call(p).n1,
         NEW h, NEW t, NEW g, NEW k, WritesTo(p, h, t, g, k)
  PROVE  \E f, i, o, m : WriteFacts(p, f, i, o, k, m)
<1>1. PICK f, i, o, m : /\ f = Call(p).f /\ i = file[f].ip /\ o = file[f].off + Call(p).tot
                        /\ m = Part(o, Call(p).n1 - Call(p).tot)
  OBVIOUS
<1>2. /\ f \in Files /\ i \in Inodes /\ o \in Nat /\ m \in Nat /\ m > 0
      /\ o % BSIZE \in Cells /\ (o % BSIZE) + m <= BSIZE
  BY <1>1, WriteNumbers DEF WriteAt
<1>3. m \in 1..BSIZE
  <2>1. PICK r \in Nat : r = o % BSIZE /\ r + m <= BSIZE
    BY <1>2 DEF Cells
  <2>2. BSIZE \in Nat
    BY Numbers
  <2> QED
    BY <1>2, <2>1, <2>2
<1>4. /\ \A q \in Procs : q # p => proc'[q] = proc[q]
      /\ UNCHANGED file /\ k \in 0..m
      /\ Writing(p)' /\ Call(p)'.f = f /\ Call(p)'.tot = Call(p).tot + (IF k = m THEN m ELSE 0)
  BY <1>1, WriteCall
<1>5. Writing(p)
  BY DEF Writing
<1>6. WriteFacts(p, f, i, o, k, m)
  BY <1>1, <1>2, <1>3, <1>4, <1>5 DEF WriteFacts
<1> QED
  BY <1>6

\* It is a write to the flat file, or the smear of one that fails.
LEMMA WriteFlat ==
  ASSUME FilesIInv, FilesIInv', NEW p \in Procs, NEW f, NEW i, NEW o, NEW k, NEW m,
         WriteFacts(p, f, i, o, k, m), WriteEffect(p, k)
  PROVE  Flat!Next \/ SameFlat
<1>1. f \in Files /\ i \in Inodes /\ o \in Nat /\ k \in 0..m /\ m \in 1..BSIZE /\ BSIZE \in Nat
  BY Numbers DEF WriteFacts
<1>2. PICK n : n = IF k = m THEN m ELSE 0
  OBVIOUS
<1>3. /\ \A j \in Inodes : j # i => Contents(j)' = Contents(j)
      /\ OffOf[f] = o /\ OffOf' = [OffOf EXCEPT ![f] = o + n] /\ IpOf' = IpOf /\ IpOf[f] = i
      /\ End(i) \in Nat /\ o <= End(i) /\ o + n <= Limit
      /\ End(i)' = Highest(End(i), o + n)
  BY <1>2, WriteRest
<1>4. PICK a \in Nat : a = Call(p).i + Call(p).tot
  BY DEF FilesIInv, Counted, IsCount
<1>5. PICK b \in 0..1 : b = a % 2
  BY <1>4
<1>6. PICK s, s2, e, e2 : s = Contents(i) /\ s2 = Contents(i)' /\ e = End(i) /\ e2 = End(i)'
  OBVIOUS
<1>7. Rewritten(p, s, s2, e, e2, o, a, k)
  BY <1>2, <1>3, <1>4, <1>6, WriteRewrites
<1>8. Len(s) = e /\ e \in Nat /\ o <= e /\ e2 = Highest(e, o + n)
  BY <1>3, <1>6, <1>7 DEF Rewritten
<1>9. FlatOf[i] = s /\ FlatOf' = [FlatOf EXCEPT ![i] = s2]
  BY <1>1, <1>3, <1>6 DEF FlatOf
<1>10. CASE k = m
  <2>1. n = k /\ k \in 1..BSIZE
    BY <1>1, <1>2, <1>10
  <2>2. s2 = Splice(s, o, p, b, k)
    BY <1>5, <1>7, <1>8, <2>1, SpliceAll
  <2>3. OffOf' = [OffOf EXCEPT ![f] = @ + k]
    BY <1>3, <2>1
  <2>4. FlatOf' = [FlatOf EXCEPT ![IpOf[f]] = Splice(@, OffOf[f], p, b, k)]
    <3>1. FlatOf' = [FlatOf EXCEPT ![i] = Splice(FlatOf[i], o, p, b, k)]
      BY <1>9, <2>2
    <3> QED
      BY <1>3, <3>1
  <2>5. OffOf[f] <= Len(FlatOf[IpOf[f]]) /\ OffOf[f] + k <= Limit /\ IpOf' = IpOf
    BY <1>3, <1>8, <1>9, <2>1
  <2> QED
    BY <1>1, <1>5, <2>1, <2>3, <2>4, <2>5, FlatWrite
<1>11. CASE k # m
  <2>1. n = 0 /\ o + n = o /\ e2 = e
    <3>1. n = 0 /\ o + n = o
      BY <1>1, <1>2, <1>11
    <3> QED
      BY <1>8, <3>1 DEF Highest
  <2>2. OffOf' = OffOf /\ IpOf' = IpOf
    <3>1. OffOf' = [OffOf EXCEPT ![f] = OffOf[f]]
      BY <1>3, <2>1
    <3> QED
      BY <1>3, <3>1 DEF OffOf
  <2>3. CASE k = 0
    <3>1. s2 = s
      BY <1>7, <2>1, <2>3, SpliceNone
    <3>2. FlatOf' = FlatOf
      BY <1>9, <3>1 DEF FlatOf
    <3> QED
      BY <2>2, <3>2 DEF SameFlat
  <2>4. CASE k # 0
    <3>1. k \in 1..BSIZE
      BY <1>1, <2>4
    <3>2. s2 = SubSeq(Splice(s, o, p, b, k), 1, Len(s))
      BY <1>5, <1>7, <2>1, SpliceSome
    <3>3. FlatOf' = [FlatOf EXCEPT ![IpOf[f]] =
                       SubSeq(Splice(FlatOf[IpOf[f]], OffOf[f], p, b, k), 1, Len(FlatOf[IpOf[f]]))]
      BY <1>3, <1>9, <3>2
    <3>4. OffOf[f] <= Len(FlatOf[IpOf[f]])
      BY <1>3, <1>8, <1>9
    <3> QED
      BY <1>1, <1>5, <2>2, <3>1, <3>3, <3>4, FlatSmear
  <2> QED
    BY <2>3, <2>4
<1> QED
  BY <1>10, <1>11

\* Every step of a process is a step of the flat files, or does not touch them.
LEMMA ActFlat ==
  ASSUME FilesIInv, FilesIInv', NEW p \in Procs,
         \/ SysReadWrite(p) \/ ReadStart(p) \/ ReadBlock(p) \/ ReadEnd(p)
         \/ WriteStart(p) \/ WriteBlock(p) \/ WriteEnd(p) \/ SysFstat(p)
         \/ SysOpen(p) \/ SysDup(p) \/ SysClose(p)
         \/ PipeFirst(p) \/ PipeSecond(p) \/ PipeFds(p)
  PROVE  Flat!Next \/ SameFlat
<1>1. ASSUME Still(p), ~ Writing(p), ~ Writing(p)' PROVE SameFlat
  BY <1>1, StillFlat
<1>2. Idle.pc = "user"
  BY DEF Idle
<1>3. CASE SysReadWrite(p) \/ SysFstat(p)
  <2>1. Still(p) /\ Call(p).pc = "user" /\ Call(p)'.pc \in {"user", "read", "write"}
    BY <1>3, BeginIs
  <2>2. ~ Writing(p) /\ ~ Writing(p)'
    BY <2>1 DEF Writing
  <2> QED
    BY <1>1, <2>1, <2>2
<1>4. CASE ReadStart(p)
  <2>1. Still(p) /\ Call(p).pc = "read" /\ Call(p)'.pc \in {"user", "readi"}
    BY <1>2, <1>4, ReadStartIs
  <2>2. ~ Writing(p) /\ ~ Writing(p)'
    BY <2>1 DEF Writing
  <2> QED
    BY <1>1, <2>1, <2>2
<1>5. CASE ReadBlock(p)
  <2>1. Still(p) /\ Call(p).pc = "readi" /\ (Call(p)' = Idle \/ \E m : Copies(p, m))
    BY <1>5, ReadBlockIs
  <2>2. Call(p)'.pc \in {"user", "readi"}
    BY <1>2, <2>1 DEF Copies
  <2>3. ~ Writing(p) /\ ~ Writing(p)'
    BY <2>1, <2>2 DEF Writing
  <2> QED
    BY <1>1, <2>1, <2>3
<1>6. CASE WriteStart(p)
  <2>1. /\ Still(p) /\ Call(p).pc = "write"
        /\ Call(p)' = Idle \/ (Call(p)'.pc = "writei" /\ Call(p)'.tot = 0)
    BY <1>6, WriteStartIs
  <2>2. ~ Writing(p) /\ (Writing(p)' => Call(p)'.tot = 0)
    BY <1>2, <2>1 DEF Writing
  <2> QED
    BY <2>1, <2>2, StillFlat
<1>7. CASE WriteBlock(p)
  <2>0. Call(p).pc = "writei" /\ Call(p).tot < Call(p).n1
    BY <1>7 DEF WriteBlock, At
  <2>1. CASE UNCHANGED <<disk, ino, proc, file>>
    <3>1. Still(p) /\ proc'[p] = proc[p]
      BY <2>1 DEF Still
    <3> QED
      BY <3>1, StillFlat
  <2>2. ASSUME NEW h, NEW t, NEW g, NEW k, WritesTo(p, h, t, g, k)
        PROVE  Flat!Next \/ SameFlat
    <3>1. PICK f, i, o, m : WriteFacts(p, f, i, o, k, m)
      BY <2>0, <2>2, WriteFactsHold
    <3>2. WriteEffect(p, k)
      BY <2>0, <2>2, WriteWords
    <3> QED
      BY <3>1, <3>2, WriteFlat
  <2> QED
    BY <1>7, <2>1, <2>2, WriteBlockIs
<1>8. CASE SysOpen(p)
  <2>0. Call(p).pc = "user" /\ Call(p)' = Idle
    BY <1>8, OpenIs
  <2>1. CASE Still(p)
    <3>1. ~ Writing(p) /\ ~ Writing(p)'
      BY <1>2, <2>0 DEF Writing
    <3> QED
      BY <1>1, <2>1, <3>1
  <2>2. ASSUME NEW f \in Files, NEW i \in Inodes, Opens(p, f, i) PROVE Flat!Next
    BY <2>0, <2>2, OpenFlat
  <2> QED
    BY <1>8, <2>1, <2>2, OpenIs
<1>9. CASE SysDup(p) \/ SysClose(p) \/ PipeFirst(p) \/ PipeSecond(p) \/ PipeFds(p)
  <2>1. TableMoves(p)
    BY <1>9, DupCloseIs, PipeIs
  <2>2. Still(p) /\ ~ Writing(p) /\ ~ Writing(p)'
    BY <2>1 DEF TableMoves, Still, Busy, Writing
  <2> QED
    BY <1>1, <2>2
<1> QED
  BY <1>3, <1>4, <1>5, <1>6, <1>7, <1>8, <1>9, ReadEndFlat, WriteEndFlat

\* The files are empty at the start.
LEMMA InitFlat == Init => Flat!Init
<1> SUFFICES ASSUME Init PROVE Flat!Init
  OBVIOUS
<1>1. FilesIInv
  BY InitFiles
<1>2. ASSUME NEW p \in Procs PROVE ~ Writing(p)
  <2>1. PICK prog \in Programs :
          proc = [q \in Procs |-> [call |-> Idle, todo |-> prog[q],
                                   ofile |-> [d \in Fds |-> IF d = 0 THEN 1 ELSE 0]]]
    BY DEF Init, Fds
  <2>2. Call(p) = Idle
    BY <2>1 DEF Call
  <2> QED
    BY <2>2 DEF Writing, Idle
<1>3. ASSUME NEW i \in Inodes PROVE Contents(i) = <<>>
  <2>1. ino[i].size = 0
    BY DEF Init
  <2>2. PICK s : s = Contents(i)
    OBVIOUS
  <2>3. End(i) = 0
    BY <1>1, <1>2, <2>1, EndsNow DEF EndFacts
  <2>4. s = [k \in 1..0 |-> Word(ino[i].addrs, disk.blk, k - 1)]
    BY <1>1, <2>2, <2>3, EndsNow DEF EndFacts
  <2>5. s = [k \in 1..0 |-> s[k]] /\ \A k \in 1..0 : s[k] \in Nat
    BY <2>4
  <2>6. s \in Seq(Nat) /\ Len(s) = 0
    BY <2>5, SeqOf
  <2> QED
    BY <2>2, <2>6
<1>4. ASSUME NEW f \in Files PROVE file[f].off + Pending(f) = 0 /\ file[f].ip \in Inodes
  <2>1. Pending(f) = 0 /\ file[f].ip \in Inodes
    BY <1>1, <1>2, PendNow DEF PendFacts
  <2>2. file[f].off = 0
    BY DEF Init, FreeFile
  <2> QED
    BY <2>1, <2>2
<1> QED
  BY <1>3, <1>4 DEF Flat!Init

\* Files laid out in direct, indirect and doubly indirect blocks, with a bitmap, inode locks
\* and offsets that processes share, behave as flat sequences of words: every step of a
\* system call is a read, a write, the smear of a failed write or an open of FlatFile, or
\* changes nothing there.
THEOREM FilesFlat == Spec => FlatSpec
<1>1. FilesIInv /\ FilesIInv' /\ [Next]_vars => [Flat!Next]_(Flat!fvars)
  <2> SUFFICES ASSUME FilesIInv, FilesIInv', [Next]_vars
               PROVE  Flat!Next \/ UNCHANGED Flat!fvars
    OBVIOUS
  <2>1. SameFlat => UNCHANGED Flat!fvars
    BY DEF SameFlat, FlatOf, OffOf, IpOf, Flat!fvars
  <2>2. CASE UNCHANGED vars
    <3>1. /\ \A i \in Inodes : Contents(i)' = Contents(i)
          /\ \A f \in Files : file'[f].ip = file[f].ip
                              /\ file'[f].off + Pending(f)' = file[f].off + Pending(f)
      BY <2>2 DEF vars, Contents, End, Frontiers, BlockNo, Pending, Writing, Call
    <3> QED
      BY <2>1, <3>1, FlatSame
  <2>3. CASE Next
    BY <2>1, <2>3, ActFlat DEF Next
  <2> QED
    BY <2>2, <2>3
<1> QED
  BY <1>1, InitFlat, FilesAlways, PTL DEF FlatSpec, Flat!Spec, Spec
=============================================================================
