-------------------------------- MODULE Pipe --------------------------------
(***************************************************************************)
(* Pipes, kernel/pipe.c: pipealloc(), pipewrite(), piperead() and          *)
(* pipeclose(), with several processes on either end and sleep()/wakeup()  *)
(* on the two channels &pi->nread and &pi->nwrite.                         *)
(***************************************************************************)
EXTENDS Naturals, Sequences

CONSTANTS
  PIPESIZE,
  WRAP,      \* nread and nwrite count modulo WRAP (2^32 in the code)
  Bytes,
  Writers,   \* processes with the write end open
  Readers,   \* processes with the read end open
  MaxN,      \* the largest n of a read() or write()
  None       \* the holder of a lock that is free

ASSUME PipeAssumption ==
  /\ PIPESIZE \in Nat \ {0} /\ WRAP \in Nat /\ WRAP % PIPESIZE = 0 /\ PIPESIZE < WRAP
  /\ Writers \cap Readers = {} /\ None \notin Writers \cup Readers
  /\ MaxN \in Nat

Users == Writers \cup Readers

VARIABLES
  data, nread, nwrite, readopen, writeopen,  \* struct pipe
  lock,    \* the holder of pi->lock
  freed,   \* kfree(pi) has happened
  open,    \* p has its end of the pipe open
  killed,  \* p->killed
  pc,      \* where p is
  n,       \* the bytes p's call has still to transfer
  got,     \* i of piperead()
  unwoken  \* observer: a killed writer has left bytes without wakeup(&pi->nread)

pipe == <<data, nread, nwrite, readopen, writeopen>>
vars == <<pipe, lock, freed, open, killed, pc, n, got, unwoken>>

Goto(p, l) == pc' = [pc EXCEPT ![p] = l]
Full == nwrite = (nread + PIPESIZE) % WRAP
Empty == nread = nwrite

\* wakeup() of the processes of S, with p going on to l.  A woken process
\* takes the lock again before it leaves sleep().
WakeAnd(S, p, l) ==
  pc' = [u \in Users |-> IF u = p THEN l
                         ELSE IF u \in S /\ pc[u] = "asleep" THEN "acquire"
                         ELSE pc[u]]

\* pipealloc(), in the process that then forks the others.
Init ==
  /\ \E v \in Bytes : data = [k \in 0..(PIPESIZE - 1) |-> v]
  /\ nread = 0 /\ nwrite = 0 /\ readopen = TRUE /\ writeopen = TRUE
  /\ lock = None /\ freed = FALSE
  /\ open = [p \in Users |-> TRUE]
  /\ killed = [p \in Users |-> FALSE]
  /\ pc = [p \in Users |-> "idle"]
  /\ n = [p \in Users |-> 0]
  /\ got = [p \in Users |-> 0]
  /\ unwoken = FALSE

\* A read() or write() of k bytes by a process that is not being killed.
Call(p, k) ==
  /\ pc[p] = "idle" /\ open[p] /\ ~ killed[p]
  /\ n' = [n EXCEPT ![p] = k]
  /\ Goto(p, "acquire")
  /\ UNCHANGED <<pipe, lock, freed, open, killed, got, unwoken>>

\* acquire(&pi->lock), on entry and on the way out of sleep().
Acquire(p) ==
  /\ pc[p] = "acquire" /\ lock = None
  /\ lock' = p
  /\ Goto(p, "loop")
  /\ UNCHANGED <<pipe, freed, open, killed, n, got, unwoken>>

-----------------------------------------------------------------------------
(* pipewrite() *)

\* The reader is gone or the writer is killed: return -1, without a wakeup() for
\* the bytes that are already in the pipe.
WriteAbort(w) ==
  /\ pc[w] = "loop" /\ n[w] > 0 /\ (~ readopen \/ killed[w])
  /\ lock' = None
  /\ n' = [n EXCEPT ![w] = 0]
  /\ Goto(w, "idle")
  /\ unwoken' = (unwoken \/ (killed[w] /\ ~ Empty))
  /\ UNCHANGED <<pipe, freed, open, killed, got>>

\* Mutant: a writer that finds the pipe full sleeps without waking readers.
WriteFullSilent(w) ==
  /\ pc[w] = "loop" /\ n[w] > 0 /\ readopen /\ ~ killed[w] /\ Full
  /\ lock' = None
  /\ Goto(w, "asleep")
  /\ UNCHANGED <<pipe, freed, open, killed, n, got, unwoken>>

\* The pipe is full: wake the readers and sleep.
WriteFull(w) ==
  /\ pc[w] = "loop" /\ n[w] > 0 /\ readopen /\ ~ killed[w] /\ Full
  /\ lock' = None
  /\ WakeAnd(Readers, w, "asleep")
  /\ unwoken' = FALSE
  /\ UNCHANGED <<pipe, freed, open, killed, n, got>>

\* Mutant: ++nwrite instead of nwrite++.
WriteBytePreincrement(w, v) ==
  /\ pc[w] = "loop" /\ n[w] > 0 /\ readopen /\ ~ killed[w] /\ ~ Full
  /\ data' = [data EXCEPT ![(nwrite + 1) % PIPESIZE] = v]
  /\ nwrite' = (nwrite + 1) % WRAP
  /\ n' = [n EXCEPT ![w] = @ - 1]
  /\ UNCHANGED <<nread, readopen, writeopen, lock, freed, open, killed, pc, got, unwoken>>

\* Copy one byte in.
WriteByte(w, v) ==
  /\ pc[w] = "loop" /\ n[w] > 0 /\ readopen /\ ~ killed[w] /\ ~ Full
  /\ data' = [data EXCEPT ![nwrite % PIPESIZE] = v]
  /\ nwrite' = (nwrite + 1) % WRAP
  /\ n' = [n EXCEPT ![w] = @ - 1]
  /\ UNCHANGED <<nread, readopen, writeopen, lock, freed, open, killed, pc, got, unwoken>>

\* The user address is bad: leave the loop.
WriteBadAddress(w) ==
  /\ pc[w] = "loop" /\ n[w] > 0 /\ readopen /\ ~ killed[w] /\ ~ Full
  /\ n' = [n EXCEPT ![w] = 0]
  /\ UNCHANGED <<pipe, lock, freed, open, killed, pc, got, unwoken>>

\* All is written: wake the readers and return.
WriteDone(w) ==
  /\ pc[w] = "loop" /\ n[w] = 0
  /\ lock' = None
  /\ WakeAnd(Readers, w, "idle")
  /\ unwoken' = FALSE
  /\ UNCHANGED <<pipe, freed, open, killed, n, got>>

WriteNext(w) ==
  \/ WriteAbort(w) \/ WriteFull(w) \/ (\E v \in Bytes : WriteByte(w, v))
  \/ WriteBadAddress(w) \/ WriteDone(w)

-----------------------------------------------------------------------------
(* piperead() *)

\* The pipe is empty and may still be written: sleep, or give up if killed.
ReadWait(r) ==
  /\ pc[r] = "loop" /\ Empty /\ writeopen
  /\ lock' = None
  /\ \/ killed[r] /\ Goto(r, "idle") /\ n' = [n EXCEPT ![r] = 0]
     \/ ~ killed[r] /\ Goto(r, "asleep") /\ UNCHANGED n
  /\ UNCHANGED <<pipe, freed, open, killed, got, unwoken>>

\* There is something to read, or there will never be: start copying.
ReadStart(r) ==
  /\ pc[r] = "loop" /\ ~ (Empty /\ writeopen)
  /\ Goto(r, "copy")
  /\ UNCHANGED <<pipe, lock, freed, open, killed, n, got, unwoken>>

\* Copy one byte out.
ReadByte(r) ==
  /\ pc[r] = "copy" /\ n[r] > 0 /\ ~ Empty
  /\ nread' = (nread + 1) % WRAP
  /\ n' = [n EXCEPT ![r] = @ - 1]
  /\ got' = [got EXCEPT ![r] = @ + 1]
  /\ UNCHANGED <<data, nwrite, readopen, writeopen, lock, freed, open, killed, pc, unwoken>>

\* A byte is taken out but the user address is bad: leave the loop.
ReadBadAddress(r) ==
  /\ pc[r] = "copy" /\ n[r] > 0 /\ ~ Empty
  /\ nread' = (nread + 1) % WRAP
  /\ n' = [n EXCEPT ![r] = 0]
  /\ UNCHANGED <<data, nwrite, readopen, writeopen, lock, freed, open, killed, pc, got, unwoken>>

\* Enough is read or no more is there: wake the writers and return.
ReadDone(r) ==
  /\ pc[r] = "copy" /\ (n[r] = 0 \/ Empty)
  /\ lock' = None
  /\ n' = [n EXCEPT ![r] = 0] /\ got' = [got EXCEPT ![r] = 0]
  /\ WakeAnd(Writers, r, "idle")
  /\ UNCHANGED <<pipe, freed, open, killed, unwoken>>

ReadNext(r) ==
  ReadWait(r) \/ ReadStart(r) \/ ReadByte(r) \/ ReadBadAddress(r) \/ ReadDone(r)

-----------------------------------------------------------------------------
\* Mutant: the page is freed as soon as one end is closed.
PipecloseEither(p) ==
  /\ pc[p] = "idle" /\ open[p] /\ lock = None
  /\ open' = [open EXCEPT ![p] = FALSE]
  /\ writeopen' = (writeopen /\ \E u \in Writers : open'[u])
  /\ readopen' = (readopen /\ \E u \in Readers : open'[u])
  /\ freed' = (~ readopen' \/ ~ writeopen')
  /\ UNCHANGED <<data, nread, nwrite, lock, killed, pc, n, got, unwoken>>

\* close() or exit() of p.  fileclose() calls pipeclose() for the last file
\* descriptor of an end, which wakes the other end and, when both ends are
\* closed, frees the page.
Pipeclose(p) ==
  /\ pc[p] = "idle" /\ open[p] /\ lock = None
  /\ open' = [open EXCEPT ![p] = FALSE]
  /\ LET last == \A u \in (IF p \in Writers THEN Writers ELSE Readers) \ {p} : ~ open[u] IN
     \/ /\ last /\ p \in Writers
        /\ writeopen' = FALSE /\ freed' = ~ readopen
        /\ WakeAnd(Readers, p, "idle") /\ unwoken' = FALSE
        /\ UNCHANGED readopen
     \/ /\ last /\ p \in Readers
        /\ readopen' = FALSE /\ freed' = ~ writeopen
        /\ WakeAnd(Writers, p, "idle")
        /\ UNCHANGED <<writeopen, unwoken>>
     \/ ~ last /\ UNCHANGED <<writeopen, readopen, freed, pc, unwoken>>
  /\ UNCHANGED <<data, nread, nwrite, lock, killed, n, got>>

\* kill() of p by some other process, which does not take pi->lock.
Kill(p) ==
  /\ open[p] /\ ~ killed[p]
  /\ killed' = [killed EXCEPT ![p] = TRUE]
  /\ pc' = [pc EXCEPT ![p] = IF @ = "asleep" THEN "acquire" ELSE @]
  /\ UNCHANGED <<pipe, lock, freed, open, n, got, unwoken>>

\* The page is allocated again, for another pipe of the same processes.
Pipealloc ==
  /\ freed /\ pc = [p \in Users |-> "idle"]
  /\ nread' = 0 /\ nwrite' = 0 /\ readopen' = TRUE /\ writeopen' = TRUE
  /\ freed' = FALSE
  /\ open' = [p \in Users |-> TRUE]
  /\ killed' = [p \in Users |-> FALSE]
  /\ unwoken' = FALSE
  /\ UNCHANGED <<data, lock, pc, n, got>>

Next ==
  \/ \E p \in Users : Acquire(p) \/ Pipeclose(p) \/ \E k \in 1..MaxN : Call(p, k)
  \/ \E w \in Writers : WriteNext(w)
  \/ \E r \in Readers : ReadNext(r)
  \/ Pipealloc
  \/ \E p \in Users : Kill(p)

Spec == Init /\ [][Next]_vars

-----------------------------------------------------------------------------
\* The type of struct pipe and of its users.
TypeOK ==
  /\ data \in [0..(PIPESIZE - 1) -> Bytes]
  /\ nread \in 0..(WRAP - 1) /\ nwrite \in 0..(WRAP - 1)
  /\ (nwrite + WRAP - nread) % WRAP <= PIPESIZE
  /\ readopen \in BOOLEAN /\ writeopen \in BOOLEAN /\ freed \in BOOLEAN
  /\ lock \in Users \cup {None}
  /\ open \in [Users -> BOOLEAN] /\ killed \in [Users -> BOOLEAN]
  /\ pc \in [Users -> {"idle", "acquire", "loop", "copy", "asleep"}]
  /\ n \in [Users -> 0..MaxN] /\ got \in [Users -> 0..MaxN]
  /\ unwoken \in BOOLEAN

\* The bytes between nread and nwrite, in order.
Contents == [k \in 1..((nwrite + WRAP - nread) % WRAP) |-> data[(nread + k - 1) % PIPESIZE]]

Queue == INSTANCE Fifo WITH q <- Contents, rd <- readopen, wr <- writeopen

\* A pipe is a bounded first-in-first-out queue: with free-running counters
\* that wrap around, with any mix of readers, writers, closes and kills.
FifoSpec == Queue!Spec

\* The page of a pipe is freed only when no process is inside piperead() or
\* pipewrite() or could call them.
NotFreedInUse == freed => \A p \in Users : ~ open[p] /\ pc[p] = "idle"

\* A writer sleeps only while the pipe is full and can be read, or while the
\* reader that makes room still holds the lock and will wake it.
WriterSleepJustified == \A w \in Writers :
  pc[w] = "asleep" => lock # None \/ (Full /\ readopen)

\* A read() that was asked for bytes and stops because there are none left has
\* got one, or no writer is left.  (It also returns 0 if the address it is given
\* for the first byte is bad; that is not this case.)
NoFalseEof == \A r \in Readers :
  pc[r] = "copy" /\ got[r] = 0 /\ n[r] > 0 /\ Empty => ~ writeopen

\* A reader sleeps only while the pipe is empty and can be written, or while the
\* writer still holds the lock and will wake it, or because the last writer was
\* killed in the middle of its write() and woke nobody (pipe.c:78): the one
\* wakeup that is lost.
ReaderSleepJustified == \A r \in Readers :
  pc[r] = "asleep" => lock # None \/ (Empty /\ writeopen) \/ unwoken

\* The pipe is well typed, with never more than PIPESIZE bytes between the
\* counters, is not freed under its users (pipeclose()), and piperead() takes no
\* pipe that is empty for a moment for one that has ended.
PipeInv == TypeOK /\ NotFreedInUse /\ NoFalseEof

\* No wakeup of a writer is lost, and of a reader only the one that a killed
\* writer owes for its bytes, and that only until the next wakeup(&pi->nread),
\* by a write() that ends or waits or by the last close() of a writer.
SleepersJustified == WriterSleepJustified /\ ReaderSleepJustified
=============================================================================
