---------------------------- MODULE StreamProofs ----------------------------
(***************************************************************************)
(* The byte streams behind file descriptors: pipes (module Pipe) for any   *)
(* size, any word width of the counters, any readers and writers, and that *)
(* they implement the bounded queue of module Fifo; and the console and    *)
(* the serial port (module Console) for any size of their buffers and any  *)
(* number of processes that read and write.                                *)
(***************************************************************************)
EXTENDS Pipe, Console, SequenceTheorems, TLAPS

-----------------------------------------------------------------------------
(* Part 1: pipes *)

(***************************************************************************)
(* The inductive invariant.  PipeInv and SleepersJustified say nothing     *)
(* about who holds pi->lock, which is what keeps the other processes away  *)
(* while one is in the middle of a read or a write, nor about what the     *)
(* flags of struct pipe have to do with the processes that have it open.   *)
(***************************************************************************)

\* pi->lock is held exactly by the process inside the loops.
LockHeld == \A p \in Users : lock = p <=> pc[p] \in {"loop", "copy"}
OnlyReadersCopy == \A w \in Writers : pc[w] # "copy"

\* A process inside piperead() or pipewrite() has its end open, an end that a
\* process has open is marked open, and a freed page has no end open.
UsersOpen == \A p \in Users : pc[p] # "idle" => open[p]
EndsOpen ==
  /\ \A w \in Writers : open[w] => writeopen
  /\ \A r \in Readers : open[r] => readopen
  /\ freed => ~ readopen /\ ~ writeopen

\* What piperead() has read and has still to read is what it was asked for.
GotBounded == \A p \in Users :
  /\ n[p] + got[p] <= MaxN
  /\ pc[p] # "copy" => got[p] = 0

\* A writer sleeps on a full pipe that can be read, or a reader is taking
\* bytes out and will wake it.
WriterWaits == \A w \in Writers :
  pc[w] = "asleep" => \/ Full /\ readopen
                      \/ \E r \in Readers : pc[r] = "copy"

\* A reader sleeps on an empty pipe that can be written, or a writer is inside
\* its loop and will wake it, or a killed one has woken nobody.
ReaderWaits == \A r \in Readers :
  pc[r] = "asleep" => \/ Empty /\ writeopen
                      \/ \E w \in Writers : pc[w] = "loop"
                      \/ unwoken

PipeIInv ==
  /\ TypeOK /\ LockHeld /\ OnlyReadersCopy /\ UsersOpen /\ EndsOpen
  /\ GotBounded /\ NoFalseEof /\ WriterWaits /\ ReaderWaits

-----------------------------------------------------------------------------
(* Arithmetic modulo the size and modulo the word width *)

\* What the remainder of a division is.
LEMMA DivMod ==
  ASSUME NEW b \in Nat \ {0}, NEW a \in Nat
  PROVE  /\ a % b \in 0..(b - 1) /\ a \div b \in Int
         /\ a = b * (a \div b) + (a % b)
  OBVIOUS

\* Only one number below b is the remainder.
LEMMA ModUnique ==
  ASSUME NEW b \in Nat \ {0}, NEW x \in Int, NEW r \in 0..(b - 1)
  PROVE  (b * x + r) % b = r
  OBVIOUS

\* Multiples of b do not change the remainder.
LEMMA ModMultiple ==
  ASSUME NEW b \in Nat \ {0}, NEW a \in Nat, NEW x \in Int
  PROVE  (a + b * x) % b = a % b
<1> DEFINE d == a \div b
           m == a % b
<1>1. m \in 0..(b - 1) /\ d \in Int /\ a = b * d + m
  BY DivMod
<1> HIDE DEF d, m
<1>2. a + b * x = b * (d + x) + m
  BY <1>1
<1>3. (b * (d + x) + m) % b = m
  BY <1>1, ModUnique
<1> QED
  BY <1>2, <1>3 DEF m

\* A counter that has gone around at most once.
LEMMA ModOnce ==
  ASSUME NEW b \in Nat \ {0}, NEW a \in 0..(2 * b - 1)
  PROVE  a % b = IF a < b THEN a ELSE a - b
<1>1. CASE a < b
  <2>1. b * 0 + a = a
    OBVIOUS
  <2>2. (b * 0 + a) % b = a
    BY <1>1, ModUnique
  <2> QED
    BY <1>1, <2>1, <2>2
<1>2. CASE ~ (a < b)
  <2>1. b * 1 + (a - b) = a /\ a - b \in 0..(b - 1)
    BY <1>2
  <2>2. (b * 1 + (a - b)) % b = a - b
    BY <2>1, ModUnique
  <2> QED
    BY <1>2, <2>1, <2>2
<1> QED
  BY <1>1, <1>2

\* Two numbers less than b apart have different remainders.
LEMMA ModApart ==
  ASSUME NEW b \in Nat \ {0}, NEW a \in Nat, NEW c \in Nat,
         a < c, c < a + b
  PROVE  a % b # c % b
<1> SUFFICES ASSUME a % b = c % b PROVE FALSE
  OBVIOUS
<1> DEFINE m == a % b
           i == a \div b
           j == c \div b
<1>1. m \in Int /\ i \in Int /\ a = b * i + m
  BY DivMod
<1>2. j \in Int /\ c = b * j + m
  BY DivMod
<1> HIDE DEF m, i, j
<1>3. PICK x \in Int : c - a = b * x
  <2>1. c - a = (b * j) - (b * i)
    BY <1>1, <1>2
  <2>2. (b * j) - (b * i) = b * (j - i)
    BY <1>1, <1>2
  <2> QED
    BY <1>1, <1>2, <2>1, <2>2
<1>4. CASE x >= 1
  BY <1>3, <1>4
<1>5. CASE x <= 0
  BY <1>3, <1>5
<1> QED
  BY <1>4, <1>5

-----------------------------------------------------------------------------
(* The counters of struct pipe *)

\* The widths alone: the provers reason about them better without the rest.
LEMMA Widths == PIPESIZE \in Nat \ {0} /\ WRAP \in Nat \ {0} /\ PIPESIZE < WRAP
  BY PipeAssumption

\* How many bytes are between two values of nread and nwrite.
Count(a, b) == (b + WRAP - a) % WRAP

\* The counters never differ by more than a word, whether or not nwrite has
\* gone around.
LEMMA CountIs ==
  ASSUME NEW a \in 0..(WRAP - 1), NEW b \in 0..(WRAP - 1)
  PROVE  Count(a, b) = IF b >= a THEN b - a ELSE b + WRAP - a
<1> DEFINE s == b + WRAP - a
<1>1. s \in 0..(2 * WRAP - 1)
  BY Widths
<1>2. s = b + WRAP - a /\ Count(a, b) = s % WRAP
  BY DEF Count
<1> HIDE DEF s
<1>3. s % WRAP = IF s < WRAP THEN s ELSE s - WRAP
  BY <1>1, ModOnce, Widths
<1> QED
  BY <1>2, <1>3, Widths

\* A counter that is incremented, modulo the word.
LEMMA Incremented ==
  ASSUME NEW a \in 0..(WRAP - 1), NEW i \in 0..WRAP
  PROVE  (a + i) % WRAP = IF a + i < WRAP THEN a + i ELSE a + i - WRAP
<1> DEFINE s == a + i
<1>1. s \in 0..(2 * WRAP - 1)
  BY Widths
<1>2. s = a + i /\ (a + i) % WRAP = s % WRAP
  OBVIOUS
<1> HIDE DEF s
<1>3. s % WRAP = IF s < WRAP THEN s ELSE s - WRAP
  BY <1>1, ModOnce, Widths
<1> QED
  BY <1>1, <1>2, <1>3, Widths

\* The two tests of pipe.c, nwrite == nread + PIPESIZE and nread == nwrite,
\* are about the number of bytes in between.
LEMMA FullAndEmpty ==
  ASSUME NEW a \in 0..(WRAP - 1), NEW b \in 0..(WRAP - 1)
  PROVE  /\ b = (a + PIPESIZE) % WRAP <=> Count(a, b) = PIPESIZE
         /\ a = b <=> Count(a, b) = 0
         /\ Count(a, b) \in 0..(WRAP - 1)
<1>1. (a + PIPESIZE) % WRAP = IF a + PIPESIZE < WRAP THEN a + PIPESIZE
                              ELSE a + PIPESIZE - WRAP
  <2>1. PIPESIZE \in 0..WRAP
    BY Widths
  <2> QED
    BY <2>1, Incremented
<1>2. Count(a, b) = IF b >= a THEN b - a ELSE b + WRAP - a
  BY CountIs
<1> QED
  BY <1>1, <1>2, Widths

\* nwrite++ makes one byte more of them, nread++ one byte less.
LEMMA CountPut ==
  ASSUME NEW a \in 0..(WRAP - 1), NEW b \in 0..(WRAP - 1),
         Count(a, b) <= PIPESIZE, b # (a + PIPESIZE) % WRAP
  PROVE  /\ (b + 1) % WRAP \in 0..(WRAP - 1)
         /\ Count(a, b) < PIPESIZE
         /\ Count(a, (b + 1) % WRAP) = Count(a, b) + 1
<1>1. (b + 1) % WRAP = IF b + 1 < WRAP THEN b + 1 ELSE b + 1 - WRAP
  <2>1. 1 \in 0..WRAP
    BY Widths
  <2> QED
    BY <2>1, Incremented
<1>2. (b + 1) % WRAP = IF b + 1 < WRAP THEN b + 1 ELSE 0
  BY <1>1, Widths
<1>3. (b + 1) % WRAP \in 0..(WRAP - 1)
  BY <1>2, Widths
<1>4. Count(a, b) < PIPESIZE
  BY FullAndEmpty, Widths
<1> QED
  BY <1>2, <1>3, <1>4, CountIs, Widths

\* piperead() takes one byte: the count goes down by one.
LEMMA CountGet ==
  ASSUME NEW a \in 0..(WRAP - 1), NEW b \in 0..(WRAP - 1), a # b
  PROVE  /\ (a + 1) % WRAP \in 0..(WRAP - 1)
         /\ Count((a + 1) % WRAP, b) = Count(a, b) - 1
<1>1. (a + 1) % WRAP = IF a + 1 < WRAP THEN a + 1 ELSE a + 1 - WRAP
  <2>1. 1 \in 0..WRAP
    BY Widths
  <2> QED
    BY <2>1, Incremented
<1>2. (a + 1) % WRAP = IF a + 1 < WRAP THEN a + 1 ELSE 0
  BY <1>1, Widths
<1>3. (a + 1) % WRAP \in 0..(WRAP - 1)
  BY <1>2, Widths
<1>4. Count(a, b) = IF b >= a THEN b - a ELSE b + WRAP - a
  BY CountIs
<1>5. PICK c \in 0..(WRAP - 1) : c = (a + 1) % WRAP
  BY <1>3
<1>6. Count(c, b) = IF b >= c THEN b - c ELSE b + WRAP - c
  BY CountIs
<1>7. Count(c, b) = Count(a, b) - 1
  BY <1>2, <1>4, <1>5, <1>6, Widths
<1> QED
  BY <1>3, <1>5, <1>7

\* A counter that wraps around goes on with the next slot of data[], because
\* the word width is a multiple of the size.
LEMMA SlotWraps ==
  ASSUME NEW a \in 0..(2 * WRAP - 1)
  PROVE  (a % WRAP) % PIPESIZE = a % PIPESIZE
<1>1. a % WRAP = IF a < WRAP THEN a ELSE a - WRAP
  BY ModOnce, Widths
<1>2. CASE a < WRAP
  BY <1>1, <1>2
<1>3. CASE ~ (a < WRAP)
  <2>1. WRAP = PIPESIZE * (WRAP \div PIPESIZE) + (WRAP % PIPESIZE) /\ WRAP \div PIPESIZE \in Int
    BY DivMod, Widths
  <2>2. PICK x \in Int : WRAP = PIPESIZE * x
    BY <2>1, PipeAssumption
  <2>3. a - WRAP \in Nat /\ a = (a - WRAP) + PIPESIZE * x
    BY <1>3, <2>2, Widths
  <2>4. ((a - WRAP) + PIPESIZE * x) % PIPESIZE = (a - WRAP) % PIPESIZE
    BY <2>3, ModMultiple, Widths
  <2> QED
    BY <1>1, <1>3, <2>3, <2>4
<1> QED
  BY <1>2, <1>3

-----------------------------------------------------------------------------
(* The invariant *)

\* No step of a process inside pipe.c, of a kill or of a close breaks it.
LEMMA PipeStep == PipeIInv /\ [Next]_vars => PipeIInv'
<1> SUFFICES ASSUME PipeIInv, [Next]_vars PROVE PipeIInv'
  OBVIOUS
<1> USE DEF Users, pipe
<1>1. ASSUME NEW p \in Users, Acquire(p) PROVE PipeIInv'
  <2>1. TypeOK'
    BY <1>1, PipeAssumption DEF PipeIInv, TypeOK, Acquire, Goto
  <2>2. (LockHeld /\ OnlyReadersCopy /\ UsersOpen)'
    BY <1>1, PipeAssumption DEF PipeIInv, TypeOK, LockHeld, OnlyReadersCopy, UsersOpen,
       Acquire, Goto
  <2>3. EndsOpen'
    BY <1>1, PipeAssumption DEF PipeIInv, TypeOK, UsersOpen, EndsOpen,
       Acquire, Goto
  <2>4. (GotBounded /\ NoFalseEof)'
    BY <1>1, PipeAssumption DEF PipeIInv, TypeOK, LockHeld, OnlyReadersCopy,
       GotBounded, NoFalseEof, Empty, Acquire, Goto
  <2>5. (WriterWaits /\ ReaderWaits)'
    BY <1>1, PipeAssumption DEF PipeIInv, TypeOK, LockHeld, OnlyReadersCopy,
       UsersOpen, EndsOpen, WriterWaits, ReaderWaits, Full, Empty, Acquire, Goto
  <2> QED
    BY <2>1, <2>2, <2>3, <2>4, <2>5 DEF PipeIInv
<1>2. ASSUME NEW p \in Users, Pipeclose(p) PROVE PipeIInv'
  <2>1. TypeOK'
    BY <1>2, PipeAssumption DEF PipeIInv, TypeOK, Pipeclose, WakeAnd
  <2>2. (LockHeld /\ OnlyReadersCopy /\ UsersOpen)'
    BY <1>2, PipeAssumption DEF PipeIInv, TypeOK, LockHeld, OnlyReadersCopy, UsersOpen,
       Pipeclose, WakeAnd
  <2>3. EndsOpen'
    BY <1>2, PipeAssumption DEF PipeIInv, TypeOK, UsersOpen, EndsOpen,
       Pipeclose, WakeAnd
  <2>4. (GotBounded /\ NoFalseEof)'
    BY <1>2, PipeAssumption DEF PipeIInv, TypeOK, LockHeld, OnlyReadersCopy,
       GotBounded, NoFalseEof, Empty, Pipeclose, WakeAnd
  <2>5. WriterWaits'
    BY <1>2, PipeAssumption DEF PipeIInv, TypeOK, LockHeld, UsersOpen, EndsOpen,
       WriterWaits, Full, Pipeclose, WakeAnd
  <2>6. ReaderWaits'
    BY <1>2, PipeAssumption DEF PipeIInv, TypeOK, LockHeld, UsersOpen, EndsOpen,
       ReaderWaits, Empty, Pipeclose, WakeAnd
  <2> QED
    BY <2>1, <2>2, <2>3, <2>4, <2>5, <2>6 DEF PipeIInv
<1>3. ASSUME NEW p \in Users, NEW k \in 1..MaxN, Call(p, k) PROVE PipeIInv'
  <2>1. TypeOK'
    BY <1>3, PipeAssumption DEF PipeIInv, TypeOK, Call, Goto
  <2>2. (LockHeld /\ OnlyReadersCopy /\ UsersOpen)'
    BY <1>3, PipeAssumption DEF PipeIInv, TypeOK, LockHeld, OnlyReadersCopy, UsersOpen,
       Call, Goto
  <2>3. EndsOpen'
    BY <1>3, PipeAssumption DEF PipeIInv, TypeOK, UsersOpen, EndsOpen,
       Call, Goto
  <2>4. (GotBounded /\ NoFalseEof)'
    BY <1>3, PipeAssumption DEF PipeIInv, TypeOK, LockHeld, OnlyReadersCopy,
       GotBounded, NoFalseEof, Empty, Call, Goto
  <2>5. (WriterWaits /\ ReaderWaits)'
    BY <1>3, PipeAssumption DEF PipeIInv, TypeOK, LockHeld, OnlyReadersCopy,
       UsersOpen, EndsOpen, WriterWaits, ReaderWaits, Full, Empty, Call, Goto
  <2> QED
    BY <2>1, <2>2, <2>3, <2>4, <2>5 DEF PipeIInv
<1>4. ASSUME NEW w \in Writers, WriteAbort(w) PROVE PipeIInv'
  <2>1. TypeOK'
    BY <1>4, PipeAssumption DEF PipeIInv, TypeOK, WriteAbort, Goto
  <2>2. (LockHeld /\ OnlyReadersCopy /\ UsersOpen)'
    BY <1>4, PipeAssumption DEF PipeIInv, TypeOK, LockHeld, OnlyReadersCopy, UsersOpen,
       WriteAbort, Goto
  <2>3. EndsOpen'
    BY <1>4, PipeAssumption DEF PipeIInv, TypeOK, UsersOpen, EndsOpen,
       WriteAbort, Goto
  <2>4. (GotBounded /\ NoFalseEof)'
    BY <1>4, PipeAssumption DEF PipeIInv, TypeOK, LockHeld, OnlyReadersCopy,
       GotBounded, NoFalseEof, Empty, WriteAbort, Goto
  <2>5. (WriterWaits /\ ReaderWaits)'
    BY <1>4, PipeAssumption DEF PipeIInv, TypeOK, LockHeld, OnlyReadersCopy,
       UsersOpen, EndsOpen, WriterWaits, ReaderWaits, Full, Empty, WriteAbort, Goto
  <2> QED
    BY <2>1, <2>2, <2>3, <2>4, <2>5 DEF PipeIInv
<1>5. ASSUME NEW w \in Writers, WriteFull(w) PROVE PipeIInv'
  <2>1. TypeOK'
    BY <1>5, PipeAssumption DEF PipeIInv, TypeOK, WriteFull, WakeAnd
  <2>2. (LockHeld /\ OnlyReadersCopy /\ UsersOpen)'
    BY <1>5, PipeAssumption DEF PipeIInv, TypeOK, LockHeld, OnlyReadersCopy, UsersOpen,
       WriteFull, WakeAnd
  <2>3. EndsOpen'
    BY <1>5, PipeAssumption DEF PipeIInv, TypeOK, UsersOpen, EndsOpen,
       WriteFull, WakeAnd
  <2>4. (GotBounded /\ NoFalseEof)'
    BY <1>5, PipeAssumption DEF PipeIInv, TypeOK, LockHeld, OnlyReadersCopy,
       GotBounded, NoFalseEof, Empty, WriteFull, WakeAnd
  <2>5. (WriterWaits /\ ReaderWaits)'
    BY <1>5, PipeAssumption DEF PipeIInv, TypeOK, LockHeld, OnlyReadersCopy,
       UsersOpen, EndsOpen, WriterWaits, ReaderWaits, Full, Empty, WriteFull, WakeAnd
  <2> QED
    BY <2>1, <2>2, <2>3, <2>4, <2>5 DEF PipeIInv
<1>6. ASSUME NEW w \in Writers, NEW v \in Bytes, WriteByte(w, v) PROVE PipeIInv'
  <2>1. TypeOK'
    <3>1. /\ nwrite' \in 0..(WRAP - 1)
          /\ Count(nread', nwrite') <= PIPESIZE
      <4>1. /\ nread \in 0..(WRAP - 1) /\ nwrite \in 0..(WRAP - 1)
            /\ Count(nread, nwrite) <= PIPESIZE
        BY DEF PipeIInv, TypeOK, Count
      <4>2. nwrite' = (nwrite + 1) % WRAP /\ nread' = nread /\ ~ Full
        BY <1>6 DEF WriteByte
      <4> QED
        BY <4>1, <4>2, CountPut, FullAndEmpty, Widths DEF Full
    <3>2. data' \in [0..(PIPESIZE - 1) -> Bytes]
      BY <1>6, DivMod, Widths DEF PipeIInv, TypeOK, WriteByte
    <3>3. n' \in [Users -> 0..MaxN]
      BY <1>6, PipeAssumption DEF PipeIInv, TypeOK, WriteByte
    <3> QED
      BY <1>6, <3>1, <3>2, <3>3 DEF PipeIInv, TypeOK, Count, WriteByte
  <2>2. (LockHeld /\ OnlyReadersCopy /\ UsersOpen)'
    BY <1>6, PipeAssumption DEF PipeIInv, TypeOK, LockHeld, OnlyReadersCopy, UsersOpen,
       WriteByte
  <2>3. EndsOpen'
    BY <1>6, PipeAssumption DEF PipeIInv, TypeOK, UsersOpen, EndsOpen,
       WriteByte
  <2>4. (GotBounded /\ NoFalseEof)'
    BY <1>6, PipeAssumption DEF PipeIInv, TypeOK, LockHeld, OnlyReadersCopy,
       GotBounded, NoFalseEof, Empty, WriteByte
  <2>5. (WriterWaits /\ ReaderWaits)'
    BY <1>6, PipeAssumption DEF PipeIInv, TypeOK, LockHeld, OnlyReadersCopy,
       UsersOpen, EndsOpen, WriterWaits, ReaderWaits, Full, Empty, WriteByte
  <2> QED
    BY <2>1, <2>2, <2>3, <2>4, <2>5 DEF PipeIInv
<1>7. ASSUME NEW w \in Writers, WriteBadAddress(w) PROVE PipeIInv'
  <2>1. TypeOK'
    BY <1>7, PipeAssumption DEF PipeIInv, TypeOK, WriteBadAddress
  <2>2. (LockHeld /\ OnlyReadersCopy /\ UsersOpen)'
    BY <1>7, PipeAssumption DEF PipeIInv, TypeOK, LockHeld, OnlyReadersCopy, UsersOpen,
       WriteBadAddress
  <2>3. EndsOpen'
    BY <1>7, PipeAssumption DEF PipeIInv, TypeOK, UsersOpen, EndsOpen,
       WriteBadAddress
  <2>4. (GotBounded /\ NoFalseEof)'
    BY <1>7, PipeAssumption DEF PipeIInv, TypeOK, LockHeld, OnlyReadersCopy,
       GotBounded, NoFalseEof, Empty, WriteBadAddress
  <2>5. (WriterWaits /\ ReaderWaits)'
    BY <1>7, PipeAssumption DEF PipeIInv, TypeOK, LockHeld, OnlyReadersCopy,
       UsersOpen, EndsOpen, WriterWaits, ReaderWaits, Full, Empty, WriteBadAddress
  <2> QED
    BY <2>1, <2>2, <2>3, <2>4, <2>5 DEF PipeIInv
<1>8. ASSUME NEW w \in Writers, WriteDone(w) PROVE PipeIInv'
  <2>1. TypeOK'
    BY <1>8, PipeAssumption DEF PipeIInv, TypeOK, WriteDone, WakeAnd
  <2>2. (LockHeld /\ OnlyReadersCopy /\ UsersOpen)'
    BY <1>8, PipeAssumption DEF PipeIInv, TypeOK, LockHeld, OnlyReadersCopy, UsersOpen,
       WriteDone, WakeAnd
  <2>3. EndsOpen'
    BY <1>8, PipeAssumption DEF PipeIInv, TypeOK, UsersOpen, EndsOpen,
       WriteDone, WakeAnd
  <2>4. (GotBounded /\ NoFalseEof)'
    BY <1>8, PipeAssumption DEF PipeIInv, TypeOK, LockHeld, OnlyReadersCopy,
       GotBounded, NoFalseEof, Empty, WriteDone, WakeAnd
  <2>5. (WriterWaits /\ ReaderWaits)'
    BY <1>8, PipeAssumption DEF PipeIInv, TypeOK, LockHeld, OnlyReadersCopy,
       UsersOpen, EndsOpen, WriterWaits, ReaderWaits, Full, Empty, WriteDone, WakeAnd
  <2> QED
    BY <2>1, <2>2, <2>3, <2>4, <2>5 DEF PipeIInv
<1>9. ASSUME NEW r \in Readers, ReadWait(r) PROVE PipeIInv'
  <2>1. TypeOK'
    <3>1. n' \in [Users -> 0..MaxN]
      BY <1>9, PipeAssumption DEF PipeIInv, TypeOK, ReadWait
    <3>2. pc' \in [Users -> {"idle", "acquire", "loop", "copy", "asleep"}]
      BY <1>9 DEF PipeIInv, TypeOK, ReadWait, Goto
    <3> QED
      BY <1>9, <3>1, <3>2 DEF PipeIInv, TypeOK, ReadWait
  <2>2. (LockHeld /\ OnlyReadersCopy /\ UsersOpen)'
    BY ZenonT(30), <1>9, PipeAssumption DEF PipeIInv, TypeOK, LockHeld, OnlyReadersCopy, UsersOpen,
       ReadWait, Goto
  <2>3. EndsOpen'
    BY <1>9, PipeAssumption DEF PipeIInv, TypeOK, UsersOpen, EndsOpen,
       ReadWait, Goto
  <2>4. (GotBounded /\ NoFalseEof)'
    <3>1. CASE killed[r]
      BY SMTT(30), <1>9, <3>1, PipeAssumption DEF PipeIInv, TypeOK, LockHeld, GotBounded,
         NoFalseEof, Empty, ReadWait, Goto
    <3>2. CASE ~ killed[r]
      BY <1>9, <3>2, PipeAssumption DEF PipeIInv, TypeOK, LockHeld, GotBounded,
         NoFalseEof, Empty, ReadWait, Goto
    <3> QED
      BY <3>1, <3>2
  <2>5. (WriterWaits /\ ReaderWaits)'
    BY <1>9, PipeAssumption DEF PipeIInv, TypeOK, LockHeld, OnlyReadersCopy,
       UsersOpen, EndsOpen, WriterWaits, ReaderWaits, Full, Empty, ReadWait, Goto
  <2> QED
    BY <2>1, <2>2, <2>3, <2>4, <2>5 DEF PipeIInv
<1>10. ASSUME NEW r \in Readers, ReadStart(r) PROVE PipeIInv'
  <2>1. TypeOK'
    BY <1>10, PipeAssumption DEF PipeIInv, TypeOK, ReadStart, Goto
  <2>2. (LockHeld /\ OnlyReadersCopy /\ UsersOpen)'
    BY <1>10, PipeAssumption DEF PipeIInv, TypeOK, LockHeld, OnlyReadersCopy, UsersOpen,
       ReadStart, Goto
  <2>3. EndsOpen'
    BY <1>10, PipeAssumption DEF PipeIInv, TypeOK, UsersOpen, EndsOpen,
       ReadStart, Goto
  <2>4. (GotBounded /\ NoFalseEof)'
    BY <1>10, PipeAssumption DEF PipeIInv, TypeOK, LockHeld, OnlyReadersCopy,
       GotBounded, NoFalseEof, Empty, ReadStart, Goto
  <2>5. (WriterWaits /\ ReaderWaits)'
    BY <1>10, PipeAssumption DEF PipeIInv, TypeOK, LockHeld, OnlyReadersCopy,
       UsersOpen, EndsOpen, WriterWaits, ReaderWaits, Full, Empty, ReadStart, Goto
  <2> QED
    BY <2>1, <2>2, <2>3, <2>4, <2>5 DEF PipeIInv
<1>11. ASSUME NEW r \in Readers, ReadByte(r) PROVE PipeIInv'
  <2>1. TypeOK'
    <3>1. /\ nread' \in 0..(WRAP - 1)
          /\ Count(nread', nwrite') <= PIPESIZE
      <4>1. /\ nread \in 0..(WRAP - 1) /\ nwrite \in 0..(WRAP - 1)
            /\ Count(nread, nwrite) <= PIPESIZE
        BY DEF PipeIInv, TypeOK, Count
      <4>2. /\ nread' \in 0..(WRAP - 1) /\ nwrite' = nwrite
            /\ Count(nread', nwrite) = Count(nread, nwrite) - 1
        BY <1>11, <4>1, CountGet DEF ReadByte, Empty
      <4>3. Count(nread, nwrite) \in Nat
        BY <4>1, FullAndEmpty, Widths
      <4> QED
        BY <4>1, <4>2, <4>3, Widths
    <3>2. n' \in [Users -> 0..MaxN] /\ got' \in [Users -> 0..MaxN]
      BY <1>11, PipeAssumption DEF PipeIInv, TypeOK, GotBounded, ReadByte
    <3> QED
      BY <1>11, <3>1, <3>2 DEF PipeIInv, TypeOK, Count, ReadByte
  <2>2. (LockHeld /\ OnlyReadersCopy /\ UsersOpen)'
    BY <1>11, PipeAssumption DEF PipeIInv, TypeOK, LockHeld, OnlyReadersCopy, UsersOpen,
       ReadByte
  <2>3. EndsOpen'
    BY <1>11, PipeAssumption DEF PipeIInv, TypeOK, UsersOpen, EndsOpen,
       ReadByte
  <2>4. (GotBounded /\ NoFalseEof)'
    BY <1>11, PipeAssumption DEF PipeIInv, TypeOK, LockHeld, OnlyReadersCopy,
       GotBounded, NoFalseEof, Empty, ReadByte
  <2>5. (WriterWaits /\ ReaderWaits)'
    BY <1>11, PipeAssumption DEF PipeIInv, TypeOK, LockHeld, OnlyReadersCopy,
       UsersOpen, EndsOpen, WriterWaits, ReaderWaits, Full, Empty, ReadByte
  <2> QED
    BY <2>1, <2>2, <2>3, <2>4, <2>5 DEF PipeIInv
<1>12. ASSUME NEW r \in Readers, ReadBadAddress(r) PROVE PipeIInv'
  <2>1. TypeOK'
    <3>1. /\ nread' \in 0..(WRAP - 1)
          /\ Count(nread', nwrite') <= PIPESIZE
      <4>1. /\ nread \in 0..(WRAP - 1) /\ nwrite \in 0..(WRAP - 1)
            /\ Count(nread, nwrite) <= PIPESIZE
        BY DEF PipeIInv, TypeOK, Count
      <4>2. /\ nread' \in 0..(WRAP - 1) /\ nwrite' = nwrite
            /\ Count(nread', nwrite) = Count(nread, nwrite) - 1
        BY <1>12, <4>1, CountGet DEF ReadBadAddress, Empty
      <4>3. Count(nread, nwrite) \in Nat
        BY <4>1, FullAndEmpty, Widths
      <4> QED
        BY <4>1, <4>2, <4>3, Widths
    <3>2. n' \in [Users -> 0..MaxN]
      BY <1>12, PipeAssumption DEF PipeIInv, TypeOK, ReadBadAddress
    <3> QED
      BY <1>12, <3>1, <3>2 DEF PipeIInv, TypeOK, Count, ReadBadAddress
  <2>2. (LockHeld /\ OnlyReadersCopy /\ UsersOpen)'
    BY <1>12, PipeAssumption DEF PipeIInv, TypeOK, LockHeld, OnlyReadersCopy, UsersOpen,
       ReadBadAddress
  <2>3. EndsOpen'
    BY <1>12, PipeAssumption DEF PipeIInv, TypeOK, UsersOpen, EndsOpen,
       ReadBadAddress
  <2>4. (GotBounded /\ NoFalseEof)'
    BY <1>12, PipeAssumption DEF PipeIInv, TypeOK, LockHeld, OnlyReadersCopy,
       GotBounded, NoFalseEof, Empty, ReadBadAddress
  <2>5. (WriterWaits /\ ReaderWaits)'
    BY <1>12, PipeAssumption DEF PipeIInv, TypeOK, LockHeld, OnlyReadersCopy,
       UsersOpen, EndsOpen, WriterWaits, ReaderWaits, Full, Empty, ReadBadAddress
  <2> QED
    BY <2>1, <2>2, <2>3, <2>4, <2>5 DEF PipeIInv
<1>13. ASSUME NEW r \in Readers, ReadDone(r) PROVE PipeIInv'
  <2>1. TypeOK'
    BY <1>13, PipeAssumption DEF PipeIInv, TypeOK, ReadDone, WakeAnd
  <2>2. (LockHeld /\ OnlyReadersCopy /\ UsersOpen)'
    BY <1>13, PipeAssumption DEF PipeIInv, TypeOK, LockHeld, OnlyReadersCopy, UsersOpen,
       ReadDone, WakeAnd
  <2>3. EndsOpen'
    BY <1>13, PipeAssumption DEF PipeIInv, TypeOK, UsersOpen, EndsOpen,
       ReadDone, WakeAnd
  <2>4. (GotBounded /\ NoFalseEof)'
    BY <1>13, PipeAssumption DEF PipeIInv, TypeOK, LockHeld, OnlyReadersCopy,
       GotBounded, NoFalseEof, Empty, ReadDone, WakeAnd
  <2>5. (WriterWaits /\ ReaderWaits)'
    BY <1>13, PipeAssumption DEF PipeIInv, TypeOK, LockHeld, OnlyReadersCopy,
       UsersOpen, EndsOpen, WriterWaits, ReaderWaits, Full, Empty, ReadDone, WakeAnd
  <2> QED
    BY <2>1, <2>2, <2>3, <2>4, <2>5 DEF PipeIInv
<1>14. ASSUME Pipealloc PROVE PipeIInv'
  <2>1. TypeOK'
    <3>1. 0 \in 0..(WRAP - 1) /\ Count(0, 0) = 0
      BY FullAndEmpty, Widths
    <3>2. Count(nread', nwrite') <= PIPESIZE /\ nread' \in 0..(WRAP - 1) /\ nwrite' \in 0..(WRAP - 1)
      BY <1>14, <3>1, Widths DEF Pipealloc
    <3>3. open' \in [Users -> BOOLEAN] /\ killed' \in [Users -> BOOLEAN]
      BY <1>14 DEF Pipealloc
    <3> QED
      BY <1>14, <3>2, <3>3 DEF PipeIInv, TypeOK, Pipealloc, Count
  <2>2. (LockHeld /\ OnlyReadersCopy /\ UsersOpen)'
    BY <1>14, PipeAssumption DEF PipeIInv, TypeOK, LockHeld, OnlyReadersCopy, UsersOpen,
       Pipealloc
  <2>3. EndsOpen'
    BY <1>14, PipeAssumption DEF PipeIInv, TypeOK, UsersOpen, EndsOpen,
       Pipealloc
  <2>4. (GotBounded /\ NoFalseEof)'
    BY <1>14, PipeAssumption DEF PipeIInv, TypeOK, LockHeld, OnlyReadersCopy,
       GotBounded, NoFalseEof, Empty, Pipealloc
  <2>5. (WriterWaits /\ ReaderWaits)'
    BY <1>14, PipeAssumption DEF PipeIInv, TypeOK, LockHeld, OnlyReadersCopy,
       UsersOpen, EndsOpen, WriterWaits, ReaderWaits, Full, Empty, Pipealloc
  <2> QED
    BY <2>1, <2>2, <2>3, <2>4, <2>5 DEF PipeIInv
<1>15. ASSUME NEW p \in Users, Kill(p) PROVE PipeIInv'
  <2>1. TypeOK'
    BY <1>15, PipeAssumption DEF PipeIInv, TypeOK, Kill
  <2>2. (LockHeld /\ OnlyReadersCopy /\ UsersOpen)'
    BY <1>15, PipeAssumption DEF PipeIInv, TypeOK, LockHeld, OnlyReadersCopy, UsersOpen,
       Kill
  <2>3. EndsOpen'
    BY <1>15, PipeAssumption DEF PipeIInv, TypeOK, UsersOpen, EndsOpen,
       Kill
  <2>4. (GotBounded /\ NoFalseEof)'
    BY <1>15, PipeAssumption DEF PipeIInv, TypeOK, LockHeld, OnlyReadersCopy,
       GotBounded, NoFalseEof, Empty, Kill
  <2>5. (WriterWaits /\ ReaderWaits)'
    BY <1>15, PipeAssumption DEF PipeIInv, TypeOK, LockHeld, OnlyReadersCopy,
       UsersOpen, EndsOpen, WriterWaits, ReaderWaits, Full, Empty, Kill
  <2> QED
    BY <2>1, <2>2, <2>3, <2>4, <2>5 DEF PipeIInv
<1>16. CASE UNCHANGED vars
  BY <1>16 DEF vars, PipeIInv, TypeOK, LockHeld, OnlyReadersCopy, UsersOpen,
     EndsOpen, GotBounded, NoFalseEof, WriterWaits, ReaderWaits, Full, Empty
<1> QED
  BY <1>1, <1>2, <1>3, <1>4, <1>5, <1>6, <1>7, <1>8, <1>9, <1>10, <1>11,
     <1>12, <1>13, <1>14, <1>15, <1>16 DEF Next, WriteNext, ReadNext

\* pipealloc() establishes it.
LEMMA PipeInit == Init => PipeIInv
<1> SUFFICES ASSUME Init PROVE PipeIInv
  OBVIOUS
<1>1. TypeOK
  <2>1. 0 \in 0..(WRAP - 1) /\ Count(0, 0) = 0
    BY FullAndEmpty, Widths
  <2>2. Count(nread, nwrite) <= PIPESIZE /\ nread \in 0..(WRAP - 1) /\ nwrite \in 0..(WRAP - 1)
    BY <2>1, Widths DEF Init
  <2>3. n \in [Users -> 0..MaxN] /\ got \in [Users -> 0..MaxN]
    BY PipeAssumption DEF Init
  <2> QED
    BY <2>2, <2>3 DEF Init, TypeOK, Count
<1> QED
  BY <1>1, PipeAssumption DEF Init, PipeIInv, LockHeld, OnlyReadersCopy, UsersOpen,
     EndsOpen, GotBounded, NoFalseEof, WriterWaits, ReaderWaits, Users

\* For any ring size and width of the counters, the invariant above holds of
\* pipewrite(), piperead() and pipeclose() whatever their order.
THEOREM PipeInvariant == Spec => []PipeIInv
  BY PipeInit, PipeStep, PTL DEF Spec

\* For any pipe size, any word width that is a multiple of it and any readers
\* and writers: the counters of struct pipe never are more than PIPESIZE apart,
\* pipeclose() frees the page only when nobody is inside piperead() or
\* pipewrite() or can call them, and piperead() never takes an empty pipe for an
\* ended one while a writer is left.
THEOREM PipeSafe == Spec => []PipeInv
<1>1. PipeIInv => PipeInv
  BY DEF PipeIInv, PipeInv, NotFreedInUse, UsersOpen, EndsOpen, Users
<1> QED
  BY <1>1, PipeInvariant, PTL

\* For the same pipes: sleep() on &pi->nwrite misses no wakeup(), whatever is
\* killed and closed; on &pi->nread it misses one only when a writer is killed
\* between its bytes, and until somebody wakes the readers again.
THEOREM PipeSleepers == Spec => []SleepersJustified
<1>1. PipeIInv => SleepersJustified
  BY PipeAssumption DEF PipeIInv, SleepersJustified, WriterSleepJustified,
     ReaderSleepJustified, WriterWaits, ReaderWaits,
     LockHeld, Users
<1> QED
  BY <1>1, PipeInvariant, PTL

-----------------------------------------------------------------------------
(* The implementation of the queue *)

\* The bytes of the queue, with their number by its name.
ContentsBytes ==
  /\ Count(nread, nwrite) \in 0..PIPESIZE
  /\ Contents \in Seq(Bytes) /\ Len(Contents) = Count(nread, nwrite)
  /\ \A k \in 1..Count(nread, nwrite) :
        Contents[k] = data[(nread + k - 1) % PIPESIZE]

\* The queue of a well-typed pipe is a sequence of bytes.
LEMMA ContentsIs == TypeOK => ContentsBytes
<1> SUFFICES ASSUME TypeOK PROVE ContentsBytes
  OBVIOUS
<1>1. Count(nread, nwrite) \in 0..PIPESIZE
  BY FullAndEmpty, Widths DEF TypeOK, Count
<1>2. \A k \in 1..Count(nread, nwrite) : data[(nread + k - 1) % PIPESIZE] \in Bytes
  <2> TAKE k \in 1..Count(nread, nwrite)
  <2>1. nread + k - 1 \in Nat
    BY <1>1, Widths DEF TypeOK
  <2>2. (nread + k - 1) % PIPESIZE \in 0..(PIPESIZE - 1)
    BY <2>1, DivMod, Widths
  <2> QED
    BY <2>2 DEF TypeOK
<1>3. Contents = [k \in 1..Count(nread, nwrite) |-> data[(nread + k - 1) % PIPESIZE]]
  BY DEF Contents, Count
<1>4. Contents \in Seq(Bytes) /\ Len(Contents) = Count(nread, nwrite)
  BY <1>1, <1>2, <1>3
<1> QED
  BY <1>1, <1>3, <1>4 DEF ContentsBytes

\* A byte copied in goes to the end of the queue, in a slot that none of the
\* bytes in the queue is in.
LEMMA ContentsPut ==
  ASSUME PipeIInv, NEW w \in Writers, NEW v \in Bytes, WriteByte(w, v), TypeOK'
  PROVE  Len(Contents) < PIPESIZE /\ Contents' = Append(Contents, v)
<1> DEFINE c == Count(nread, nwrite)
<1>1. /\ nread \in 0..(WRAP - 1) /\ nwrite \in 0..(WRAP - 1) /\ c <= PIPESIZE
      /\ nread' = nread /\ nwrite' = (nwrite + 1) % WRAP /\ ~ Full
      /\ data \in [0..(PIPESIZE - 1) -> Bytes]
      /\ data' = [data EXCEPT ![nwrite % PIPESIZE] = v]
  BY DEF PipeIInv, TypeOK, Count, WriteByte
<1>2. c < PIPESIZE /\ c \in Nat /\ Count(nread', nwrite') = c + 1
  BY <1>1, CountPut, FullAndEmpty DEF Full
<1>3. /\ Contents \in Seq(Bytes) /\ Len(Contents) = c
      /\ \A k \in 1..c : Contents[k] = data[(nread + k - 1) % PIPESIZE]
  BY ContentsIs DEF PipeIInv, ContentsBytes
<1>4. /\ Contents' \in Seq(Bytes) /\ Len(Contents') = c + 1
      /\ \A k \in 1..(c + 1) : Contents'[k] = data'[(nread + k - 1) % PIPESIZE]
  <2>1. ContentsBytes'
    BY ContentsIs, PTL
  <2> QED
    BY <1>1, <1>2, <2>1 DEF ContentsBytes
<1> HIDE DEF c
<1>5. (nread + c) % PIPESIZE = nwrite % PIPESIZE
  <2>1. nwrite = (nread + c) % WRAP
    <3>1. c = IF nwrite >= nread THEN nwrite - nread ELSE nwrite + WRAP - nread
      BY <1>1, CountIs DEF c
    <3>2. c \in 0..WRAP
      BY <1>2, Widths
    <3>3. (nread + c) % WRAP = IF nread + c < WRAP THEN nread + c ELSE nread + c - WRAP
      BY <1>1, <3>2, Incremented
    <3> QED
      BY <1>1, <3>1, <3>3, Widths
  <2>2. nread + c \in 0..(2 * WRAP - 1)
    BY <1>1, <1>2, Widths
  <2> QED
    BY <2>1, <2>2, SlotWraps
<1>6. ASSUME NEW k \in 1..c
      PROVE  Contents'[k] = Contents[k]
  <2>1. /\ nread + k - 1 \in Nat /\ nread + c \in Nat
        /\ nread + k - 1 < nread + c /\ nread + c < (nread + k - 1) + PIPESIZE
    BY <1>1, <1>2, Widths
  <2>2. (nread + k - 1) % PIPESIZE # (nread + c) % PIPESIZE
    BY <2>1, ModApart, Widths
  <2>3. (nread + k - 1) % PIPESIZE \in 0..(PIPESIZE - 1)
    BY <2>1, DivMod, Widths
  <2>4. data'[(nread + k - 1) % PIPESIZE] = data[(nread + k - 1) % PIPESIZE]
    BY <1>1, <1>5, <2>2, <2>3
  <2> QED
    BY <1>2, <1>3, <1>4, <2>4
<1>7. Contents'[c + 1] = v
  <2>1. nread + (c + 1) - 1 = nread + c /\ c + 1 \in 1..(c + 1)
    BY <1>1, <1>2
  <2>2. nwrite % PIPESIZE \in 0..(PIPESIZE - 1)
    BY <1>1, DivMod, Widths
  <2>3. Contents'[c + 1] = data'[(nread + (c + 1) - 1) % PIPESIZE]
    BY <1>4, <2>1
  <2>4. Contents'[c + 1] = data'[nwrite % PIPESIZE]
    BY <1>5, <2>1, <2>3
  <2> QED
    BY <1>1, <2>2, <2>4
<1> QED
  BY <1>2, <1>3, <1>4, <1>6, <1>7

\* A byte copied out, or dropped at a bad user address, is the oldest one.
LEMMA ContentsGet ==
  ASSUME TypeOK, TypeOK', ~ Empty, nread' = (nread + 1) % WRAP,
         UNCHANGED <<data, nwrite>>
  PROVE  Contents # <<>> /\ Contents' = Tail(Contents)
<1> DEFINE c == Count(nread, nwrite)
<1>1. nread \in 0..(WRAP - 1) /\ nwrite \in 0..(WRAP - 1)
  BY DEF TypeOK
<1>2. c \in Nat /\ c # 0 /\ c <= PIPESIZE /\ Count(nread', nwrite') = c - 1
  BY <1>1, CountGet, FullAndEmpty, ContentsIs, Widths DEF Empty, ContentsBytes
<1>3. /\ Contents \in Seq(Bytes) /\ Len(Contents) = c
      /\ \A k \in 1..c : Contents[k] = data[(nread + k - 1) % PIPESIZE]
  BY ContentsIs DEF ContentsBytes
<1>4. /\ Contents' \in Seq(Bytes) /\ Len(Contents') = c - 1
      /\ \A k \in 1..(c - 1) : Contents'[k] = data[(nread' + k - 1) % PIPESIZE]
  <2>1. ContentsBytes'
    BY ContentsIs, PTL
  <2> QED
    BY <1>2, <2>1 DEF ContentsBytes
<1> HIDE DEF c
<1>5. ASSUME NEW k \in 1..(c - 1)
      PROVE  Contents'[k] = Contents[k + 1]
  <2>1. (nread' + k - 1) % PIPESIZE = (nread + k) % PIPESIZE
    <3>1. nread' = IF nread + 1 < WRAP THEN nread + 1 ELSE nread + 1 - WRAP
      <4>1. 1 \in 0..WRAP
        BY Widths
      <4> QED
        BY <1>1, <4>1, Incremented
    <3>2. /\ nread + k \in 0..(2 * WRAP - 1)
          /\ nread' + k - 1 \in 0..(2 * WRAP - 1)
      BY <1>1, <1>2, <3>1, Widths
    <3>3. CASE nread' = nread + 1
      <4>1. nread' + k - 1 = nread + k
        BY <1>1, <3>3
      <4> QED
        BY <4>1
    <3>4. CASE nread' = nread + 1 - WRAP
      <4>1. k \in 0..WRAP /\ nread' = 0 /\ nread = WRAP - 1 /\ k - 1 \in 0..(WRAP - 1)
        BY <1>1, <1>2, <3>1, <3>4, Widths
      <4>2. (nread + k) % WRAP = k - 1
        <5>1. (nread + k) % WRAP = IF nread + k < WRAP THEN nread + k ELSE nread + k - WRAP
          BY <1>1, <4>1, Incremented
        <5> QED
          BY <4>1, <5>1, Widths
      <4>3. ((nread + k) % WRAP) % PIPESIZE = (nread + k) % PIPESIZE
        BY <3>2, SlotWraps
      <4>4. nread' + k - 1 = k - 1
        BY <4>1
      <4> QED
        BY <4>2, <4>3, <4>4
    <3> QED
      BY <3>1, <3>3, <3>4
  <2>2. k + 1 \in 1..c /\ nread + (k + 1) - 1 = nread + k
    BY <1>1, <1>2
  <2>3. Contents[k + 1] = data[(nread + (k + 1) - 1) % PIPESIZE]
    BY <1>3, <2>2
  <2> QED
    BY <1>4, <2>1, <2>2, <2>3
<1>6. Contents # <<>>
  BY <1>2, <1>3
<1>7. Tail(Contents) \in Seq(Bytes) /\ Len(Tail(Contents)) = c - 1
  BY <1>2, <1>3, <1>6
<1>8. \A k \in 1..(c - 1) : Tail(Contents)[k] = Contents[k + 1]
  BY <1>2, <1>3, <1>6
<1> QED
  BY <1>2, <1>4, <1>5, <1>6, <1>7, <1>8

\* A step that touches neither data[] nor the counters leaves the queue alone.
LEMMA ContentsSame ==
  ASSUME UNCHANGED <<data, nread, nwrite>>
  PROVE  Contents' = Contents
  BY DEF Contents

\* Every step of pipe.c is a step of the queue or leaves it as it is.
LEMMA FifoStep == PipeIInv /\ PipeIInv' /\ [Next]_vars => [Queue!Next]_(Queue!fvars)
<1> SUFFICES ASSUME PipeIInv, PipeIInv', [Next]_vars
             PROVE  Queue!Next \/ UNCHANGED Queue!fvars
  OBVIOUS
<1> USE DEF pipe, Queue!fvars
<1>1. ASSUME NEW p \in Users, Acquire(p) \/ Kill(p) \/ \E k \in 1..MaxN : Call(p, k)
      PROVE  UNCHANGED Queue!fvars
  BY <1>1, ContentsSame DEF Acquire, Kill, Call
<1>2. ASSUME NEW p \in Users, Pipeclose(p)
      PROVE  Queue!Next \/ UNCHANGED Queue!fvars
  <2>1. Contents' = Contents
    BY <1>2, ContentsSame DEF Pipeclose
  <2>2. p \in Writers => writeopen = TRUE
    BY <1>2 DEF Pipeclose, PipeIInv, TypeOK, EndsOpen
  <2>3. p \in Readers => readopen = TRUE
    BY <1>2 DEF Pipeclose, PipeIInv, TypeOK, EndsOpen
  <2> QED
    BY <1>2, <2>1, <2>2, <2>3 DEF Pipeclose, Queue!Next, Queue!CloseRead, Queue!CloseWrite
<1>3. ASSUME NEW w \in Writers, NEW v \in Bytes, WriteByte(w, v)
      PROVE  Queue!Put(v)
  <2>1. Len(Contents) < PIPESIZE /\ Contents' = Append(Contents, v)
    BY <1>3, ContentsPut DEF PipeIInv
  <2>2. writeopen /\ readopen /\ UNCHANGED <<readopen, writeopen>>
    BY <1>3 DEF WriteByte, PipeIInv, UsersOpen, EndsOpen, Users
  <2> QED
    BY <2>1, <2>2 DEF Queue!Put
<1>4. ASSUME NEW w \in Writers,
             WriteAbort(w) \/ WriteFull(w) \/ WriteBadAddress(w) \/ WriteDone(w)
      PROVE  UNCHANGED Queue!fvars
  BY <1>4, ContentsSame DEF WriteAbort, WriteFull, WriteBadAddress, WriteDone
<1>5. ASSUME NEW r \in Readers, ReadByte(r) \/ ReadBadAddress(r)
      PROVE  Queue!Get
  <2>1. Contents # <<>> /\ Contents' = Tail(Contents)
    BY <1>5, ContentsGet DEF ReadByte, ReadBadAddress, PipeIInv
  <2>2. readopen /\ UNCHANGED <<readopen, writeopen>>
    BY <1>5 DEF ReadByte, ReadBadAddress, PipeIInv, UsersOpen, EndsOpen, Users
  <2> QED
    BY <2>1, <2>2 DEF Queue!Get
<1>6. ASSUME NEW r \in Readers, ReadWait(r) \/ ReadStart(r) \/ ReadDone(r)
      PROVE  UNCHANGED Queue!fvars
  BY <1>6, ContentsSame DEF ReadWait, ReadStart, ReadDone
<1>7. ASSUME Pipealloc
      PROVE  Queue!Renew
  <2>1. ContentsBytes'
    BY ContentsIs, PTL DEF PipeIInv
  <2>2. Count(nread', nwrite') = 0
    BY <1>7, FullAndEmpty, Widths DEF Pipealloc
  <2>3. Contents' = <<>>
    BY <2>1, <2>2 DEF ContentsBytes
  <2> QED
    BY <1>7, <2>3 DEF Pipealloc, PipeIInv, EndsOpen, Queue!Renew
<1>8. CASE UNCHANGED vars
  BY <1>8, ContentsSame DEF vars
<1> QED
  BY <1>1, <1>2, <1>3, <1>4, <1>5, <1>6, <1>7, <1>8
     DEF Next, WriteNext, ReadNext, Queue!Next

\* A pipe implements the bounded queue: whatever the interleaving of readers,
\* writers, closes and kills, and however often the counters of struct pipe
\* wrap around, the bytes come out of piperead() in the order in which
\* pipewrite() put them in, none lost, none twice and none overwritten, and
\* they go in only while both ends are open.
THEOREM PipeFifo == Spec => FifoSpec
<1>1. Init => Queue!Init
  <2> SUFFICES ASSUME Init PROVE Queue!Init
    OBVIOUS
  <2>1. ContentsBytes
    BY PipeInit, ContentsIs DEF PipeIInv
  <2>2. Count(nread, nwrite) = 0
    BY FullAndEmpty, Widths DEF Init
  <2>3. Contents = <<>>
    BY <2>1, <2>2 DEF ContentsBytes
  <2> QED
    BY <2>3 DEF Init, Queue!Init
<1> QED
  BY <1>1, PipeInvariant, FifoStep, PTL DEF Spec, FifoSpec, Queue!Spec

-----------------------------------------------------------------------------
(* Part 2: the console and the serial port *)

(***************************************************************************)
(* The inductive invariant of Console.                                     *)
(***************************************************************************)
Actors == Procs \cup {Intr} \cup Printers

\* Where a process, the handler and a caller of printf() can be.
ProcPcs == {"user", "rd", "rd_loop", "rd_sleep", "rd_asleep", "wr", "put", "start", "thr",
            "wr_asleep"}
IntrPcs == {"off", "rx", "echo", "echo_thr", "tx", "start", "thr", "complete"}
PrintPcs == {"off", "print", "print_thr"}

\* The records have their fields, the UART's registers are queues, and every
\* actor is somewhere in its own code.
Shapes ==
  /\ cons = [buf |-> cons.buf, r |-> cons.r, w |-> cons.w, e |-> cons.e]
  /\ tx = [buf |-> tx.buf, r |-> tx.r, w |-> tx.w]
  /\ dev = [rx |-> dev.rx, fifo |-> dev.fifo]
  /\ dev.rx \in Seq(Keys) /\ dev.fifo \in Seq(Range(dev.fifo))
Places ==
  /\ at \in [Actors -> ProcPcs \cup IntrPcs \cup PrintPcs]
  /\ at[Intr] \in IntrPcs /\ \A p \in Procs : at[p] \in ProcPcs
  /\ \A k \in Printers : at[k] \in PrintPcs
  /\ conslock \in Actors \cup {Nobody} /\ txlock \in Actors \cup {Nobody}

\* cons.lock is held from uartgetc() to the end of consoleintr(), and by a reader
\* inside its loop; uart_tx_lock through uartstart().
ConsLocked == \A a \in Actors :
  conslock = a <=> at[a] \in {"echo", "echo_thr", "rd_loop", "rd_sleep"}
TxLocked == \A a \in Actors : txlock = a <=> at[a] \in {"start", "thr"}

\* pr.lock is held in printf(), by the handler too while it prints for ^P.
PrLocked ==
  /\ \A k \in Printers : prlock = k <=> at[k] \in {"print", "print_thr"}
  /\ at[Intr] = "echo_thr" /\ InPrintf => prlock = Intr

Locks == Places /\ ConsLocked /\ TxLocked /\ PrLocked

\* A reader is about to sleep because there is no finished line.
AboutToSleep == \A p \in Procs : at[p] = "rd_sleep" => cons.r = cons.w

\* Who has seen LSR_TX_IDLE and not written THR yet: somebody in uartstart(), the
\* handler that echoes, somebody in printf(); together they find room for all.
Sending == \E a \in Actors : at[a] = "thr"
Echoing == at[Intr] = "echo_thr"
Printing == \E k \in Printers : at[k] = "print_thr"
FifoRoom ==
  /\ Len(dev.fifo) <= 3
  /\ Sending \/ Echoing \/ Printing => Len(dev.fifo) <= 2
  /\ (Sending /\ Echoing) \/ (Sending /\ Printing) \/ (Echoing /\ Printing) => Len(dev.fifo) <= 1
  /\ Sending /\ Echoing /\ Printing => Len(dev.fifo) = 0

ConsoleIInv ==
  /\ Shapes /\ Locks /\ AboutToSleep /\ FifoRoom
  /\ SleepJustified

-----------------------------------------------------------------------------
(* Queues, and the steps with many outcomes *)

\* A queue of anything is one of the things in it.
LEMMA OwnRange ==
  ASSUME NEW S, NEW s \in Seq(S)
  PROVE  s \in Seq(Range(s))
<1>1. s \in [1..Len(s) -> Range(s)] /\ Len(s) \in Nat
  BY DEF Range
<1> QED
  BY <1>1, SeqDef

\* WriteReg(THR, c) adds one character to the FIFO.
LEMMA Grows ==
  ASSUME NEW s, s \in Seq(Range(s)), NEW c
  PROVE  /\ Append(s, c) \in Seq(Range(Append(s, c)))
         /\ Append(s, c) # <<>> /\ Len(Append(s, c)) = Len(s) + 1 /\ Len(s) \in Nat
<1> DEFINE S == Range(s) \cup {c}
<1>1. s \in Seq(S) /\ Len(s) \in Nat
  <2>1. s \in [1..Len(s) -> S] /\ Len(s) \in Nat
    BY DEF Range
  <2> QED
    BY <2>1, SeqDef
<1>2. c \in S
  OBVIOUS
<1> HIDE DEF S
<1>3. Append(s, c) \in Seq(S) /\ Len(Append(s, c)) = Len(s) + 1 /\ Append(s, c) # <<>>
  BY <1>1, <1>2
<1> QED
  BY <1>1, <1>3, OwnRange

\* The UART sends one character.
LEMMA Shrinks ==
  ASSUME NEW s, s \in Seq(Range(s)), s # <<>>
  PROVE  /\ Tail(s) \in Seq(Range(Tail(s)))
         /\ Len(Tail(s)) = Len(s) - 1 /\ Len(s) \in Nat /\ Len(s) # 0
         /\ Tail(s) = <<>> => Len(s) = 1
<1>1. Tail(s) \in Seq(Range(s)) /\ Len(Tail(s)) = Len(s) - 1 /\ Len(s) \in Nat /\ Len(s) # 0
  OBVIOUS
<1>2. Tail(s) = <<>> => Len(s) = 1
  BY <1>1
<1> QED
  BY <1>1, <1>2, OwnRange

\* kill() makes a sleeping process runnable, and leaves the others where they are.
LEMMA KillIs ==
  ASSUME NEW p \in Procs, ConsoleKill(p)
  PROVE  /\ at' = [at EXCEPT ![p] = IF @ = "rd_asleep" THEN "rd"
                                    ELSE IF @ = "wr_asleep" THEN "put" ELSE @]
         /\ UNCHANGED <<cons, conslock, tx, txlock, dev, pending, prlock, echo>>
<1>1. CASE at[p] = "rd_asleep"
  BY <1>1 DEF ConsoleKill, printVars
<1>2. CASE at[p] = "wr_asleep"
  BY <1>2 DEF ConsoleKill, printVars
<1>3. CASE at[p] # "rd_asleep" /\ at[p] # "wr_asleep"
  BY <1>3 DEF ConsoleKill, printVars
<1> QED
  BY <1>1, <1>2, <1>3

\* A key that consoleintr() handles either leaves r and w alone, or finishes a
\* line and wakes the readers.
LEMMA ConsoleintrIs ==
  ASSUME Shapes, Places, Consoleintr
  PROVE  /\ at[Intr] = "echo" /\ conslock' = Nobody
         /\ cons' = [buf |-> cons'.buf, r |-> cons'.r, w |-> cons'.w, e |-> cons'.e]
         /\ cons'.r = cons.r
         /\ \/ cons'.w = cons.w /\ at' = [at EXCEPT ![Intr] = "rx"]
            \/ at' = [Wakeup(at, "rd_asleep", "rd") EXCEPT ![Intr] = "rx"]
         /\ UNCHANGED <<tx, txlock, dev, pending, prlock, echo>>
<1> USE DEF Shapes, Jump
<1>0. at[Intr] = "echo" /\ conslock' = Nobody /\ UNCHANGED <<tx, txlock, dev, pending, prlock, echo>>
  BY DEF Consoleintr, printVars
<1>1. CASE cons' = cons /\ Jump(Intr, "rx")
  BY <1>0, <1>1
<1>2. ASSUME NEW k, cons' = Unput(k), Jump(Intr, "rx")
      PROVE  /\ cons' = [buf |-> cons'.buf, r |-> cons'.r, w |-> cons'.w, e |-> cons'.e]
             /\ cons'.r = cons.r /\ cons'.w = cons.w /\ at' = [at EXCEPT ![Intr] = "rx"]
  BY <1>2 DEF Unput
<1>3. ASSUME NEW c, Store(c)
      PROVE  /\ cons' = [buf |-> cons'.buf, r |-> cons'.r, w |-> cons'.w, e |-> cons'.e]
             /\ cons'.r = cons.r
             /\ \/ cons'.w = cons.w /\ at' = [at EXCEPT ![Intr] = "rx"]
                \/ at' = [Wakeup(at, "rd_asleep", "rd") EXCEPT ![Intr] = "rx"]
  <2> DEFINE e == (cons.e + 1) % CMod
  <2>1. CASE Commits(c, e)
    BY <1>3, <2>1 DEF Store
  <2>2. CASE ~ Commits(c, e)
    BY <1>3, <2>2 DEF Store
  <2> QED
    BY <2>1, <2>2
<1>4. \/ cons' = cons /\ Jump(Intr, "rx")
      \/ cons' = Unput(Erased) /\ Jump(Intr, "rx")
      \/ cons' = Unput(IF cons.e # cons.w THEN 1 ELSE 0) /\ Jump(Intr, "rx")
      \/ Store(Stored(ch[Intr]))
  BY DEF Consoleintr
<1> QED
  BY <1>0, <1>1, <1>2, <1>3, <1>4

\* consoleread() takes a character only while there is one, and then returns or
\* stays in its loop with the lock.
LEMMA ReadTakeIs ==
  ASSUME Shapes, NEW p \in Procs, ReadTake(p)
  PROVE  /\ InRead(p) /\ cons.r # cons.w
         /\ cons' = [buf |-> cons'.buf, r |-> cons'.r, w |-> cons'.w, e |-> cons'.e]
         /\ \/ conslock' = Nobody /\ at' = [at EXCEPT ![p] = "user"]
            \/ conslock' = p /\ at' = [at EXCEPT ![p] = "rd_loop"]
         /\ UNCHANGED <<tx, txlock, dev, pending, prlock, echo>>
<1> USE DEF Shapes, Jump, Return
<1> DEFINE took == [cons EXCEPT !.r = (@ + 1) % CMod, !.buf[Slot(cons.r)] = "nul"]
<1>1. cons' = cons \/ cons' = took
  BY DEF ReadTake
<1>2. took = [buf |-> took.buf, r |-> took.r, w |-> took.w, e |-> took.e]
  <2> DEFINE s == Slot(cons.r)
             r1 == (cons.r + 1) % CMod
  <2>1. took = [cons EXCEPT !.r = r1, !.buf = [cons.buf EXCEPT ![s] = "nul"]]
    OBVIOUS
  <2> HIDE DEF s, r1, took
  <2> QED
    BY <2>1
<1> HIDE DEF took
<1>3. cons' = [buf |-> cons'.buf, r |-> cons'.r, w |-> cons'.w, e |-> cons'.e]
  BY <1>1, <1>2
<1>4. \/ conslock' = Nobody /\ at' = [at EXCEPT ![p] = "user"]
      \/ conslock' = p /\ at' = [at EXCEPT ![p] = "rd_loop"]
  BY DEF ReadTake
<1>5. /\ InRead(p) /\ cons.r # cons.w
      /\ UNCHANGED <<tx, txlock, dev, pending, prlock, echo>>
  BY DEF ReadTake, printVars
<1> QED
  BY <1>3, <1>4, <1>5

-----------------------------------------------------------------------------
(* Every step preserves each part of the invariant *)

\* Every step keeps the shape of the rings and of the UART's queues.
LEMMA StepShapes == ConsoleIInv /\ [ConsoleNext]_consoleVars => Shapes'
<1> SUFFICES ASSUME ConsoleIInv, [ConsoleNext]_consoleVars PROVE Shapes'
  OBVIOUS
<1> USE DEF ConsoleIInv, Shapes
<1>1. ASSUME NEW c \in Keys, Type(c) PROVE Shapes'
  BY <1>1 DEF Type
<1>2. CASE Transmit
  BY <1>2, Shrinks DEF Transmit
<1>3. CASE Claim
  BY <1>3 DEF Claim
<1>4. CASE Complete
  BY <1>4 DEF Complete
<1>5. CASE UartintrGetc
  <2>1. dev' = [dev EXCEPT !.rx = Tail(@)] /\ dev.rx # <<>> /\ UNCHANGED <<cons, tx>>
    BY <1>5 DEF UartintrGetc
  <2>2. Tail(dev.rx) \in Seq(Keys)
    BY <2>1
  <2> QED
    BY <2>1, <2>2
<1>6. CASE UartintrNoMore
  BY <1>6 DEF UartintrNoMore
<1>7. CASE UartintrTx
  BY <1>7 DEF UartintrTx
<1>8. CASE SyncWait
  BY <1>8 DEF SyncWait
<1>9. CASE SyncWrite
  BY <1>9, Grows DEF SyncWrite, WriteThr
<1>10. CASE Consoleintr
  BY <1>10, ConsoleintrIs DEF Locks
<1>11. ASSUME NEW p \in Actors, UartstartTurn(p) PROVE Shapes'
  BY <1>11 DEF UartstartTurn, StartWakeup, Wakeup
<1>12. ASSUME NEW p \in Actors, UartstartWrite(p) PROVE Shapes'
  BY <1>12, Grows DEF UartstartWrite, WriteThr
<1>13. ASSUME NEW p \in Procs, Uartputc(p) PROVE Shapes'
  BY <1>13 DEF Uartputc
<1>14. ASSUME NEW p \in Procs, WriteReturn(p) PROVE Shapes'
  BY <1>14 DEF WriteReturn, Return
<1>15. ASSUME NEW p \in Procs, ReadTake(p) PROVE Shapes'
  BY <1>15, ReadTakeIs
<1>16. ASSUME NEW p \in Procs, ReadKilled(p) PROVE Shapes'
  BY <1>16 DEF ReadKilled, Return, InRead
<1>17. ASSUME NEW p \in Procs, ReadSleep(p) PROVE Shapes'
  BY <1>17 DEF ReadSleep, InRead
<1>18. ASSUME NEW p \in Procs, Read(p) PROVE Shapes'
  BY <1>18 DEF Read
<1>19. ASSUME NEW p \in Procs, Write(p) PROVE Shapes'
  BY <1>19 DEF Write
<1>20. ASSUME NEW p \in Procs, ConsoleKill(p) PROVE Shapes'
  BY <1>20, KillIs
<1>22. ASSUME NEW k \in Printers, PrintfStart(k) PROVE Shapes'
  BY <1>22 DEF PrintfStart
<1>23. ASSUME NEW k \in Printers, PrintfWait(k) PROVE Shapes'
  BY <1>23 DEF PrintfWait
<1>24. ASSUME NEW k \in Printers, PrintfWrite(k) PROVE Shapes'
  BY <1>24, Grows DEF PrintfWrite, WriteThr
<1>21. CASE UNCHANGED consoleVars
  BY <1>21 DEF consoleVars, ttyVars, printVars
<1> QED
  BY <1>1, <1>2, <1>3, <1>4, <1>5, <1>6, <1>7, <1>8, <1>9, <1>10, <1>11,
     <1>12, <1>13, <1>14, <1>15, <1>16, <1>17, <1>18, <1>19, <1>20, <1>21,
     <1>22, <1>23, <1>24
     DEF ConsoleNext, Progress, IntrStep, ProcStep, PrintfStep, Actors

\* Every step leaves each actor somewhere in its own code, with the locks that go with it.
LEMMA StepLocks == ConsoleIInv /\ [ConsoleNext]_consoleVars => Locks'
<1> SUFFICES ASSUME ConsoleIInv, [ConsoleNext]_consoleVars PROVE Locks'
  OBVIOUS
<1> USE ConsoleAssumption DEF ConsoleIInv, Locks, Places, ConsLocked, TxLocked,
        PrLocked, InPrintf, Actors, ProcPcs, IntrPcs, PrintPcs, Jump, printVars
<1>1. ASSUME NEW c \in Keys, Type(c) PROVE Locks'
  BY <1>1 DEF Type
<1>2. CASE Transmit
  BY <1>2 DEF Transmit
<1>3. CASE Claim
  BY <1>3 DEF Claim
<1>4. CASE Complete
  BY <1>4 DEF Complete
<1>5. CASE UartintrGetc
  BY <1>5 DEF UartintrGetc
<1>6. CASE UartintrNoMore
  BY <1>6 DEF UartintrNoMore
<1>7. CASE UartintrTx
  BY <1>7 DEF UartintrTx
<1>8. CASE SyncWait
  BY <1>8 DEF SyncWait
<1>9. CASE SyncWrite
  BY <1>9 DEF SyncWrite, WriteThr
<1>10. CASE Consoleintr
  <2>1. /\ at[Intr] = "echo" /\ conslock' = Nobody /\ UNCHANGED <<txlock, prlock, echo>>
        /\ \/ at' = [at EXCEPT ![Intr] = "rx"]
           \/ at' = [Wakeup(at, "rd_asleep", "rd") EXCEPT ![Intr] = "rx"]
    BY <1>10, ConsoleintrIs
  <2>2. CASE at' = [at EXCEPT ![Intr] = "rx"]
    BY <2>1, <2>2
  <2>3. CASE at' = [Wakeup(at, "rd_asleep", "rd") EXCEPT ![Intr] = "rx"]
    <3>1. /\ at' \in [Actors -> ProcPcs \cup IntrPcs \cup PrintPcs] /\ at'[Intr] = "rx"
          /\ \A p \in Procs \cup Printers : at'[p] = IF at[p] = "rd_asleep" THEN "rd" ELSE at[p]
      BY <2>3 DEF Wakeup
    <3> QED
      BY <2>1, <3>1
  <2> QED
    BY <2>1, <2>2, <2>3
<1>11. ASSUME NEW p \in Actors, UartstartTurn(p) PROVE Locks'
  <2>1. /\ at[p] = "start" /\ UNCHANGED <<conslock, prlock, echo>>
        /\ \/ txlock' = Nobody /\ at' = [at EXCEPT ![p] = IF p = Intr THEN "complete" ELSE "wr"]
           \/ txlock' = txlock /\ at' = [StartWakeup(at) EXCEPT ![p] = "thr"]
    BY <1>11 DEF UartstartTurn
  <2>2. CASE txlock' = Nobody /\ at' = [at EXCEPT ![p] = IF p = Intr THEN "complete" ELSE "wr"]
    BY <2>1, <2>2
  <2>3. CASE txlock' = txlock /\ at' = [StartWakeup(at) EXCEPT ![p] = "thr"]
    <3>1. /\ at' \in [Actors -> ProcPcs \cup IntrPcs \cup PrintPcs] /\ at'[p] = "thr"
          /\ \A a \in Actors : a # p => at'[a] = IF at[a] = "wr_asleep" THEN "put" ELSE at[a]
      BY <2>3 DEF StartWakeup, Wakeup
    <3> QED
      BY <2>1, <2>3, <3>1
  <2> QED
    BY <2>1, <2>2, <2>3
<1>12. ASSUME NEW p \in Actors, UartstartWrite(p) PROVE Locks'
  BY <1>12 DEF UartstartWrite, WriteThr
<1>13. ASSUME NEW p \in Procs, Uartputc(p) PROVE Locks'
  BY <1>13 DEF Uartputc
<1>14. ASSUME NEW p \in Procs, WriteReturn(p) PROVE Locks'
  BY <1>14 DEF WriteReturn, Return
<1>15. ASSUME NEW p \in Procs, ReadTake(p) PROVE Locks'
  BY <1>15, ReadTakeIs DEF InRead
<1>16. ASSUME NEW p \in Procs, ReadKilled(p) PROVE Locks'
  BY <1>16 DEF ReadKilled, Return, InRead
<1>17. ASSUME NEW p \in Procs, ReadSleep(p) PROVE Locks'
  BY <1>17 DEF ReadSleep, InRead
<1>18. ASSUME NEW p \in Procs, Read(p) PROVE Locks'
  BY <1>18 DEF Read
<1>19. ASSUME NEW p \in Procs, Write(p) PROVE Locks'
  BY <1>19 DEF Write
<1>20. ASSUME NEW p \in Procs, ConsoleKill(p) PROVE Locks'
  BY <1>20, KillIs
<1>22. ASSUME NEW k \in Printers, PrintfStart(k) PROVE Locks'
  BY <1>22 DEF PrintfStart
<1>23. ASSUME NEW k \in Printers, PrintfWait(k) PROVE Locks'
  BY <1>23 DEF PrintfWait
<1>24. ASSUME NEW k \in Printers, PrintfWrite(k) PROVE Locks'
  BY <1>24 DEF PrintfWrite, WriteThr
<1>21. CASE UNCHANGED consoleVars
  BY <1>21 DEF consoleVars, ttyVars, printVars
<1> QED
  BY <1>1, <1>2, <1>3, <1>4, <1>5, <1>6, <1>7, <1>8, <1>9, <1>10, <1>11,
     <1>12, <1>13, <1>14, <1>15, <1>16, <1>17, <1>18, <1>19, <1>20, <1>21,
     <1>22, <1>23, <1>24
     DEF ConsoleNext, Progress, IntrStep, ProcStep, PrintfStep, Actors

\* cons.lock keeps a finished line away from a reader that is about to sleep.
LEMMA StepAboutToSleep == ConsoleIInv /\ [ConsoleNext]_consoleVars => AboutToSleep'
<1> SUFFICES ASSUME ConsoleIInv, [ConsoleNext]_consoleVars PROVE AboutToSleep'
  OBVIOUS
<1> USE ConsoleAssumption DEF ConsoleIInv, AboutToSleep, Locks, Places, ConsLocked, Actors, Jump
<1>1. ASSUME NEW c \in Keys, Type(c) PROVE AboutToSleep'
  BY <1>1 DEF Type
<1>2. CASE Transmit
  BY <1>2 DEF Transmit
<1>3. CASE Claim
  BY <1>3 DEF Claim
<1>4. CASE Complete
  BY <1>4 DEF Complete
<1>5. CASE UartintrGetc
  BY <1>5 DEF UartintrGetc
<1>6. CASE UartintrNoMore
  BY <1>6 DEF UartintrNoMore
<1>7. CASE UartintrTx
  BY <1>7 DEF UartintrTx
<1>8. CASE SyncWait
  BY <1>8 DEF SyncWait
<1>9. CASE SyncWrite
  BY <1>9 DEF SyncWrite, WriteThr
<1>10. CASE Consoleintr
  <2>1. /\ at[Intr] = "echo" /\ cons'.r = cons.r
        /\ \/ cons'.w = cons.w /\ at' = [at EXCEPT ![Intr] = "rx"]
           \/ at' = [Wakeup(at, "rd_asleep", "rd") EXCEPT ![Intr] = "rx"]
    BY <1>10, ConsoleintrIs
  <2>2. \A p \in Procs : at[p] # "rd_sleep"
    BY <2>1
  <2> QED
    BY <2>1, <2>2 DEF Wakeup
<1>11. ASSUME NEW p \in Actors, UartstartTurn(p) PROVE AboutToSleep'
  BY <1>11 DEF UartstartTurn, StartWakeup, Wakeup
<1>12. ASSUME NEW p \in Actors, UartstartWrite(p) PROVE AboutToSleep'
  BY <1>12 DEF UartstartWrite, WriteThr
<1>13. ASSUME NEW p \in Procs, Uartputc(p) PROVE AboutToSleep'
  BY <1>13 DEF Uartputc
<1>14. ASSUME NEW p \in Procs, WriteReturn(p) PROVE AboutToSleep'
  BY <1>14 DEF WriteReturn, Return
<1>15. ASSUME NEW p \in Procs, ReadTake(p) PROVE AboutToSleep'
  <2>1. /\ InRead(p)
        /\ at' = [at EXCEPT ![p] = "user"] \/ at' = [at EXCEPT ![p] = "rd_loop"]
    BY <1>15, ReadTakeIs
  <2>2. \A q \in Procs \ {p} : at[q] # "rd_sleep"
    BY <2>1 DEF InRead
  <2> QED
    BY <2>1, <2>2
<1>16. ASSUME NEW p \in Procs, ReadKilled(p) PROVE AboutToSleep'
  BY <1>16 DEF ReadKilled, Return, InRead
<1>17. ASSUME NEW p \in Procs, ReadSleep(p) PROVE AboutToSleep'
  BY <1>17 DEF ReadSleep, InRead
<1>18. ASSUME NEW p \in Procs, Read(p) PROVE AboutToSleep'
  BY <1>18 DEF Read
<1>19. ASSUME NEW p \in Procs, Write(p) PROVE AboutToSleep'
  BY <1>19 DEF Write
<1>20. ASSUME NEW p \in Procs, ConsoleKill(p) PROVE AboutToSleep'
  BY <1>20, KillIs
<1>22. ASSUME NEW k \in Printers, PrintfStart(k) PROVE AboutToSleep'
  BY <1>22 DEF PrintfStart
<1>23. ASSUME NEW k \in Printers, PrintfWait(k) PROVE AboutToSleep'
  BY <1>23 DEF PrintfWait
<1>24. ASSUME NEW k \in Printers, PrintfWrite(k) PROVE AboutToSleep'
  BY <1>24 DEF PrintfWrite, WriteThr
<1>21. CASE UNCHANGED consoleVars
  BY <1>21 DEF consoleVars, ttyVars, printVars
<1> QED
  BY <1>1, <1>2, <1>3, <1>4, <1>5, <1>6, <1>7, <1>8, <1>9, <1>10, <1>11,
     <1>12, <1>13, <1>14, <1>15, <1>16, <1>17, <1>18, <1>19, <1>20, <1>21,
     <1>22, <1>23, <1>24
     DEF ConsoleNext, Progress, IntrStep, ProcStep, PrintfStep, Actors

\* Whoever writes THR has found the UART idle, and only two others could have since.
LEMMA StepFifoRoom == ConsoleIInv /\ [ConsoleNext]_consoleVars => FifoRoom'
<1> SUFFICES ASSUME ConsoleIInv, [ConsoleNext]_consoleVars PROVE FifoRoom'
  OBVIOUS
<1> USE ConsoleAssumption DEF ConsoleIInv, FifoRoom, Sending, Echoing, Printing, Locks,
        Places, TxLocked, PrLocked, Actors, Jump
<1>1. ASSUME NEW c \in Keys, Type(c) PROVE FifoRoom'
  BY <1>1 DEF Type, Shapes
<1>2. CASE Transmit
  BY <1>2 DEF Transmit, Shapes
<1>3. CASE Claim
  BY <1>3 DEF Claim, Shapes
<1>4. CASE Complete
  BY <1>4 DEF Complete, Shapes
<1>5. CASE UartintrGetc
  BY <1>5 DEF UartintrGetc, Shapes
<1>6. CASE UartintrNoMore
  BY <1>6 DEF UartintrNoMore, Shapes
<1>7. CASE UartintrTx
  BY <1>7 DEF UartintrTx, Shapes
<1>8. CASE SyncWait
  BY <1>8 DEF SyncWait, Idle
<1>9. CASE SyncWrite
  BY <1>9 DEF SyncWrite, WriteThr, Shapes
<1>10. CASE Consoleintr
  BY <1>10, ConsoleintrIs DEF Wakeup
<1>11. ASSUME NEW p \in Actors, UartstartTurn(p) PROVE FifoRoom'
  <2>1. /\ at[p] = "start" /\ dev' = dev
        /\ \/ at' = [at EXCEPT ![p] = IF p = Intr THEN "complete" ELSE "wr"]
           \/ dev.fifo = <<>> /\ at' = [StartWakeup(at) EXCEPT ![p] = "thr"]
    BY <1>11 DEF UartstartTurn, StartStops, Idle
  <2>2. CASE at' = [at EXCEPT ![p] = IF p = Intr THEN "complete" ELSE "wr"]
    BY <2>1, <2>2
  <2>3. CASE dev.fifo = <<>>
    BY <2>1, <2>3
  <2> QED
    BY <2>1, <2>2, <2>3
<1>12. ASSUME NEW p \in Actors, UartstartWrite(p) PROVE FifoRoom'
  BY <1>12 DEF UartstartWrite, WriteThr, Shapes
<1>13. ASSUME NEW p \in Procs, Uartputc(p) PROVE FifoRoom'
  BY <1>13 DEF Uartputc, Shapes
<1>14. ASSUME NEW p \in Procs, WriteReturn(p) PROVE FifoRoom'
  BY <1>14 DEF WriteReturn, Return, Shapes
<1>15. ASSUME NEW p \in Procs, ReadTake(p) PROVE FifoRoom'
  BY <1>15, ReadTakeIs
<1>16. ASSUME NEW p \in Procs, ReadKilled(p) PROVE FifoRoom'
  BY <1>16 DEF ReadKilled, Return, InRead, Shapes
<1>17. ASSUME NEW p \in Procs, ReadSleep(p) PROVE FifoRoom'
  BY <1>17 DEF ReadSleep, InRead, Shapes
<1>18. ASSUME NEW p \in Procs, Read(p) PROVE FifoRoom'
  BY <1>18 DEF Read, Shapes
<1>19. ASSUME NEW p \in Procs, Write(p) PROVE FifoRoom'
  BY <1>19 DEF Write, Shapes
<1>20. ASSUME NEW p \in Procs, ConsoleKill(p) PROVE FifoRoom'
  BY <1>20, KillIs
<1>22. ASSUME NEW k \in Printers, PrintfStart(k) PROVE FifoRoom'
  BY <1>22 DEF PrintfStart, Shapes
<1>23. ASSUME NEW k \in Printers, PrintfWait(k) PROVE FifoRoom'
  BY <1>23 DEF PrintfWait, Idle, Shapes
<1>24. ASSUME NEW k \in Printers, PrintfWrite(k) PROVE FifoRoom'
  <2>1. /\ at[k] = "print_thr" /\ dev'.fifo = Append(dev.fifo, <<k, "c">>)
        /\ at' = [at EXCEPT ![k] = "print"] \/ at' = [at EXCEPT ![k] = "off"]
    BY <1>24 DEF PrintfWrite, WriteThr, Shapes
  <2>2. Len(dev'.fifo) = Len(dev.fifo) + 1 /\ Len(dev.fifo) \in Nat
    BY <2>1, Grows DEF Shapes
  <2>3. /\ at'[k] # "print_thr" /\ at'[k] # "thr" /\ at[k] # "thr" /\ k # Intr
        /\ \A a \in Actors : a # k => at'[a] = at[a]
    BY <2>1
  <2>4. \A j \in Printers : j # k => at[j] # "print_thr"
    BY <2>1
  <2>5. ~ Printing' /\ Printing /\ (Sending' => Sending) /\ (Echoing' <=> Echoing)
    BY <2>1, <2>3, <2>4
  <2> HIDE DEF Sending, Echoing, Printing
  <2> QED
    BY <2>2, <2>5
<1>21. CASE UNCHANGED consoleVars
  BY <1>21 DEF consoleVars, ttyVars, printVars
<1> QED
  BY <1>1, <1>2, <1>3, <1>4, <1>5, <1>6, <1>7, <1>8, <1>9, <1>10, <1>11,
     <1>12, <1>13, <1>14, <1>15, <1>16, <1>17, <1>18, <1>19, <1>20, <1>21,
     <1>22, <1>23, <1>24
     DEF ConsoleNext, Progress, IntrStep, ProcStep, PrintfStep, Actors

\* Nobody is left asleep, and nothing is left in a ring, when what it waits for comes.
LEMMA StepSleepJustified == ConsoleIInv /\ [ConsoleNext]_consoleVars => SleepJustified'
<1> SUFFICES ASSUME ConsoleIInv, [ConsoleNext]_consoleVars PROVE SleepJustified'
  OBVIOUS
<1> USE ConsoleAssumption DEF ConsoleIInv, SleepJustified, TxFull, Locks, Places, Actors, Jump
<1>1. ASSUME NEW c \in Keys, Type(c) PROVE SleepJustified'
  BY <1>1 DEF Type, Shapes
<1>2. CASE Transmit
  <2>1. /\ dev.fifo # <<>> /\ dev'.rx = dev.rx /\ dev'.fifo = Tail(dev.fifo)
        /\ UNCHANGED <<cons, tx, txlock, at>>
        /\ pending' = (pending \/ Len(dev.fifo) = 1)
    BY <1>2 DEF Transmit, Shapes
  <2>2. Tail(dev.fifo) = <<>> => Len(dev.fifo) = 1
    BY <2>1, Shrinks DEF Shapes
  <2> QED
    BY <2>1, <2>2
<1>3. CASE Claim
  BY <1>3 DEF Claim, Shapes
<1>4. CASE Complete
  BY <1>4 DEF Complete, Shapes
<1>5. CASE UartintrGetc
  BY <1>5 DEF UartintrGetc, Shapes
<1>6. CASE UartintrNoMore
  BY <1>6 DEF UartintrNoMore, Shapes
<1>7. CASE UartintrTx
  BY <1>7 DEF UartintrTx, Shapes
<1>8. CASE SyncWait
  BY <1>8 DEF SyncWait, Shapes
<1>9. CASE SyncWrite
  BY <1>9 DEF SyncWrite, WriteThr, Shapes
<1>10. CASE Consoleintr
  <2>1. /\ at[Intr] = "echo" /\ cons'.r = cons.r
        /\ \/ cons'.w = cons.w /\ at' = [at EXCEPT ![Intr] = "rx"]
           \/ at' = [Wakeup(at, "rd_asleep", "rd") EXCEPT ![Intr] = "rx"]
        /\ UNCHANGED <<tx, txlock, dev, pending>>
    BY <1>10, ConsoleintrIs
  <2>2. CASE cons'.w = cons.w /\ at' = [at EXCEPT ![Intr] = "rx"]
    BY <2>1, <2>2
  <2>3. CASE at' = [Wakeup(at, "rd_asleep", "rd") EXCEPT ![Intr] = "rx"]
    <3>1. /\ at'[Intr] = "rx"
          /\ \A p \in Procs \cup Printers : at'[p] = IF at[p] = "rd_asleep" THEN "rd" ELSE at[p]
      BY <2>3 DEF Wakeup
    <3> QED
      BY <2>1, <3>1
  <2> QED
    BY <2>1, <2>2, <2>3
<1>11. ASSUME NEW p \in Actors, UartstartTurn(p) PROVE SleepJustified'
  <2>1. at[p] = "start" /\ UNCHANGED <<cons, dev, pending>>
    BY <1>11 DEF UartstartTurn
  <2>2. CASE StartStops /\ at' = [at EXCEPT ![p] = IF p = Intr THEN "complete" ELSE "wr"]
                        /\ tx' = tx
    BY <2>1, <2>2 DEF StartStops, Idle
  <2>3. CASE txlock' = txlock /\ at' = [StartWakeup(at) EXCEPT ![p] = "thr"]
    <3>1. /\ at'[p] = "thr" /\ txlock' # Nobody
          /\ \A a \in Actors : a # p => at'[a] = IF at[a] = "wr_asleep" THEN "put" ELSE at[a]
      BY <2>1, <2>3 DEF StartWakeup, Wakeup, TxLocked
    <3> QED
      BY <2>1, <3>1
  <2> QED
    BY <1>11, <2>2, <2>3 DEF UartstartTurn
<1>12. ASSUME NEW p \in Actors, UartstartWrite(p) PROVE SleepJustified'
  <2>1. /\ at[p] = "thr" /\ at' = [at EXCEPT ![p] = "start"]
        /\ dev'.rx = dev.rx /\ UNCHANGED <<cons, tx, txlock, pending>>
    BY <1>12 DEF UartstartWrite, WriteThr, Shapes
  <2>2. txlock # Nobody
    BY <2>1 DEF TxLocked
  <2> QED
    BY <2>1, <2>2
<1>13. ASSUME NEW p \in Procs, Uartputc(p) PROVE SleepJustified'
  BY <1>13 DEF Uartputc, Shapes
<1>14. ASSUME NEW p \in Procs, WriteReturn(p) PROVE SleepJustified'
  BY <1>14 DEF WriteReturn, Return, Shapes
<1>15. ASSUME NEW p \in Procs, ReadTake(p) PROVE SleepJustified'
  <2>1. /\ InRead(p) /\ cons.r # cons.w
        /\ at' = [at EXCEPT ![p] = "user"] \/ at' = [at EXCEPT ![p] = "rd_loop"]
        /\ UNCHANGED <<tx, txlock, dev, pending>>
    BY <1>15, ReadTakeIs
  <2> QED
    BY <2>1
<1>16. ASSUME NEW p \in Procs, ReadKilled(p) PROVE SleepJustified'
  BY <1>16 DEF ReadKilled, Return, InRead, Shapes
<1>17. ASSUME NEW p \in Procs, ReadSleep(p) PROVE SleepJustified'
  BY <1>17 DEF ReadSleep, InRead, AboutToSleep
<1>18. ASSUME NEW p \in Procs, Read(p) PROVE SleepJustified'
  BY <1>18 DEF Read, Shapes
<1>19. ASSUME NEW p \in Procs, Write(p) PROVE SleepJustified'
  BY <1>19 DEF Write, Shapes
<1>20. ASSUME NEW p \in Procs, ConsoleKill(p) PROVE SleepJustified'
  <2>1. /\ at' = [at EXCEPT ![p] = IF @ = "rd_asleep" THEN "rd"
                                   ELSE IF @ = "wr_asleep" THEN "put" ELSE @]
        /\ UNCHANGED <<cons, tx, txlock, dev, pending>>
    BY <1>20, KillIs
  <2> QED
    BY <2>1
<1>22. ASSUME NEW k \in Printers, PrintfStart(k) PROVE SleepJustified'
  BY <1>22 DEF PrintfStart, Shapes
<1>23. ASSUME NEW k \in Printers, PrintfWait(k) PROVE SleepJustified'
  BY <1>23 DEF PrintfWait, Shapes
<1>24. ASSUME NEW k \in Printers, PrintfWrite(k) PROVE SleepJustified'
  <2>1. /\ dev'.fifo = Append(dev.fifo, <<k, "c">>) /\ dev'.rx = dev.rx
        /\ at' = [at EXCEPT ![k] = "print"] \/ at' = [at EXCEPT ![k] = "off"]
        /\ UNCHANGED <<cons, tx, txlock, pending>>
    BY <1>24 DEF PrintfWrite, WriteThr, Shapes
  <2>2. dev'.fifo # <<>>
    BY <2>1, Grows DEF Shapes
  <2>3. at'[Intr] = at[Intr] /\ \A p \in Procs : at'[p] = at[p]
    BY <2>1
  <2> QED
    BY <2>1, <2>2, <2>3
<1>21. CASE UNCHANGED consoleVars
  BY <1>21 DEF consoleVars, ttyVars, printVars
<1> QED
  BY <1>1, <1>2, <1>3, <1>4, <1>5, <1>6, <1>7, <1>8, <1>9, <1>10, <1>11,
     <1>12, <1>13, <1>14, <1>15, <1>16, <1>17, <1>18, <1>19, <1>20, <1>21,
     <1>22, <1>23, <1>24
     DEF ConsoleNext, Progress, IntrStep, ProcStep, PrintfStep, Actors

\* What consoleinit(), uartinit() and plicinit() set up.
LEMMA InitIInv == ConsoleInit => ConsoleIInv
<1> SUFFICES ASSUME ConsoleInit PROVE ConsoleIInv
  OBVIOUS
<1> USE ConsoleAssumption DEF ConsoleInit
<1>1. Shapes
  BY OwnRange DEF Shapes
<1>2. Locks
  BY DEF Locks, Places, ConsLocked, TxLocked, PrLocked, InPrintf, Actors, ProcPcs, IntrPcs,
        PrintPcs
<1>3. AboutToSleep
  BY DEF AboutToSleep
<1>4. FifoRoom
  BY DEF FifoRoom, Sending, Echoing, Printing, Actors
<1>5. SleepJustified
  BY DEF SleepJustified
<1> QED
  BY <1>1, <1>2, <1>3, <1>4, <1>5 DEF ConsoleIInv

-----------------------------------------------------------------------------
\* With any sizes of the rings, any keys and any number of readers and writers,
\* every step of consoleread(), consolewrite(), the handlers and the UART keeps
\* the invariant.
THEOREM ConsoleInvariant == ConsoleSpec => []ConsoleIInv
<1>1. ConsoleInit => ConsoleIInv
  BY InitIInv
<1>2. ConsoleIInv /\ [ConsoleNext]_consoleVars => ConsoleIInv'
  BY StepShapes, StepLocks, StepAboutToSleep, StepFifoRoom, StepSleepJustified
     DEF ConsoleIInv
<1> QED
  BY <1>1, <1>2, PTL DEF ConsoleSpec

\* uartputc_sync() and uartstart() never give the UART a character it has no room
\* for, as soon as its FIFO holds three: there are three locks under which THR is
\* written, uart_tx_lock, cons.lock and pr.lock, whatever number of harts call
\* printf(), and everybody looks at LSR_TX_IDLE first.
THEOREM ConsoleNoOverrun == ConsoleSpec => []NoOverrun
<1>1. ConsoleIInv => NoOverrun
  BY ConsoleAssumption DEF ConsoleIInv, FifoRoom, NoOverrun, Shapes
<1> QED
  BY <1>1, ConsoleInvariant, PTL

\* A reader is asleep in consoleread() only while there is no finished line, a
\* writer in uartputc() only while the ring is full, and what waits in the receiver
\* or in uart_tx_buf has an interrupt or a holder of uart_tx_lock coming.
THEOREM ConsoleSleepers == ConsoleSpec => []SleepJustified
<1>1. ConsoleIInv => SleepJustified
  BY DEF ConsoleIInv
<1> QED
  BY <1>1, ConsoleInvariant, PTL
=============================================================================
