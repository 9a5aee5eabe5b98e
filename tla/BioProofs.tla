----------------------------- MODULE BioProofs ------------------------------
(***************************************************************************)
(* The safety of the buffer cache (module Bio) for any number of buffers,  *)
(* any disk and any set of processes, each with several buffers at a time. *)
(***************************************************************************)
EXTENDS Bio, FiniteSetTheorems, WellFoundedInduction, TLAPS

(***************************************************************************)
(* The inductive invariant.  That a buffer is not recycled under its users *)
(* rests on an exact count of them; that recycling loses nothing that was  *)
(* logged or written rests on which blocks may differ from the disk, and   *)
(* on who may change them.                                                 *)
(***************************************************************************)

\* The list reaches every buffer.
ListComplete == \A b \in Bufs : \E k \in Bufs : lru[k] = b

\* b->refcnt counts the users of b and the pin of the log.
CountsExact == \A b \in Bufs :
  refcnt[b] = Cardinality(UsersOf(b)) + (IF blockno[b] \in pinned THEN 1 ELSE 0)

\* What the log has pinned is cached, and fits in the log.
PinnedCached ==
  /\ IsFiniteSet(pinned) /\ Cardinality(pinned) <= LOGSIZE
  /\ \A n \in pinned : \E b \in Bufs : blockno[b] = n

\* A use has asked for a block, and holds the lock of its buffer exactly from
\* acquiresleep() to releasesleep().
Asked == \A u \in Uses : pc[u] \in Using => want[u] \in Blocks
LockOfUser == \A b \in Bufs : \A u \in Uses :
  owner[b] = u <=> pc[u] \in Holding /\ buf[u] = b

\* After bread() the buffer is valid, and so is that of a pinned block;
\* install_trans() unpins a pinned block that it has just written.
ReadValid == \A u \in Uses : pc[u] \in {"own", "dirty", "unpin"} => valid[buf[u]]
PinnedValid == \A b \in Bufs : blockno[b] \in pinned => valid[b]
Installed == \A u \in Uses :
  pc[u] = "unpin" => want[u] \in pinned /\ disk[want[u]] = kept[want[u]]

\* Somebody has changed block n and not decided what to do with it.
InHand(n) == \E u \in Uses : pc[u] = "dirty" /\ want[u] = n

\* What was kept of a block is on disk unless the block is pinned, and it is the
\* latest of it unless somebody is changing it or has given the change up.
OnDisk == \A n \in Blocks : n \in pinned \/ disk[n] = kept[n]
Settled == \A n \in Blocks : n \in stray \/ InHand(n) \/ kept[n] = latest[n]

\* A valid buffer holds the latest of its block, or what was kept of it if the
\* latest was given up and lost.
ValidCurrent == \A b \in Bufs : valid[b] =>
  /\ blockno[b] \in Blocks
  /\ \/ data[b] = latest[blockno[b]]
     \/ /\ blockno[b] \in stray /\ blockno[b] \notin pinned /\ ~ InHand(blockno[b])
        /\ data[b] = kept[blockno[b]]

Contents == ReadValid /\ PinnedValid /\ Installed /\ OnDisk /\ Settled /\ ValidCurrent

BioIInv ==
  /\ TypeOK /\ ListComplete /\ OneBuffer /\ BufferStays /\ Asked
  /\ CountsExact /\ PinnedCached
  /\ LockOfUser /\ Contents /\ SleepJustified

-----------------------------------------------------------------------------
(* bget() and the list *)

\* A non-empty set of places in the list has a last one.
LEMMA LastPlace ==
  ASSUME NEW S, S \subseteq Bufs, S # {}
  PROVE  \E k \in S : \A l \in S : l <= k
<1> DEFINE T == {NBUF - k : k \in S}
<1>0. NBUF \in Nat
  BY BioAssumption
<1>1. T \subseteq Nat /\ T # {}
  <2>1. ASSUME NEW k \in S PROVE NBUF - k \in Nat
    BY <1>0 DEF Bufs
  <2>2. T # {}
    OBVIOUS
  <2> QED
    BY <2>1, <2>2
<1>2. PICK x \in T : \A y \in T : ~ (<<y, x>> \in OpToRel(<, Nat))
  BY <1>1, WFMin, NatLessThanWellFounded
<1>3. ASSUME NEW y \in T PROVE x <= y
  <2>1. <<y, x>> \in Nat \X Nat /\ <<y, x>>[1] = y /\ <<y, x>>[2] = x
    BY <1>1
  <2>2. ~ (y < x)
    BY <1>2, <2>1 DEF OpToRel
  <2> QED
    BY <1>1, <2>2
<1>4. PICK k \in S : x = NBUF - k
  OBVIOUS
<1>5. ASSUME NEW l \in S PROVE l <= k
  <2>1. x <= NBUF - l
    BY <1>3
  <2> QED
    BY <1>4, <2>1, BioAssumption DEF Bufs
<1> QED
  BY <1>5

\* The three outcomes of bget(): a cached block, a recycled buffer, a panic.
Hit(u, n, b) ==
  /\ blockno[b] = n
  /\ refcnt' = [refcnt EXCEPT ![b] = @ + 1]
  /\ buf' = [buf EXCEPT ![u] = b] /\ pc' = [pc EXCEPT ![u] = "lock"]
  /\ UNCHANGED <<blockno, valid, panicked>>
Recycle(u, n, b) ==
  /\ refcnt[b] = 0 /\ \A c \in Bufs : blockno[c] # n
  /\ blockno' = [blockno EXCEPT ![b] = n]
  /\ valid' = [valid EXCEPT ![b] = FALSE]
  /\ refcnt' = [refcnt EXCEPT ![b] = 1]
  /\ buf' = [buf EXCEPT ![u] = b] /\ pc' = [pc EXCEPT ![u] = "lock"]
  /\ UNCHANGED panicked
NoBuffer ==
  /\ panicked' = TRUE /\ \A b \in Bufs : refcnt[b] # 0
  /\ UNCHANGED <<blockno, valid, refcnt, buf, pc>>

\* The second loop of bget() finds a buffer without references if there is one.
LEMMA BgetOutcome ==
  ASSUME BioIInv, NEW u \in Uses, NEW n \in Blocks, Bget(u, n)
  PROVE  /\ ~ panicked /\ pc[u] = "idle" /\ want' = [want EXCEPT ![u] = n]
         /\ UNCHANGED <<lru, data, owner, disk, pinned, history>>
         /\ \/ \E b \in Bufs : Hit(u, n, b) \/ Recycle(u, n, b)
            \/ NoBuffer
<1>1. /\ ~ panicked /\ pc[u] = "idle" /\ want' = [want EXCEPT ![u] = n]
      /\ UNCHANGED <<lru, data, owner, disk, pinned, history>>
  BY DEF Bget
<1> DEFINE Hits == {b \in Bufs : blockno[b] = n}
           Free == {k \in Bufs : refcnt[lru[k]] = 0}
           last == CHOOSE k \in Free : \A l \in Free : l <= k
<1>2. CASE \E b \in Hits : /\ refcnt' = [refcnt EXCEPT ![b] = @ + 1]
                           /\ buf' = [buf EXCEPT ![u] = b]
                           /\ Goto(u, "lock")
                           /\ UNCHANGED <<blockno, valid, panicked>>
  BY <1>1, <1>2 DEF Hit, Goto
<1>3. CASE /\ Hits = {} /\ Free # {}
           /\ blockno' = [blockno EXCEPT ![lru[last]] = n]
           /\ valid' = [valid EXCEPT ![lru[last]] = FALSE]
           /\ refcnt' = [refcnt EXCEPT ![lru[last]] = 1]
           /\ buf' = [buf EXCEPT ![u] = lru[last]]
           /\ Goto(u, "lock") /\ UNCHANGED panicked
  <2>1. last \in Free
    <3>1. \E k \in Free : \A l \in Free : l <= k
      BY <1>3, LastPlace
    <3> QED
      BY <3>1
  <2>2. lru[last] \in Bufs /\ refcnt[lru[last]] = 0
    BY <2>1 DEF BioIInv, TypeOK
  <2>3. Recycle(u, n, lru[last])
    BY <1>3, <2>2 DEF Recycle, Goto
  <2> QED
    BY <1>1, <2>2, <2>3
<1>4. CASE Free = {} /\ panicked' = TRUE /\ UNCHANGED <<blockno, valid, refcnt, buf, pc>>
  <2>1. \A b \in Bufs : refcnt[b] # 0
    BY <1>4 DEF BioIInv, ListComplete
  <2> QED
    BY <1>1, <1>4, <2>1 DEF NoBuffer
<1>5. \/ \E b \in Hits : /\ refcnt' = [refcnt EXCEPT ![b] = @ + 1]
                          /\ buf' = [buf EXCEPT ![u] = b]
                          /\ Goto(u, "lock")
                          /\ UNCHANGED <<blockno, valid, panicked>>
      \/ /\ Hits = {} /\ Free # {}
         /\ blockno' = [blockno EXCEPT ![lru[last]] = n]
         /\ valid' = [valid EXCEPT ![lru[last]] = FALSE]
         /\ refcnt' = [refcnt EXCEPT ![lru[last]] = 1]
         /\ buf' = [buf EXCEPT ![u] = lru[last]]
         /\ Goto(u, "lock") /\ UNCHANGED panicked
      \/ Free = {} /\ panicked' = TRUE /\ UNCHANGED <<blockno, valid, refcnt, buf, pc>>
  BY DEF Bget
<1> QED
  BY <1>2, <1>3, <1>4, <1>5

\* brelse() keeps every buffer in the list, once.
LEMMA FrontKeepsList ==
  ASSUME TypeOK, ListComplete, NEW b \in Bufs
  PROVE  /\ ToFront(b) \in [Bufs -> Bufs]
         /\ \A k, l \in Bufs : ToFront(b)[k] = ToFront(b)[l] => k = l
         /\ \A c \in Bufs : \E k \in Bufs : ToFront(b)[k] = c
<1> DEFINE k == CHOOSE l \in Bufs : lru[l] = b
           f == [l \in Bufs |-> IF l = 1 THEN b ELSE IF l <= k THEN lru[l - 1] ELSE lru[l]]
<1>1. k \in Bufs /\ lru[k] = b
  BY DEF ListComplete
<1>2. ToFront(b) = f
  BY DEF ToFront
<1>3. lru \in [Bufs -> Bufs] /\ \A x, y \in Bufs : lru[x] = lru[y] => x = y
  BY DEF TypeOK
<1> HIDE DEF k
<1>4. \A l \in Bufs : l \in Nat /\ l >= 1 /\ (l # 1 => l - 1 \in Bufs)
  BY BioAssumption DEF Bufs
<1>5. \A l \in Bufs : l <= k /\ l # k => l + 1 \in Bufs
  BY <1>1, BioAssumption DEF Bufs
<1>6. 1 \in Bufs
  BY BioAssumption DEF Bufs
<1>7. f \in [Bufs -> Bufs]
  BY <1>3, <1>4
<1>8. ASSUME NEW x \in Bufs, NEW y \in Bufs, f[x] = f[y]
      PROVE  x = y
  <2>1. ASSUME NEW z \in Bufs, z # 1 PROVE f[z] # b
    <3>1. CASE z <= k
      <4>1. z - 1 \in Bufs /\ z - 1 # k
        BY <1>1, <2>1, <3>1, BioAssumption DEF Bufs
      <4> QED
        BY <1>1, <1>3, <2>1, <3>1, <4>1
    <3>2. CASE ~ (z <= k)
      <4>1. z # k
        BY <1>1, <3>2, BioAssumption DEF Bufs
      <4> QED
        BY <1>1, <1>3, <2>1, <3>2, <4>1
    <3> QED
      BY <3>1, <3>2
  <2>2. CASE x = 1 \/ y = 1
    BY <1>8, <2>1, <2>2
  <2>3. CASE x # 1 /\ y # 1
    BY <1>1, <1>3, <1>4, <1>8, <2>3
  <2> QED
    BY <2>2, <2>3
<1>9. ASSUME NEW c \in Bufs
      PROVE  \E l \in Bufs : f[l] = c
  <2>1. PICK m \in Bufs : lru[m] = c
    BY DEF ListComplete
  <2>2. CASE m = k
    BY <1>1, <1>6, <2>1, <2>2
  <2>3. CASE m # k /\ m <= k
    <3>1. m + 1 \in Bufs /\ m + 1 # 1 /\ m + 1 <= k /\ (m + 1) - 1 = m
      BY <1>1, <2>3, BioAssumption DEF Bufs
    <3> QED
      BY <2>1, <3>1
  <2>4. CASE ~ (m <= k)
    BY <1>1, <1>4, <2>1, <2>4
  <2> QED
    BY <2>2, <2>3, <2>4
<1> QED
  BY <1>2, <1>7, <1>8, <1>9

-----------------------------------------------------------------------------
(* Every step preserves the invariant: one lemma for each of its parts *)

\* A process holds finitely many buffers.
LEMMA UsesFinite ==
  /\ IsFiniteSet(Uses) /\ Cardinality(Uses) \in Nat
  /\ Cardinality(Uses) = Cardinality(Procs) * MAXHELD
<1>1. IsFiniteSet(1..MAXHELD) /\ Cardinality(1..MAXHELD) = MAXHELD
  <2>1. 1 \in Int /\ MAXHELD \in Int /\ MAXHELD >= 1
    BY BioAssumption
  <2>2. /\ IsFiniteSet(1..MAXHELD)
        /\ Cardinality(1..MAXHELD) = IF 1 > MAXHELD THEN 0 ELSE MAXHELD - 1 + 1
    BY <2>1, FS_Interval
  <2> QED
    BY <2>1, <2>2
<1>2. /\ IsFiniteSet(Procs \X (1..MAXHELD))
      /\ Cardinality(Procs \X (1..MAXHELD)) = Cardinality(Procs) * MAXHELD
  BY <1>1, BioAssumption, FS_Product
<1> QED
  BY <1>2, FS_CardinalityType DEF Uses

\* The counts are natural numbers, because they count.
LEMMA CountsNat ==
  ASSUME BioIInv, NEW b \in Bufs
  PROVE  /\ IsFiniteSet(UsersOf(b)) /\ Cardinality(UsersOf(b)) \in Nat
         /\ refcnt[b] = 0 => /\ blockno[b] \notin pinned
                             /\ \A u \in Uses : pc[u] \in Using => buf[u] # b
         /\ \A u \in Uses : pc[u] \in Using /\ buf[u] = b => Cardinality(UsersOf(b)) > 0
<1>1. IsFiniteSet(UsersOf(b))
  BY UsesFinite, FS_Subset DEF UsersOf
<1>2. Cardinality(UsersOf(b)) \in Nat
  BY <1>1, FS_CardinalityType
<1>3. Cardinality(UsersOf(b)) = 0 => UsersOf(b) = {}
  BY <1>1, FS_EmptySet
<1>4. refcnt[b] = Cardinality(UsersOf(b)) + (IF blockno[b] \in pinned THEN 1 ELSE 0)
  BY DEF BioIInv, CountsExact
<1>5. UsersOf(b) = {} => \A u \in Uses : pc[u] \in Using => buf[u] # b
  BY DEF UsersOf
<1>6. refcnt[b] = 0 => blockno[b] \notin pinned /\ Cardinality(UsersOf(b)) = 0
  BY <1>2, <1>4
<1> QED
  BY <1>1, <1>2, <1>3, <1>5, <1>6

\* What a process between bget() and brelse() relies on.
LEMMA Inside ==
  ASSUME BioIInv, NEW u \in Uses, pc[u] \in Using
  PROVE  /\ buf[u] \in Bufs /\ want[u] \in Blocks /\ blockno[buf[u]] = want[u]
         /\ refcnt[buf[u]] \in Nat /\ refcnt[buf[u]] - 1 \in Nat
         /\ want[u] \in pinned => refcnt[buf[u]] > 1
<1>1. buf[u] \in Bufs /\ want[u] \in Blocks /\ blockno[buf[u]] = want[u] /\ refcnt[buf[u]] \in Nat
  BY DEF BioIInv, TypeOK, Asked, BufferStays
<1> DEFINE c == Cardinality(UsersOf(buf[u]))
<1>2. c \in Nat /\ c > 0
  BY <1>1, CountsNat
<1>3. refcnt[buf[u]] = c + (IF blockno[buf[u]] \in pinned THEN 1 ELSE 0)
  BY <1>1 DEF BioIInv, CountsExact
<1> HIDE DEF c
<1> QED
  BY <1>1, <1>2, <1>3

\* The list, the counts and the rest of the state keep their types: a count is
\* never taken below zero, and brelse() keeps the list.
LEMMA TypeStep == BioIInv /\ [Next]_vars => TypeOK'
<1> SUFFICES ASSUME BioIInv, [Next]_vars PROVE TypeOK'
  OBVIOUS
<1> USE DEF bufVars, history, Keep, Goto, TypeOK
<1>0. TypeOK
  BY DEF BioIInv
<1>a. {"idle", "lock", "asleep", "fill", "own", "dirty", "unpin", "put"} \subseteq Using \cup {"idle"}
  BY DEF Using
<1>1. ASSUME NEW u \in Uses, NEW n \in Blocks, Bget(u, n) PROVE TypeOK'
  <2>1. CASE NoBuffer
    BY <1>0, <1>a, <1>1, <2>1, BgetOutcome DEF NoBuffer
  <2>2. ASSUME NEW b \in Bufs, Hit(u, n, b) PROVE TypeOK'
    <3>1. refcnt' \in [Bufs -> Nat]
      BY <1>0, <2>2 DEF Hit
    <3> QED
      BY <1>0, <1>a, <1>1, <2>2, <3>1, BgetOutcome DEF Hit
  <2>3. ASSUME NEW b \in Bufs, Recycle(u, n, b) PROVE TypeOK'
    <3>1. refcnt' \in [Bufs -> Nat]
      BY <1>0, <2>3 DEF Recycle
    <3>2. blockno' \in [Bufs -> Blocks \cup {None}] /\ valid' \in [Bufs -> BOOLEAN]
      BY <1>0, <2>3 DEF Recycle
    <3>3. /\ pc' \in [Uses -> Using \cup {"idle"}] /\ buf' \in [Uses -> Bufs]
          /\ want' \in [Uses -> Blocks \cup {None}] /\ panicked' \in BOOLEAN
      <4>1. want' = [want EXCEPT ![u] = n]
        BY <1>1, BgetOutcome
      <4> QED
        BY <1>0, <1>a, <2>3, <4>1 DEF Recycle
    <3>4. UNCHANGED <<lru, data, owner, disk, pinned, history>>
      BY <1>1, BgetOutcome
    <3> QED
      BY <1>0, <3>1, <3>2, <3>3, <3>4
  <2> QED
    BY <1>1, <2>1, <2>2, <2>3, BgetOutcome
<1>2. ASSUME NEW u \in Uses, AcquireSleep(u) PROVE TypeOK'
  <2>0. pc[u] \in Using
    BY <1>2 DEF AcquireSleep, Using
  <2>1. /\ buf[u] \in Bufs /\ want[u] \in Blocks /\ blockno[buf[u]] = want[u]
        /\ refcnt[buf[u]] \in Nat /\ refcnt[buf[u]] - 1 \in Nat
        /\ want[u] \in pinned => refcnt[buf[u]] > 1
    BY <2>0, Inside
  <2>2. owner' \in [Bufs -> Uses \cup {None}]
    BY <1>0, <1>2, <2>1 DEF AcquireSleep
  <2>3. pc' \in [Uses -> Using \cup {"idle"}]
    BY <1>0, <1>a, <1>2 DEF AcquireSleep
  <2>4. UNCHANGED <<lru, blockno, valid, data, refcnt, disk, pinned, want, buf, panicked,
                    latest, kept, stray>>
    BY <1>2 DEF AcquireSleep
  <2> QED
    BY <1>0, <2>2, <2>3, <2>4
<1>3. ASSUME NEW u \in Uses, Bread(u) PROVE TypeOK'
  <2>0. pc[u] \in Using
    BY <1>3 DEF Bread, Using
  <2>1. /\ buf[u] \in Bufs /\ want[u] \in Blocks /\ blockno[buf[u]] = want[u]
        /\ refcnt[buf[u]] \in Nat /\ refcnt[buf[u]] - 1 \in Nat
        /\ want[u] \in pinned => refcnt[buf[u]] > 1
    BY <2>0, Inside
  <2>2. data' \in [Bufs -> Data] /\ valid' \in [Bufs -> BOOLEAN]
    <3>1. CASE valid[buf[u]]
      BY <1>0, <1>3, <3>1 DEF Bread
    <3>2. CASE ~ valid[buf[u]]
      <4>1. disk[blockno[buf[u]]] \in Data
        BY <1>0, <2>1
      <4> QED
        BY <1>0, <1>3, <2>1, <3>2, <4>1 DEF Bread
    <3> QED
      BY <3>1, <3>2
  <2> QED
    BY <1>0, <1>a, <1>3, <2>2 DEF Bread
<1>4. ASSUME NEW u \in Uses, NEW v \in Data, Modify(u, v) PROVE TypeOK'
  <2>0. pc[u] \in Using
    BY <1>4 DEF Modify, Using
  <2>1. /\ buf[u] \in Bufs /\ want[u] \in Blocks /\ blockno[buf[u]] = want[u]
        /\ refcnt[buf[u]] \in Nat /\ refcnt[buf[u]] - 1 \in Nat
        /\ want[u] \in pinned => refcnt[buf[u]] > 1
    BY <2>0, Inside
  <2> QED
    BY <1>0, <1>a, <1>4, <2>1 DEF Modify
<1>5. ASSUME NEW u \in Uses, Bwrite(u) PROVE TypeOK'
  <2>0. pc[u] \in Using
    BY <1>5 DEF Bwrite, Using
  <2>1. /\ buf[u] \in Bufs /\ want[u] \in Blocks /\ blockno[buf[u]] = want[u]
        /\ refcnt[buf[u]] \in Nat /\ refcnt[buf[u]] - 1 \in Nat
        /\ want[u] \in pinned => refcnt[buf[u]] > 1
    BY <2>0, Inside
  <2> QED
    BY <1>0, <1>a, <1>5, <2>1 DEF Bwrite
<1>6. ASSUME NEW u \in Uses, Bpin(u) PROVE TypeOK'
  <2>0. pc[u] \in Using
    BY <1>6 DEF Bpin, Using
  <2>1. /\ buf[u] \in Bufs /\ want[u] \in Blocks /\ blockno[buf[u]] = want[u]
        /\ refcnt[buf[u]] \in Nat /\ refcnt[buf[u]] - 1 \in Nat
        /\ want[u] \in pinned => refcnt[buf[u]] > 1
    BY <2>0, Inside
  <2>2. refcnt' \in [Bufs -> Nat]
    <3>1. CASE want[u] \in pinned
      BY <1>0, <1>6, <2>1, <3>1 DEF Bpin
    <3>2. CASE want[u] \notin pinned
      BY <1>0, <1>6, <2>1, <3>2 DEF Bpin
    <3> QED
      BY <3>1, <3>2
  <2>3. pinned' \in SUBSET Blocks
    BY <1>0, <1>6, <2>1 DEF Bpin
  <2> QED
    BY <1>0, <1>a, <1>6, <2>2, <2>3 DEF Bpin
<1>7. ASSUME NEW u \in Uses, InstallWrite(u) PROVE TypeOK'
  <2>0. pc[u] \in Using
    BY <1>7 DEF InstallWrite, Using
  <2>1. /\ buf[u] \in Bufs /\ want[u] \in Blocks /\ blockno[buf[u]] = want[u]
        /\ refcnt[buf[u]] \in Nat /\ refcnt[buf[u]] - 1 \in Nat
        /\ want[u] \in pinned => refcnt[buf[u]] > 1
    BY <2>0, Inside
  <2> QED
    BY <1>0, <1>a, <1>7, <2>1 DEF InstallWrite
<1>8. ASSUME NEW u \in Uses, Bunpin(u) PROVE TypeOK'
  <2>0. pc[u] \in Using
    BY <1>8 DEF Bunpin, Using
  <2>1. /\ buf[u] \in Bufs /\ want[u] \in Blocks /\ blockno[buf[u]] = want[u]
        /\ refcnt[buf[u]] \in Nat /\ refcnt[buf[u]] - 1 \in Nat
        /\ want[u] \in pinned => refcnt[buf[u]] > 1
    BY <2>0, Inside
  <2>2. refcnt' \in [Bufs -> Nat]
    BY <1>0, <1>8, <2>1 DEF Bunpin
  <2>3. pinned' \in SUBSET Blocks
    BY <1>0, <1>8 DEF Bunpin
  <2> QED
    BY <1>0, <1>a, <1>8, <2>2, <2>3 DEF Bunpin
<1>9. ASSUME NEW u \in Uses, ReleaseSleep(u) PROVE TypeOK'
  <2>0. pc[u] \in Using
    BY <1>9 DEF ReleaseSleep, Using
  <2>1. /\ buf[u] \in Bufs /\ want[u] \in Blocks /\ blockno[buf[u]] = want[u]
        /\ refcnt[buf[u]] \in Nat /\ refcnt[buf[u]] - 1 \in Nat
        /\ want[u] \in pinned => refcnt[buf[u]] > 1
    BY <2>0, Inside
  <2> QED
    BY <1>0, <1>a, <1>9, <2>1 DEF ReleaseSleep
<1>10. ASSUME NEW u \in Uses, BrelsePut(u) PROVE TypeOK'
  <2>0. pc[u] \in Using
    BY <1>10 DEF BrelsePut, Using
  <2>1. /\ buf[u] \in Bufs /\ want[u] \in Blocks /\ blockno[buf[u]] = want[u]
        /\ refcnt[buf[u]] \in Nat /\ refcnt[buf[u]] - 1 \in Nat
        /\ want[u] \in pinned => refcnt[buf[u]] > 1
    BY <2>0, Inside
  <2>2. refcnt' \in [Bufs -> Nat]
    BY <1>0, <1>10, <2>1 DEF BrelsePut
  <2>3. lru' \in [Bufs -> Bufs] /\ \A k, l \in Bufs : lru'[k] = lru'[l] => k = l
    <3>1. CASE refcnt[buf[u]] = 1
      <4>1. lru' = ToFront(buf[u])
        BY <1>10, <3>1 DEF BrelsePut
      <4>2. TypeOK /\ ListComplete
        BY DEF BioIInv
      <4>3. /\ ToFront(buf[u]) \in [Bufs -> Bufs]
            /\ \A k, l \in Bufs : ToFront(buf[u])[k] = ToFront(buf[u])[l] => k = l
        BY <2>1, <4>2, FrontKeepsList
      <4> QED
        BY <4>1, <4>3
    <3>2. CASE refcnt[buf[u]] # 1
      BY <1>0, <1>10, <3>2 DEF BrelsePut
    <3> QED
      BY <3>1, <3>2
  <2>4. 1 \in Bufs
    BY BioAssumption DEF Bufs
  <2> QED
    BY <1>0, <1>a, <1>10, <2>2, <2>3, <2>4 DEF BrelsePut
<1>11. CASE UNCHANGED vars
  BY <1>0, <1>11 DEF vars, bufVars
<1> QED
  BY <1>1, <1>2, <1>3, <1>4, <1>5, <1>6, <1>7, <1>8, <1>9, <1>10, <1>11 DEF Next, Step, Halted

\* A buffer is recycled for a block that is in no buffer, and never under a user.
LEMMA ShapeStep == BioIInv /\ [Next]_vars => (ListComplete /\ OneBuffer /\ BufferStays /\ Asked)'
<1> SUFFICES ASSUME BioIInv, [Next]_vars PROVE (ListComplete /\ OneBuffer /\ BufferStays /\ Asked)'
  OBVIOUS
<1> USE DEF bufVars, history, Keep, Goto, Using, TypeOK, ListComplete, OneBuffer, BufferStays, Asked
<1>0. TypeOK /\ ListComplete /\ OneBuffer /\ BufferStays /\ Asked
  BY DEF BioIInv
<1>1. ASSUME NEW u \in Uses, NEW n \in Blocks, Bget(u, n) PROVE (ListComplete /\ OneBuffer /\ BufferStays /\ Asked)'
  <2>0. /\ pc[u] = "idle" /\ want' = [want EXCEPT ![u] = n]
        /\ UNCHANGED <<lru, data, owner, disk, pinned, history>>
    BY <1>1, BgetOutcome
  <2>1. CASE NoBuffer
    BY <1>0, <2>0, <2>1 DEF NoBuffer
  <2>2. ASSUME NEW b \in Bufs, Hit(u, n, b) PROVE (ListComplete /\ OneBuffer /\ BufferStays /\ Asked)'
    <3>1. ListComplete' /\ OneBuffer'
      BY <1>0, <2>0, <2>2 DEF Hit
    <3>2. BufferStays' /\ Asked'
      BY <1>0, <2>0, <2>2 DEF Hit
    <3> QED
      BY <3>1, <3>2
  <2>3. ASSUME NEW b \in Bufs, Recycle(u, n, b) PROVE (ListComplete /\ OneBuffer /\ BufferStays /\ Asked)'
    <3>1. \A q \in Uses : pc[q] \in Using => buf[q] # b
      BY <2>3, CountsNat DEF Recycle
    <3>2. ListComplete' /\ OneBuffer'
      BY <1>0, <2>0, <2>3 DEF Recycle
    <3>3. BufferStays' /\ Asked'
      BY <1>0, <2>0, <2>3, <3>1 DEF Recycle
    <3> QED
      BY <3>2, <3>3
  <2> QED
    BY <1>1, <2>1, <2>2, <2>3, BgetOutcome
<1>2. ASSUME NEW u \in Uses, AcquireSleep(u) PROVE (ListComplete /\ OneBuffer /\ BufferStays /\ Asked)'
  BY <1>0, <1>2 DEF AcquireSleep
<1>3. ASSUME NEW u \in Uses, Bread(u) PROVE (ListComplete /\ OneBuffer /\ BufferStays /\ Asked)'
  BY <1>0, <1>3 DEF Bread
<1>4. ASSUME NEW u \in Uses, NEW v \in Data, Modify(u, v) PROVE (ListComplete /\ OneBuffer /\ BufferStays /\ Asked)'
  BY <1>0, <1>4 DEF Modify
<1>5. ASSUME NEW u \in Uses, Bwrite(u) PROVE (ListComplete /\ OneBuffer /\ BufferStays /\ Asked)'
  BY <1>0, <1>5 DEF Bwrite
<1>6. ASSUME NEW u \in Uses, Bpin(u) PROVE (ListComplete /\ OneBuffer /\ BufferStays /\ Asked)'
  BY <1>0, <1>6 DEF Bpin
<1>7. ASSUME NEW u \in Uses, InstallWrite(u) PROVE (ListComplete /\ OneBuffer /\ BufferStays /\ Asked)'
  BY <1>0, <1>7 DEF InstallWrite
<1>8. ASSUME NEW u \in Uses, Bunpin(u) PROVE (ListComplete /\ OneBuffer /\ BufferStays /\ Asked)'
  BY <1>0, <1>8 DEF Bunpin
<1>9. ASSUME NEW u \in Uses, ReleaseSleep(u) PROVE (ListComplete /\ OneBuffer /\ BufferStays /\ Asked)'
  BY <1>0, <1>9 DEF ReleaseSleep
<1>10. ASSUME NEW u \in Uses, BrelsePut(u) PROVE (ListComplete /\ OneBuffer /\ BufferStays /\ Asked)'
  <2>1. ListComplete'
    <3>1. CASE refcnt[buf[u]] = 1
      <4>1. lru' = ToFront(buf[u]) /\ buf[u] \in Bufs
        BY <1>0, <1>10, <3>1 DEF BrelsePut
      <4>2. \A c \in Bufs : \E k \in Bufs : ToFront(buf[u])[k] = c
        BY <1>0, <4>1, FrontKeepsList
      <4> QED
        BY <4>1, <4>2
    <3>2. CASE refcnt[buf[u]] # 1
      BY <1>0, <1>10, <3>2 DEF BrelsePut
    <3> QED
      BY <3>1, <3>2
  <2> QED
    BY ZenonT(30), <1>0, <1>10, <2>1 DEF BrelsePut
<1>11. CASE UNCHANGED vars
  BY <1>0, <1>11 DEF vars, bufVars
<1> QED
  BY <1>1, <1>2, <1>3, <1>4, <1>5, <1>6, <1>7, <1>8, <1>9, <1>10, <1>11 DEF Next, Step, Halted

\* Who uses which buffer changes with bget() and brelse() only.
LEMMA UsersSame ==
  ASSUME \A u \in Uses : pc'[u] \in Using <=> pc[u] \in Using, buf' = buf
  PROVE  \A b \in Bufs : UsersOf(b)' = UsersOf(b)
  BY DEF UsersOf

\* bget() adds its caller to the users of one buffer.
LEMMA UsersEnter ==
  ASSUME TypeOK, NEW u \in Uses, NEW b \in Bufs, pc[u] = "idle",
         pc' = [pc EXCEPT ![u] = "lock"], buf' = [buf EXCEPT ![u] = b]
  PROVE  /\ UsersOf(b)' = UsersOf(b) \cup {u} /\ u \notin UsersOf(b)
         /\ \A c \in Bufs : c # b => UsersOf(c)' = UsersOf(c)
  BY DEF TypeOK, UsersOf, Using

\* brelse() removes it.
LEMMA UsersLeave ==
  ASSUME TypeOK, NEW u \in Uses, NEW b \in Bufs, pc[u] = "put", buf[u] = b,
         pc' = [pc EXCEPT ![u] = "idle"], buf' = [buf EXCEPT ![u] = 1]
  PROVE  /\ UsersOf(b)' = UsersOf(b) \ {u} /\ u \in UsersOf(b)
         /\ \A c \in Bufs : c # b => UsersOf(c)' = UsersOf(c)
  BY DEF TypeOK, UsersOf, Using

\* bget(), bpin(), bunpin() and brelse() count their references.
LEMMA CountStep == BioIInv /\ [Next]_vars => (CountsExact /\ PinnedCached)'
<1> SUFFICES ASSUME BioIInv, [Next]_vars PROVE (CountsExact /\ PinnedCached)'
  OBVIOUS
<1> USE DEF bufVars, history, Keep, Goto, CountsExact
<1>0. TypeOK /\ CountsExact /\ PinnedCached
  BY DEF BioIInv
<1>1. ASSUME NEW u \in Uses, NEW n \in Blocks, Bget(u, n) PROVE (CountsExact /\ PinnedCached)'
  <2>0. /\ pc[u] = "idle" /\ want' = [want EXCEPT ![u] = n]
        /\ UNCHANGED <<lru, data, owner, disk, pinned, history>>
    BY <1>1, BgetOutcome
  <2>1. CASE NoBuffer
    <3>1. \A b \in Bufs : UsersOf(b)' = UsersOf(b)
      BY <2>1, UsersSame DEF NoBuffer
    <3>2. CountsExact'
      BY <1>0, <2>0, <2>1, <3>1 DEF NoBuffer
    <3>3. PinnedCached'
      BY <1>0, <2>0, <2>1 DEF NoBuffer, PinnedCached
    <3> QED
      BY <3>2, <3>3
  <2>2. ASSUME NEW b \in Bufs, Hit(u, n, b) PROVE (CountsExact /\ PinnedCached)'
    <3>1. /\ UsersOf(b)' = UsersOf(b) \cup {u} /\ u \notin UsersOf(b)
          /\ \A c \in Bufs : c # b => UsersOf(c)' = UsersOf(c)
      BY <1>0, <2>0, <2>2, UsersEnter DEF Hit
    <3>2. IsFiniteSet(UsersOf(b)) /\ Cardinality(UsersOf(b)) \in Nat
      BY CountsNat
    <3>3. Cardinality(UsersOf(b)') = Cardinality(UsersOf(b)) + 1
      BY <3>1, <3>2, FS_AddElement
    <3>4. CountsExact'
      <4> SUFFICES ASSUME NEW c \in Bufs
                   PROVE  refcnt'[c] = Cardinality(UsersOf(c)')
                                       + (IF blockno'[c] \in pinned' THEN 1 ELSE 0)
        OBVIOUS
      <4>1. refcnt[c] = Cardinality(UsersOf(c)) + (IF blockno[c] \in pinned THEN 1 ELSE 0)
        BY <1>0
      <4>2. blockno' = blockno /\ pinned' = pinned
        BY <2>0, <2>2 DEF Hit
      <4>3. refcnt'[c] = IF c = b THEN refcnt[c] + 1 ELSE refcnt[c]
        BY <1>0, <2>2 DEF Hit, TypeOK
      <4>4. CASE c = b
        BY <3>2, <3>3, <4>1, <4>2, <4>3, <4>4
      <4>5. CASE c # b
        BY <3>1, <4>1, <4>2, <4>3, <4>5
      <4> QED
        BY <4>4, <4>5
    <3>5. PinnedCached'
      BY <1>0, <2>0, <2>2 DEF Hit, PinnedCached
    <3> QED
      BY <3>4, <3>5
  <2>3. ASSUME NEW b \in Bufs, Recycle(u, n, b) PROVE (CountsExact /\ PinnedCached)'
    <3>1. /\ UsersOf(b)' = UsersOf(b) \cup {u}
          /\ \A c \in Bufs : c # b => UsersOf(c)' = UsersOf(c)
      BY <1>0, <2>0, <2>3, UsersEnter DEF Recycle
    <3>2. blockno[b] \notin pinned /\ \A q \in Uses : pc[q] \in Using => buf[q] # b
      BY <2>3, CountsNat DEF Recycle
    <3>3. n \notin pinned
      BY <1>0, <2>3 DEF Recycle, PinnedCached
    <3>4. Cardinality(UsersOf(b)') = 1
      <4>1. UsersOf(b)' = {u}
        BY <3>1, <3>2 DEF UsersOf
      <4> QED
        BY <4>1, FS_Singleton
    <3>5. CountsExact'
      <4> SUFFICES ASSUME NEW c \in Bufs
                   PROVE  refcnt'[c] = Cardinality(UsersOf(c)')
                                       + (IF blockno'[c] \in pinned' THEN 1 ELSE 0)
        OBVIOUS
      <4>1. refcnt[c] = Cardinality(UsersOf(c)) + (IF blockno[c] \in pinned THEN 1 ELSE 0)
        BY <1>0
      <4>2. /\ blockno'[c] = IF c = b THEN n ELSE blockno[c]
            /\ pinned' = pinned
            /\ refcnt'[c] = IF c = b THEN 1 ELSE refcnt[c]
        BY <1>0, <2>0, <2>3 DEF Recycle, TypeOK
      <4>3. CASE c = b
        BY <3>3, <3>4, <4>2, <4>3
      <4>4. CASE c # b
        BY <3>1, <4>1, <4>2, <4>4
      <4> QED
        BY <4>3, <4>4
    <3>6. PinnedCached'
      <4>1. ASSUME NEW m \in pinned PROVE \E c \in Bufs : blockno'[c] = m
        <5>1. PICK c \in Bufs : blockno[c] = m
          BY <1>0 DEF PinnedCached
        <5>2. c # b
          BY <3>2, <5>1
        <5> QED
          BY <1>0, <2>3, <5>1, <5>2 DEF Recycle, TypeOK
      <4> QED
        BY <1>0, <2>0, <4>1 DEF PinnedCached
    <3> QED
      BY <3>5, <3>6
  <2> QED
    BY <1>1, <2>1, <2>2, <2>3, BgetOutcome
<1>2. ASSUME NEW u \in Uses, AcquireSleep(u) PROVE (CountsExact /\ PinnedCached)'
  <2>1. \A q \in Uses : pc'[q] \in Using <=> pc[q] \in Using
    BY <1>0, <1>2 DEF AcquireSleep, TypeOK, Using
  <2>2. UNCHANGED <<buf, blockno, refcnt, pinned>>
    BY <1>2 DEF AcquireSleep
  <2>3. \A b \in Bufs : UsersOf(b)' = UsersOf(b)
    BY <2>1, <2>2, UsersSame
  <2>4. CountsExact'
    BY <1>0, <2>2, <2>3
  <2>5. PinnedCached'
    BY <1>0, <2>2 DEF PinnedCached
  <2> QED
    BY <2>4, <2>5
<1>3. ASSUME NEW u \in Uses, Bread(u) PROVE (CountsExact /\ PinnedCached)'
  <2>1. \A q \in Uses : pc'[q] \in Using <=> pc[q] \in Using
    BY <1>0, <1>3 DEF Bread, TypeOK, Using
  <2>2. UNCHANGED <<buf, blockno, refcnt, pinned>>
    BY <1>3 DEF Bread
  <2>3. \A b \in Bufs : UsersOf(b)' = UsersOf(b)
    BY <2>1, <2>2, UsersSame
  <2>4. CountsExact'
    BY <1>0, <2>2, <2>3
  <2>5. PinnedCached'
    BY <1>0, <2>2 DEF PinnedCached
  <2> QED
    BY <2>4, <2>5
<1>4. ASSUME NEW u \in Uses, NEW v \in Data, Modify(u, v) PROVE (CountsExact /\ PinnedCached)'
  <2>1. \A q \in Uses : pc'[q] \in Using <=> pc[q] \in Using
    BY <1>0, <1>4 DEF Modify, TypeOK, Using
  <2>2. UNCHANGED <<buf, blockno, refcnt, pinned>>
    BY <1>4 DEF Modify
  <2>3. \A b \in Bufs : UsersOf(b)' = UsersOf(b)
    BY <2>1, <2>2, UsersSame
  <2>4. CountsExact'
    BY <1>0, <2>2, <2>3
  <2>5. PinnedCached'
    BY <1>0, <2>2 DEF PinnedCached
  <2> QED
    BY <2>4, <2>5
<1>5. ASSUME NEW u \in Uses, Bwrite(u) PROVE (CountsExact /\ PinnedCached)'
  <2>1. \A q \in Uses : pc'[q] \in Using <=> pc[q] \in Using
    BY <1>0, <1>5 DEF Bwrite, TypeOK, Using
  <2>2. UNCHANGED <<buf, blockno, refcnt, pinned>>
    BY <1>5 DEF Bwrite
  <2>3. \A b \in Bufs : UsersOf(b)' = UsersOf(b)
    BY <2>1, <2>2, UsersSame
  <2>4. CountsExact'
    BY <1>0, <2>2, <2>3
  <2>5. PinnedCached'
    BY <1>0, <2>2 DEF PinnedCached
  <2> QED
    BY <2>4, <2>5
<1>6. ASSUME NEW u \in Uses, Bpin(u) PROVE (CountsExact /\ PinnedCached)'
  <2>1. \A q \in Uses : pc'[q] \in Using <=> pc[q] \in Using
    BY <1>0, <1>6 DEF Bpin, TypeOK, Using
  <2>2. UNCHANGED <<buf, blockno>>
    BY <1>6 DEF Bpin
  <2>3. \A b \in Bufs : UsersOf(b)' = UsersOf(b)
    BY <2>1, <2>2, UsersSame
  <2>4. PICK b \in Bufs : b = buf[u]
    BY <1>0 DEF TypeOK
  <2>5. /\ blockno[b] = want[u] /\ want[u] \in Blocks
        /\ \A c \in Bufs : c # b => blockno[c] # want[u]
    <3>1. blockno[b] = want[u] /\ want[u] \in Blocks
      BY <1>6, <2>4, Inside DEF Bpin, Using
    <3> QED
      BY <3>1, BioAssumption DEF BioIInv, OneBuffer
  <2>6. \A c \in Bufs : Cardinality(UsersOf(c)) \in Nat
    BY CountsNat
  <2>7. CASE want[u] \in pinned
    <3>1. pinned' = pinned
      BY <1>6, <2>7 DEF Bpin
    <3>2. refcnt' = refcnt
      BY <1>0, <1>6, <2>4, <2>7 DEF Bpin, TypeOK
    <3>3. CountsExact'
      BY <1>0, <2>2, <2>3, <3>1, <3>2
    <3>4. PinnedCached'
      BY <1>0, <2>2, <3>1 DEF PinnedCached
    <3> QED
      BY <3>3, <3>4
  <2>8. CASE want[u] \notin pinned
    <3>1. pinned' = pinned \cup {want[u]} /\ Cardinality(pinned) < LOGSIZE
      BY <1>6, <2>8 DEF Bpin
    <3>2. refcnt' = [refcnt EXCEPT ![b] = @ + 1]
      BY <1>6, <2>4, <2>8 DEF Bpin
    <3>3. CountsExact'
      <4> SUFFICES ASSUME NEW c \in Bufs
                   PROVE  refcnt'[c] = Cardinality(UsersOf(c)')
                                       + (IF blockno'[c] \in pinned' THEN 1 ELSE 0)
        OBVIOUS
      <4>1. refcnt[c] = Cardinality(UsersOf(c)) + (IF blockno[c] \in pinned THEN 1 ELSE 0)
        BY <1>0
      <4>2. refcnt'[c] = IF c = b THEN refcnt[c] + 1 ELSE refcnt[c]
        BY <1>0, <3>2 DEF TypeOK
      <4>3. blockno'[c] \in pinned' <=> blockno[c] \in pinned \/ c = b
        BY <2>2, <2>5, <3>1
      <4>4. c = b => blockno[c] \notin pinned
        BY <2>5, <2>8
      <4> QED
        BY <2>3, <2>6, <4>1, <4>2, <4>3, <4>4
    <3>4. PinnedCached'
      <4>1. IsFiniteSet(pinned') /\ Cardinality(pinned') = Cardinality(pinned) + 1
        BY <1>0, <2>8, <3>1, FS_AddElement DEF PinnedCached
      <4>2. Cardinality(pinned) \in Nat
        BY <1>0, FS_CardinalityType DEF PinnedCached
      <4>3. Cardinality(pinned') <= LOGSIZE
        BY <3>1, <4>1, <4>2, BioAssumption
      <4>4. \A m \in pinned' : \E c \in Bufs : blockno'[c] = m
        BY <1>0, <2>2, <2>5, <3>1 DEF PinnedCached
      <4> QED
        BY <4>1, <4>3, <4>4 DEF PinnedCached
    <3> QED
      BY <3>3, <3>4
  <2> QED
    BY <2>7, <2>8
<1>7. ASSUME NEW u \in Uses, InstallWrite(u) PROVE (CountsExact /\ PinnedCached)'
  <2>1. \A q \in Uses : pc'[q] \in Using <=> pc[q] \in Using
    BY <1>0, <1>7 DEF InstallWrite, TypeOK, Using
  <2>2. UNCHANGED <<buf, blockno, refcnt, pinned>>
    BY <1>7 DEF InstallWrite
  <2>3. \A b \in Bufs : UsersOf(b)' = UsersOf(b)
    BY <2>1, <2>2, UsersSame
  <2>4. CountsExact'
    BY <1>0, <2>2, <2>3
  <2>5. PinnedCached'
    BY <1>0, <2>2 DEF PinnedCached
  <2> QED
    BY <2>4, <2>5
<1>8. ASSUME NEW u \in Uses, Bunpin(u) PROVE (CountsExact /\ PinnedCached)'
  <2>1. \A q \in Uses : pc'[q] \in Using <=> pc[q] \in Using
    BY <1>0, <1>8 DEF Bunpin, TypeOK, Using
  <2>2. UNCHANGED <<buf, blockno>>
    BY <1>8 DEF Bunpin
  <2>3. \A b \in Bufs : UsersOf(b)' = UsersOf(b)
    BY <2>1, <2>2, UsersSame
  <2>4. PICK b \in Bufs : b = buf[u]
    BY <1>0 DEF TypeOK
  <2>5. /\ blockno[b] = want[u] /\ want[u] \in Blocks
        /\ \A c \in Bufs : c # b => blockno[c] # want[u]
    <3>1. blockno[b] = want[u] /\ want[u] \in Blocks
      BY <1>8, <2>4, Inside DEF Bunpin, Using
    <3> QED
      BY <3>1, BioAssumption DEF BioIInv, OneBuffer
  <2>6. \A c \in Bufs : Cardinality(UsersOf(c)) \in Nat
    BY CountsNat
  <2>7. want[u] \in pinned /\ pinned' = pinned \ {want[u]}
    BY <1>8 DEF Bunpin, BioIInv, Contents, Installed
  <2>8. refcnt' = [refcnt EXCEPT ![b] = @ - 1]
    BY <1>8, <2>4 DEF Bunpin
  <2>9. CountsExact'
    <3> SUFFICES ASSUME NEW c \in Bufs
                 PROVE  refcnt'[c] = Cardinality(UsersOf(c)')
                                     + (IF blockno'[c] \in pinned' THEN 1 ELSE 0)
      OBVIOUS
    <3>1. refcnt[c] = Cardinality(UsersOf(c)) + (IF blockno[c] \in pinned THEN 1 ELSE 0)
      BY <1>0
    <3>2. refcnt'[c] = IF c = b THEN refcnt[c] - 1 ELSE refcnt[c]
      BY <1>0, <2>8 DEF TypeOK
    <3>3. blockno'[c] \in pinned' <=> blockno[c] \in pinned /\ c # b
      BY <2>2, <2>5, <2>7
    <3>4. c = b => blockno[c] \in pinned
      BY <2>5, <2>7
    <3> QED
      BY <2>3, <2>6, <3>1, <3>2, <3>3, <3>4
  <2>10. PinnedCached'
    <3>1. IsFiniteSet(pinned') /\ Cardinality(pinned') = Cardinality(pinned) - 1
      BY <1>0, <2>7, FS_RemoveElement DEF PinnedCached
    <3>2. Cardinality(pinned) \in Nat
      BY <1>0, FS_CardinalityType DEF PinnedCached
    <3>3. Cardinality(pinned') <= LOGSIZE
      BY <1>0, <3>1, <3>2, BioAssumption DEF PinnedCached
    <3>4. \A m \in pinned' : \E c \in Bufs : blockno'[c] = m
      BY <1>0, <2>2, <2>7 DEF PinnedCached
    <3> QED
      BY <3>1, <3>3, <3>4 DEF PinnedCached
  <2> QED
    BY <2>9, <2>10
<1>9. ASSUME NEW u \in Uses, ReleaseSleep(u) PROVE (CountsExact /\ PinnedCached)'
  <2>1. \A q \in Uses : pc'[q] \in Using <=> pc[q] \in Using
    BY <1>0, <1>9 DEF ReleaseSleep, TypeOK, Using
  <2>2. UNCHANGED <<buf, blockno, refcnt, pinned>>
    BY <1>9 DEF ReleaseSleep
  <2>3. \A b \in Bufs : UsersOf(b)' = UsersOf(b)
    BY <2>1, <2>2, UsersSame
  <2>4. CountsExact'
    BY <1>0, <2>2, <2>3
  <2>5. PinnedCached'
    BY <1>0, <2>2 DEF PinnedCached
  <2> QED
    BY <2>4, <2>5
<1>10. ASSUME NEW u \in Uses, BrelsePut(u) PROVE (CountsExact /\ PinnedCached)'
  <2>1. UNCHANGED <<blockno, pinned>>
    BY <1>10 DEF BrelsePut
  <2>2. PICK b \in Bufs : b = buf[u]
    BY <1>0 DEF TypeOK
  <2>3. /\ UsersOf(b)' = UsersOf(b) \ {u} /\ u \in UsersOf(b)
        /\ \A c \in Bufs : c # b => UsersOf(c)' = UsersOf(c)
    BY <1>0, <1>10, <2>2, UsersLeave DEF BrelsePut
  <2>4. IsFiniteSet(UsersOf(b)) /\ Cardinality(UsersOf(b)) \in Nat
    BY CountsNat
  <2>5. Cardinality(UsersOf(b)') = Cardinality(UsersOf(b)) - 1
    BY <2>3, <2>4, FS_RemoveElement
  <2>6. CountsExact'
    <3> SUFFICES ASSUME NEW c \in Bufs
                 PROVE  refcnt'[c] = Cardinality(UsersOf(c)')
                                     + (IF blockno'[c] \in pinned' THEN 1 ELSE 0)
      OBVIOUS
    <3>1. refcnt[c] = Cardinality(UsersOf(c)) + (IF blockno[c] \in pinned THEN 1 ELSE 0)
      BY <1>0
    <3>2. refcnt'[c] = IF c = b THEN refcnt[c] - 1 ELSE refcnt[c]
      BY <1>0, <1>10, <2>2 DEF BrelsePut, TypeOK
    <3>3. CASE c = b
      BY <2>1, <2>4, <2>5, <3>1, <3>2, <3>3
    <3>4. CASE c # b
      BY <2>1, <2>3, <3>1, <3>2, <3>4
    <3> QED
      BY <3>3, <3>4
  <2>7. PinnedCached'
    BY <1>0, <2>1 DEF PinnedCached
  <2> QED
    BY <2>6, <2>7
<1>11. CASE UNCHANGED vars
  <2>1. UNCHANGED <<pc, buf, blockno, refcnt, pinned>>
    BY <1>11 DEF vars
  <2>2. \A b \in Bufs : UsersOf(b)' = UsersOf(b)
    BY <2>1, UsersSame
  <2> QED
    BY <1>0, <2>1, <2>2 DEF PinnedCached
<1> QED
  BY <1>1, <1>2, <1>3, <1>4, <1>5, <1>6, <1>7, <1>8, <1>9, <1>10, <1>11 DEF Next, Step, Halted

\* acquiresleep() and releasesleep() keep the lock with its holder, and wake who
\* waits for it.
LEMMA LockStep == BioIInv /\ [Next]_vars => (LockOfUser /\ SleepJustified)'
<1> SUFFICES ASSUME BioIInv, [Next]_vars PROVE (LockOfUser /\ SleepJustified)'
  OBVIOUS
<1> USE BioAssumption DEF bufVars, history, Keep, Goto, Uses, Using, Holding, TypeOK, LockOfUser, SleepJustified
<1>0. TypeOK /\ LockOfUser /\ SleepJustified
  BY DEF BioIInv
<1>1. ASSUME NEW u \in Uses, NEW n \in Blocks, Bget(u, n) PROVE (LockOfUser /\ SleepJustified)'
  <2>0. /\ pc[u] = "idle" /\ want' = [want EXCEPT ![u] = n]
        /\ UNCHANGED <<lru, data, owner, disk, pinned, history>>
    BY <1>1, BgetOutcome
  <2>1. CASE NoBuffer
    BY <1>0, <2>0, <2>1 DEF NoBuffer
  <2>2. ASSUME NEW b \in Bufs, Hit(u, n, b) PROVE (LockOfUser /\ SleepJustified)'
    BY <1>0, <2>0, <2>2 DEF Hit
  <2>3. ASSUME NEW b \in Bufs, Recycle(u, n, b) PROVE (LockOfUser /\ SleepJustified)'
    BY <1>0, <2>0, <2>3 DEF Recycle
  <2> QED
    BY <1>1, <2>1, <2>2, <2>3, BgetOutcome
<1>2. ASSUME NEW u \in Uses, AcquireSleep(u) PROVE (LockOfUser /\ SleepJustified)'
  <2>1. CASE owner[buf[u]] = None
    BY <1>0, <1>2, <2>1 DEF AcquireSleep
  <2>2. CASE owner[buf[u]] # None
    BY <1>0, <1>2, <2>2 DEF AcquireSleep
  <2> QED
    BY <2>1, <2>2
<1>3. ASSUME NEW u \in Uses, Bread(u) PROVE (LockOfUser /\ SleepJustified)'
  BY <1>0, <1>3 DEF Bread
<1>4. ASSUME NEW u \in Uses, NEW v \in Data, Modify(u, v) PROVE (LockOfUser /\ SleepJustified)'
  BY <1>0, <1>4 DEF Modify
<1>5. ASSUME NEW u \in Uses, Bwrite(u) PROVE (LockOfUser /\ SleepJustified)'
  BY <1>0, <1>5 DEF Bwrite
<1>6. ASSUME NEW u \in Uses, Bpin(u) PROVE (LockOfUser /\ SleepJustified)'
  BY <1>0, <1>6 DEF Bpin
<1>7. ASSUME NEW u \in Uses, InstallWrite(u) PROVE (LockOfUser /\ SleepJustified)'
  BY <1>0, <1>7 DEF InstallWrite
<1>8. ASSUME NEW u \in Uses, Bunpin(u) PROVE (LockOfUser /\ SleepJustified)'
  BY <1>0, <1>8 DEF Bunpin
<1>9. ASSUME NEW u \in Uses, ReleaseSleep(u) PROVE (LockOfUser /\ SleepJustified)'
  BY <1>0, <1>9 DEF ReleaseSleep
<1>10. ASSUME NEW u \in Uses, BrelsePut(u) PROVE (LockOfUser /\ SleepJustified)'
  BY <1>0, <1>10 DEF BrelsePut
<1>11. CASE UNCHANGED vars
  BY <1>0, <1>11 DEF vars, bufVars
<1> QED
  BY <1>1, <1>2, <1>3, <1>4, <1>5, <1>6, <1>7, <1>8, <1>9, <1>10, <1>11 DEF Next, Step, Halted

\* Two holders of the buffers of one block are one process.
LEMMA OneHolder ==
  ASSUME BioIInv, NEW u \in Uses, NEW q \in Uses,
         pc[u] \in Holding, pc[q] \in Holding, want[u] = want[q]
  PROVE  u = q
<1>1. pc[u] \in Using /\ pc[q] \in Using
  BY DEF Holding, Using
<1>2. buf[u] \in Bufs /\ buf[u] = buf[q]
  BY <1>1, BioAssumption DEF BioIInv, TypeOK, OneBuffer, BufferStays, Asked
<1> QED
  BY <1>2 DEF BioIInv, LockOfUser

\* What a holder of a buffer has for itself.
LEMMA Mine ==
  ASSUME BioIInv, NEW u \in Uses, pc[u] \in Holding
  PROVE  /\ buf[u] \in Bufs /\ want[u] \in Blocks /\ blockno[buf[u]] = want[u]
         /\ \A c \in Bufs : blockno[c] = want[u] => c = buf[u]
         /\ \A w \in Uses : pc[w] \in Holding /\ want[w] = want[u] => w = u
<1>1. pc[u] \in Using
  BY DEF Holding, Using
<1> QED
  BY <1>1, Inside, OneHolder, BioAssumption DEF BioIInv, OneBuffer

\* What is logged or written of a buffer reaches the disk before it is recycled.
LEMMA ContentsStep == BioIInv /\ [Next]_vars => Contents'
<1> SUFFICES ASSUME BioIInv, [Next]_vars PROVE Contents'
  OBVIOUS
<1> USE DEF bufVars, history, Keep, Goto, TypeOK, ReadValid, PinnedValid, Installed, OnDisk,
            Settled, ValidCurrent, InHand
<1>0. TypeOK /\ ReadValid /\ PinnedValid /\ Installed /\ OnDisk /\ Settled /\ ValidCurrent
  BY DEF BioIInv, Contents
<1>1. ASSUME NEW u \in Uses, NEW n \in Blocks, Bget(u, n) PROVE Contents'
  <2>0. /\ pc[u] = "idle" /\ want' = [want EXCEPT ![u] = n]
        /\ UNCHANGED <<lru, data, owner, disk, pinned, history>>
    BY <1>1, BgetOutcome
  <2>1. CASE NoBuffer
    BY <1>0, <2>0, <2>1 DEF NoBuffer, Contents
  <2>a. ASSUME NEW b \in Bufs, Hit(u, n, b) \/ Recycle(u, n, b)
        PROVE  /\ \A w \in Uses : pc'[w] = IF w = u THEN "lock" ELSE pc[w]
               /\ \A w \in Uses : w # u => want'[w] = want[w] /\ buf'[w] = buf[w]
               /\ \A m \in Blocks : InHand(m)' <=> InHand(m)
    <3>1. /\ \A w \in Uses : pc'[w] = IF w = u THEN "lock" ELSE pc[w]
          /\ \A w \in Uses : w # u => want'[w] = want[w] /\ buf'[w] = buf[w]
      BY <1>0, <2>0, <2>a DEF Hit, Recycle
    <3> QED
      BY <2>0, <3>1
  <2>2. ASSUME NEW b \in Bufs, Hit(u, n, b) PROVE Contents'
    <3>1. /\ \A w \in Uses : pc'[w] = IF w = u THEN "lock" ELSE pc[w]
          /\ \A w \in Uses : w # u => want'[w] = want[w] /\ buf'[w] = buf[w]
          /\ \A m \in Blocks : InHand(m)' <=> InHand(m)
      BY <2>2, <2>a
    <3>2. UNCHANGED <<blockno, valid>>
      BY <2>2 DEF Hit
    <3>3. ReadValid' /\ PinnedValid' /\ Installed'
      BY <1>0, <2>0, <3>1, <3>2
    <3> HIDE DEF InHand
    <3>4. OnDisk' /\ Settled'
      BY <1>0, <2>0, <3>1
    <3>5. ValidCurrent'
      BY <1>0, <2>0, <3>1, <3>2
    <3> QED
      BY <3>3, <3>4, <3>5 DEF Contents
  <2>3. ASSUME NEW b \in Bufs, Recycle(u, n, b) PROVE Contents'
    <3>1. blockno[b] \notin pinned /\ \A w \in Uses : pc[w] \in Using => buf[w] # b
      BY <2>3, CountsNat DEF Recycle
    <3>2. n \notin pinned
      BY <2>3 DEF Recycle, BioIInv, PinnedCached
    <3>3. /\ \A w \in Uses : pc'[w] = IF w = u THEN "lock" ELSE pc[w]
          /\ \A w \in Uses : w # u => want'[w] = want[w] /\ buf'[w] = buf[w]
          /\ \A m \in Blocks : InHand(m)' <=> InHand(m)
      BY <2>3, <2>a
    <3>4. /\ blockno'[b] = n
          /\ \A c \in Bufs : c # b => blockno'[c] = blockno[c] /\ valid'[c] = valid[c]
      BY <1>0, <2>3 DEF Recycle
    <3>5. ~ valid'[b]
      BY <1>0, <2>3 DEF Recycle
    <3>6. ReadValid'
      BY <1>0, <3>1, <3>3, <3>4, <3>5 DEF Using
    <3>7. PinnedValid'
      BY <1>0, <2>0, <3>2, <3>4
    <3>8. Installed'
      BY <1>0, <2>0, <3>3
    <3> HIDE DEF InHand
    <3>9. OnDisk' /\ Settled'
      BY <1>0, <2>0, <3>3
    <3>10. ValidCurrent'
      BY <1>0, <2>0, <3>3, <3>4, <3>5
    <3> QED
      BY <3>6, <3>7, <3>8, <3>9, <3>10 DEF Contents
  <2> QED
    BY <1>1, <2>1, <2>2, <2>3, BgetOutcome
<1>2. ASSUME NEW u \in Uses, AcquireSleep(u) PROVE Contents'
  <2>1. /\ \A w \in Uses : w # u => pc'[w] = pc[w]
        /\ pc[u] = "lock" /\ pc'[u] \in {"asleep", "fill"}
        /\ UNCHANGED <<blockno, valid, data, disk, pinned, want, buf, latest, kept, stray>>
    BY <1>0, <1>2 DEF AcquireSleep
  <2>2. \A m \in Blocks : InHand(m)' <=> InHand(m)
    BY <2>1
  <2>3. ReadValid' /\ PinnedValid' /\ Installed'
    BY <1>0, <2>1
  <2> HIDE DEF InHand
  <2>4. OnDisk' /\ Settled' /\ ValidCurrent'
    BY <1>0, <2>1, <2>2
  <2> QED
    BY <2>3, <2>4 DEF Contents
<1>3. ASSUME NEW u \in Uses, Bread(u) PROVE Contents'
  <2>0. pc[u] \in Holding
    BY <1>3 DEF Bread, Holding
  <2>1. /\ buf[u] \in Bufs /\ want[u] \in Blocks /\ blockno[buf[u]] = want[u]
        /\ \A c \in Bufs : blockno[c] = want[u] => c = buf[u]
        /\ \A w \in Uses : pc[w] \in Holding /\ want[w] = want[u] => w = u
    BY <2>0, Mine
  <2>2. ReadValid'
    BY <1>0, <1>3, <2>1 DEF Bread, Holding
  <2>3. PinnedValid'
    BY <1>0, <1>3, <2>1 DEF Bread, Holding
  <2>4. Installed'
    BY <1>0, <1>3, <2>1 DEF Bread, Holding
  <2>5. OnDisk'
    BY <1>0, <1>3, <2>1 DEF Bread, Holding
  <2>6. Settled'
    BY <1>0, <1>3, <2>1 DEF Bread, Holding
  <2>7. ValidCurrent'
    BY <1>0, <1>3, <2>1 DEF Bread, Holding
  <2> QED
    BY <2>2, <2>3, <2>4, <2>5, <2>6, <2>7 DEF Contents
<1>4. ASSUME NEW u \in Uses, NEW v \in Data, Modify(u, v) PROVE Contents'
  <2>0. pc[u] \in Holding
    BY <1>4 DEF Modify, Holding
  <2>1. /\ buf[u] \in Bufs /\ want[u] \in Blocks /\ blockno[buf[u]] = want[u]
        /\ \A c \in Bufs : blockno[c] = want[u] => c = buf[u]
        /\ \A w \in Uses : pc[w] \in Holding /\ want[w] = want[u] => w = u
    BY <2>0, Mine
  <2>2. ReadValid'
    BY <1>0, <1>4, <2>1 DEF Modify, Holding
  <2>3. PinnedValid'
    BY <1>0, <1>4, <2>1 DEF Modify, Holding
  <2>4. Installed'
    BY <1>0, <1>4, <2>1 DEF Modify, Holding
  <2>5. OnDisk'
    BY <1>0, <1>4, <2>1 DEF Modify, Holding
  <2>6. Settled'
    BY <1>0, <1>4, <2>1 DEF Modify, Holding
  <2>7. ValidCurrent'
    BY <1>0, <1>4, <2>1 DEF Modify, Holding
  <2> QED
    BY <2>2, <2>3, <2>4, <2>5, <2>6, <2>7 DEF Contents
<1>5. ASSUME NEW u \in Uses, Bwrite(u) PROVE Contents'
  <2>0. pc[u] \in Holding
    BY <1>5 DEF Bwrite, Holding
  <2>1. /\ buf[u] \in Bufs /\ want[u] \in Blocks /\ blockno[buf[u]] = want[u]
        /\ \A c \in Bufs : blockno[c] = want[u] => c = buf[u]
        /\ \A w \in Uses : pc[w] \in Holding /\ want[w] = want[u] => w = u
    BY <2>0, Mine
  <2>2. ReadValid'
    BY <1>0, <1>5, <2>1 DEF Bwrite, Holding
  <2>3. PinnedValid'
    BY <1>0, <1>5, <2>1 DEF Bwrite, Holding
  <2>4. Installed'
    BY <1>0, <1>5, <2>1 DEF Bwrite, Holding
  <2>5. OnDisk'
    BY <1>0, <1>5, <2>1 DEF Bwrite, Holding
  <2>6. Settled'
    BY <1>0, <1>5, <2>1 DEF Bwrite, Holding
  <2>7. ValidCurrent'
    BY <1>0, <1>5, <2>1 DEF Bwrite, Holding
  <2> QED
    BY <2>2, <2>3, <2>4, <2>5, <2>6, <2>7 DEF Contents
<1>6. ASSUME NEW u \in Uses, Bpin(u) PROVE Contents'
  <2>0. pc[u] \in Holding
    BY <1>6 DEF Bpin, Holding
  <2>1. /\ buf[u] \in Bufs /\ want[u] \in Blocks /\ blockno[buf[u]] = want[u]
        /\ \A c \in Bufs : blockno[c] = want[u] => c = buf[u]
        /\ \A w \in Uses : pc[w] \in Holding /\ want[w] = want[u] => w = u
    BY <2>0, Mine
  <2>2. ReadValid'
    BY <1>0, <1>6, <2>1 DEF Bpin, Holding
  <2>3. PinnedValid'
    BY <1>0, <1>6, <2>1 DEF Bpin, Holding
  <2>4. Installed'
    BY <1>0, <1>6, <2>1 DEF Bpin, Holding
  <2>5. OnDisk'
    BY <1>0, <1>6, <2>1 DEF Bpin, Holding
  <2>6. Settled'
    BY <1>0, <1>6, <2>1 DEF Bpin, Holding
  <2>7. ValidCurrent'
    BY <1>0, <1>6, <2>1 DEF Bpin, Holding
  <2> QED
    BY <2>2, <2>3, <2>4, <2>5, <2>6, <2>7 DEF Contents
<1>7. ASSUME NEW u \in Uses, InstallWrite(u) PROVE Contents'
  <2>0. pc[u] \in Holding
    BY <1>7 DEF InstallWrite, Holding
  <2>1. /\ buf[u] \in Bufs /\ want[u] \in Blocks /\ blockno[buf[u]] = want[u]
        /\ \A c \in Bufs : blockno[c] = want[u] => c = buf[u]
        /\ \A w \in Uses : pc[w] \in Holding /\ want[w] = want[u] => w = u
    BY <2>0, Mine
  <2>2. ReadValid'
    BY <1>0, <1>7, <2>1 DEF InstallWrite, Holding
  <2>3. PinnedValid'
    BY <1>0, <1>7, <2>1 DEF InstallWrite, Holding
  <2>4. Installed'
    BY <1>0, <1>7, <2>1 DEF InstallWrite, Holding
  <2>5. OnDisk'
    BY <1>0, <1>7, <2>1 DEF InstallWrite, Holding
  <2>6. Settled'
    BY <1>0, <1>7, <2>1 DEF InstallWrite, Holding
  <2>7. ValidCurrent'
    BY <1>0, <1>7, <2>1 DEF InstallWrite, Holding
  <2> QED
    BY <2>2, <2>3, <2>4, <2>5, <2>6, <2>7 DEF Contents
<1>8. ASSUME NEW u \in Uses, Bunpin(u) PROVE Contents'
  <2>0. pc[u] \in Holding
    BY <1>8 DEF Bunpin, Holding
  <2>1. /\ buf[u] \in Bufs /\ want[u] \in Blocks /\ blockno[buf[u]] = want[u]
        /\ \A c \in Bufs : blockno[c] = want[u] => c = buf[u]
        /\ \A w \in Uses : pc[w] \in Holding /\ want[w] = want[u] => w = u
    BY <2>0, Mine
  <2>2. ReadValid'
    BY <1>0, <1>8, <2>1 DEF Bunpin, Holding
  <2>3. PinnedValid'
    BY <1>0, <1>8, <2>1 DEF Bunpin, Holding
  <2>4. Installed'
    BY <1>0, <1>8, <2>1 DEF Bunpin, Holding
  <2>5. OnDisk'
    BY <1>0, <1>8, <2>1 DEF Bunpin, Holding
  <2>6. Settled'
    BY <1>0, <1>8, <2>1 DEF Bunpin, Holding
  <2>7. ValidCurrent'
    BY <1>0, <1>8, <2>1 DEF Bunpin, Holding
  <2> QED
    BY <2>2, <2>3, <2>4, <2>5, <2>6, <2>7 DEF Contents
<1>9. ASSUME NEW u \in Uses, ReleaseSleep(u) PROVE Contents'
  <2>0. pc[u] \in Holding
    BY <1>9 DEF ReleaseSleep, Holding
  <2>1. /\ buf[u] \in Bufs /\ want[u] \in Blocks /\ blockno[buf[u]] = want[u]
        /\ \A c \in Bufs : blockno[c] = want[u] => c = buf[u]
        /\ \A w \in Uses : pc[w] \in Holding /\ want[w] = want[u] => w = u
    BY <2>0, Mine
  <2>2. /\ pc'[u] = "put"
        /\ \A w \in Uses : w # u => pc'[w] = pc[w] \/ (pc[w] = "asleep" /\ pc'[w] = "lock")
    BY <1>9 DEF ReleaseSleep
  <2>3. /\ stray' = (IF pc[u] = "dirty" THEN stray \cup {want[u]} ELSE stray)
        /\ UNCHANGED <<blockno, valid, data, disk, pinned, want, buf, latest, kept>>
        /\ pc[u] \in {"own", "dirty"}
    BY <1>9 DEF ReleaseSleep
  <2>4. ReadValid' /\ PinnedValid'
    BY <1>0, <2>2, <2>3
  <2>5. Installed' /\ OnDisk'
    BY <1>0, <2>2, <2>3
  <2>6. \A m \in Blocks : (InHand(m)' => InHand(m)) /\ (InHand(m) => InHand(m)' \/ m \in stray')
    BY <2>2, <2>3
  <2>7. stray \subseteq stray'
    BY <2>3
  <2> HIDE DEF InHand
  <2>8. Settled'
    BY <1>0, <2>3, <2>6, <2>7
  <2>9. ValidCurrent'
    BY <1>0, <2>3, <2>6, <2>7
  <2> QED
    BY <2>4, <2>5, <2>8, <2>9 DEF Contents
<1>10. ASSUME NEW u \in Uses, BrelsePut(u) PROVE Contents'
  <2>1. /\ pc[u] = "put" /\ pc'[u] = "idle"
        /\ \A w \in Uses : w # u => pc'[w] = pc[w] /\ want'[w] = want[w] /\ buf'[w] = buf[w]
        /\ UNCHANGED <<blockno, valid, data, disk, pinned, latest, kept, stray>>
    BY <1>0, <1>10 DEF BrelsePut
  <2>2. \A m \in Blocks : InHand(m)' <=> InHand(m)
    BY <2>1
  <2>3. ReadValid' /\ PinnedValid' /\ Installed'
    BY <1>0, <2>1
  <2> HIDE DEF InHand
  <2>4. OnDisk' /\ Settled' /\ ValidCurrent'
    BY <1>0, <2>1, <2>2
  <2> QED
    BY <2>3, <2>4 DEF Contents
<1>11. CASE UNCHANGED vars
  BY <1>0, <1>11 DEF vars, bufVars, Contents
<1> QED
  BY <1>1, <1>2, <1>3, <1>4, <1>5, <1>6, <1>7, <1>8, <1>9, <1>10, <1>11 DEF Next, Step, Halted

-----------------------------------------------------------------------------
(* The theorems *)

\* binit() establishes the invariant.
LEMMA BioInit == Init => BioIInv
<1> SUFFICES ASSUME Init PROVE BioIInv
  OBVIOUS
<1>1. 1 \in Bufs /\ \A k \in Bufs : NBUF + 1 - k \in Bufs /\ NBUF + 1 - (NBUF + 1 - k) = k
  BY BioAssumption DEF Bufs
<1>2. TypeOK
  <2>1. lru \in [Bufs -> Bufs] /\ \A k, l \in Bufs : lru[k] = lru[l] => k = l
    BY <1>1 DEF Init
  <2>2. refcnt \in [Bufs -> Nat]
    BY DEF Init
  <2> QED
    BY <1>1, <2>1, <2>2 DEF Init, TypeOK
<1>3. ListComplete
  BY <1>1 DEF Init, ListComplete
<1>4. \A b \in Bufs : UsersOf(b) = {}
  BY DEF Init, UsersOf, Using
<1>5. CountsExact
  BY <1>4, FS_EmptySet DEF Init, CountsExact
<1>6. PinnedCached
  BY BioAssumption, FS_EmptySet DEF Init, PinnedCached
<1>7. OneBuffer /\ BufferStays /\ Asked
  BY DEF Init, OneBuffer, BufferStays, Asked, Using
<1>8. LockOfUser /\ SleepJustified
  BY BioAssumption DEF Init, LockOfUser, SleepJustified, Holding, Uses
<1>9. Contents
  BY DEF Init, Contents, ReadValid, PinnedValid, Installed, OnDisk, Settled, ValidCurrent
<1> QED
  BY <1>2, <1>3, <1>5, <1>6, <1>7, <1>8, <1>9 DEF BioIInv

\* Every step of bget(), bread(), bwrite(), log_write(), install_trans() and
\* brelse() keeps the invariant.
LEMMA BioStep == BioIInv /\ [Next]_vars => BioIInv'
  BY TypeStep, ShapeStep, CountStep, LockStep, ContentsStep DEF BioIInv

\* For any number of buffers, the invariant above holds of the buffer cache
\* whatever the order of its users' calls.
THEOREM BioInvariant == Spec => []BioIInv
  BY BioInit, BioStep, PTL DEF Spec

\* For any number of buffers and users: a valid buffer holds what was last put
\* into its block, and a block that has no valid buffer, because bget() recycled
\* it, has on disk what was last logged or written of it.  Only a change that
\* brelse() gave back unlogged, as writei() does, is lost with the buffer.
THEOREM BioContents == Spec => []ContentsCurrent
<1>1. BioIInv => ContentsCurrent
  <2> SUFFICES ASSUME BioIInv, NEW n \in Blocks, \A b \in Bufs : ~ (blockno[b] = n /\ valid[b])
               PROVE  disk[n] = kept[n] /\ (n \in stray \/ kept[n] = latest[n])
    BY DEF ContentsCurrent, BioIInv, Contents, ValidCurrent
  <2>1. n \notin pinned
    BY DEF BioIInv, Contents, PinnedCached, PinnedValid
  <2>2. ~ InHand(n)
    <3> SUFFICES ASSUME NEW u \in Uses, pc[u] = "dirty", want[u] = n PROVE FALSE
      BY DEF InHand
    <3>1. valid[buf[u]] /\ blockno[buf[u]] = n /\ buf[u] \in Bufs
      BY DEF BioIInv, Contents, ReadValid, BufferStays, Using, TypeOK
    <3> QED
      BY <3>1
  <2> QED
    BY <2>1, <2>2 DEF BioIInv, Contents, OnDisk, Settled
<1> QED
  BY <1>1, BioInvariant, PTL

\* For any number of buffers and users: releasesleep() leaves nobody asleep in
\* acquiresleep() on a lock that is free.
THEOREM BioSleepers == Spec => []SleepJustified
<1>1. BioIInv => SleepJustified
  BY DEF BioIInv
<1> QED
  BY <1>1, BioInvariant, PTL

-----------------------------------------------------------------------------
(* When bget() panics *)

\* Whoever calls bget() finds a cache of LOGSIZE buffers, and MAXHELD for each
\* process, with a free one: the pins take LOGSIZE at most, and this call none.
LEMMA Room ==
  ASSUME BioIInv, CacheFull, NEW u \in Uses, pc[u] = "idle"
  PROVE  NBUF < Cardinality(Uses) + LOGSIZE
<1> DEFINE U == {q \in Uses : pc[q] \in Using}
           Used == {b \in Bufs : UsersOf(b) # {}}
           Pins == {b \in Bufs : blockno[b] \in pinned}
<1>0. TypeOK /\ OneBuffer /\ PinnedCached
  BY DEF BioIInv
<1>1. IsFiniteSet(Bufs) /\ Cardinality(Bufs) = NBUF
  <2>1. 1 \in Int /\ NBUF \in Int /\ NBUF >= 1
    BY BioAssumption
  <2>2. IsFiniteSet(1..NBUF) /\ Cardinality(1..NBUF) = IF 1 > NBUF THEN 0 ELSE NBUF - 1 + 1
    BY <2>1, FS_Interval
  <2> QED
    BY <2>1, <2>2 DEF Bufs
<1>2. IsFiniteSet(Used) /\ IsFiniteSet(Pins)
  BY <1>1, FS_Subset
<1>3. Cardinality(Pins) <= LOGSIZE
  <2> DEFINE g == [b \in Pins |-> blockno[b]]
  <2>1. g \in Injection(Pins, pinned)
    <3>1. g \in [Pins -> pinned]
      OBVIOUS
    <3>2. \A a, b \in Pins : g[a] = g[b] => a = b
      BY <1>0, BioAssumption DEF OneBuffer, TypeOK
    <3> QED
      BY <3>1, <3>2 DEF Injection, IsInjective
  <2>2. Cardinality(Pins) <= Cardinality(pinned)
    BY <1>0, <2>1, FS_Injection DEF PinnedCached
  <2>3. Cardinality(Pins) \in Nat /\ Cardinality(pinned) \in Nat
    BY <1>0, <1>2, FS_CardinalityType DEF PinnedCached
  <2> QED
    BY <1>0, <2>2, <2>3, BioAssumption DEF PinnedCached
<1>4. IsFiniteSet(U) /\ Cardinality(U) < Cardinality(Uses)
  <2>1. U \in SUBSET Uses /\ U # Uses
    BY DEF Using
  <2>2. IsFiniteSet(U) /\ Cardinality(U) <= Cardinality(Uses) /\ Cardinality(Uses) # Cardinality(U)
    BY <2>1, FS_Subset, UsesFinite
  <2>3. Cardinality(U) \in Nat /\ Cardinality(Uses) \in Nat
    BY <2>2, FS_CardinalityType, UsesFinite
  <2> QED
    BY <2>2, <2>3
<1>5. Cardinality(Used) <= Cardinality(U)
  <2> DEFINE f == [q \in U |-> buf[q]]
  <2>1. f \in Surjection(U, Used)
    <3>1. f \in [U -> Used]
      BY <1>0 DEF UsersOf, TypeOK
    <3>2. \A b \in Used : \E q \in U : f[q] = b
      BY DEF UsersOf
    <3> QED
      BY <3>1, <3>2 DEF Surjection
  <2> QED
    BY <1>4, <2>1, FS_Surjection
<1>6. NBUF <= Cardinality(Used) + Cardinality(Pins)
  <2>1. Bufs = Used \cup Pins
    BY DEF CacheFull
  <2>2. Cardinality(Used \cup Pins) = Cardinality(Used) + Cardinality(Pins) - Cardinality(Used \cap Pins)
    BY <1>2, FS_Union
  <2>3. Cardinality(Used \cap Pins) \in Nat
    BY <1>2, FS_Intersection, FS_CardinalityType
  <2>4. Cardinality(Used) \in Nat /\ Cardinality(Pins) \in Nat
    BY <1>2, FS_CardinalityType
  <2>5. Cardinality(Used \cup Pins) = NBUF
    BY <1>1, <2>1
  <2> HIDE DEF Used, Pins
  <2> QED
    BY <2>2, <2>3, <2>4, <2>5
<1>7. /\ Cardinality(Used) \in Nat /\ Cardinality(Pins) \in Nat
      /\ Cardinality(U) \in Nat /\ Cardinality(Uses) \in Nat
  BY <1>2, <1>4, FS_CardinalityType, UsesFinite
<1> QED
  BY <1>3, <1>4, <1>5, <1>6, <1>7, BioAssumption

\* Only bget() panics, and only on a full cache.
LEMMA PanicStep ==
  ASSUME BioIInv, Next, ~ panicked, panicked'
  PROVE  CacheFull /\ CacheFull' /\ \E u \in Uses : pc[u] = "idle"
<1>1. PICK u \in Uses, n \in Blocks : Bget(u, n)
  BY DEF Next, Step, Halted, AcquireSleep, Bread, Modify, Bwrite, Bpin, InstallWrite, Bunpin,
         ReleaseSleep, BrelsePut
<1>2. pc[u] = "idle" /\ pinned' = pinned /\ NoBuffer
  BY <1>1, BgetOutcome DEF Hit, Recycle
<1>3. CacheFull
  <2> SUFFICES ASSUME NEW b \in Bufs, blockno[b] \notin pinned, UsersOf(b) = {}
               PROVE  FALSE
    BY DEF CacheFull
  <2>1. Cardinality(UsersOf(b)) = 0
    BY FS_EmptySet
  <2>2. refcnt[b] = Cardinality(UsersOf(b)) + (IF blockno[b] \in pinned THEN 1 ELSE 0)
    BY DEF BioIInv, CountsExact
  <2>3. refcnt[b] # 0
    BY <1>2 DEF NoBuffer
  <2> QED
    BY <2>1, <2>2, <2>3
<1>4. CacheFull'
  BY <1>2, <1>3, UsersSame DEF CacheFull, NoBuffer
<1> QED
  BY <1>2, <1>3, <1>4

\* For any number of buffers and users, each with several buffers at a time: a
\* block is cached in one buffer at most, every buffer is in the list once, a
\* process keeps the buffer of the block it asked for until its brelse(),
\* however misses, hits and releases interleave, and panic("bget: no buffers")
\* fires only when each buffer is pinned by the log or between somebody's bget()
\* and brelse(): brelse() and bunpin() leak no reference.
THEOREM BioShape == Spec => []CacheInv
<1>1. Init => BufferFound \/ CacheFull
  BY DEF Init, BufferFound
<1>2. BioIInv /\ (BufferFound \/ CacheFull) /\ [Next]_vars => (BufferFound \/ CacheFull)'
  <2> SUFFICES ASSUME BioIInv, BufferFound \/ CacheFull, [Next]_vars
               PROVE  (BufferFound \/ CacheFull)'
    OBVIOUS
  <2>1. CASE ~ panicked /\ Next
    BY <2>1, PanicStep DEF BufferFound
  <2>2. CASE panicked /\ Next
    <3>1. UNCHANGED vars
      BY <2>2 DEF Next, Step, Halted, Bget, AcquireSleep, Bread, Modify, Bwrite, Bpin,
                  InstallWrite, Bunpin, ReleaseSleep, BrelsePut
    <3>2. UNCHANGED <<panicked, blockno, pinned, pc, buf>>
      BY <3>1 DEF vars, bufVars
    <3>3. \A b \in Bufs : UsersOf(b)' = UsersOf(b)
      BY <3>2, UsersSame
    <3> QED
      BY <3>2, <3>3 DEF BufferFound, CacheFull
  <2>3. CASE UNCHANGED vars
    <3>1. UNCHANGED <<panicked, blockno, pinned, pc, buf>>
      BY <2>3 DEF vars, bufVars
    <3>2. \A b \in Bufs : UsersOf(b)' = UsersOf(b)
      BY <3>1, UsersSame
    <3> QED
      BY <3>1, <3>2 DEF BufferFound, CacheFull
  <2> QED
    BY <2>1, <2>2, <2>3
<1>3. BioIInv /\ (BufferFound \/ CacheFull) => CacheInv
  BY DEF BioIInv, CacheInv
<1> QED
  BY <1>1, <1>2, <1>3, BioInvariant, PTL DEF Spec

\* How large the cache has to be: with a buffer for each block of a full log
\* and MAXHELD for each process that uses the cache at a time, bget() never
\* panics.
THEOREM BioSizing ==
  ASSUME NBUF >= Cardinality(Procs) * MAXHELD + LOGSIZE
  PROVE  Spec => []BufferFound
<1>1. Init => BufferFound
  BY DEF Init, BufferFound
<1>2. BioIInv /\ BufferFound /\ [Next]_vars => BufferFound'
  <2> SUFFICES ASSUME BioIInv, ~ panicked, [Next]_vars, panicked'
               PROVE  FALSE
    BY DEF BufferFound
  <2>1. Next
    BY DEF vars
  <2>2. PICK u \in Uses : pc[u] = "idle"
    BY <2>1, PanicStep
  <2>3. NBUF < Cardinality(Uses) + LOGSIZE
    BY <2>1, <2>2, PanicStep, Room
  <2>4. NBUF >= Cardinality(Uses) + LOGSIZE /\ Cardinality(Uses) \in Nat
    BY UsesFinite
  <2> QED
    BY <2>3, <2>4, BioAssumption
<1> QED
  BY <1>1, <1>2, BioInvariant, PTL DEF Spec
=============================================================================
