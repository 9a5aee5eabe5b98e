----------------------------- MODULE LogProofs ------------------------------
(***************************************************************************)
(* The safety of the log (module Log), crashes included, for any number of *)
(* blocks and processes and any size of the log.                           *)
(***************************************************************************)
EXTENDS Log, FiniteSetTheorems, TLAPS

(***************************************************************************)
(* The inductive invariant.                                                *)
(***************************************************************************)

\* The operations between begin_op() and end_op().
Active == {o \in Ops : pc[o] = "op"}

\* The blocks these operations have reserved and not logged yet.
Budget == {c \in Ops \X (1..MAXOPBLOCKS) : pc[c[1]] = "op" /\ Cardinality(used[c[1]]) < c[2]}

\* What an operation has logged is in the log until it ends.
Charged == \A o \in Ops :
  /\ IsFiniteSet(used[o]) /\ used[o] \subseteq Range(lh)
  /\ pc[o] # "op" => used[o] = {}

\* log.outstanding counts the operations, and the log has room for every block
\* they have reserved, unless one of them has logged more than that.
Reserved ==
  /\ IsFiniteSet(Active) /\ outstanding = Cardinality(Active)
  /\ ~ over => Len(lh) + Cardinality(Budget) <= LOGSIZE

\* At most one process commits, log.committing says so, and no operation runs
\* meanwhile.
OneCommitter ==
  /\ committing => Active = {} /\ \E o \in Ops : pc[o] \in Committer
  /\ \A o \in Ops : pc[o] \in Committer => committing
  /\ \A o, q \in Ops : pc[o] \in Committer /\ pc[q] \in Committer => o = q

\* What has been logged belongs to an operation or is being committed.
LogOpen == mode = "up" /\ lh # <<>> => committing \/ Active # {}

\* Log absorption: no block is logged twice.
Distinct == IsInjective(lh) /\ IsInjective(hdr)

\* The header on disk names blocks from the commit to the end of install_trans().
Header ==
  /\ mode = "up" => hdr = IF Installing THEN lh ELSE <<>>
  /\ mode = "install" => hdr = lh
  /\ \A o \in Ops : pc[o] = "finish" => lh = <<>>

\* How far a loop over the log has come.
TailInv ==
  /\ tail <= Len(lh) + 1
  /\ tail # 1 => mode = "install" \/ \E o \in Ops : pc[o] \in {"write_log", "install"}

\* Nothing runs before recovery has ended.
Booting ==
  /\ mode \in {"up", "read_head", "install"}
  /\ mode # "up" => \A o \in Ops : pc[o] = "idle"
  /\ mode = "read_head" => lh = <<>>

\* write_log() has copied the blocks before tail ...
Copied == \A o \in Ops : pc[o] = "write_log" =>
  \A k \in DOMAIN lh : k < tail => logblk[k] = Bread(lh[k])

\* ... and install_trans() finds in the log what the cache holds, and has
\* written the blocks before tail to their home locations.
Installed ==
  /\ \A o \in Ops : pc[o] = "install" => \A k \in DOMAIN lh : logblk[k] = Bread(lh[k])
  /\ mode = "install" \/ Installing =>
       \A k \in DOMAIN lh : k < tail => home[lh[k]] = logblk[k]

\* A pinned block is in the cache, and what is cached and not pinned is on disk.
PinsHold == mode = "up" => \A b \in Pinned : cache[b] # NoData
Coherent == \A b \in Blocks :
  cache[b] # NoData /\ (mode = "up" => b \notin Pinned) => cache[b] = home[b]

LogIInv ==
  /\ TypeOK /\ Charged /\ Reserved /\ OneCommitter /\ LogOpen /\ Distinct /\ Header /\ TailInv
  /\ Booting /\ Copied /\ Installed /\ PinsHold /\ Coherent /\ SleepJustified

\* What is left of it when log_write() has stopped the machine.
Stopped ==
  mode = "panic" /\ TypeOK /\ Distinct /\ SleepJustified /\ PanicExplained

-----------------------------------------------------------------------------
(* Operations and their reservations *)

\* begin_op() reserves MAXOPBLOCKS blocks for each operation of a set A.
LEMMA Reservation ==
  ASSUME NEW A, IsFiniteSet(A), NEW S \in SUBSET (A \X (1..MAXOPBLOCKS))
  PROVE  /\ IsFiniteSet(S) /\ Cardinality(S) \in Nat
         /\ Cardinality(S) <= Cardinality(A) * MAXOPBLOCKS
<1>1. IsFiniteSet(1..MAXOPBLOCKS) /\ Cardinality(1..MAXOPBLOCKS) = MAXOPBLOCKS
  <2>1. 1 \in Int /\ MAXOPBLOCKS \in Int /\ MAXOPBLOCKS >= 1
    BY LogAssumption
  <2>2. /\ IsFiniteSet(1..MAXOPBLOCKS)
        /\ Cardinality(1..MAXOPBLOCKS) = IF 1 > MAXOPBLOCKS THEN 0 ELSE MAXOPBLOCKS - 1 + 1
    BY <2>1, FS_Interval
  <2> QED
    BY <2>1, <2>2
<1>2. /\ IsFiniteSet(A \X (1..MAXOPBLOCKS))
      /\ Cardinality(A \X (1..MAXOPBLOCKS)) = Cardinality(A) * MAXOPBLOCKS
  BY <1>1, FS_Product
<1>3. IsFiniteSet(S) /\ Cardinality(S) <= Cardinality(A \X (1..MAXOPBLOCKS))
  BY <1>2, FS_Subset
<1> QED
  BY <1>2, <1>3, FS_CardinalityType

\* The reservations are finite, and an operation in progress is counted.
LEMMA Counted ==
  ASSUME TypeOK, Reserved
  PROVE  /\ IsFiniteSet(Budget) /\ Cardinality(Budget) \in Nat
         /\ Cardinality(Active) \in Nat
         /\ outstanding = 0 <=> Active = {}
         /\ \A o \in Active : outstanding = 1 => Active = {o}
<1>1. IsFiniteSet(Active) /\ outstanding = Cardinality(Active) /\ Cardinality(Active) \in Nat
  BY FS_CardinalityType DEF Reserved
<1>2. Budget \in SUBSET (Active \X (1..MAXOPBLOCKS))
  BY DEF Budget, Active
<1>3. IsFiniteSet(Budget) /\ Cardinality(Budget) \in Nat
  BY <1>1, <1>2, Reservation
<1>4. outstanding = 0 <=> Active = {}
  BY <1>1, FS_EmptySet
<1>5. ASSUME NEW o \in Active, outstanding = 1
      PROVE  Active = {o}
  <2>1. PICK x : Active = {x}
    BY <1>1, <1>5, FS_Singleton
  <2> QED
    BY <2>1
<1> QED
  BY <1>1, <1>3, <1>4, <1>5

\* The number of blocks an operation has logged.
LEMMA UsedCount ==
  ASSUME Charged, NEW o \in Ops
  PROVE  IsFiniteSet(used[o]) /\ Cardinality(used[o]) \in Nat
  BY FS_CardinalityType DEF Charged

\* An operation that has logged fewer than MAXOPBLOCKS finds room in the log, as
\* long as none has logged more, and it is counted.
LEMMA CanWrite ==
  ASSUME LogIInv, NEW o \in Ops, pc[o] = "op"
  PROVE  /\ outstanding >= 1
         /\ ~ over /\ Cardinality(used[o]) < MAXOPBLOCKS =>
              Len(lh) < LOGSIZE /\ <<o, Cardinality(used[o]) + 1>> \in Budget
<1>0. TypeOK /\ Reserved /\ Charged
  BY DEF LogIInv
<1>1. Cardinality(used[o]) \in Nat /\ Len(lh) \in Nat
  BY <1>0, UsedCount DEF TypeOK
<1>2. o \in Active
  BY DEF Active
<1>3. outstanding \in Nat /\ outstanding # 0
  BY <1>0, <1>2, Counted DEF TypeOK
<1>4. ASSUME ~ over, Cardinality(used[o]) < MAXOPBLOCKS
      PROVE  Len(lh) < LOGSIZE /\ <<o, Cardinality(used[o]) + 1>> \in Budget
  <2>1. <<o, Cardinality(used[o]) + 1>> \in Budget
    <3> DEFINE c == <<o, Cardinality(used[o]) + 1>>
    <3>1. c \in Ops \X (1..MAXOPBLOCKS) /\ c[1] = o /\ c[2] = Cardinality(used[o]) + 1
      BY <1>1, <1>4, LogAssumption
    <3>2. Cardinality(used[o]) < Cardinality(used[o]) + 1
      BY <1>1
    <3> QED
      BY <3>1, <3>2 DEF Budget
  <2>2. Cardinality(Budget) \in Nat /\ Cardinality(Budget) # 0
    BY <1>0, <2>1, Counted, FS_EmptySet
  <2>3. Len(lh) + Cardinality(Budget) <= LOGSIZE
    BY <1>0, <1>4 DEF Reserved
  <2> QED
    BY <1>1, <2>1, <2>2, <2>3, LogAssumption
<1> QED
  BY <1>3, <1>4

\* What log_write() does when it finds room.
LEMMA Logged ==
  ASSUME LogIInv, NEW o \in Ops, NEW b \in Blocks, NEW v \in Data,
         LogWrite(o, b, v), mode' # "panic"
  PROVE  /\ mode = "up" /\ pc[o] = "op" /\ ~ committing
         /\ lh' = IF b \in Range(lh) THEN lh ELSE Append(lh, b)
         /\ Len(lh) < LOGSIZE
         /\ used' = [used EXCEPT ![o] = @ \cup {b}]
         /\ over' = (over \/ Cardinality(used[o] \cup {b}) > MAXOPBLOCKS)
         /\ cache' = [cache EXCEPT ![b] = v]
         /\ UNCHANGED <<home, logblk, hdr, outstanding, committing, tail, pc, mode>>
<1>1. mode = "up" /\ pc[o] = "op"
  BY DEF LogWrite
<1>2. /\ Len(lh) < LOGSIZE /\ mode' = mode /\ used' = [used EXCEPT ![o] = @ \cup {b}]
      /\ lh' = IF b \in Range(lh) THEN lh ELSE Append(lh, b)
  BY DEF LogWrite
<1>3. ~ committing
  BY <1>1 DEF LogIInv, OneCommitter, Active
<1> QED
  BY <1>1, <1>2, <1>3 DEF LogWrite, diskVars

\* The two outcomes of end_op(): the last operation commits, another one leaves.
LEMMA Ended ==
  ASSUME LogIInv, NEW o \in Ops, EndOp(o)
  PROVE  /\ mode = "up" /\ pc[o] = "op" /\ ~ committing
         /\ outstanding \in Nat /\ outstanding >= 1 /\ outstanding' = outstanding - 1
         /\ used' = [used EXCEPT ![o] = {}]
         /\ UNCHANGED <<home, logblk, hdr, cache, lh, tail, over, mode>>
         /\ \/ /\ Active = {o} /\ committing' = TRUE
               /\ pc' = [pc EXCEPT ![o] = IF lh = <<>> THEN "finish" ELSE "write_log"]
            \/ /\ outstanding # 1 /\ Wakeup(o, "idle")
               /\ committing' = committing
<1>1. mode = "up" /\ pc[o] = "op" /\ ~ committing
  BY DEF EndOp, LogIInv, OneCommitter, Active
<1>2. o \in Active /\ outstanding \in Nat
  BY <1>1 DEF Active, LogIInv, TypeOK
<1>3. outstanding # 0 /\ (outstanding = 1 => Active = {o})
  BY <1>2, Counted DEF LogIInv
<1> QED
  BY <1>1, <1>2, <1>3 DEF EndOp, diskVars, Goto

\* A step that does not end in a panic.
Running == [Next]_vars /\ mode' # "panic"

\* Every variable keeps its type.
LEMMA TypeStep == LogIInv /\ Running => TypeOK'
<1> SUFFICES ASSUME LogIInv, [Next]_vars, mode' # "panic"
             PROVE  TypeOK'
  BY DEF Running
<1> USE DEF TypeOK, Pcs, Committer, Goto, diskVars, memVars
<1>0. TypeOK
  BY DEF LogIInv
<1>1. ASSUME NEW o \in Ops, BeginOp(o) PROVE TypeOK'
  BY <1>0, <1>1 DEF BeginOp
<1>2. ASSUME NEW o \in Ops, NEW b \in Blocks, NEW v \in Data, LogWrite(o, b, v)
      PROVE  TypeOK'
  <2>1. lh' \in Seq(Blocks) /\ Len(lh') <= LOGSIZE
    <3>1. CASE b \in Range(lh)
      BY <1>0, <1>2, <3>1, Logged
    <3>2. CASE b \notin Range(lh)
      <4>1. lh' = Append(lh, b) /\ Len(lh) < LOGSIZE
        BY <1>2, <3>2, Logged
      <4> QED
        BY <1>0, <4>1, LogAssumption
    <3> QED
      BY <3>1, <3>2
  <2>2. used' \in [Ops -> SUBSET Blocks] /\ over' \in BOOLEAN
    <3>1. used' = [used EXCEPT ![o] = @ \cup {b}]
      BY <1>2, Logged
    <3>2. over' \in BOOLEAN
      BY <1>0, <1>2, Logged
    <3> QED
      BY <1>0, <3>1, <3>2
  <2>3. cache' \in [Blocks -> Data \cup {NoData}]
    <3>1. cache' = [cache EXCEPT ![b] = v]
      BY <1>2 DEF LogWrite
    <3> QED
      BY <1>0, <3>1
  <2>4. UNCHANGED <<home, logblk, hdr, outstanding, committing, tail, pc, mode>>
    BY <1>2, Logged
  <2> QED
    BY <1>0, <2>1, <2>2, <2>3, <2>4
<1>3. ASSUME NEW o \in Ops, EndOp(o) PROVE TypeOK'
  <2>1. outstanding' \in Nat /\ committing' \in BOOLEAN
    <3>1. outstanding \in Nat /\ outstanding >= 1 /\ outstanding' = outstanding - 1
      BY <1>3, Ended
    <3>2. committing' = TRUE \/ committing' = committing
      BY <1>3, Ended
    <3>3. outstanding' \in Nat
      BY <3>1
    <3>4. committing' \in BOOLEAN
      BY <1>0, <3>2
    <3> QED
      BY <3>3, <3>4
  <2>2. pc' \in [Ops -> Pcs]
    BY ZenonT(30), <1>0, <1>3, Ended DEF Wakeup
  <2>3. used' \in [Ops -> SUBSET Blocks]
    <3>1. used' = [used EXCEPT ![o] = {}]
      BY <1>3, Ended
    <3> QED
      BY <1>0, <3>1
  <2>4. UNCHANGED <<home, logblk, hdr, cache, lh, tail, over, mode>>
    BY <1>3, Ended
  <2> QED
    BY <1>0, <2>1, <2>2, <2>3, <2>4
<1>4. ASSUME NEW o \in Ops, WriteLog(o) PROVE TypeOK'
  <2>1. tail \in Slots /\ tail \in DOMAIN lh /\ lh[tail] \in Blocks /\ tail + 1 \in 1..(LOGSIZE + 1)
    BY <1>0, <1>4, LogAssumption DEF WriteLog, Slots
  <2>2. Bread(lh[tail]) \in Data
    BY <1>0, <2>1 DEF Bread
  <2> QED
    BY <1>0, <1>4, <2>1, <2>2 DEF WriteLog
<1>5. ASSUME NEW o \in Ops, WriteHead(o) PROVE TypeOK'
  <2>1. 1 \in 1..(LOGSIZE + 1)
    BY LogAssumption
  <2> QED
    BY <1>0, <1>5, <2>1 DEF WriteHead
<1>6. ASSUME NEW o \in Ops, InstallTrans(o) PROVE TypeOK'
  <2>1. tail \in Slots /\ lh[tail] \in Blocks /\ tail + 1 \in 1..(LOGSIZE + 1)
    BY <1>0, <1>6, LogAssumption DEF InstallTrans, InstallBlock, Slots
  <2> QED
    BY <1>0, <1>6, <2>1 DEF InstallTrans, InstallBlock
<1>7. ASSUME NEW o \in Ops, ClearHead(o) PROVE TypeOK'
  <2>1. 1 \in 1..(LOGSIZE + 1) /\ <<>> \in Seq(Blocks) /\ Len(<<>>) <= LOGSIZE
    BY LogAssumption
  <2> QED
    BY <1>0, <1>7, <2>1 DEF ClearHead
<1>8. ASSUME NEW o \in Ops, EndCommit(o) PROVE TypeOK'
  BY <1>0, <1>8 DEF EndCommit, Wakeup
<1>9. ASSUME NEW b \in Blocks, Load(b) PROVE TypeOK'
  BY <1>0, <1>9 DEF Load
<1>10. ASSUME NEW b \in Blocks, Evict(b) PROVE TypeOK'
  BY <1>0, <1>10 DEF Evict
<1>11. CASE ReadHead
  BY <1>0, <1>11 DEF ReadHead
<1>12. CASE RecoverInstall
  <2>1. tail \in Slots /\ lh[tail] \in Blocks /\ tail + 1 \in 1..(LOGSIZE + 1)
    BY <1>0, <1>12, LogAssumption DEF RecoverInstall, InstallBlock, Slots
  <2> QED
    BY <1>0, <1>12, <2>1 DEF RecoverInstall, InstallBlock
<1>13. CASE RecoverClear
  <2>1. 1 \in 1..(LOGSIZE + 1) /\ <<>> \in Seq(Blocks) /\ Len(<<>>) <= LOGSIZE
    BY LogAssumption
  <2> QED
    BY <1>0, <1>13, <2>1 DEF RecoverClear
<1>14. CASE Crash
  <2>1. 1 \in 1..(LOGSIZE + 1) /\ <<>> \in Seq(Blocks) /\ Len(<<>>) <= LOGSIZE
    BY LogAssumption
  <2> QED
    BY <1>0, <1>14, <2>1 DEF Crash
<1>15. CASE UNCHANGED vars
  BY <1>0, <1>15 DEF vars, memVars, diskVars
<1> QED
  BY <1>1, <1>2, <1>3, <1>4, <1>5, <1>6, <1>7, <1>8, <1>9, <1>10, <1>11, <1>12, <1>13, <1>14, <1>15
     DEF Next, Other, CommitNext

\* Who is in an operation, and what it may still write, changes with begin_op(),
\* log_write() and end_op() only.
LEMMA ActiveSame ==
  ASSUME \A o \in Ops : pc'[o] = "op" <=> pc[o] = "op", used' = used
  PROVE  Active' = Active /\ Budget' = Budget
  BY DEF Active, Budget

\* Nobody is in an operation, and nothing is reserved, while the machine starts.
LEMMA NoneActive ==
  ASSUME \A o \in Ops : pc[o] # "op"
  PROVE  /\ Active = {} /\ Budget = {}
         /\ IsFiniteSet(Active) /\ Cardinality(Active) = 0 /\ Cardinality(Budget) = 0
<1>1. Active = {} /\ Budget = {}
  BY DEF Active, Budget
<1> QED
  BY <1>1, FS_EmptySet


\* begin_op() reserves, log_write() consumes, end_op() gives back.
LEMMA ReserveStep == LogIInv /\ Running => Reserved'
<1> SUFFICES ASSUME LogIInv, [Next]_vars, mode' # "panic"
             PROVE  Reserved'
  BY DEF Running
<1> USE DEF Goto, diskVars, memVars
<1>0. TypeOK /\ Reserved /\ Charged
  BY DEF LogIInv
<1>1. ASSUME NEW o \in Ops, BeginOp(o) PROVE Reserved'
  <2>1. CASE UNCHANGED outstanding /\ Goto(o, "asleep")
    <3>1. \A q \in Ops : pc'[q] = "op" <=> pc[q] = "op"
      BY <1>0, <1>1, <2>1 DEF BeginOp, TypeOK
    <3>2. UNCHANGED <<used, over, lh, outstanding>>
      BY <1>1, <2>1 DEF BeginOp
    <3>3. Active' = Active /\ Budget' = Budget
      BY <3>1, <3>2, ActiveSame
    <3> QED
      BY <1>0, <3>2, <3>3 DEF Reserved
  <2>2. CASE ~ NoSpace /\ outstanding' = outstanding + 1 /\ Goto(o, "op")
    <3>1. Active' = Active \cup {o} /\ o \notin Active
      BY <1>0, <1>1, <2>2 DEF BeginOp, Active, TypeOK
    <3>2. IsFiniteSet(Active') /\ Cardinality(Active') = outstanding'
      BY <1>0, <2>2, <3>1, FS_AddElement DEF Reserved
    <3>3. Budget' \in SUBSET (Active' \X (1..MAXOPBLOCKS))
      BY DEF Budget, Active
    <3>4. Len(lh) + (outstanding + 1) * MAXOPBLOCKS <= LOGSIZE /\ UNCHANGED <<lh, over>>
      <4>1. Len(lh) \in Nat /\ (outstanding + 1) * MAXOPBLOCKS \in Nat
        BY <1>0, LogAssumption DEF TypeOK
      <4> QED
        BY <1>1, <2>2, <4>1, LogAssumption DEF NoSpace, BeginOp
    <3>5. /\ Cardinality(Budget') \in Nat
          /\ Cardinality(Budget') <= Cardinality(Active') * MAXOPBLOCKS
      BY <3>2, <3>3, Reservation
    <3>6. Len(lh') + Cardinality(Budget') <= LOGSIZE
      <4>1. Len(lh) \in Nat /\ outstanding \in Nat /\ (outstanding + 1) * MAXOPBLOCKS \in Nat
        BY <1>0, LogAssumption DEF TypeOK
      <4>2. Cardinality(Budget') <= (outstanding + 1) * MAXOPBLOCKS
        BY <2>2, <3>2, <3>5
      <4> QED
        BY <3>4, <3>5, <4>1, <4>2, LogAssumption
    <3> QED
      BY <3>2, <3>6 DEF Reserved
  <2> QED
    BY <1>1, <2>1, <2>2 DEF BeginOp
<1>2. ASSUME NEW o \in Ops, NEW b \in Blocks, NEW v \in Data, LogWrite(o, b, v)
      PROVE  Reserved'
  <2>1. /\ used' = [used EXCEPT ![o] = @ \cup {b}] /\ pc[o] = "op"
        /\ lh' = IF b \in Range(lh) THEN lh ELSE Append(lh, b)
        /\ UNCHANGED <<pc, outstanding>>
    BY <1>2, Logged
  <2>2. Active' = Active
    BY <2>1 DEF Active
  <2>3. ASSUME ~ over'
        PROVE  Len(lh') + Cardinality(Budget') <= LOGSIZE
    <3>1. over' = (over \/ Cardinality(used[o] \cup {b}) > MAXOPBLOCKS)
      BY <1>2, Logged
    <3>2. ~ over /\ ~ (Cardinality(used[o] \cup {b}) > MAXOPBLOCKS)
      BY <2>3, <3>1
    <3>3. CASE b \in used[o]
      <4>1. b \in Range(lh) /\ used[o] \cup {b} = used[o]
        BY <1>0, <3>3 DEF Charged
      <4>2. lh' = lh /\ used' = used
        BY <1>0, <2>1, <4>1 DEF TypeOK
      <4>3. Budget' = Budget
        BY <2>1, <4>2 DEF Budget
      <4> QED
        BY <1>0, <3>2, <4>2, <4>3 DEF Reserved
    <3>4. CASE b \notin used[o]
      <4> DEFINE n == Cardinality(used[o])
      <4> DEFINE c == <<o, n + 1>>
      <4>1. n \in Nat /\ Cardinality(used[o] \cup {b}) = n + 1
        BY <1>0, <3>4, UsedCount, FS_AddElement
      <4>2. n < MAXOPBLOCKS
        BY <3>2, <4>1, LogAssumption
      <4>3. c \in Budget
        BY <2>1, <3>2, <4>2, CanWrite
      <4>4. Cardinality(used'[o]) = n + 1 /\ \A q \in Ops : q # o => used'[q] = used[q]
        BY <1>0, <2>1, <4>1 DEF TypeOK
      <4>5. Budget' = Budget \ {c}
        <5>1. ASSUME NEW q \in Ops, NEW k \in 1..MAXOPBLOCKS
              PROVE  <<q, k>> \in Budget' <=> <<q, k>> \in Budget /\ <<q, k>> # c
          <6>1. CASE q = o
            <7>1. Cardinality(used'[o]) < k <=> n < k /\ k # n + 1
              <8> HIDE DEF n
              <8> QED
                BY <4>1, <4>4
            <7> QED
              BY <2>1, <6>1, <7>1 DEF Budget
          <6>2. CASE q # o
            BY <2>1, <4>4, <6>2 DEF Budget
          <6> QED
            BY <6>1, <6>2
        <5>2. Budget' \subseteq Ops \X (1..MAXOPBLOCKS) /\ Budget \subseteq Ops \X (1..MAXOPBLOCKS)
          BY DEF Budget
        <5> HIDE DEF c
        <5> QED
          BY <5>1, <5>2
      <4> HIDE DEF c
      <4>6. IsFiniteSet(Budget) /\ Cardinality(Budget) \in Nat
        BY <1>0, Counted
      <4>7. Cardinality(Budget') = Cardinality(Budget) - 1
        BY <4>3, <4>5, <4>6, FS_RemoveElement
      <4>8. Len(lh) \in Nat /\ Len(lh') \in Nat /\ Len(lh') <= Len(lh) + 1
        BY <1>0, <2>1 DEF TypeOK
      <4>9. Len(lh) + Cardinality(Budget) <= LOGSIZE
        BY <1>0, <3>2 DEF Reserved
      <4> QED
        BY <4>6, <4>7, <4>8, <4>9, LogAssumption
    <3> QED
      BY <3>3, <3>4
  <2> QED
    BY <1>0, <2>1, <2>2, <2>3 DEF Reserved
<1>3. ASSUME NEW o \in Ops, EndOp(o) PROVE Reserved'
  <2>1. /\ pc[o] = "op" /\ outstanding' = outstanding - 1 /\ lh' = lh /\ over' = over
        /\ used' = [used EXCEPT ![o] = {}]
    BY <1>3, Ended
  <2>2. \A q \in Ops : pc'[q] = "op" <=> pc[q] = "op" /\ q # o
    BY ZenonT(30), <1>0, <1>3, Ended DEF Wakeup, TypeOK
  <2>3. Active' = Active \ {o} /\ o \in Active
    BY <2>1, <2>2 DEF Active
  <2>4. IsFiniteSet(Active') /\ Cardinality(Active') = outstanding'
    BY <1>0, <2>1, <2>3, FS_RemoveElement DEF Reserved
  <2>5. Budget' \in SUBSET Budget
    <3>1. \A q \in Ops : q # o => used'[q] = used[q]
      BY <1>0, <2>1 DEF TypeOK
    <3> QED
      BY <2>2, <3>1 DEF Budget
  <2>6. IsFiniteSet(Budget) /\ Cardinality(Budget) \in Nat
    BY <1>0, Counted
  <2>7. Cardinality(Budget') <= Cardinality(Budget) /\ Cardinality(Budget') \in Nat
    BY <2>5, <2>6, FS_Subset, FS_CardinalityType
  <2>8. Len(lh) \in Nat
    BY <1>0 DEF TypeOK
  <2>9. ~ over' => Len(lh') + Cardinality(Budget') <= LOGSIZE
    BY <1>0, <2>1, <2>6, <2>7, <2>8, LogAssumption DEF Reserved
  <2> QED
    BY <2>4, <2>9 DEF Reserved
<1>4. ASSUME NEW o \in Ops, WriteLog(o) PROVE Reserved'
  <2>1. \A q \in Ops : pc'[q] = "op" <=> pc[q] = "op"
    BY <1>0, <1>4 DEF WriteLog, TypeOK
  <2>2. UNCHANGED <<used, over, lh, outstanding>>
    BY <1>4 DEF WriteLog
  <2>3. Active' = Active /\ Budget' = Budget
    BY <2>1, <2>2, ActiveSame
  <2> QED
    BY <1>0, <2>2, <2>3 DEF Reserved
<1>5. ASSUME NEW o \in Ops, WriteHead(o) PROVE Reserved'
  <2>1. \A q \in Ops : pc'[q] = "op" <=> pc[q] = "op"
    BY <1>0, <1>5 DEF WriteHead, TypeOK
  <2>2. UNCHANGED <<used, over, lh, outstanding>>
    BY <1>5 DEF WriteHead
  <2>3. Active' = Active /\ Budget' = Budget
    BY <2>1, <2>2, ActiveSame
  <2> QED
    BY <1>0, <2>2, <2>3 DEF Reserved
<1>6. ASSUME NEW o \in Ops, InstallTrans(o) PROVE Reserved'
  <2>1. \A q \in Ops : pc'[q] = "op" <=> pc[q] = "op"
    BY <1>0, <1>6 DEF InstallTrans, InstallBlock, TypeOK
  <2>2. UNCHANGED <<used, over, lh, outstanding>>
    BY <1>6 DEF InstallTrans, InstallBlock
  <2>3. Active' = Active /\ Budget' = Budget
    BY <2>1, <2>2, ActiveSame
  <2> QED
    BY <1>0, <2>2, <2>3 DEF Reserved
<1>7. ASSUME NEW o \in Ops, ClearHead(o) PROVE Reserved'
  <2>1. committing
    BY <1>7 DEF ClearHead, LogIInv, OneCommitter, Committer
  <2>2. \A q \in Ops : pc[q] # "op"
    BY <2>1 DEF LogIInv, OneCommitter, Active
  <2>3. \A q \in Ops : pc'[q] # "op"
    BY <1>0, <1>7, <2>2 DEF ClearHead, TypeOK
  <2>4. Cardinality(Active) = 0 /\ outstanding' = outstanding
    BY <1>7, <2>2, NoneActive DEF ClearHead
  <2>5. IsFiniteSet(Active') /\ Cardinality(Active') = 0 /\ Cardinality(Budget') = 0
    <3>1. Active' = {} /\ Budget' = {}
      BY <2>3 DEF Active, Budget
    <3> QED
      BY <3>1, FS_EmptySet
  <2>6. Len(lh') = 0
    BY <1>7 DEF ClearHead
  <2>7. Len(lh') + Cardinality(Budget') <= LOGSIZE
    BY <2>5, <2>6, LogAssumption
  <2> QED
    BY <1>0, <2>4, <2>5, <2>7 DEF Reserved
<1>8. ASSUME NEW o \in Ops, EndCommit(o) PROVE Reserved'
  <2>1. \A q \in Ops : pc'[q] = "op" <=> pc[q] = "op"
    BY <1>0, <1>8 DEF EndCommit, Wakeup, TypeOK
  <2>2. UNCHANGED <<used, over, lh, outstanding>>
    BY <1>8 DEF EndCommit, Wakeup
  <2>3. Active' = Active /\ Budget' = Budget
    BY <2>1, <2>2, ActiveSame
  <2> QED
    BY <1>0, <2>2, <2>3 DEF Reserved
<1>9. ASSUME NEW b \in Blocks, Load(b) PROVE Reserved'
  <2>1. \A q \in Ops : pc'[q] = "op" <=> pc[q] = "op"
    BY <1>0, <1>9 DEF Load, TypeOK
  <2>2. UNCHANGED <<used, over, lh, outstanding>>
    BY <1>9 DEF Load
  <2>3. Active' = Active /\ Budget' = Budget
    BY <2>1, <2>2, ActiveSame
  <2> QED
    BY <1>0, <2>2, <2>3 DEF Reserved
<1>10. ASSUME NEW b \in Blocks, Evict(b) PROVE Reserved'
  <2>1. \A q \in Ops : pc'[q] = "op" <=> pc[q] = "op"
    BY <1>0, <1>10 DEF Evict, TypeOK
  <2>2. UNCHANGED <<used, over, lh, outstanding>>
    BY <1>10 DEF Evict
  <2>3. Active' = Active /\ Budget' = Budget
    BY <2>1, <2>2, ActiveSame
  <2> QED
    BY <1>0, <2>2, <2>3 DEF Reserved
<1>11. CASE ReadHead
  <2>1. \A q \in Ops : pc[q] # "op" /\ pc'[q] # "op"
    BY <1>11 DEF ReadHead, LogIInv, Booting
  <2>2. Cardinality(Active) = 0 /\ outstanding' = 0
    BY <1>0, <1>11, <2>1, NoneActive DEF ReadHead, Reserved
  <2>3. IsFiniteSet(Active') /\ Cardinality(Active') = 0 /\ Cardinality(Budget') = 0
    <3>1. Active' = {} /\ Budget' = {}
      BY <2>1 DEF Active, Budget
    <3> QED
      BY <3>1, FS_EmptySet
  <2>4. Len(lh') \in Nat /\ Len(lh') <= LOGSIZE
    BY <1>0, <1>11 DEF ReadHead, TypeOK
  <2>5. Len(lh') + Cardinality(Budget') <= LOGSIZE
    BY <2>3, <2>4
  <2> QED
    BY <2>2, <2>3, <2>5 DEF Reserved
<1>12. CASE RecoverInstall
  <2>1. \A q \in Ops : pc'[q] = "op" <=> pc[q] = "op"
    BY <1>0, <1>12 DEF RecoverInstall, InstallBlock, TypeOK
  <2>2. UNCHANGED <<used, over, lh, outstanding>>
    BY <1>12 DEF RecoverInstall, InstallBlock
  <2>3. Active' = Active /\ Budget' = Budget
    BY <2>1, <2>2, ActiveSame
  <2> QED
    BY <1>0, <2>2, <2>3 DEF Reserved
<1>13. CASE RecoverClear
  <2>1. \A q \in Ops : pc[q] # "op" /\ pc'[q] # "op"
    BY <1>13 DEF RecoverClear, LogIInv, Booting
  <2>2. Cardinality(Active) = 0 /\ outstanding' = 0
    BY <1>0, <1>13, <2>1, NoneActive DEF RecoverClear, Reserved
  <2>3. IsFiniteSet(Active') /\ Cardinality(Active') = 0 /\ Cardinality(Budget') = 0
    <3>1. Active' = {} /\ Budget' = {}
      BY <2>1 DEF Active, Budget
    <3> QED
      BY <3>1, FS_EmptySet
  <2>4. Len(lh') = 0
    BY <1>13 DEF RecoverClear
  <2>5. Len(lh') + Cardinality(Budget') <= LOGSIZE
    BY <2>3, <2>4, LogAssumption
  <2> QED
    BY <2>2, <2>3, <2>5 DEF Reserved
<1>14. CASE Crash
  <2>1. /\ \A q \in Ops : pc'[q] # "op"
        /\ outstanding' = 0 /\ lh' = <<>>
    BY <1>14 DEF Crash
  <2>2. IsFiniteSet(Active') /\ Cardinality(Active') = 0 /\ Cardinality(Budget') = 0
    <3>1. Active' = {} /\ Budget' = {}
      BY <2>1 DEF Active, Budget
    <3> QED
      BY <3>1, FS_EmptySet
  <2>3. Len(lh') + Cardinality(Budget') <= LOGSIZE
    BY <2>1, <2>2, LogAssumption
  <2> QED
    BY <2>1, <2>2, <2>3 DEF Reserved
<1>15. CASE UNCHANGED vars
  <2>1. \A q \in Ops : pc'[q] = "op" <=> pc[q] = "op"
    BY <1>0, <1>15 DEF vars, TypeOK
  <2>2. UNCHANGED <<used, over, lh, outstanding>>
    BY <1>15 DEF vars
  <2>3. Active' = Active /\ Budget' = Budget
    BY <2>1, <2>2, ActiveSame
  <2> QED
    BY <1>0, <2>2, <2>3 DEF Reserved
<1> QED
  BY <1>1, <1>2, <1>3, <1>4, <1>5, <1>6, <1>7, <1>8, <1>9, <1>10, <1>11, <1>12, <1>13, <1>14, <1>15
     DEF Next, Other, CommitNext

\* What an operation has logged stays charged to it until end_op().
LEMMA SameCharge ==
  ASSUME Charged, UNCHANGED <<used, lh>>, \A q \in Ops : pc'[q] = "op" <=> pc[q] = "op"
  PROVE  Charged'
  BY DEF Charged

\* Nobody is charged with anything when no operation is in progress.
LEMMA NoCharge ==
  ASSUME \A q \in Ops : used'[q] = {}
  PROVE  Charged'
  BY FS_EmptySet DEF Charged

\* log_write() charges the operation with the block, and logs it.
LEMMA ChargeStep == LogIInv /\ Running => Charged'
<1> SUFFICES ASSUME LogIInv, [Next]_vars, mode' # "panic"
             PROVE  Charged'
  BY DEF Running
<1> USE DEF Goto, diskVars, memVars
<1>0. TypeOK /\ Charged /\ Booting
  BY DEF LogIInv
<1>a. pc \in [Ops -> Pcs] /\ used \in [Ops -> SUBSET Blocks] /\ lh \in Seq(Blocks)
  BY <1>0 DEF TypeOK
<1>1. ASSUME NEW o \in Ops, BeginOp(o) PROVE Charged'
  <2>1. pc[o] # "op" /\ UNCHANGED <<used, lh>> /\ \A q \in Ops : q # o => pc'[q] = pc[q]
    BY <1>a, <1>1 DEF BeginOp
  <2> QED
    BY <1>0, <2>1 DEF Charged
<1>2. ASSUME NEW o \in Ops, NEW b \in Blocks, NEW v \in Data, LogWrite(o, b, v)
      PROVE  Charged'
  <2>1. /\ pc[o] = "op" /\ pc' = pc /\ used' = [used EXCEPT ![o] = @ \cup {b}]
        /\ lh' = IF b \in Range(lh) THEN lh ELSE Append(lh, b)
    BY <1>2, Logged
  <2>2. Range(lh) \subseteq Range(lh') /\ b \in Range(lh')
    <3>1. CASE b \in Range(lh)
      BY <2>1, <3>1
    <3>2. CASE b \notin Range(lh)
      <4>1. /\ lh' = Append(lh, b) /\ DOMAIN lh' = 1..(Len(lh) + 1)
            /\ DOMAIN lh = 1..Len(lh) /\ Len(lh) \in Nat
            /\ \A k \in 1..Len(lh) : lh'[k] = lh[k]
            /\ lh'[Len(lh) + 1] = b
        BY <1>a, <2>1, <3>2
      <4>2. 1..Len(lh) \subseteq 1..(Len(lh) + 1) /\ Len(lh) + 1 \in 1..(Len(lh) + 1)
        BY <4>1
      <4> QED
        BY <4>1, <4>2 DEF Range
    <3> QED
      BY <3>1, <3>2
  <2>3. used'[o] = used[o] \cup {b} /\ \A q \in Ops : q # o => used'[q] = used[q]
    BY <1>a, <2>1
  <2>4. IsFiniteSet(used'[o])
    <3>1. IsFiniteSet(used[o] \cup {b})
      BY <1>0, FS_AddElement DEF Charged
    <3> QED
      BY <2>3, <3>1
  <2> QED
    BY <1>0, <2>1, <2>2, <2>3, <2>4 DEF Charged
<1>3. ASSUME NEW o \in Ops, EndOp(o) PROVE Charged'
  <2>1. lh' = lh /\ used' = [used EXCEPT ![o] = {}]
    BY <1>3, Ended
  <2>2. \A q \in Ops : pc'[q] = "op" <=> pc[q] = "op" /\ q # o
    BY ZenonT(30), <1>a, <1>3, Ended DEF Wakeup, Pcs, Committer
  <2>3. used'[o] = {} /\ \A q \in Ops : q # o => used'[q] = used[q]
    BY <1>a, <2>1
  <2>4. IsFiniteSet({})
    BY FS_EmptySet
  <2> QED
    BY <1>0, <2>1, <2>2, <2>3, <2>4 DEF Charged
<1>4. ASSUME NEW o \in Ops, WriteLog(o) PROVE Charged'
  BY <1>0, <1>4, SameCharge DEF WriteLog
<1>5. ASSUME NEW o \in Ops, WriteHead(o) PROVE Charged'
  <2>1. UNCHANGED <<used, lh>> /\ \A q \in Ops : pc'[q] = "op" <=> pc[q] = "op"
    BY <1>a, <1>5 DEF WriteHead
  <2> QED
    BY <1>0, <2>1, SameCharge
<1>6. ASSUME NEW o \in Ops, InstallTrans(o) PROVE Charged'
  BY <1>0, <1>6, SameCharge DEF InstallTrans, InstallBlock
<1>7. ASSUME NEW o \in Ops, ClearHead(o) PROVE Charged'
  <2>1. committing
    BY <1>7 DEF ClearHead, LogIInv, OneCommitter, Committer
  <2>2. \A q \in Ops : pc[q] # "op"
    BY <2>1 DEF LogIInv, OneCommitter, Active
  <2>3. \A q \in Ops : used'[q] = {}
    BY <1>0, <1>7, <2>2 DEF ClearHead, Charged
  <2> QED
    BY <2>3, NoCharge
<1>8. ASSUME NEW o \in Ops, EndCommit(o) PROVE Charged'
  <2>1. UNCHANGED <<used, lh>> /\ \A q \in Ops : pc'[q] = "op" <=> pc[q] = "op"
    BY <1>a, <1>8 DEF EndCommit, Wakeup
  <2> QED
    BY <1>0, <2>1, SameCharge
<1>9. ASSUME NEW b \in Blocks, Load(b) PROVE Charged'
  BY <1>0, <1>9, SameCharge DEF Load
<1>10. ASSUME NEW b \in Blocks, Evict(b) PROVE Charged'
  BY <1>0, <1>10, SameCharge DEF Evict
<1>11. CASE ReadHead
  <2>1. \A q \in Ops : used'[q] = {}
    BY <1>0, <1>11 DEF ReadHead, Booting, Charged
  <2> QED
    BY <2>1, NoCharge
<1>12. CASE RecoverInstall
  BY <1>0, <1>12, SameCharge DEF RecoverInstall, InstallBlock
<1>13. CASE RecoverClear
  <2>1. \A q \in Ops : used'[q] = {}
    BY <1>0, <1>13 DEF RecoverClear, Booting, Charged
  <2> QED
    BY <2>1, NoCharge
<1>14. CASE Crash
  <2>1. \A q \in Ops : used'[q] = {}
    BY <1>14 DEF Crash
  <2> QED
    BY <2>1, NoCharge
<1>15. CASE UNCHANGED vars
  BY <1>0, <1>15, SameCharge DEF vars
<1> QED
  BY <1>1, <1>2, <1>3, <1>4, <1>5, <1>6, <1>7, <1>8, <1>9, <1>10, <1>11, <1>12, <1>13, <1>14, <1>15
     DEF Next, Other, CommitNext

\* A single process commits, and nobody else is in an operation then.
LEMMA ControlStep == LogIInv /\ Running => (OneCommitter /\ LogOpen /\ Booting)'
<1> SUFFICES ASSUME LogIInv, [Next]_vars, mode' # "panic"
             PROVE  (OneCommitter /\ LogOpen /\ Booting)'
  BY DEF Running
<1> USE DEF OneCommitter, LogOpen, Booting, Active, Committer, Goto, diskVars, memVars
<1>0. TypeOK /\ OneCommitter /\ LogOpen /\ Booting
  BY DEF LogIInv
<1>a. pc \in [Ops -> Pcs]
  BY <1>0 DEF TypeOK
<1>1. ASSUME NEW o \in Ops, BeginOp(o) PROVE (OneCommitter /\ LogOpen /\ Booting)'
  BY <1>0, <1>a, <1>1 DEF BeginOp
<1>2. ASSUME NEW o \in Ops, NEW b \in Blocks, NEW v \in Data, LogWrite(o, b, v)
      PROVE  (OneCommitter /\ LogOpen /\ Booting)'
  <2>1. pc[o] = "op" /\ UNCHANGED <<committing, pc, mode>>
    BY <1>2, Logged
  <2>2. OneCommitter'
    BY <1>0, <2>1
  <2>3. LogOpen'
    BY <2>1
  <2>4. Booting'
    BY <1>0, <1>2, <2>1 DEF LogWrite
  <2> QED
    BY <2>2, <2>3, <2>4
<1>3. ASSUME NEW o \in Ops, EndOp(o) PROVE (OneCommitter /\ LogOpen /\ Booting)'
  <2>0. /\ mode = "up" /\ pc[o] = "op" /\ ~ committing
        /\ UNCHANGED <<lh, mode>>
    BY <1>3, Ended
  <2>1. CASE /\ Active = {o} /\ committing' = TRUE
             /\ pc' = [pc EXCEPT ![o] = IF lh = <<>> THEN "finish" ELSE "write_log"]
    <3>1. \A q \in Ops : pc[q] = "op" <=> q = o
      BY <2>1
    <3>2. pc'[o] \in {"finish", "write_log"} /\ \A q \in Ops : q # o => pc'[q] = pc[q]
      BY <1>a, <2>1
    <3>3. OneCommitter'
      BY <1>0, <2>0, <2>1, <3>1, <3>2
    <3> QED
      BY <1>0, <2>0, <2>1, <3>3
  <2>2. CASE outstanding # 1 /\ Wakeup(o, "idle") /\ committing' = committing
    <3>1. PICK q \in Ops : pc[q] = "op" /\ q # o
      <4>1. Active # {o}
        <5>1. Cardinality({o}) = 1
          BY FS_Singleton
        <5> QED
          BY <2>2, <5>1 DEF LogIInv, Reserved
      <4>2. o \in Active
        BY <2>0
      <4> QED
        BY <4>1, <4>2
    <3>2. ASSUME NEW r \in Ops
          PROVE  /\ (pc'[r] = "op") <=> (pc[r] = "op" /\ r # o)
                 /\ (pc'[r] \in Committer) <=> (pc[r] \in Committer)
      <4>1. pc'[r] = IF r = o THEN "idle" ELSE IF pc[r] = "asleep" THEN "retry" ELSE pc[r]
        BY <2>2 DEF Wakeup
      <4> QED
        BY <2>0, <4>1
    <3>3. OneCommitter'
      BY <1>0, <2>0, <2>2, <3>2
    <3>4. LogOpen'
      BY <3>1, <3>2
    <3>5. Booting'
      BY <1>0, <2>0
    <3> QED
      BY <3>3, <3>4, <3>5
  <2> QED
    BY <1>3, <2>1, <2>2, Ended
<1>4. ASSUME NEW o \in Ops, WriteLog(o) PROVE (OneCommitter /\ LogOpen /\ Booting)'
  BY <1>0, <1>a, <1>4 DEF WriteLog
<1>5. ASSUME NEW o \in Ops, WriteHead(o) PROVE (OneCommitter /\ LogOpen /\ Booting)'
  BY <1>0, <1>a, <1>5 DEF WriteHead
<1>6. ASSUME NEW o \in Ops, InstallTrans(o) PROVE (OneCommitter /\ LogOpen /\ Booting)'
  BY <1>0, <1>a, <1>6 DEF InstallTrans, InstallBlock
<1>7. ASSUME NEW o \in Ops, ClearHead(o) PROVE (OneCommitter /\ LogOpen /\ Booting)'
  BY <1>0, <1>a, <1>7 DEF ClearHead
<1>8. ASSUME NEW o \in Ops, EndCommit(o) PROVE (OneCommitter /\ LogOpen /\ Booting)'
  <2>1. lh' = <<>>
    BY <1>8 DEF EndCommit, LogIInv, Header
  <2>2. OneCommitter' /\ Booting'
    BY <1>0, <1>a, <1>8 DEF EndCommit, Wakeup
  <2> QED
    BY <2>1, <2>2
<1>9. ASSUME NEW b \in Blocks, Load(b) PROVE (OneCommitter /\ LogOpen /\ Booting)'
  BY <1>0, <1>a, <1>9 DEF Load
<1>10. ASSUME NEW b \in Blocks, Evict(b) PROVE (OneCommitter /\ LogOpen /\ Booting)'
  BY <1>0, <1>a, <1>10 DEF Evict
<1>11. CASE ReadHead
  BY <1>0, <1>a, <1>11 DEF ReadHead
<1>12. CASE RecoverInstall
  BY <1>0, <1>a, <1>12 DEF RecoverInstall, InstallBlock
<1>13. CASE RecoverClear
  BY <1>0, <1>a, <1>13 DEF RecoverClear
<1>14. CASE Crash
  BY <1>0, <1>a, <1>14 DEF Crash
<1>15. CASE UNCHANGED vars
  BY <1>0, <1>a, <1>15 DEF vars, memVars, diskVars
<1> QED
  BY <1>1, <1>2, <1>3, <1>4, <1>5, <1>6, <1>7, <1>8, <1>9, <1>10, <1>11, <1>12, <1>13, <1>14, <1>15
     DEF Next, Other, CommitNext

\* One more operation takes more space.
LEMMA MoreSpace ==
  ASSUME NEW n \in Nat, NEW k \in Nat
  PROVE  /\ (n + 1) * MAXOPBLOCKS \in Nat
         /\ k + (n + 1) * MAXOPBLOCKS > LOGSIZE => k + (n + 1 + 1) * MAXOPBLOCKS > LOGSIZE
<1>1. (n + 1) * MAXOPBLOCKS \in Nat
  BY LogAssumption
<1>2. (n + 1 + 1) * MAXOPBLOCKS = (n + 1) * MAXOPBLOCKS + MAXOPBLOCKS
  BY LogAssumption
<1> QED
  BY <1>1, <1>2, LogAssumption

\* Whoever sleeps in begin_op() is woken when the reason is gone.
LEMMA SleepStep == LogIInv /\ Running => SleepJustified'
<1> SUFFICES ASSUME LogIInv, [Next]_vars, mode' # "panic"
             PROVE  SleepJustified'
  BY DEF Running
<1> USE DEF Goto, diskVars, memVars
<1>0. TypeOK /\ SleepJustified /\ OneCommitter /\ Booting
  BY DEF LogIInv
<1>1. ASSUME NEW o \in Ops, BeginOp(o) PROVE SleepJustified'
  <2>1. CASE /\ committing \/ NoSpace
             /\ Goto(o, "asleep") /\ UNCHANGED outstanding
    BY <1>0, <1>1, <2>1 DEF BeginOp, SleepJustified, NoSpace, TypeOK
  <2>2. CASE outstanding' = outstanding + 1 /\ Goto(o, "op")
    <3>1. \A q \in Ops : pc'[q] = "asleep" => pc[q] = "asleep"
      BY <1>0, <2>2 DEF TypeOK
    <3>2. UNCHANGED <<lh, committing>>
      BY <1>1 DEF BeginOp
    <3>3. NoSpace => NoSpace'
      <4>1. outstanding \in Nat /\ Len(lh) \in Nat
        BY <1>0 DEF TypeOK
      <4> QED
        BY <2>2, <3>2, <4>1, MoreSpace DEF NoSpace
    <3> QED
      BY <1>0, <3>1, <3>2, <3>3 DEF SleepJustified
  <2> QED
    BY <1>1, <2>1, <2>2 DEF BeginOp
<1>2. ASSUME NEW o \in Ops, NEW b \in Blocks, NEW v \in Data, LogWrite(o, b, v)
      PROVE  SleepJustified'
  <2>1. /\ UNCHANGED <<outstanding, committing, pc>>
        /\ lh' = IF b \in Range(lh) THEN lh ELSE Append(lh, b)
    BY <1>2, Logged
  <2>2. NoSpace => NoSpace'
    <3>1. lh \in Seq(Blocks) /\ Len(lh) \in Nat /\ outstanding \in Nat
      BY <1>0 DEF TypeOK
    <3>2. Len(lh') = Len(lh) \/ Len(lh') = Len(lh) + 1
      BY <2>1, <3>1
    <3> DEFINE X == (outstanding + 1) * MAXOPBLOCKS
    <3>3. X \in Nat
      BY <3>1, MoreSpace
    <3>4. (NoSpace <=> Len(lh) + X > LOGSIZE) /\ (NoSpace' <=> Len(lh') + X > LOGSIZE)
      BY <2>1 DEF NoSpace
    <3> HIDE DEF X
    <3> QED
      BY <3>1, <3>2, <3>3, <3>4, LogAssumption
  <2> QED
    BY <1>0, <2>1, <2>2 DEF SleepJustified
<1>3. ASSUME NEW o \in Ops, EndOp(o) PROVE SleepJustified'
  <2>1. \/ committing' = TRUE
        \/ Wakeup(o, "idle")
    BY <1>3, Ended
  <2>2. CASE committing' = TRUE
    BY <2>2 DEF SleepJustified
  <2>3. CASE Wakeup(o, "idle")
    BY <2>3 DEF SleepJustified, Wakeup
  <2> QED
    BY <2>1, <2>2, <2>3
<1>4. ASSUME NEW o \in Ops, WriteLog(o) PROVE SleepJustified'
  <2>1. \A q \in Ops : pc'[q] = "asleep" => pc[q] = "asleep"
    BY <1>0, <1>4 DEF WriteLog, TypeOK
  <2>2. UNCHANGED <<lh, outstanding, committing>>
    BY <1>4 DEF WriteLog
  <2> QED
    BY <1>0, <2>1, <2>2 DEF SleepJustified, NoSpace
<1>5. ASSUME NEW o \in Ops, WriteHead(o) PROVE SleepJustified'
  <2>1. \A q \in Ops : pc'[q] = "asleep" => pc[q] = "asleep"
    BY <1>0, <1>5 DEF WriteHead, TypeOK
  <2>2. UNCHANGED <<lh, outstanding, committing>>
    BY <1>5 DEF WriteHead
  <2> QED
    BY <1>0, <2>1, <2>2 DEF SleepJustified, NoSpace
<1>6. ASSUME NEW o \in Ops, InstallTrans(o) PROVE SleepJustified'
  <2>1. \A q \in Ops : pc'[q] = "asleep" => pc[q] = "asleep"
    BY <1>0, <1>6 DEF InstallTrans, InstallBlock, TypeOK
  <2>2. UNCHANGED <<lh, outstanding, committing>>
    BY <1>6 DEF InstallTrans, InstallBlock
  <2> QED
    BY <1>0, <2>1, <2>2 DEF SleepJustified, NoSpace
<1>7. ASSUME NEW o \in Ops, ClearHead(o) PROVE SleepJustified'
  <2>1. committing /\ committing' = committing
    BY <1>0, <1>7 DEF ClearHead, OneCommitter, Committer
  <2> QED
    BY <2>1 DEF SleepJustified
<1>8. ASSUME NEW o \in Ops, EndCommit(o) PROVE SleepJustified'
  BY <1>8 DEF EndCommit, Wakeup, SleepJustified
<1>9. ASSUME NEW b \in Blocks, Load(b) PROVE SleepJustified'
  <2>1. \A q \in Ops : pc'[q] = "asleep" => pc[q] = "asleep"
    BY <1>0, <1>9 DEF Load, TypeOK
  <2>2. UNCHANGED <<lh, outstanding, committing>>
    BY <1>9 DEF Load
  <2> QED
    BY <1>0, <2>1, <2>2 DEF SleepJustified, NoSpace
<1>10. ASSUME NEW b \in Blocks, Evict(b) PROVE SleepJustified'
  <2>1. \A q \in Ops : pc'[q] = "asleep" => pc[q] = "asleep"
    BY <1>0, <1>10 DEF Evict, TypeOK
  <2>2. UNCHANGED <<lh, outstanding, committing>>
    BY <1>10 DEF Evict
  <2> QED
    BY <1>0, <2>1, <2>2 DEF SleepJustified, NoSpace
<1>11. CASE ReadHead
  <2>1. \A q \in Ops : pc'[q] # "asleep"
    BY <1>0, <1>11 DEF ReadHead, Booting
  <2> QED
    BY <2>1 DEF SleepJustified
<1>12. CASE RecoverInstall
  <2>1. \A q \in Ops : pc'[q] = "asleep" => pc[q] = "asleep"
    BY <1>0, <1>12 DEF RecoverInstall, InstallBlock, TypeOK
  <2>2. UNCHANGED <<lh, outstanding, committing>>
    BY <1>12 DEF RecoverInstall, InstallBlock
  <2> QED
    BY <1>0, <2>1, <2>2 DEF SleepJustified, NoSpace
<1>13. CASE RecoverClear
  <2>1. \A q \in Ops : pc'[q] # "asleep"
    BY <1>0, <1>13 DEF RecoverClear, Booting
  <2> QED
    BY <2>1 DEF SleepJustified
<1>14. CASE Crash
  BY <1>14 DEF Crash, SleepJustified
<1>15. CASE UNCHANGED vars
  <2>1. \A q \in Ops : pc'[q] = "asleep" => pc[q] = "asleep"
    BY <1>0, <1>15 DEF vars, TypeOK
  <2>2. UNCHANGED <<lh, outstanding, committing>>
    BY <1>15 DEF vars
  <2> QED
    BY <1>0, <2>1, <2>2 DEF SleepJustified, NoSpace
<1> QED
  BY <1>1, <1>2, <1>3, <1>4, <1>5, <1>6, <1>7, <1>8, <1>9, <1>10, <1>11, <1>12, <1>13, <1>14, <1>15
     DEF Next, Other, CommitNext

\* A block that is not in the log is appended to it.
LEMMA Absorbed ==
  ASSUME NEW s \in Seq(Blocks), IsInjective(s), NEW b \in Blocks, b \notin Range(s)
  PROVE  IsInjective(Append(s, b))
<1>1. /\ DOMAIN Append(s, b) = 1..(Len(s) + 1) /\ DOMAIN s = 1..Len(s) /\ Len(s) \in Nat
      /\ \A k \in 1..Len(s) : Append(s, b)[k] = s[k]
      /\ Append(s, b)[Len(s) + 1] = b
  OBVIOUS
<1>2. \A k \in 1..Len(s) : s[k] # b
  BY <1>1 DEF Range
<1>3. \A k \in 1..(Len(s) + 1) : k \in 1..Len(s) \/ k = Len(s) + 1
  BY <1>1
<1> QED
  BY <1>1, <1>2, <1>3 DEF IsInjective

\* A block has one entry in the log.
LEMMA DistinctStep == LogIInv /\ Running => Distinct'
<1> SUFFICES ASSUME LogIInv, [Next]_vars, mode' # "panic"
             PROVE  Distinct'
  BY DEF Running
<1> USE DEF Distinct, diskVars, memVars
<1>0. TypeOK /\ Distinct
  BY DEF LogIInv
<1>1. ASSUME NEW o \in Ops, BeginOp(o) PROVE Distinct'
  BY <1>0, <1>1 DEF BeginOp
<1>2. ASSUME NEW o \in Ops, NEW b \in Blocks, NEW v \in Data, LogWrite(o, b, v)
      PROVE  Distinct'
  <2>1. hdr' = hdr /\ lh' = IF b \in Range(lh) THEN lh ELSE Append(lh, b)
    BY <1>2, Logged
  <2>2. b \notin Range(lh) => IsInjective(Append(lh, b))
    BY <1>0, Absorbed DEF TypeOK
  <2> QED
    BY <1>0, <2>1, <2>2
<1>3. ASSUME NEW o \in Ops, EndOp(o) PROVE Distinct'
  BY <1>0, <1>3 DEF EndOp
<1>4. ASSUME NEW o \in Ops, WriteLog(o) PROVE Distinct'
  BY <1>0, <1>4 DEF WriteLog
<1>5. ASSUME NEW o \in Ops, WriteHead(o) PROVE Distinct'
  BY <1>0, <1>5 DEF WriteHead
<1>6. ASSUME NEW o \in Ops, InstallTrans(o) PROVE Distinct'
  BY <1>0, <1>6 DEF InstallTrans, InstallBlock
<1>7. ASSUME NEW o \in Ops, ClearHead(o) PROVE Distinct'
  <2>1. IsInjective(<<>>)
    BY DEF IsInjective
  <2> QED
    BY <1>0, <1>7, <2>1 DEF ClearHead
<1>8. ASSUME NEW o \in Ops, EndCommit(o) PROVE Distinct'
  BY <1>0, <1>8 DEF EndCommit
<1>9. ASSUME NEW b \in Blocks, Load(b) PROVE Distinct'
  BY <1>0, <1>9 DEF Load
<1>10. ASSUME NEW b \in Blocks, Evict(b) PROVE Distinct'
  BY <1>0, <1>10 DEF Evict
<1>11. CASE ReadHead
  BY <1>0, <1>11 DEF ReadHead
<1>12. CASE RecoverInstall
  BY <1>0, <1>12 DEF RecoverInstall, InstallBlock
<1>13. CASE RecoverClear
  <2>1. IsInjective(<<>>)
    BY DEF IsInjective
  <2> QED
    BY <1>0, <1>13, <2>1 DEF RecoverClear
<1>14. CASE Crash
  <2>1. IsInjective(<<>>)
    BY DEF IsInjective
  <2> QED
    BY <1>0, <1>14, <2>1 DEF Crash
<1>15. CASE UNCHANGED vars
  BY <1>0, <1>15 DEF vars, memVars, diskVars
<1> QED
  BY <1>1, <1>2, <1>3, <1>4, <1>5, <1>6, <1>7, <1>8, <1>9, <1>10, <1>11, <1>12, <1>13, <1>14, <1>15
     DEF Next, Other, CommitNext

\* The header on disk, and the loops over the log.
LEMMA HeaderStep == LogIInv /\ Running => (Header /\ TailInv)'
<1> SUFFICES ASSUME LogIInv, [Next]_vars, mode' # "panic"
             PROVE  (Header /\ TailInv)'
  BY DEF Running
<1> USE DEF Header, TailInv, Installing, Goto, diskVars, memVars
<1>0. TypeOK /\ Header /\ TailInv /\ OneCommitter /\ Booting
  BY DEF LogIInv
<1>a. /\ pc \in [Ops -> Pcs] /\ tail \in 1..(LOGSIZE + 1)
      /\ lh \in Seq(Blocks) /\ hdr \in Seq(Blocks) /\ Len(lh) \in Nat
  BY <1>0 DEF TypeOK
<1>b. Len(<<>>) = 0
  OBVIOUS
<1>1. ASSUME NEW o \in Ops, BeginOp(o) PROVE (Header /\ TailInv)'
  BY <1>0, <1>a, <1>1 DEF BeginOp
<1>2. ASSUME NEW o \in Ops, NEW b \in Blocks, NEW v \in Data, LogWrite(o, b, v)
      PROVE  (Header /\ TailInv)'
  <2>1. /\ mode = "up" /\ pc[o] = "op" /\ ~ committing
        /\ lh' = IF b \in Range(lh) THEN lh ELSE Append(lh, b)
        /\ UNCHANGED <<hdr, committing, tail, pc, mode>>
    BY <1>2, Logged
  <2>2. \A q \in Ops : pc[q] \notin Committer
    BY <1>0, <2>1 DEF OneCommitter
  <2>3. Header'
    BY <1>0, <2>1, <2>2 DEF Committer
  <2>4. tail = 1
    BY <1>0, <2>1, <2>2 DEF Committer
  <2>5. Len(lh') \in Nat
    BY <1>a, <2>1
  <2>6. TailInv'
    BY <2>1, <2>4, <2>5
  <2> QED
    BY <2>3, <2>6
<1>3. ASSUME NEW o \in Ops, EndOp(o) PROVE (Header /\ TailInv)'
  <2>1. mode = "up" /\ ~ committing /\ UNCHANGED <<hdr, lh, tail, mode>>
    BY <1>3, Ended
  <2>2. \A q \in Ops : pc[q] \notin Committer
    BY <1>0, <2>1 DEF OneCommitter
  <2>3. \A q \in Ops : pc'[q] # "install" /\ (pc'[q] = "finish" => lh = <<>>)
    BY <1>a, <1>3, <2>2, Ended DEF Wakeup, Committer
  <2>4. Header'
    BY <1>0, <2>1, <2>2, <2>3 DEF Committer
  <2>5. TailInv'
    BY <1>0, <1>a, <2>1, <2>2 DEF Committer
  <2> QED
    BY <2>4, <2>5
<1>4. ASSUME NEW o \in Ops, WriteLog(o) PROVE (Header /\ TailInv)'
  BY <1>0, <1>a, <1>4 DEF WriteLog
<1>5. ASSUME NEW o \in Ops, WriteHead(o) PROVE (Header /\ TailInv)'
  BY <1>0, <1>a, <1>5 DEF WriteHead
<1>6. ASSUME NEW o \in Ops, InstallTrans(o) PROVE (Header /\ TailInv)'
  BY <1>0, <1>a, <1>6 DEF InstallTrans, InstallBlock
<1>7. ASSUME NEW o \in Ops, ClearHead(o) PROVE (Header /\ TailInv)'
  BY <1>0, <1>a, <1>7 DEF ClearHead
<1>8. ASSUME NEW o \in Ops, EndCommit(o) PROVE (Header /\ TailInv)'
  BY <1>0, <1>a, <1>8 DEF EndCommit, Wakeup
<1>9. ASSUME NEW b \in Blocks, Load(b) PROVE (Header /\ TailInv)'
  BY <1>0, <1>a, <1>9 DEF Load
<1>10. ASSUME NEW b \in Blocks, Evict(b) PROVE (Header /\ TailInv)'
  BY <1>0, <1>a, <1>10 DEF Evict
<1>11. CASE ReadHead
  <2>1. tail = 1
    BY <1>0, <1>11 DEF ReadHead, Booting
  <2>2. Len(hdr) \in Nat
    BY <1>a
  <2> QED
    BY <1>0, <1>11, <2>1, <2>2 DEF ReadHead, Booting
<1>12. CASE RecoverInstall
  BY <1>0, <1>a, <1>12 DEF RecoverInstall, InstallBlock
<1>13. CASE RecoverClear
  BY <1>0, <1>a, <1>13 DEF RecoverClear
<1>14. CASE Crash
  BY <1>0, <1>a, <1>14 DEF Crash
<1>15. CASE UNCHANGED vars
  BY <1>0, <1>a, <1>15 DEF vars, memVars, diskVars
<1> QED
  BY <1>1, <1>2, <1>3, <1>4, <1>5, <1>6, <1>7, <1>8, <1>9, <1>10, <1>11, <1>12, <1>13, <1>14, <1>15
     DEF Next, Other, CommitNext

\* What the cache, the log and the home locations hold of each block.
LEMMA ContentsStep == LogIInv /\ Running => (Copied /\ Installed /\ PinsHold /\ Coherent)'
<1> SUFFICES ASSUME LogIInv, [Next]_vars, mode' # "panic"
             PROVE  (Copied /\ Installed /\ PinsHold /\ Coherent)'
  BY DEF Running
<1> USE DEF Copied, Installed, PinsHold, Coherent, Pinned, Installing, Bread, Goto,
            diskVars, memVars
<1>0. TypeOK /\ Copied /\ Installed /\ PinsHold /\ Coherent
  BY DEF LogIInv
<1>a. /\ pc \in [Ops -> Pcs] /\ tail \in 1..(LOGSIZE + 1)
      /\ lh \in Seq(Blocks) /\ hdr \in Seq(Blocks) /\ Len(lh) \in Nat
      /\ DOMAIN lh = 1..Len(lh) /\ \A k \in DOMAIN lh : lh[k] \in Blocks
      /\ cache \in [Blocks -> Data \cup {NoData}] /\ home \in [Blocks -> Data]
      /\ logblk \in [Slots -> Data]
  BY <1>0 DEF TypeOK
<1>b. \A j, k \in DOMAIN lh : lh[j] = lh[k] => j = k
  BY DEF LogIInv, Distinct, IsInjective
<1>1. ASSUME NEW o \in Ops, BeginOp(o) PROVE (Copied /\ Installed /\ PinsHold /\ Coherent)'
  <2>1. UNCHANGED <<home, logblk, cache, lh, tail, mode>>
    BY <1>1 DEF BeginOp
  <2>2. ASSUME NEW q \in Ops
        PROVE  /\ (pc'[q] = "install") <=> (pc[q] = "install")
               /\ (pc'[q] = "write_log") <=> (pc[q] = "write_log")
    BY <1>a, <1>1 DEF BeginOp
  <2>3. Installing' <=> Installing
    BY <2>2
  <2>4. Copied'
    BY <1>0, <2>1, <2>2
  <2> HIDE DEF Installing
  <2>5. Pinned' = Pinned
    BY <2>1, <2>3
  <2>6. Installed'
    BY <1>0, <2>1, <2>2, <2>3
  <2> HIDE DEF Pinned
  <2>7. PinsHold' /\ Coherent'
    BY <1>0, <2>1, <2>5
  <2> QED
    BY <2>4, <2>6, <2>7
<1>2. ASSUME NEW o \in Ops, NEW b \in Blocks, NEW v \in Data, LogWrite(o, b, v)
      PROVE  (Copied /\ Installed /\ PinsHold /\ Coherent)'
  <2>1. /\ mode = "up" /\ pc[o] = "op" /\ ~ committing
        /\ lh' = IF b \in Range(lh) THEN lh ELSE Append(lh, b)
        /\ UNCHANGED <<home, logblk, hdr, committing, tail, pc, mode>>
    BY <1>2, Logged
  <2>2. cache' = [cache EXCEPT ![b] = v]
    BY <1>2 DEF LogWrite
  <2>3. \A q \in Ops : pc[q] \notin {"write_log", "install"}
    BY <2>1 DEF LogIInv, OneCommitter, Committer
  <2>4. Copied' /\ Installed'
    BY <2>1, <2>3
  <2>5. \A x : (\E k \in DOMAIN lh' : lh'[k] = x) <=> x = b \/ \E k \in DOMAIN lh : lh[k] = x
    <3>1. CASE b \in Range(lh)
      BY <2>1, <3>1 DEF Range
    <3>2. CASE b \notin Range(lh)
      <4>1. /\ lh' = Append(lh, b) /\ DOMAIN lh' = 1..(Len(lh) + 1)
            /\ \A k \in 1..Len(lh) : lh'[k] = lh[k]
            /\ lh'[Len(lh) + 1] = b
        BY <1>a, <2>1, <3>2
      <4>2. \A k \in 1..(Len(lh) + 1) : k \in 1..Len(lh) \/ k = Len(lh) + 1
        BY <1>a
      <4>3. 1..Len(lh) \subseteq 1..(Len(lh) + 1) /\ Len(lh) + 1 \in 1..(Len(lh) + 1)
        BY <1>a
      <4> QED
        BY <1>a, <4>1, <4>2, <4>3
    <3> QED
      BY <3>1, <3>2
  <2>6. \A x : /\ (x \in Pinned' <=> \E k \in DOMAIN lh' : lh'[k] = x)
              /\ (x \in Pinned <=> \E k \in DOMAIN lh : lh[k] = x)
    BY <2>1, <2>3
  <2>7. \A x \in Blocks : cache'[x] = IF x = b THEN v ELSE cache[x]
    BY <1>a, <2>2
  <2>8. v # NoData /\ \A x \in Pinned : x \in Blocks
    BY <1>a, LogAssumption
  <2> HIDE DEF Pinned
  <2>9. PinsHold'
    BY <1>0, <2>1, <2>5, <2>6, <2>7, <2>8
  <2>10. Coherent'
    BY <1>0, <2>1, <2>5, <2>6, <2>7
  <2> QED
    BY <2>4, <2>9, <2>10
<1>3. ASSUME NEW o \in Ops, EndOp(o) PROVE (Copied /\ Installed /\ PinsHold /\ Coherent)'
  <2>0. ~ committing /\ mode = "up"
    BY <1>3, Ended
  <2>1. UNCHANGED <<home, logblk, cache, lh, tail, mode>>
    BY <1>3, Ended
  <2>2. \A q \in Ops : pc[q] \notin {"write_log", "install"}
    BY <2>0 DEF LogIInv, OneCommitter, Committer
  <2>3. \A q \in Ops : pc'[q] # "install"
    BY <1>a, <1>3, <2>2, Ended DEF Wakeup
  <2>4. tail = 1
    BY <2>0, <2>2 DEF LogIInv, TailInv
  <2>5. Copied'
    BY <1>0, <1>a, <2>0, <2>1, <2>2, <2>3, <2>4
  <2>6. Installed'
    BY <1>0, <1>a, <2>0, <2>1, <2>2, <2>3, <2>4
  <2>7. PinsHold'
    BY <1>0, <1>a, <2>0, <2>1, <2>2, <2>3, <2>4
  <2>8. Coherent'
    BY <1>0, <1>a, <2>0, <2>1, <2>2, <2>3, <2>4
  <2> QED
    BY <2>5, <2>6, <2>7, <2>8
<1>4. ASSUME NEW o \in Ops, WriteLog(o) PROVE (Copied /\ Installed /\ PinsHold /\ Coherent)'
  <2>1. committing /\ \A q \in Ops : pc[q] # "install"
    BY <1>4 DEF WriteLog, LogIInv, OneCommitter, Committer
  <2>2. /\ mode = "up" /\ tail \in DOMAIN lh /\ tail \in Slots /\ tail' = tail + 1
        /\ logblk' = [logblk EXCEPT ![tail] = Bread(lh[tail])]
        /\ UNCHANGED <<home, cache, lh, pc, mode>>
    BY <1>0, <1>a, <1>4, LogAssumption DEF WriteLog, TypeOK, Slots
  <2>3. Copied'
    <3> SUFFICES ASSUME NEW k \in DOMAIN lh, k < tail + 1
                 PROVE  logblk'[k] = Bread(lh[k])
      BY <2>2
    <3>1. CASE k = tail
      BY <1>a, <2>2, <3>1
    <3>2. CASE k # tail
      <4>1. k < tail
        BY <1>a, <3>2
      <4> QED
        BY <1>0, <1>a, <1>4, <2>2, <4>1 DEF WriteLog
    <3> QED
      BY <3>1, <3>2
  <2>4. Installed'
    BY <1>0, <2>1, <2>2
  <2>5. PinsHold'
    BY <1>0, <2>1, <2>2
  <2>6. Coherent'
    BY <1>0, <2>1, <2>2
  <2> QED
    BY <2>3, <2>4, <2>5, <2>6
<1>5. ASSUME NEW o \in Ops, WriteHead(o) PROVE (Copied /\ Installed /\ PinsHold /\ Coherent)'
  <2>1. /\ \A k \in DOMAIN lh : k < tail
        /\ mode = "up" /\ pc[o] = "write_log" /\ tail' = 1
        /\ UNCHANGED <<home, logblk, cache, lh, mode>>
    BY <1>a, <1>5 DEF WriteHead
  <2>2. \A q \in Ops : pc[q] \in {"write_log", "install"} => q = o
    BY <1>5 DEF WriteHead, LogIInv, OneCommitter, Committer
  <2>3. /\ pc'[o] = "install" /\ \A q \in Ops : q # o => pc'[q] = pc[q]
    BY <1>a, <1>5 DEF WriteHead
  <2>4. Copied'
    BY <1>0, <1>a, <2>1, <2>2, <2>3
  <2>5. Installed'
    BY <1>0, <1>a, <2>1, <2>2, <2>3
  <2>6. PinsHold'
    BY <1>0, <1>a, <2>1, <2>2, <2>3
  <2>7. Coherent'
    BY <1>0, <1>a, <2>1, <2>2, <2>3
  <2> QED
    BY <2>4, <2>5, <2>6, <2>7
<1>6. ASSUME NEW o \in Ops, InstallTrans(o) PROVE (Copied /\ Installed /\ PinsHold /\ Coherent)'
  <2>1. /\ mode = "up" /\ pc[o] = "install" /\ tail \in DOMAIN lh
        /\ tail' = tail + 1 /\ tail \in Slots
        /\ home' = [home EXCEPT ![lh[tail]] = logblk[tail]]
        /\ cache' = [cache EXCEPT ![lh[tail]] = logblk[tail]]
        /\ UNCHANGED <<logblk, lh, pc, mode>>
    BY <1>0, <1>a, <1>6, LogAssumption DEF InstallTrans, InstallBlock, TypeOK, Slots
  <2>2. \A q \in Ops : pc[q] # "write_log"
    BY <1>6 DEF InstallTrans, LogIInv, OneCommitter, Committer
  <2>3. \A k \in DOMAIN lh : (k < tail + 1) <=> (k < tail \/ k = tail)
    BY <1>a
  <2>4. logblk[tail] \in Data /\ logblk[tail] # NoData
    BY <1>a, <2>1, LogAssumption
  <2>5. Copied'
    BY <1>0, <1>a, <1>b, <2>1, <2>2, <2>3, <2>4
  <2>6. Installed'
    BY <1>0, <1>a, <1>b, <2>1, <2>2, <2>3, <2>4
  <2>7. PinsHold'
    BY <1>0, <1>a, <1>b, <2>1, <2>2, <2>3, <2>4
  <2>8. Coherent'
    BY <1>0, <1>a, <1>b, <2>1, <2>2, <2>3, <2>4
  <2> QED
    BY <2>5, <2>6, <2>7, <2>8
<1>7. ASSUME NEW o \in Ops, ClearHead(o) PROVE (Copied /\ Installed /\ PinsHold /\ Coherent)'
  <2>1. /\ \A k \in DOMAIN lh : k < tail
        /\ mode = "up" /\ pc[o] = "install" /\ tail' = 1 /\ lh' = <<>>
        /\ UNCHANGED <<home, logblk, cache, mode>>
    BY <1>a, <1>7 DEF ClearHead
  <2>2. DOMAIN lh' = {}
    BY <2>1
  <2>3. Copied'
    BY <1>0, <2>1, <2>2
  <2>4. Installed'
    BY <1>0, <2>1, <2>2
  <2>5. PinsHold'
    BY <1>0, <2>1, <2>2
  <2>6. Coherent'
    BY <1>0, <2>1, <2>2
  <2> QED
    BY <2>3, <2>4, <2>5, <2>6
<1>8. ASSUME NEW o \in Ops, EndCommit(o) PROVE (Copied /\ Installed /\ PinsHold /\ Coherent)'
  <2>1. UNCHANGED <<home, logblk, cache, lh, tail, mode>>
    BY <1>8 DEF EndCommit
  <2>2. ASSUME NEW q \in Ops
        PROVE  /\ (pc'[q] = "install") <=> (pc[q] = "install")
               /\ (pc'[q] = "write_log") <=> (pc[q] = "write_log")
    BY <1>a, <1>8 DEF EndCommit, Wakeup
  <2>3. Installing' <=> Installing
    BY <2>2
  <2>4. Copied'
    BY <1>0, <2>1, <2>2
  <2> HIDE DEF Installing
  <2>5. Pinned' = Pinned
    BY <2>1, <2>3
  <2>6. Installed'
    BY <1>0, <2>1, <2>2, <2>3
  <2> HIDE DEF Pinned
  <2>7. PinsHold' /\ Coherent'
    BY <1>0, <2>1, <2>5
  <2> QED
    BY <2>4, <2>6, <2>7
<1>9. ASSUME NEW b \in Blocks, Load(b) PROVE (Copied /\ Installed /\ PinsHold /\ Coherent)'
  <2>1. Copied'
    BY <1>0, <1>a, <1>9 DEF Load
  <2>2. Installed'
    BY <1>0, <1>a, <1>9 DEF Load
  <2>3. PinsHold'
    BY <1>0, <1>a, <1>9 DEF Load
  <2>4. Coherent'
    BY <1>0, <1>a, <1>9 DEF Load
  <2> QED
    BY <2>1, <2>2, <2>3, <2>4
<1>10. ASSUME NEW b \in Blocks, Evict(b) PROVE (Copied /\ Installed /\ PinsHold /\ Coherent)'
  <2>1. Copied'
    BY <1>0, <1>a, <1>10 DEF Evict
  <2>2. Installed'
    BY <1>0, <1>a, <1>10 DEF Evict
  <2>3. PinsHold'
    BY <1>0, <1>a, <1>10 DEF Evict
  <2>4. Coherent'
    BY <1>0, <1>a, <1>10 DEF Evict
  <2> QED
    BY <2>1, <2>2, <2>3, <2>4
<1>11. CASE ReadHead
  <2>1. mode = "read_head" /\ mode' = "install" /\ UNCHANGED <<home, cache, pc, tail>>
    BY <1>11 DEF ReadHead
  <2>2. \A q \in Ops : pc[q] = "idle"
    BY <2>1 DEF LogIInv, Booting
  <2>3. tail = 1 /\ DOMAIN lh' = 1..Len(lh')
    BY <1>a, <1>11, <2>1, <2>2 DEF ReadHead, LogIInv, TailInv
  <2>4. Copied'
    BY <1>0, <2>1, <2>2, <2>3
  <2>5. Installed'
    BY <1>0, <2>1, <2>2, <2>3
  <2>6. PinsHold'
    BY <1>0, <2>1, <2>2, <2>3
  <2>7. Coherent'
    BY <1>0, <2>1, <2>2, <2>3
  <2> QED
    BY <2>4, <2>5, <2>6, <2>7
<1>12. CASE RecoverInstall
  <2>1. /\ mode = "install" /\ tail \in DOMAIN lh
        /\ tail' = tail + 1 /\ tail \in Slots
        /\ home' = [home EXCEPT ![lh[tail]] = logblk[tail]]
        /\ cache' = [cache EXCEPT ![lh[tail]] = logblk[tail]]
        /\ UNCHANGED <<logblk, lh, pc, mode>>
    BY <1>0, <1>a, <1>12, LogAssumption DEF RecoverInstall, InstallBlock, TypeOK, Slots
  <2>2. \A q \in Ops : pc[q] = "idle"
    BY <1>12 DEF RecoverInstall, LogIInv, Booting
  <2>3. \A k \in DOMAIN lh : (k < tail + 1) <=> (k < tail \/ k = tail)
    BY <1>a
  <2>4. Copied'
    BY <1>0, <1>a, <1>b, <2>1, <2>2, <2>3
  <2>5. Installed'
    BY <1>0, <1>a, <1>b, <2>1, <2>2, <2>3
  <2>6. PinsHold'
    BY <1>0, <1>a, <1>b, <2>1, <2>2, <2>3
  <2>7. Coherent'
    BY <1>0, <1>a, <1>b, <2>1, <2>2, <2>3
  <2> QED
    BY <2>4, <2>5, <2>6, <2>7
<1>13. CASE RecoverClear
  <2>1. /\ mode = "install" /\ mode' = "up" /\ lh' = <<>>
        /\ UNCHANGED <<home, logblk, cache, pc>>
    BY <1>13 DEF RecoverClear
  <2>2. DOMAIN lh' = {}
    BY <2>1
  <2>3. \A q \in Ops : pc[q] = "idle"
    BY <2>1 DEF LogIInv, Booting
  <2>4. Copied'
    BY <1>0, <2>1, <2>2, <2>3
  <2>5. Installed'
    BY <1>0, <2>1, <2>2, <2>3
  <2>6. PinsHold'
    BY <1>0, <2>1, <2>2, <2>3
  <2>7. Coherent'
    BY <1>0, <2>1, <2>2, <2>3
  <2> QED
    BY <2>4, <2>5, <2>6, <2>7
<1>14. CASE Crash
  BY <1>0, <1>a, <1>14 DEF Crash
<1>15. CASE UNCHANGED vars
  BY <1>0, <1>a, <1>15 DEF vars, memVars, diskVars
<1> QED
  BY <1>1, <1>2, <1>3, <1>4, <1>5, <1>6, <1>7, <1>8, <1>9, <1>10, <1>11, <1>12, <1>13, <1>14, <1>15
     DEF Next, Other, CommitNext

\* The memory of a machine that has just been started.
Fresh ==
  /\ lh = <<>> /\ cache = [b \in Blocks |-> NoData] /\ outstanding = 0 /\ committing = FALSE
  /\ tail = 1 /\ pc = [o \in Ops |-> "idle"] /\ used = [o \in Ops |-> {}] /\ over = FALSE
  /\ mode = "read_head"

\* Whatever log is on disk, the invariant holds when the machine starts.
LEMMA FreshInv == TypeOK /\ Distinct /\ Fresh => LogIInv
<1> SUFFICES ASSUME TypeOK, Distinct, Fresh PROVE LogIInv
  OBVIOUS
<1>1. /\ lh = <<>> /\ cache = [b \in Blocks |-> NoData] /\ outstanding = 0 /\ committing = FALSE
      /\ tail = 1 /\ pc = [o \in Ops |-> "idle"] /\ used = [o \in Ops |-> {}] /\ over = FALSE
      /\ mode = "read_head"
  BY DEF Fresh
<1>2. Len(<<>>) = 0 /\ DOMAIN <<>> = {}
  OBVIOUS
<1>3. Charged
  BY <1>1, FS_EmptySet DEF Charged
<1>4. Reserved
  <2>1. IsFiniteSet(Active) /\ Cardinality(Active) = 0 /\ Cardinality(Budget) = 0
    BY <1>1, NoneActive
  <2> QED
    BY <1>1, <1>2, <2>1, LogAssumption DEF Reserved
<1>5. OneCommitter /\ LogOpen /\ Booting /\ SleepJustified
  BY <1>1 DEF OneCommitter, LogOpen, Booting, SleepJustified, Committer
<1>6. Header /\ TailInv
  BY <1>1, <1>2 DEF Header, TailInv
<1>7. Copied /\ Installed /\ PinsHold /\ Coherent
  BY <1>1, <1>2 DEF Copied, Installed, PinsHold, Coherent, Installing
<1> QED
  BY <1>3, <1>4, <1>5, <1>6, <1>7 DEF LogIInv

\* What initlog() finds satisfies the invariant.
LEMMA LogInit == Init => LogIInv
<1> SUFFICES ASSUME Init PROVE LogIInv
  OBVIOUS
<1>1. /\ home \in [Blocks -> Data] /\ logblk \in [Slots -> Data] /\ hdr = <<>> /\ Fresh
  BY DEF Init, Fresh
<1>2. <<>> \in Seq(Blocks) /\ Len(<<>>) = 0 /\ DOMAIN <<>> = {} /\ 1 \in 1..(LOGSIZE + 1)
  BY LogAssumption
<1>3. TypeOK
  <2>1. /\ hdr \in Seq(Blocks) /\ Len(hdr) <= LOGSIZE /\ lh \in Seq(Blocks) /\ Len(lh) <= LOGSIZE
        /\ outstanding \in Nat /\ tail \in 1..(LOGSIZE + 1)
    BY <1>1, <1>2, LogAssumption DEF Fresh
  <2>2. /\ cache \in [Blocks -> Data \cup {NoData}] /\ committing \in BOOLEAN
        /\ mode \in {"up", "read_head", "install", "panic"} /\ pc \in [Ops -> Pcs]
        /\ used \in [Ops -> SUBSET Blocks] /\ over \in BOOLEAN
    BY <1>1 DEF Fresh, Pcs
  <2> QED
    BY <1>1, <2>1, <2>2 DEF TypeOK
<1>4. Distinct
  BY <1>1, <1>2 DEF Fresh, Distinct, IsInjective
<1> QED
  BY <1>1, <1>3, <1>4, FreshInv

\* Every step of an operation, of commit(), of recovery, and a crash, keeps it,
\* if it does not end in a panic ...
LEMMA LogStep == LogIInv /\ Running => LogIInv'
  BY TypeStep, ChargeStep, ReserveStep, ControlStep, SleepStep, DistinctStep, HeaderStep,
     ContentsStep
     DEF LogIInv

\* ... and a panic finds the log used up.
LEMMA PanicStep == LogIInv /\ [Next]_vars /\ mode' = "panic" => Stopped'
<1> SUFFICES ASSUME LogIInv, [Next]_vars, mode' = "panic" PROVE Stopped'
  OBVIOUS
<1>0. TypeOK /\ Charged /\ Reserved /\ Distinct /\ SleepJustified /\ Booting /\ OneCommitter
  BY DEF LogIInv
<1>a. mode # "panic"
  BY <1>0 DEF Booting
<1>b. \A o \in Ops : ~ EndOp(o)
  BY <1>a, Ended
<1>1. PICK o \in Ops, b \in Blocks, v \in Data : LogWrite(o, b, v)
  <2>1. \A o \in Ops : ~ BeginOp(o) /\ ~ CommitNext(o)
    BY <1>a DEF BeginOp, CommitNext, WriteLog, WriteHead, InstallTrans, InstallBlock, ClearHead,
                EndCommit
  <2>2. \A b \in Blocks : ~ Load(b) /\ ~ Evict(b)
    BY <1>a DEF Load, Evict
  <2>3. ~ ReadHead /\ ~ RecoverInstall /\ ~ RecoverClear /\ ~ Crash
    BY <1>a DEF ReadHead, RecoverInstall, InstallBlock, RecoverClear, Crash
  <2>4. ~ UNCHANGED vars
    BY <1>a DEF vars
  <2> QED
    BY <1>b, <2>1, <2>2, <2>3, <2>4 DEF Next, Other
<1>2. /\ mode = "up" /\ pc[o] = "op" /\ cache' = [cache EXCEPT ![b] = v]
      /\ over' = (over \/ Cardinality(used[o] \cup {b}) > MAXOPBLOCKS)
      /\ UNCHANGED <<home, logblk, hdr, outstanding, committing, tail, pc>>
  BY <1>1 DEF LogWrite, diskVars
<1>3. /\ Len(lh) >= LOGSIZE \/ Len(lh) >= nlog - 1 \/ outstanding < 1
      /\ lh' = lh /\ used' = used
  BY <1>a, <1>1 DEF LogWrite
<1>4. outstanding \in Nat /\ Len(lh) \in Nat /\ Len(lh) <= LOGSIZE
  BY <1>0 DEF TypeOK
<1>5. outstanding >= 1 /\ ~ committing
  BY <1>0, <1>2, CanWrite DEF OneCommitter, Active
<1>6. Len(lh) = LOGSIZE
  BY <1>3, <1>4, <1>5, LogAssumption
<1>7. TypeOK'
  <2>1. cache' \in [Blocks -> Data \cup {NoData}]
    BY <1>0, <1>2 DEF TypeOK
  <2>2. over' \in BOOLEAN
    BY <1>2
  <2> QED
    BY <1>0, <1>2, <1>3, <2>1, <2>2 DEF TypeOK
<1>8. Distinct' /\ SleepJustified'
  BY <1>0, <1>2, <1>3 DEF Distinct, SleepJustified, NoSpace
<1>9. ASSUME ~ over', NEW q \in Ops, pc'[q] = "op"
      PROVE  Cardinality(used'[q]) >= MAXOPBLOCKS
  <2>1. ~ over /\ pc[q] = "op"
    BY <1>2, <1>9
  <2>2. Cardinality(used[q]) \in Nat /\ IsFiniteSet(used[q])
    BY <1>0, UsedCount
  <2>3. ~ (Cardinality(used[q]) < MAXOPBLOCKS)
    <3>1. Cardinality(used[q]) < MAXOPBLOCKS => Len(lh) < LOGSIZE
      BY <2>1, CanWrite
    <3>2. ~ (Len(lh) < LOGSIZE)
      BY <1>4, <1>6, LogAssumption
    <3> QED
      BY <3>1, <3>2
  <2> QED
    BY <1>3, <2>2, <2>3, LogAssumption
<1>10. PanicExplained'
  BY <1>2, <1>3, <1>5, <1>6, <1>9 DEF PanicExplained
<1> QED
  BY <1>7, <1>8, <1>10 DEF Stopped

\* A machine that has stopped in a panic can only be started again.
LEMMA StoppedStep == Stopped /\ [Next]_vars => Stopped' \/ LogIInv'
<1> SUFFICES ASSUME Stopped, [Next]_vars PROVE Stopped' \/ LogIInv'
  OBVIOUS
<1>0. mode = "panic" /\ TypeOK /\ Distinct
  BY DEF Stopped
<1>1. Crash \/ UNCHANGED vars
  <2>1. \A o \in Ops : ~ BeginOp(o) /\ ~ EndOp(o) /\ ~ CommitNext(o)
    BY <1>0 DEF BeginOp, EndOp, CommitNext, WriteLog, WriteHead, InstallTrans, ClearHead, EndCommit
  <2>2. \A o \in Ops, b \in Blocks, v \in Data : ~ LogWrite(o, b, v)
    BY <1>0 DEF LogWrite
  <2>3. \A b \in Blocks : ~ Load(b) /\ ~ Evict(b)
    BY <1>0 DEF Load, Evict
  <2>4. ~ ReadHead /\ ~ RecoverInstall /\ ~ RecoverClear
    BY <1>0 DEF ReadHead, RecoverInstall, RecoverClear
  <2> QED
    BY <2>1, <2>2, <2>3, <2>4 DEF Next, Other
<1>2. CASE Crash
  <2>1. Fresh'
    BY <1>2 DEF Crash, Fresh
  <2>2. TypeOK'
    <3>1. /\ 1 \in 1..(LOGSIZE + 1) /\ <<>> \in Seq(Blocks) /\ Len(<<>>) <= LOGSIZE
      BY LogAssumption
    <3> QED
      BY <1>0, <1>2, <3>1 DEF Crash, TypeOK, diskVars, Pcs
  <2>3. Distinct'
    <3>1. IsInjective(<<>>)
      BY DEF IsInjective
    <3> QED
      BY <1>0, <1>2, <3>1 DEF Crash, Distinct, diskVars
  <2> QED
    BY <2>1, <2>2, <2>3, FreshInv, PTL
<1>3. CASE UNCHANGED vars
  BY <1>3 DEF Stopped, TypeOK, Distinct, SleepJustified, NoSpace, PanicExplained, vars, memVars,
              diskVars
<1> QED
  BY <1>1, <1>2, <1>3

\* For any size of the log, any disk and any number of processes, the invariant
\* above holds of the log, wherever the machine stops.
THEOREM LogInvariant == Spec => [](LogIInv \/ Stopped)
<1>1. (LogIInv \/ Stopped) /\ [Next]_vars => (LogIInv \/ Stopped)'
  BY LogStep, PanicStep, StoppedStep DEF Running
<1> QED
  BY <1>1, LogInit, PTL DEF Spec

-----------------------------------------------------------------------------
(* What the file system sees *)

\* Without a committed transaction the disk is what the home locations hold.
LEMMA EmptyHeader == TypeOK /\ hdr = <<>> => DiskView = home
  BY DEF TypeOK, DiskView, Range

\* With one, its blocks are read from the log.
ViewOfLog ==
  /\ \A k \in DOMAIN hdr : DiskView[hdr[k]] = logblk[k]
  /\ \A b \in Blocks : b \notin Range(hdr) => DiskView[b] = home[b]
  /\ DiskView \in [Blocks -> Data]

\* No block is logged twice, so the log has one version of it.
LEMMA LoggedView == TypeOK /\ Distinct => ViewOfLog
<1> SUFFICES ASSUME TypeOK, Distinct PROVE ViewOfLog
  OBVIOUS
<1>1. \A k \in DOMAIN hdr : hdr[k] \in Blocks /\ k \in Slots
  BY LogAssumption DEF TypeOK, Slots
<1>2. \A b \in Blocks : b \notin Range(hdr) => DiskView[b] = home[b]
  BY DEF DiskView
<1>3. ASSUME NEW k \in DOMAIN hdr
      PROVE  DiskView[hdr[k]] = logblk[k]
  <2> DEFINE j == CHOOSE x \in DOMAIN hdr : hdr[x] = hdr[k]
  <2>1. j \in DOMAIN hdr /\ hdr[j] = hdr[k]
    OBVIOUS
  <2>2. j = k
    BY <2>1 DEF Distinct, IsInjective
  <2>3. hdr[k] \in Range(hdr) /\ hdr[k] \in Blocks
    BY <1>1 DEF Range
  <2>4. DiskView[hdr[k]] = logblk[j]
    BY <2>3 DEF DiskView
  <2> QED
    BY <2>2, <2>4
<1>4. ASSUME NEW b \in Blocks
      PROVE  DiskView[b] \in Data
  <2>1. CASE b \in Range(hdr)
    <3>1. PICK k \in DOMAIN hdr : hdr[k] = b
      BY <2>1 DEF Range
    <3> QED
      BY <1>1, <1>3, <3>1 DEF TypeOK
  <2>2. CASE b \notin Range(hdr)
    BY <1>2, <2>2 DEF TypeOK
  <2> QED
    BY <2>1, <2>2
<1>5. DiskView \in [Blocks -> Data]
  BY <1>4 DEF DiskView
<1> QED
  BY <1>2, <1>3, <1>5 DEF ViewOfLog

\* For any size of the log, any disk and any number of processes: log_write()
\* panics only when an operation logged more than MAXOPBLOCKS different blocks,
\* or logs one again when all in progress have logged MAXOPBLOCKS (the
\* reservation of begin_op() is enough for every new block); an unpinned buffer
\* may be recycled at any time; and when the last end_op() has returned
\* everything is on disk.
THEOREM LogSafe == Spec => []LogInv
<1>1. LogIInv => LogInv
  <2> SUFFICES ASSUME LogIInv PROVE LogInv
    OBVIOUS
  <2>0. TypeOK /\ Reserved /\ LogOpen /\ Header /\ OneCommitter /\ Coherent
    BY DEF LogIInv
  <2>1. PanicExplained
    BY DEF LogIInv, Booting, PanicExplained
  <2>2. CacheCoherent
    BY <2>0 DEF Coherent, CacheCoherent
  <2>3. ASSUME mode = "up", outstanding = 0, ~ committing
        PROVE  MemView = DiskView
    <3>1. lh = <<>> /\ ~ Installing
      BY <2>0, <2>3, Counted DEF LogOpen, Installing, OneCommitter, Committer
    <3>2. DiskView = home
      BY <2>0, <2>3, <3>1, EmptyHeader DEF Header
    <3>3. \A b \in Blocks : Bread(b) = home[b]
      BY <2>0, <3>1 DEF Bread, Coherent, Pinned
    <3>4. MemView = [b \in Blocks |-> Bread(b)] /\ home \in [Blocks -> Data]
      BY <2>0, <2>3 DEF MemView, TypeOK
    <3> QED
      BY <3>2, <3>3, <3>4
  <2>4. QuiescentDurable
    BY <2>3 DEF QuiescentDurable
  <2> QED
    BY <2>0, <2>1, <2>2, <2>4 DEF LogInv
<1>2. Stopped => LogInv
  BY DEF Stopped, LogInv, CacheCoherent, QuiescentDurable
<1> QED
  BY <1>1, <1>2, LogInvariant, PTL

\* For any size of the log and any number of processes: nobody sleeps on in
\* begin_op() once the log has space and no commit is running.
THEOREM LogSleepers == Spec => []SleepJustified
<1>1. LogIInv \/ Stopped => SleepJustified
  BY DEF LogIInv, Stopped
<1> QED
  BY <1>1, LogInvariant, PTL

-----------------------------------------------------------------------------
(* The log implements group commit *)

\* The operations in progress, as the abstract specification sees them.
ActiveView == IF mode = "up" THEN Active ELSE {}

\* A step that changes neither what a call reads, nor what a crash would leave,
\* nor who is in an operation.
Stutters == MemView' = MemView /\ DiskView' = DiskView /\ ActiveView' = ActiveView

\* Such a step stutters in the abstract specification.
LEMMA StutterIs == Stutters => UNCHANGED Txn!avars
  BY DEF Stutters, ActiveView, Active, Txn!avars

\* A cached block or its home location: what a call reads is determined by both.
LEMMA SameReads ==
  ASSUME mode = "up", mode' = "up", \A b \in Blocks : Bread(b)' = Bread(b)
  PROVE  MemView' = MemView
  BY DEF MemView

\* What a crash would leave is determined by the disk alone.
LEMMA SameDisk ==
  ASSUME UNCHANGED <<home, logblk, hdr>>
  PROVE  DiskView' = DiskView
  BY DEF DiskView, Range

\* A block of a committed transaction may be written to its home location:
\* recovery would write it there again.
LEMMA InstallHidden ==
  ASSUME TypeOK, Distinct, TypeOK', Distinct', NEW n \in DOMAIN hdr, UNCHANGED <<logblk, hdr>>,
         home' = [home EXCEPT ![hdr[n]] = logblk[n]]
  PROVE  DiskView' = DiskView
<1>1. /\ \A k \in DOMAIN hdr : DiskView[hdr[k]] = logblk[k]
      /\ \A b \in Blocks : b \notin Range(hdr) => DiskView[b] = home[b]
  BY LoggedView DEF ViewOfLog
<1>2. /\ \A k \in DOMAIN hdr' : DiskView'[hdr'[k]] = logblk'[k]
      /\ \A b \in Blocks : b \notin Range(hdr') => DiskView'[b] = home'[b]
  <2>1. ViewOfLog'
    BY LoggedView, PTL
  <2> QED
    BY <2>1 DEF ViewOfLog
<1>3. hdr[n] \in Range(hdr)
  BY DEF Range
<1>4. ASSUME NEW b \in Blocks
      PROVE  DiskView'[b] = DiskView[b]
  <2>1. CASE b \in Range(hdr)
    BY <1>1, <1>2, <2>1 DEF Range
  <2>2. CASE b \notin Range(hdr)
    BY <1>1, <1>2, <1>3, <2>2 DEF TypeOK
  <2> QED
    BY <2>1, <2>2
<1>5. DOMAIN DiskView = Blocks /\ DOMAIN DiskView' = Blocks
  BY DEF DiskView
<1>6. DiskView = [b \in Blocks |-> DiskView[b]] /\ DiskView' = [b \in Blocks |-> DiskView'[b]]
  BY DEF DiskView
<1> QED
  BY <1>4, <1>6

\* When every block is installed the home locations hold what recovery would
\* make of the disk.
LEMMA AllInstalled ==
  ASSUME TypeOK, Distinct, \A k \in DOMAIN hdr : home[hdr[k]] = logblk[k]
  PROVE  DiskView = home
<1>1. /\ \A k \in DOMAIN hdr : DiskView[hdr[k]] = logblk[k]
      /\ \A b \in Blocks : b \notin Range(hdr) => DiskView[b] = home[b]
      /\ DiskView \in [Blocks -> Data]
  BY LoggedView DEF ViewOfLog
<1>2. \A b \in Blocks : DiskView[b] = home[b]
  BY <1>1 DEF Range
<1> QED
  BY <1>1, <1>2 DEF TypeOK

\* Every step of the log is a step of the abstract specification or leaves it
\* alone: write_head() is the commit.
LEMMA TxnStep == LogIInv /\ LogIInv' /\ Running => [Txn!Next]_(Txn!avars)
<1> SUFFICES ASSUME LogIInv, LogIInv', [Next]_vars, mode' # "panic"
             PROVE  [Txn!Next]_(Txn!avars)
  BY DEF Running
<1>0. /\ TypeOK /\ Distinct /\ Header /\ Booting /\ Installed /\ OneCommitter
      /\ TypeOK' /\ Distinct'
  BY DEF LogIInv
<1>a. /\ pc \in [Ops -> Pcs] /\ tail \in 1..(LOGSIZE + 1)
      /\ lh \in Seq(Blocks) /\ Len(lh) \in Nat /\ DOMAIN lh = 1..Len(lh)
      /\ \A k \in DOMAIN lh : lh[k] \in Blocks
      /\ cache \in [Blocks -> Data \cup {NoData}] /\ home \in [Blocks -> Data]
      /\ logblk \in [Slots -> Data]
  BY <1>0 DEF TypeOK
<1>s. Stutters => [Txn!Next]_(Txn!avars)
  BY StutterIs
<1> USE DEF Goto, diskVars, memVars
<1>1. ASSUME NEW o \in Ops, BeginOp(o) PROVE [Txn!Next]_(Txn!avars)
  <2>1. mode = "up" /\ UNCHANGED <<home, logblk, hdr, cache, mode>>
    BY <1>1 DEF BeginOp
  <2>2. MemView' = MemView /\ DiskView' = DiskView
    BY <2>1, SameReads, SameDisk DEF Bread
  <2>3. CASE pc' = [pc EXCEPT ![o] = "asleep"]
    <3>1. Active' = Active
      BY <1>a, <1>1, <2>3 DEF Active, BeginOp
    <3> QED
      BY <1>s, <2>1, <2>2, <3>1 DEF Stutters, ActiveView
  <2>4. CASE pc' = [pc EXCEPT ![o] = "op"]
    <3>1. o \notin Active /\ Active' = Active \cup {o}
      BY <1>a, <1>1, <2>4 DEF Active, BeginOp
    <3>2. Txn!Begin(o)
      BY <2>1, <2>2, <3>1 DEF Txn!Begin, Active
    <3> QED
      BY <3>2 DEF Txn!Next
  <2> QED
    BY <1>1, <2>3, <2>4 DEF BeginOp
<1>2. ASSUME NEW o \in Ops, NEW b \in Blocks, NEW v \in Data, LogWrite(o, b, v)
      PROVE  [Txn!Next]_(Txn!avars)
  <2>1. mode = "up" /\ pc[o] = "op" /\ UNCHANGED <<home, logblk, hdr, pc, mode>>
    BY <1>2, Logged
  <2>2. cache' = [cache EXCEPT ![b] = v] /\ v # NoData
    BY <1>2, LogAssumption DEF LogWrite
  <2>3. DiskView' = DiskView
    BY <2>1, SameDisk
  <2>4. MemView' = [MemView EXCEPT ![b] = v]
    <3>1. \A x \in Blocks : Bread(x)' = IF x = b THEN v ELSE Bread(x)
      BY <1>a, <2>1, <2>2 DEF Bread
    <3>2. MemView = [x \in Blocks |-> Bread(x)] /\ MemView' = [x \in Blocks |-> Bread(x)']
      BY <2>1 DEF MemView
    <3> QED
      BY <3>1, <3>2
  <2>5. Txn!Write(o, b, v)
    BY <2>1, <2>3, <2>4 DEF Txn!Write
  <2> QED
    BY <2>5 DEF Txn!Next
<1>3. ASSUME NEW o \in Ops, EndOp(o) PROVE [Txn!Next]_(Txn!avars)
  <2>1. mode = "up" /\ pc[o] = "op" /\ UNCHANGED <<home, logblk, hdr, cache, mode>>
    BY <1>3, Ended
  <2>2. MemView' = MemView /\ DiskView' = DiskView
    BY <2>1, SameReads, SameDisk DEF Bread
  <2>3. \A q \in Ops : pc'[q] = "op" <=> pc[q] = "op" /\ q # o
    BY <1>a, <1>3, Ended DEF Wakeup
  <2>4. o \in Active /\ Active' = Active \ {o}
    BY <2>1, <2>3 DEF Active
  <2>5. Txn!End(o)
    BY <2>1, <2>2, <2>4 DEF Txn!End, Active
  <2> QED
    BY <2>5 DEF Txn!Next
<1>4. ASSUME NEW o \in Ops, WriteLog(o) PROVE [Txn!Next]_(Txn!avars)
  <2>1. mode = "up" /\ pc[o] = "write_log" /\ UNCHANGED <<home, hdr, cache, pc, mode>>
    BY <1>4 DEF WriteLog
  <2>2. ~ Installing
    BY <1>0, <2>1 DEF Installing, OneCommitter, Committer
  <2>3. DiskView = home /\ DiskView' = home'
    <3>1. hdr = <<>> /\ hdr' = <<>>
      BY <1>0, <2>1, <2>2 DEF Header
    <3> QED
      BY <1>0, <3>1 DEF TypeOK, DiskView, Range
  <2>4. MemView' = MemView
    BY <2>1, SameReads DEF Bread
  <2> QED
    BY <1>s, <2>1, <2>3, <2>4 DEF Stutters, ActiveView, Active
<1>5. ASSUME NEW o \in Ops, WriteHead(o) PROVE [Txn!Next]_(Txn!avars)
  <2>1. /\ mode = "up" /\ pc[o] = "write_log" /\ hdr' = lh
        /\ UNCHANGED <<home, logblk, cache, lh, mode>>
    BY <1>5 DEF WriteHead
  <2>2. Active = {} /\ Active' = {}
    <3>1. Active = {}
      BY <1>0, <2>1 DEF OneCommitter, Committer
    <3> QED
      BY <1>a, <1>5, <3>1 DEF WriteHead, Active
  <2>3. MemView' = MemView
    BY <2>1, SameReads DEF Bread
  <2>4. ~ Installing
    BY <1>0, <2>1 DEF Installing, OneCommitter, Committer
  <2>5. /\ \A k \in DOMAIN hdr' : DiskView'[hdr'[k]] = logblk'[k]
        /\ \A b \in Blocks : b \notin Range(hdr') => DiskView'[b] = home'[b]
    <3>1. ViewOfLog'
      BY <1>0, LoggedView, PTL
    <3> QED
      BY <3>1 DEF ViewOfLog
  <2>6. ASSUME NEW b \in Blocks PROVE DiskView'[b] = Bread(b)
    <3>1. CASE b \in Range(lh)
      <4>1. PICK k \in DOMAIN lh : lh[k] = b
        BY <3>1 DEF Range
      <4>2. k < tail
        BY <1>a, <1>5 DEF WriteHead
      <4>3. logblk[k] = Bread(lh[k])
        BY <2>1, <4>2 DEF LogIInv, Copied
      <4> QED
        BY <2>1, <2>5, <4>1, <4>3
    <3>2. CASE b \notin Range(lh)
      <4>1. b \notin Pinned
        BY <3>2 DEF Pinned, Range
      <4>2. Bread(b) = home[b]
        BY <4>1 DEF LogIInv, Coherent, Bread
      <4> QED
        BY <2>1, <2>5, <3>2, <4>2
    <3> QED
      BY <3>1, <3>2
  <2>7. DiskView' = MemView
    <3>1. MemView = [b \in Blocks |-> Bread(b)]
      BY <2>1 DEF MemView
    <3>2. DiskView' = [b \in Blocks |-> DiskView'[b]]
      BY DEF DiskView
    <3> QED
      BY <2>6, <3>1, <3>2
  <2>8. Txn!Commit
    BY <2>1, <2>2, <2>3, <2>7 DEF Txn!Commit, Active
  <2> QED
    BY <2>8 DEF Txn!Next
<1>6. ASSUME NEW o \in Ops, InstallTrans(o) PROVE [Txn!Next]_(Txn!avars)
  <2>1. /\ mode = "up" /\ pc[o] = "install" /\ tail \in DOMAIN lh
        /\ home' = [home EXCEPT ![lh[tail]] = logblk[tail]]
        /\ cache' = [cache EXCEPT ![lh[tail]] = logblk[tail]]
        /\ UNCHANGED <<logblk, hdr, pc, mode>>
    BY <1>a, <1>6 DEF InstallTrans, InstallBlock
  <2>2. hdr = lh
    BY <1>0, <2>1 DEF Header, Installing
  <2>3. DiskView' = DiskView
    BY <1>0, <2>1, <2>2, InstallHidden
  <2>4. MemView' = MemView
    <3>1. logblk[tail] = Bread(lh[tail]) /\ logblk[tail] # NoData /\ lh[tail] \in Blocks
      <4>1. tail \in Slots
        BY <1>0, <1>a, <2>1, LogAssumption DEF TypeOK, Slots
      <4> QED
        BY <1>0, <1>a, <2>1, <4>1, LogAssumption DEF Installed
    <3>2. \A b \in Blocks : Bread(b)' = Bread(b)
      BY <1>a, <2>1, <3>1 DEF Bread
    <3> QED
      BY <2>1, <3>2, SameReads
  <2> QED
    BY <1>s, <2>1, <2>3, <2>4 DEF Stutters, ActiveView, Active
<1>7. ASSUME NEW o \in Ops, ClearHead(o) PROVE [Txn!Next]_(Txn!avars)
  <2>1. /\ mode = "up" /\ pc[o] = "install" /\ hdr' = <<>>
        /\ UNCHANGED <<home, logblk, cache, mode>>
    BY <1>7 DEF ClearHead
  <2>2. hdr = lh /\ \A k \in DOMAIN lh : home[lh[k]] = logblk[k]
    <3>1. Installing
      BY <2>1 DEF Installing
    <3>2. \A k \in DOMAIN lh : k < tail
      BY <1>a, <1>7 DEF ClearHead
    <3> QED
      BY <1>0, <2>1, <3>1, <3>2 DEF Header, Installed
  <2>3. DiskView = home
    BY <1>0, <2>2, AllInstalled
  <2>4. DiskView' = home'
    BY <1>0, <2>1 DEF TypeOK, DiskView, Range
  <2>5. MemView' = MemView
    BY <2>1, SameReads DEF Bread
  <2>6. Active' = Active
    BY <1>a, <1>7 DEF ClearHead, Active
  <2> QED
    BY <1>s, <2>1, <2>3, <2>4, <2>5, <2>6 DEF Stutters, ActiveView
<1>8. ASSUME NEW o \in Ops, EndCommit(o) PROVE [Txn!Next]_(Txn!avars)
  <2>1. mode = "up" /\ UNCHANGED <<home, logblk, hdr, cache, mode>>
    BY <1>8 DEF EndCommit
  <2>2. MemView' = MemView /\ DiskView' = DiskView
    BY <2>1, SameReads, SameDisk DEF Bread
  <2>3. Active' = Active
    BY <1>a, <1>8 DEF EndCommit, Wakeup, Active
  <2> QED
    BY <1>s, <2>1, <2>2, <2>3 DEF Stutters, ActiveView
<1>9. ASSUME NEW b \in Blocks, Load(b) \/ Evict(b) PROVE [Txn!Next]_(Txn!avars)
  <2>1. mode = "up" /\ UNCHANGED <<home, logblk, hdr, pc, mode>>
    BY <1>9 DEF Load, Evict
  <2>2. \A x \in Blocks : Bread(x)' = Bread(x)
    <3>1. CASE Load(b)
      BY <1>a, <3>1, LogAssumption DEF Load, Bread
    <3>2. CASE Evict(b)
      <4>1. cache[b] = home[b]
        BY <3>2 DEF Evict, LogIInv, Coherent
      <4> QED
        BY <1>a, <3>2, <4>1 DEF Evict, Bread
    <3> QED
      BY <1>9, <3>1, <3>2
  <2>3. MemView' = MemView /\ DiskView' = DiskView
    BY <2>1, <2>2, SameReads, SameDisk
  <2> QED
    BY <1>s, <2>1, <2>3 DEF Stutters, ActiveView, Active
<1>10. CASE ReadHead
  <2>1. mode = "read_head" /\ mode' = "install" /\ UNCHANGED <<home, logblk, hdr>>
    BY <1>10 DEF ReadHead
  <2>2. DiskView' = DiskView
    BY <2>1, SameDisk
  <2> QED
    BY <1>s, <2>1, <2>2 DEF Stutters, ActiveView, MemView
<1>11. CASE RecoverInstall
  <2>1. /\ mode = "install" /\ mode' = "install" /\ tail \in DOMAIN lh
        /\ home' = [home EXCEPT ![lh[tail]] = logblk[tail]]
        /\ UNCHANGED <<logblk, hdr>>
    BY <1>a, <1>11 DEF RecoverInstall, InstallBlock
  <2>2. DiskView' = DiskView
    BY <1>0, <2>1, InstallHidden DEF Header
  <2> QED
    BY <1>s, <2>1, <2>2 DEF Stutters, ActiveView, MemView
<1>12. CASE RecoverClear
  <2>1. /\ mode = "install" /\ mode' = "up" /\ hdr' = <<>>
        /\ UNCHANGED <<home, logblk, cache, pc>>
    BY <1>12 DEF RecoverClear
  <2>2. hdr = lh /\ \A k \in DOMAIN lh : home[lh[k]] = logblk[k]
    <3>1. \A k \in DOMAIN lh : k < tail
      BY <1>a, <1>12 DEF RecoverClear
    <3> QED
      BY <1>0, <2>1, <3>1 DEF Header, Installed
  <2>3. DiskView = home /\ DiskView' = home'
    <3>1. DiskView = home
      BY <1>0, <2>2, AllInstalled
    <3>2. DiskView' = home'
      BY <1>0, <2>1 DEF TypeOK, DiskView, Range
    <3> QED
      BY <3>1, <3>2
  <2>4. MemView' = MemView
    <3>1. \A b \in Blocks : Bread(b)' = home[b]
      BY <2>1 DEF LogIInv, Coherent, Bread
    <3>2. MemView = home /\ MemView' = [b \in Blocks |-> Bread(b)']
      BY <2>1, <2>3 DEF MemView
    <3> QED
      BY <1>a, <3>1, <3>2
  <2>5. Active' = {}
    BY <1>0, <2>1 DEF Booting, Active
  <2> QED
    BY <1>s, <2>1, <2>3, <2>4, <2>5 DEF Stutters, ActiveView
<1>13. CASE Crash
  <2>1. mode' = "read_head" /\ UNCHANGED <<home, logblk, hdr>>
    BY <1>13 DEF Crash
  <2>2. DiskView' = DiskView
    BY <2>1, SameDisk
  <2>3. MemView' = DiskView
    BY <2>1, <2>2 DEF MemView
  <2>4. Txn!Crash
    BY <2>1, <2>2, <2>3 DEF Txn!Crash
  <2> QED
    BY <2>4 DEF Txn!Next
<1>14. CASE UNCHANGED vars
  <2>1. UNCHANGED <<home, logblk, hdr, cache, pc, mode>>
    BY <1>14 DEF vars
  <2>2. DiskView' = DiskView
    BY <2>1, SameDisk
  <2> QED
    BY <1>s, <2>1, <2>2 DEF Stutters, ActiveView, Active, MemView, Bread
<1> QED
  BY <1>1, <1>2, <1>3, <1>4, <1>5, <1>6, <1>7, <1>8, <1>9, <1>10, <1>11, <1>12, <1>13, <1>14
     DEF Next, Other, CommitNext

\* A machine that panics, or is started again after a panic, has lost what was
\* not committed.
LEMMA TxnPanic ==
  ASSUME [Next]_vars, mode = "panic" \/ mode' = "panic", LogIInv \/ Stopped
  PROVE  [Txn!Next]_(Txn!avars)
<1>1. UNCHANGED <<home, logblk, hdr>> /\ mode' # "up"
  <2>1. CASE mode = "panic"
    BY <2>1 DEF Next, Other, CommitNext, BeginOp, EndOp, WriteLog, WriteHead, InstallTrans,
                ClearHead, EndCommit, LogWrite, Load, Evict, ReadHead, RecoverInstall,
                RecoverClear, Crash, diskVars, vars
  <2>2. CASE mode # "panic" /\ mode' = "panic"
    BY <2>2 DEF Next, Other, CommitNext, BeginOp, EndOp, WriteLog, WriteHead, InstallTrans,
                InstallBlock, ClearHead, EndCommit, LogWrite, Load, Evict, ReadHead,
                RecoverInstall, RecoverClear, Crash, diskVars, vars
  <2> QED
    BY <2>1, <2>2
<1>2. DiskView' = DiskView
  BY <1>1, SameDisk
<1>3. MemView' = DiskView
  BY <1>1, <1>2 DEF MemView
<1>4. Txn!Crash
  BY <1>1, <1>2, <1>3 DEF Txn!Crash
<1> QED
  BY <1>4 DEF Txn!Next

\* The log implements atomic group commit, for any size of the log, any disk and
\* any number of processes: wherever the machine stops, in write_log(), in
\* install_trans(), between them or during recovery itself, recovery finds the
\* state after some commit, with every operation that returned before it and no
\* operation half done.  That holds after a panic of log_write() as well.
THEOREM LogAtomic == Spec => TxnSpec
<1>1. Init => Txn!Init
  <2> SUFFICES ASSUME Init PROVE Txn!Init
    OBVIOUS
  <2>1. TypeOK /\ mode = "read_head" /\ hdr = <<>>
    BY LogInit DEF LogIInv, Init
  <2>2. DiskView = home /\ MemView = home
    BY <2>1, EmptyHeader DEF MemView
  <2> QED
    BY <2>1, <2>2 DEF Txn!Init, TypeOK
<1>2. (LogIInv \/ Stopped) /\ (LogIInv \/ Stopped)' /\ [Next]_vars => [Txn!Next]_(Txn!avars)
  <2> SUFFICES ASSUME LogIInv \/ Stopped, (LogIInv \/ Stopped)', [Next]_vars
               PROVE  [Txn!Next]_(Txn!avars)
    OBVIOUS
  <2>1. CASE mode = "panic" \/ mode' = "panic"
    BY <2>1, TxnPanic
  <2>2. CASE mode # "panic" /\ mode' # "panic"
    <3>1. LogIInv /\ LogIInv' /\ Running
      BY <2>2 DEF Stopped, Running
    <3> QED
      BY <3>1, TxnStep
  <2> QED
    BY <2>1, <2>2
<1> QED
  BY <1>1, <1>2, LogInvariant, PTL DEF Spec, TxnSpec, Txn!Spec
=============================================================================
