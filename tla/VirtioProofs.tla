---------------------------- MODULE VirtioProofs ----------------------------
(***************************************************************************)
(* The safety of the disk driver (module Virtio) for any number of         *)
(* descriptors, any width of the rings' indices and any processes.         *)
(***************************************************************************)
EXTENDS Virtio, FiniteSetTheorems, TLAPS

(***************************************************************************)
(* The inductive invariant.  DriverInv and DoneAsAsked do not say what the *)
(* descriptors of a request contain, nor that a request is in one place    *)
(* only: the handler could meet it twice, the second time after its        *)
(* descriptors have gone to somebody else.                                 *)
(***************************************************************************)

\* The types that TypeOK leaves out.
Types ==
  /\ TypeOK
  /\ desc = [d \in Descs |-> desc[d]]
  /\ status \in [Descs -> {0, 255}] /\ ops \in [Descs -> Procs \cup {None}]
  /\ idx \in [Procs -> {<<>>} \cup (Descs \X Descs \X Descs)]
  /\ bdisk \in [Procs -> {0, 1}] /\ served \in [Procs -> Procs \cup {None}]
  /\ devIdx \in 0..WRAP - 1

\* The three descriptors of a request are linked as virtio_disk_rw() formats
\* them, name its buffer, and are nobody else's.
Chained == \A p \in InFlight : LET i == idx[p] IN
  /\ i \in Descs \X Descs \X Descs
  /\ i[1] # i[2] /\ i[1] # i[3] /\ i[2] # i[3]
  /\ desc[i[1]] = [addr |-> "op", next |-> i[2], more |-> TRUE]
  /\ desc[i[2]] = [addr |-> p, next |-> i[3], more |-> TRUE]
  /\ desc[i[3]] = [addr |-> i[1], next |-> 0, more |-> FALSE]
  /\ ops[i[1]] = p /\ info[i[1]] = p
  /\ Taken(i) \cap free = {}
Apart == \A p, q \in InFlight : p # q => Taken(idx[p]) \cap Taken(idx[q]) = {}
Counted == NUM = Cardinality(free) + 3 * Cardinality(InFlight)

\* The heads of the chains of the processes in S.
HeadsOf(S) == {idx[p][1] : p \in S}
Waiting == {p \in InFlight : bdisk[p] = 1}
Publishing == {p \in Procs : pc[p] = "publish"}

InAvail == RingEntries(avail, devIdx, availIdx)
InUsed == RingEntries(used, used_idx, usedIdx)

\* A request that is not done is in one place: about to be published, in the
\* available ring, with the device, or in the used ring; nothing else is there.
Located ==
  /\ HeadsOf(Publishing) \cup InAvail \cup devWork \cup InUsed = HeadsOf(Waiting)
  /\ HeadsOf(Publishing) \cap (InAvail \cup devWork \cup InUsed) = {}
  /\ InAvail \cap (devWork \cup InUsed) = {} /\ devWork \cap InUsed = {}

\* The entries of a ring from index a to index b differ.
NoRepeats(ring, a, b) == \A j, k \in 0..Between(a, b) - 1 :
  ring[(a + j) % NUM] = ring[(a + k) % NUM] => j = k
Ordered == NoRepeats(avail, devIdx, availIdx) /\ NoRepeats(used, used_idx, usedIdx)

\* vdisk_lock is held by the process that has filled the next entry of the
\* available ring and not yet incremented avail->idx.
Published == \A p \in Procs :
  /\ lock = p <=> pc[p] = "publish"
  /\ pc[p] = "publish" => bdisk[p] = 1 /\ avail[availIdx % NUM] = idx[p][1]

\* What lies in the used ring has been carried out, and so has what is done.
Served == \A p \in InFlight :
  /\ idx[p][1] \in InUsed => status[idx[p][1]] = 0 /\ served[p] = p
  /\ bdisk[p] = 0 => served[p] = p

\* A completion nobody is handling has raised the interrupt.
Raised == used_idx # usedIdx => irq \/ lock = Intr

VirtioIInv ==
  /\ Types /\ Chained /\ Apart /\ Counted /\ Located /\ Ordered /\ Published /\ Served
  /\ Raised /\ SleepJustified /\ NoPanic

-----------------------------------------------------------------------------
(* Arithmetic modulo the size of a ring and modulo the width of its indices *)

\* What the remainder of a division is.
LEMMA DivMod ==
  ASSUME NEW b \in Nat \ {0}, NEW a \in Nat
  PROVE  /\ a % b \in 0..(b - 1) /\ a \div b \in Int
         /\ a = b * (a \div b) + (a % b)
  OBVIOUS

\* Only one number below b is the remainder.
LEMMA ModUnique ==
  ASSUME NEW b \in Nat \ {0}, NEW x \in Int, NEW r \in 0..(b - 1)
  PROVE  (b * x + r) % b = r
  OBVIOUS

\* Multiples of b do not change the remainder.
LEMMA ModMultiple ==
  ASSUME NEW b \in Nat \ {0}, NEW a \in Nat, NEW x \in Int
  PROVE  (a + b * x) % b = a % b
<1> DEFINE d == a \div b
           m == a % b
<1>1. m \in 0..(b - 1) /\ d \in Int /\ a = b * d + m
  BY DivMod
<1> HIDE DEF d, m
<1>2. a + b * x = b * (d + x) + m
  BY <1>1
<1>3. (b * (d + x) + m) % b = m
  BY <1>1, ModUnique
<1> QED
  BY <1>2, <1>3 DEF m

\* A counter that has gone around at most once.
LEMMA ModOnce ==
  ASSUME NEW b \in Nat \ {0}, NEW a \in 0..(2 * b - 1)
  PROVE  a % b = IF a < b THEN a ELSE a - b
<1>1. CASE a < b
  <2>1. b * 0 + a = a
    OBVIOUS
  <2>2. (b * 0 + a) % b = a
    BY <1>1, ModUnique
  <2> QED
    BY <1>1, <2>1, <2>2
<1>2. CASE ~ (a < b)
  <2>1. b * 1 + (a - b) = a /\ a - b \in 0..(b - 1)
    BY <1>2
  <2>2. (b * 1 + (a - b)) % b = a - b
    BY <2>1, ModUnique
  <2> QED
    BY <1>2, <2>1, <2>2
<1> QED
  BY <1>1, <1>2

\* Two numbers less than b apart have different remainders.
LEMMA ModApart ==
  ASSUME NEW b \in Nat \ {0}, NEW a \in Nat, NEW c \in Nat,
         a < c, c < a + b
  PROVE  a % b # c % b
<1> SUFFICES ASSUME a % b = c % b PROVE FALSE
  OBVIOUS
<1> DEFINE m == a % b
           i == a \div b
           j == c \div b
<1>1. m \in Int /\ i \in Int /\ a = b * i + m
  BY DivMod
<1>2. j \in Int /\ c = b * j + m
  BY DivMod
<1> HIDE DEF m, i, j
<1>3. PICK x \in Int : c - a = b * x
  <2>1. c - a = (b * j) - (b * i)
    BY <1>1, <1>2
  <2>2. (b * j) - (b * i) = b * (j - i)
    BY <1>1, <1>2
  <2> QED
    BY <1>1, <1>2, <2>1, <2>2
<1>4. CASE x >= 1
  BY <1>3, <1>4
<1>5. CASE x <= 0
  BY <1>3, <1>5
<1> QED
  BY <1>4, <1>5

-----------------------------------------------------------------------------
(* The rings *)

\* The sizes alone: an index is a multiple of the ring wide.
LEMMA Widths == /\ NUM \in Nat \ {0} /\ NUM >= 3 /\ WRAP \in Nat \ {0} /\ NUM <= WRAP
                /\ \E x \in Int : WRAP = NUM * x
<1>1. NUM \in Nat \ {0} /\ NUM >= 3 /\ WRAP \in Nat \ {0} /\ WRAP % NUM = 0
  BY VirtioAssumption
<1>2. WRAP = NUM * (WRAP \div NUM) + (WRAP % NUM) /\ WRAP \div NUM \in Int
  BY <1>1, DivMod
<1>3. PICK x \in Int : WRAP = NUM * x
  BY <1>1, <1>2
<1>4. NUM <= WRAP
  <2>1. CASE x <= 0
    BY <1>1, <1>3, <2>1
  <2>2. CASE x >= 1
    BY <1>1, <1>3, <2>2
  <2> QED
    BY <2>1, <2>2
<1> QED
  BY <1>1, <1>3, <1>4

\* An index that is incremented wraps around at the end.
LEMMA Incremented ==
  ASSUME NEW a \in 0..WRAP - 1
  PROVE  /\ (a + 1) % WRAP = IF a + 1 < WRAP THEN a + 1 ELSE 0
         /\ (a + 1) % WRAP \in 0..WRAP - 1
<1>1. WRAP \in Nat \ {0}
  BY Widths
<1>2. a + 1 \in 0..(2 * WRAP - 1)
  BY <1>1
<1>3. (a + 1) % WRAP = IF a + 1 < WRAP THEN a + 1 ELSE (a + 1) - WRAP
  BY <1>1, <1>2, ModOnce
<1> QED
  BY <1>1, <1>3

\* How far two indices are apart, whether or not the second has gone around.
LEMMA BetweenIs ==
  ASSUME NEW a \in 0..WRAP - 1, NEW b \in 0..WRAP - 1
  PROVE  /\ Between(a, b) = IF b >= a THEN b - a ELSE b + WRAP - a
         /\ Between(a, b) \in 0..WRAP - 1
         /\ a = b <=> Between(a, b) = 0
<1>1. WRAP \in Nat \ {0}
  BY Widths
<1> DEFINE s == b + WRAP - a
<1>2. s \in 0..(2 * WRAP - 1)
  BY <1>1
<1>3. s = b + WRAP - a /\ Between(a, b) = s % WRAP
  BY DEF Between
<1> HIDE DEF s
<1>4. s % WRAP = IF s < WRAP THEN s ELSE s - WRAP
  BY <1>1, <1>2, ModOnce
<1> QED
  BY <1>1, <1>3, <1>4

\* One entry more at the end, and one less at the beginning.
LEMMA BetweenPut ==
  ASSUME NEW a \in 0..WRAP - 1, NEW b \in 0..WRAP - 1, Between(a, b) + 1 < WRAP
  PROVE  Between(a, (b + 1) % WRAP) = Between(a, b) + 1
<1>1. PICK c \in 0..WRAP - 1 : c = (b + 1) % WRAP
  BY Incremented
<1>2. c = IF b + 1 < WRAP THEN b + 1 ELSE 0
  BY <1>1, Incremented
<1>3. Between(a, c) = IF c >= a THEN c - a ELSE c + WRAP - a
  BY BetweenIs
<1>4. Between(a, b) = IF b >= a THEN b - a ELSE b + WRAP - a
  BY BetweenIs
<1>5. Between(a, c) = Between(a, b) + 1
  BY <1>2, <1>3, <1>4, Widths
<1> QED
  BY <1>1, <1>5

\* The device, or the handler, takes an entry.
LEMMA BetweenTake ==
  ASSUME NEW a \in 0..WRAP - 1, NEW b \in 0..WRAP - 1, a # b
  PROVE  Between((a + 1) % WRAP, b) = Between(a, b) - 1
<1>1. PICK c \in 0..WRAP - 1 : c = (a + 1) % WRAP
  BY Incremented
<1>2. c = IF a + 1 < WRAP THEN a + 1 ELSE 0
  BY <1>1, Incremented
<1>3. Between(c, b) = IF b >= c THEN b - c ELSE b + WRAP - c
  BY BetweenIs
<1>4. Between(a, b) = IF b >= a THEN b - a ELSE b + WRAP - a
  BY BetweenIs
<1>5. Between(c, b) = Between(a, b) - 1
  BY <1>2, <1>3, <1>4, Widths
<1> QED
  BY <1>1, <1>5

\* Where an entry is: slots are those of the ring, the one after the last entry
\* is where idx points, also when an index has gone around, and different
\* entries have different slots.
LEMMA SlotsAre ==
  ASSUME NEW a \in 0..WRAP - 1
  PROVE  /\ a % NUM \in Descs /\ \A k \in Nat : (a + k) % NUM \in Descs
         /\ \A b \in 0..WRAP - 1 : (a + Between(a, b)) % NUM = b % NUM
         /\ \A k \in Nat : (((a + 1) % WRAP) + k) % NUM = (a + (k + 1)) % NUM
         /\ \A j, k \in 0..NUM - 1 : j # k => (a + j) % NUM # (a + k) % NUM
<1>1. NUM \in Nat \ {0} /\ WRAP \in Nat \ {0}
  BY Widths
<1>2. PICK x \in Int : WRAP = NUM * x
  BY Widths
<1>3. a % NUM \in Descs /\ \A k \in Nat : (a + k) % NUM \in Descs
  <2>1. \A c \in Nat : c % NUM \in Descs
    BY <1>1, DivMod DEF Descs
  <2> QED
    BY <1>1, <2>1
<1>4. ASSUME NEW c \in Nat, c >= WRAP
      PROVE  c % NUM = (c - WRAP) % NUM
  <2>1. c - WRAP \in Nat /\ c = (c - WRAP) + NUM * x
    BY <1>1, <1>2, <1>4
  <2>2. ((c - WRAP) + NUM * x) % NUM = (c - WRAP) % NUM
    BY <1>1, <2>1, ModMultiple
  <2> QED
    BY <2>1, <2>2
<1>5. ASSUME NEW b \in 0..WRAP - 1
      PROVE  (a + Between(a, b)) % NUM = b % NUM
  <2>1. Between(a, b) = IF b >= a THEN b - a ELSE b + WRAP - a
    BY BetweenIs
  <2>2. CASE b >= a
    <3>1. a + Between(a, b) = b
      BY <1>1, <2>1, <2>2
    <3> QED
      BY <3>1
  <2>3. CASE ~ (b >= a)
    <3>1. a + Between(a, b) = b + WRAP
      BY <1>1, <2>1, <2>3
    <3>2. b + WRAP \in Nat /\ b + WRAP >= WRAP /\ (b + WRAP) - WRAP = b
      BY <1>1
    <3>3. (b + WRAP) % NUM = b % NUM
      BY <1>4, <3>2
    <3> QED
      BY <3>1, <3>3
  <2> QED
    BY <2>2, <2>3
<1>6. ASSUME NEW k \in Nat
      PROVE  (((a + 1) % WRAP) + k) % NUM = (a + (k + 1)) % NUM
  <2>1. (a + 1) % WRAP = IF a + 1 < WRAP THEN a + 1 ELSE 0
    BY Incremented
  <2>2. CASE a + 1 < WRAP
    <3>1. (a + 1) + k = a + (k + 1)
      BY <1>1
    <3> QED
      BY <2>1, <2>2, <3>1
  <2>3. CASE ~ (a + 1 < WRAP)
    <3>1. /\ a + (k + 1) \in Nat /\ a + (k + 1) >= WRAP /\ (a + (k + 1)) - WRAP = 0 + k
      BY <1>1, <2>3
    <3>2. (a + (k + 1)) % NUM = (0 + k) % NUM
      BY <1>4, <3>1
    <3> QED
      BY <2>1, <2>3, <3>2
  <2> QED
    BY <2>2, <2>3
<1>7. ASSUME NEW j \in 0..NUM - 1, NEW k \in 0..NUM - 1, j < k
      PROVE  (a + j) % NUM # (a + k) % NUM
  <2>1. a + j \in Nat /\ a + k \in Nat /\ a + j < a + k /\ a + k < (a + j) + NUM
    BY <1>1, <1>7
  <2> QED
    BY <1>1, <2>1, ModApart
<1>8. ASSUME NEW j \in 0..NUM - 1, NEW k \in 0..NUM - 1, j # k
      PROVE  (a + j) % NUM # (a + k) % NUM
  <2>1. j < k \/ k < j
    BY <1>1, <1>8
  <2> QED
    BY <1>7, <2>1
<1> QED
  BY <1>3, <1>5, <1>6, <1>8

\* An entry is written behind the last one, which leaves the others alone.
LEMMA RingWrite ==
  ASSUME NEW a \in 0..WRAP - 1, NEW b \in 0..WRAP - 1, Between(a, b) < NUM,
         NEW ring, NEW new, \A d \in Descs : d # b % NUM => new[d] = ring[d]
  PROVE  /\ RingEntries(new, a, b) = RingEntries(ring, a, b)
         /\ NoRepeats(ring, a, b) => NoRepeats(new, a, b)
<1> DEFINE n == Between(a, b)
<1>1. n \in Nat /\ n < NUM /\ NUM \in Nat
  BY BetweenIs, Widths
<1>2. (a + n) % NUM = b % NUM /\ b % NUM \in Descs
  BY SlotsAre
<1>3. ASSUME NEW k \in 0..n - 1
      PROVE  (a + k) % NUM # b % NUM /\ (a + k) % NUM \in Descs
  <2>1. k \in Nat /\ k \in 0..NUM - 1 /\ n \in 0..NUM - 1 /\ k # n
    BY <1>1
  <2>2. \A i, j \in 0..NUM - 1 : i # j => (a + i) % NUM # (a + j) % NUM
    BY SlotsAre
  <2>3. \A j \in Nat : (a + j) % NUM \in Descs
    BY SlotsAre
  <2> HIDE DEF n
  <2> QED
    BY <1>2, <2>1, <2>2, <2>3
<1>4. \A k \in 0..n - 1 : new[(a + k) % NUM] = ring[(a + k) % NUM]
  BY <1>3
<1> QED
  BY <1>4 DEF RingEntries, NoRepeats

\* The index is incremented: the entry written joins the others.
LEMMA RingPut ==
  ASSUME NEW ring, NEW a \in 0..WRAP - 1, NEW b \in 0..WRAP - 1, Between(a, b) + 1 < WRAP,
         NEW c, c = (b + 1) % WRAP
  PROVE  /\ RingEntries(ring, a, c) = RingEntries(ring, a, b) \cup {ring[b % NUM]}
         /\ NoRepeats(ring, a, b) /\ ring[b % NUM] \notin RingEntries(ring, a, b)
              => NoRepeats(ring, a, c)
<1> DEFINE n == Between(a, b)
<1>1. n \in Nat /\ Between(a, c) = n + 1
  BY BetweenIs, BetweenPut
<1>2. ring[(a + n) % NUM] = ring[b % NUM]
  BY SlotsAre
<1> HIDE DEF n
<1>3. 0..(n + 1) - 1 = (0..n - 1) \cup {n}
  BY <1>1
<1>4. RingEntries(ring, a, b) = {ring[(a + k) % NUM] : k \in 0..n - 1}
  BY DEF RingEntries, n
<1>5. RingEntries(ring, a, c) = RingEntries(ring, a, b) \cup {ring[b % NUM]}
  <2>1. RingEntries(ring, a, c) = {ring[(a + k) % NUM] : k \in 0..(n + 1) - 1}
    BY <1>1 DEF RingEntries
  <2>2. RingEntries(ring, a, c) = {ring[(a + k) % NUM] : k \in (0..n - 1) \cup {n}}
    BY <1>3, <2>1
  <2> QED
    BY <1>2, <1>4, <2>2
<1>6. ASSUME NoRepeats(ring, a, b), ring[b % NUM] \notin RingEntries(ring, a, b)
      PROVE  NoRepeats(ring, a, c)
  <2>1. \A j, k \in 0..n - 1 : ring[(a + j) % NUM] = ring[(a + k) % NUM] => j = k
    BY <1>6 DEF NoRepeats, n
  <2>2. \A k \in 0..n - 1 : ring[(a + k) % NUM] # ring[(a + n) % NUM]
    BY <1>2, <1>4, <1>6
  <2> QED
    BY <1>1, <1>3, <2>1, <2>2 DEF NoRepeats
<1> QED
  BY <1>5, <1>6

\* The first entry is taken.
LEMMA RingTake ==
  ASSUME NEW a \in 0..WRAP - 1, NEW b \in 0..WRAP - 1, a # b, Between(a, b) < NUM,
         NEW ring, NEW new, \A d \in Descs : d # a % NUM => new[d] = ring[d],
         NoRepeats(ring, a, b), NEW c, c = (a + 1) % WRAP
  PROVE  /\ RingEntries(new, c, b) = RingEntries(ring, a, b) \ {ring[a % NUM]}
         /\ ring[a % NUM] \in RingEntries(ring, a, b)
         /\ NoRepeats(new, c, b)
         /\ new[b % NUM] = ring[b % NUM]
<1> DEFINE n == Between(a, b)
<1>1. n \in Nat /\ n # 0 /\ n < NUM /\ NUM \in Nat /\ Between(c, b) = n - 1
  BY BetweenIs, BetweenTake, Widths
<1>2. a % NUM \in Descs /\ (a + 0) % NUM = a % NUM
  BY SlotsAre
<1>3. ASSUME NEW k \in 0..n, k # 0
      PROVE  (a + k) % NUM # a % NUM /\ (a + k) % NUM \in Descs
  <2>1. k \in Nat /\ k \in 0..NUM - 1 /\ 0 \in 0..NUM - 1
    BY <1>1
  <2>2. \A i, j \in 0..NUM - 1 : i # j => (a + i) % NUM # (a + j) % NUM
    BY SlotsAre
  <2>3. \A j \in Nat : (a + j) % NUM \in Descs
    BY SlotsAre
  <2> HIDE DEF n
  <2> QED
    BY <1>2, <1>3, <2>1, <2>2, <2>3
<1>4. \A k \in 0..n : k # 0 => new[(a + k) % NUM] = ring[(a + k) % NUM]
  BY <1>3
<1>5. new[b % NUM] = ring[b % NUM]
  <2>1. (a + n) % NUM = b % NUM
    BY SlotsAre
  <2> QED
    BY <1>1, <1>4, <2>1
<1>6. \A k \in 0..(n - 1) - 1 : (c + k) % NUM = (a + (k + 1)) % NUM
  BY <1>1, SlotsAre
<1> HIDE DEF n
<1>7. ASSUME NEW k \in 0..(n - 1) - 1
      PROVE  new[(c + k) % NUM] = ring[(a + (k + 1)) % NUM] /\ k + 1 \in 0..n - 1
  <2>1. k + 1 \in 0..n /\ k + 1 # 0 /\ k + 1 \in 0..n - 1
    BY <1>1
  <2>2. new[(a + (k + 1)) % NUM] = ring[(a + (k + 1)) % NUM]
    BY <1>4, <2>1
  <2> QED
    BY <1>6, <2>1, <2>2
<1>8. \A j, k \in 0..n - 1 : ring[(a + j) % NUM] = ring[(a + k) % NUM] => j = k
  BY DEF NoRepeats, n
<1>9. RingEntries(ring, a, b) = {ring[(a + k) % NUM] : k \in 0..n - 1}
  BY DEF RingEntries, n
<1>10. RingEntries(new, c, b) = {new[(c + k) % NUM] : k \in 0..(n - 1) - 1}
  BY <1>1 DEF RingEntries
<1>11. ring[a % NUM] \in RingEntries(ring, a, b)
  <2>1. 0 \in 0..n - 1
    BY <1>1
  <2> QED
    BY <1>2, <1>9, <2>1
<1>12. RingEntries(new, c, b) \subseteq RingEntries(ring, a, b) \ {ring[a % NUM]}
  <2> SUFFICES ASSUME NEW k \in 0..(n - 1) - 1
               PROVE  new[(c + k) % NUM] \in RingEntries(ring, a, b) \ {ring[a % NUM]}
    BY <1>10
  <2>1. k + 1 \in 0..n - 1 /\ 0 \in 0..n - 1 /\ k + 1 # 0
    BY <1>1
  <2> QED
    BY <1>2, <1>7, <1>8, <1>9, <2>1
<1>13. RingEntries(ring, a, b) \ {ring[a % NUM]} \subseteq RingEntries(new, c, b)
  <2> SUFFICES ASSUME NEW k \in 0..n - 1, ring[(a + k) % NUM] # ring[a % NUM]
               PROVE  ring[(a + k) % NUM] \in RingEntries(new, c, b)
    BY <1>9
  <2>1. k # 0
    BY <1>2
  <2>2. k - 1 \in 0..(n - 1) - 1 /\ (k - 1) + 1 = k
    BY <1>1, <2>1
  <2>3. new[(c + (k - 1)) % NUM] = ring[(a + k) % NUM]
    BY <1>7, <2>2
  <2> QED
    BY <1>10, <2>2, <2>3
<1>14. NoRepeats(new, c, b)
  <2> SUFFICES ASSUME NEW j \in 0..(n - 1) - 1, NEW k \in 0..(n - 1) - 1,
                      new[(c + j) % NUM] = new[(c + k) % NUM]
               PROVE  j = k
    BY <1>1 DEF NoRepeats
  <2>1. j + 1 = k + 1
    BY <1>7, <1>8
  <2>2. j \in Int /\ k \in Int
    BY <1>1
  <2> QED
    BY ONLY <2>1, <2>2
<1> QED
  BY <1>5, <1>11, <1>12, <1>13, <1>14

\* A ring that holds requests in flight, each once, is never full: there are three
\* descriptors to a request.
LEMMA RingShort ==
  ASSUME Types, Chained, Counted, NEW ring, NEW a \in 0..WRAP - 1, NEW b \in 0..WRAP - 1,
         RingEntries(ring, a, b) \subseteq HeadsOf(InFlight), NoRepeats(ring, a, b)
  PROVE  Between(a, b) + 1 < NUM /\ NUM <= WRAP
<1> DEFINE n == Between(a, b)
           f == [k \in 0..n - 1 |-> info[ring[(a + k) % NUM]]]
<1>1. n \in Nat /\ NUM \in Nat /\ NUM >= 3 /\ NUM <= WRAP
  BY BetweenIs, Widths
<1>2. \A k \in 0..n - 1 : ring[(a + k) % NUM] \in HeadsOf(InFlight)
  BY DEF RingEntries
<1>3. \A j, k \in 0..n - 1 : ring[(a + j) % NUM] = ring[(a + k) % NUM] => j = k
  BY DEF NoRepeats
<1>4. \A d \in HeadsOf(InFlight) : info[d] \in InFlight /\ idx[info[d]][1] = d
  <2> SUFFICES ASSUME NEW p \in InFlight
               PROVE  info[idx[p][1]] = p
    BY DEF HeadsOf
  <2> QED
    BY DEF Chained
<1> HIDE DEF n
<1>5. f \in Injection(0..n - 1, InFlight)
  <2>1. f \in [0..n - 1 -> InFlight]
    BY <1>2, <1>4
  <2>2. \A j, k \in 0..n - 1 : f[j] = f[k] => j = k
    BY <1>2, <1>3, <1>4
  <2> HIDE DEF f
  <2> QED
    BY <2>1, <2>2 DEF Injection, IsInjective
<1>6. IsFiniteSet(InFlight) /\ Cardinality(InFlight) \in Nat
  BY VirtioAssumption, FS_Subset, FS_CardinalityType DEF InFlight
<1>7. IsFiniteSet(free) /\ Cardinality(free) \in Nat
  <2>1. IsFiniteSet(Descs)
    BY <1>1, FS_Interval DEF Descs
  <2> QED
    BY <2>1, FS_Subset, FS_CardinalityType DEF Types, TypeOK
<1>8. Cardinality(0..n - 1) <= Cardinality(InFlight)
  BY <1>5, <1>6, FS_Injection
<1>9. Cardinality(0..n - 1) = n
  BY <1>1, FS_Interval
<1>10. n + 1 < NUM
  BY <1>1, <1>6, <1>7, <1>8, <1>9 DEF Counted
<1> QED
  BY <1>1, <1>10 DEF n

\* alloc_desc() finds the lowest free descriptor.
LEMMA MinIn ==
  ASSUME NEW S \in SUBSET Nat, S # {}
  PROVE  Min(S) \in S
<1> DEFINE R == OpToRel(<, Nat)
<1>1. IsWellFoundedOn(R, Nat)
  BY NatLessThanWellFounded
<1>2. \A x, y \in Nat : x < y => <<x, y>> \in R
  BY DEF OpToRel
<1> HIDE DEF R
<1>3. PICK x \in S : \A y \in S : <<y, x>> \notin R
  BY <1>1, WFMin
<1>4. \A y \in S : x =< y
  <2> SUFFICES ASSUME NEW y \in S PROVE x =< y
    OBVIOUS
  <2>1. x \in Nat /\ y \in Nat /\ ~ (y < x)
    BY <1>2, <1>3
  <2> QED
    BY <2>1
<1> QED
  BY <1>4 DEF Min

\* The sets that are counted are finite.
LEMMA Finite ==
  ASSUME Types
  PROVE  /\ IsFiniteSet(free) /\ Cardinality(free) \in Nat
         /\ IsFiniteSet(InFlight) /\ Cardinality(InFlight) \in Nat
<1>1. IsFiniteSet(Descs)
  BY Widths, FS_Interval DEF Descs
<1>2. IsFiniteSet(free) /\ Cardinality(free) \in Nat
  BY <1>1, FS_Subset, FS_CardinalityType DEF Types, TypeOK
<1> QED
  BY <1>2, VirtioAssumption, FS_Subset, FS_CardinalityType DEF InFlight

\* alloc3_desc() takes three different descriptors, all of them free.
LEMMA AllocDescs ==
  ASSUME Types, Cardinality(free) >= 3
  PROVE  \E a, b, c \in free :
           /\ a # b /\ a # c /\ b # c
           /\ Lowest3 = <<a, b, c>>
           /\ Cardinality(free \ {a, b, c}) = Cardinality(free) - 3
<1>1. free \subseteq Nat
  BY DEF Types, TypeOK, Descs
<1>2. IsFiniteSet(free) /\ Cardinality(free) \in Nat
  BY Finite
<1> DEFINE a == Min(free)
           F1 == free \ {a}
           b == Min(F1)
           F2 == F1 \ {b}
           c == Min(F2)
           F3 == F2 \ {c}
<1>3. a \in free
  <2>1. free # {}
    BY <1>2, FS_EmptySet
  <2> QED
    BY <1>1, <2>1, MinIn
<1> HIDE DEF a
<1>4. IsFiniteSet(F1) /\ Cardinality(F1) = Cardinality(free) - 1
  BY <1>2, <1>3, FS_RemoveElement
<1>5. b \in F1
  <2>1. F1 # {}
    BY <1>2, <1>4, FS_EmptySet
  <2>2. F1 \subseteq Nat
    BY <1>1
  <2> HIDE DEF F1
  <2> QED
    BY <2>1, <2>2, MinIn
<1>6. IsFiniteSet(F2) /\ Cardinality(F2) = Cardinality(F1) - 1
  <2> HIDE DEF F1, b
  <2> QED
    BY <1>4, <1>5, FS_RemoveElement
<1>7. c \in F2
  <2>1. F2 # {}
    BY <1>2, <1>4, <1>6, FS_EmptySet
  <2>2. F2 \subseteq Nat
    BY <1>1
  <2> HIDE DEF F2
  <2> QED
    BY <2>1, <2>2, MinIn
<1>8. Cardinality(F3) = Cardinality(F2) - 1
  <2> HIDE DEF F2, c
  <2> QED
    BY <1>6, <1>7, FS_RemoveElement
<1>9. free \ {a, b} = F2 /\ F3 = free \ {a, b, c}
  OBVIOUS
<1>10. Lowest3 = <<a, b, c>>
  BY <1>9 DEF Lowest3, a
<1>11. Cardinality(free \ {a, b, c}) = Cardinality(free) - 3
  <2> HIDE DEF F1, F2, F3, b, c
  <2> QED
    BY <1>2, <1>4, <1>6, <1>8, <1>9
<1>12. a \in free /\ b \in free /\ c \in free /\ a # b /\ a # c /\ b # c
  <2> HIDE DEF b, c
  <2> QED
    BY <1>3, <1>5, <1>7
<1> HIDE DEF F1, F2, F3, b, c
<1> QED
  BY <1>10, <1>11, <1>12

\* free_chain() walks exactly the descriptors that alloc3_desc() gave.
LEMMA ChainIs ==
  ASSUME Types, Chained, NEW p \in InFlight
  PROVE  /\ Chain(idx[p][1]) = Taken(idx[p])
         /\ desc[desc[idx[p][1]].next].addr = p
         /\ desc[desc[desc[idx[p][1]].next].next].addr = idx[p][1]
<1> DEFINE i == idx[p]
<1>1. /\ desc[i[1]] = [addr |-> "op", next |-> i[2], more |-> TRUE]
      /\ desc[i[2]] = [addr |-> p, next |-> i[3], more |-> TRUE]
      /\ desc[i[3]] = [addr |-> i[1], next |-> 0, more |-> FALSE]
  BY DEF Chained
<1> HIDE DEF i
<1>2. Chain(i[1]) = Taken(i)
  BY <1>1 DEF Chain, Taken
<1> QED
  BY <1>1, <1>2 DEF i

\* The descriptor at the head of a request is in no other request and not free.
LEMMA HeadsDiffer ==
  ASSUME Types, Chained, Apart
  PROVE  /\ \A p \in InFlight : idx[p][1] \in Descs \ free /\ info[idx[p][1]] = p
         /\ \A p, q \in InFlight : idx[p][1] = idx[q][1] => p = q
<1>1. \A p \in InFlight : idx[p][1] \in Descs \ free /\ info[idx[p][1]] = p
  BY DEF Chained, Taken
<1> QED
  BY <1>1

\* What is in the rings is requests in flight, so that neither ring is full.
LEMMA RingRoom ==
  ASSUME VirtioIInv
  PROVE  /\ Between(devIdx, availIdx) + 1 < NUM /\ Between(used_idx, usedIdx) + 1 < NUM
         /\ Between(devIdx, availIdx) \in Nat /\ Between(used_idx, usedIdx) \in Nat
         /\ NUM <= WRAP /\ NUM \in Nat /\ WRAP \in Nat
<1> USE DEF VirtioIInv
<1>1. HeadsOf(Waiting) \subseteq HeadsOf(InFlight)
  BY DEF HeadsOf, Waiting
<1>2. InAvail \subseteq HeadsOf(InFlight) /\ InUsed \subseteq HeadsOf(InFlight)
  BY <1>1 DEF Located
<1>3. /\ devIdx \in 0..WRAP - 1 /\ availIdx \in 0..WRAP - 1
      /\ used_idx \in 0..WRAP - 1 /\ usedIdx \in 0..WRAP - 1
  BY DEF Types, TypeOK
<1>4. Between(devIdx, availIdx) + 1 < NUM
  BY <1>2, <1>3, RingShort DEF InAvail, Ordered
<1>5. Between(used_idx, usedIdx) + 1 < NUM
  BY <1>2, <1>3, RingShort DEF InUsed, Ordered
<1> QED
  BY <1>3, <1>4, <1>5, BetweenIs, Widths

-----------------------------------------------------------------------------
(* Every step preserves the invariant *)

\* virtio_disk_rw() formats a chain of free descriptors and puts its head where
\* the device does not look yet.
LEMMA SubmitStep ==
  ASSUME VirtioIInv, NEW p \in Procs, lock = None, pc[p] \in {"idle", "retry"}, Submit(p)
  PROVE  VirtioIInv'
<1> USE DEF VirtioIInv
<1>1. PICK a, b, c \in free :
        /\ a # b /\ a # c /\ b # c
        /\ Lowest3 = <<a, b, c>>
        /\ Cardinality(free \ {a, b, c}) = Cardinality(free) - 3
  BY AllocDescs DEF Submit
<1> DEFINE i == <<a, b, c>>
<1>2. /\ free' = free \ {a, b, c} /\ idx' = [idx EXCEPT ![p] = i]
      /\ ops' = [ops EXCEPT ![a] = p]
      /\ desc' = [desc EXCEPT ![a] = [addr |-> "op", next |-> b, more |-> TRUE],
                              ![b] = [addr |-> p, next |-> c, more |-> TRUE],
                              ![c] = [addr |-> a, next |-> 0, more |-> FALSE]]
      /\ status' = [status EXCEPT ![a] = 255]
      /\ info' = [info EXCEPT ![a] = p]
      /\ avail' = [avail EXCEPT ![availIdx % NUM] = a]
  BY <1>1 DEF Submit, Taken
<1>3. /\ bdisk' = [bdisk EXCEPT ![p] = 1] /\ served' = [served EXCEPT ![p] = None]
      /\ lock' = p /\ pc' = [pc EXCEPT ![p] = "publish"]
      /\ UNCHANGED <<availIdx, used, usedIdx, used_idx, devIdx, devWork, irq, panicked>>
  BY DEF Submit, Flagged
<1>4. a \in Descs /\ b \in Descs /\ c \in Descs /\ p \notin InFlight
  BY DEF Types, TypeOK, InFlight
<1>5. InFlight' = InFlight \cup {p} /\ \A q \in InFlight : q # p /\ idx'[q] = idx[q]
  BY <1>2, <1>3, <1>4 DEF Types, TypeOK, InFlight
<1>6. idx'[p] = i
  BY <1>2 DEF Types
<1>7. Waiting' = Waiting \cup {p} /\ Publishing' = {p}
  <2>1. Publishing = {}
    BY VirtioAssumption DEF Publishing, Published
  <2>2. Publishing' = {p}
    BY <1>3, <2>1 DEF Publishing, Types, TypeOK
  <2>3. bdisk'[p] = 1 /\ \A q \in InFlight : bdisk'[q] = bdisk[q]
    BY <1>3, <1>5 DEF Types
  <2> QED
    BY <1>5, <2>2, <2>3 DEF Waiting
<1>8. /\ InAvail' = InAvail /\ InUsed' = InUsed
      /\ NoRepeats(avail', devIdx, availIdx) /\ avail'[availIdx % NUM] = a
  <2>1. Between(devIdx, availIdx) < NUM
    BY RingRoom
  <2>2. /\ avail \in [Descs -> Descs \cup {None}]
        /\ devIdx \in 0..WRAP - 1 /\ availIdx \in 0..WRAP - 1
    BY DEF Types, TypeOK
  <2>3. /\ RingEntries(avail', devIdx, availIdx) = RingEntries(avail, devIdx, availIdx)
        /\ NoRepeats(avail', devIdx, availIdx) /\ avail'[availIdx % NUM] = a
    <3>1. NoRepeats(avail, devIdx, availIdx)
      BY DEF Ordered
    <3>2. availIdx % NUM \in Descs
      BY <2>2, SlotsAre
    <3>3. /\ avail'[availIdx % NUM] = a
          /\ \A d \in Descs : d # availIdx % NUM => avail'[d] = avail[d]
      BY <1>2, <2>2, <3>2
    <3> QED
      BY ONLY <2>1, <2>2, <3>1, <3>3, RingWrite
  <2> QED
    BY <1>3, <2>3 DEF InAvail, InUsed
<1>9. Types'
  <2>1. TypeOK'
    <3>1. availIdx % NUM \in Descs
      BY SlotsAre DEF Types, TypeOK
    <3> QED
      BY <1>2, <1>3, <1>4, <3>1 DEF Types, TypeOK
  <2>2. desc' = [d \in Descs |-> desc'[d]]
    BY <1>2 DEF Types
  <2> QED
    BY <1>2, <1>3, <1>4, <2>1, <2>2 DEF Types
<1>10. \A q \in InFlight : \A d \in Taken(idx[q]) : d # a /\ d # b /\ d # c
  <2>1. \A q \in InFlight : Taken(idx[q]) \cap free = {}
    BY DEF Chained
  <2> QED
    BY <2>1
<1>11. Chained'
  <2> SUFFICES ASSUME NEW q \in InFlight'
               PROVE  LET k == idx'[q] IN
                      /\ k \in Descs \X Descs \X Descs
                      /\ k[1] # k[2] /\ k[1] # k[3] /\ k[2] # k[3]
                      /\ desc'[k[1]] = [addr |-> "op", next |-> k[2], more |-> TRUE]
                      /\ desc'[k[2]] = [addr |-> q, next |-> k[3], more |-> TRUE]
                      /\ desc'[k[3]] = [addr |-> k[1], next |-> 0, more |-> FALSE]
                      /\ ops'[k[1]] = q /\ info'[k[1]] = q
                      /\ Taken(k) \cap free' = {}
    BY DEF Chained
  <2>1. CASE q = p
    <3>1. /\ desc'[a] = [addr |-> "op", next |-> b, more |-> TRUE]
          /\ desc'[b] = [addr |-> p, next |-> c, more |-> TRUE]
          /\ desc'[c] = [addr |-> a, next |-> 0, more |-> FALSE]
      BY <1>1, <1>2, <1>4 DEF Types
    <3>2. ops'[a] = p /\ info'[a] = p
      BY <1>2, <1>4 DEF Types, TypeOK
    <3>3. Taken(i) \cap free' = {}
      BY <1>2 DEF Taken
    <3>4. i[1] = a /\ i[2] = b /\ i[3] = c /\ i \in Descs \X Descs \X Descs
      BY <1>4
    <3> HIDE DEF i
    <3> QED
      BY <1>1, <1>6, <2>1, <3>1, <3>2, <3>3, <3>4
  <2>2. CASE q \in InFlight
    <3> DEFINE k == idx[q]
    <3>1. idx'[q] = k
      BY <1>5, <2>2
    <3>2. /\ k \in Descs \X Descs \X Descs
          /\ k[1] # k[2] /\ k[1] # k[3] /\ k[2] # k[3]
          /\ desc[k[1]] = [addr |-> "op", next |-> k[2], more |-> TRUE]
          /\ desc[k[2]] = [addr |-> q, next |-> k[3], more |-> TRUE]
          /\ desc[k[3]] = [addr |-> k[1], next |-> 0, more |-> FALSE]
          /\ ops[k[1]] = q /\ info[k[1]] = q
          /\ Taken(k) \cap free = {}
      BY <2>2 DEF Chained
    <3>3. \A d \in {k[1], k[2], k[3]} : d \in Descs /\ d # a /\ d # b /\ d # c
      BY <1>10, <2>2, <3>2 DEF Taken
    <3> HIDE DEF k
    <3>4. \A d \in {k[1], k[2], k[3]} : desc'[d] = desc[d] /\ ops'[d] = ops[d] /\ info'[d] = info[d]
      BY <1>2, <3>3 DEF Types, TypeOK
    <3> QED
      BY ZenonT(30), <1>2, <3>1, <3>2, <3>4
  <2> QED
    BY <1>5, <2>1, <2>2
<1>12. Apart'
  <2>1. \A q \in InFlight : Taken(idx'[q]) \cap Taken(idx'[p]) = {}
    BY <1>5, <1>6, <1>10 DEF Taken
  <2> QED
    BY <1>5, <2>1 DEF Apart
<1>13. Counted'
  <2>1. Cardinality(InFlight \cup {p}) = Cardinality(InFlight) + 1
    BY <1>4, Finite, FS_AddElement
  <2> QED
    BY <1>1, <1>2, <1>5, <2>1, Finite DEF Counted
<1>14. Located'
  <2>1. HeadsOf(Waiting)' = HeadsOf(Waiting) \cup {a}
    <3>1. \A q \in Waiting : idx'[q] = idx[q]
      BY <1>5 DEF Waiting
    <3> QED
      BY <1>6, <1>7, <3>1 DEF HeadsOf
  <2>2. HeadsOf(Publishing)' = {a}
    BY <1>6, <1>7 DEF HeadsOf
  <2>3. HeadsOf(Publishing) = {}
    BY VirtioAssumption DEF HeadsOf, Publishing, Published
  <2>4. a \notin HeadsOf(Waiting)
    BY HeadsDiffer DEF HeadsOf, Waiting
  <2> QED
    BY <1>3, <1>8, <2>1, <2>2, <2>3, <2>4 DEF Located
<1>15. Ordered'
  BY <1>3, <1>8 DEF Ordered, NoRepeats
<1>16. Published'
  BY <1>3, <1>6, <1>8, VirtioAssumption DEF Published, Types, TypeOK
<1>17. Served'
  <2>1. ASSUME NEW q \in InFlight
        PROVE  /\ idx'[q][1] \in InUsed' => status'[idx'[q][1]] = 0 /\ served'[q] = q
               /\ bdisk'[q] = 0 => served'[q] = q
    <3>1. idx'[q] = idx[q] /\ served'[q] = served[q] /\ bdisk'[q] = bdisk[q]
      BY <1>3, <1>5 DEF Types
    <3>2. idx[q][1] # a
      BY HeadsDiffer
    <3>3. status'[idx[q][1]] = status[idx[q][1]]
      BY <1>2, <3>2
    <3> QED
      BY <1>8, <3>1, <3>3 DEF Served
  <2>2. idx'[p][1] \notin InUsed' /\ bdisk'[p] # 0
    <3>1. a \notin InUsed
      BY HeadsDiffer DEF Located, HeadsOf, Waiting
    <3> QED
      BY <1>3, <1>6, <1>8, <3>1 DEF Types
  <2> QED
    BY <1>5, <2>1, <2>2 DEF Served
<1>18. (Raised /\ NoPanic)'
  BY <1>3, VirtioAssumption DEF Raised, NoPanic
<1>19. SleepJustified'
  <2>1. Cardinality(free') <= Cardinality(free) /\ Cardinality(free') \in Int
    BY <1>1, <1>2, Finite
  <2> QED
    BY <1>3, <2>1, Finite DEF SleepJustified, Types, TypeOK
<1> QED
  BY <1>9, <1>11, <1>12, <1>13, <1>14, <1>15, <1>16, <1>17, <1>18, <1>19

\* Too few descriptors: nothing changes but who sleeps for one.
LEMMA NoDescriptorsStep ==
  ASSUME VirtioIInv, NEW p \in Procs, pc[p] \in {"idle", "retry"}, NoDescriptors(p)
  PROVE  VirtioIInv'
<1> USE DEF VirtioIInv
<1>1. /\ Cardinality(free) < 3
      /\ UNCHANGED <<free, desc, info, status, ops, bdisk, idx, avail, availIdx, used,
                     usedIdx, used_idx, lock, devIdx, devWork, irq, served, panicked>>
  BY DEF NoDescriptors, rings, device
<1>2. pc \in [Procs -> {"idle", "nodesc", "retry", "publish", "asleep", "woken"}]
  BY DEF Types, TypeOK
<1>3. /\ pc' \in [Procs -> {"idle", "nodesc", "retry", "publish", "asleep", "woken"}]
      /\ \A q \in Procs : \A l \in {"publish", "asleep", "woken"} : pc'[q] = l <=> pc[q] = l
      /\ \A q \in Procs : pc'[q] = "nodesc" => q = p \/ pc[q] = "nodesc"
  <2>1. CASE free = {}
    BY <1>2, <2>1 DEF NoDescriptors
  <2>2. CASE free # {}
    BY <1>2, <2>2 DEF NoDescriptors, WakeFree
  <2> QED
    BY <2>1, <2>2
<1>4. InFlight' = InFlight /\ Publishing' = Publishing
  BY <1>3 DEF InFlight, Publishing
<1>5. Waiting' = Waiting
  BY <1>1, <1>4 DEF Waiting
<1>6. InAvail' = InAvail /\ InUsed' = InUsed
  BY <1>1 DEF InAvail, InUsed
<1>7. Types'
  BY <1>1, <1>3 DEF Types, TypeOK
<1>8. (Chained /\ Apart /\ Counted)'
  BY <1>1, <1>4 DEF Chained, Apart, Counted
<1>9. (Located /\ Ordered)'
  BY <1>1, <1>4, <1>5, <1>6 DEF Located, HeadsOf, Ordered
<1>10. (Published /\ Served)'
  BY <1>1, <1>3, <1>4, <1>6 DEF Published, Served
<1>11. (Raised /\ SleepJustified /\ NoPanic)'
  BY <1>1, <1>3 DEF Raised, SleepJustified, NoPanic
<1> QED
  BY <1>7, <1>8, <1>9, <1>10, <1>11

\* avail->idx += 1 gives the device the chain.
LEMMA PublishStep ==
  ASSUME VirtioIInv, NEW p \in Procs, Publish(p)
  PROVE  VirtioIInv'
<1> USE DEF VirtioIInv
<1>1. /\ pc[p] = "publish" /\ availIdx' = (availIdx + 1) % WRAP /\ lock' = None
      /\ UNCHANGED <<free, desc, info, status, ops, bdisk, idx, avail, used,
                     usedIdx, used_idx, devIdx, devWork, irq, served, panicked>>
  BY DEF Publish, driver, device
<1>2. bdisk[p] = 1 /\ avail[availIdx % NUM] = idx[p][1] /\ lock = p
  BY <1>1 DEF Published
<1>3. pc' = [pc EXCEPT ![p] = "asleep"]
  BY <1>2 DEF Publish
<1>4. InFlight' = InFlight /\ p \in InFlight
  BY <1>1, <1>3 DEF InFlight, Types, TypeOK
<1>5. Publishing = {p} /\ Publishing' = {}
  BY <1>1, <1>2, <1>3 DEF Publishing, Published, Types, TypeOK
<1>6. Waiting' = Waiting
  BY <1>1, <1>4 DEF Waiting
<1>7. /\ devIdx \in 0..WRAP - 1 /\ availIdx \in 0..WRAP - 1
      /\ Between(devIdx, availIdx) + 1 < WRAP
  BY RingRoom DEF Types, TypeOK
<1>8. HeadsOf(Publishing) = {idx[p][1]} /\ HeadsOf(Publishing)' = {}
  BY <1>1, <1>5 DEF HeadsOf
<1>9. idx[p][1] \notin InAvail
  BY <1>8 DEF Located
<1>10. /\ InAvail' = InAvail \cup {idx[p][1]} /\ NoRepeats(avail, devIdx, availIdx')
  <2>1. NoRepeats(avail, devIdx, availIdx)
    BY DEF Ordered
  <2>2. /\ RingEntries(avail, devIdx, availIdx') = InAvail \cup {idx[p][1]}
        /\ NoRepeats(avail, devIdx, availIdx')
    BY <1>1, <1>2, <1>7, <1>9, <2>1, RingPut DEF InAvail
  <2> QED
    BY <1>1, <2>2 DEF InAvail
<1>11. InUsed' = InUsed /\ HeadsOf(Waiting)' = HeadsOf(Waiting)
  BY <1>1, <1>6 DEF InUsed, HeadsOf
<1>12. Types'
  <2>1. availIdx' \in 0..WRAP - 1
    BY <1>1, <1>7, Incremented
  <2> QED
    BY <1>1, <1>3, <2>1 DEF Types, TypeOK
<1>13. (Chained /\ Apart /\ Counted)'
  BY <1>1, <1>4 DEF Chained, Apart, Counted
<1>14. Located'
  BY <1>1, <1>8, <1>10, <1>11 DEF Located
<1>15. Ordered'
  BY <1>1, <1>10 DEF Ordered
<1>16. Published'
  BY <1>1, <1>3, <1>5, VirtioAssumption DEF Published, Publishing
<1>17. Served'
  BY <1>1, <1>4, <1>11 DEF Served
<1>18. (Raised /\ NoPanic)'
  BY <1>1, <1>2, VirtioAssumption DEF Raised, NoPanic
<1>19. SleepJustified'
  BY <1>1, <1>2, <1>3 DEF SleepJustified, Types, TypeOK
<1> QED
  BY <1>12, <1>13, <1>14, <1>15, <1>16, <1>17, <1>18, <1>19

\* A process that was woken sleeps again, or frees its chain, whole, and once.
LEMMA FinishStep ==
  ASSUME VirtioIInv, NEW p \in Procs, Finish(p)
  PROVE  VirtioIInv'
<1> USE DEF VirtioIInv
<1> DEFINE h == idx[p][1]
<1>1. /\ lock = None /\ pc[p] = "woken"
      /\ UNCHANGED <<status, bdisk, avail, availIdx, used, usedIdx, used_idx, lock,
                     devIdx, devWork, irq, served>>
  BY DEF Finish, rings, device, driver
<1>2. p \in InFlight
  BY <1>1 DEF InFlight
<1>3. InAvail' = InAvail /\ InUsed' = InUsed
  BY <1>1 DEF InAvail, InUsed
<1>4. Publishing = {}
  BY <1>1, VirtioAssumption DEF Publishing, Published
<1>5. CASE bdisk[p] = 1
  <2>1. /\ pc' = [pc EXCEPT ![p] = "asleep"]
        /\ UNCHANGED <<free, desc, info, ops, idx, panicked>>
    BY <1>5 DEF Finish, driver
  <2>2. InFlight' = InFlight /\ Publishing' = Publishing
    BY <1>1, <2>1 DEF InFlight, Publishing, Types, TypeOK
  <2>3. Waiting' = Waiting
    BY <1>1, <2>2 DEF Waiting
  <2>4. Types'
    BY <1>1, <2>1 DEF Types, TypeOK
  <2>5. (Chained /\ Apart /\ Counted)'
    BY <2>1, <2>2 DEF Chained, Apart, Counted
  <2>6. (Located /\ Ordered)'
    BY <1>1, <1>3, <2>1, <2>2, <2>3 DEF Located, HeadsOf, Ordered
  <2>7. Published'
    BY <1>1, <2>1 DEF Published, Types, TypeOK
  <2>8. Served'
    BY <1>1, <1>3, <2>1, <2>2 DEF Served
  <2>9. (Raised /\ SleepJustified /\ NoPanic)'
    BY <1>1, <1>5, <2>1 DEF Raised, SleepJustified, NoPanic, Types, TypeOK
  <2> QED
    BY <2>4, <2>5, <2>6, <2>7, <2>8, <2>9
<1>6. CASE bdisk[p] = 0
  <2>1. Chain(h) = Taken(idx[p])
    BY <1>2, ChainIs
  <2> DEFINE T == Taken(idx[p])
  <2>2. /\ info' = [info EXCEPT ![h] = None] /\ panicked' = (T \cap free # {})
        /\ free' = free \cup T
        /\ desc' = [d \in Descs |-> IF d \in T THEN NoDesc ELSE desc[d]]
        /\ pc' = [WakeFree(pc) EXCEPT ![p] = "idle"]
        /\ idx' = [idx EXCEPT ![p] = <<>>] /\ ops' = [ops EXCEPT ![h] = None]
    BY <1>6, <2>1 DEF Finish
  <2>3. /\ T \cap free = {} /\ T \subseteq Descs /\ h \in T
        /\ idx[p] \in Descs \X Descs \X Descs
        /\ idx[p][1] # idx[p][2] /\ idx[p][1] # idx[p][3] /\ idx[p][2] # idx[p][3]
    <3>1. /\ idx[p] \in Descs \X Descs \X Descs /\ Taken(idx[p]) \cap free = {}
          /\ idx[p][1] # idx[p][2] /\ idx[p][1] # idx[p][3] /\ idx[p][2] # idx[p][3]
      BY <1>2 DEF Chained
    <3> QED
      BY <3>1 DEF Taken
  <2>4. /\ pc' \in [Procs -> {"idle", "nodesc", "retry", "publish", "asleep", "woken"}]
        /\ pc'[p] = "idle" /\ \A q \in Procs : pc'[q] # "nodesc"
        /\ \A q \in Procs \ {p} : \A l \in {"publish", "asleep", "woken"} :
             pc'[q] = l <=> pc[q] = l
    BY <2>2 DEF WakeFree, Types, TypeOK
  <2>5. InFlight' = InFlight \ {p} /\ Publishing' = {}
    BY <1>1, <1>4, <2>4 DEF InFlight, Publishing
  <2>6. \A q \in InFlight' : /\ q \in InFlight /\ q # p /\ idx'[q] = idx[q]
                             /\ Taken(idx[q]) \cap T = {}
    BY <1>2, <2>2, <2>5 DEF Types, Apart, InFlight
  <2>7. Waiting' = Waiting
    BY <1>1, <1>6, <2>5 DEF Waiting
  <2>8. Types'
    <3>1. desc' = [d \in Descs |-> desc'[d]]
      BY <2>2
    <3>2. free' \subseteq Descs /\ panicked' \in BOOLEAN
      BY <2>2, <2>3 DEF Types, TypeOK
    <3> HIDE DEF T
    <3> QED
      BY <1>1, <2>2, <2>4, <3>1, <3>2 DEF Types, TypeOK
  <2>9. Chained'
    <3> SUFFICES ASSUME NEW q \in InFlight'
                 PROVE  LET k == idx'[q] IN
                        /\ k \in Descs \X Descs \X Descs
                        /\ k[1] # k[2] /\ k[1] # k[3] /\ k[2] # k[3]
                        /\ desc'[k[1]] = [addr |-> "op", next |-> k[2], more |-> TRUE]
                        /\ desc'[k[2]] = [addr |-> q, next |-> k[3], more |-> TRUE]
                        /\ desc'[k[3]] = [addr |-> k[1], next |-> 0, more |-> FALSE]
                        /\ ops'[k[1]] = q /\ info'[k[1]] = q
                        /\ Taken(k) \cap free' = {}
      BY DEF Chained
    <3> DEFINE k == idx[q]
    <3>1. idx'[q] = k /\ q \in InFlight /\ Taken(k) \cap T = {}
      BY <2>6
    <3>2. /\ k \in Descs \X Descs \X Descs
          /\ k[1] # k[2] /\ k[1] # k[3] /\ k[2] # k[3]
          /\ desc[k[1]] = [addr |-> "op", next |-> k[2], more |-> TRUE]
          /\ desc[k[2]] = [addr |-> q, next |-> k[3], more |-> TRUE]
          /\ desc[k[3]] = [addr |-> k[1], next |-> 0, more |-> FALSE]
          /\ ops[k[1]] = q /\ info[k[1]] = q
          /\ Taken(k) \cap free = {}
      BY <3>1 DEF Chained
    <3> HIDE DEF k, T
    <3>3. \A d \in {k[1], k[2], k[3]} : d \in Descs /\ d \notin T /\ d # h
      BY <2>3, <3>1, <3>2 DEF Taken
    <3>4. \A d \in {k[1], k[2], k[3]} : desc'[d] = desc[d] /\ ops'[d] = ops[d] /\ info'[d] = info[d]
      BY <2>2, <3>3 DEF Types, TypeOK
    <3>5. Taken(k) \cap free' = {}
      BY <2>2, <3>1, <3>2
    <3> QED
      BY <3>1, <3>2, <3>4, <3>5
  <2>10. Apart'
    BY <2>6 DEF Apart
  <2>11. Counted'
    <3>1. Cardinality(InFlight \ {p}) = Cardinality(InFlight) - 1
      BY <1>2, Finite, FS_RemoveElement
    <3>2. Cardinality(free \cup T) = Cardinality(free) + 3
      <4> DEFINE a == idx[p][1]
                 b == idx[p][2]
                 c == idx[p][3]
      <4>1. free \cup T = ((free \cup {a}) \cup {b}) \cup {c}
        BY DEF Taken
      <4>2. a \notin free /\ b \notin free \cup {a} /\ c \notin (free \cup {a}) \cup {b}
        BY <2>3 DEF Taken
      <4> HIDE DEF a, b, c, T
      <4>3. IsFiniteSet(free \cup {a}) /\ Cardinality(free \cup {a}) = Cardinality(free) + 1
        BY <4>2, Finite, FS_AddElement
      <4>4. /\ IsFiniteSet((free \cup {a}) \cup {b})
            /\ Cardinality((free \cup {a}) \cup {b}) = Cardinality(free \cup {a}) + 1
        BY <4>2, <4>3, FS_AddElement
      <4>5. Cardinality(((free \cup {a}) \cup {b}) \cup {c})
              = Cardinality((free \cup {a}) \cup {b}) + 1
        BY <4>2, <4>4, FS_AddElement
      <4>6. Cardinality(free) \in Nat
        BY Finite
      <4>7. Cardinality(((free \cup {a}) \cup {b}) \cup {c}) = Cardinality(free) + 3
        BY ONLY <4>3, <4>4, <4>5, <4>6
      <4> QED
        BY <4>1, <4>7
    <3> HIDE DEF T
    <3> QED
      BY <2>2, <2>5, <3>1, <3>2, Finite DEF Counted
  <2>12. Located'
    <3>1. HeadsOf(Waiting)' = HeadsOf(Waiting)
      <4>1. \A q \in Waiting : idx'[q] = idx[q]
        BY <1>6, <2>5, <2>6 DEF Waiting
      <4> QED
        BY <2>7, <4>1 DEF HeadsOf
    <3>2. HeadsOf(Publishing) = {} /\ HeadsOf(Publishing)' = {}
      BY <1>4, <2>5 DEF HeadsOf
    <3> QED
      BY <1>1, <1>3, <3>1, <3>2 DEF Located
  <2>13. Ordered'
    BY <1>1 DEF Ordered
  <2>14. Published'
    BY <1>1, <2>5, VirtioAssumption DEF Published, Publishing
  <2>15. Served'
    BY <1>1, <1>3, <2>6 DEF Served
  <2>16. (Raised /\ SleepJustified /\ NoPanic)'
    <3>1. panicked' = FALSE
      BY <2>2, <2>3
    <3>2. \A q \in Procs : pc'[q] = "asleep" => pc[q] = "asleep"
      BY <2>4
    <3> QED
      BY <1>1, <2>4, <3>1, <3>2 DEF Raised, SleepJustified, NoPanic
  <2> QED
    BY <2>8, <2>9, <2>10, <2>11, <2>12, <2>13, <2>14, <2>15, <2>16
<1> QED
  BY <1>5, <1>6 DEF Types

\* The handler takes vdisk_lock, and gives it back when the used ring is empty.
LEMMA LockStep ==
  ASSUME VirtioIInv, IntrAck \/ IntrDone
  PROVE  VirtioIInv'
<1> USE DEF VirtioIInv
<1>1. /\ UNCHANGED <<free, desc, info, status, ops, bdisk, idx, avail, availIdx, used,
                     usedIdx, used_idx, pc, devIdx, devWork, served, panicked>>
      /\ irq' \in BOOLEAN
      /\ \/ lock = None /\ lock' = Intr
         \/ lock = Intr /\ lock' = None /\ used_idx = usedIdx
  BY DEF IntrAck, IntrDone, driver, rings, device, Types, TypeOK
<1>2. /\ InFlight' = InFlight /\ Publishing' = Publishing /\ Waiting' = Waiting
      /\ InAvail' = InAvail /\ InUsed' = InUsed
  BY <1>1 DEF InFlight, Publishing, Waiting, InAvail, InUsed
<1>3. Types'
  BY <1>1 DEF Types, TypeOK
<1>4. (Chained /\ Apart /\ Counted)'
  BY <1>1, <1>2 DEF Chained, Apart, Counted
<1>5. (Located /\ Ordered /\ Served)'
  BY <1>1, <1>2 DEF Located, HeadsOf, Ordered, Served
<1>6. (Published /\ Raised)'
  BY <1>1, VirtioAssumption DEF Published, Raised
<1>7. (SleepJustified /\ NoPanic)'
  BY <1>1 DEF SleepJustified, NoPanic
<1> QED
  BY <1>3, <1>4, <1>5, <1>6, <1>7

\* The handler takes an entry of the used ring: its request has been carried out,
\* and its process is woken.
LEMMA IntrEntryStep ==
  ASSUME VirtioIInv, IntrEntry
  PROVE  VirtioIInv'
<1> USE DEF VirtioIInv
<1> DEFINE id == used[used_idx % NUM]
<1>1. /\ lock = Intr /\ used_idx # usedIdx
      /\ UNCHANGED <<free, desc, info, status, ops, idx, avail, availIdx, usedIdx, lock,
                     devIdx, devWork, irq, served>>
  BY DEF IntrEntry, device
<1>2. /\ used \in [Descs -> Descs \cup {None}]
      /\ used_idx \in 0..WRAP - 1 /\ usedIdx \in 0..WRAP - 1
      /\ Between(used_idx, usedIdx) < NUM /\ NoRepeats(used, used_idx, usedIdx)
      /\ used_idx % NUM \in Descs
  <2>1. Between(used_idx, usedIdx) < NUM
    BY RingRoom
  <2>2. used_idx \in 0..WRAP - 1
    BY DEF Types, TypeOK
  <2>3. used_idx % NUM \in Descs
    BY <2>2, SlotsAre
  <2> QED
    BY <2>1, <2>3 DEF Types, TypeOK, Ordered
<1>3. id \in InUsed
  BY <1>1, <1>2, RingTake DEF InUsed
<1>4. PICK p \in Waiting : idx[p][1] = id
  BY <1>3 DEF Located, HeadsOf
<1>5. p \in InFlight /\ p \in Procs /\ status[id] = 0 /\ info[id] = p /\ served[p] = p
  <2>1. p \in InFlight
    BY DEF Waiting
  <2> QED
    BY <1>3, <1>4, <2>1, HeadsDiffer DEF Served, InFlight
<1>6. /\ bdisk' = [bdisk EXCEPT ![p] = 0] /\ pc' = Woken(p) /\ panicked' = panicked
      /\ used' = [used EXCEPT ![used_idx % NUM] = None]
      /\ used_idx' = (used_idx + 1) % WRAP
  BY <1>5 DEF IntrEntry, NextUsed
<1>7. /\ pc' \in [Procs -> {"idle", "nodesc", "retry", "publish", "asleep", "woken"}]
      /\ pc'[p] # "asleep"
      /\ \A q \in Procs : q # p => pc'[q] = pc[q]
      /\ pc'[p] = IF pc[p] = "asleep" THEN "woken" ELSE pc[p]
  BY <1>5, <1>6 DEF Woken, Types, TypeOK
<1>8. Publishing = {} /\ pc[p] # "publish"
  BY <1>1, <1>5, VirtioAssumption DEF Publishing, Published
<1>9. InFlight' = InFlight /\ Publishing' = {}
  BY <1>7, <1>8 DEF InFlight, Publishing
<1>10. bdisk'[p] = 0 /\ \A q \in Procs : q # p => bdisk'[q] = bdisk[q]
  BY <1>5, <1>6 DEF Types
<1>11. Waiting' = Waiting \ {p}
  BY <1>9, <1>10 DEF Waiting, InFlight
<1>12. /\ InUsed' = InUsed \ {id} /\ NoRepeats(used', used_idx', usedIdx)
  <2>1. \A d \in Descs : d # used_idx % NUM => used'[d] = used[d]
    BY <1>2, <1>6
  <2>2. used_idx' = (used_idx + 1) % WRAP
    BY <1>6
  <2>3. /\ RingEntries(used', used_idx', usedIdx)
             = RingEntries(used, used_idx, usedIdx) \ {used[used_idx % NUM]}
        /\ NoRepeats(used', used_idx', usedIdx)
    BY ONLY <1>1, <1>2, <2>1, <2>2, RingTake
  <2> QED
    BY <1>1, <2>3 DEF InUsed
<1>13. InAvail' = InAvail
  BY <1>1 DEF InAvail
<1>14. Types'
  <2>1. used_idx' \in 0..WRAP - 1
    BY <1>2, <1>6, Incremented
  <2> QED
    BY <1>1, <1>6, <1>7, <2>1 DEF Types, TypeOK
<1>15. (Chained /\ Apart /\ Counted)'
  BY <1>1, <1>9 DEF Chained, Apart, Counted
<1>16. Located'
  <2>1. HeadsOf(Waiting)' = HeadsOf(Waiting) \ {id}
    <3>1. \A q \in Waiting : q # p => idx[q][1] # id
      BY <1>4, <1>5, HeadsDiffer DEF Waiting
    <3> QED
      BY <1>1, <1>4, <1>11, <3>1 DEF HeadsOf
  <2>2. HeadsOf(Publishing) = {} /\ HeadsOf(Publishing)' = {}
    BY <1>8, <1>9 DEF HeadsOf
  <2> QED
    BY <1>1, <1>3, <1>12, <1>13, <2>1, <2>2 DEF Located
<1>17. Ordered'
  BY <1>1, <1>12 DEF Ordered
<1>18. Published'
  BY <1>1, <1>9, VirtioAssumption DEF Published, Publishing
<1>19. Served'
  <2> SUFFICES ASSUME NEW q \in InFlight
               PROVE  /\ idx[q][1] \in InUsed' => status[idx[q][1]] = 0 /\ served[q] = q
                      /\ bdisk'[q] = 0 => served[q] = q
    BY <1>1, <1>9 DEF Served
  <2>1. CASE q = p
    BY <1>4, <1>5, <1>12, <2>1
  <2>2. CASE q # p
    BY <1>10, <1>12, <2>2 DEF Served, InFlight
  <2> QED
    BY <2>1, <2>2
<1>20. (Raised /\ NoPanic)'
  BY <1>1, <1>6 DEF Raised, NoPanic
<1>21. SleepJustified'
  BY <1>1, <1>7, <1>10 DEF SleepJustified
<1> QED
  BY <1>14, <1>15, <1>16, <1>17, <1>18, <1>19, <1>20, <1>21

\* The device takes a chain from the available ring.
LEMMA DevTakeStep ==
  ASSUME VirtioIInv, DevTake
  PROVE  VirtioIInv'
<1> USE DEF VirtioIInv
<1> DEFINE h == avail[devIdx % NUM]
<1>1. /\ devIdx # availIdx /\ devWork' = devWork \cup {h}
      /\ avail' = [avail EXCEPT ![devIdx % NUM] = None] /\ devIdx' = (devIdx + 1) % WRAP
      /\ UNCHANGED <<free, desc, info, status, ops, bdisk, idx, availIdx, used, usedIdx,
                     used_idx, lock, pc, irq, served, panicked>>
  BY DEF DevTake, driver
<1>2. /\ avail \in [Descs -> Descs \cup {None}]
      /\ devIdx \in 0..WRAP - 1 /\ availIdx \in 0..WRAP - 1
      /\ Between(devIdx, availIdx) < NUM /\ NoRepeats(avail, devIdx, availIdx)
      /\ devIdx % NUM \in Descs
  <2>1. Between(devIdx, availIdx) < NUM
    BY RingRoom
  <2>2. devIdx \in 0..WRAP - 1
    BY DEF Types, TypeOK
  <2>3. devIdx % NUM \in Descs
    BY <2>2, SlotsAre
  <2> QED
    BY <2>1, <2>3 DEF Types, TypeOK, Ordered
<1>3. /\ h \in InAvail /\ InAvail' = InAvail \ {h}
      /\ NoRepeats(avail', devIdx', availIdx) /\ avail'[availIdx % NUM] = avail[availIdx % NUM]
  <2>1. \A d \in Descs : d # devIdx % NUM => avail'[d] = avail[d]
    BY <1>1, <1>2
  <2>2. devIdx # availIdx /\ devIdx' = (devIdx + 1) % WRAP
    BY <1>1
  <2>3. /\ RingEntries(avail', devIdx', availIdx)
             = RingEntries(avail, devIdx, availIdx) \ {avail[devIdx % NUM]}
        /\ avail[devIdx % NUM] \in RingEntries(avail, devIdx, availIdx)
        /\ NoRepeats(avail', devIdx', availIdx)
        /\ avail'[availIdx % NUM] = avail[availIdx % NUM]
    BY ONLY <1>2, <2>1, <2>2, RingTake
  <2> QED
    BY <1>1, <2>3 DEF InAvail
<1>4. /\ InFlight' = InFlight /\ Publishing' = Publishing /\ Waiting' = Waiting
      /\ InUsed' = InUsed
  BY <1>1 DEF InFlight, Publishing, Waiting, InUsed
<1>5. h \in Descs
  BY <1>3, HeadsDiffer DEF Located, HeadsOf, Waiting
<1>6. Types'
  <2>1. devIdx' \in 0..WRAP - 1
    BY <1>1, <1>2, Incremented
  <2> QED
    BY <1>1, <1>2, <1>5, <2>1 DEF Types, TypeOK
<1>7. (Chained /\ Apart /\ Counted)'
  BY <1>1, <1>4 DEF Chained, Apart, Counted
<1>8. Located'
  <2>1. HeadsOf(Waiting)' = HeadsOf(Waiting) /\ HeadsOf(Publishing)' = HeadsOf(Publishing)
    BY <1>1, <1>4 DEF HeadsOf
  <2> HIDE DEF h
  <2> QED
    BY <1>1, <1>3, <1>4, <2>1 DEF Located
<1>9. Ordered'
  BY <1>1, <1>3 DEF Ordered
<1>10. (Published /\ Served)'
  BY <1>1, <1>3, <1>4 DEF Published, Served
<1>11. (Raised /\ SleepJustified /\ NoPanic)'
  BY <1>1 DEF Raised, SleepJustified, NoPanic
<1> QED
  BY <1>6, <1>7, <1>8, <1>9, <1>10, <1>11

\* The device finishes a chain: it transfers the block asked for to the buffer
\* meant, and reports it in the used ring.
LEMMA DevCompleteStep ==
  ASSUME VirtioIInv, NEW h \in Descs, DevComplete(h)
  PROVE  VirtioIInv'
<1> USE DEF VirtioIInv
<1>1. /\ h \in devWork /\ used' = [used EXCEPT ![usedIdx % NUM] = h]
      /\ usedIdx' = (usedIdx + 1) % WRAP /\ devWork' = devWork \ {h} /\ irq' = TRUE
      /\ UNCHANGED <<free, desc, info, ops, bdisk, idx, avail, availIdx, used_idx, lock,
                     pc, devIdx, panicked>>
  BY DEF DevComplete
<1>2. PICK p \in Waiting : idx[p][1] = h
  BY <1>1 DEF Located, HeadsOf
<1>3. p \in InFlight /\ p \in Procs
  BY DEF Waiting, InFlight
<1>4. served' = [served EXCEPT ![p] = p] /\ status' = [status EXCEPT ![h] = 0]
  <2>1. /\ desc[desc[h].next].addr = p
        /\ desc[desc[desc[h].next].next].addr = h
    BY <1>2, <1>3, ChainIs
  <2>2. ops[h] = p
    BY <1>2, <1>3 DEF Chained
  <2> QED
    BY <2>1, <2>2 DEF DevComplete
<1>5. /\ used \in [Descs -> Descs \cup {None}]
      /\ used_idx \in 0..WRAP - 1 /\ usedIdx \in 0..WRAP - 1
      /\ Between(used_idx, usedIdx) < NUM /\ Between(used_idx, usedIdx) + 1 < WRAP
      /\ NoRepeats(used, used_idx, usedIdx) /\ usedIdx % NUM \in Descs
  <2>1. Between(used_idx, usedIdx) < NUM /\ Between(used_idx, usedIdx) + 1 < WRAP
    BY RingRoom
  <2>2. usedIdx \in 0..WRAP - 1
    BY DEF Types, TypeOK
  <2>3. usedIdx % NUM \in Descs
    BY <2>2, SlotsAre
  <2> QED
    BY <2>1, <2>3 DEF Types, TypeOK, Ordered
<1>6. h \notin InUsed
  BY <1>1 DEF Located
<1>7. InUsed' = InUsed \cup {h} /\ NoRepeats(used', used_idx, usedIdx')
  <2>1. used'[usedIdx % NUM] = h /\ \A d \in Descs : d # usedIdx % NUM => used'[d] = used[d]
    BY <1>1, <1>5
  <2>2. /\ RingEntries(used', used_idx, usedIdx) = RingEntries(used, used_idx, usedIdx)
        /\ NoRepeats(used', used_idx, usedIdx)
    BY ONLY <1>5, <2>1, RingWrite
  <2>3. usedIdx' = (usedIdx + 1) % WRAP
    BY <1>1
  <2>4. h \notin RingEntries(used', used_idx, usedIdx)
    BY <1>6, <2>2 DEF InUsed
  <2>5. /\ RingEntries(used', used_idx, usedIdx')
             = RingEntries(used', used_idx, usedIdx) \cup {used'[usedIdx % NUM]}
        /\ NoRepeats(used', used_idx, usedIdx')
    BY ONLY <1>5, <2>1, <2>2, <2>3, <2>4, RingPut
  <2> QED
    BY <1>1, <2>1, <2>2, <2>5 DEF InUsed
<1>8. /\ InFlight' = InFlight /\ Publishing' = Publishing /\ Waiting' = Waiting
      /\ InAvail' = InAvail
  BY <1>1 DEF InFlight, Publishing, Waiting, InAvail
<1>9. Types'
  <2>1. usedIdx' \in 0..WRAP - 1
    BY <1>1, <1>5, Incremented
  <2> QED
    BY <1>1, <1>3, <1>4, <1>5, <2>1 DEF Types, TypeOK
<1>10. (Chained /\ Apart /\ Counted)'
  BY <1>1, <1>8 DEF Chained, Apart, Counted
<1>11. Located'
  <2>1. HeadsOf(Waiting)' = HeadsOf(Waiting) /\ HeadsOf(Publishing)' = HeadsOf(Publishing)
    BY <1>1, <1>8 DEF HeadsOf
  <2> QED
    BY <1>1, <1>7, <1>8, <2>1 DEF Located
<1>12. Ordered'
  BY <1>1, <1>7 DEF Ordered
<1>13. Published'
  BY <1>1 DEF Published
<1>14. Served'
  <2> SUFFICES ASSUME NEW q \in InFlight
               PROVE  /\ idx[q][1] \in InUsed' => status'[idx[q][1]] = 0 /\ served'[q] = q
                      /\ bdisk[q] = 0 => served'[q] = q
    BY <1>1, <1>8 DEF Served
  <2>1. CASE q = p
    BY <1>2, <1>3, <1>4, <2>1 DEF Types
  <2>2. CASE q # p
    <3>1. idx[q][1] # h /\ q \in Procs
      BY <1>2, <1>3, <2>2, HeadsDiffer DEF InFlight
    <3>2. status'[idx[q][1]] = status[idx[q][1]] /\ served'[q] = served[q]
      BY <1>4, <2>2, <3>1 DEF Types
    <3> QED
      BY <1>7, <3>1, <3>2 DEF Served
  <2> QED
    BY <2>1, <2>2
<1>15. (Raised /\ SleepJustified /\ NoPanic)'
  BY <1>1 DEF Raised, SleepJustified, NoPanic
<1> QED
  BY <1>9, <1>10, <1>11, <1>12, <1>13, <1>14, <1>15

\* What virtio_disk_init() sets up.
LEMMA InitIInv == Init => VirtioIInv
<1> SUFFICES ASSUME Init PROVE VirtioIInv
  OBVIOUS
<1> USE DEF Init
<1>1. 0 \in 0..WRAP - 1 /\ Between(0, 0) = 0
  BY Widths, BetweenIs
<1>2. InFlight = {} /\ Publishing = {} /\ Waiting = {}
  BY DEF InFlight, Publishing, Waiting
<1>3. InAvail = {} /\ InUsed = {}
  <2>1. 0..Between(0, 0) - 1 = {}
    BY <1>1
  <2> QED
    BY <2>1 DEF InAvail, InUsed, RingEntries
<1>4. Types
  BY <1>1 DEF Types, TypeOK
<1>5. Chained /\ Apart /\ Served
  BY <1>2 DEF Chained, Apart, Served
<1>6. Counted
  <2>1. Cardinality(Descs) = NUM
    BY Widths, FS_Interval DEF Descs
  <2> QED
    BY <1>2, <2>1, Widths, FS_EmptySet DEF Counted
<1>7. Located
  BY <1>2, <1>3 DEF Located, HeadsOf
<1>8. Ordered
  <2>1. 0..Between(0, 0) - 1 = {}
    BY <1>1
  <2> QED
    BY <2>1 DEF Ordered, NoRepeats
<1>9. Published
  BY VirtioAssumption DEF Published
<1>10. Raised /\ SleepJustified /\ NoPanic
  BY DEF Raised, SleepJustified, NoPanic
<1> QED
  BY <1>4, <1>5, <1>6, <1>7, <1>8, <1>9, <1>10 DEF VirtioIInv

-----------------------------------------------------------------------------
\* The driver, its handler and the device keep the invariant, with any number of
\* descriptors from three on and any processes, in whatever order the device
\* finishes the requests.
THEOREM VirtioInvariant == Spec => []VirtioIInv
<1>1. Init => VirtioIInv
  BY InitIInv
<1>2. VirtioIInv /\ [Next]_vars => VirtioIInv'
  <2> SUFFICES ASSUME VirtioIInv, [Next]_vars PROVE VirtioIInv'
    OBVIOUS
  <2>1. ASSUME NEW p \in Procs, Request(p) PROVE VirtioIInv'
    <3>1. lock = None /\ pc[p] \in {"idle", "retry"} /\ (Submit(p) \/ NoDescriptors(p))
      BY <2>1 DEF Request
    <3> QED
      BY <3>1, SubmitStep, NoDescriptorsStep
  <2>2. ASSUME NEW p \in Procs, Publish(p) PROVE VirtioIInv'
    BY <2>2, PublishStep
  <2>3. ASSUME NEW p \in Procs, Finish(p) PROVE VirtioIInv'
    BY <2>3, FinishStep
  <2>4. CASE IntrAck \/ IntrDone
    BY <2>4, LockStep
  <2>5. CASE IntrEntry
    BY <2>5, IntrEntryStep
  <2>6. CASE DevTake
    BY <2>6, DevTakeStep
  <2>7. ASSUME NEW h \in Descs, DevComplete(h) PROVE VirtioIInv'
    BY <2>7, DevCompleteStep
  <2>8. CASE UNCHANGED vars
    BY <2>8 DEF vars, driver, rings, device, VirtioIInv, Types, TypeOK, Chained, Apart,
       Counted, Located, Ordered, Published, Served, Raised, SleepJustified, NoPanic,
       HeadsOf, Waiting, Publishing, InFlight, InAvail, InUsed
  <2> QED
    BY <2>1, <2>2, <2>3, <2>4, <2>5, <2>6, <2>7, <2>8 DEF Next
<1> QED
  BY <1>1, <1>2, PTL DEF Spec

\* No descriptor is lost or given to two requests, free_desc() and the handler do not
\* panic, no completion is forgotten by virtio_disk_intr(), and nobody sleeps in
\* virtio_disk_rw() without cause.
THEOREM VirtioDriver == Spec => []DriverInv
<1>1. VirtioIInv => DriverInv
  <2> SUFFICES ASSUME VirtioIInv PROVE DriverInv
    OBVIOUS
  <2> USE DEF VirtioIInv
  <2>1. DescsConserved
    <3>1. \A p \in InFlight : Chain(idx[p][1]) = Taken(idx[p]) /\ Taken(idx[p]) \cap free = {}
      BY ChainIs DEF Chained
    <3> QED
      BY <3>1 DEF DescsConserved, Counted, Apart
  <2>2. CompletionPending
    <3>1. ASSUME NEW p \in InFlight, bdisk[p] = 1, pc[p] # "publish"
          PROVE  idx[p][1] \in devWork \cup InAvail \cup InUsed
      <4>1. idx[p][1] \in HeadsOf(Waiting)
        BY <3>1 DEF Waiting, HeadsOf
      <4>2. idx[p][1] \notin HeadsOf(Publishing)
        BY <3>1, HeadsDiffer DEF HeadsOf, Publishing, InFlight
      <4> QED
        BY <4>1, <4>2 DEF Located
    <3> QED
      BY <3>1 DEF CompletionPending, Raised, InAvail, InUsed
  <2> QED
    BY <2>1, <2>2 DEF DriverInv, Types
<1> QED
  BY <1>1, VirtioInvariant, PTL

\* A request whose b->disk has been cleared has been carried out by the device, on
\* its own buffer and block.
THEOREM VirtioDone == Spec => []DoneAsAsked
<1>1. VirtioIInv => DoneAsAsked
  BY DEF VirtioIInv, Served, DoneAsAsked
<1> QED
  BY <1>1, VirtioInvariant, PTL
=============================================================================
