------------------------------- MODULE Virtio -------------------------------
(***************************************************************************)
(* The disk driver, kernel/virtio_disk.c: virtio_disk_rw() of several      *)
(* processes, the interrupt handler virtio_disk_intr(), and the device.    *)
(*                                                                         *)
(* A process holds the sleep lock of its buffer (bread(), bwrite()), and no *)
(* two buffers hold the same block, so a buffer, and the sector it is       *)
(* transferred from or to, is named by the process that uses it.  The       *)
(* direction of the transfer is left out.  vdisk_lock is held from         *)
(* the allocation of the descriptors until the process sleeps, and through *)
(* the whole handler; the device does not know of it.  The indices of the  *)
(* rings are 16-bit counters, here modulo WRAP.                            *)
(***************************************************************************)
EXTENDS Naturals, FiniteSets, FiniteSetsExt

CONSTANTS
  NUM,     \* descriptors, and entries of each ring
  WRAP,    \* the range of avail->idx and used->idx
  Procs,   \* processes, one request at a time each
  Intr,    \* the interrupt handler, as a holder of vdisk_lock
  None

ASSUME VirtioAssumption ==
  /\ NUM \in Nat /\ NUM >= 3
  /\ WRAP \in Nat \ {0} /\ WRAP % NUM = 0
  /\ Intr \notin Procs /\ None \notin Procs \cup {Intr}
  /\ IsFiniteSet(Procs)

Descs == 0..NUM - 1

VARIABLES
  free,      \* descriptors with disk.free[i] = 1
  desc,      \* their contents: the buffer, command or status meant, the next one
  info,      \* info[i].b: the buffer of the request headed by i
  status,    \* info[i].status
  ops,       \* the command headers: the sector
  avail, availIdx,  \* the ring the driver writes; consumed entries are None
  used, usedIdx,    \* the ring the device writes; consumed entries are None
  used_idx,  \* how far the driver has looked
  bdisk,     \* b->disk
  lock,      \* the holder of vdisk_lock
  pc, idx,   \* where a process is, and its descriptors
  devIdx, devWork,  \* device: how far it has looked, the chains it works on
  irq,       \* device: the interrupt is raised
  served,    \* device: the sector transferred to or from a buffer
  panicked

driver == <<free, desc, info, status, ops, bdisk, idx>>
rings == <<avail, availIdx, used, usedIdx>>
device == <<devIdx, devWork, irq, served>>
vars == <<driver, rings, used_idx, lock, pc, device, panicked>>

NoDesc == [addr |-> None, next |-> 0, more |-> FALSE]

Init ==
  /\ free = Descs
  /\ desc = [d \in Descs |-> NoDesc]
  /\ info = [d \in Descs |-> None]
  /\ status = [d \in Descs |-> 0]
  /\ ops = [d \in Descs |-> None]
  /\ avail = [k \in Descs |-> None] /\ availIdx = 0
  /\ used = [k \in Descs |-> None] /\ usedIdx = 0 /\ used_idx = 0
  /\ bdisk = [p \in Procs |-> 0]
  /\ lock = None
  /\ pc = [p \in Procs |-> "idle"]
  /\ idx = [p \in Procs |-> <<>>]
  /\ devIdx = 0 /\ devWork = {} /\ irq = FALSE
  /\ served = [p \in Procs |-> None]
  /\ panicked = FALSE

-----------------------------------------------------------------------------
(* The driver.                                                              *)

\* wakeup(&disk.free[0]), in free_desc().
WakeFree(f) == [p \in Procs |-> IF f[p] = "nodesc" THEN "retry" ELSE f[p]]

\* alloc_desc() three times: the lowest free descriptors, in order.
Lowest3 == LET a == Min(free)
               b == Min(free \ {a})
               c == Min(free \ {a, b}) IN <<a, b, c>>

Taken(i) == {i[1], i[2], i[3]}

\* Mutant: b->disk is left alone.
FlaggedNot(p) == bdisk
Flagged(p) == [bdisk EXCEPT ![p] = 1]

\* virtio_disk_rw() with three descriptors to be had: the chain is formatted
\* and its head put into the available ring.
Submit(p) ==
  /\ Cardinality(free) >= 3
  /\ LET i == Lowest3 IN
     /\ free' = free \ Taken(i)
     /\ idx' = [idx EXCEPT ![p] = i]
     /\ ops' = [ops EXCEPT ![i[1]] = p]
     /\ desc' = [desc EXCEPT
          ![i[1]] = [addr |-> "op", next |-> i[2], more |-> TRUE],
          ![i[2]] = [addr |-> p, next |-> i[3], more |-> TRUE],
          ![i[3]] = [addr |-> i[1], next |-> 0, more |-> FALSE]]
     /\ status' = [status EXCEPT ![i[1]] = 255]
     /\ info' = [info EXCEPT ![i[1]] = p]
     /\ avail' = [avail EXCEPT ![availIdx % NUM] = i[1]]
  /\ bdisk' = Flagged(p)
  /\ served' = [served EXCEPT ![p] = None]
  /\ lock' = p
  /\ pc' = [pc EXCEPT ![p] = "publish"]
  /\ UNCHANGED <<availIdx, used, usedIdx, used_idx, devIdx, devWork, irq, panicked>>

\* Too few descriptors: those alloc3_desc() took are given back, each with a
\* wakeup of the other waiters, and the process sleeps on disk.free[0].
NoDescriptors(p) ==
  /\ Cardinality(free) < 3
  /\ pc' = [(IF free = {} THEN pc ELSE WakeFree(pc)) EXCEPT ![p] = "nodesc"]
  /\ UNCHANGED <<free, desc, info, status, ops, bdisk, idx, rings, used_idx, lock,
                 device, panicked>>

\* virtio_disk_rw() is called, or goes on after a wakeup.
Request(p) ==
  /\ ~ panicked /\ lock = None
  /\ pc[p] \in {"idle", "retry"}
  /\ Submit(p) \/ NoDescriptors(p)

\* avail->idx += 1, the device is notified, and the process sleeps on b
\* while b->disk is 1, which releases vdisk_lock.
Publish(p) ==
  /\ ~ panicked /\ pc[p] = "publish"
  /\ availIdx' = (availIdx + 1) % WRAP
  /\ lock' = None
  /\ pc' = [pc EXCEPT ![p] = IF bdisk[p] = 1 THEN "asleep" ELSE "woken"]
  /\ UNCHANGED <<driver, avail, used, usedIdx, used_idx, device, panicked>>

\* free_chain(): the descriptors that hang together from d on.
Chain(d) ==
  LET e == desc[d].next
      f == desc[e].next IN
  {d} \cup (IF desc[d].more THEN {e} \cup (IF desc[e].more THEN {f} ELSE {}) ELSE {})

\* After the wakeup: sleep again while b->disk is 1, or free the chain.  The
\* command header is not read again; the model blanks it.
Finish(p) ==
  /\ ~ panicked /\ lock = None /\ pc[p] = "woken"
  /\ LET h == idx[p][1] IN
     \/ /\ bdisk[p] = 1
        /\ pc' = [pc EXCEPT ![p] = "asleep"]
        /\ UNCHANGED <<driver, panicked>>
     \/ /\ bdisk[p] = 0
        /\ info' = [info EXCEPT ![h] = None]
        /\ panicked' = (Chain(h) \cap free # {})
        /\ free' = free \cup Chain(h)
        /\ desc' = [d \in Descs |-> IF d \in Chain(h) THEN NoDesc ELSE desc[d]]
        /\ pc' = [WakeFree(pc) EXCEPT ![p] = "idle"]
        /\ idx' = [idx EXCEPT ![p] = <<>>]
        /\ ops' = [ops EXCEPT ![h] = None]
        /\ UNCHANGED <<status, bdisk>>
  /\ UNCHANGED <<rings, used_idx, lock, device>>

\* virtio_disk_intr(): the interrupt is acknowledged under vdisk_lock.
IntrAck ==
  /\ ~ panicked /\ irq /\ lock = None
  /\ lock' = Intr
  /\ irq' = FALSE
  /\ UNCHANGED <<driver, rings, used_idx, pc, devIdx, devWork, served, panicked>>

NextUsed == (used_idx + 1) % WRAP

\* Mutant: nobody is woken.
WokenNot(b) == pc
\* wakeup(b).
Woken(b) == [p \in Procs |-> IF p = b /\ pc[p] = "asleep" THEN "woken" ELSE pc[p]]

\* One entry of the used ring: the request is done, its process is woken.
IntrEntry ==
  /\ ~ panicked /\ lock = Intr /\ used_idx # usedIdx
  /\ LET id == used[used_idx % NUM] IN
     IF status[id] # 0
     THEN panicked' = TRUE /\ UNCHANGED <<bdisk, pc, used, used_idx>>
     ELSE /\ bdisk' = [bdisk EXCEPT ![info[id]] = 0]
          /\ pc' = Woken(info[id])
          /\ used' = [used EXCEPT ![used_idx % NUM] = None]
          /\ used_idx' = NextUsed
          /\ UNCHANGED panicked
  /\ UNCHANGED <<free, desc, info, status, ops, idx, avail, availIdx, usedIdx, lock,
                 device>>

\* Mutant: the handler returns before it has seen every entry.
IntrDoneEarly ==
  /\ ~ panicked /\ lock = Intr
  /\ lock' = None
  /\ UNCHANGED <<driver, rings, used_idx, pc, device, panicked>>
\* No more entries: the handler returns.
IntrDone ==
  /\ ~ panicked /\ lock = Intr /\ used_idx = usedIdx
  /\ lock' = None
  /\ UNCHANGED <<driver, rings, used_idx, pc, device, panicked>>

-----------------------------------------------------------------------------
(* The device, as the driver and the comments in it describe it.            *)

\* It takes the next chain from the available ring.
DevTake ==
  /\ devIdx # availIdx
  /\ devWork' = devWork \cup {avail[devIdx % NUM]}
  /\ avail' = [avail EXCEPT ![devIdx % NUM] = None]
  /\ devIdx' = (devIdx + 1) % WRAP
  /\ UNCHANGED <<driver, availIdx, used, usedIdx, used_idx, lock, pc, irq, served, panicked>>

\* It finishes any chain it has: the transfer, the status byte, the entry in
\* the used ring, and the interrupt.
DevComplete(h) ==
  /\ h \in devWork
  /\ LET b == desc[desc[h].next].addr
         s == desc[desc[desc[h].next].next].addr IN
     /\ served' = [served EXCEPT ![b] = ops[h]]
     /\ status' = [status EXCEPT ![s] = 0]
  /\ used' = [used EXCEPT ![usedIdx % NUM] = h]
  /\ usedIdx' = (usedIdx + 1) % WRAP
  /\ devWork' = devWork \ {h}
  /\ irq' = TRUE
  /\ UNCHANGED <<free, desc, info, ops, bdisk, idx, avail, availIdx, used_idx, lock,
                 pc, devIdx, panicked>>

-----------------------------------------------------------------------------
Next ==
  \/ \E p \in Procs : Request(p) \/ Publish(p) \/ Finish(p)
  \/ IntrAck \/ IntrEntry \/ IntrDone
  \/ DevTake \/ \E h \in Descs : DevComplete(h)

Spec == Init /\ [][Next]_vars

\* A process that is runnable runs, an interrupt that is raised is taken, the
\* handler ends, and the device finishes what it has been given.
FairSpec ==
  /\ Spec
  /\ \A p \in Procs : WF_vars(Publish(p)) /\ SF_vars(Finish(p))
  /\ SF_vars(IntrAck) /\ WF_vars(IntrEntry) /\ WF_vars(IntrDone)
  /\ WF_vars(DevTake) /\ \A h \in Descs : WF_vars(DevComplete(h))

-----------------------------------------------------------------------------
InFlight == {p \in Procs : pc[p] \in {"publish", "asleep", "woken"}}

\* The number of entries between index a and index b of a ring.
Between(a, b) == (b + WRAP - a) % WRAP
RingEntries(ring, a, b) == {ring[(a + k) % NUM] : k \in 0..Between(a, b) - 1}

\* Types of the driver's and the device's state.
TypeOK ==
  /\ free \subseteq Descs /\ devWork \subseteq Descs
  /\ availIdx \in 0..WRAP - 1 /\ usedIdx \in 0..WRAP - 1 /\ used_idx \in 0..WRAP - 1
  /\ avail \in [Descs -> Descs \cup {None}] /\ used \in [Descs -> Descs \cup {None}]
  /\ info \in [Descs -> Procs \cup {None}]
  /\ lock \in Procs \cup {Intr, None}
  /\ irq \in BOOLEAN /\ panicked \in BOOLEAN
  /\ pc \in [Procs -> {"idle", "nodesc", "retry", "publish", "asleep", "woken"}]

\* No descriptor is leaked or given to two requests: those of the requests in
\* flight and the free ones are all there are (alloc3_desc(), free_chain()).
DescsConserved ==
  /\ NUM = Cardinality(free) + 3 * Cardinality(InFlight)
  /\ \A p \in InFlight : Chain(idx[p][1]) \cap free = {}
  /\ \A p, q \in InFlight : p # q => Chain(idx[p][1]) \cap Chain(idx[q][1]) = {}

\* A request that the driver takes for done has been carried out by the device,
\* on this buffer and for its block, in whatever order the device finishes.
DoneAsAsked == \A p \in InFlight : bdisk[p] = 0 => served[p] = p

\* No request is forgotten: until b->disk is cleared the device has the chain,
\* or will find it in the ring, or its completion lies in the used ring; and a
\* completion nobody is handling has raised the interrupt.
CompletionPending ==
  /\ \A p \in InFlight : bdisk[p] = 1 /\ pc[p] # "publish" =>
       idx[p][1] \in devWork \cup RingEntries(avail, devIdx, availIdx)
                             \cup RingEntries(used, used_idx, usedIdx)
  /\ used_idx # usedIdx => irq \/ lock = Intr

\* A process sleeps for descriptors only while there are fewer than three, and
\* for its buffer only while b->disk is 1 (free_desc() and the handler wake it).
SleepJustified ==
  \A p \in Procs : /\ pc[p] = "nodesc" => Cardinality(free) < 3
                   /\ pc[p] = "asleep" => bdisk[p] = 1

\* Neither free_desc() nor the handler panics.
NoPanic == ~ panicked

\* The driver's bookkeeping: well typed, no descriptor lost or shared, no panic,
\* no request and no sleeping process forgotten.
DriverInv == TypeOK /\ DescsConserved /\ NoPanic /\ CompletionPending /\ SleepJustified

\* Every request that has been submitted ends.
RequestEnds == \A p \in Procs : (pc[p] = "publish") ~> (pc[p] = "idle")

=============================================================================
