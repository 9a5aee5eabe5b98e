---------------------------- MODULE MemoryProofs ----------------------------
(***************************************************************************)
(* Physical and virtual memory: the page allocator (module Kalloc) for any *)
(* finite set of pages and any set of threads, and user address spaces     *)
(* (module Vm) for any number of processes and pages, any page size and    *)
(* any programs.                                                           *)
(***************************************************************************)
EXTENDS Kalloc, Vm, FiniteSetTheorems, SequenceTheorems, TLAPS

-----------------------------------------------------------------------------
(* Part 1: the page allocator *)

(***************************************************************************)
(* The inductive invariant.  PageExclusive says nothing about the counts,  *)
(* which the panics depend on, nor that the page a thread is busy with is  *)
(* not one it still holds; these are what induction needs beside it.       *)
(***************************************************************************)

\* The page a thread is allocating or freeing is a page it does not hold.
TransitArg == \A t \in Threads :
  kpc[t] \in InTransit => arg[t] \in Pages /\ arg[t] \notin held[t]

\* The count of a page is 1 exactly while kalloc() has granted it.
CountsHeld == \A t \in Threads : \A p \in held[t] : refcount[p] = 1
CountsTransit == \A t \in Threads :
  /\ kpc[t] = "fill" => refcount[arg[t]] = 1
  /\ kpc[t] \in {"check", "junk", "push"} => refcount[arg[t]] = 0
CountsListed == \A p \in Listed : refcount[p] = 0

KallocInv ==
  /\ KallocTypeOK /\ PageExclusive /\ TransitArg
  /\ CountsHeld /\ CountsTransit /\ CountsListed
  /\ PagesConserved /\ NoPanic

-----------------------------------------------------------------------------
\* Taking the head off a list without repetitions removes exactly that page
\* from the linked ones: what kalloc() does to the list.
LEMMA TailListed ==
  ASSUME NEW S, NEW s \in Seq(S), s # <<>>,
         \A m, j \in DOMAIN s : s[m] = s[j] => m = j
  PROVE  /\ Tail(s) \in Seq(S)
         /\ Head(s) \in S
         /\ {Tail(s)[m] : m \in DOMAIN Tail(s)} = {s[m] : m \in DOMAIN s} \ {Head(s)}
         /\ Head(s) \in {s[m] : m \in DOMAIN s}
         /\ \A m, j \in DOMAIN Tail(s) : Tail(s)[m] = Tail(s)[j] => m = j
<1>1. /\ Len(s) \in Nat /\ Len(s) > 0 /\ DOMAIN s = 1..Len(s)
      /\ Head(s) = s[1] /\ 1 \in DOMAIN s /\ s[1] \in S
  OBVIOUS
<1>2. /\ Tail(s) \in Seq(S) /\ Len(Tail(s)) = Len(s) - 1
      /\ DOMAIN Tail(s) = 1..(Len(s) - 1)
      /\ \A m \in 1..(Len(s) - 1) : Tail(s)[m] = s[m + 1]
  OBVIOUS
<1>3. ASSUME NEW x \in {Tail(s)[m] : m \in DOMAIN Tail(s)}
      PROVE  x \in {s[m] : m \in DOMAIN s} \ {Head(s)}
  <2>1. PICK m \in 1..(Len(s) - 1) : x = s[m + 1]
    BY <1>2, <1>3
  <2>2. m + 1 \in DOMAIN s /\ m + 1 # 1
    BY <1>1, <2>1
  <2> QED
    BY <1>1, <2>1, <2>2
<1>4. ASSUME NEW x \in {s[m] : m \in DOMAIN s} \ {Head(s)}
      PROVE  x \in {Tail(s)[m] : m \in DOMAIN Tail(s)}
  <2>1. PICK k \in DOMAIN s : x = s[k]
    BY <1>4
  <2>2. k - 1 \in 1..(Len(s) - 1) /\ (k - 1) + 1 = k
    BY <1>1, <1>4, <2>1
  <2>3. Tail(s)[k - 1] = x
    BY <1>2, <2>1, <2>2
  <2> QED
    BY <1>2, <2>2, <2>3
<1>5. \A m, j \in DOMAIN Tail(s) : Tail(s)[m] = Tail(s)[j] => m = j
  <2> SUFFICES ASSUME NEW m \in 1..(Len(s) - 1), NEW j \in 1..(Len(s) - 1),
                      s[m + 1] = s[j + 1]
               PROVE  m = j
    BY <1>2
  <2>1. m + 1 \in DOMAIN s /\ j + 1 \in DOMAIN s
    BY <1>1
  <2>2. m + 1 = j + 1
    BY <2>1
  <2> QED
    BY <2>2
<1>6. {Tail(s)[m] : m \in DOMAIN Tail(s)} = {s[m] : m \in DOMAIN s} \ {Head(s)}
  BY <1>3, <1>4
<1> QED
  BY <1>1, <1>2, <1>5, <1>6

\* Linking a new page in front of such a list adds exactly that page: what
\* kfree() does to the list.
LEMMA ConsListed ==
  ASSUME NEW S, NEW s \in Seq(S), NEW e \in S,
         e \notin {s[m] : m \in DOMAIN s},
         \A m, j \in DOMAIN s : s[m] = s[j] => m = j
  PROVE  LET c == <<e>> \o s IN
         /\ c \in Seq(S)
         /\ {c[m] : m \in DOMAIN c} = {s[m] : m \in DOMAIN s} \cup {e}
         /\ \A m, j \in DOMAIN c : c[m] = c[j] => m = j
<1> DEFINE c == <<e>> \o s
<1>1. /\ Len(s) \in Nat /\ DOMAIN s = 1..Len(s)
      /\ c \in Seq(S) /\ DOMAIN c = 1..(Len(s) + 1)
      /\ c[1] = e /\ \A m \in DOMAIN s : c[m + 1] = s[m]
  OBVIOUS
<1>2. ASSUME NEW k \in DOMAIN c
      PROVE  k = 1 \/ (k - 1 \in DOMAIN s /\ c[k] = s[k - 1])
  <2>1. k = 1 \/ (k - 1 \in DOMAIN s /\ (k - 1) + 1 = k)
    BY <1>1
  <2> QED
    BY <1>1, <2>1
<1>3. \A m \in DOMAIN s : m + 1 \in DOMAIN c
  BY <1>1
<1>4. 1 \in DOMAIN c /\ DOMAIN s \subseteq Nat /\ DOMAIN c \subseteq Nat
  BY <1>1
<1> HIDE DEF c
<1>5. {c[m] : m \in DOMAIN c} \subseteq {s[m] : m \in DOMAIN s} \cup {e}
  BY <1>1, <1>2
<1>6. {s[m] : m \in DOMAIN s} \cup {e} \subseteq {c[m] : m \in DOMAIN c}
  BY <1>1, <1>3, <1>4
<1>7. ASSUME NEW m \in DOMAIN c, NEW j \in DOMAIN c, c[m] = c[j]
      PROVE  m = j
  <2>1. CASE m = 1 /\ j = 1
    BY <2>1
  <2>2. CASE m = 1 /\ j # 1
    BY <1>1, <1>2, <1>7, <2>2
  <2>3. CASE m # 1 /\ j = 1
    BY <1>1, <1>2, <1>7, <2>3
  <2>4. CASE m # 1 /\ j # 1
    <3>1. /\ m - 1 \in DOMAIN s /\ c[m] = s[m - 1]
          /\ j - 1 \in DOMAIN s /\ c[j] = s[j - 1]
      BY <1>2, <2>4
    <3>2. m - 1 = j - 1
      BY <1>7, <3>1
    <3> QED
      BY <1>4, <3>2
  <2> QED
    BY <2>1, <2>2, <2>3, <2>4
<1>8. {c[m] : m \in DOMAIN c} = {s[m] : m \in DOMAIN s} \cup {e}
  BY <1>5, <1>6
<1> QED
  BY <1>1, <1>7, <1>8 DEF c

-----------------------------------------------------------------------------
\* A load of r->next through a page yields a pointer or the page's data.
LEMMA NextOfType ==
  ASSUME KallocTypeOK, NEW r \in Pages
  PROVE  NextOf(r) \in Pointers
<1>1. CASE r \notin Listed
  BY <1>1 DEF NextOf, KallocTypeOK
<1>2. CASE r \in Listed
  <2> DEFINE m == CHOOSE k \in DOMAIN freelist : freelist[k] = r
  <2>1. m \in DOMAIN freelist
    BY <1>2 DEF Listed
  <2>2. NextOf(r) = IF m < Len(freelist) THEN freelist[m + 1] ELSE NoPage
    BY <1>2 DEF NextOf
  <2>3. CASE m < Len(freelist)
    <3> HIDE DEF m
    <3>1. m + 1 \in 1..Len(freelist)
      BY <2>1, <2>3 DEF KallocTypeOK
    <3>2. freelist[m + 1] \in Pages
      BY <3>1 DEF KallocTypeOK
    <3> QED
      BY <2>2, <2>3, <3>2 DEF Pointers
  <2>4. CASE ~ (m < Len(freelist))
    BY <2>2, <2>4 DEF Pointers
  <2> QED
    BY <2>3, <2>4
<1> QED
  BY <1>1, <1>2

\* After kinit() every page is linked once and nobody owns one.
LEMMA KallocInvInit == KallocInit => KallocInv
<1> SUFFICES ASSUME KallocInit PROVE KallocInv
  OBVIOUS
<1>1. freelist \in Seq(Pages)
  <2>1. Cardinality(Pages) \in Nat
    BY KallocAssumption, FS_CardinalityType
  <2> QED
    BY <2>1 DEF KallocInit
<1>2. KallocTypeOK
  BY <1>1 DEF KallocInit, KallocTypeOK, Pcs, Pointers
<1> QED
  BY <1>2 DEF KallocInit, KallocInv, PageExclusive, TransitArg, CountsHeld, CountsTransit,
              CountsListed, PagesConserved, NoPanic, Owns, InTransit

\* kalloc() under the lock: the head leaves the list and becomes the page in
\* transit; its count was 0 because it was linked, so the panic is dead code.
LEMMA KallocPopInv ==
  ASSUME KallocInv, NEW t \in Threads, KallocPop(t)
  PROVE  KallocInv'
<1> DEFINE r == Head(freelist)
<1> USE DEF KallocInv
<1>1. /\ Tail(freelist) \in Seq(Pages) /\ r \in Pages /\ r \in Listed
      /\ \A m, j \in DOMAIN Tail(freelist) :
           Tail(freelist)[m] = Tail(freelist)[j] => m = j
      /\ Listed' = Listed \ {r}
  <2>1. freelist' = Tail(freelist) /\ freelist # <<>> /\ freelist \in Seq(Pages)
    BY DEF KallocPop, KallocTypeOK
  <2>2. \A m, j \in DOMAIN freelist : freelist[m] = freelist[j] => m = j
    BY DEF PageExclusive
  <2>3. /\ Tail(freelist) \in Seq(Pages) /\ Head(freelist) \in Pages
        /\ {Tail(freelist)[m] : m \in DOMAIN Tail(freelist)}
             = {freelist[m] : m \in DOMAIN freelist} \ {Head(freelist)}
        /\ Head(freelist) \in {freelist[m] : m \in DOMAIN freelist}
        /\ \A m, j \in DOMAIN Tail(freelist) :
             Tail(freelist)[m] = Tail(freelist)[j] => m = j
    BY ONLY <2>1, <2>2, TailListed
  <2>4. Listed' = {Tail(freelist)[m] : m \in DOMAIN Tail(freelist)}
    BY <2>1, Zenon DEF Listed
  <2> QED
    BY <2>3, <2>4, Zenon DEF Listed
<1>2. /\ freelist' = Tail(freelist)
      /\ refcount' = [refcount EXCEPT ![r] = 1]
      /\ arg' = [arg EXCEPT ![t] = r]
      /\ kpc' = [kpc EXCEPT ![t] = "fill"]
      /\ held' = held /\ cursor' = cursor
      /\ kpc[t] = "idle"
      /\ word' = [word EXCEPT ![r] = NextOf(r)]
  BY <1>1 DEF KallocPop, CountsListed, KallocGoto
<1> HIDE DEF r
<1>3. KallocTypeOK'
  BY <1>1, <1>2, NextOfType DEF KallocTypeOK, Pcs, InTransit
<1>4. \A u \in Threads : r \notin Owns(u)
  BY <1>1 DEF PageExclusive
<1>5. \A u \in Threads : Owns(u)' = IF u = t THEN Owns(u) \cup {r} ELSE Owns(u)
  BY <1>2 DEF Owns, InTransit, KallocTypeOK
<1>6. PageExclusive'
  <2>1. \A u, v \in Threads : u # v => Owns(u)' \cap Owns(v)' = {}
    BY <1>4, <1>5 DEF PageExclusive
  <2>2. \A u \in Threads : Owns(u)' \cap Listed' = {}
    BY <1>1, <1>5 DEF PageExclusive
  <2> QED
    BY <1>1, <1>2, <2>1, <2>2 DEF PageExclusive
<1>7. TransitArg'
  BY <1>1, <1>2, <1>4 DEF TransitArg, Owns, KallocTypeOK
<1>8. CountsHeld' /\ CountsListed'
  <2>1. CountsHeld'
    BY <1>1, <1>2, <1>4 DEF CountsHeld, Owns, KallocTypeOK
  <2>2. CountsListed'
    BY <1>1, <1>2 DEF CountsListed, KallocTypeOK, PageExclusive
  <2> QED
    BY <2>1, <2>2
<1>9. CountsTransit'
  BY <1>1, <1>2, <1>4 DEF CountsTransit, TransitArg, Owns, KallocTypeOK, InTransit
<1>10. PagesConserved'
  BY <1>1, <1>5 DEF PagesConserved
<1>11. NoPanic'
  BY <1>2 DEF NoPanic, KallocTypeOK
<1> QED
  BY <1>3, <1>6, <1>7, <1>8, <1>9, <1>10, <1>11

\* kfree() under its first lock: a held page has count 1, which becomes 0.
LEMMA KfreeDecInv ==
  ASSUME KallocInv, NEW t \in Threads, NEW p \in Pages, KfreeDec(t, p)
  PROVE  KallocInv'
<1> USE DEF KallocInv
<1>1. p \in held[t] /\ kpc[t] = "idle" /\ refcount[p] = 1
  BY DEF KfreeDec, CountsHeld
<1>2. /\ refcount' = [refcount EXCEPT ![p] = 0]
      /\ kpc' = [kpc EXCEPT ![t] = "check"]
      /\ held' = [held EXCEPT ![t] = @ \ {p}]
      /\ arg' = [arg EXCEPT ![t] = p]
      /\ freelist' = freelist /\ cursor' = cursor /\ word' = word
  BY <1>1 DEF KfreeDec, KallocGoto, KallocTypeOK
<1>3. KallocTypeOK'
  BY <1>2 DEF KallocTypeOK, Pcs, InTransit
<1>4. \A u \in Threads : Owns(u)' = Owns(u)
  BY <1>1, <1>2 DEF Owns, InTransit, KallocTypeOK
<1>5. Listed' = Listed
  BY <1>2 DEF Listed
<1>6. PageExclusive' /\ PagesConserved'
  BY <1>2, <1>4, <1>5 DEF PageExclusive, PagesConserved
<1>7. \A u \in Threads : p \in Owns(u) => u = t
  BY <1>1 DEF PageExclusive, Owns
<1>8. TransitArg' /\ CountsHeld'
  BY <1>1, <1>2, <1>7 DEF TransitArg, CountsHeld, Owns, KallocTypeOK
<1>9. CountsTransit'
  BY <1>1, <1>2, <1>7 DEF CountsTransit, TransitArg, Owns, KallocTypeOK, InTransit
<1>10. CountsListed'
  BY <1>1, <1>2, <1>5 DEF CountsListed, PageExclusive, Owns, KallocTypeOK
<1>11. NoPanic'
  BY <1>2 DEF NoPanic, KallocTypeOK
<1> QED
  BY <1>3, <1>6, <1>8, <1>9, <1>10, <1>11

\* kfree() under its second lock: the page in transit joins the list.
LEMMA KfreePushInv ==
  ASSUME KallocInv, NEW t \in Threads, KfreePush(t)
  PROVE  KallocInv'
<1> USE DEF KallocInv
<1>1. /\ kpc[t] = "push" /\ arg[t] \in Pages /\ arg[t] \notin held[t]
      /\ refcount[arg[t]] = 0 /\ arg[t] \in Owns(t) /\ arg[t] \notin Listed
  BY DEF KfreePush, TransitArg, CountsTransit, InTransit, Owns, PageExclusive
<1>2. /\ freelist' = <<arg[t]>> \o freelist
      /\ kpc' = [kpc EXCEPT ![t] = "idle"]
      /\ UNCHANGED <<refcount, held, arg, cursor, word>>
  BY DEF KfreePush, KallocGoto
<1>3. /\ freelist' \in Seq(Pages)
      /\ Listed' = Listed \cup {arg[t]}
      /\ \A m, j \in DOMAIN freelist' : freelist'[m] = freelist'[j] => m = j
  <2> DEFINE c == <<arg[t]>> \o freelist
  <2>1. /\ freelist \in Seq(Pages) /\ arg[t] \in Pages
        /\ arg[t] \notin {freelist[m] : m \in DOMAIN freelist}
        /\ \A m, j \in DOMAIN freelist : freelist[m] = freelist[j] => m = j
    BY <1>1 DEF Listed, PageExclusive, KallocTypeOK
  <2>2. /\ c \in Seq(Pages)
        /\ {c[m] : m \in DOMAIN c} = {freelist[m] : m \in DOMAIN freelist} \cup {arg[t]}
        /\ \A m, j \in DOMAIN c : c[m] = c[j] => m = j
    BY ONLY <2>1, ConsListed
  <2>3. freelist' = c
    BY <1>2
  <2> HIDE DEF c
  <2>4. Listed' = {c[m] : m \in DOMAIN c}
    BY <2>3, Zenon DEF Listed
  <2> QED
    BY <2>2, <2>3, <2>4, Zenon DEF Listed
<1>4. KallocTypeOK'
  BY <1>2, <1>3 DEF KallocTypeOK, Pcs
<1>5. /\ \A u \in Threads \ {t} : Owns(u)' = Owns(u)
      /\ Owns(t)' = Owns(t) \ {arg[t]}
  BY <1>1, <1>2 DEF Owns, InTransit, KallocTypeOK
<1>6. PageExclusive'
  <2>1. \A u, v \in Threads : u # v => Owns(u)' \cap Owns(v)' = {}
    BY <1>5 DEF PageExclusive
  <2>2. \A u \in Threads : Owns(u)' \cap Listed' = {}
    BY <1>1, <1>3, <1>5 DEF PageExclusive
  <2> QED
    BY <1>3, <2>1, <2>2 DEF PageExclusive
<1>7. PagesConserved'
  BY <1>3, <1>5 DEF PagesConserved
<1>8. TransitArg' /\ CountsHeld' /\ CountsTransit'
  BY <1>2 DEF TransitArg, CountsHeld, CountsTransit, KallocTypeOK, InTransit
<1>9. CountsListed' /\ NoPanic'
  BY <1>1, <1>2, <1>3 DEF CountsListed, NoPanic, KallocTypeOK
<1> QED
  BY <1>4, <1>6, <1>7, <1>8, <1>9

\* The steps outside the lock that leave the list and the counts alone.
LEMMA UnlockedInv ==
  ASSUME KallocInv, NEW t \in Threads,
         \/ KallocFill(t) \/ KfreeCheck(t) \/ KfreeFill(t)
         \/ WalkStart(t) \/ WalkStep(t)
  PROVE  KallocInv'
<1> USE DEF KallocInv
<1>1. UNCHANGED <<freelist, refcount, arg>>
  BY DEF KallocFill, KfreeCheck, KfreeFill, WalkStart, WalkStep
<1>2. Listed' = Listed
  BY <1>1 DEF Listed
<1>3. freelist # <<>> => Head(freelist) \in Pages
  BY DEF KallocTypeOK
<1>4. KallocTypeOK'
  <2>1. CASE KallocFill(t)
    BY <2>1 DEF KallocFill, KallocGoto, KallocTypeOK, TransitArg, InTransit, Pcs, Pointers
  <2>2. CASE KfreeCheck(t)
    BY <2>2 DEF KfreeCheck, KallocGoto, KallocTypeOK, InTransit, Pcs
  <2>3. CASE KfreeFill(t)
    BY <2>3 DEF KfreeFill, KallocGoto, KallocTypeOK, InTransit, Pcs, Pointers
  <2>4. CASE WalkStart(t)
    BY <1>3, <2>4 DEF WalkStart, KallocGoto, KallocTypeOK, Pcs, Pointers
  <2>5. CASE WalkStep(t)
    BY <2>5, NextOfType DEF WalkStep, KallocGoto, KallocTypeOK, Pcs
  <2> QED
    BY <2>1, <2>2, <2>3, <2>4, <2>5
<1>5. \A u \in Threads : Owns(u)' = Owns(u)
  <2>1. CASE KallocFill(t)
    BY <2>1 DEF KallocFill, KallocGoto, KallocTypeOK, Owns, InTransit
  <2>2. CASE KfreeCheck(t)
    BY <2>2 DEF KfreeCheck, KallocGoto, KallocTypeOK, Owns, InTransit, CountsTransit
  <2>3. CASE KfreeFill(t)
    BY <2>3 DEF KfreeFill, KallocGoto, KallocTypeOK, Owns, InTransit
  <2>4. CASE WalkStart(t)
    BY <2>4 DEF WalkStart, KallocGoto, KallocTypeOK, Owns, InTransit
  <2>5. CASE WalkStep(t)
    BY <2>5 DEF WalkStep, KallocGoto, KallocTypeOK, Owns, InTransit
  <2> QED
    BY <2>1, <2>2, <2>3, <2>4, <2>5
<1>6. PageExclusive' /\ PagesConserved' /\ CountsListed'
  BY <1>1, <1>2, <1>5 DEF PageExclusive, PagesConserved, CountsListed
<1>7. TransitArg' /\ CountsHeld' /\ CountsTransit' /\ NoPanic'
  <2> USE DEF TransitArg, CountsHeld, CountsTransit, NoPanic, KallocTypeOK, InTransit, KallocGoto
  <2>1. CASE KallocFill(t)
    BY <2>1 DEF KallocFill
  <2>2. CASE KfreeCheck(t)
    BY <2>2 DEF KfreeCheck
  <2>3. CASE KfreeFill(t)
    BY <2>3 DEF KfreeFill
  <2>4. CASE WalkStart(t)
    BY <2>4 DEF WalkStart
  <2>5. CASE WalkStep(t)
    BY <2>5 DEF WalkStep
  <2> QED
    BY <2>1, <2>2, <2>3, <2>4, <2>5
<1> QED
  BY <1>4, <1>6, <1>7

\* No step of kalloc(), kfree() or kmemamount() breaks the invariant.
LEMMA KallocInvNext == KallocInv /\ [KallocNext]_kallocVars => KallocInv'
<1> SUFFICES ASSUME KallocInv, [KallocNext]_kallocVars PROVE KallocInv'
  OBVIOUS
<1>1. CASE UNCHANGED kallocVars
  BY <1>1 DEF kallocVars, KallocInv, KallocTypeOK, PageExclusive, TransitArg, CountsHeld,
              CountsTransit, CountsListed, PagesConserved, NoPanic, Owns, Listed
<1>2. CASE KallocNext
  <2> SUFFICES ASSUME NEW t \in Threads,
                      \/ KallocPop(t) \/ KallocFill(t)
                      \/ \E p \in Pages : KfreeDec(t, p)
                      \/ KfreeCheck(t) \/ KfreeFill(t) \/ KfreePush(t)
                      \/ WalkStart(t) \/ WalkStep(t)
               PROVE  KallocInv'
    BY <1>2 DEF KallocNext
  <2> QED
    BY KallocPopInv, KfreeDecInv, KfreePushInv, UnlockedInv
<1> QED
  BY <1>1, <1>2

\* Every behaviour of the allocator satisfies the inductive invariant.
THEOREM KallocSafe == KallocSpec => []KallocInv
<1> QED
  BY KallocInvInit, KallocInvNext, PTL DEF KallocSpec

\* Every variable of kalloc.c keeps its type, the counts never negative.
THEOREM KallocType == KallocSpec => []KallocTypeOK
<1>1. KallocInv => KallocTypeOK
  BY DEF KallocInv
<1> QED
  BY <1>1, KallocSafe, PTL

\* kalloc() and kfree() never let two threads own a page, never link an owned
\* page, and never link a page twice, for any number of pages and threads.
THEOREM KallocExclusive == KallocSpec => []PageExclusive
<1>1. KallocInv => PageExclusive
  BY DEF KallocInv
<1> QED
  BY <1>1, KallocSafe, PTL

\* kalloc() and kfree() lose no page.
THEOREM KallocConserved == KallocSpec => []PagesConserved
<1>1. KallocInv => PagesConserved
  BY DEF KallocInv
<1> QED
  BY <1>1, KallocSafe, PTL

\* panic("kalloc: ref") and panic("kfree cow") are unreachable while no page
\* is shared.
THEOREM KallocNoPanic == KallocSpec => []NoPanic
<1>1. KallocInv => NoPanic
  BY DEF KallocInv
<1> QED
  BY <1>1, KallocSafe, PTL

-----------------------------------------------------------------------------
(* Part 2: user address spaces *)

(***************************************************************************)
(* The inductive invariant of Vm.                                          *)
(***************************************************************************)
VmPcs == {"unused", "embryo", "user", "fork", "args", "load", "zombie"}
Entries == [u : BOOLEAN, word : Data]
IsTable(t) ==
  /\ t = [v \in DOMAIN t |-> t[v]] /\ DOMAIN t \subseteq UserPages
  /\ \A v \in DOMAIN t : t[v] \in Entries

\* The variables are functions of the processes.
Shapes ==
  /\ kp = [p \in Procs |-> kp[p]] /\ pc = [p \in Procs |-> pc[p]]
  /\ sz = [p \in Procs |-> sz[p]] /\ pte = [p \in Procs |-> pte[p]]
  /\ tabs = [p \in Procs |-> tabs[p]] /\ np = [p \in Procs |-> np[p]]
  /\ i = [p \in Procs |-> i[p]] /\ args = [p \in Procs |-> args[p]]
  /\ img = [p \in Procs |-> img[p]] /\ nsz = [p \in Procs |-> nsz[p]]
  /\ npte = [p \in Procs |-> npte[p]] /\ ntabs = [p \in Procs |-> ntabs[p]]
  /\ guard = [p \in Procs |-> guard[p]]

Typed(p) ==
  /\ kp[p] = (IF pc[p] = "unused" THEN 0 ELSE KPAGES) /\ pc[p] \in VmPcs
  /\ sz[p] \in Nat /\ PGROUNDUP(sz[p]) <= PGROUNDUP(SZMAX) + 2
  /\ IsTable(pte[p]) /\ IsTable(npte[p])
  /\ tabs[p] \subseteq AllTabs /\ ntabs[p] \subseteq AllTabs
  /\ np[p] \in 0..NPROC /\ i[p] \in Nat /\ args[p] \in 0..MAXARG
  /\ nsz[p] \in 0..SZMAX /\ img[p] \in Seq(1..SZMAX)
  /\ guard[p] \in UserPages \cup {NoGuard}

\* What a slot holds that no process uses, and a child that fork() is filling.
Blank(p) ==
  /\ pc[p] = "unused" => pte[p] = Empty /\ tabs[p] = {}
  /\ pc[p] \in {"unused", "embryo"} => sz[p] = 0 /\ guard[p] = NoGuard
  /\ pc[p] \notin {"fork", "load"} => i[p] = 0
  /\ pc[p] \notin {"args", "load"} => args[p] = 0
  /\ pc[p] # "load" => nsz[p] = 0 /\ npte[p] = Empty /\ ntabs[p] = {} /\ img[p] = <<>>

\* The size covers what is mapped, but for a child that is being filled.
Covered(p) == pc[p] # "embryo" => DOMAIN pte[p] \subseteq 0..(PGROUNDUP(sz[p]) - 1)

\* exec() has mapped the pages up to the one it is at: at least those of its size,
\* at most those of the segment it is in.
Larger(m, n) == IF m < n THEN n ELSE m
Building(p) == pc[p] = "load" =>
  /\ DOMAIN npte[p] = 0..(i[p] - 1) /\ PGROUNDUP(nsz[p]) <= i[p]
  /\ i[p] <= Larger(PGROUNDUP(nsz[p]), PGROUNDUP(NewSize(p)))

Guarded(p) == guard[p] # NoGuard => guard[p] \in DOMAIN pte[p] /\ ~ pte[p][guard[p]].u

Local(p) == Typed(p) /\ Blank(p) /\ Covered(p) /\ Building(p) /\ Guarded(p)

\* The child has the pages of its parent up to the one uvmcopy() is at.
Forking(p) == pc[p] = "fork" =>
  /\ np[p] \in Procs /\ pc[np[p]] = "embryo" /\ i[p] <= PGROUNDUP(sz[p])
  /\ DOMAIN pte[np[p]] = DOMAIN pte[p] \cap 0..(i[p] - 1)
  /\ \A v \in DOMAIN pte[np[p]] : pte[np[p]][v] = pte[p][v]
OneParent == \A p, r \in Procs :
  pc[p] = "fork" /\ pc[r] = "fork" /\ np[p] = np[r] => p = r

VmIInv ==
  /\ Shapes /\ OneParent /\ TeardownComplete
  /\ \A p \in Procs : Local(p) /\ Forking(p)
  /\ free \in Nat /\ FramesConserved

-----------------------------------------------------------------------------
(* Rounding *)

\* The constants that are numbers.
LEMMA Sizes ==
  /\ NPROC \in Nat \ {0} /\ NFRAMES \in Nat /\ KPAGES \in Nat /\ PGSIZE \in Nat \ {0}
  /\ REGION \in Nat \ {0} /\ SZMAX \in Nat /\ MAXARG \in Nat
  BY VmConstants

\* The number of pages that PGROUNDUP() gives is the least that holds the size.
LEMMA Round ==
  ASSUME NEW a \in Nat
  PROVE  /\ PGROUNDUP(a) \in Nat
         /\ \A k \in Nat : k * PGSIZE >= a <=> k >= PGROUNDUP(a)
<1> DEFINE q == PGROUNDUP(a)
<1>1. PGSIZE \in Nat /\ PGSIZE >= 1
  BY Sizes
<1>2. q \in Nat /\ q * PGSIZE <= a + PGSIZE - 1 /\ a + PGSIZE - 1 < q * PGSIZE + PGSIZE
  BY <1>1 DEF PGROUNDUP
<1> HIDE DEF q
<1>3. ASSUME NEW k \in Nat, k >= q PROVE k * PGSIZE >= a
  <2>1. k * PGSIZE >= q * PGSIZE
    BY <1>1, <1>2, <1>3
  <2> QED
    BY <1>1, <1>2, <2>1
<1>4. ASSUME NEW k \in Nat, k < q PROVE k * PGSIZE < a
  <2>1. (k + 1) * PGSIZE <= q * PGSIZE
    BY <1>1, <1>2, <1>4
  <2>2. (k + 1) * PGSIZE = k * PGSIZE + PGSIZE /\ k * PGSIZE \in Nat
    BY <1>1
  <2> QED
    BY <1>1, <1>2, <2>1, <2>2
<1>5. ASSUME NEW k \in Nat PROVE k * PGSIZE >= a <=> k >= q
  <2>1. k * PGSIZE \in Nat
    BY <1>1
  <2>2. CASE k >= q
    BY <1>3, <2>2
  <2>3. CASE k < q
    BY <1>2, <1>4, <2>1, <2>3
  <2> QED
    BY <1>2, <2>2, <2>3
<1> QED
  BY <1>2, <1>5 DEF q

\* Whole pages are not rounded.
LEMMA RoundPages ==
  ASSUME NEW k \in Nat
  PROVE  PGROUNDUP(k * PGSIZE) = k
<1>1. PGSIZE \in Nat /\ PGSIZE >= 1 /\ k * PGSIZE \in Nat
  BY Sizes
<1> DEFINE q == PGROUNDUP(k * PGSIZE)
<1>2. q \in Nat /\ k >= q /\ q * PGSIZE >= k * PGSIZE
  BY <1>1, Round
<1> HIDE DEF q
<1>3. q < k => q * PGSIZE < k * PGSIZE /\ q * PGSIZE \in Nat
  BY <1>1, <1>2
<1>4. q = k
  BY <1>1, <1>2, <1>3
<1> QED
  BY <1>4 DEF q

\* PGROUNDUP() keeps the order of sizes.
LEMMA RoundOrder ==
  ASSUME NEW a \in Nat, NEW b \in Nat, a <= b
  PROVE  PGROUNDUP(a) <= PGROUNDUP(b)
<1>1. PGROUNDUP(b) \in Nat /\ PGROUNDUP(b) * PGSIZE >= b /\ PGROUNDUP(b) * PGSIZE \in Nat
  BY Round, Sizes
<1> QED
  BY <1>1, Round

\* The page of an address below a size is one of the pages of that size: what
\* pagefault_handler() maps lies below p->sz.
LEMMA PageBelow ==
  ASSUME NEW a \in Nat, NEW b \in Nat, a < b
  PROVE  PGROUNDDOWN(a) \in 0..(PGROUNDUP(b) - 1)
<1> DEFINE q == PGROUNDDOWN(a)
<1>1. PGSIZE \in Nat /\ PGSIZE >= 1
  BY Sizes
<1>2. q \in Nat /\ q * PGSIZE <= a
  BY <1>1 DEF PGROUNDDOWN
<1> HIDE DEF q
<1>3. q * PGSIZE \in Nat
  BY <1>1, <1>2
<1>4. ~ q >= PGROUNDUP(b)
  BY <1>2, <1>3, Round
<1> QED
  BY <1>2, <1>4, Round DEF q

-----------------------------------------------------------------------------
(* Page tables *)

\* What walk() allocates: at most the two pages that are missing, and no more
\* than there are.
LEMMA Walk ==
  ASSUME NEW t, IsFiniteSet(t), NEW f \in Nat, NEW v \in UserPages
  PROVE  /\ t \subseteq walk(t, f, v) /\ walk(t, f, v) \subseteq t \cup {MidTab, LeafTab(v)}
         /\ IsFiniteSet(walk(t, f, v))
         /\ Cardinality(walk(t, f, v)) - Cardinality(t) \in 0..f
<1> DEFINE l == LeafTab(v)
           missing == {MidTab, l} \ t
           Upto(x) == {y \in missing : y <= x}
           new == {x \in missing : Cardinality(Upto(x)) <= f}
<1>1. l \in Nat /\ l > MidTab
  BY Sizes DEF LeafTab, MidTab, UserPages
<1> HIDE DEF l
<1>2. walk(t, f, v) = t \cup new
  BY DEF walk, l
<1>3. IsFiniteSet(missing) /\ new \subseteq missing
  <2>1. IsFiniteSet({MidTab} \cup {l})
    BY FS_Singleton, FS_AddElement
  <2>2. missing \subseteq {MidTab} \cup {l}
    OBVIOUS
  <2> QED
    BY <2>1, <2>2, FS_Subset
<1>4. IsFiniteSet(new) /\ t \cap new = {}
  BY <1>3, FS_Subset
<1>7. MidTab \in missing => Upto(MidTab) = {MidTab}
  BY <1>1 DEF MidTab
<1>8. /\ l \in new => /\ new \subseteq Upto(l) /\ Upto(l) \subseteq missing
                      /\ Cardinality(Upto(l)) <= f
      /\ missing \subseteq {MidTab, l}
  BY <1>1 DEF MidTab
<1>9. \A x \in new : x \in missing /\ Cardinality(Upto(x)) <= f
  OBVIOUS
<1> HIDE DEF new, missing, Upto
<1>5. /\ IsFiniteSet(t \cup new) /\ Cardinality(new) \in Nat /\ Cardinality(t) \in Nat
      /\ Cardinality(t \cup new) = Cardinality(t) + Cardinality(new)
  BY <1>4, FS_Union, FS_EmptySet, FS_CardinalityType, SMTT(30)
<1>6. Cardinality(new) <= f
  <2>1. CASE new = {}
    BY <2>1, FS_EmptySet
  <2>2. CASE new # {} /\ l \in new
    <3>1. new \subseteq Upto(l) /\ IsFiniteSet(Upto(l)) /\ Cardinality(Upto(l)) <= f
      BY <1>8, <1>3, <2>2, FS_Subset
    <3>2. Cardinality(new) <= Cardinality(Upto(l)) /\ Cardinality(Upto(l)) \in Nat
      BY <3>1, FS_Subset, FS_CardinalityType
    <3> QED
      BY <1>5, <3>1, <3>2
  <2>3. CASE new # {} /\ l \notin new
    <3>1. new = Upto(MidTab) /\ Cardinality(Upto(MidTab)) <= f
      BY <1>7, <1>8, <1>9, <1>3, <2>3
    <3> QED
      BY <3>1
  <2> QED
    BY <2>1, <2>2, <2>3
<1> QED
  BY <1>2, <1>3, <1>5, <1>6, <1>8 DEF l

\* What a page mapped at v costs, and that a failure costs no page but those of
\* the page table.
LEMMA MapNewCost ==
  ASSUME NEW t, IsFiniteSet(t), NEW f \in Nat, NEW v \in UserPages
  PROVE  LET m == MapNew(t, f, v) IN
         /\ m.ok \in BOOLEAN /\ m.free \in Nat /\ IsFiniteSet(m.tabs)
         /\ t \subseteq m.tabs /\ m.tabs \subseteq t \cup {MidTab, LeafTab(v)}
         /\ m.free + Cardinality(m.tabs) + (IF m.ok THEN 1 ELSE 0) = f + Cardinality(t)
<1> DEFINE w == walk(t, f - 1, v)
<1>1. CASE f = 0
  BY <1>1, FS_CardinalityType DEF MapNew
<1>2. CASE f > 0
  <2>1. f - 1 \in Nat
    BY <1>2
  <2>2. /\ t \subseteq w /\ w \subseteq t \cup {MidTab, LeafTab(v)} /\ IsFiniteSet(w)
        /\ Cardinality(w) - Cardinality(t) \in 0..(f - 1)
        /\ Cardinality(w) \in Nat /\ Cardinality(t) \in Nat
    BY <2>1, Walk, FS_CardinalityType
  <2> HIDE DEF w
  <2>3. MapNew(t, f, v) = [ok |-> f > 0 /\ LeafTab(v) \in w, tabs |-> w,
          free |-> f - (Cardinality(w) - Cardinality(t))
                     - (IF f > 0 /\ LeafTab(v) \in w THEN 1 ELSE 0)]
    BY <1>2 DEF MapNew, w
  <2> DEFINE n == Cardinality(w)
             c == Cardinality(t)
             b == LeafTab(v) \in w
  <2>4. n \in Nat /\ c \in Nat /\ n - c \in 0..(f - 1)
    BY <2>2
  <2> HIDE DEF n, c, b
  <2>5. /\ f - (n - c) - (IF f > 0 /\ b THEN 1 ELSE 0) \in Nat
        /\ f - (n - c) - (IF f > 0 /\ b THEN 1 ELSE 0) + n + (IF f > 0 /\ b THEN 1 ELSE 0) = f + c
    BY <1>2, <2>4
  <2> DEFINE m == MapNew(t, f, v)
  <2>6. /\ m.ok = (f > 0 /\ b) /\ m.tabs = w
        /\ m.free = f - (n - c) - (IF f > 0 /\ b THEN 1 ELSE 0)
    BY <2>3 DEF n, c, b
  <2>7. /\ m.free \in Nat
        /\ m.free + Cardinality(m.tabs) + (IF m.ok THEN 1 ELSE 0) = f + Cardinality(t)
    BY <2>5, <2>6 DEF n, c
  <2> QED
    BY <2>2, <2>6, <2>7
<1> QED
  BY <1>1, <1>2

\* mappages() adds one entry to a page table.
LEMMA Maps ==
  ASSUME NEW t, IsTable(t), NEW v \in UserPages, NEW e \in Entries
  PROVE  /\ IsTable(mappages(t, v, e)) /\ DOMAIN mappages(t, v, e) = DOMAIN t \cup {v}
         /\ \A x \in DOMAIN mappages(t, v, e) :
              mappages(t, v, e)[x] = IF x = v THEN e ELSE t[x]
  BY DEF mappages, IsTable

\* uvmunmap() leaves the entries outside its range as they were.
LEMMA Unmaps ==
  ASSUME NEW t, IsTable(t), NEW a \in Nat, NEW n \in Int
  PROVE  /\ IsTable(uvmunmap(t, a, n)) /\ DOMAIN uvmunmap(t, a, n) = DOMAIN t \ (a..(a + n - 1))
         /\ \A v \in DOMAIN uvmunmap(t, a, n) : uvmunmap(t, a, n)[v] = t[v]
  BY DEF uvmunmap, RestrictDomain, Restrict, IsTable

\* Tables and what is mapped are finite.
LEMMA Finite ==
  /\ IsFiniteSet(AllTabs) /\ IsFiniteSet(UserPages)
  /\ \A t : IsTable(t) => IsFiniteSet(DOMAIN t)
<1>1. PGROUNDUP(SZMAX) \in Nat /\ REGION \in Nat \ {0}
  BY Round, Sizes
<1> DEFINE b == PGROUNDUP(SZMAX) + 2
<1>2. UserPages = 0..b /\ b \in Nat
  BY <1>1 DEF UserPages
<1> HIDE DEF b
<1>3. \A v \in UserPages : LeafTab(v) \in 0..(b + 4)
  BY <1>1, <1>2 DEF LeafTab
<1>4. AllTabs \subseteq 0..(b + 4)
  BY <1>2, <1>3 DEF AllTabs, RootTabs, MidTab
<1>5. IsFiniteSet(0..(b + 4)) /\ IsFiniteSet(UserPages)
  BY <1>2, FS_Interval
<1> QED
  BY <1>4, <1>5, FS_Subset DEF IsTable

-----------------------------------------------------------------------------
(* The pages processes hold *)

HeldSet(k, a, d, t, e, n) ==
  ({"slot"} \X (1..k)) \cup ({"arg"} \X (1..a)) \cup ({"page"} \X d) \cup ({"table"} \X t)
    \cup ({"new page"} \X e) \cup ({"new table"} \X n)

\* Tagging the pages of a set, to tell the parts of a process apart, keeps their number.
LEMMA Tagged ==
  ASSUME NEW x, NEW S, IsFiniteSet(S)
  PROVE  IsFiniteSet({x} \X S) /\ Cardinality({x} \X S) = Cardinality(S) /\ Cardinality(S) \in Nat
<1>1. IsFiniteSet({x}) /\ Cardinality({x}) = 1 /\ Cardinality(S) \in Nat
  BY FS_Singleton, FS_CardinalityType
<1>2. IsFiniteSet({x} \X S) /\ Cardinality({x} \X S) = 1 * Cardinality(S)
  BY <1>1, FS_Product
<1> QED
  BY <1>1, <1>2

\* Parts that share no page are counted apart.
LEMMA Disjoint ==
  ASSUME NEW S, NEW T, IsFiniteSet(S), IsFiniteSet(T), S \cap T = {}
  PROVE  IsFiniteSet(S \cup T) /\ Cardinality(S \cup T) = Cardinality(S) + Cardinality(T)
<1>1. Cardinality(S \cap T) = 0 /\ Cardinality(S) \in Nat /\ Cardinality(T) \in Nat
  BY FS_EmptySet, FS_CardinalityType
<1>2. /\ IsFiniteSet(S \cup T)
      /\ Cardinality(S \cup T) = Cardinality(S) + Cardinality(T) - Cardinality(S \cap T)
  BY FS_Union
<1> QED
  BY <1>1, <1>2

\* A process holds as many pages as its parts do.
LEMMA HeldCount ==
  ASSUME NEW k \in Nat, NEW a \in Nat, NEW d, NEW t, NEW e, NEW n,
         IsFiniteSet(d), IsFiniteSet(t), IsFiniteSet(e), IsFiniteSet(n)
  PROVE  /\ IsFiniteSet(HeldSet(k, a, d, t, e, n))
         /\ Cardinality(HeldSet(k, a, d, t, e, n))
              = k + a + Cardinality(d) + Cardinality(t) + Cardinality(e) + Cardinality(n)
<1> DEFINE A == {"slot"} \X (1..k)
           B == {"arg"} \X (1..a)
           C == {"page"} \X d
           D == {"table"} \X t
           E == {"new page"} \X e
           F == {"new table"} \X n
<1>1. IsFiniteSet(1..k) /\ Cardinality(1..k) = k /\ IsFiniteSet(1..a) /\ Cardinality(1..a) = a
  BY FS_Interval
<1>2. /\ IsFiniteSet(A) /\ Cardinality(A) = k
      /\ IsFiniteSet(B) /\ Cardinality(B) = a
  BY <1>1, Tagged
<1>3. /\ IsFiniteSet(C) /\ Cardinality(C) = Cardinality(d) /\ Cardinality(d) \in Nat
      /\ IsFiniteSet(D) /\ Cardinality(D) = Cardinality(t) /\ Cardinality(t) \in Nat
  BY Tagged
<1>4. /\ IsFiniteSet(E) /\ Cardinality(E) = Cardinality(e) /\ Cardinality(e) \in Nat
      /\ IsFiniteSet(F) /\ Cardinality(F) = Cardinality(n) /\ Cardinality(n) \in Nat
  BY Tagged
<1>5. /\ A \cap B = {} /\ (A \cup B) \cap C = {} /\ (A \cup B \cup C) \cap D = {}
      /\ (A \cup B \cup C \cup D) \cap E = {} /\ (A \cup B \cup C \cup D \cup E) \cap F = {}
  OBVIOUS
<1>6. HeldSet(k, a, d, t, e, n) = A \cup B \cup C \cup D \cup E \cup F
  BY DEF HeldSet
<1> DEFINE G == A \cup B
           H == G \cup C
           I == H \cup D
           J == I \cup E
<1>7. /\ A \cap B = {} /\ G \cap C = {} /\ H \cap D = {} /\ I \cap E = {} /\ J \cap F = {}
      /\ HeldSet(k, a, d, t, e, n) = J \cup F
  BY <1>5, <1>6
<1> HIDE DEF A, B, C, D, E, F
<1>8. IsFiniteSet(G) /\ Cardinality(G) = k + a
  BY <1>2, <1>7, Disjoint
<1> HIDE DEF G
<1>9. IsFiniteSet(H) /\ Cardinality(H) = k + a + Cardinality(d)
  <2>1. IsFiniteSet(H) /\ Cardinality(H) = Cardinality(G) + Cardinality(C)
    BY <1>3, <1>7, <1>8, Disjoint
  <2> QED
    BY <1>3, <1>8, <2>1
<1> HIDE DEF H
<1>10. IsFiniteSet(I) /\ Cardinality(I) = k + a + Cardinality(d) + Cardinality(t)
  <2>1. IsFiniteSet(I) /\ Cardinality(I) = Cardinality(H) + Cardinality(D)
    BY <1>3, <1>7, <1>9, Disjoint
  <2> QED
    BY <1>3, <1>9, <2>1
<1> HIDE DEF I
<1>11. IsFiniteSet(J) /\ Cardinality(J) = k + a + Cardinality(d) + Cardinality(t) + Cardinality(e)
  <2>1. IsFiniteSet(J) /\ Cardinality(J) = Cardinality(I) + Cardinality(E)
    BY <1>4, <1>7, <1>10, Disjoint
  <2> QED
    BY <1>3, <1>4, <1>10, <2>1
<1> HIDE DEF J
<1>12. IsFiniteSet(J \cup F) /\ Cardinality(J \cup F) = Cardinality(J) + Cardinality(F)
  BY <1>4, <1>7, <1>11, Disjoint
<1> QED
  BY <1>3, <1>4, <1>7, <1>11, <1>12

\* All pages that processes P hold, when p holds H[p].
Total(H, P) == UNION {{q} \X H[q] : q \in P}

\* When one process gets or loses pages, so does the total.
LEMMA TotalMoves ==
  ASSUME NEW P, IsFiniteSet(P), NEW p \in P, NEW H, NEW K,
         \A q \in P : IsFiniteSet(H[q]) /\ IsFiniteSet(K[q]),
         \A q \in P \ {p} : K[q] = H[q]
  PROVE  /\ IsFiniteSet(Total(H, P)) /\ IsFiniteSet(Total(K, P))
         /\ Cardinality(H[p]) \in Nat /\ Cardinality(K[p]) \in Nat
         /\ Cardinality(Total(K, P)) + Cardinality(H[p])
              = Cardinality(Total(H, P)) + Cardinality(K[p])
<1> DEFINE Q == P \ {p}
           R == {{q} \X H[q] : q \in Q}
           f == [q \in Q |-> {q} \X H[q]]
<1>1. IsFiniteSet(Q)
  BY FS_Difference
<1>2. f \in Surjection(Q, R)
  BY DEF Surjection
<1>3. IsFiniteSet(R) /\ \A S \in R : IsFiniteSet(S)
  <2>1. IsFiniteSet(R)
    BY <1>1, <1>2, FS_Surjection
  <2>2. ASSUME NEW q \in Q PROVE IsFiniteSet({q} \X H[q])
    BY Tagged
  <2> QED
    BY <2>1, <2>2
<1>4. IsFiniteSet(UNION R)
  BY <1>3, FS_UNION
<1>5. /\ Total(H, P) = (UNION R) \cup ({p} \X H[p])
      /\ Total(K, P) = (UNION R) \cup ({p} \X K[p])
      /\ (UNION R) \cap ({p} \X H[p]) = {} /\ (UNION R) \cap ({p} \X K[p]) = {}
  BY DEF Total
<1> HIDE DEF R
<1>6. /\ IsFiniteSet({p} \X H[p]) /\ Cardinality({p} \X H[p]) = Cardinality(H[p])
      /\ IsFiniteSet({p} \X K[p]) /\ Cardinality({p} \X K[p]) = Cardinality(K[p])
      /\ Cardinality(H[p]) \in Nat /\ Cardinality(K[p]) \in Nat /\ Cardinality(UNION R) \in Nat
  BY <1>4, Tagged, FS_CardinalityType
<1> DEFINE V == UNION R
           X == {p} \X H[p]
           Y == {p} \X K[p]
<1>7. /\ IsFiniteSet(V) /\ IsFiniteSet(X) /\ IsFiniteSet(Y) /\ V \cap X = {} /\ V \cap Y = {}
      /\ Cardinality(X) = Cardinality(H[p]) /\ Cardinality(Y) = Cardinality(K[p])
      /\ Cardinality(V) \in Nat
      /\ Total(H, P) = V \cup X /\ Total(K, P) = V \cup Y
  BY <1>4, <1>5, <1>6
<1> HIDE DEF V, X, Y
<1>8. /\ Cardinality(V \cup X) = Cardinality(V) + Cardinality(X)
      /\ Cardinality(V \cup Y) = Cardinality(V) + Cardinality(Y)
  BY <1>7, Disjoint
<1>9. /\ IsFiniteSet(V \cup X) /\ IsFiniteSet(V \cup Y)
      /\ Cardinality(V \cup Y) + Cardinality(H[p]) = Cardinality(V \cup X) + Cardinality(K[p])
  <2>1. IsFiniteSet(V \cup X) /\ IsFiniteSet(V \cup Y)
    BY <1>7, FS_Union
  <2> QED
    BY <1>6, <1>7, <1>8, <2>1
<1> QED
  BY <1>6, <1>7, <1>9

-----------------------------------------------------------------------------
(* A step of one process *)

\* Nothing of process r differs.
Same(r) ==
  /\ kp'[r] = kp[r] /\ pc'[r] = pc[r] /\ sz'[r] = sz[r] /\ pte'[r] = pte[r]
  /\ tabs'[r] = tabs[r] /\ np'[r] = np[r] /\ i'[r] = i[r] /\ args'[r] = args[r]
  /\ img'[r] = img[r] /\ nsz'[r] = nsz[r] /\ npte'[r] = npte[r] /\ ntabs'[r] = ntabs[r]
  /\ guard'[r] = guard[r]

\* The number of pages process p holds.
Count(p) == kp[p] + args[p] + Cardinality(DOMAIN pte[p]) + Cardinality(tabs[p])
              + Cardinality(DOMAIN npte[p]) + Cardinality(ntabs[p])

\* What a process holds is finite and as many pages as Count says, before a step and
\* after it.
LEMMA HeldIs ==
  ASSUME NEW p \in Procs, Typed(p), Typed(p)'
  PROVE  /\ IsFiniteSet(Held(p)) /\ Cardinality(Held(p)) = Count(p)
         /\ IsFiniteSet(Held(p)') /\ Cardinality(Held(p)') = Count(p)'
<1>1. /\ kp[p] \in Nat /\ args[p] \in Nat /\ IsFiniteSet(DOMAIN pte[p]) /\ IsFiniteSet(tabs[p])
      /\ IsFiniteSet(DOMAIN npte[p]) /\ IsFiniteSet(ntabs[p])
  <2>1. kp[p] \in Nat /\ args[p] \in Nat
    BY Sizes DEF Typed
  <2> QED
    BY <2>1, Finite, FS_Subset DEF Typed
<1>2. /\ kp'[p] \in Nat /\ args'[p] \in Nat /\ IsFiniteSet(DOMAIN pte'[p])
      /\ IsFiniteSet(tabs'[p]) /\ IsFiniteSet(DOMAIN npte'[p]) /\ IsFiniteSet(ntabs'[p])
  <2>1. kp'[p] \in Nat /\ args'[p] \in Nat
    BY Sizes DEF Typed
  <2> QED
    BY <2>1, Finite, FS_Subset DEF Typed
<1>3. /\ Held(p) = HeldSet(kp[p], args[p], DOMAIN pte[p], tabs[p], DOMAIN npte[p], ntabs[p])
      /\ Held(p)' = HeldSet(kp'[p], args'[p], DOMAIN pte'[p], tabs'[p], DOMAIN npte'[p], ntabs'[p])
  BY DEF Held, HeldSet
<1> QED
  BY <1>1, <1>2, <1>3, HeldCount DEF Count

\* What does not differ is as it was.
LEMMA SameKept ==
  ASSUME VmIInv, NEW r \in Procs, Same(r)
  PROVE  Local(r)' /\ Held(r)' = Held(r)
<1>1. Typed(r)' /\ Blank(r)' /\ Covered(r)' /\ Guarded(r)'
  BY DEF VmIInv, Local, Same, Typed, Blank, Covered, Guarded
<1>2. Building(r)'
  BY DEF VmIInv, Local, Same, Building, NewSize
<1>3. Held(r)' = Held(r)
  BY DEF Held, Same
<1> QED
  BY <1>1, <1>2, <1>3 DEF Local

\* A step of process p, and of the child q that it is making, keeps the invariant
\* if it does so for the two and if the pages that h, one of them, gives or takes
\* are in the balance.
LEMMA StepOfTwo ==
  ASSUME VmIInv, NEW p \in Procs, NEW q \in Procs, NEW h \in {p, q},
         Shapes', Local(p)', Local(q)', Forking(p)', Forking(q)',
         \A r \in Procs \ {p, q} : Same(r),
         \A r \in Procs \ {p} : pc[r] = "fork" => np[r] \notin {p, q},
         \A r \in Procs \ {p} : pc[r] = "fork" /\ pc'[p] = "fork" => np'[p] # np[r],
         pc'[q] # "fork" \/ q = p,
         \A r \in {p, q} \ {h} : Held(r)' = Held(r),
         free' \in Nat, free' + Count(h)' = free + Count(h), TeardownComplete'
  PROVE  VmIInv'
<1>1. \A r \in Procs : Local(r)' /\ (r # h => Held(r)' = Held(r))
  BY SameKept
<1>2. ASSUME NEW r \in Procs \ {p, q} PROVE Forking(r)'
  <2>1. CASE pc[r] = "fork"
    <3>1. np[r] \in Procs /\ np[r] \notin {p, q} /\ Same(np[r]) /\ Same(r)
      BY <2>1 DEF VmIInv, Forking
    <3> QED
      BY <3>1 DEF VmIInv, Forking, Same
  <2>2. CASE pc[r] # "fork"
    BY <2>2 DEF Forking, Same
  <2> QED
    BY <2>1, <2>2
<1>3. OneParent'
  <2> SUFFICES ASSUME NEW r \in Procs, NEW s \in Procs, pc'[r] = "fork", pc'[s] = "fork",
                      np'[r] = np'[s]
               PROVE  r = s
    BY DEF OneParent
  <2>1. \A t \in Procs \ {p} : pc'[t] = "fork" => pc[t] = "fork" /\ np'[t] = np[t]
    BY DEF Same
  <2> QED
    BY <2>1 DEF VmIInv, OneParent
<1>4. FramesConserved'
  <2> DEFINE H == [r \in Procs |-> Held(r)]
             K == [r \in Procs |-> Held(r)']
  <2>1. IsFiniteSet(Procs)
    BY FS_Interval, Sizes DEF Procs
  <2>2. ASSUME NEW r \in Procs
        PROVE  /\ IsFiniteSet(H[r]) /\ Cardinality(H[r]) = Count(r)
               /\ IsFiniteSet(K[r]) /\ Cardinality(K[r]) = Count(r)'
    BY <1>1, HeldIs DEF VmIInv, Local
  <2>3. \A r \in Procs \ {h} : K[r] = H[r]
    BY <1>1
  <2>4. /\ UNION {{r} \X Held(r) : r \in Procs} = Total(H, Procs)
        /\ UNION {{r} \X Held(r)' : r \in Procs} = Total(K, Procs)
    BY DEF Total
  <2>5. /\ free + Cardinality(Total(H, Procs)) = NFRAMES
        /\ FramesConserved' <=> free' + Cardinality(Total(K, Procs)) = NFRAMES
    BY <2>4 DEF VmIInv, FramesConserved
  <2>6. h \in Procs /\ \A r \in Procs : IsFiniteSet(H[r]) /\ IsFiniteSet(K[r])
    BY <2>2
  <2>7. Cardinality(H[h]) = Count(h) /\ Cardinality(K[h]) = Count(h)'
    BY <2>2, <2>6
  <2> HIDE DEF H, K
  <2>8. /\ IsFiniteSet(Total(H, Procs)) /\ IsFiniteSet(Total(K, Procs))
        /\ Cardinality(H[h]) \in Nat /\ Cardinality(K[h]) \in Nat
        /\ Cardinality(Total(K, Procs)) + Cardinality(H[h])
             = Cardinality(Total(H, Procs)) + Cardinality(K[h])
    BY ONLY <2>1, <2>3, <2>6, TotalMoves
  <2>9. Cardinality(Total(H, Procs)) \in Nat /\ Cardinality(Total(K, Procs)) \in Nat
    BY <2>8, FS_CardinalityType
  <2> QED
    BY <2>5, <2>7, <2>8, <2>9 DEF VmIInv
<1>5. \A r \in Procs : Forking(r)'
  BY <1>2
<1> QED
  BY <1>1, <1>3, <1>4, <1>5 DEF VmIInv

\* The same for a step of process p alone, which makes no child.
LEMMA StepOfOne ==
  ASSUME VmIInv, NEW p \in Procs, pc[p] # "embryo", pc'[p] # "fork",
         Shapes', Local(p)', \A r \in Procs \ {p} : Same(r),
         free' \in Nat, free' + Count(p)' = free + Count(p), TeardownComplete'
  PROVE  VmIInv'
<1>1. \A r \in Procs : pc[r] = "fork" => np[r] # p
  BY DEF VmIInv, Forking
<1>2. Forking(p)'
  BY DEF Forking
<1> QED
  BY <1>1, <1>2, StepOfTwo

-----------------------------------------------------------------------------
(* User memory *)

\* What every process has.
LEMMA Mine ==
  ASSUME VmIInv, NEW p \in Procs
  PROVE  /\ Local(p) /\ Typed(p) /\ Blank(p) /\ Covered(p) /\ Building(p) /\ Guarded(p)
         /\ IsFiniteSet(DOMAIN pte[p]) /\ IsFiniteSet(tabs[p])
         /\ IsFiniteSet(DOMAIN npte[p]) /\ IsFiniteSet(ntabs[p])
         /\ Cardinality(DOMAIN pte[p]) \in Nat /\ Cardinality(tabs[p]) \in Nat
         /\ Cardinality(DOMAIN npte[p]) \in Nat /\ Cardinality(ntabs[p]) \in Nat
         /\ kp[p] \in Nat /\ args[p] \in Nat /\ free \in Nat
<1>1. Local(p) /\ Typed(p) /\ Blank(p) /\ Covered(p) /\ Building(p) /\ Guarded(p) /\ free \in Nat
  BY DEF VmIInv, Local
<1>2. /\ kp[p] \in Nat /\ args[p] \in Nat /\ IsFiniteSet(DOMAIN pte[p]) /\ IsFiniteSet(tabs[p])
      /\ IsFiniteSet(DOMAIN npte[p]) /\ IsFiniteSet(ntabs[p])
  BY <1>1, Finite, FS_Subset, Sizes DEF Typed
<1> QED
  BY <1>1, <1>2, FS_CardinalityType

\* A step of the program, a page fault, or a copy in a system call: it changes the
\* page table, perhaps the size, and may be the end of the process.
LEMMA MemoryStep ==
  ASSUME VmIInv, NEW p \in Procs, pc[p] \in {"user", "args"},
         pc'[p] = pc[p] \/ (pc[p] = "user" /\ pc'[p] = "zombie"),
         Shapes', \A r \in Procs \ {p} : Same(r),
         /\ kp'[p] = kp[p] /\ np'[p] = np[p] /\ i'[p] = i[p] /\ args'[p] = args[p]
         /\ img'[p] = img[p] /\ nsz'[p] = nsz[p] /\ npte'[p] = npte[p] /\ ntabs'[p] = ntabs[p],
         sz'[p] \in Nat, PGROUNDUP(sz'[p]) <= PGROUNDUP(SZMAX) + 2,
         IsTable(pte'[p]), DOMAIN pte'[p] \subseteq 0..(PGROUNDUP(sz'[p]) - 1),
         guard'[p] \in {guard[p], NoGuard}, Guarded(p)', tabs'[p] \subseteq AllTabs,
         free' \in Nat, TeardownComplete',
         free' + Cardinality(DOMAIN pte'[p]) + Cardinality(tabs'[p])
           = free + Cardinality(DOMAIN pte[p]) + Cardinality(tabs[p])
  PROVE  VmIInv'
<1>1. Typed(p)'
  BY Mine DEF Typed, VmPcs
<1>2. Blank(p)' /\ Covered(p)' /\ Building(p)'
  BY Mine DEF Blank, Covered, Building
<1>3. Cardinality(DOMAIN pte'[p]) \in Nat /\ Cardinality(tabs'[p]) \in Nat
  BY Finite, FS_Subset, FS_CardinalityType
<1>4. free' + Count(p)' = free + Count(p)
  BY <1>3, Mine DEF Count
<1> QED
  BY <1>1, <1>2, <1>4, StepOfOne DEF Local

\* A process that dies is a zombie; the death of init stops the kernel.
LEMMA DiesStep ==
  ASSUME VmIInv, NEW p \in Procs, pc[p] = "user", Dies(p), panic = "none"
  PROVE  /\ pc' = [r \in Procs |-> pc'[r]] /\ \A r \in Procs \ {p} : pc'[r] = pc[r]
         /\ pc'[p] \in {"user", "zombie"} /\ TeardownComplete'
  BY DEF VmIInv, Shapes, Dies, TeardownComplete

\* The program stores a word.
LEMMA StoreStep ==
  ASSUME VmIInv, NEW p \in Procs, NEW v \in UserPages, NEW w \in Words, Store(p, v, w)
  PROVE  VmIInv'
<1> DEFINE t == pte[p]
           t2 == [t EXCEPT ![v].word = w]
<1>1. pte'[p] = t2 /\ pc[p] = "user" /\ v \in DOMAIN t
  BY DEF Store, Running, VmIInv, Shapes
<1>2. IsTable(t) /\ DOMAIN t2 = DOMAIN t /\ \A x \in DOMAIN t : t2[x].u = t[x].u
  <2>1. IsTable(t)
    BY Mine DEF Typed
  <2> HIDE DEF t
  <2> QED
    BY <2>1 DEF IsTable, Entries
<1>3. IsTable(t2)
  BY <1>1, <1>2 DEF IsTable, Entries, Data
<1>4. Shapes' /\ \A r \in Procs \ {p} : Same(r)
  BY DEF Store, VmIInv, Shapes, Same, exec
<1>5. /\ free' = free /\ tabs'[p] = tabs[p] /\ TeardownComplete' /\ pc'[p] = pc[p]
      /\ kp'[p] = kp[p] /\ np'[p] = np[p] /\ i'[p] = i[p] /\ args'[p] = args[p]
      /\ img'[p] = img[p] /\ nsz'[p] = nsz[p] /\ npte'[p] = npte[p] /\ ntabs'[p] = ntabs[p]
      /\ sz'[p] = sz[p] /\ guard'[p] = guard[p]
  BY DEF Store, exec, VmIInv, TeardownComplete
<1>6. Guarded(p)'
  BY <1>1, <1>2, <1>5, Mine DEF Guarded
<1>7. /\ sz[p] \in Nat /\ PGROUNDUP(sz[p]) <= PGROUNDUP(SZMAX) + 2 /\ tabs[p] \subseteq AllTabs
      /\ DOMAIN t \subseteq 0..(PGROUNDUP(sz[p]) - 1)
  BY <1>1, Mine DEF Typed, Covered
<1> HIDE DEF t2
<1> QED
  BY <1>1, <1>2, <1>3, <1>4, <1>5, <1>6, <1>7, Mine, MemoryStep

\* A page is mapped at v, which was not.
LEMMA MappedStep ==
  ASSUME VmIInv, NEW p \in Procs, pc[p] \in {"user", "args"}, NEW v, NEW e \in Entries,
         v \notin DOMAIN pte[p], v \in 0..(PGROUNDUP(sz[p]) - 1),
         free' = MapNew(tabs[p], free, v).free,
         tabs' = [tabs EXCEPT ![p] = MapNew(tabs[p], free, v).tabs],
         pte' = IF MapNew(tabs[p], free, v).ok THEN [pte EXCEPT ![p] = mappages(@, v, e)] ELSE pte,
         pc'[p] = pc[p] \/ (pc[p] = "user" /\ pc'[p] = "zombie"),
         pc' = [r \in Procs |-> pc'[r]], \A r \in Procs \ {p} : pc'[r] = pc[r],
         UNCHANGED <<kp, sz, np, i, exec, guard>>, TeardownComplete'
  PROVE  VmIInv'
<1> DEFINE m == MapNew(tabs[p], free, v)
<1>1. /\ Typed(p) /\ IsTable(pte[p]) /\ tabs[p] \subseteq AllTabs
      /\ sz[p] \in Nat /\ PGROUNDUP(sz[p]) <= PGROUNDUP(SZMAX) + 2
      /\ DOMAIN pte[p] \subseteq 0..(PGROUNDUP(sz[p]) - 1)
  BY Mine DEF Typed, Covered
<1>2. v \in UserPages /\ LeafTab(v) \in AllTabs /\ MidTab \in AllTabs
  <2>1. PGROUNDUP(sz[p]) \in Nat /\ PGROUNDUP(SZMAX) \in Nat
    BY <1>1, Round, Sizes
  <2>2. v \in UserPages
    BY <1>1, <2>1 DEF UserPages
  <2> QED
    BY <2>2 DEF AllTabs
<1>3. /\ m.ok \in BOOLEAN /\ m.free \in Nat /\ IsFiniteSet(m.tabs) /\ m.tabs \subseteq AllTabs
      /\ m.free + Cardinality(m.tabs) + (IF m.ok THEN 1 ELSE 0) = free + Cardinality(tabs[p])
  <2>1. IsFiniteSet(tabs[p]) /\ free \in Nat
    BY Mine
  <2>2. /\ m.ok \in BOOLEAN /\ m.free \in Nat /\ IsFiniteSet(m.tabs)
        /\ m.tabs \subseteq tabs[p] \cup {MidTab, LeafTab(v)}
        /\ m.free + Cardinality(m.tabs) + (IF m.ok THEN 1 ELSE 0) = free + Cardinality(tabs[p])
    BY <1>2, <2>1, MapNewCost
  <2> QED
    BY <1>1, <1>2, <2>2
<1> HIDE DEF m
<1>4. free' = m.free /\ tabs'[p] = m.tabs
      /\ pte'[p] = IF m.ok THEN mappages(pte[p], v, e) ELSE pte[p]
  BY DEF m, VmIInv, Shapes
<1>5. Shapes' /\ \A r \in Procs \ {p} : Same(r)
  BY DEF VmIInv, Shapes, Same, exec
<1>6. /\ kp'[p] = kp[p] /\ np'[p] = np[p] /\ i'[p] = i[p] /\ args'[p] = args[p]
      /\ img'[p] = img[p] /\ nsz'[p] = nsz[p] /\ npte'[p] = npte[p] /\ ntabs'[p] = ntabs[p]
      /\ sz'[p] = sz[p] /\ guard'[p] = guard[p]
  BY DEF exec
<1>7. /\ IsTable(pte'[p]) /\ DOMAIN pte'[p] \subseteq 0..(PGROUNDUP(sz[p]) - 1)
      /\ \A x \in DOMAIN pte[p] : x \in DOMAIN pte'[p] /\ pte'[p][x] = pte[p][x]
      /\ DOMAIN pte'[p] = IF m.ok THEN DOMAIN pte[p] \cup {v} ELSE DOMAIN pte[p]
  BY <1>1, <1>2, <1>4, Maps, SMTT(30)
<1>8. Guarded(p)'
  BY <1>6, <1>7, Mine DEF Guarded
<1>9. Cardinality(DOMAIN pte'[p]) = Cardinality(DOMAIN pte[p]) + (IF m.ok THEN 1 ELSE 0)
  <2>1. IsFiniteSet(DOMAIN pte[p]) /\ Cardinality(DOMAIN pte[p]) \in Nat
    BY Mine
  <2>2. Cardinality(DOMAIN pte[p] \cup {v}) = Cardinality(DOMAIN pte[p]) + 1
    BY <2>1, FS_AddElement
  <2> QED
    BY <1>7, <2>1, <2>2
<1>10. free' + Cardinality(DOMAIN pte'[p]) + Cardinality(tabs'[p])
           = free + Cardinality(DOMAIN pte[p]) + Cardinality(tabs[p])
  <2>1. /\ Cardinality(DOMAIN pte[p]) \in Nat /\ Cardinality(tabs[p]) \in Nat
        /\ Cardinality(m.tabs) \in Nat /\ free \in Nat
    BY <1>3, Mine, FS_CardinalityType
  <2> QED
    BY <1>3, <1>4, <1>9, <2>1
<1> QED
  BY <1>1, <1>3, <1>4, <1>5, <1>6, <1>7, <1>8, <1>10, MemoryStep

\* Nothing but the place of p, and the balance is even.
LEMMA OnlyPc ==
  ASSUME VmIInv, NEW p \in Procs, pc[p] = "user", pc'[p] \in {"user", "zombie"},
         pc' = [r \in Procs |-> pc'[r]], \A r \in Procs \ {p} : pc'[r] = pc[r],
         UNCHANGED <<free, kp, sz, pte, tabs, np, i, exec, guard>>, TeardownComplete'
  PROVE  VmIInv'
<1>1. Shapes' /\ \A r \in Procs \ {p} : Same(r)
  BY DEF VmIInv, Shapes, Same, exec
<1>2. Guarded(p)'
  BY Mine DEF Guarded
<1>3. /\ kp'[p] = kp[p] /\ np'[p] = np[p] /\ i'[p] = i[p] /\ args'[p] = args[p]
      /\ img'[p] = img[p] /\ nsz'[p] = nsz[p] /\ npte'[p] = npte[p] /\ ntabs'[p] = ntabs[p]
      /\ sz'[p] = sz[p] /\ guard'[p] = guard[p] /\ free' = free /\ tabs'[p] = tabs[p]
      /\ pte'[p] = pte[p]
  BY DEF exec
<1>4. /\ Typed(p) /\ IsTable(pte[p]) /\ tabs[p] \subseteq AllTabs
      /\ sz[p] \in Nat /\ PGROUNDUP(sz[p]) <= PGROUNDUP(SZMAX) + 2
      /\ DOMAIN pte[p] \subseteq 0..(PGROUNDUP(sz[p]) - 1)
  BY Mine DEF Typed, Covered
<1> QED
  BY <1>1, <1>2, <1>3, <1>4, Mine, MemoryStep

\* usertrap() and pagefault_handler(): a page is mapped below the size, or the
\* process dies.
LEMMA PageFaultStep ==
  ASSUME VmIInv, NEW p \in Procs, NEW va \in 0..SZMAX, NEW sp \in 0..SZMAX, PageFault(p, va, sp)
  PROVE  VmIInv'
<1> DEFINE v == PGROUNDDOWN(va)
           m == MapNew(tabs[p], free, v)
           e == [u |-> TRUE, word |-> 0]
<1>1. panic = "none" /\ pc[p] = "user" /\ UNCHANGED <<kp, sz, np, i, exec, guard>>
  BY DEF PageFault, Running
<1>2. CASE free = 0 \/ va >= sz[p] \/ v < PGROUNDDOWN(sp)
  <2>1. Dies(p) /\ UNCHANGED <<free, pte, tabs>>
    BY <1>2 DEF PageFault
  <2> QED
    BY <1>1, <2>1, DiesStep, OnlyPc
<1>3. CASE ~ (free = 0 \/ va >= sz[p] \/ v < PGROUNDDOWN(sp)) /\ v \in DOMAIN pte[p]
  <2>1. panic' = "mappages: remap" /\ UNCHANGED <<free, pc, pte, tabs>>
    BY <1>3 DEF PageFault
  <2>2. TeardownComplete'
    BY <2>1 DEF TeardownComplete
  <2>3. pc' = [r \in Procs |-> pc'[r]]
    BY <2>1 DEF VmIInv, Shapes
  <2> QED
    BY <1>1, <2>1, <2>2, <2>3, OnlyPc
<1>4. CASE ~ (free = 0 \/ va >= sz[p] \/ v < PGROUNDDOWN(sp)) /\ v \notin DOMAIN pte[p]
  <2>1. /\ free' = m.free /\ tabs' = [tabs EXCEPT ![p] = m.tabs]
        /\ m.ok => pte' = [pte EXCEPT ![p] = mappages(@, v, e)] /\ UNCHANGED <<pc, panic>>
        /\ ~ m.ok => Dies(p) /\ UNCHANGED pte
    BY <1>4 DEF PageFault
  <2>2. va < sz[p] /\ sz[p] \in Nat /\ va \in Nat
    BY <1>4, Mine, Sizes DEF Typed
  <2>3. v \in 0..(PGROUNDUP(sz[p]) - 1) /\ e \in Entries
    BY <2>2, PageBelow, VmConstants DEF Entries, Data
  <2>4. /\ pc' = [r \in Procs |-> pc'[r]] /\ \A r \in Procs \ {p} : pc'[r] = pc[r]
        /\ pc'[p] \in {"user", "zombie"} /\ TeardownComplete'
    <3>1. CASE m.ok
      BY <1>1, <2>1, <3>1 DEF VmIInv, Shapes, TeardownComplete
    <3>2. CASE ~ m.ok
      BY <1>1, <2>1, <3>2, DiesStep
    <3> QED
      BY <3>1, <3>2
  <2>5. pte' = IF m.ok THEN [pte EXCEPT ![p] = mappages(@, v, e)] ELSE pte
    BY <2>1
  <2> HIDE DEF v, e
  <2> QED
    BY <1>1, <1>4, <2>1, <2>3, <2>4, <2>5, MappedStep
<1> QED
  BY <1>2, <1>3, <1>4

\* copyin(), copyout() and copyinstr(): a word of a page is written, or walkaddr()
\* maps a page.
LEMMA CopyUserStep ==
  ASSUME VmIInv, NEW p \in Procs, NEW v \in UserPages, NEW sp \in 0..SZMAX,
         NEW w \in Words \cup {NoWord}, CopyUser(p, v, sp, w)
  PROVE  VmIInv'
<1> DEFINE Copied(x) == IF w \in Words THEN w ELSE x
<1>1. /\ panic = "none" /\ pc[p] \in {"user", "args"}
      /\ UNCHANGED <<kp, pc, sz, np, i, exec, guard, panic>>
  BY DEF CopyUser
<1>2. CASE /\ v \in DOMAIN pte[p] /\ pte[p][v].u
           /\ pte' = [pte EXCEPT ![p][v].word = Copied(@)]
           /\ UNCHANGED <<free, tabs>>
  <2> DEFINE t == pte[p]
             t2 == [t EXCEPT ![v].word = Copied(@)]
  <2>1. pte'[p] = t2 /\ v \in DOMAIN t
    BY <1>2 DEF VmIInv, Shapes
  <2>2. IsTable(t) /\ DOMAIN t2 = DOMAIN t /\ \A x \in DOMAIN t : t2[x].u = t[x].u
    <3>1. IsTable(t)
      BY Mine DEF Typed
    <3> HIDE DEF t
    <3> QED
      BY <3>1 DEF IsTable, Entries
  <2>3. IsTable(t2)
    BY <2>1, <2>2 DEF IsTable, Entries, Data
  <2>4. Shapes' /\ \A r \in Procs \ {p} : Same(r)
    BY <1>1, <1>2 DEF VmIInv, Shapes, Same, exec
  <2>5. /\ free' = free /\ tabs'[p] = tabs[p] /\ TeardownComplete' /\ pc'[p] = pc[p]
        /\ kp'[p] = kp[p] /\ np'[p] = np[p] /\ i'[p] = i[p] /\ args'[p] = args[p]
        /\ img'[p] = img[p] /\ nsz'[p] = nsz[p] /\ npte'[p] = npte[p] /\ ntabs'[p] = ntabs[p]
        /\ sz'[p] = sz[p] /\ guard'[p] = guard[p]
    BY <1>1, <1>2 DEF exec, VmIInv, TeardownComplete
  <2>6. Guarded(p)'
    BY <2>1, <2>2, <2>5, Mine DEF Guarded
  <2>7. /\ sz[p] \in Nat /\ PGROUNDUP(sz[p]) <= PGROUNDUP(SZMAX) + 2 /\ tabs[p] \subseteq AllTabs
        /\ DOMAIN t \subseteq 0..(PGROUNDUP(sz[p]) - 1)
    BY <1>1, Mine DEF Typed, Covered
  <2> HIDE DEF t2
  <2> QED
    BY <1>1, <2>1, <2>2, <2>3, <2>4, <2>5, <2>6, <2>7, Mine, MemoryStep
<1>3. CASE /\ LazyByWalkaddr(p, v, sp) /\ free' = MapNew(tabs[p], free, v).free
           /\ tabs' = [tabs EXCEPT ![p] = MapNew(tabs[p], free, v).tabs]
           /\ pte' = IF MapNew(tabs[p], free, v).ok
                     THEN [pte EXCEPT ![p] = mappages(@, v, [u |-> TRUE, word |-> Copied(Junk)])]
                     ELSE pte
  <2> DEFINE e == [u |-> TRUE, word |-> Copied(Junk)]
  <2>1. e \in Entries /\ v \notin DOMAIN pte[p] /\ v * PGSIZE < sz[p]
    BY <1>3 DEF Entries, Data, LazyByWalkaddr
  <2>2. v \in Nat /\ sz[p] \in Nat /\ v * PGSIZE \in Nat
    BY Mine, Sizes DEF Typed, UserPages
  <2>3. v \in 0..(PGROUNDUP(sz[p]) - 1)
    BY <2>1, <2>2, Round
  <2>4. pc' = [r \in Procs |-> pc'[r]] /\ TeardownComplete'
    BY <1>1 DEF VmIInv, Shapes, TeardownComplete
  <2> HIDE DEF e
  <2>5. pte' = IF MapNew(tabs[p], free, v).ok THEN [pte EXCEPT ![p] = mappages(@, v, e)] ELSE pte
    BY <1>3 DEF e
  <2> QED
    BY <1>1, <1>3, <2>1, <2>3, <2>4, <2>5, MappedStep
<1> QED
  BY <1>2, <1>3 DEF CopyUser

\* uvmdealloc() leaves what is below the new size, unchanged.
LEMMA Dealloc ==
  ASSUME NEW t, IsTable(t), NEW old \in Nat, NEW new \in Nat,
         DOMAIN t \subseteq 0..(PGROUNDUP(old) - 1)
  PROVE  /\ IsTable(uvmdealloc(t, old, new))
         /\ DOMAIN uvmdealloc(t, old, new) = DOMAIN t \cap 0..(PGROUNDUP(new) - 1)
         /\ \A v \in DOMAIN uvmdealloc(t, old, new) : uvmdealloc(t, old, new)[v] = t[v]
<1>1. PGROUNDUP(old) \in Nat /\ PGROUNDUP(new) \in Nat
  BY Round
<1> DEFINE a == PGROUNDUP(new)
           b == PGROUNDUP(old)
<1>2. CASE a < b
  <2>1. uvmdealloc(t, old, new) = uvmunmap(t, a, b - a)
    BY <1>2 DEF uvmdealloc
  <2> HIDE DEF a, b
  <2>2. a \in Nat /\ b - a \in Int /\ b \in Nat /\ DOMAIN t \subseteq 0..(b - 1)
    BY <1>1 DEF a, b
  <2>3. /\ IsTable(uvmunmap(t, a, b - a))
        /\ DOMAIN uvmunmap(t, a, b - a) = DOMAIN t \ (a..(a + (b - a) - 1))
        /\ \A v \in DOMAIN uvmunmap(t, a, b - a) : uvmunmap(t, a, b - a)[v] = t[v]
    BY <2>2, Unmaps
  <2>4. DOMAIN t \ (a..(a + (b - a) - 1)) = DOMAIN t \cap 0..(a - 1)
    BY <2>2
  <2> QED
    BY <2>1, <2>3, <2>4 DEF a, b
<1>3. CASE ~ (a < b)
  <2>1. uvmdealloc(t, old, new) = t
    BY <1>3 DEF uvmdealloc
  <2>3. a \in Nat /\ b \in Nat /\ a >= b /\ DOMAIN t \subseteq 0..(b - 1)
    BY <1>1, <1>3
  <2> HIDE DEF a, b
  <2>2. DOMAIN t \cap 0..(a - 1) = DOMAIN t
    BY <2>3
  <2> QED
    BY <2>1, <2>2 DEF a, b
<1> QED
  BY <1>2, <1>3

\* uvmunmap() of a range that covers what is mapped leaves nothing.
LEMMA UnmapsAll ==
  ASSUME NEW t, IsTable(t), NEW n \in Nat, DOMAIN t \subseteq 0..(n - 1)
  PROVE  IsTable(uvmunmap(t, 0, n)) /\ DOMAIN uvmunmap(t, 0, n) = {}
<1>1. n \in Int /\ 0 \in Nat /\ 0 + n - 1 = n - 1
  OBVIOUS
<1>2. IsTable(uvmunmap(t, 0, n)) /\ DOMAIN uvmunmap(t, 0, n) = DOMAIN t \ (0..(0 + n - 1))
  BY <1>1, Unmaps
<1> QED
  BY <1>1, <1>2

\* proc_freepagetable() with a size that covers what is mapped leaves nothing.
LEMMA NothingLeft ==
  ASSUME NEW t, IsTable(t), NEW size \in Nat, DOMAIN t \subseteq 0..(PGROUNDUP(size) - 1)
  PROVE  DOMAIN LeftAfter(t, size) = {}
  BY Round, UnmapsAll DEF LeftAfter

\* sys_sbrk().
LEMMA SbrkStep ==
  ASSUME VmIInv, NEW p \in Procs, NEW newsz \in 1..SZMAX, Sbrk(p, newsz)
  PROVE  VmIInv'
<1> DEFINE t == pte[p]
           t2 == IF newsz < sz[p] THEN uvmdealloc(t, sz[p], newsz) ELSE t
<1>1. /\ pc[p] = "user" /\ pte'[p] = t2 /\ sz'[p] = newsz
      /\ free' = free + Cardinality(DOMAIN t) - Cardinality(DOMAIN t2)
      /\ guard'[p] = IF guard[p] >= PGROUNDUP(newsz) THEN NoGuard ELSE guard[p]
  BY DEF Sbrk, Running, VmIInv, Shapes
<1>2. /\ newsz \in Nat /\ newsz <= SZMAX /\ SZMAX \in Nat /\ sz[p] \in Nat /\ IsTable(t)
      /\ DOMAIN t \subseteq 0..(PGROUNDUP(sz[p]) - 1) /\ tabs[p] \subseteq AllTabs
      /\ guard[p] \in UserPages \cup {NoGuard}
  <2>1. Typed(p) /\ Covered(p)
    BY Mine
  <2>2. newsz \in Nat /\ newsz <= SZMAX /\ SZMAX \in Nat
    BY Sizes
  <2> QED
    BY <1>1, <2>1, <2>2 DEF Typed, Covered
<1>3. /\ PGROUNDUP(newsz) \in Nat /\ PGROUNDUP(sz[p]) \in Nat /\ PGROUNDUP(SZMAX) \in Nat
      /\ PGROUNDUP(newsz) <= PGROUNDUP(SZMAX)
      /\ newsz >= sz[p] => PGROUNDUP(sz[p]) <= PGROUNDUP(newsz)
  BY <1>2, Round, RoundOrder
<1>4. /\ IsTable(t2) /\ DOMAIN t2 = DOMAIN t \cap 0..(PGROUNDUP(newsz) - 1)
      /\ \A v \in DOMAIN t2 : t2[v] = t[v]
  <2>1. CASE newsz < sz[p]
    <3>1. t2 = uvmdealloc(t, sz[p], newsz)
      BY <2>1
    <3> HIDE DEF t, t2
    <3> QED
      BY <1>2, <3>1, Dealloc
  <2>2. CASE ~ (newsz < sz[p])
    BY <1>2, <1>3, <2>2
  <2> QED
    BY <2>1, <2>2
<1>5. Shapes' /\ \A r \in Procs \ {p} : Same(r)
  BY DEF Sbrk, VmIInv, Shapes, Same, exec
<1>6. /\ tabs'[p] = tabs[p] /\ TeardownComplete' /\ pc'[p] = pc[p]
      /\ kp'[p] = kp[p] /\ np'[p] = np[p] /\ i'[p] = i[p] /\ args'[p] = args[p]
      /\ img'[p] = img[p] /\ nsz'[p] = nsz[p] /\ npte'[p] = npte[p] /\ ntabs'[p] = ntabs[p]
  BY DEF Sbrk, exec, VmIInv, TeardownComplete
<1> HIDE DEF t2
<1>7. Guarded(p)' /\ guard'[p] \in {guard[p], NoGuard}
  BY <1>1, <1>2, <1>3, <1>4, Mine DEF Guarded, UserPages, NoGuard
<1>8. /\ Cardinality(DOMAIN t) \in Nat /\ Cardinality(DOMAIN t2) \in Nat /\ free \in Nat
      /\ Cardinality(DOMAIN t2) <= Cardinality(DOMAIN t) /\ Cardinality(tabs[p]) \in Nat
  <2>1. DOMAIN t2 \subseteq DOMAIN t /\ IsFiniteSet(DOMAIN t)
    BY <1>4, Mine
  <2> QED
    BY <2>1, FS_Subset, FS_CardinalityType, Mine
<1>9. /\ free' \in Nat
      /\ free' + Cardinality(DOMAIN pte'[p]) + Cardinality(tabs'[p])
           = free + Cardinality(DOMAIN pte[p]) + Cardinality(tabs[p])
  BY <1>1, <1>6, <1>8
<1>10. /\ sz'[p] \in Nat /\ PGROUNDUP(sz'[p]) <= PGROUNDUP(SZMAX) + 2 /\ IsTable(pte'[p])
       /\ DOMAIN pte'[p] \subseteq 0..(PGROUNDUP(sz'[p]) - 1) /\ tabs'[p] \subseteq AllTabs
  BY <1>1, <1>2, <1>3, <1>4, <1>6
<1> QED
  BY <1>1, <1>5, <1>6, <1>7, <1>9, <1>10, MemoryStep

\* exit().
LEMMA ExitStep ==
  ASSUME VmIInv, NEW p \in Procs, Exit(p)
  PROVE  VmIInv'
<1>1. /\ pc[p] = "user" /\ panic = "none" /\ Dies(p)
      /\ UNCHANGED <<free, kp, sz, pte, tabs, np, i, exec, guard>>
  BY DEF Exit, Running
<1> QED
  BY <1>1, DiesStep, OnlyPc

-----------------------------------------------------------------------------
(* fork() and wait() *)

\* A step that changes nothing but perhaps panic.
LEMMA OnlyPanic ==
  ASSUME VmIInv, TeardownComplete',
         UNCHANGED <<free, kp, pc, sz, pte, tabs, np, i, exec, guard>>
  PROVE  VmIInv'
<1>1. \A r \in Procs : Same(r)
  BY DEF Same, exec
<1>2. \A r \in Procs : Local(r)' /\ Held(r)' = Held(r) /\ Forking(r)'
  BY <1>1, SameKept DEF VmIInv, Forking
<1>3. Shapes' /\ OneParent' /\ free' \in Nat
  BY DEF VmIInv, Shapes, OneParent, exec
<1>4. FramesConserved'
  BY <1>2 DEF VmIInv, FramesConserved
<1> QED
  BY <1>2, <1>3, <1>4 DEF VmIInv

\* freeproc() of a zombie gives back all it has.
LEMMA ReapStep ==
  ASSUME VmIInv, NEW q \in Procs, Reap(q)
  PROVE  VmIInv'
<1>1. /\ pc[q] = "zombie" /\ panic = "none" /\ pc'[q] = "unused" /\ kp'[q] = 0 /\ sz'[q] = 0
      /\ pte'[q] = Empty /\ tabs'[q] = {} /\ guard'[q] = NoGuard /\ np'[q] = np[q]
      /\ i'[q] = i[q] /\ args'[q] = args[q] /\ img'[q] = img[q] /\ nsz'[q] = nsz[q]
      /\ npte'[q] = npte[q] /\ ntabs'[q] = ntabs[q]
      /\ free' = free + kp[q] + PagesOf(pte[q], tabs[q]) /\ StopIfLeaf(LeftAfter(pte[q], sz[q]))
  BY DEF Reap, FreeProc, exec, VmIInv, Shapes
<1>2. Shapes' /\ \A r \in Procs \ {q} : Same(r)
  BY DEF Reap, FreeProc, exec, VmIInv, Shapes, Same
<1>3. DOMAIN LeftAfter(pte[q], sz[q]) = {}
  BY <1>1, Mine, NothingLeft DEF Typed, Covered
<1>4. TeardownComplete'
  BY <1>1, <1>3 DEF StopIfLeaf, TeardownComplete
<1>5. IsTable(Empty) /\ DOMAIN Empty = {} /\ PGROUNDUP(0) = 0 /\ PGROUNDUP(SZMAX) \in Nat
  <2>1. PGROUNDUP(0) = 0
    BY RoundPages, Sizes, 0 * PGSIZE = 0
  <2> QED
    BY <2>1, Round, Sizes DEF Empty, IsTable
<1>6. /\ args[q] = 0 /\ npte[q] = Empty /\ ntabs[q] = {}
      /\ Typed(q) /\ Blank(q)
  BY <1>1, Mine DEF Blank
<1>7. Typed(q)'
  BY <1>1, <1>5, <1>6 DEF Typed, VmPcs
<1>8. Blank(q)' /\ Covered(q)' /\ Building(q)' /\ Guarded(q)'
  BY <1>1, <1>5, <1>6 DEF Blank, Covered, Building, Guarded
<1>9. Cardinality({}) = 0
  BY FS_EmptySet
<1>10. Count(q)' = 0 /\ Count(q) = kp[q] + Cardinality(DOMAIN pte[q]) + Cardinality(tabs[q])
  BY <1>1, <1>5, <1>6, <1>9, Mine DEF Count
<1>11. free' \in Nat /\ free' + Count(q)' = free + Count(q)
  BY <1>1, <1>10, Mine DEF PagesOf
<1> QED
  BY <1>1, <1>2, <1>4, <1>7, <1>8, <1>11, StepOfOne DEF Local

\* The root page-table page and the two above TRAMPOLINE.
LEMMA Roots == Cardinality(RootTabs) = 3 /\ RootTabs \subseteq AllTabs
<1>1. RootTabs = 0..2
  BY DEF RootTabs
<1> DEFINE k == 2
<1>2. k \in Nat
  OBVIOUS
<1> HIDE DEF k
<1>3. Cardinality(0..k) = k + 1
  BY <1>2, FS_Interval
<1> QED
  BY <1>1, <1>3 DEF k, AllTabs

\* allocproc() for fork(): the new slot gets its pages, or nothing changes.
LEMMA AllocProcStep ==
  ASSUME VmIInv, NEW p \in Procs, NEW q \in Procs, AllocProc(p, q)
  PROVE  VmIInv'
<1>1. /\ pc[p] = "user" /\ panic = "none" /\ pc[q] = "unused" /\ p # q
      /\ UNCHANGED <<sz, pte, exec, guard>>
  BY DEF AllocProc, Running
<1>2. CASE UNCHANGED <<free, kp, pc, tabs, np, i>> /\ panic' \in {panic, "kern_pagetable kalloc"}
  <2>1. TeardownComplete'
    BY <1>1, <1>2 DEF TeardownComplete
  <2> QED
    BY <1>1, <1>2, <2>1, OnlyPanic
<1>3. CASE /\ ~ (free = 0 \/ free \in KPAGES..(KPAGES + Cardinality(RootTabs) - 1))
           /\ ~ (free < KPAGES)
           /\ free' = free - KPAGES - Cardinality(RootTabs)
           /\ kp' = [kp EXCEPT ![q] = KPAGES]
           /\ tabs' = [tabs EXCEPT ![q] = RootTabs]
           /\ pc' = [pc EXCEPT ![p] = "fork", ![q] = "embryo"]
           /\ np' = [np EXCEPT ![p] = q]
           /\ i' = [i EXCEPT ![p] = 0]
           /\ UNCHANGED panic
  <2>1. Shapes' /\ \A r \in Procs \ {p, q} : Same(r)
    BY <1>1, <1>3 DEF VmIInv, Shapes, Same, exec
  <2>2. /\ kp'[p] = kp[p] /\ pc'[p] = "fork" /\ sz'[p] = sz[p] /\ pte'[p] = pte[p]
        /\ tabs'[p] = tabs[p] /\ np'[p] = q /\ i'[p] = 0 /\ args'[p] = args[p]
        /\ img'[p] = img[p] /\ nsz'[p] = nsz[p] /\ npte'[p] = npte[p] /\ ntabs'[p] = ntabs[p]
        /\ guard'[p] = guard[p]
    BY <1>1, <1>3 DEF VmIInv, Shapes, exec
  <2>3. /\ kp'[q] = KPAGES /\ pc'[q] = "embryo" /\ sz'[q] = sz[q] /\ pte'[q] = pte[q]
        /\ tabs'[q] = RootTabs /\ np'[q] = np[q] /\ i'[q] = i[q] /\ args'[q] = args[q]
        /\ img'[q] = img[q] /\ nsz'[q] = nsz[q] /\ npte'[q] = npte[q] /\ ntabs'[q] = ntabs[q]
        /\ guard'[q] = guard[q]
    BY <1>1, <1>3 DEF VmIInv, Shapes, exec
  <2>4. Typed(p) /\ Blank(p) /\ Covered(p) /\ Guarded(p) /\ Typed(q) /\ Blank(q)
    BY Mine
  <2>5. Typed(p)' /\ Blank(p)' /\ Covered(p)' /\ Building(p)' /\ Guarded(p)'
    <3>1. Typed(p)'
      BY <1>1, <2>2, <2>4 DEF Typed, VmPcs, Procs
    <3>2. Blank(p)' /\ Covered(p)' /\ Building(p)' /\ Guarded(p)'
      BY <1>1, <2>2, <2>4 DEF Blank, Covered, Building, Guarded
    <3> QED
      BY <3>1, <3>2
  <2>6. Typed(q)' /\ Blank(q)' /\ Covered(q)' /\ Building(q)' /\ Guarded(q)'
    <3>1. Typed(q)'
      BY <1>1, <2>3, <2>4 DEF Typed, VmPcs, AllTabs
    <3>2. Blank(q)' /\ Covered(q)' /\ Building(q)' /\ Guarded(q)'
      BY <1>1, <2>3, <2>4 DEF Blank, Covered, Building, Guarded
    <3> QED
      BY <3>1, <3>2
  <2>7. DOMAIN pte[q] = {} /\ args[q] = 0 /\ DOMAIN npte[q] = {} /\ ntabs[q] = {} /\ tabs[q] = {}
        /\ kp[q] = 0
    BY <1>1, <2>4 DEF Blank, Typed, Empty
  <2>8. Forking(p)' /\ Forking(q)'
    <3>1. PGROUNDUP(sz[p]) \in Nat
      BY <2>4, Round DEF Typed
    <3> QED
      BY <2>2, <2>3, <2>7, <3>1 DEF Forking
  <2>9. \A r \in Procs : pc[r] = "fork" => np[r] \notin {p, q}
    BY <1>1 DEF VmIInv, Forking
  <2>10. Held(p)' = Held(p)
    BY <2>2 DEF Held
  <2>11. Cardinality(RootTabs) = 3 /\ Cardinality({}) = 0
    BY Roots, FS_EmptySet
  <2>12. Count(q) = 0 /\ Count(q)' = KPAGES + 3
    BY <2>3, <2>7, <2>11, Sizes DEF Count
  <2>13. free' \in Nat /\ free' + Count(q)' = free + Count(q)
    <3>1. /\ free \in Nat /\ KPAGES \in Nat /\ free' = free - KPAGES - 3
          /\ free \notin KPAGES..(KPAGES + 3 - 1) /\ ~ (free < KPAGES)
      BY <1>3, <2>11, Mine, Sizes
    <3>2. free >= KPAGES + 3
      BY <3>1
    <3> QED
      BY <2>12, <3>1, <3>2
  <2>14. TeardownComplete'
    BY <1>3 DEF VmIInv, TeardownComplete
  <2>15. /\ \A r \in Procs \ {p} : pc[r] = "fork" /\ pc'[p] = "fork" => np'[p] # np[r]
         /\ pc'[q] # "fork" \/ q = p
         /\ \A r \in {p, q} \ {q} : Held(r)' = Held(r)
    BY <2>2, <2>3, <2>9, <2>10
  <2> HIDE DEF Held
  <2> QED
    BY <2>1, <2>5, <2>6, <2>8, <2>9, <2>13, <2>14, <2>15, StepOfTwo DEF Local
<1> QED
  BY <1>1, <1>2, <1>3 DEF AllocProc

\* What uvmcopy() has, at a page below the parent's size.
LEMMA CopyingFacts ==
  ASSUME VmIInv, NEW p \in Procs, pc[p] = "fork"
  PROVE  LET q == np[p] IN
         /\ q \in Procs /\ q # p /\ pc[q] = "embryo" /\ i[p] \in Nat /\ PGROUNDUP(sz[p]) \in Nat
         /\ DOMAIN pte[q] = DOMAIN pte[p] \cap 0..(i[p] - 1) /\ i[p] <= PGROUNDUP(sz[p])
         /\ \A v \in DOMAIN pte[q] : pte[q][v] = pte[p][v]
         /\ \A r \in Procs \ {p} : pc[r] = "fork" => np[r] \notin {p, q}
         /\ CopyDone(p) <=> i[p] >= PGROUNDUP(sz[p])
<1>1. sz[p] \in Nat /\ i[p] \in Nat
  BY Mine DEF Typed
<1>2. PGROUNDUP(sz[p]) \in Nat /\ (CopyDone(p) <=> i[p] >= PGROUNDUP(sz[p]))
  BY <1>1, Round DEF CopyDone
<1> QED
  BY <1>1, <1>2 DEF VmIInv, Forking, OneParent

\* A page that the parent has not mapped.
LEMMA ForkSkipStep ==
  ASSUME VmIInv, NEW p \in Procs, pc[p] = "fork", ~ CopyDone(p), i[p] \notin DOMAIN pte[p],
         i' = [i EXCEPT ![p] = @ + 1],
         UNCHANGED <<free, kp, pc, sz, pte, tabs, np, exec, guard, panic>>
  PROVE  VmIInv'
<1> DEFINE q == np[p]
<1>1. /\ q \in Procs /\ q # p /\ pc[q] = "embryo" /\ i[p] \in Nat /\ PGROUNDUP(sz[p]) \in Nat
      /\ DOMAIN pte[q] = DOMAIN pte[p] \cap 0..(i[p] - 1) /\ i[p] < PGROUNDUP(sz[p])
      /\ \A v \in DOMAIN pte[q] : pte[q][v] = pte[p][v]
      /\ \A r \in Procs \ {p} : pc[r] = "fork" => np[r] \notin {p, q}
  BY CopyingFacts
<1>2. Shapes' /\ \A r \in Procs \ {p} : Same(r)
  BY DEF VmIInv, Shapes, Same, exec
<1>3. /\ kp'[p] = kp[p] /\ pc'[p] = "fork" /\ sz'[p] = sz[p] /\ pte'[p] = pte[p]
      /\ tabs'[p] = tabs[p] /\ np'[p] = q /\ i'[p] = i[p] + 1 /\ args'[p] = args[p]
      /\ img'[p] = img[p] /\ nsz'[p] = nsz[p] /\ npte'[p] = npte[p] /\ ntabs'[p] = ntabs[p]
      /\ guard'[p] = guard[p] /\ free' = free /\ free \in Nat
  BY DEF VmIInv, Shapes, exec
<1>4. Typed(p) /\ Blank(p) /\ Covered(p) /\ Guarded(p)
  BY Mine
<1>5. Typed(p)'
  BY <1>3, <1>4 DEF Typed, VmPcs
<1>6. Blank(p)' /\ Covered(p)' /\ Building(p)' /\ Guarded(p)'
  BY <1>3, <1>4 DEF Blank, Covered, Building, Guarded
<1>7. Local(q)' /\ Held(q)' = Held(q)
  BY <1>1, <1>2, SameKept
<1>8. Forking(p)' /\ Forking(q)'
  <2>1. pc'[q] = "embryo" /\ pte'[q] = pte[q]
    BY <1>1
  <2>2. DOMAIN pte[p] \cap 0..(i[p] - 1) = DOMAIN pte[p] \cap 0..((i[p] + 1) - 1)
    <3>1. DOMAIN pte[p] \subseteq UserPages /\ \A x \in UserPages : x \in Int
      BY <1>4 DEF Typed, IsTable, UserPages
    <3>2. \A x \in DOMAIN pte[p] : x \in 0..(i[p] - 1) <=> x \in 0..((i[p] + 1) - 1)
      BY <1>1, <3>1
    <3> QED
      BY <3>2
  <2> QED
    BY <1>1, <1>3, <2>1, <2>2 DEF Forking
<1>9. Count(p)' = Count(p) /\ Held(p)' = Held(p)
  BY <1>3 DEF Count, Held
<1>10. Count(p) \in Nat
  BY Mine DEF Count
<1>11. TeardownComplete' /\ pc'[q] # "fork" /\ free' + Count(p)' = free + Count(p)
  BY <1>1, <1>3, <1>9, <1>10 DEF VmIInv, TeardownComplete
<1>12. \A r \in Procs \ {p} : pc[r] = "fork" /\ pc'[p] = "fork" => np'[p] # np[r]
  BY <1>1, <1>3
<1> HIDE DEF q
<1> QED
  BY <1>1, <1>2, <1>3, <1>5, <1>6, <1>7, <1>8, <1>9, <1>11, <1>12, StepOfTwo DEF Local

\* A page of the parent is copied into the child.
LEMMA ForkPageStep ==
  ASSUME VmIInv, NEW p \in Procs, pc[p] = "fork", ~ CopyDone(p), i[p] \in DOMAIN pte[p],
         MapNew(tabs[np[p]], free, i[p]).ok,
         free' = MapNew(tabs[np[p]], free, i[p]).free,
         tabs' = [tabs EXCEPT ![np[p]] = MapNew(tabs[np[p]], free, i[p]).tabs],
         pte' = [pte EXCEPT ![np[p]] = mappages(@, i[p], CopyFlags(pte[p][i[p]]))],
         i' = [i EXCEPT ![p] = @ + 1],
         UNCHANGED <<kp, pc, sz, np, exec, guard, panic>>
  PROVE  VmIInv'
<1>q. PICK q \in Procs : q = np[p]
  BY CopyingFacts
<1> USE <1>q
<1> DEFINE v == i[p]
           m == MapNew(tabs[q], free, v)
           e == pte[p][v]
           t2 == mappages(pte[q], v, e)
<1>1. /\ q \in Procs /\ q # p /\ pc[q] = "embryo" /\ v \in Nat /\ PGROUNDUP(sz[p]) \in Nat
      /\ DOMAIN pte[q] = DOMAIN pte[p] \cap 0..(v - 1) /\ v < PGROUNDUP(sz[p])
      /\ \A x \in DOMAIN pte[q] : pte[q][x] = pte[p][x]
      /\ \A r \in Procs \ {p} : pc[r] = "fork" => np[r] \notin {p, q}
  BY CopyingFacts
<1>2. /\ Typed(p) /\ Blank(p) /\ Covered(p) /\ Guarded(p) /\ Typed(q) /\ Blank(q)
      /\ IsTable(pte[p]) /\ IsTable(pte[q]) /\ tabs[q] \subseteq AllTabs
  BY <1>1, Mine DEF Typed
<1>3. e \in Entries /\ v \in UserPages /\ LeafTab(v) \in AllTabs /\ MidTab \in AllTabs
  BY <1>2 DEF IsTable, AllTabs
<1>4. /\ m.free \in Nat /\ IsFiniteSet(m.tabs) /\ m.tabs \subseteq AllTabs
      /\ m.free + Cardinality(m.tabs) + 1 = free + Cardinality(tabs[q])
  <2>1. IsFiniteSet(tabs[q]) /\ free \in Nat
    BY <1>1, Mine
  <2>2. /\ m.free \in Nat /\ IsFiniteSet(m.tabs)
        /\ m.tabs \subseteq tabs[q] \cup {MidTab, LeafTab(v)}
        /\ m.free + Cardinality(m.tabs) + (IF m.ok THEN 1 ELSE 0) = free + Cardinality(tabs[q])
    BY <1>3, <2>1, MapNewCost
  <2> QED
    BY <1>2, <1>3, <2>2
<1>5. /\ IsTable(t2) /\ DOMAIN t2 = DOMAIN pte[q] \cup {v}
      /\ \A x \in DOMAIN t2 : t2[x] = IF x = v THEN e ELSE pte[q][x]
  BY <1>2, <1>3, Maps
<1>6. /\ free' = m.free /\ tabs'[q] = m.tabs /\ pte'[q] = t2
  BY <1>1 DEF VmIInv, Shapes, CopyFlags
<1> HIDE DEF m, t2
<1>7. Shapes' /\ \A r \in Procs \ {p, q} : Same(r)
  BY <1>1 DEF VmIInv, Shapes, Same, exec
<1>8. /\ kp'[p] = kp[p] /\ pc'[p] = "fork" /\ sz'[p] = sz[p] /\ pte'[p] = pte[p]
      /\ tabs'[p] = tabs[p] /\ np'[p] = q /\ i'[p] = v + 1 /\ args'[p] = args[p]
      /\ img'[p] = img[p] /\ nsz'[p] = nsz[p] /\ npte'[p] = npte[p] /\ ntabs'[p] = ntabs[p]
      /\ guard'[p] = guard[p]
  BY <1>1 DEF VmIInv, Shapes, exec
<1>9. /\ kp'[q] = kp[q] /\ pc'[q] = "embryo" /\ sz'[q] = sz[q]
      /\ np'[q] = np[q] /\ i'[q] = i[q] /\ args'[q] = args[q]
      /\ img'[q] = img[q] /\ nsz'[q] = nsz[q] /\ npte'[q] = npte[q] /\ ntabs'[q] = ntabs[q]
      /\ guard'[q] = guard[q]
  BY <1>1 DEF VmIInv, Shapes, exec
<1>10. Local(p)'
  <2>1. Typed(p)'
    BY <1>1, <1>2, <1>8 DEF Typed, VmPcs
  <2>2. Blank(p)' /\ Covered(p)' /\ Building(p)' /\ Guarded(p)'
    BY <1>2, <1>8 DEF Blank, Covered, Building, Guarded
  <2> QED
    BY <2>1, <2>2 DEF Local
<1>11. Local(q)'
  <2>1. Typed(q)'
    BY <1>1, <1>2, <1>4, <1>5, <1>6, <1>9 DEF Typed, VmPcs
  <2>2. Blank(q)' /\ Covered(q)' /\ Building(q)' /\ Guarded(q)'
    BY <1>1, <1>2, <1>9 DEF Blank, Covered, Building, Guarded
  <2> QED
    BY <2>1, <2>2 DEF Local
<1>12. Forking(p)' /\ Forking(q)'
  <2>1. DOMAIN t2 = DOMAIN pte[p] \cap 0..((v + 1) - 1)
    <3>1. DOMAIN pte[p] \subseteq UserPages /\ \A x \in UserPages : x \in Int
      BY <1>2 DEF IsTable, UserPages
    <3>2. \A x \in DOMAIN pte[p] : x \in 0..(v - 1) \/ x = v <=> x \in 0..((v + 1) - 1)
      BY <1>1, <3>1
    <3>3. DOMAIN t2 = {x \in DOMAIN pte[p] : x \in 0..(v - 1) \/ x = v}
      BY <1>1, <1>5
    <3> QED
      BY <3>2, <3>3
  <2>2. \A x \in DOMAIN t2 : t2[x] = pte[p][x]
    BY <1>1, <1>5
  <2> QED
    BY <1>1, <1>6, <1>8, <1>9, <2>1, <2>2 DEF Forking
<1>13. Held(p)' = Held(p)
  BY <1>8 DEF Held
<1>14. free' \in Nat /\ free' + Count(q)' = free + Count(q)
  <2>1. /\ Cardinality(DOMAIN pte[q]) \in Nat /\ Cardinality(tabs[q]) \in Nat /\ kp[q] \in Nat
        /\ Cardinality(m.tabs) \in Nat /\ free \in Nat /\ args[q] \in Nat
        /\ IsFiniteSet(DOMAIN pte[q])
        /\ Cardinality(DOMAIN npte[q]) \in Nat /\ Cardinality(ntabs[q]) \in Nat
    BY <1>1, <1>4, Mine, FS_CardinalityType
  <2>2. v \notin DOMAIN pte[q]
    BY <1>1
  <2>3. Cardinality(DOMAIN t2) = Cardinality(DOMAIN pte[q]) + 1
    BY <1>5, <2>1, <2>2, FS_AddElement
  <2> QED
    BY <1>4, <1>6, <1>9, <2>1, <2>3 DEF Count
<1>15. TeardownComplete' /\ pc'[q] # "fork"
  BY <1>1 DEF VmIInv, TeardownComplete
<1>16. /\ \A r \in Procs \ {p} : pc[r] = "fork" /\ pc'[p] = "fork" => np'[p] # np[r]
       /\ \A r \in {p, q} \ {q} : Held(r)' = Held(r)
  BY <1>1, <1>8, <1>13
<1> QED
  BY <1>1, <1>7, <1>10, <1>11, <1>12, <1>14, <1>15, <1>16, StepOfTwo

\* uvmcopy() fails: what it copied is unmapped and freeproc() gives back the rest.
LEMMA ForkFailStep ==
  ASSUME VmIInv, NEW p \in Procs, pc[p] = "fork", ~ CopyDone(p), panic = "none",
         LET kept == CopyUndo(pte[np[p]], i[p])
             undone == Cardinality(DOMAIN pte[np[p]]) - Cardinality(DOMAIN kept)
         IN  FreeProc(np[p], free + undone, kept),
         pc' = [pc EXCEPT ![p] = "user", ![np[p]] = "unused"],
         np' = [np EXCEPT ![p] = 0], i' = [i EXCEPT ![p] = 0], UNCHANGED exec
  PROVE  VmIInv'
<1>q. PICK q \in Procs : q = np[p]
  BY CopyingFacts
<1> USE <1>q
<1> DEFINE kept == CopyUndo(pte[q], i[p])
           undone == Cardinality(DOMAIN pte[q]) - Cardinality(DOMAIN kept)
<1>1. /\ q \in Procs /\ q # p /\ pc[q] = "embryo" /\ i[p] \in Nat
      /\ DOMAIN pte[q] = DOMAIN pte[p] \cap 0..(i[p] - 1)
      /\ \A r \in Procs \ {p} : pc[r] = "fork" => np[r] \notin {p, q}
  BY CopyingFacts
<1>2. /\ Typed(p) /\ Blank(p) /\ Covered(p) /\ Guarded(p) /\ Typed(q) /\ Blank(q)
      /\ IsTable(pte[q]) /\ sz[q] = 0
  BY <1>1, Mine DEF Typed, Blank
<1>3. IsTable(kept) /\ DOMAIN kept = {}
  <2>1. DOMAIN pte[q] \subseteq 0..(i[p] - 1)
    BY <1>1
  <2> QED
    BY <1>1, <1>2, <2>1, UnmapsAll DEF CopyUndo
<1>4. FreeProc(q, free + undone, kept)
  OBVIOUS
<1> HIDE DEF kept
<1>5. Cardinality({}) = 0 /\ IsTable(Empty) /\ DOMAIN Empty = {} /\ 0 \in Nat
      /\ PGROUNDUP(0) = 0 /\ PGROUNDUP(SZMAX) \in Nat
  <2>1. PGROUNDUP(0) = 0
    BY RoundPages, Sizes, 0 * PGSIZE = 0
  <2> QED
    BY <2>1, FS_EmptySet, Round, Sizes DEF Empty, IsTable
<1>6. /\ kp'[q] = 0 /\ sz'[q] = 0 /\ pte'[q] = Empty /\ tabs'[q] = {} /\ guard'[q] = NoGuard
      /\ pc'[q] = "unused" /\ np'[q] = np[q] /\ i'[q] = i[q] /\ args'[q] = args[q]
      /\ img'[q] = img[q] /\ nsz'[q] = nsz[q] /\ npte'[q] = npte[q] /\ ntabs'[q] = ntabs[q]
      /\ free' = free + undone + kp[q] + PagesOf(kept, tabs[q])
      /\ StopIfLeaf(LeftAfter(kept, sz[q]))
  BY <1>1, <1>4 DEF FreeProc, exec, VmIInv, Shapes
<1>7. /\ kp'[p] = kp[p] /\ pc'[p] = "user" /\ sz'[p] = sz[p] /\ pte'[p] = pte[p]
      /\ tabs'[p] = tabs[p] /\ np'[p] = 0 /\ i'[p] = 0 /\ args'[p] = args[p]
      /\ img'[p] = img[p] /\ nsz'[p] = nsz[p] /\ npte'[p] = npte[p] /\ ntabs'[p] = ntabs[p]
      /\ guard'[p] = guard[p]
  BY <1>1, <1>4 DEF FreeProc, exec, VmIInv, Shapes
<1>8. Shapes' /\ \A r \in Procs \ {p, q} : Same(r)
  <2>1. Shapes
    BY DEF VmIInv
  <2>2. Shapes'
    BY <1>1, <1>4, <2>1, ZenonT(60) DEF FreeProc, exec, Shapes
  <2>3. \A r \in Procs \ {p, q} : Same(r)
    BY <1>1, <1>4, <2>1, ZenonT(60) DEF FreeProc, exec, Shapes, Same
  <2> QED
    BY <2>2, <2>3
<1>9. TeardownComplete'
  <2>1. DOMAIN LeftAfter(kept, sz[q]) = {}
    BY <1>2, <1>3, <1>5, NothingLeft
  <2> QED
    BY <1>6, <2>1 DEF StopIfLeaf, TeardownComplete
<1>10. Local(p)'
  <2>3. 0 \in 0..NPROC
    BY Sizes
  <2>1. Typed(p)'
    BY <1>2, <1>7, <2>3 DEF Typed, VmPcs
  <2>2. Blank(p)' /\ Covered(p)' /\ Building(p)' /\ Guarded(p)'
    BY <1>2, <1>7 DEF Blank, Covered, Building, Guarded
  <2> QED
    BY <2>1, <2>2 DEF Local
<1>11. Local(q)'
  <2>1. Typed(q)'
    BY <1>1, <1>2, <1>5, <1>6 DEF Typed, VmPcs
  <2>2. Blank(q)' /\ Covered(q)' /\ Building(q)' /\ Guarded(q)'
    BY <1>1, <1>2, <1>5, <1>6 DEF Blank, Covered, Building, Guarded
  <2> QED
    BY <2>1, <2>2 DEF Local
<1>12. Forking(p)' /\ Forking(q)' /\ pc'[q] # "fork" /\ pc'[p] # "fork"
  BY <1>6, <1>7 DEF Forking
<1>13. Held(p)' = Held(p)
  BY <1>7 DEF Held
<1>14. free' \in Nat /\ free' + Count(q)' = free + Count(q)
  <2>1. args[q] = 0 /\ DOMAIN npte[q] = {} /\ ntabs[q] = {}
    BY <1>1, <1>2, <1>5 DEF Blank
  <2>4. /\ Cardinality(DOMAIN pte[q]) \in Nat /\ Cardinality(tabs[q]) \in Nat /\ kp[q] \in Nat
        /\ free \in Nat
    BY Mine
  <2>2. /\ Count(q) = kp[q] + Cardinality(DOMAIN pte[q]) + Cardinality(tabs[q])
        /\ Count(q)' = 0
    BY <1>5, <1>6, <2>1, <2>4 DEF Count
  <2>3. undone = Cardinality(DOMAIN pte[q]) /\ PagesOf(kept, tabs[q]) = Cardinality(tabs[q])
    BY <1>3, <1>5, <2>4 DEF PagesOf
  <2> HIDE DEF undone
  <2> QED
    BY <1>6, <2>2, <2>3, <2>4
<1>15. \A r \in {p, q} \ {q} : Held(r)' = Held(r)
  BY <1>13
<1> QED
  BY <1>1, <1>8, <1>9, <1>10, <1>11, <1>12, <1>14, <1>15, StepOfTwo

\* One round of the loop of uvmcopy().
LEMMA ForkCopyStep ==
  ASSUME VmIInv, NEW p \in Procs, ForkCopy(p)
  PROVE  VmIInv'
<1>1. panic = "none" /\ pc[p] = "fork" /\ ~ CopyDone(p) /\ UNCHANGED exec
  BY DEF ForkCopy
<1>2. CASE i[p] \notin DOMAIN pte[p]
  BY <1>1, <1>2, ForkSkipStep DEF ForkCopy
<1>3. CASE i[p] \in DOMAIN pte[p] /\ MapNew(tabs[np[p]], free, i[p]).ok
  BY <1>1, <1>3, ForkPageStep DEF ForkCopy
<1>4. CASE i[p] \in DOMAIN pte[p] /\ ~ MapNew(tabs[np[p]], free, i[p]).ok
  BY <1>1, <1>4, ForkFailStep DEF ForkCopy
<1> QED
  BY <1>2, <1>3, <1>4

\* The page table of a child is its parent's when uvmcopy() is done.
LEMMA ChildIsCopy ==
  ASSUME VmIInv, NEW p \in Procs, pc[p] = "fork", CopyDone(p)
  PROVE  pte[np[p]] = pte[p]
<1> DEFINE q == np[p]
<1>1. /\ q \in Procs /\ i[p] \in Nat /\ PGROUNDUP(sz[p]) \in Nat
      /\ DOMAIN pte[q] = DOMAIN pte[p] \cap 0..(i[p] - 1) /\ i[p] = PGROUNDUP(sz[p])
      /\ \A v \in DOMAIN pte[q] : pte[q][v] = pte[p][v]
  BY CopyingFacts
<1>2. DOMAIN pte[p] \subseteq 0..(PGROUNDUP(sz[p]) - 1)
  BY Mine DEF Covered
<1>3. /\ pte[p] = [v \in DOMAIN pte[p] |-> pte[p][v]]
      /\ pte[q] = [v \in DOMAIN pte[q] |-> pte[q][v]]
  BY <1>1, Mine DEF Typed, IsTable
<1>4. DOMAIN pte[q] = DOMAIN pte[p]
  BY <1>1, <1>2
<1> QED
  BY <1>1, <1>3, <1>4

\* fork() ends: the child has its parent's size and memory.
LEMMA ForkDoneStep ==
  ASSUME VmIInv, NEW p \in Procs, ForkDone(p)
  PROVE  VmIInv'
<1>1. panic = "none" /\ pc[p] = "fork" /\ CopyDone(p)
  BY DEF ForkDone
<1>q. PICK q \in Procs : q = np[p]
  BY CopyingFacts, <1>1
<1> USE <1>q
<1>2. /\ q \in Procs /\ q # p /\ pc[q] = "embryo" /\ pte[q] = pte[p]
      /\ \A r \in Procs \ {p} : pc[r] = "fork" => np[r] \notin {p, q}
  BY <1>1, CopyingFacts, ChildIsCopy
<1>3. Typed(p) /\ Blank(p) /\ Covered(p) /\ Guarded(p) /\ Typed(q) /\ Blank(q)
  BY <1>2, Mine
<1>4. Shapes' /\ \A r \in Procs \ {p, q} : Same(r)
  BY <1>2 DEF ForkDone, VmIInv, Shapes, Same, exec
<1>5. /\ kp'[p] = kp[p] /\ pc'[p] = "user" /\ sz'[p] = sz[p] /\ pte'[p] = pte[p]
      /\ tabs'[p] = tabs[p] /\ np'[p] = 0 /\ i'[p] = 0 /\ args'[p] = args[p]
      /\ img'[p] = img[p] /\ nsz'[p] = nsz[p] /\ npte'[p] = npte[p] /\ ntabs'[p] = ntabs[p]
      /\ guard'[p] = guard[p] /\ free' = free
  BY <1>2 DEF ForkDone, VmIInv, Shapes, exec
<1>6. /\ kp'[q] = kp[q] /\ pc'[q] = "user" /\ sz'[q] = sz[p] /\ pte'[q] = pte[q]
      /\ tabs'[q] = tabs[q] /\ np'[q] = np[q] /\ i'[q] = i[q] /\ args'[q] = args[q]
      /\ img'[q] = img[q] /\ nsz'[q] = nsz[q] /\ npte'[q] = npte[q] /\ ntabs'[q] = ntabs[q]
      /\ guard'[q] = guard[p]
  BY <1>2 DEF ForkDone, VmIInv, Shapes, exec
<1>7. Local(p)'
  <2>3. 0 \in 0..NPROC
    BY Sizes
  <2>1. Typed(p)'
    BY <1>1, <1>3, <1>5, <2>3 DEF Typed, VmPcs
  <2>2. Blank(p)' /\ Covered(p)' /\ Building(p)' /\ Guarded(p)'
    BY <1>1, <1>3, <1>5 DEF Blank, Covered, Building, Guarded
  <2> QED
    BY <2>1, <2>2 DEF Local
<1>8. Local(q)'
  <2>1. Typed(q)'
    BY <1>2, <1>3, <1>6 DEF Typed, VmPcs
  <2>2. Blank(q)' /\ Covered(q)' /\ Building(q)' /\ Guarded(q)'
    BY <1>1, <1>2, <1>3, <1>6 DEF Blank, Covered, Building, Guarded
  <2> QED
    BY <2>1, <2>2 DEF Local
<1>9. Forking(p)' /\ Forking(q)' /\ pc'[q] # "fork" /\ pc'[p] # "fork"
  BY <1>5, <1>6 DEF Forking
<1>10. Held(p)' = Held(p) /\ Held(q)' = Held(q) /\ Count(q)' = Count(q)
  BY <1>5, <1>6 DEF Held, Count
<1>11. free' \in Nat /\ free' + Count(q)' = free + Count(q)
  BY <1>5, <1>10 DEF VmIInv
<1>12. TeardownComplete'
  BY DEF ForkDone, VmIInv, TeardownComplete
<1> QED
  BY <1>2, <1>4, <1>7, <1>8, <1>9, <1>10, <1>11, <1>12, StepOfTwo

-----------------------------------------------------------------------------
(* exec() *)

\* A step of exec() before it commits: the process keeps its memory, and what it
\* takes for the new image is in the balance.
LEMMA ExecStep ==
  ASSUME VmIInv, NEW p \in Procs, pc[p] \in {"user", "args", "load"},
         pc'[p] \in {"user", "args", "load"}, Shapes', \A r \in Procs \ {p} : Same(r),
         /\ kp'[p] = kp[p] /\ sz'[p] = sz[p] /\ pte'[p] = pte[p] /\ tabs'[p] = tabs[p]
         /\ np'[p] = np[p] /\ guard'[p] = guard[p],
         /\ i'[p] \in Nat /\ args'[p] \in 0..MAXARG /\ nsz'[p] \in 0..SZMAX
         /\ img'[p] \in Seq(1..SZMAX) /\ IsTable(npte'[p]) /\ ntabs'[p] \subseteq AllTabs,
         pc'[p] # "load" => /\ i'[p] = 0 /\ nsz'[p] = 0 /\ npte'[p] = Empty /\ ntabs'[p] = {}
                            /\ img'[p] = <<>>,
         pc'[p] = "user" => args'[p] = 0,
         Building(p)', TeardownComplete', free' \in Nat,
         free' + args'[p] + Cardinality(DOMAIN npte'[p]) + Cardinality(ntabs'[p])
           = free + args[p] + Cardinality(DOMAIN npte[p]) + Cardinality(ntabs[p])
  PROVE  VmIInv'
<1>1. Typed(p)'
  BY Mine DEF Typed, VmPcs
<1>2. Blank(p)' /\ Covered(p)' /\ Guarded(p)'
  BY Mine DEF Blank, Covered, Guarded
<1>3. /\ Cardinality(DOMAIN npte'[p]) \in Nat /\ Cardinality(ntabs'[p]) \in Nat
      /\ args'[p] \in Nat
  <2>1. IsFiniteSet(DOMAIN npte'[p]) /\ IsFiniteSet(ntabs'[p])
    BY Finite, FS_Subset
  <2>2. args'[p] \in Nat
    BY Sizes
  <2> QED
    BY <2>1, <2>2, FS_CardinalityType
<1>5. /\ Cardinality(DOMAIN npte[p]) \in Nat /\ Cardinality(ntabs[p]) \in Nat /\ args[p] \in Nat
      /\ Cardinality(DOMAIN pte[p]) \in Nat /\ Cardinality(tabs[p]) \in Nat /\ kp[p] \in Nat
      /\ free \in Nat
  BY Mine
<1>6. /\ Count(p) = kp[p] + args[p] + Cardinality(DOMAIN pte[p]) + Cardinality(tabs[p])
                     + Cardinality(DOMAIN npte[p]) + Cardinality(ntabs[p])
      /\ Count(p)' = kp[p] + args'[p] + Cardinality(DOMAIN pte[p]) + Cardinality(tabs[p])
                     + Cardinality(DOMAIN npte'[p]) + Cardinality(ntabs'[p])
  BY DEF Count
<1> DEFINE A == Cardinality(DOMAIN npte[p])
           B == Cardinality(ntabs[p])
           C == Cardinality(DOMAIN pte[p])
           D == Cardinality(tabs[p])
           E == Cardinality(DOMAIN npte'[p])
           F == Cardinality(ntabs'[p])
           f == free
           g == free'
           a == args[p]
           b == args'[p]
           k == kp[p]
<1>7. /\ g + b + E + F = f + a + A + B
      /\ A \in Nat /\ B \in Nat /\ C \in Nat /\ D \in Nat /\ E \in Nat /\ F \in Nat
      /\ f \in Nat /\ g \in Nat /\ a \in Nat /\ b \in Nat /\ k \in Nat
  BY <1>3, <1>5
<1>4. free' + Count(p)' = free + Count(p)
  <2> HIDE DEF A, B, C, D, E, F, f, g, a, b, k
  <2>1. g + (k + b + C + D + E + F) = f + (k + a + C + D + A + B)
    BY ONLY <1>7
  <2> QED
    BY <1>6, <2>1 DEF A, B, C, D, E, F, f, g, a, b, k
<1> QED
  BY <1>1, <1>2, <1>4, StepOfOne DEF Local

\* An empty page table.
LEMMA EmptyTable == IsTable(Empty) /\ DOMAIN Empty = {} /\ Cardinality({}) = 0
  BY FS_EmptySet DEF Empty, IsTable

\* The label bad gives back all that exec() and sys_exec() took.
LEMMA ExecBadStep ==
  ASSUME VmIInv, NEW p \in Procs, pc[p] \in {"args", "load"}, panic = "none",
         NEW n \in Nat, NEW t, NEW size \in Nat, IsTable(t),
         DOMAIN t \subseteq 0..(PGROUNDUP(size) - 1),
         n + Cardinality(DOMAIN t) = Cardinality(DOMAIN npte[p]), ExecBad(p, n, t, size)
  PROVE  VmIInv'
<1>1. /\ pc'[p] = "user" /\ args'[p] = 0 /\ img'[p] = <<>> /\ nsz'[p] = 0 /\ npte'[p] = Empty
      /\ ntabs'[p] = {} /\ i'[p] = 0
      /\ free' = free + n + args[p] + PagesOf(t, ntabs[p]) /\ StopIfLeaf(LeftAfter(t, size))
  BY DEF ExecBad, ExecReset, VmIInv, Shapes
<1>2. Shapes' /\ \A r \in Procs \ {p} : Same(r)
  BY DEF ExecBad, ExecReset, VmIInv, Shapes, Same
<1>3. /\ kp'[p] = kp[p] /\ sz'[p] = sz[p] /\ pte'[p] = pte[p] /\ tabs'[p] = tabs[p]
      /\ np'[p] = np[p] /\ guard'[p] = guard[p]
  BY DEF ExecBad
<1>4. TeardownComplete'
  <2>1. DOMAIN LeftAfter(t, size) = {}
    BY NothingLeft
  <2> QED
    BY <1>1, <2>1 DEF StopIfLeaf, TeardownComplete
<1>5. /\ Cardinality(DOMAIN t) \in Nat /\ Cardinality(DOMAIN npte[p]) \in Nat
      /\ Cardinality(ntabs[p]) \in Nat /\ args[p] \in Nat /\ free \in Nat
  BY Mine, Finite, FS_CardinalityType
<1>6. free' \in Nat
      /\ free' + args'[p] + Cardinality(DOMAIN npte'[p]) + Cardinality(ntabs'[p])
           = free + args[p] + Cardinality(DOMAIN npte[p]) + Cardinality(ntabs[p])
  <2> DEFINE A == Cardinality(DOMAIN npte[p])
             B == Cardinality(ntabs[p])
             C == Cardinality(DOMAIN t)
             f == free
             a == args[p]
  <2>1. n + C = A /\ A \in Nat /\ B \in Nat /\ C \in Nat /\ f \in Nat /\ a \in Nat
    BY <1>5
  <2>2. /\ free' = f + n + a + (C + B) /\ args'[p] = 0
        /\ Cardinality(DOMAIN npte'[p]) = 0 /\ Cardinality(ntabs'[p]) = 0
    BY <1>1, EmptyTable DEF PagesOf
  <2> HIDE DEF A, B, C, f, a
  <2>3. f + n + a + (C + B) \in Nat /\ f + n + a + (C + B) + 0 + 0 + 0 = f + a + A + B
    BY <2>1
  <2> QED
    BY <2>2, <2>3 DEF A, B, f, a
<1>7. /\ i'[p] \in Nat /\ args'[p] \in 0..MAXARG /\ nsz'[p] \in 0..SZMAX
      /\ img'[p] \in Seq(1..SZMAX) /\ IsTable(npte'[p]) /\ ntabs'[p] \subseteq AllTabs
  BY <1>1, EmptyTable, Sizes
<1>8. Building(p)'
  BY <1>1 DEF Building
<1> QED
  BY <1>1, <1>2, <1>3, <1>4, <1>6, <1>7, <1>8, ExecStep

\* sys_exec() starts.
LEMMA ExecCallStep ==
  ASSUME VmIInv, NEW p \in Procs, ExecCall(p)
  PROVE  VmIInv'
<1>1. pc[p] = "user" /\ pc'[p] = "args"
  BY DEF ExecCall, Running, VmIInv, Shapes
<1>2. Shapes' /\ \A r \in Procs \ {p} : Same(r)
  BY DEF ExecCall, VmIInv, Shapes, Same, exec
<1>3. /\ kp'[p] = kp[p] /\ sz'[p] = sz[p] /\ pte'[p] = pte[p] /\ tabs'[p] = tabs[p]
      /\ np'[p] = np[p] /\ guard'[p] = guard[p] /\ i'[p] = i[p] /\ args'[p] = args[p]
      /\ img'[p] = img[p] /\ nsz'[p] = nsz[p] /\ npte'[p] = npte[p] /\ ntabs'[p] = ntabs[p]
      /\ free' = free /\ free \in Nat /\ TeardownComplete'
  BY DEF ExecCall, exec, VmIInv, TeardownComplete
<1>4. /\ i[p] \in Nat /\ args[p] \in 0..MAXARG /\ nsz[p] \in 0..SZMAX
      /\ img[p] \in Seq(1..SZMAX) /\ IsTable(npte[p]) /\ ntabs[p] \subseteq AllTabs
      /\ i[p] = 0 /\ nsz[p] = 0 /\ npte[p] = Empty /\ ntabs[p] = {} /\ img[p] = <<>>
  BY <1>1, Mine DEF Typed, Blank
<1>5. Building(p)'
  BY <1>1 DEF Building
<1> QED
  BY <1>1, <1>2, <1>3, <1>4, <1>5, ExecStep

\* sys_exec() takes a page for an argument.
LEMMA ExecArgStep ==
  ASSUME VmIInv, NEW p \in Procs, ExecArg(p)
  PROVE  VmIInv'
<1>1. /\ pc[p] = "args" /\ pc'[p] = "args" /\ args'[p] = args[p] + 1 /\ args[p] < MAXARG
      /\ free' = free - 1 /\ free > 0
  BY DEF ExecArg, VmIInv, Shapes
<1>2. Shapes' /\ \A r \in Procs \ {p} : Same(r)
  BY DEF ExecArg, VmIInv, Shapes, Same
<1>3. /\ kp'[p] = kp[p] /\ sz'[p] = sz[p] /\ pte'[p] = pte[p] /\ tabs'[p] = tabs[p]
      /\ np'[p] = np[p] /\ guard'[p] = guard[p] /\ i'[p] = i[p]
      /\ img'[p] = img[p] /\ nsz'[p] = nsz[p] /\ npte'[p] = npte[p] /\ ntabs'[p] = ntabs[p]
      /\ TeardownComplete'
  BY DEF ExecArg, VmIInv, TeardownComplete
<1>4. /\ i[p] \in Nat /\ args[p] \in 0..MAXARG /\ nsz[p] \in 0..SZMAX
      /\ img[p] \in Seq(1..SZMAX) /\ IsTable(npte[p]) /\ ntabs[p] \subseteq AllTabs
      /\ i[p] = 0 /\ nsz[p] = 0 /\ npte[p] = Empty /\ ntabs[p] = {} /\ img[p] = <<>>
  BY <1>1, Mine DEF Typed, Blank
<1>5. /\ Cardinality(DOMAIN npte[p]) \in Nat /\ Cardinality(ntabs[p]) \in Nat /\ free \in Nat
  BY Mine
<1>6. args'[p] \in 0..MAXARG /\ free' \in Nat
      /\ free' + args'[p] + Cardinality(DOMAIN npte'[p]) + Cardinality(ntabs'[p])
           = free + args[p] + Cardinality(DOMAIN npte[p]) + Cardinality(ntabs[p])
  <2> DEFINE A == Cardinality(DOMAIN npte[p])
             B == Cardinality(ntabs[p])
             f == free
             a == args[p]
  <2>1. /\ A \in Nat /\ B \in Nat /\ f \in Nat /\ f > 0 /\ a \in 0..MAXARG /\ a < MAXARG
        /\ MAXARG \in Nat
    BY <1>1, <1>4, <1>5, Sizes
  <2> HIDE DEF A, B, f, a
  <2>2. a + 1 \in 0..MAXARG /\ f - 1 \in Nat /\ (f - 1) + (a + 1) + A + B = f + a + A + B
    BY <2>1
  <2> QED
    BY <1>1, <1>3, <2>2 DEF A, B, f, a
<1>7. Building(p)'
  BY <1>1 DEF Building
<1> QED
  BY <1>1, <1>2, <1>3, <1>4, <1>6, <1>7, ExecStep

\* sys_exec() fails before exec().
LEMMA ExecArgBadStep ==
  ASSUME VmIInv, NEW p \in Procs, ExecArgBad(p)
  PROVE  VmIInv'
<1>1. pc[p] = "args" /\ panic = "none" /\ ExecBad(p, 0, npte[p], 0)
  BY DEF ExecArgBad
<1>2. npte[p] = Empty /\ IsTable(npte[p]) /\ Cardinality(DOMAIN npte[p]) \in Nat
  BY <1>1, Mine DEF Typed, Blank
<1> DEFINE n == 0
<1>3. n \in Nat /\ n + Cardinality(DOMAIN npte[p]) = Cardinality(DOMAIN npte[p])
      /\ DOMAIN npte[p] \subseteq 0..(PGROUNDUP(n) - 1) /\ ExecBad(p, n, npte[p], n)
  BY <1>1, <1>2, EmptyTable
<1> HIDE DEF n
<1> QED
  BY <1>1, <1>2, <1>3, ExecBadStep

\* exec() up to proc_pagetable().
LEMMA ExecOpenStep ==
  ASSUME VmIInv, NEW p \in Procs, NEW im \in Images, ExecOpen(p, im)
  PROVE  VmIInv'
<1>1. /\ pc[p] = "args" /\ pc'[p] = "load" /\ free >= 3 /\ free' = free - 3
      /\ ntabs'[p] = RootTabs /\ img'[p] = im
  BY Roots DEF ExecOpen, VmIInv, Shapes
<1>2. Shapes' /\ \A r \in Procs \ {p} : Same(r)
  BY DEF ExecOpen, VmIInv, Shapes, Same
<1>3. /\ kp'[p] = kp[p] /\ sz'[p] = sz[p] /\ pte'[p] = pte[p] /\ tabs'[p] = tabs[p]
      /\ np'[p] = np[p] /\ guard'[p] = guard[p] /\ i'[p] = i[p] /\ args'[p] = args[p]
      /\ nsz'[p] = nsz[p] /\ npte'[p] = npte[p] /\ TeardownComplete'
  BY DEF ExecOpen, VmIInv, TeardownComplete
<1>4. /\ i[p] \in Nat /\ args[p] \in 0..MAXARG /\ nsz[p] \in 0..SZMAX /\ IsTable(npte[p])
      /\ i[p] = 0 /\ nsz[p] = 0 /\ npte[p] = Empty /\ ntabs[p] = {} /\ img[p] = <<>>
      /\ free \in Nat /\ args[p] \in Nat
  BY <1>1, Mine DEF Typed, Blank
<1>5. im \in Seq(1..SZMAX)
  BY VmConstants
<1>6. /\ free' \in Nat
      /\ free' + args'[p] + Cardinality(DOMAIN npte'[p]) + Cardinality(ntabs'[p])
           = free + args[p] + Cardinality(DOMAIN npte[p]) + Cardinality(ntabs[p])
  BY <1>1, <1>3, <1>4, Roots, EmptyTable
<1>7. Building(p)'
  <2>1. PGROUNDUP(0) = 0
    BY RoundPages, Sizes, 0 * PGSIZE = 0
  <2>2. NewSize(p)' = IF im # <<>> THEN Head(im) ELSE (0 + 2) * PGSIZE
    BY <1>1, <1>3, <1>4, <2>1 DEF NewSize
  <2>3. NewSize(p)' \in Nat
    BY <1>5, <2>2, Sizes
  <2>4. PGROUNDUP(NewSize(p)') \in Nat
    BY <2>3, Round
  <2>5. PGROUNDUP(NewSize(p))' = PGROUNDUP(NewSize(p)')
    BY DEF PGROUNDUP
  <2> QED
    BY <1>1, <1>3, <1>4, <2>1, <2>4, <2>5, EmptyTable DEF Building, Larger
<1> QED
  BY <1>1, <1>2, <1>3, <1>4, <1>5, <1>6, <1>7, Roots, ExecStep

\* The size that the uvmalloc() exec() is in is to reach.
LEMMA NewSizeFacts ==
  ASSUME VmIInv, NEW p \in Procs, pc[p] = "load"
  PROVE  LET c == PGROUNDUP(nsz[p])
             n == PGROUNDUP(NewSize(p))
         IN
         /\ nsz[p] \in 0..SZMAX /\ NewSize(p) \in Nat /\ c \in Nat /\ n \in Nat
         /\ PGROUNDUP(SZMAX) \in Nat /\ c <= PGROUNDUP(SZMAX) /\ n <= PGROUNDUP(SZMAX) + 2
         /\ img[p] # <<>> => NewSize(p) \in 1..SZMAX
         /\ img[p] = <<>> => n = c + 2
         /\ IsTable(npte[p]) /\ i[p] \in Nat /\ DOMAIN npte[p] = 0..(i[p] - 1)
         /\ c <= i[p] /\ i[p] <= Larger(c, n) /\ (Grown(p) <=> i[p] >= n)
<1> DEFINE c == PGROUNDUP(nsz[p])
           n == PGROUNDUP(NewSize(p))
<1>1. /\ nsz[p] \in 0..SZMAX /\ img[p] \in Seq(1..SZMAX) /\ IsTable(npte[p]) /\ i[p] \in Nat
      /\ DOMAIN npte[p] = 0..(i[p] - 1) /\ c <= i[p] /\ i[p] <= Larger(c, n)
  BY Mine DEF Typed, Building
<1>2. /\ c \in Nat /\ PGROUNDUP(SZMAX) \in Nat /\ c <= PGROUNDUP(SZMAX)
  <2>1. nsz[p] \in Nat /\ SZMAX \in Nat /\ nsz[p] <= SZMAX
    BY <1>1, Sizes
  <2> QED
    BY <2>1, Round, RoundOrder
<1>3. CASE img[p] # <<>>
  <2>5. \A s \in Seq(1..SZMAX) : s # <<>> => Head(s) \in 1..SZMAX
    BY HeadTailProperties
  <2>1. NewSize(p) \in 1..SZMAX
    BY <1>1, <1>3, <2>5 DEF NewSize
  <2>2. n \in Nat /\ n <= PGROUNDUP(SZMAX) /\ NewSize(p) \in Nat
    BY <2>1, Round, RoundOrder, Sizes
  <2>3. Grown(p) <=> i[p] >= n
    BY <1>1, <2>2, Round DEF Grown
  <2> HIDE DEF c, n
  <2>4. n <= PGROUNDUP(SZMAX) + 2
    BY <1>2, <2>2
  <2> QED
    BY <1>1, <1>2, <1>3, <2>1, <2>2, <2>3, <2>4 DEF c, n
<1>4. CASE img[p] = <<>>
  <2>1. NewSize(p) = (c + 2) * PGSIZE
    BY <1>4 DEF NewSize
  <2>2. c + 2 \in Nat /\ (c + 2) * PGSIZE \in Nat
    BY <1>2, Sizes
  <2>3. n = c + 2
    BY <2>1, <2>2, RoundPages
  <2>4. Grown(p) <=> i[p] >= n
    BY <1>1, <2>1, <2>2, Round DEF Grown
  <2> HIDE DEF c, n
  <2>5. n \in Nat /\ n <= PGROUNDUP(SZMAX) + 2
    BY <1>2, <2>3
  <2> QED
    BY <1>1, <1>2, <1>4, <2>1, <2>2, <2>3, <2>4, <2>5 DEF c, n
<1> QED
  BY <1>3, <1>4

\* uvmalloc() maps a page of the new image, or gives back the pages it mapped.
LEMMA ExecAllocStep ==
  ASSUME VmIInv, NEW p \in Procs, ExecAlloc(p)
  PROVE  VmIInv'
<1> DEFINE v == i[p]
           c == PGROUNDUP(nsz[p])
           n == PGROUNDUP(NewSize(p))
           m == MapNew(ntabs[p], free, v)
           e == [u |-> TRUE, word |-> 0]
           t2 == mappages(npte[p], v, e)
<1>1. panic = "none" /\ pc[p] = "load" /\ ~ Grown(p)
  BY DEF ExecAlloc, Loading
<1>2. /\ nsz[p] \in 0..SZMAX /\ NewSize(p) \in Nat /\ c \in Nat /\ n \in Nat
      /\ PGROUNDUP(SZMAX) \in Nat /\ n <= PGROUNDUP(SZMAX) + 2
      /\ IsTable(npte[p]) /\ v \in Nat /\ DOMAIN npte[p] = 0..(v - 1) /\ c <= v /\ v < n
  BY <1>1, NewSizeFacts
<1>5. e \in Entries
  BY VmConstants DEF Entries, Data
<1>6. /\ Cardinality(DOMAIN npte[p]) \in Nat /\ Cardinality(ntabs[p]) \in Nat /\ free \in Nat
      /\ IsFiniteSet(DOMAIN npte[p]) /\ IsFiniteSet(ntabs[p]) /\ args[p] \in Nat
      /\ args[p] \in 0..MAXARG /\ img[p] \in Seq(1..SZMAX) /\ ntabs[p] \subseteq AllTabs
  BY Mine DEF Typed
<1>3. CASE m.ok
  <2>1. v \in UserPages
    BY <1>2 DEF UserPages
  <2>2. LeafTab(v) \in AllTabs /\ MidTab \in AllTabs
    BY <2>1 DEF AllTabs
  <2>3. /\ m.free \in Nat /\ IsFiniteSet(m.tabs) /\ m.tabs \subseteq AllTabs
        /\ Cardinality(m.tabs) \in Nat
        /\ m.free + Cardinality(m.tabs) + 1 = free + Cardinality(ntabs[p])
    <3>1. /\ m.free \in Nat /\ IsFiniteSet(m.tabs)
          /\ m.tabs \subseteq ntabs[p] \cup {MidTab, LeafTab(v)}
          /\ m.free + Cardinality(m.tabs) + (IF m.ok THEN 1 ELSE 0)
               = free + Cardinality(ntabs[p])
      BY <2>1, <1>6, MapNewCost
    <3> QED
      BY <1>3, <1>6, <2>2, <3>1, FS_CardinalityType
  <2>4. IsTable(t2) /\ DOMAIN t2 = DOMAIN npte[p] \cup {v}
    <3> HIDE DEF v, e
    <3> QED
      BY <1>2, <1>5, <2>1, Maps
  <2>5. /\ pc'[p] = "load" /\ free' = m.free /\ ntabs'[p] = m.tabs /\ npte'[p] = t2
        /\ i'[p] = v + 1
    BY <1>1, <1>3 DEF ExecAlloc, VmIInv, Shapes
  <2>6. Shapes' /\ \A r \in Procs \ {p} : Same(r)
    BY <1>3 DEF ExecAlloc, VmIInv, Shapes, Same
  <2>7. /\ kp'[p] = kp[p] /\ sz'[p] = sz[p] /\ pte'[p] = pte[p] /\ tabs'[p] = tabs[p]
        /\ np'[p] = np[p] /\ guard'[p] = guard[p] /\ args'[p] = args[p] /\ img'[p] = img[p]
        /\ nsz'[p] = nsz[p] /\ TeardownComplete'
    BY <1>3 DEF ExecAlloc, VmIInv, TeardownComplete
  <2>8. DOMAIN t2 = 0..((v + 1) - 1)
    <3>1. v \in Nat /\ DOMAIN t2 = 0..(v - 1) \cup {v}
      BY <1>2, <2>4
    <3> HIDE DEF v, t2
    <3> QED
      BY <3>1
  <2>9. v \notin DOMAIN npte[p]
    BY <1>2
  <2>10. Cardinality(DOMAIN t2) = Cardinality(DOMAIN npte[p]) + 1
    BY <1>6, <2>4, <2>9, FS_AddElement
  <2>11. Building(p)'
    <3>1. /\ PGROUNDUP(NewSize(p))' = n /\ PGROUNDUP(nsz[p])' = c
      BY <2>7 DEF NewSize, PGROUNDUP
    <3> HIDE DEF n, c, t2
    <3>2. v + 1 <= Larger(c, n) /\ c <= v + 1
      BY <1>2 DEF Larger
    <3>3. PGROUNDUP(nsz'[p]) = c
      BY <2>7 DEF c
    <3> QED
      BY <2>5, <2>8, <3>1, <3>2, <3>3 DEF Building, Larger
  <2> HIDE DEF m, t2
  <2>12. free' \in Nat
         /\ free' + args'[p] + Cardinality(DOMAIN npte'[p]) + Cardinality(ntabs'[p])
              = free + args[p] + Cardinality(DOMAIN npte[p]) + Cardinality(ntabs[p])
    <3>1. /\ free' = m.free /\ args'[p] = args[p] /\ npte'[p] = t2 /\ ntabs'[p] = m.tabs
      BY <2>5, <2>7
    <3> DEFINE A == Cardinality(DOMAIN npte[p])
               B == Cardinality(ntabs[p])
               C == Cardinality(m.tabs)
    <3>2. /\ A \in Nat /\ B \in Nat /\ C \in Nat /\ free \in Nat /\ args[p] \in Nat
          /\ m.free \in Nat /\ m.free + C + 1 = free + B /\ Cardinality(DOMAIN t2) = A + 1
      BY <1>6, <2>3, <2>10
    <3> HIDE DEF A, B, C
    <3>3. m.free + args[p] + (A + 1) + C = free + args[p] + A + B
      BY ONLY <3>2
    <3> QED
      BY <3>1, <3>2, <3>3 DEF A, B, C
  <2>13. /\ i'[p] \in Nat /\ args'[p] \in 0..MAXARG /\ nsz'[p] \in 0..SZMAX
         /\ img'[p] \in Seq(1..SZMAX) /\ IsTable(npte'[p]) /\ ntabs'[p] \subseteq AllTabs
    <3>1. v + 1 \in Nat
      BY <1>2
    <3> HIDE DEF v, c, n, e
    <3> QED
      BY <1>2, <1>6, <2>3, <2>4, <2>5, <2>7, <3>1
  <2> QED
    BY <1>1, <2>5, <2>6, <2>7, <2>11, <2>12, <2>13, ExecStep
<1>4. CASE ~ m.ok
  <2> DEFINE t == AllocUndo(p)
             k == Cardinality(DOMAIN npte[p]) - Cardinality(DOMAIN t)
  <2>1. ExecBad(p, k, t, nsz[p])
    BY <1>4 DEF ExecAlloc
  <2>2. v * PGSIZE \in Nat /\ c * PGSIZE \in Nat
    <3>1. v \in Nat /\ c \in Nat /\ PGSIZE \in Nat
      BY <1>2, Sizes
    <3> HIDE DEF v, c
    <3> QED
      BY <3>1
  <2>3. PGROUNDUP(v * PGSIZE) = v /\ PGROUNDUP(c * PGSIZE) = c
    BY <1>2, RoundPages
  <2>4. IsTable(t) /\ DOMAIN t = DOMAIN npte[p] \cap 0..(c - 1)
    <3> DEFINE old == v * PGSIZE
               new == c * PGSIZE
               s == npte[p]
    <3>1. /\ old \in Nat /\ new \in Nat /\ PGROUNDUP(old) = v /\ PGROUNDUP(new) = c
          /\ t = uvmdealloc(s, old, new) /\ IsTable(s)
      BY <1>2, <2>2, <2>3 DEF AllocUndo
    <3>2. DOMAIN s \subseteq 0..(PGROUNDUP(old) - 1)
      BY <1>2, <2>3
    <3> HIDE DEF old, new, s, t
    <3>3. /\ IsTable(uvmdealloc(s, old, new))
          /\ DOMAIN uvmdealloc(s, old, new) = DOMAIN s \cap 0..(PGROUNDUP(new) - 1)
      BY ONLY <3>1, <3>2, Dealloc
    <3> QED
      BY <3>1, <3>3 DEF s
  <2> HIDE DEF t
  <2>5. /\ Cardinality(DOMAIN t) \in Nat /\ Cardinality(DOMAIN npte[p]) \in Nat
        /\ Cardinality(DOMAIN t) <= Cardinality(DOMAIN npte[p])
    <3>1. DOMAIN t \subseteq DOMAIN npte[p] /\ IsFiniteSet(DOMAIN npte[p])
      BY <2>4, Mine
    <3> QED
      BY <3>1, FS_Subset, FS_CardinalityType
  <2>6. k \in Nat /\ k + Cardinality(DOMAIN t) = Cardinality(DOMAIN npte[p])
    BY <2>5
  <2> HIDE DEF k
  <2>7. nsz[p] \in Nat /\ DOMAIN t \subseteq 0..(PGROUNDUP(nsz[p]) - 1)
    BY <1>2, <2>4, Sizes
  <2> QED
    BY <1>1, <2>1, <2>4, <2>6, <2>7, ExecBadStep
<1> QED
  BY <1>3, <1>4

\* Rounding keeps the larger of two sizes the larger.
LEMMA RoundLarger ==
  ASSUME NEW a \in Nat, NEW b \in Nat
  PROVE  PGROUNDUP(Larger(a, b)) = Larger(PGROUNDUP(a), PGROUNDUP(b))
<1>1. PGROUNDUP(a) \in Nat /\ PGROUNDUP(b) \in Nat
  BY Round
<1>2. CASE a < b
  BY <1>1, <1>2, RoundOrder DEF Larger
<1>3. CASE a >= b
  BY <1>1, <1>3, RoundOrder DEF Larger
<1> QED
  BY <1>2, <1>3

\* loadseg() finds the pages of the segment mapped.
LEMMA ExecSegmentStep ==
  ASSUME VmIInv, NEW p \in Procs, NEW first \in UserPages, NEW w \in Words,
         ExecSegment(p, first, w)
  PROVE  VmIInv'
<1> DEFINE c == PGROUNDUP(nsz[p])
           n == PGROUNDUP(NewSize(p))
           seg == first..(n - 1)
           t == npte[p]
           t2 == [x \in DOMAIN t |-> IF x \in seg THEN [t[x] EXCEPT !.word = w] ELSE t[x]]
<1>1. panic = "none" /\ pc[p] = "load" /\ Grown(p) /\ img[p] # <<>>
  BY DEF ExecSegment, Loading
<1>2. /\ nsz[p] \in 0..SZMAX /\ NewSize(p) \in 1..SZMAX /\ c \in Nat /\ n \in Nat
      /\ IsTable(t) /\ i[p] \in Nat /\ DOMAIN t = 0..(i[p] - 1) /\ c <= i[p]
      /\ i[p] <= Larger(c, n) /\ i[p] >= n
  BY <1>1, NewSizeFacts
<1>3. /\ pc'[p] = "load" /\ nsz'[p] = SegSize(p) /\ img'[p] = Tail(img[p]) /\ npte'[p] = t2
      /\ panic' = IF seg \subseteq DOMAIN t THEN panic ELSE "loadseg: address should exist"
  BY <1>1 DEF ExecSegment, VmIInv, Shapes
<1>4. Shapes' /\ \A r \in Procs \ {p} : Same(r)
  BY DEF ExecSegment, VmIInv, Shapes, Same
<1>5. /\ kp'[p] = kp[p] /\ sz'[p] = sz[p] /\ pte'[p] = pte[p] /\ tabs'[p] = tabs[p]
      /\ np'[p] = np[p] /\ guard'[p] = guard[p] /\ args'[p] = args[p] /\ i'[p] = i[p]
      /\ ntabs'[p] = ntabs[p] /\ free' = free
  BY DEF ExecSegment
<1>6. IsTable(t2) /\ DOMAIN t2 = DOMAIN t
  <2>1. \A x \in DOMAIN t : t2[x] \in Entries
    BY <1>2 DEF IsTable, Entries, Data
  <2> QED
    BY <1>2, <2>1 DEF IsTable
<1>7. TeardownComplete'
  <2>1. first \in Nat
    BY Round, Sizes DEF UserPages
  <2>2. seg \subseteq DOMAIN t
    <3> HIDE DEF n
    <3> QED
      BY <1>2, <2>1
  <2> QED
    BY <1>1, <1>3, <2>2 DEF TeardownComplete
<1>8. /\ SegSize(p) \in 0..SZMAX /\ PGROUNDUP(SegSize(p)) = Larger(c, n)
  <2>1. SegSize(p) = Larger(NewSize(p), nsz[p]) /\ NewSize(p) \in Nat /\ nsz[p] \in Nat
    BY <1>2, Sizes DEF SegSize, Larger
  <2>2. PGROUNDUP(SegSize(p)) = Larger(n, c)
    BY <2>1, RoundLarger
  <2>3. Larger(n, c) = Larger(c, n)
    <3> HIDE DEF n, c
    <3> QED
      BY <1>2 DEF Larger
  <2> QED
    BY <1>2, <2>2, <2>3 DEF SegSize
<1>9. /\ args[p] \in 0..MAXARG /\ img[p] \in Seq(1..SZMAX) /\ ntabs[p] \subseteq AllTabs
      /\ free \in Nat
  BY Mine DEF Typed
<1>10. Tail(img[p]) \in Seq(1..SZMAX)
  BY <1>1, <1>9, HeadTailProperties
<1> HIDE DEF t2, c, n
<1>11. Building(p)'
  <2>1. NewSize(p)' \in Nat
    <3>1. NewSize(p)' = IF Tail(img[p]) # <<>> THEN Head(Tail(img[p]))
                         ELSE (PGROUNDUP(SegSize(p)) + 2) * PGSIZE
      BY <1>3 DEF NewSize
    <3>2. CASE Tail(img[p]) # <<>>
      <4>1. Head(Tail(img[p])) \in 1..SZMAX
        BY <1>10, <3>2, HeadTailProperties
      <4> QED
        BY <3>1, <3>2, <4>1, Sizes
    <3>3. CASE Tail(img[p]) = <<>>
      <4> DEFINE k == PGROUNDUP(SegSize(p)) + 2
      <4>1. k \in Nat /\ PGSIZE \in Nat
        BY <1>2, <1>8, Sizes DEF Larger
      <4>2. NewSize(p)' = k * PGSIZE
        BY <3>1, <3>3
      <4> HIDE DEF k
      <4> QED
        BY <4>1, <4>2
    <3> QED
      BY <3>2, <3>3
  <2>2. PGROUNDUP(NewSize(p)') \in Nat /\ PGROUNDUP(NewSize(p))' = PGROUNDUP(NewSize(p)')
    BY <2>1, Round DEF PGROUNDUP
  <2>3. PGROUNDUP(nsz'[p]) = Larger(c, n) /\ PGROUNDUP(nsz[p])' = PGROUNDUP(nsz'[p])
    BY <1>3, <1>8 DEF PGROUNDUP
  <2>4. Larger(c, n) <= i[p] /\ Larger(c, n) \in Nat
    BY <1>2 DEF Larger
  <2>5. i[p] <= Larger(Larger(c, n), PGROUNDUP(NewSize(p)'))
    BY <1>2, <2>2, <2>4 DEF Larger
  <2> QED
    BY <1>2, <1>3, <1>5, <1>6, <2>2, <2>3, <2>4, <2>5 DEF Building
<1>12. /\ i'[p] \in Nat /\ args'[p] \in 0..MAXARG /\ nsz'[p] \in 0..SZMAX
       /\ img'[p] \in Seq(1..SZMAX) /\ IsTable(npte'[p]) /\ ntabs'[p] \subseteq AllTabs
  BY <1>2, <1>3, <1>5, <1>6, <1>8, <1>9, <1>10
<1>13. free' \in Nat
       /\ free' + args'[p] + Cardinality(DOMAIN npte'[p]) + Cardinality(ntabs'[p])
            = free + args[p] + Cardinality(DOMAIN npte[p]) + Cardinality(ntabs[p])
  BY <1>3, <1>5, <1>6, <1>9
<1> QED
  BY <1>1, <1>3, <1>4, <1>5, <1>7, <1>11, <1>12, <1>13, ExecStep

\* exec() fails with the size of the pages it has mapped.
LEMMA ExecLateBad ==
  ASSUME VmIInv, NEW p \in Procs, pc[p] = "load", panic = "none", NEW size \in Nat,
         i[p] <= PGROUNDUP(size), ExecBad(p, 0, npte[p], size)
  PROVE  VmIInv'
<1>1. IsTable(npte[p]) /\ i[p] \in Nat /\ DOMAIN npte[p] = 0..(i[p] - 1)
  BY NewSizeFacts
<1>2. PGROUNDUP(size) \in Nat /\ Cardinality(DOMAIN npte[p]) \in Nat
  BY Round, Mine
<1>3. DOMAIN npte[p] \subseteq 0..(PGROUNDUP(size) - 1)
  BY <1>1, <1>2
<1> DEFINE k == 0
<1>4. k \in Nat /\ k + Cardinality(DOMAIN npte[p]) = Cardinality(DOMAIN npte[p])
      /\ ExecBad(p, k, npte[p], size)
  BY <1>2
<1> HIDE DEF k
<1> QED
  BY <1>1, <1>3, <1>4, ExecBadStep

\* A segment that cannot be loaded.
LEMMA ExecSegmentBadStep ==
  ASSUME VmIInv, NEW p \in Procs, ExecSegmentBad(p)
  PROVE  VmIInv'
<1> DEFINE c == PGROUNDUP(nsz[p])
           n == PGROUNDUP(NewSize(p))
<1>1. panic = "none" /\ pc[p] = "load" /\ img[p] # <<>> /\ ExecBad(p, 0, npte[p], SegSize(p))
  BY DEF ExecSegmentBad, Loading
<1>2. /\ nsz[p] \in 0..SZMAX /\ NewSize(p) \in Nat /\ c \in Nat /\ n \in Nat
      /\ i[p] <= Larger(c, n)
  BY <1>1, NewSizeFacts
<1>3. SegSize(p) = Larger(NewSize(p), nsz[p]) /\ nsz[p] \in Nat
  BY <1>2, Sizes DEF SegSize, Larger
<1>4. PGROUNDUP(SegSize(p)) = Larger(n, c) /\ SegSize(p) \in Nat
  BY <1>2, <1>3, RoundLarger DEF Larger
<1>5. Larger(n, c) = Larger(c, n)
  <2> HIDE DEF n, c
  <2> QED
    BY <1>2 DEF Larger
<1> QED
  BY <1>1, <1>2, <1>4, <1>5, ExecLateBad

\* The arguments do not fit.
LEMMA ExecStackBadStep ==
  ASSUME VmIInv, NEW p \in Procs, ExecStackBad(p)
  PROVE  VmIInv'
<1> DEFINE c == PGROUNDUP(nsz[p])
           n == PGROUNDUP(NewSize(p))
<1>1. panic = "none" /\ pc[p] = "load" /\ img[p] = <<>> /\ ExecBad(p, 0, npte[p], NewSize(p))
  BY DEF ExecStackBad, Loading
<1>2. /\ NewSize(p) \in Nat /\ c \in Nat /\ n = c + 2 /\ i[p] <= Larger(c, n)
  BY <1>1, NewSizeFacts
<1>3. i[p] <= n
  <2> HIDE DEF n, c
  <2> QED
    BY <1>2 DEF Larger
<1> QED
  BY <1>1, <1>2, <1>3, ExecLateBad

\* exec() commits: the new image has a guard page below its stack, and the old one
\* is freed whole.
LEMMA ExecCommitStep ==
  ASSUME VmIInv, NEW p \in Procs, ExecCommit(p)
  PROVE  VmIInv'
<1> DEFINE g == PGROUNDUP(nsz[p])
           n == PGROUNDUP(NewSize(p))
           t == npte[p]
           t2 == [t EXCEPT ![g].u = FALSE]
<1>1. panic = "none" /\ pc[p] = "load" /\ Grown(p) /\ img[p] = <<>>
  BY DEF ExecCommit, Loading
<1>2. /\ NewSize(p) \in Nat /\ g \in Nat /\ n = g + 2 /\ n \in Nat /\ PGROUNDUP(SZMAX) \in Nat
      /\ n <= PGROUNDUP(SZMAX) + 2 /\ g <= PGROUNDUP(SZMAX)
      /\ IsTable(t) /\ i[p] \in Nat /\ DOMAIN t = 0..(i[p] - 1)
      /\ i[p] <= Larger(g, n) /\ i[p] >= n
  BY <1>1, NewSizeFacts
<1>3. i[p] = n /\ g \in DOMAIN t /\ g \in UserPages /\ DOMAIN t = 0..(n - 1)
  <2> HIDE DEF g, n
  <2> QED
    BY <1>2 DEF Larger, UserPages
<1>4. /\ pc'[p] = "user" /\ pte'[p] = t2 /\ tabs'[p] = ntabs[p] /\ sz'[p] = NewSize(p)
      /\ guard'[p] = g /\ args'[p] = 0 /\ img'[p] = <<>> /\ nsz'[p] = 0 /\ npte'[p] = Empty
      /\ ntabs'[p] = {} /\ i'[p] = 0 /\ kp'[p] = kp[p] /\ np'[p] = np[p]
      /\ free' = free + args[p] + PagesOf(pte[p], tabs[p])
      /\ StopIfLeaf(LeftAfter(pte[p], sz[p]))
  BY DEF ExecCommit, ExecReset, VmIInv, Shapes
<1>5. Shapes' /\ \A r \in Procs \ {p} : Same(r)
  BY DEF ExecCommit, ExecReset, VmIInv, Shapes, Same
<1>6. /\ Typed(p) /\ Blank(p) /\ Covered(p) /\ IsTable(pte[p]) /\ sz[p] \in Nat
      /\ ntabs[p] \subseteq AllTabs
  BY Mine DEF Typed
<1>7. TeardownComplete'
  <2>1. DOMAIN LeftAfter(pte[p], sz[p]) = {}
    BY <1>1, <1>6, NothingLeft DEF Covered
  <2> QED
    BY <1>1, <1>4, <2>1 DEF StopIfLeaf, TeardownComplete
<1>8. IsTable(t2) /\ DOMAIN t2 = DOMAIN t /\ ~ t2[g].u
  <2> HIDE DEF g, t
  <2>1. \A x \in DOMAIN t : t2[x] \in Entries
    BY <1>2, <1>3 DEF IsTable, Entries
  <2>2. t[g] \in Entries
    BY <1>2, <1>3 DEF IsTable
  <2> QED
    BY <1>2, <1>3, <2>1, <2>2 DEF IsTable, Entries
<1> HIDE DEF t2
<1>9. Typed(p)'
  <2>1. 0 \in 0..MAXARG /\ 0 \in 0..SZMAX /\ 0 \in Nat /\ <<>> \in Seq(1..SZMAX)
    BY Sizes
  <2>2. PGROUNDUP(sz'[p]) <= PGROUNDUP(SZMAX) + 2
    BY <1>2, <1>4
  <2> HIDE DEF g, t
  <2> QED
    BY <1>1, <1>2, <1>3, <1>4, <1>6, <1>8, <2>1, <2>2, EmptyTable DEF Typed, VmPcs
<1>10. Blank(p)' /\ Covered(p)' /\ Building(p)' /\ Guarded(p)'
  <2>1. Blank(p)' /\ Building(p)'
    BY <1>4 DEF Blank, Building
  <2>2. Covered(p)'
    BY <1>3, <1>4, <1>8 DEF Covered
  <2>3. Guarded(p)'
    <3> HIDE DEF g
    <3> QED
      BY <1>3, <1>4, <1>8 DEF Guarded
  <2> QED
    BY <2>1, <2>2, <2>3
<1>11. free' \in Nat /\ free' + Count(p)' = free + Count(p)
  <2> DEFINE A == Cardinality(DOMAIN npte[p])
             B == Cardinality(ntabs[p])
             C == Cardinality(DOMAIN pte[p])
             D == Cardinality(tabs[p])
  <2>1. /\ A \in Nat /\ B \in Nat /\ C \in Nat /\ D \in Nat /\ kp[p] \in Nat /\ args[p] \in Nat
        /\ free \in Nat
    BY Mine
  <2>2. /\ Count(p) = kp[p] + args[p] + C + D + A + B
        /\ Count(p)' = kp[p] + 0 + A + B + 0 + 0
        /\ free' = free + args[p] + (C + D)
    BY <1>4, <1>8, EmptyTable DEF Count, PagesOf
  <2> HIDE DEF A, B, C, D
  <2>3. /\ free + args[p] + (C + D) \in Nat
        /\ free + args[p] + (C + D) + (kp[p] + 0 + A + B + 0 + 0)
             = free + (kp[p] + args[p] + C + D + A + B)
    BY ONLY <2>1
  <2> QED
    BY <2>2, <2>3
<1> QED
  BY <1>1, <1>4, <1>5, <1>7, <1>9, <1>10, <1>11, StepOfOne DEF Local

-----------------------------------------------------------------------------
(* The invariant *)

\* At the start init has the pages of userinit() and no other slot has any.
LEMMA InitVm == Init => VmIInv
<1> SUFFICES ASSUME Init PROVE VmIInv
  OBVIOUS
<1> DEFINE t == [v \in {0} |-> [u |-> TRUE, word |-> 0]]
           tb == RootTabs \cup {MidTab, LeafTab(0)}
<1>1. InitProc \in Procs /\ PGSIZE \in Nat /\ PGSIZE >= 1
  BY Sizes DEF InitProc, Procs
<1>2. PGROUNDUP(PGSIZE) = 1 /\ PGROUNDUP(0) = 0 /\ PGROUNDUP(SZMAX) \in Nat
  <2>1. 1 * PGSIZE = PGSIZE /\ 0 * PGSIZE = 0 /\ 1 \in Nat /\ 0 \in Nat
    BY <1>1
  <2> QED
    BY <2>1, RoundPages, Round, Sizes
<1>3. 0 \in UserPages /\ LeafTab(0) = 4 /\ tb \subseteq AllTabs /\ 4 \in AllTabs
  <2>1. 0 \in UserPages
    BY <1>2 DEF UserPages
  <2>2. LeafTab(0) = 4
    BY Sizes DEF LeafTab
  <2>3. LeafTab(0) \in AllTabs
    BY <2>1 DEF AllTabs
  <2> QED
    BY <2>1, <2>2, <2>3 DEF AllTabs
<1>4. IsTable(t) /\ DOMAIN t = {0}
  BY <1>3, VmConstants DEF IsTable, Entries, Data
<1>5. Cardinality(DOMAIN t) = 1 /\ Cardinality(tb) = 5
  <2>1. tb = 0..4
    BY <1>3 DEF RootTabs, MidTab
  <2> DEFINE k == 4
  <2>2. k \in Nat
    OBVIOUS
  <2> HIDE DEF k
  <2>3. Cardinality(0..k) = k + 1
    BY <2>2, FS_Interval
  <2> QED
    BY <1>4, <2>1, <2>3, FS_Singleton DEF k
<1>6. free = NFRAMES - KPAGES - 6 /\ free \in Nat
  <2>1. pte[InitProc] = t /\ tabs[InitProc] = tb
    BY <1>1 DEF Init
  <2>2. free = NFRAMES - KPAGES - (1 + 5)
    BY <1>5, <2>1 DEF Init, PagesOf
  <2> QED
    BY <2>2, VmConstants
<1>7. Shapes /\ OneParent /\ TeardownComplete
  BY DEF Init, Shapes, OneParent, TeardownComplete
<1>8. ASSUME NEW p \in Procs PROVE Typed(p) /\ Blank(p) /\ Covered(p) /\ Building(p) /\ Guarded(p)
                                   /\ Forking(p)
  <2>1. /\ np[p] = 0 /\ i[p] = 0 /\ args[p] = 0 /\ img[p] = <<>> /\ nsz[p] = 0
        /\ npte[p] = Empty /\ ntabs[p] = {} /\ guard[p] = NoGuard
    BY <1>8 DEF Init
  <2>2. 0 \in 0..NPROC /\ 0 \in 0..MAXARG /\ 0 \in 0..SZMAX /\ 0 \in Nat
    BY Sizes
  <2>3. CASE p = InitProc
    <3>1. /\ kp[p] = KPAGES /\ pc[p] = "user" /\ sz[p] = PGSIZE /\ pte[p] = t /\ tabs[p] = tb
      BY <2>3 DEF Init
    <3> HIDE DEF t, tb
    <3>2. Typed(p)
      BY <1>1, <1>2, <1>3, <1>4, <2>1, <2>2, <3>1, EmptyTable DEF Typed, VmPcs
    <3> QED
      BY <1>2, <1>4, <2>1, <3>1, <3>2 DEF Blank, Covered, Building, Guarded, Forking
  <2>4. CASE p # InitProc
    <3>1. /\ kp[p] = 0 /\ pc[p] = "unused" /\ sz[p] = 0 /\ pte[p] = Empty /\ tabs[p] = {}
      BY <2>4 DEF Init
    <3>2. Typed(p)
      BY <1>2, <2>1, <2>2, <3>1, EmptyTable DEF Typed, VmPcs
    <3> QED
      BY <2>1, <3>1, <3>2, EmptyTable DEF Blank, Covered, Building, Guarded, Forking
  <2> QED
    BY <2>3, <2>4
<1>9. FramesConserved
  <2> DEFINE H == Held(InitProc)
  <2>1. UNION {{p} \X Held(p) : p \in Procs} = {InitProc} \X H
    <3>1. ASSUME NEW p \in Procs, p # InitProc PROVE Held(p) = {}
      <4>1. kp[p] = 0 /\ args[p] = 0 /\ pte[p] = Empty /\ tabs[p] = {} /\ npte[p] = Empty
            /\ ntabs[p] = {} /\ 1..0 = {}
        BY <3>1 DEF Init
      <4> QED
        BY <4>1, EmptyTable DEF Held
    <3> HIDE DEF H
    <3> QED
      BY <1>1, <3>1 DEF H
  <2>2. H = HeldSet(KPAGES, 0, DOMAIN t, tb, {}, {})
    <3>1. kp[InitProc] = KPAGES /\ args[InitProc] = 0 /\ pte[InitProc] = t
          /\ tabs[InitProc] = tb /\ npte[InitProc] = Empty /\ ntabs[InitProc] = {}
      BY <1>1 DEF Init
    <3> HIDE DEF t, tb
    <3> QED
      BY <3>1, EmptyTable DEF Held, HeldSet
  <2>3. IsFiniteSet(DOMAIN t) /\ IsFiniteSet(tb) /\ IsFiniteSet({})
    BY <1>3, <1>4, Finite, FS_Subset, FS_EmptySet
  <2> DEFINE z == 0
  <2>4. z \in Nat /\ KPAGES \in Nat /\ H = HeldSet(KPAGES, z, DOMAIN t, tb, {}, {})
    BY <2>2, Sizes
  <2> HIDE DEF z, H, t, tb
  <2>5. /\ IsFiniteSet(H)
        /\ Cardinality(H) = KPAGES + z + Cardinality(DOMAIN t) + Cardinality(tb)
                              + Cardinality({}) + Cardinality({})
    BY <2>3, <2>4, HeldCount
  <2>6. Cardinality(H) = KPAGES + 6
    BY <1>5, <2>5, EmptyTable, Sizes DEF z
  <2>7. Cardinality({InitProc} \X H) = KPAGES + 6
    BY <2>5, <2>6, Tagged
  <2>8. free + (KPAGES + 6) = NFRAMES
    BY <1>6, Sizes
  <2> QED
    BY <2>1, <2>7, <2>8 DEF FramesConserved
<1> QED
  BY <1>6, <1>7, <1>8, <1>9 DEF VmIInv, Local

\* Every step keeps the invariant.
LEMMA NextVm == VmIInv /\ [Next]_vars => VmIInv'
<1> SUFFICES ASSUME VmIInv, [Next]_vars PROVE VmIInv'
  OBVIOUS
<1>1. CASE UNCHANGED vars
  <2>1. UNCHANGED <<free, kp, pc, sz, pte, tabs, np, i, exec, guard>> /\ TeardownComplete'
    BY <1>1 DEF vars, exec, VmIInv, TeardownComplete
  <2> QED
    BY <2>1, OnlyPanic
<1>2. ASSUME NEW p \in Procs, NEW v \in UserPages, NEW w \in Words, Store(p, v, w) PROVE VmIInv'
  BY <1>2, StoreStep
<1>3. ASSUME NEW p \in Procs, NEW va \in 0..SZMAX, NEW sp \in 0..SZMAX, PageFault(p, va, sp)
      PROVE  VmIInv'
  BY <1>3, PageFaultStep
<1>4. ASSUME NEW p \in Procs, NEW v \in UserPages, NEW sp \in 0..SZMAX,
             NEW w \in Words \cup {NoWord}, CopyUser(p, v, sp, w)
      PROVE  VmIInv'
  BY <1>4, CopyUserStep
<1>5. ASSUME NEW p \in Procs, NEW newsz \in 1..SZMAX, Sbrk(p, newsz) PROVE VmIInv'
  BY <1>5, SbrkStep
<1>6. ASSUME NEW p \in Procs, NEW q \in Procs, AllocProc(p, q) PROVE VmIInv'
  BY <1>6, AllocProcStep
<1>7. ASSUME NEW p \in Procs,
             Exit(p) \/ ForkCopy(p) \/ ForkDone(p) \/ Reap(p) \/ ExecCall(p) \/ ExecArg(p)
      PROVE  VmIInv'
  BY <1>7, ExitStep, ForkCopyStep, ForkDoneStep, ReapStep, ExecCallStep, ExecArgStep
<1>8. ASSUME NEW p \in Procs,
             \/ ExecArgBad(p) \/ ExecAlloc(p) \/ ExecSegmentBad(p) \/ ExecStackBad(p)
             \/ ExecCommit(p)
      PROVE  VmIInv'
  BY <1>8, ExecArgBadStep, ExecAllocStep, ExecSegmentBadStep, ExecStackBadStep, ExecCommitStep
<1>9. ASSUME NEW p \in Procs, NEW im \in Images, ExecOpen(p, im) PROVE VmIInv'
  BY <1>9, ExecOpenStep
<1>10. ASSUME NEW p \in Procs, NEW first \in UserPages, NEW w \in Words, ExecSegment(p, first, w)
       PROVE  VmIInv'
  BY <1>10, ExecSegmentStep
<1>11. CASE Halted
  BY <1>1, <1>11 DEF Halted
<1> QED
  BY <1>1, <1>2, <1>3, <1>4, <1>5, <1>6, <1>7, <1>8, <1>9, <1>10, <1>11 DEF Next

\* The invariant holds in every state.
THEOREM VmInvariant == Spec => []VmIInv
  BY InitVm, NextVm, PTL DEF Spec

\* Whatever kalloc() refuses in fork(), exec() or a page fault, every page is free or
\* held exactly once, and freewalk() and loadseg() find what they expect.
THEOREM VmSafe == Spec => []VmInv
<1>1. VmIInv => VmInv
  <2> SUFFICES ASSUME VmIInv PROVE VmInv
    OBVIOUS
  <2>1. \A p \in Procs : Typed(p)
    BY DEF VmIInv, Local
  <2>2. free \in 0..NFRAMES
    <3> DEFINE H == [p \in Procs |-> Held(p)]
               U == UNION {{p} \X Held(p) : p \in Procs}
    <3>1. U = Total(H, Procs) /\ free + Cardinality(U) = NFRAMES /\ free \in Nat
      BY DEF Total, VmIInv, FramesConserved
    <3>2. ASSUME NEW p \in Procs PROVE IsFiniteSet(H[p])
      <4>1. Held(p) = HeldSet(kp[p], args[p], DOMAIN pte[p], tabs[p], DOMAIN npte[p], ntabs[p])
        BY DEF Held, HeldSet
      <4> QED
        BY <4>1, HeldCount, Mine
    <3>3. IsFiniteSet(Procs) /\ InitProc \in Procs
      BY FS_Interval, Sizes DEF Procs, InitProc
    <3> HIDE DEF H, U
    <3>4. IsFiniteSet(Total(H, Procs))
      BY ONLY <3>2, <3>3, TotalMoves
    <3>5. Cardinality(U) \in Nat
      BY <3>1, <3>4, FS_CardinalityType
    <3> QED
      BY <3>1, <3>5, Sizes
  <2>3. TypeOK
    <3>1. /\ \A p \in Procs : /\ DOMAIN pte[p] \subseteq UserPages
                              /\ DOMAIN npte[p] \subseteq UserPages
          /\ \A p \in Procs, v \in UserPages :
               v \in DOMAIN pte[p] => pte[p][v] \in [u : BOOLEAN, word : Data]
      BY <2>1 DEF Typed, IsTable, Entries
    <3>2. /\ \A p \in Procs : kp[p] \in {0, KPAGES} /\ pc[p] \in VmPcs /\ sz[p] \in Nat
          /\ \A p \in Procs : tabs[p] \in SUBSET AllTabs /\ ntabs[p] \in SUBSET AllTabs
          /\ \A p \in Procs : np[p] \in 0..NPROC /\ i[p] \in Nat /\ args[p] \in 0..MAXARG
                              /\ guard[p] \in UserPages \cup {NoGuard}
      BY <2>1 DEF Typed
    <3>3. /\ kp \in [Procs -> {0, KPAGES}] /\ pc \in [Procs -> VmPcs] /\ sz \in [Procs -> Nat]
          /\ tabs \in [Procs -> SUBSET AllTabs] /\ ntabs \in [Procs -> SUBSET AllTabs]
          /\ np \in [Procs -> 0..NPROC] /\ i \in [Procs -> Nat] /\ args \in [Procs -> 0..MAXARG]
          /\ guard \in [Procs -> UserPages \cup {NoGuard}]
      BY <3>2 DEF VmIInv, Shapes
    <3> QED
      BY <2>2, <3>1, <3>3 DEF TypeOK, VmPcs
  <2> QED
    BY <2>3 DEF VmInv, VmIInv
<1> QED
  BY <1>1, VmInvariant, PTL

\* The guard page below the stack stays mapped and out of the program's reach until
\* sbrk() gives it back, in forked children too.
THEOREM VmGuard == Spec => []GuardKept
<1>1. VmIInv => GuardKept
  BY DEF VmIInv, Local, Guarded, GuardKept
<1> QED
  BY <1>1, VmInvariant, PTL

\* The child of a fork() that succeeds has the parent's size, pages, flags and contents.
THEOREM VmFork == Spec => ForkCopies
<1>1. ASSUME VmIInv, Next, NEW p \in Procs, pc[p] = "fork", pc'[p] = "user", pc'[np[p]] = "user"
      PROVE  pte'[np[p]] = pte'[p] /\ sz'[np[p]] = sz'[p]
  <2> USE <1>1
  <2>1. /\ np[p] \in Procs /\ np[p] # p /\ pc = [r \in Procs |-> pc[r]]
        /\ \A r \in Procs : pc[r] = "fork" => np[r] # p
    BY CopyingFacts DEF VmIInv, Shapes, Forking
  <2>2. CASE ForkDone(p)
    BY <2>1, <2>2, ChildIsCopy DEF ForkDone, VmIInv, Shapes
  <2>3. CASE ForkCopy(p)
    BY <2>1, <2>3 DEF ForkCopy
  <2>4. ASSUME NEW r \in Procs \ {p}, ForkCopy(r) \/ ForkDone(r) PROVE pc'[p] = pc[p]
    BY <2>1, <2>4 DEF ForkCopy, ForkDone
  <2>5. ASSUME NEW r \in Procs, NEW q \in Procs, AllocProc(r, q) PROVE pc'[p] = pc[p]
    BY <2>1, <2>5 DEF AllocProc, Running
  <2>6. ASSUME NEW r \in Procs, \/ \E va, sp \in 0..SZMAX : PageFault(r, va, sp)
                                \/ Exit(r)
        PROVE  pc'[p] = pc[p]
    BY <2>1, <2>6 DEF PageFault, Exit, Running, Dies
  <2>7. ASSUME NEW r \in Procs,
               \/ \E v \in UserPages, w \in Words : Store(r, v, w)
               \/ \E v \in UserPages, sp \in 0..SZMAX, w \in Words \cup {NoWord} :
                    CopyUser(r, v, sp, w)
               \/ \E newsz \in 1..SZMAX : Sbrk(r, newsz)
               \/ ExecArg(r)
               \/ \E first \in UserPages, w \in Words : ExecSegment(r, first, w)
        PROVE  pc'[p] = pc[p]
    BY <2>7 DEF Store, CopyUser, Sbrk, ExecArg, ExecSegment
  <2>8. ASSUME NEW r \in Procs, \/ Reap(r) \/ ExecCall(r) \/ ExecArgBad(r)
                                \/ \E im \in Images : ExecOpen(r, im)
        PROVE  pc'[p] = pc[p]
    BY <2>1, <2>8 DEF Reap, ExecCall, Running, ExecArgBad, ExecBad, ExecReset, ExecOpen
  <2>9. ASSUME NEW r \in Procs, \/ ExecAlloc(r) \/ ExecSegmentBad(r) \/ ExecStackBad(r)
                                \/ ExecCommit(r)
        PROVE  pc'[p] = pc[p]
    BY <2>1, <2>9 DEF ExecAlloc, ExecSegmentBad, ExecStackBad, ExecCommit, ExecBad, ExecReset,
                      Loading
  <2>10. CASE Halted
    BY <2>10 DEF Halted, vars
  <2> QED
    BY <2>2, <2>3, <2>4, <2>5, <2>6, <2>7, <2>8, <2>9, <2>10 DEF Next
<1>2. VmIInv /\ [Next]_vars =>
        [\A p \in Procs : pc[p] = "fork" /\ pc'[p] = "user" /\ pc'[np[p]] = "user" =>
           /\ pte'[np[p]] = pte'[p]
           /\ sz'[np[p]] = sz'[p]]_vars
  BY <1>1
<1> QED
  BY <1>2, VmInvariant, PTL DEF Spec, ForkCopies
=============================================================================
