---------------------------- MODULE FxSchedProofs ----------------------------
(***************************************************************************)
(* Proofs about the parts that no thread waits in, each of which needs     *)
(* none of the others' lemmas: the scheduler and its container, time       *)
(* slices over them, the timers that slices and waits are measured by,     *)
(* and, from "Powers of two" on, the allocator of memory pools.            *)
(*                                                                         *)
(* They hold for every set of items, every number of priorities and every  *)
(* width of a word; for every set of timers and every width of the tick    *)
(* counter, as long as no timer is set further ahead than half its range;  *)
(* and for every set of chunks that share no word, every set of requests,  *)
(* and every number of classes.                                            *)
(***************************************************************************)
EXTENDS FxTimeslice, FxTimer, RtlMemPool, RtlQueueProofs,
        WellFoundedInduction

-----------------------------------------------------------------------------
(* Lemmas about the two-level bitmap.                                      *)

(* A priority is determined by its word and its bit, both of which exist.  *)
LEMMA PrioBits ==
  ASSUME NEW p \in Prio
  PROVE  /\ WordOf(p) \in Word
         /\ BitOf(p) \in Word
         /\ p = WORD_BITS * WordOf(p) + BitOf(p)
<1>1. /\ WordOf(p) \in Nat
      /\ BitOf(p) \in Word
      /\ p = WORD_BITS * WordOf(p) + BitOf(p)
  BY AlgAssumption, SMTT(30) DEF Prio, Word, WordOf, BitOf
<1>2. WORD_BITS * WordOf(p) < WORD_BITS * WORD_BITS
  <2>1. WORD_BITS * WordOf(p) \in Nat /\ WORD_BITS * WORD_BITS \in Nat
    BY <1>1, AlgAssumption
  <2> QED BY <2>1, <1>1, AlgAssumption DEF Prio, Word
<1>3. WordOf(p) < WORD_BITS
  <2> DEFINE w == WordOf(p)
  <2>1. SUFFICES ASSUME w >= WORD_BITS PROVE FALSE
    BY <1>1, AlgAssumption
  <2>2. WORD_BITS * w >= WORD_BITS * WORD_BITS
    BY <2>1, <1>1, AlgAssumption, SMTT(30)
  <2> QED BY <2>2, <1>2, <1>1, AlgAssumption
<1> QED BY <1>1, <1>3, AlgAssumption DEF Word

(* A lower word, or the same word and a lower bit, is a lower number.      *)
LEMMA WordOrder ==
  ASSUME NEW w \in Word, NEW b \in Word, NEW v \in Word, NEW a \in Word,
         w < v \/ (w = v /\ b <= a)
  PROVE  WORD_BITS * w + b <= WORD_BITS * v + a
<1>1. CASE w = v
  <2>1. WORD_BITS * w \in Nat
    BY AlgAssumption DEF Word
  <2> QED BY <1>1, <2>1 DEF Word
<1>2. CASE w < v
  <2>1. WORD_BITS * (w + 1) <= WORD_BITS * v
    BY <1>2, AlgAssumption, SMTT(30) DEF Word
  <2>2. WORD_BITS * (w + 1) = WORD_BITS * w + WORD_BITS
    BY AlgAssumption, SMTT(30) DEF Word
  <2>3. WORD_BITS * w \in Nat /\ WORD_BITS * v \in Nat
    BY AlgAssumption DEF Word
  <2> QED BY <2>1, <2>2, <2>3, AlgAssumption DEF Word
<1> QED BY <1>1, <1>2 DEF Word

(* The bits of a word and position that make a priority are its own.       *)
LEMMA BitsOfSum ==
  ASSUME NEW w \in Word, NEW b \in Word, WORD_BITS * w + b \in Prio
  PROVE  WordOf(WORD_BITS * w + b) = w /\ BitOf(WORD_BITS * w + b) = b
<1> DEFINE p == WORD_BITS * w + b
<1>1. /\ WordOf(p) \in Word /\ BitOf(p) \in Word
      /\ WORD_BITS * w + b = WORD_BITS * WordOf(p) + BitOf(p)
  BY PrioBits
<1> DEFINE v == WordOf(p)
           a == BitOf(p)
<1> HIDE DEF p, v, a
<1>2. v \in Word /\ a \in Word /\ WORD_BITS * w + b = WORD_BITS * v + a
  BY <1>1 DEF p, v, a
<1>3. /\ WORD_BITS * w \in Nat
      /\ WORD_BITS * v \in Nat
      /\ w < v => WORD_BITS * w + WORD_BITS <= WORD_BITS * v
      /\ v < w => WORD_BITS * v + WORD_BITS <= WORD_BITS * w
  <2>1. ASSUME NEW x \in Word, NEW y \in Word, x < y
        PROVE  WORD_BITS * x + WORD_BITS <= WORD_BITS * y
    <3>1. WORD_BITS * (x + 1) <= WORD_BITS * y
      BY <2>1, AlgAssumption, SMTT(30) DEF Word
    <3>2. WORD_BITS * (x + 1) = WORD_BITS * x + WORD_BITS
      BY AlgAssumption, SMTT(30) DEF Word
    <3> QED BY <3>1, <3>2
  <2> QED BY <2>1, <1>2, AlgAssumption DEF Word
<1>4. w = v
  BY <1>2, <1>3, AlgAssumption DEF Word
<1>5. b = a
  BY <1>2, <1>3, <1>4 DEF Word
<1> QED BY <1>4, <1>5 DEF p, v, a

(* hw_cpu_ctz of a word that is not zero is its lowest bit.                *)
LEMMA CtzProperties ==
  ASSUME NEW word \in SUBSET Word, word # {}
  PROVE  Ctz(word) \in word /\ \A x \in word : Ctz(word) <= x
<1>1. word \subseteq Nat
  BY AlgAssumption DEF Word
<1>2. PICK b \in word : \A x \in word : ~(<< x, b >> \in OpToRel(<, Nat))
  BY <1>1, NatLessThanWellFounded, WFMin
<1>3. \A x, y \in Nat : x < y => << x, y >> \in OpToRel(<, Nat)
  BY DEF OpToRel
<1>4. \A x \in word : ~(x < b)
  BY <1>1, <1>2, <1>3, Zenon
<1>5. \A x \in word : b <= x
  BY <1>1, <1>4
<1> QED BY <1>5 DEF Ctz

-----------------------------------------------------------------------------
(* Lemmas about the operations of the container.                           *)

(* Adding puts the item at the end of its queue and keeps the bitmap.      *)
LEMMA AddProperties ==
  ASSUME NEW c \in Container, BitmapExact(c), NEW i \in Item, NEW p \in Prio
  PROVE  /\ ContainerAdd(c, i, p) \in Container
         /\ BitmapExact(ContainerAdd(c, i, p))
         /\ \A q \in Prio :
              ContainerAdd(c, i, p).priority_queues[q] =
                IF q = p THEN Append(c.priority_queues[p], i)
                         ELSE c.priority_queues[q]
<1> DEFINE d == ContainerAdd(c, i, p)
           s == c.priority_queues[p]
<1>1. /\ c.priority_queues \in [Prio -> Seq(Item)]
      /\ c.map1 \in SUBSET Word
      /\ c.map2 \in [Word -> SUBSET Word]
  BY DEF Container
<1>2. WordOf(p) \in Word /\ BitOf(p) \in Word
      /\ p = WORD_BITS * WordOf(p) + BitOf(p)
  BY PrioBits
<1>3. Append(s, i) \in Seq(Item) /\ Append(s, i) # << >>
  BY <1>1, AppendLinks
<1>4. /\ d.priority_queues = [c.priority_queues EXCEPT ![p] = Append(s, i)]
      /\ d.map1 = c.map1 \cup {WordOf(p)}
      /\ d.map2 = [c.map2 EXCEPT ![WordOf(p)] = @ \cup {BitOf(p)}]
      /\ d = [priority_queues |-> d.priority_queues,
              map1 |-> d.map1, map2 |-> d.map2]
  BY <1>1, <1>2 DEF ContainerAdd
<1> HIDE DEF d
<1>5. d \in Container
  <2>1. d.priority_queues \in [Prio -> Seq(Item)]
    BY <1>1, <1>3, <1>4
  <2>2. d.map1 \in SUBSET Word /\ d.map2 \in [Word -> SUBSET Word]
    BY <1>1, <1>2, <1>4
  <2> QED BY <2>1, <2>2, <1>4 DEF Container
<1>6. ASSUME NEW q \in Prio
      PROVE  (BitOf(q) \in d.map2[WordOf(q)]) <=> (d.priority_queues[q] # << >>)
  <2>1. /\ WordOf(q) \in Word /\ BitOf(q) \in Word
        /\ q = WORD_BITS * WordOf(q) + BitOf(q)
    BY PrioBits
  <2>2. CASE q = p
    BY <2>2, <1>1, <1>2, <1>3, <1>4
  <2>3. CASE q # p
    <3>1. WordOf(q) # WordOf(p) \/ BitOf(q) # BitOf(p)
      BY <2>1, <2>3, <1>2
    <3> QED BY <3>1, <2>1, <2>3, <1>1, <1>2, <1>4 DEF BitmapExact
  <2> QED BY <2>2, <2>3
<1>7. \A w \in Word : (w \in d.map1) <=> (d.map2[w] # {})
  BY <1>1, <1>2, <1>4 DEF BitmapExact
<1>8. \A w \in Word : \A b \in d.map2[w] : WORD_BITS * w + b \in Prio
  BY <1>1, <1>2, <1>4 DEF BitmapExact
<1>9. BitmapExact(d)
  BY <1>6, <1>7, <1>8 DEF BitmapExact
<1>10. \A q \in Prio : d.priority_queues[q] =
         IF q = p THEN Append(s, i) ELSE c.priority_queues[q]
  BY <1>1, <1>4
<1> QED BY <1>5, <1>9, <1>10 DEF d

(* Removing an item that is in no queue but that of the given priority     *)
(* unlinks it from that queue and keeps the bitmap.                        *)
LEMMA RemoveProperties ==
  ASSUME NEW c \in Container, BitmapExact(c), NEW i \in Item, NEW p \in Prio,
         \A q \in Prio \ {p} : ~Linked(c.priority_queues[q], i),
         IsInjective(c.priority_queues[p])
  PROVE  /\ ContainerRemove(c, i, p) \in Container
         /\ BitmapExact(ContainerRemove(c, i, p))
         /\ \A q \in Prio :
              ContainerRemove(c, i, p).priority_queues[q] =
                IF q = p THEN Unlink(c.priority_queues[p], i)
                         ELSE c.priority_queues[q]
<1> DEFINE d == ContainerRemove(c, i, p)
           s == Unlink(c.priority_queues[p], i)
<1>1. /\ c.priority_queues \in [Prio -> Seq(Item)]
      /\ c.map1 \in SUBSET Word
      /\ c.map2 \in [Word -> SUBSET Word]
  BY DEF Container
<1>2. WordOf(p) \in Word /\ BitOf(p) \in Word
      /\ p = WORD_BITS * WordOf(p) + BitOf(p)
  BY PrioBits
<1>3. s \in Seq(Item)
  BY <1>1, UnlinkProperties
<1>4. \A q \in Prio :
        Unlink(c.priority_queues[q], i) = IF q = p THEN s
                                          ELSE c.priority_queues[q]
  <2> SUFFICES ASSUME NEW q \in Prio, q # p
               PROVE  Unlink(c.priority_queues[q], i) = c.priority_queues[q]
    OBVIOUS
  <2>1. ~Linked(c.priority_queues[q], i)
    OBVIOUS
  <2> QED BY <2>1 DEF Unlink
<1>5. /\ d.priority_queues = [q \in Prio |-> Unlink(c.priority_queues[q], i)]
      /\ d.map2 = IF s = << >>
                  THEN [c.map2 EXCEPT ![WordOf(p)] = @ \ {BitOf(p)}]
                  ELSE c.map2
      /\ d.map1 = IF s = << >> /\ d.map2[WordOf(p)] = {}
                  THEN c.map1 \ {WordOf(p)} ELSE c.map1
      /\ d = [priority_queues |-> d.priority_queues,
              map1 |-> d.map1, map2 |-> d.map2]
  BY DEF ContainerRemove
<1>6. \A q \in Prio : d.priority_queues[q] =
         IF q = p THEN s ELSE c.priority_queues[q]
  BY <1>4, <1>5
<1> HIDE DEF d, s
<1>7. d \in Container
  <2>1. d.priority_queues \in [Prio -> Seq(Item)]
    BY <1>1, <1>3, <1>5, <1>6
  <2>2. d.map2 \in [Word -> SUBSET Word] /\ d.map1 \in SUBSET Word
    BY <1>1, <1>2, <1>5
  <2> QED BY <2>1, <2>2, <1>5 DEF Container
<1>8. ASSUME NEW q \in Prio
      PROVE  (BitOf(q) \in d.map2[WordOf(q)]) <=> (d.priority_queues[q] # << >>)
  <2>1. /\ WordOf(q) \in Word /\ BitOf(q) \in Word
        /\ q = WORD_BITS * WordOf(q) + BitOf(q)
    BY PrioBits
  <2>2. CASE q = p
    <3>1. CASE s = << >>
      BY <3>1, <2>2, <1>1, <1>2, <1>5, <1>6
    <3>2. CASE s # << >>
      <4>1. c.priority_queues[p] # << >>
        BY <3>2, <1>1, EmptyQueue, UnlinkProperties DEF s
      <4> QED BY <4>1, <3>2, <2>2, <1>5, <1>6 DEF BitmapExact
    <3> QED BY <3>1, <3>2
  <2>3. CASE q # p
    <3>1. WordOf(q) # WordOf(p) \/ BitOf(q) # BitOf(p)
      BY <2>1, <2>3, <1>2
    <3>2. (BitOf(q) \in d.map2[WordOf(q)]) <=> (BitOf(q) \in c.map2[WordOf(q)])
      BY <3>1, <2>1, <1>1, <1>2, <1>5
    <3> QED BY <3>2, <2>3, <1>6 DEF BitmapExact
  <2> QED BY <2>2, <2>3
<1>9. \A w \in Word : (w \in d.map1) <=> (d.map2[w] # {})
  BY <1>1, <1>2, <1>5 DEF BitmapExact
<1>10. \A w \in Word : \A b \in d.map2[w] : WORD_BITS * w + b \in Prio
  BY <1>1, <1>2, <1>5 DEF BitmapExact
<1>11. BitmapExact(d)
  BY <1>8, <1>9, <1>10 DEF BitmapExact
<1> QED BY <1>6, <1>7, <1>11 DEF d, s

(* The container yields the first item of the best queue that is not       *)
(* empty.                                                                  *)
LEMMA GetProperties ==
  ASSUME NEW c \in Container, BitmapExact(c),
         NEW p \in Prio, c.priority_queues[p] # << >>
  PROVE  /\ BestPrio(c) \in Prio
         /\ BestPrio(c) <= p
         /\ ContainerGet(c) \in Item
         /\ Linked(c.priority_queues[BestPrio(c)], ContainerGet(c))
<1> DEFINE w == Ctz(c.map1)
           b == Ctz(c.map2[w])
<1>1. /\ c.priority_queues \in [Prio -> Seq(Item)]
      /\ c.map1 \in SUBSET Word
      /\ c.map2 \in [Word -> SUBSET Word]
  BY DEF Container
<1>2. WordOf(p) \in Word /\ BitOf(p) \in Word
      /\ p = WORD_BITS * WordOf(p) + BitOf(p)
  BY PrioBits
<1>3. BitOf(p) \in c.map2[WordOf(p)] /\ WordOf(p) \in c.map1
  BY <1>2 DEF BitmapExact
<1>4. w \in c.map1 /\ w <= WordOf(p)
  BY <1>1, <1>3, CtzProperties
<1>5. w \in Word /\ c.map2[w] # {}
  BY <1>1, <1>4 DEF BitmapExact
<1>6. b \in c.map2[w] /\ \A x \in c.map2[w] : b <= x
  BY <1>1, <1>5, CtzProperties
<1>7. b \in Word
  BY <1>1, <1>5, <1>6
<1>8. BestPrio(c) = WORD_BITS * w + b
  BY DEF BestPrio
<1> HIDE DEF w, b
<1>9. BestPrio(c) \in Prio
  BY <1>5, <1>6, <1>8 DEF BitmapExact
<1>10. BestPrio(c) <= p
  <2>1. w < WordOf(p) \/ (w = WordOf(p) /\ b <= BitOf(p))
    BY <1>2, <1>3, <1>4, <1>5, <1>6 DEF Word
  <2> QED BY <2>1, <1>2, <1>5, <1>7, <1>8, WordOrder
<1>11. c.priority_queues[BestPrio(c)] # << >>
  <2>1. WordOf(BestPrio(c)) = w /\ BitOf(BestPrio(c)) = b
    BY <1>5, <1>7, <1>8, <1>9, BitsOfSum
  <2> QED BY <2>1, <1>6, <1>9 DEF BitmapExact
<1>12. /\ ContainerGet(c) \in Item
       /\ Linked(c.priority_queues[BestPrio(c)], ContainerGet(c))
  BY <1>1, <1>9, <1>11, EmptyQueue DEF ContainerGet
<1> QED BY <1>9, <1>10, <1>12

-----------------------------------------------------------------------------
(* What the container keeps, for any priorities and suspend counts.        *)

Sane(c, pr, sc) ==
  /\ c \in Container
  /\ BitmapExact(c)
  /\ \A p \in Prio :
        /\ IsInjective(c.priority_queues[p])
        /\ \A i \in Item : Linked(c.priority_queues[p], i) =>
                             pr[i] = p /\ sc[i] = 0

(* The values of two functions agree on all items but one.                 *)
SameBut(f, g, i) == \A j \in Item \ {i} : f[j] = g[j]

(* Adding an item that is in no queue to the queue of its priority.        *)
LEMMA SaneAdd ==
  ASSUME NEW c, NEW pr, NEW sc, NEW qr, NEW tc, NEW i \in Item,
         Sane(c, pr, sc), ~InContainer(c, i),
         qr[i] \in Prio, tc[i] = 0, SameBut(pr, qr, i), SameBut(sc, tc, i)
  PROVE  /\ Sane(ContainerAdd(c, i, qr[i]), qr, tc)
         /\ \A j \in Item :
              InContainer(ContainerAdd(c, i, qr[i]), j) <=>
                InContainer(c, j) \/ j = i
<1> DEFINE p == qr[i]
           d == ContainerAdd(c, i, p)
           s == c.priority_queues[p]
<1>1. /\ d \in Container
      /\ BitmapExact(d)
      /\ \A q \in Prio :
           d.priority_queues[q] = IF q = p THEN Append(s, i)
                                  ELSE c.priority_queues[q]
  BY AddProperties DEF Sane
<1>2. s \in Seq(Item) /\ IsInjective(s) /\ ~Linked(s, i)
  BY DEF Sane, Container, InContainer
<1>3. /\ IsInjective(Append(s, i))
      /\ \A j \in Item : Linked(Append(s, i), j) <=> Linked(s, j) \/ j = i
  BY <1>2, AppendLinks
<1> HIDE DEF d, s, p
<1>4. p \in Prio /\ p = qr[i] /\ s = c.priority_queues[p]
  BY DEF p, s
<1>5. ASSUME NEW q \in Prio
      PROVE  /\ IsInjective(d.priority_queues[q])
             /\ \A j \in Item : Linked(d.priority_queues[q], j) =>
                                  qr[j] = q /\ tc[j] = 0
  <2>1. IsInjective(d.priority_queues[q])
    BY <1>1, <1>3 DEF Sane
  <2>2. ASSUME NEW j \in Item, Linked(d.priority_queues[q], j)
        PROVE  qr[j] = q /\ tc[j] = 0
    <3>1. CASE j = i
      BY <3>1, <2>2, <1>1, <1>4 DEF InContainer
    <3>2. CASE j # i
      <4>1. Linked(c.priority_queues[q], j)
        BY <3>2, <2>2, <1>1, <1>3, <1>4
      <4> QED BY <4>1, <3>2 DEF Sane, SameBut
    <3> QED BY <3>1, <3>2
  <2> QED BY <2>1, <2>2
<1>6. ASSUME NEW j \in Item
      PROVE  InContainer(d, j) <=> InContainer(c, j) \/ j = i
  BY <1>1, <1>3, <1>4 DEF InContainer
<1> QED BY <1>1, <1>5, <1>6 DEF Sane, d, p

(* Removing an item, whatever becomes of its priority and count.           *)
LEMMA SaneRemove ==
  ASSUME NEW c, NEW pr, NEW sc, NEW qr, NEW tc, NEW i \in Item,
         Sane(c, pr, sc),
         pr[i] \in Prio, SameBut(pr, qr, i), SameBut(sc, tc, i)
  PROVE  /\ Sane(ContainerRemove(c, i, pr[i]), qr, tc)
         /\ \A j \in Item :
              InContainer(ContainerRemove(c, i, pr[i]), j) <=>
                InContainer(c, j) /\ j # i
<1> DEFINE p == pr[i]
           d == ContainerRemove(c, i, p)
           s == c.priority_queues[p]
<1>1. \A q \in Prio \ {p} : ~Linked(c.priority_queues[q], i)
  BY DEF Sane
<1>2. /\ d \in Container
      /\ BitmapExact(d)
      /\ \A q \in Prio :
           d.priority_queues[q] = IF q = p THEN Unlink(s, i)
                                  ELSE c.priority_queues[q]
  BY <1>1, RemoveProperties DEF Sane
<1>3. s \in Seq(Item) /\ IsInjective(s)
  BY DEF Sane, Container
<1>4. /\ IsInjective(Unlink(s, i))
      /\ \A j \in Item : Linked(Unlink(s, i), j) <=> Linked(s, j) /\ j # i
  BY <1>3, UnlinkProperties
<1> HIDE DEF d, s, p
<1>5. p \in Prio /\ p = pr[i] /\ s = c.priority_queues[p]
  BY DEF p, s
<1>6. ASSUME NEW q \in Prio, NEW j \in Item
      PROVE  Linked(d.priority_queues[q], j) <=>
               Linked(c.priority_queues[q], j) /\ j # i
  BY <1>1, <1>2, <1>4, <1>5
<1>7. ASSUME NEW q \in Prio
      PROVE  IsInjective(d.priority_queues[q])
  BY <1>2, <1>4 DEF Sane
<1>8. Sane(d, qr, tc)
  BY <1>2, <1>6, <1>7 DEF Sane, SameBut
<1> QED BY <1>6, <1>8 DEF InContainer, d, p

(* The item the container yields is one of the best of those in it.        *)
LEMMA SaneGet ==
  ASSUME NEW c, NEW pr, NEW sc, NEW i \in Item,
         Sane(c, pr, sc), InContainer(c, i)
  PROVE  /\ ContainerGet(c) \in Item
         /\ InContainer(c, ContainerGet(c))
         /\ \A j \in Item : InContainer(c, j) => pr[ContainerGet(c)] <= pr[j]
<1>1. ASSUME NEW j \in Item, InContainer(c, j)
      PROVE  /\ ContainerGet(c) \in Item
             /\ InContainer(c, ContainerGet(c))
             /\ pr[ContainerGet(c)] <= pr[j]
  <2>1. PICK p \in Prio : Linked(c.priority_queues[p], j)
    BY <1>1 DEF InContainer
  <2>2. c.priority_queues[p] # << >>
    BY <2>1, EmptyQueue DEF Sane, Container
  <2>3. /\ BestPrio(c) \in Prio
        /\ BestPrio(c) <= p
        /\ ContainerGet(c) \in Item
        /\ Linked(c.priority_queues[BestPrio(c)], ContainerGet(c))
    BY <2>2, GetProperties DEF Sane
  <2>4. pr[ContainerGet(c)] = BestPrio(c) /\ pr[j] = p
    BY <2>1, <2>3 DEF Sane
  <2> QED BY <2>3, <2>4 DEF InContainer
<1> QED BY <1>1

-----------------------------------------------------------------------------
(* The inductive invariant.  NoLostResched alone is not inductive: that a  *)
(* boost may be undone without a reschedule rests on BoostWindowEmpty.     *)

IInv ==
  /\ TypeOK
  /\ QueuesConsistent
  /\ BitmapConsistent
  /\ NoLostResched
  /\ BoostWindowEmpty

LEMMA SaneIsInvariant ==
  ASSUME TypeOK
  PROVE  QueuesConsistent /\ BitmapConsistent <=>
           Sane(g_domain, prio, suspend_count) /\ Ready(Idle)
BY DEF TypeOK, QueuesConsistent, BitmapConsistent, Sane

LEMMA PrioSets == /\ PRIO_IDLE \in Prio /\ 0 \in Prio
                  /\ UserPrio \subseteq Prio
                  /\ Prio \subseteq Int
BY AlgAssumption DEF Prio, UserPrio, PRIO_IDLE

(* At the start IDLE alone is ready.                                       *)
LEMMA InitFacts == Init => IInv /\ \A j \in Item : Ready(j) => j = Idle
<1> SUFFICES ASSUME Init PROVE IInv /\ \A j \in Item : Ready(j) => j = Idle
  OBVIOUS
<1> DEFINE c == EmptyContainer
<1>1. << >> \in Seq(Item) /\ \A j \in Item : ~Linked(<< >>, j)
  BY EmptySeq, EmptyQueue
<1>2. \A p \in Prio : c.priority_queues[p] = << >>
  BY DEF EmptyContainer
<1>3. c \in Container /\ BitmapExact(c)
  <2>1. \A p \in Prio : WordOf(p) \in Word
    BY PrioBits
  <2>2. /\ c.priority_queues \in [Prio -> Seq(Item)]
        /\ c.map1 = {}
        /\ c.map2 \in [Word -> SUBSET Word]
        /\ \A w \in Word : c.map2[w] = {}
    BY <1>1 DEF EmptyContainer
  <2>3. c \in Container
    BY <2>2 DEF EmptyContainer, Container
  <2> QED BY <2>1, <2>2, <2>3, <1>2 DEF BitmapExact
<1>4. Sane(c, prio, suspend_count)
  <2>1. IsInjective(<< >>)
    BY DEF IsInjective
  <2> QED BY <2>1, <1>1, <1>2, <1>3, Zenon DEF Sane
<1>5. \A j \in Item : ~InContainer(c, j)
  BY <1>1, <1>2 DEF InContainer
<1> HIDE DEF c
<1>6. prio \in [Item -> Prio] /\ prio[Idle] = PRIO_IDLE
  BY PrioSets, IdleAssumption DEF Init
<1>7. suspend_count[Idle] = 0
  BY IdleAssumption DEF Init
<1>8. /\ Sane(g_domain, prio, suspend_count)
      /\ \A j \in Item : Ready(j) <=> j = Idle
  <2>1. /\ Sane(ContainerAdd(c, Idle, prio[Idle]), prio, suspend_count)
        /\ \A j \in Item : InContainer(ContainerAdd(c, Idle, prio[Idle]), j)
                             <=> InContainer(c, j) \/ j = Idle
    BY <1>4, <1>5, <1>6, <1>7, PrioSets, IdleAssumption, SaneAdd DEF SameBut
  <2> QED BY <2>1, <1>5, <1>6 DEF Init, Ready, c
<1>9. TypeOK
  BY <1>6, <1>8, PrioSets, IdleAssumption DEF Init, TypeOK, Sane
<1> QED
  BY <1>8, <1>9, SaneIsInvariant, IdleAssumption
  DEF IInv, Init, NoLostResched, BoostWindowEmpty

LEMMA InitInvariant == Init => IInv
BY InitFacts

(* What an operation must show: the container stays sane, IDLE stays in    *)
(* it, and the two facts about boosts hold.                                *)
LEMMA InvariantAfter ==
  ASSUME TypeOK', Sane(g_domain, prio, suspend_count)', Ready(Idle)',
         NoLostResched', BoostWindowEmpty'
  PROVE  IInv'
BY DEF IInv, TypeOK, QueuesConsistent, BitmapConsistent, Sane

LEMMA ItemInitInvariant ==
  ASSUME IInv, NEW i \in Item, NEW p \in UserPrio, ItemInit(i, p)
  PROVE  IInv'
<1>1. TypeOK /\ Sane(g_domain, prio, suspend_count) /\ Ready(Idle)
  BY SaneIsInvariant DEF IInv
<1>2. /\ prio' \in [Item -> Prio] /\ SameBut(prio, prio', i)
      /\ suspend_count' \in [Item -> 0 .. 1]
      /\ SameBut(suspend_count, suspend_count', i)
  BY <1>1, PrioSets DEF ItemInit, TypeOK, SameBut
<1>3. g_domain' = g_domain /\ ~Ready(i) /\ i # active
  BY DEF ItemInit
<1>4. \A j \in Item : Ready(j)' <=> Ready(j)
  BY <1>3 DEF Ready
<1>5. Sane(g_domain, prio, suspend_count)'
  BY <1>1, <1>2, <1>3 DEF Sane, SameBut, Ready, InContainer
<1>6. TypeOK'
  BY <1>1, <1>2 DEF ItemInit, TypeOK
<1>7. NoLostResched'
  BY <1>1, <1>2, <1>3, <1>4
  DEF IInv, ItemInit, NoLostResched, Best, TypeOK, SameBut
<1>8. BoostWindowEmpty'
  BY <1>1, <1>2, <1>3, <1>4
  DEF IInv, ItemInit, BoostWindowEmpty, TypeOK, SameBut
<1> QED BY <1>1, <1>4, <1>5, <1>6, <1>7, <1>8, SaneIsInvariant, IdleAssumption
        DEF IInv, TypeOK, QueuesConsistent, BitmapConsistent, Sane

LEMMA ItemRemoveInvariant ==
  ASSUME IInv, NEW i \in Item, ItemRemove(i)
  PROVE  IInv'
<1>1. TypeOK /\ Sane(g_domain, prio, suspend_count) /\ Ready(Idle)
  BY SaneIsInvariant DEF IInv
<1>2. /\ prio' = prio /\ suspend_count' = suspend_count
      /\ g_domain' = ContainerRemove(g_domain, i, prio[i])
      /\ prio[i] \in Prio
  BY <1>1 DEF ItemRemove, TypeOK
<1>3. /\ Sane(g_domain', prio', suspend_count')
      /\ \A j \in Item : Ready(j)' <=> Ready(j) /\ j # i
  BY <1>1, <1>2, SaneRemove DEF SameBut, Ready
<1>4. TypeOK'
  BY <1>1, <1>2, <1>3 DEF ItemRemove, TypeOK, Sane
<1>5. NoLostResched'
  BY <1>1, <1>2, <1>3 DEF IInv, ItemRemove, NoLostResched, Best, TypeOK
<1>6. BoostWindowEmpty'
  BY DEF ItemRemove, BoostWindowEmpty
<1>7. Ready(Idle)'
  BY <1>1, <1>3, IdleAssumption DEF ItemRemove
<1> QED BY <1>3, <1>4, <1>5, <1>6, <1>7, InvariantAfter

LEMMA ItemSuspendInvariant ==
  ASSUME IInv, NEW i \in Item, ItemSuspend(i)
  PROVE  IInv'
<1>1. TypeOK /\ Sane(g_domain, prio, suspend_count) /\ Ready(Idle)
  BY SaneIsInvariant DEF IInv
<1>2. suspend_count[i] = 0
  BY <1>1 DEF ItemSuspend, Ready, InContainer, Sane
<1>3. /\ suspend_count' = [suspend_count EXCEPT ![i] = 1]
      /\ suspend_count'[i] = 1
      /\ suspend_count' \in [Item -> 0 .. 1]
  BY <1>1, <1>2 DEF ItemSuspend, TypeOK
<1>4. /\ prio' = prio /\ active' = active /\ saved_params' = saved_params
      /\ g_domain' = ContainerRemove(g_domain, i, prio[i])
      /\ changed' = TRUE /\ resched_pending' = TRUE
      /\ prio[i] \in Prio /\ i # Idle
  BY <1>1, <1>3 DEF ItemSuspend, TypeOK
<1>5. SameBut(suspend_count, suspend_count', i)
  BY <1>1, <1>3 DEF SameBut, TypeOK
<1>6. /\ Sane(g_domain', prio', suspend_count')
      /\ \A j \in Item : Ready(j)' <=> Ready(j) /\ j # i
  BY <1>1, <1>4, <1>5, SaneRemove DEF SameBut, Ready
<1>7. TypeOK'
  BY <1>1, <1>3, <1>4, <1>6 DEF TypeOK, Sane
<1>8. NoLostResched' /\ BoostWindowEmpty'
  BY <1>4 DEF NoLostResched, BoostWindowEmpty
<1>9. Ready(Idle)'
  BY <1>1, <1>4, <1>6, IdleAssumption
<1> QED BY <1>6, <1>7, <1>8, <1>9, InvariantAfter

LEMMA ItemResumeInvariant ==
  ASSUME IInv, NEW i \in Item, ItemResume(i)
  PROVE  IInv'
<1>1. TypeOK /\ Sane(g_domain, prio, suspend_count) /\ Ready(Idle)
  BY SaneIsInvariant DEF IInv
<1>2. suspend_count[i] = 1
  BY <1>1 DEF ItemResume, TypeOK
<1>3. /\ suspend_count' = [suspend_count EXCEPT ![i] = 0]
      /\ suspend_count'[i] = 0
      /\ suspend_count' \in [Item -> 0 .. 1]
  BY <1>1, <1>2 DEF ItemResume, TypeOK
<1>4. /\ prio' = prio /\ active' = active /\ saved_params' = saved_params
      /\ g_domain' = ContainerAdd(g_domain, i, prio[i])
      /\ changed' = TRUE
      /\ resched_pending' = (\/ resched_pending
                             \/ prio[i] = prio[active]
                             \/ IsPreempt(prio[i], prio[active]))
      /\ prio[i] \in Prio
  BY <1>1, <1>3 DEF ItemResume, TypeOK
<1>5. SameBut(suspend_count, suspend_count', i)
  BY <1>1, <1>3 DEF SameBut, TypeOK
<1>6. ~InContainer(g_domain, i)
  BY <1>1, <1>2 DEF InContainer, Sane
<1>7. /\ Sane(g_domain', prio', suspend_count')
      /\ \A j \in Item : Ready(j)' <=> Ready(j) \/ j = i
  BY <1>1, <1>3, <1>4, <1>5, <1>6, SaneAdd, ZenonT(30) DEF SameBut, Ready
<1>8. TypeOK'
  <2>1. resched_pending' \in BOOLEAN
    BY <1>4, Zenon
  <2> QED BY <2>1, <1>1, <1>3, <1>4, <1>7 DEF TypeOK, Sane
<1>9. NoLostResched'
  <2>1. SUFFICES ASSUME ~resched_pending' PROVE Best(active)'
    BY DEF NoLostResched
  <2>2. /\ Best(active)
        /\ ~(prio[i] = prio[active])
        /\ ~(prio[i] < prio[active])
    BY <2>1, <1>4 DEF IInv, NoLostResched, IsPreempt
  <2>3. prio \in [Item -> Int] /\ active \in Item
    BY <1>1, PrioSets DEF TypeOK
  <2> QED BY <2>2, <2>3, <1>4, <1>7 DEF Best
<1>10. BoostWindowEmpty'
  BY <1>4 DEF BoostWindowEmpty
<1>11. Ready(Idle)'
  BY <1>1, <1>7, IdleAssumption
<1> QED BY <1>7, <1>8, <1>9, <1>10, <1>11, InvariantAfter

(* Moving a ready item to the queue of its new priority, or to the end of  *)
(* its own.                                                                *)
LEMMA RequeueProperties ==
  ASSUME TypeOK, Sane(g_domain, prio, suspend_count),
         NEW i \in Item, NEW p \in Prio, Ready(i), Requeue(i, p)
  PROVE  /\ Sane(g_domain', prio', suspend_count')
         /\ \A j \in Item : Ready(j)' <=> Ready(j)
         /\ prio' \in [Item -> Prio]
         /\ prio'[i] = p
         /\ SameBut(prio, prio', i)
         /\ active' = active
         /\ suspend_count' = suspend_count
<1> DEFINE d == ContainerRemove(g_domain, i, prio[i])
<1>1. /\ prio' \in [Item -> Prio] /\ prio'[i] = p
      /\ SameBut(prio, prio', i)
      /\ active' = active /\ suspend_count' = suspend_count
      /\ g_domain' = ContainerAdd(d, i, prio'[i])
      /\ prio[i] \in Prio
  BY DEF Requeue, TypeOK, SameBut
<1>2. suspend_count[i] = 0
  BY DEF Ready, InContainer, Sane
<1>3. /\ Sane(d, prio, suspend_count)
      /\ \A j \in Item : InContainer(d, j) <=> InContainer(g_domain, j) /\ j # i
  BY <1>1, SaneRemove DEF SameBut
<1> HIDE DEF d
<1>4. ~InContainer(d, i)
  BY <1>3
<1>5. /\ Sane(g_domain', prio', suspend_count')
      /\ \A j \in Item : InContainer(g_domain', j) <=> InContainer(d, j) \/ j = i
  BY <1>1, <1>2, <1>3, <1>4, SaneAdd, ZenonT(30) DEF SameBut
<1> QED BY <1>1, <1>3, <1>5 DEF Ready

LEMMA SetParamsInvariant ==
  ASSUME IInv, NEW i \in Item, NEW p \in UserPrio, SetParams(i, p)
  PROVE  IInv'
<1>1. TypeOK /\ Sane(g_domain, prio, suspend_count) /\ Ready(Idle)
  BY SaneIsInvariant DEF IInv
<1>2. p \in Prio /\ p \in Int /\ prio \in [Item -> Int] /\ saved_params \in Int
      /\ active \in Item /\ i # Idle
  BY <1>1, PrioSets DEF TypeOK, SetParams
<1>3. CASE ~resched_pending /\ SetParamsBoost(i, p)
  <2>1. /\ Ready(i) /\ Requeue(i, p) /\ i = active /\ p < prio[i]
        /\ changed' = FALSE
        /\ saved_params' = prio[i]
        /\ resched_pending' = resched_pending
    BY <1>3 DEF SetParamsBoost, Boosts, IsPreempt
  <2>2. /\ Sane(g_domain', prio', suspend_count')
        /\ \A j \in Item : Ready(j)' <=> Ready(j)
        /\ prio' \in [Item -> Prio]
        /\ prio'[i] = p
        /\ SameBut(prio, prio', i)
        /\ active' = active
        /\ suspend_count' = suspend_count
    BY <2>1, <1>1, <1>2, RequeueProperties
  <2>3. Best(active)
    BY <1>3 DEF IInv, NoLostResched
  <2>4. TypeOK'
    BY <2>1, <2>2, <1>1, <1>2 DEF TypeOK, Sane
  <2>5. NoLostResched'
    <3>1. \A j \in Item : Ready(j) => prio'[i] <= prio'[j]
      BY <2>1, <2>2, <2>3, <1>2 DEF Best, SameBut
    <3> QED BY <3>1, <2>1, <2>2, <1>2 DEF NoLostResched, Best
  <2>6. BoostWindowEmpty'
    BY <2>1, <2>2, <2>3, <1>2 DEF BoostWindowEmpty, Best, SameBut
  <2> QED BY <2>2, <2>4, <2>5, <2>6, <1>1, IdleAssumption, InvariantAfter
<1>4. CASE SetParamsUnboost(i, p)
  <2>1. /\ Ready(i) /\ Requeue(i, p) /\ i = active /\ ~changed
        /\ saved_params = p
        /\ UNCHANGED << resched_pending, changed, saved_params >>
    BY <1>4 DEF SetParamsUnboost, Unboosts
  <2>2. /\ Sane(g_domain', prio', suspend_count')
        /\ \A j \in Item : Ready(j)' <=> Ready(j)
        /\ prio' \in [Item -> Prio]
        /\ prio'[i] = p
        /\ SameBut(prio, prio', i)
        /\ active' = active
        /\ suspend_count' = suspend_count
    BY <2>1, <1>1, <1>2, RequeueProperties
  <2>3. \A j \in Item : Ready(j) /\ j # active => p <= prio[j]
    BY <2>1 DEF IInv, BoostWindowEmpty
  <2>4. TypeOK'
    BY <2>1, <2>2, <1>1 DEF TypeOK, Sane
  <2>5. NoLostResched'
    BY <2>1, <2>2, <2>3, <1>2 DEF NoLostResched, Best, SameBut
  <2>6. BoostWindowEmpty'
    BY <2>1, <2>2, <2>3, <1>2 DEF BoostWindowEmpty, SameBut
  <2> QED BY <2>2, <2>4, <2>5, <2>6, <1>1, IdleAssumption, InvariantAfter
<1>5. CASE SetParamsReady(i, p)
  <2>1. /\ Ready(i) /\ Requeue(i, p)
        /\ changed' = TRUE /\ resched_pending' = TRUE
        /\ saved_params' = saved_params
    BY <1>5 DEF SetParamsReady
  <2>2. /\ Sane(g_domain', prio', suspend_count')
        /\ \A j \in Item : Ready(j)' <=> Ready(j)
        /\ prio' \in [Item -> Prio]
        /\ active' = active
        /\ suspend_count' = suspend_count
    BY <2>1, <1>1, <1>2, RequeueProperties
  <2>3. TypeOK'
    BY <2>1, <2>2, <1>1 DEF TypeOK, Sane
  <2>4. NoLostResched' /\ BoostWindowEmpty'
    BY <2>1 DEF NoLostResched, BoostWindowEmpty
  <2> QED BY <2>2, <2>3, <2>4, <1>1, IdleAssumption, InvariantAfter
<1>6. CASE SetParamsSuspended(i, p)
  <2>1. /\ prio' \in [Item -> Prio] /\ SameBut(prio, prio', i)
        /\ suspend_count[i] > 0
        /\ UNCHANGED << resched_pending, changed, saved_params, g_domain,
                        active, suspend_count >>
    BY <1>6, <1>1, <1>2 DEF SetParamsSuspended, SameBut, TypeOK
  <2>2. ~Ready(i) /\ \A j \in Item : Ready(j)' <=> Ready(j)
    BY <2>1, <1>1 DEF Ready, InContainer, Sane
  <2>3. Sane(g_domain, prio, suspend_count)'
    BY <2>1, <2>2, <1>1 DEF Sane, SameBut, Ready, InContainer
  <2>4. TypeOK'
    BY <2>1, <1>1 DEF TypeOK
  <2>5. NoLostResched'
    BY <2>1, <2>2, <1>2 DEF IInv, NoLostResched, Best, SameBut
  <2>6. BoostWindowEmpty'
    BY <2>1, <2>2 DEF IInv, BoostWindowEmpty, SameBut
  <2> QED BY <2>2, <2>3, <2>4, <2>5, <2>6, <1>1, IdleAssumption, InvariantAfter
<1> QED BY <1>3, <1>4, <1>5, <1>6 DEF SetParams

LEMMA YieldInvariant ==
  ASSUME IInv, NEW i \in Item, Yield(i)
  PROVE  IInv'
<1>1. TypeOK /\ Sane(g_domain, prio, suspend_count) /\ Ready(Idle)
  BY SaneIsInvariant DEF IInv
<1>2. prio[i] \in Prio /\ Ready(i) /\ Requeue(i, prio[i])
  BY <1>1 DEF Yield, Requeue, TypeOK
<1>3. /\ Sane(g_domain', prio', suspend_count')
      /\ \A j \in Item : Ready(j)' <=> Ready(j)
      /\ prio' \in [Item -> Prio]
      /\ active' = active
      /\ suspend_count' = suspend_count
  BY <1>1, <1>2, RequeueProperties
<1>4. TypeOK'
  BY <1>1, <1>3 DEF Yield, TypeOK, Sane
<1>5. NoLostResched' /\ BoostWindowEmpty'
  BY DEF Yield, NoLostResched, BoostWindowEmpty
<1> QED BY <1>1, <1>3, <1>4, <1>5, IdleAssumption, InvariantAfter

LEMMA GetNextInvariant ==
  ASSUME IInv, GetNext
  PROVE  IInv'
<1>1. TypeOK /\ Sane(g_domain, prio, suspend_count) /\ Ready(Idle)
  BY SaneIsInvariant DEF IInv
<1>2. /\ active' \in Item
      /\ Ready(active')
      /\ \A j \in Item : Ready(j) => prio[active'] <= prio[j]
  BY <1>1, IdleAssumption, SaneGet DEF GetNext, Ready
<1>3. /\ UNCHANGED << changed, saved_params, g_domain, suspend_count, prio >>
      /\ \A j \in Item : Ready(j)' <=> Ready(j)
      /\ resched_pending' = FALSE
  BY DEF GetNext, Ready
<1>4. TypeOK'
  BY <1>1, <1>2, <1>3 DEF TypeOK
<1>5. NoLostResched'
  BY <1>2, <1>3 DEF NoLostResched, Best
<1>6. BoostWindowEmpty'
  <2>1. SUFFICES ASSUME ~changed, NEW j \in Item, Ready(j), j # active'
                 PROVE  saved_params <= prio[j]
    BY <1>3 DEF BoostWindowEmpty
  <2>2. CASE j # active
    BY <2>1, <2>2 DEF IInv, BoostWindowEmpty
  <2>3. CASE j = active
    <3>1. saved_params <= prio[active']
      BY <2>1, <2>3, <1>2 DEF IInv, BoostWindowEmpty
    <3>2. saved_params \in Int /\ prio[active'] \in Int /\ prio[j] \in Int
      BY <1>1, <1>2, PrioSets DEF TypeOK
    <3> QED BY <3>1, <3>2, <2>1, <1>2
  <2> QED BY <2>2, <2>3
<1> QED BY <1>1, <1>3, <1>4, <1>5, <1>6, InvariantAfter, IdleAssumption
        DEF Sane

LEMMA NextInvariant == IInv /\ [Next]_vars => IInv'
<1> SUFFICES ASSUME IInv, [Next]_vars PROVE IInv'
  OBVIOUS
<1>1. ASSUME NEW i \in Item, NEW p \in UserPrio, ItemInit(i, p) PROVE IInv'
  BY <1>1, ItemInitInvariant
<1>2. ASSUME NEW i \in Item, NEW p \in UserPrio, SetParams(i, p) PROVE IInv'
  BY <1>2, SetParamsInvariant
<1>3. ASSUME NEW i \in Item, ItemRemove(i) PROVE IInv'
  BY <1>3, ItemRemoveInvariant
<1>4. ASSUME NEW i \in Item, ItemSuspend(i) PROVE IInv'
  BY <1>4, ItemSuspendInvariant
<1>5. ASSUME NEW i \in Item, ItemResume(i) PROVE IInv'
  BY <1>5, ItemResumeInvariant
<1>6. ASSUME NEW i \in Item, Yield(i) PROVE IInv'
  BY <1>6, YieldInvariant
<1>7. CASE MarkReschedNeeded
  BY <1>7 DEF MarkReschedNeeded, IInv, TypeOK, QueuesConsistent,
              BitmapConsistent, NoLostResched, BoostWindowEmpty, Ready
<1>8. CASE GetNext
  BY <1>8, GetNextInvariant
<1>9. CASE UNCHANGED vars
  BY <1>9 DEF vars, IInv, TypeOK, QueuesConsistent, BitmapConsistent,
              NoLostResched, BoostWindowEmpty, Best, Ready
<1> QED
  BY <1>1, <1>2, <1>3, <1>4, <1>5, <1>6, <1>7, <1>8, <1>9 DEF Next, ItemOp

THEOREM InductiveInvariant == Spec => []IInv
BY InitInvariant, NextInvariant, PTL DEF Spec

-----------------------------------------------------------------------------
(* Every variable keeps its type; in particular suspend_count never leaves *)
(* 0 .. 1, and the picked item is always an item.                          *)
THEOREM TypeCorrect == Spec => []TypeOK
<1>1. IInv => TypeOK
  BY DEF IInv
<1> QED BY <1>1, InductiveInvariant, PTL

(* The queues and the two-level bitmap stay consistent under every order   *)
(* of operations, for any number of priorities and any width of a word.    *)
THEOREM ContainerConsistent == Spec => [](QueuesConsistent /\ BitmapConsistent)
<1>1. IInv => QueuesConsistent /\ BitmapConsistent
  BY DEF IInv
<1> QED BY <1>1, InductiveInvariant, PTL

(* No sequence of operations, boosts and un-boosts that save a reschedule  *)
(* included, leaves a better ready item waiting with nothing pending.      *)
THEOREM ReschedNotLost == Spec => []NoLostResched
<1>1. IInv => NoLostResched
  BY DEF IInv
<1> QED BY <1>1, InductiveInvariant, PTL

-----------------------------------------------------------------------------
(* Refinement of the abstract priority scheduler.                          *)

LEMMA AbstractInit == Init => Abstract!Init
<1> SUFFICES ASSUME Init PROVE Abstract!Init
  OBVIOUS
<1>1. IInv
  BY InitInvariant
<1>2. /\ {i \in Item : Ready(i)} \in SUBSET Item
      /\ prio \in [Item -> Prio]
      /\ active \in {i \in Item : Ready(i)}
      /\ resched_pending = TRUE
  BY <1>1, IdleAssumption DEF IInv, TypeOK, BitmapConsistent, Init
<1> QED BY <1>2 DEF Abstract!Init

LEMMA AbstractStep ==
  ASSUME IInv, IInv', [Next]_vars
  PROVE  [Abstract!Next]_(Abstract!vars)
<1>1. /\ {i \in Item : Ready(i)}' \in SUBSET Item
      /\ prio' \in [Item -> Prio]
      /\ resched_pending' \in BOOLEAN
  BY DEF IInv, TypeOK
<1>2. ASSUME NEW i \in Item, NEW p \in UserPrio, ItemInit(i, p) \/ SetParams(i, p)
      PROVE  active' = active /\ (resched_pending => resched_pending')
  <2>1. CASE ItemInit(i, p)
    BY <2>1 DEF ItemInit
  <2>2. CASE SetParams(i, p)
    BY <2>2 DEF SetParams, SetParamsBoost, SetParamsUnboost, SetParamsReady,
                SetParamsSuspended, Requeue
  <2> QED BY <1>2, <2>1, <2>2
<1>3. ASSUME NEW i \in Item,
             ItemRemove(i) \/ ItemSuspend(i) \/ ItemResume(i) \/ Yield(i)
      PROVE  active' = active /\ (resched_pending => resched_pending')
  <2>1. CASE ItemRemove(i)
    BY <2>1 DEF ItemRemove
  <2>2. CASE ItemSuspend(i)
    BY <2>2 DEF ItemSuspend
  <2>3. CASE ItemResume(i)
    BY <2>3 DEF ItemResume
  <2>4. CASE Yield(i)
    BY <2>4 DEF Yield
  <2> QED BY <1>3, <2>1, <2>2, <2>3, <2>4
<1>4. ASSUME active' = active, resched_pending => resched_pending'
      PROVE  Abstract!Change
  <2>1. ~resched_pending' =>
          active' \in Abstract!BestItems({i \in Item : Ready(i)}', prio')
    <3>1. ~resched_pending' => Best(active)' /\ active' \in Item
      BY DEF IInv, NoLostResched, TypeOK
    <3> QED BY <3>1 DEF Best, Abstract!BestItems
  <2>2. ~resched_pending' =>
          active \in Abstract!BestItems({i \in Item : Ready(i)}', prio')
    BY <2>1, <1>4
  <2> QED BY <1>1, <1>4, <2>2 DEF Abstract!Change
<1>5. ASSUME GetNext PROVE Abstract!Dispatch
  <2>1. TypeOK /\ Sane(g_domain, prio, suspend_count) /\ Ready(Idle)
    BY SaneIsInvariant DEF IInv
  <2>2. /\ active' \in Item
        /\ Ready(active')
        /\ \A j \in Item : Ready(j) => prio[active'] <= prio[j]
    BY <1>5, <2>1, IdleAssumption, SaneGet DEF GetNext, Ready
  <2>3. active' \in Abstract!BestItems({i \in Item : Ready(i)}, prio)
    BY <2>2 DEF Abstract!BestItems
  <2>4. /\ resched_pending /\ resched_pending' = FALSE
        /\ {i \in Item : Ready(i)}' = {i \in Item : Ready(i)}
        /\ prio' = prio
    BY <1>5 DEF GetNext, Ready
  <2> QED BY <2>3, <2>4 DEF Abstract!Dispatch
<1>6. CASE MarkReschedNeeded
  BY <1>6, <1>4 DEF MarkReschedNeeded, Abstract!Next
<1>7. CASE UNCHANGED vars
  BY <1>7 DEF vars, Ready, Abstract!vars
<1> QED BY <1>2, <1>3, <1>4, <1>5, <1>6, <1>7
        DEF Next, ItemOp, Abstract!Next

(* The scheduler implements the abstract one: a dispatch that is owed is   *)
(* never forgotten, goes to a best ready item, and none is skipped unless  *)
(* the running item is still among the best.                               *)
THEOREM ImplementsPriorityScheduling == Spec => PriorityScheduling
<1>1. Init => Abstract!Init
  BY AbstractInit
<1>2. IInv /\ IInv' /\ [Next]_vars => [Abstract!Next]_(Abstract!vars)
  BY AbstractStep
<1> QED BY <1>1, <1>2, InductiveInvariant, PTL
        DEF Spec, PriorityScheduling, Abstract!Spec

-----------------------------------------------------------------------------
(* Time slices.  The operations below are those of threads and of the tick *)
(* as the scheduler sees them, and the dispatch.                           *)

Readies == {j \in Item : Ready(j)}

(* What an operation makes of the items that are ready.                    *)
LEMMA ReadyAfter ==
  ASSUME IInv, NEW i \in Item
  PROVE  /\ ItemRemove(i) \/ ItemSuspend(i) => Readies' = Readies \ {i}
         /\ ItemResume(i) => Readies' = Readies \cup {i}
         /\ Yield(i) \/ YieldRemoved(i) => Readies' = Readies \cup {i}
<1>1. TypeOK /\ Sane(g_domain, prio, suspend_count) /\ prio[i] \in Prio
  BY SaneIsInvariant DEF IInv, TypeOK
<1> DEFINE d == ContainerRemove(g_domain, i, prio[i])
<1>2. ASSUME ItemRemove(i) PROVE Readies' = Readies \ {i}
  <2>1. \A j \in Item : InContainer(d, j) <=> InContainer(g_domain, j) /\ j # i
    BY <1>1, SaneRemove DEF SameBut
  <2> QED BY <1>2, <2>1 DEF ItemRemove, Readies, Ready
<1>3. ASSUME ItemSuspend(i) PROVE Readies' = Readies \ {i}
  <2>1. \A j \in Item : InContainer(d, j) <=> InContainer(g_domain, j) /\ j # i
    BY <1>1, SaneRemove DEF SameBut
  <2>2. suspend_count[i] = 0
    BY <1>1, <1>3 DEF ItemSuspend, Ready, InContainer, Sane
  <2>3. g_domain' = d
    BY <1>1, <1>3, <2>2 DEF ItemSuspend, TypeOK
  <2> QED BY <2>1, <2>3 DEF Readies, Ready
<1>4. ASSUME ItemResume(i) PROVE Readies' = Readies \cup {i}
  <2>1. suspend_count[i] = 1
    BY <1>1, <1>4 DEF ItemResume, TypeOK
  <2>2. ~InContainer(g_domain, i)
    BY <1>1, <2>1 DEF InContainer, Sane
  <2>3. /\ suspend_count' = [suspend_count EXCEPT ![i] = 0]
        /\ g_domain' = ContainerAdd(g_domain, i, prio[i])
    BY <1>1, <1>4, <2>1 DEF ItemResume, TypeOK
  <2>4. SameBut(suspend_count, suspend_count', i) /\ suspend_count'[i] = 0
    BY <1>1, <2>3 DEF SameBut, TypeOK
  <2>5. SameBut(prio, prio, i)
    BY DEF SameBut
  <2>6. \A j \in Item : InContainer(ContainerAdd(g_domain, i, prio[i]), j)
                        <=> InContainer(g_domain, j) \/ j = i
    BY <1>1, <2>2, <2>4, <2>5, SaneAdd
  <2> QED BY <2>3, <2>6 DEF Readies, Ready
<1>5. ASSUME Yield(i) \/ YieldRemoved(i) PROVE Readies' = Readies \cup {i}
  <2>1. /\ Sane(d, prio, suspend_count)
        /\ \A j \in Item : InContainer(d, j) <=> InContainer(g_domain, j) /\ j # i
    BY <1>1, SaneRemove DEF SameBut
  <2>2. suspend_count[i] = 0 /\ g_domain' = ContainerAdd(d, i, prio[i])
    BY <1>5 DEF Yield, YieldRemoved
  <2> HIDE DEF d
  <2>3. ~InContainer(d, i)
    BY <2>1
  <2>4. \A j \in Item : InContainer(g_domain', j) <=> InContainer(d, j) \/ j = i
    BY <1>1, <2>1, <2>2, <2>3, SaneAdd, ZenonT(30) DEF SameBut
  <2> QED BY <2>1, <2>4 DEF Readies, Ready
<1> QED BY <1>2, <1>3, <1>4, <1>5

(* Setting parameters makes no item ready, and none not ready.             *)
LEMMA SetParamsReadies ==
  ASSUME IInv, NEW i \in Item, NEW p \in UserPrio, SetParams(i, p)
  PROVE  Readies' = Readies
<1>1. TypeOK /\ Sane(g_domain, prio, suspend_count) /\ p \in Prio
  BY SaneIsInvariant, PrioSets DEF IInv
<1>2. CASE Ready(i) /\ Requeue(i, p)
  BY <1>1, <1>2, RequeueProperties DEF Readies
<1>3. CASE g_domain' = g_domain
  BY <1>3 DEF Readies, Ready
<1> QED BY <1>2, <1>3 DEF SetParams, SetParamsBoost, SetParamsUnboost,
                          SetParamsReady, SetParamsSuspended

(* The yield of an item that was removed leaves the scheduler as sane as   *)
(* any other one.                                                          *)
LEMMA YieldRemovedInvariant ==
  ASSUME IInv, NEW i \in Item, YieldRemoved(i)
  PROVE  IInv'
<1>1. TypeOK /\ Sane(g_domain, prio, suspend_count) /\ Ready(Idle)
  BY SaneIsInvariant DEF IInv
<1> DEFINE d == ContainerRemove(g_domain, i, prio[i])
<1>2. /\ prio[i] \in Prio /\ suspend_count[i] = 0
      /\ g_domain' = ContainerAdd(d, i, prio[i])
      /\ changed' = TRUE /\ resched_pending' = TRUE
      /\ UNCHANGED << saved_params, active, suspend_count, prio >>
  BY <1>1 DEF YieldRemoved, TypeOK
<1>3. /\ Sane(d, prio, suspend_count)
      /\ \A j \in Item : InContainer(d, j) <=> InContainer(g_domain, j) /\ j # i
  BY <1>1, <1>2, SaneRemove DEF SameBut
<1> HIDE DEF d
<1>4. ~InContainer(d, i)
  BY <1>3
<1>5. Sane(ContainerAdd(d, i, prio[i]), prio, suspend_count)
  BY <1>2, <1>3, <1>4, SaneAdd, ZenonT(30) DEF SameBut
<1>6. Sane(g_domain', prio', suspend_count')
  BY <1>2, <1>5
<1>7. Readies' = Readies \cup {i}
  BY ReadyAfter
<1>8. Ready(Idle)'
  BY <1>1, <1>7, IdleAssumption DEF Readies
<1>9. TypeOK'
  BY <1>1, <1>2, <1>6 DEF TypeOK, Sane
<1>10. NoLostResched' /\ BoostWindowEmpty'
  BY <1>2 DEF NoLostResched, BoostWindowEmpty
<1> QED BY <1>6, <1>8, <1>9, <1>10, InvariantAfter

(* A step of a thread or of the tick is one of the scheduler, or that.     *)
LEMMA SchedStep ==
  ASSUME IInv, [SliceNext]_allVars
  PROVE  Next \/ UNCHANGED vars \/ YieldRemoved(active)
<1>1. CASE Dispatch
  BY <1>1 DEF Dispatch, Next
<1>2. CASE QuantaExpired
  <2>1. CASE UNCHANGED vars
    BY <2>1 DEF vars
  <2>2. CASE Yield(active)
    <3>1. PICK i \in Item : Yield(i)
      BY <2>2 DEF IInv, TypeOK
    <3> QED BY <3>1 DEF Next, ItemOp
  <2> QED BY <1>2, <2>1, <2>2 DEF QuantaExpired
<1>3. ASSUME NEW i \in Item, NEW p \in UserPrio,
             ThreadInit(i, p) \/ SetPriority(i, p)
      PROVE  Next
  <2>1. ItemInit(i, p) \/ SetParams(i, p)
    BY <1>3 DEF ThreadInit, SetPriority
  <2> QED BY <2>1 DEF Next, ItemOp
<1>4. ASSUME NEW i \in Item, WakeUp(i) \/ ExitSync(i) \/ Suspend(i) \/ ThreadYield(i)
      PROVE  Next \/ UNCHANGED vars
  <2>1. \/ ItemResume(i) \/ ItemRemove(i) \/ ItemSuspend(i) \/ Yield(i)
        \/ UNCHANGED vars
    BY <1>4 DEF WakeUp, ExitSync, Suspend, ThreadYield
  <2> QED BY <2>1 DEF Next, ItemOp
<1>5. ASSUME NEW i \in Item, NEW b \in Timeslice, SetTimeslice(i, b)
      PROVE  UNCHANGED vars
  BY <1>5 DEF SetTimeslice, vars
<1>6. CASE UNCHANGED allVars
  BY <1>6 DEF allVars, vars
<1> QED BY <1>1, <1>2, <1>3, <1>4, <1>5, <1>6, Zenon DEF SliceNext

LEMMA SchedStepInvariant ==
  ASSUME IInv, [SliceNext]_allVars
  PROVE  IInv'
<1>1. CASE Next \/ UNCHANGED vars
  BY <1>1, NextInvariant
<1>2. CASE YieldRemoved(active)
  <2>1. PICK i \in Item : YieldRemoved(i)
    BY <1>2 DEF IInv, TypeOK
  <2> QED BY <2>1, YieldRemovedInvariant
<1> QED BY <1>1, <1>2, SchedStep

(* No operation of the scheduler but the dispatch changes the thread.      *)
LEMMA OnlyDispatchSwitches ==
  ASSUME NEW i \in Item,
         \/ \E p \in UserPrio : ItemInit(i, p) \/ SetParams(i, p)
         \/ ItemResume(i) \/ ItemRemove(i)
         \/ ItemSuspend(i) \/ Yield(i) \/ YieldRemoved(i)
  PROVE  active' = active
BY DEF ItemInit, SetParams, SetParamsBoost, SetParamsUnboost, SetParamsReady,
       SetParamsSuspended, Requeue, ItemResume, ItemRemove, ItemSuspend, Yield,
       YieldRemoved

-----------------------------------------------------------------------------
(* The timer, when it is armed, was set for the active thread.             *)
SliceInv ==
  /\ SliceTypeOK
  /\ SliceOfActive
  /\ timer_armed => slice_owner = active

(* A dispatch leaves the timer set for the thread it picks, or not at all. *)
LEMMA DispatchKeepsSlice ==
  ASSUME IInv', SliceInv, Dispatch
  PROVE  SliceInv'
<1> DEFINE should == timeslice[active'] /\ ~IsUnique(active')
           cancel == (active' # active \/ ~should) /\ timer_armed
           armed  == timer_armed /\ ~cancel
           set    == should /\ ~armed
<1>1. /\ timer_armed' = (armed \/ should)
      /\ slice_timer' = ((slice_timer /\ ~cancel) \/ set)
      /\ slice_owner' = IF set THEN active' ELSE IF armed THEN slice_owner ELSE Idle
      /\ timeslice' = timeslice /\ alive' = alive /\ revived' = revived
      /\ sliced' = timeslice[active']
  BY DEF Dispatch, TimesliceReset, lifeVars
<1>2. should => active' # Idle
  BY DEF SliceInv, SliceTypeOK
<1>3. active' \in Item
  BY DEF IInv, TypeOK
<1>4. timeslice[active'] \in BOOLEAN
  BY <1>3 DEF SliceInv, SliceTypeOK
<1>5. should \in BOOLEAN
  OBVIOUS
<1> HIDE DEF should
<1>6. SliceTypeOK'
  BY <1>1, <1>3, <1>4, <1>5, IdleAssumption DEF SliceInv, SliceTypeOK
<1>7. SliceOfActive' /\ (timer_armed' => slice_owner' = active')
  BY <1>1, <1>2, <1>5 DEF SliceInv, SliceTypeOK, SliceOfActive
<1> QED BY <1>6, <1>7 DEF SliceInv

(* The invariant is inductive.                                             *)
LEMMA SliceInvInductive ==
  ASSUME IInv, SliceInv, [SliceNext]_allVars
  PROVE  SliceInv'
<1>1. CASE Dispatch
  BY <1>1, DispatchKeepsSlice, SchedStepInvariant
<1>2. CASE QuantaExpired
  <2>1. active \in Item /\ active # Idle
    BY <1>2 DEF QuantaExpired, SliceInv, SliceOfActive, IInv, TypeOK
  <2>2. active' = active
    BY <1>2, <2>1, OnlyDispatchSwitches DEF QuantaExpired, vars
  <2>3. revived' \subseteq Item \ {Idle}
    BY <1>2, <2>1 DEF QuantaExpired, SliceInv, SliceTypeOK
  <2> QED BY <1>2, <2>2, <2>3 DEF QuantaExpired, SliceInv, SliceTypeOK, SliceOfActive
<1>3. ASSUME NEW i \in Item, NEW p \in UserPrio, ThreadInit(i, p)
      PROVE  SliceInv'
  <2>1. active' = active /\ i # Idle
    BY <1>3, OnlyDispatchSwitches DEF ThreadInit, ItemInit
  <2> QED BY <1>3, <2>1
          DEF ThreadInit, tickVars, SliceInv, SliceTypeOK, SliceOfActive
<1>4. ASSUME NEW i \in Item, NEW b \in Timeslice, SetTimeslice(i, b)
      PROVE  SliceInv'
  <2>1. i # Idle
    BY <1>4 DEF SetTimeslice, SliceInv, SliceTypeOK
  <2> QED BY <1>4, <2>1, TimesliceAssumption
          DEF SetTimeslice, vars, tickVars, lifeVars, SliceInv, SliceTypeOK,
              SliceOfActive
<1>5. ASSUME NEW i \in Item, ExitSync(i)
      PROVE  SliceInv'
  <2>1. active' = active
    BY <1>5, OnlyDispatchSwitches DEF ExitSync, vars
  <2> QED BY <1>5, <2>1
          DEF ExitSync, tickVars, SliceInv, SliceTypeOK, SliceOfActive
<1>6. ASSUME NEW i \in Item,
             \/ \E p \in UserPrio : SetPriority(i, p)
             \/ WakeUp(i) \/ Suspend(i) \/ ThreadYield(i)
      PROVE  SliceInv'
  <2>1. active' = active
    BY <1>6, OnlyDispatchSwitches DEF SetPriority, WakeUp, Suspend, ThreadYield
  <2>2. UNCHANGED sliceVars
    BY <1>6 DEF SetPriority, WakeUp, Suspend, ThreadYield
  <2> QED BY <2>1, <2>2
          DEF sliceVars, tickVars, lifeVars, SliceInv, SliceTypeOK, SliceOfActive
<1>7. CASE UNCHANGED allVars
  BY <1>7 DEF allVars, vars, sliceVars, tickVars, lifeVars, SliceInv,
              SliceTypeOK, SliceOfActive
<1> QED BY <1>1, <1>2, <1>3, <1>4, <1>5, <1>6, <1>7, Zenon DEF SliceNext

LEMMA SliceStart == SliceInit => IInv /\ SliceInv
<1> SUFFICES ASSUME SliceInit PROVE IInv /\ SliceInv
  OBVIOUS
<1>1. IInv
  BY InitInvariant DEF SliceInit
<1> QED BY <1>1, IdleAssumption
        DEF SliceInit, SliceInv, SliceTypeOK, SliceOfActive

(* The timer that runs is that of the active thread: no thread, least of   *)
(* all IDLE, is made to yield when the slice of another one ends.          *)
THEOREM SliceHasOwner == SliceSpec => []SliceOfActive
<1>1. IInv /\ SliceInv /\ [SliceNext]_allVars => (IInv /\ SliceInv)'
  BY SchedStepInvariant, SliceInvInductive
<1>2. SliceInv => SliceOfActive
  BY DEF SliceInv
<1> QED BY <1>1, <1>2, SliceStart, PTL DEF SliceSpec

-----------------------------------------------------------------------------
(* A thread that was dispatched with a time slice has its timer armed when *)
(* it has peers.  Two operations may give it peers without a reschedule: a *)
(* boost, which takes it to a queue that is empty, and the end of a boost, *)
(* which takes it back to peers it had before.                             *)
HasPeer(p) == \E j \in Readies \ {active} : prio[j] = p

TimedInv ==
  /\ resched_pending => changed
  /\ ~resched_pending /\ sliced /\ HasPeer(prio[active]) => timer_armed
  /\ ~resched_pending /\ ~changed /\ sliced /\ HasPeer(saved_params)
       => timer_armed

(* The container yields the head of the queue of its own priority.         *)
LEMMA PickedFromItsQueue ==
  ASSUME NEW d, NEW pr, NEW sc, Sane(d, pr, sc), InContainer(d, Idle)
  PROVE  LET i == ContainerGet(d)
         IN  /\ i \in Item
             /\ Linked(d.priority_queues[pr[i]], i)
             /\ i = Head(d.priority_queues[pr[i]])
<1> DEFINE i == ContainerGet(d)
           b == BestPrio(d)
<1>1. d \in Container /\ BitmapExact(d)
  BY DEF Sane
<1>2. PICK p \in Prio : Linked(d.priority_queues[p], Idle)
  BY DEF InContainer
<1>3. d.priority_queues[p] # << >>
  <2>1. d.priority_queues[p] \in Seq(Item)
    BY <1>1 DEF Container
  <2> QED BY <1>2, <2>1, EmptyQueue, IdleAssumption
<1>4. /\ b \in Prio /\ i \in Item
      /\ Linked(d.priority_queues[b], i)
  BY <1>1, <1>2, <1>3, GetProperties
<1>5. pr[i] = b
  BY <1>4 DEF Sane
<1>6. i = Head(d.priority_queues[b])
  BY DEF ContainerGet
<1> QED BY <1>4, <1>5, <1>6

(* A ready thread that is not alone in its queue has a peer.               *)
LEMMA PeerInQueue ==
  ASSUME IInv, Ready(active), ~IsUnique(active)
  PROVE  HasPeer(prio[active])
<1>1. TypeOK /\ Sane(g_domain, prio, suspend_count) /\ prio[active] \in Prio
  BY SaneIsInvariant DEF IInv, TypeOK
<1> DEFINE q == Queue(active)
<1>2. PICK p \in Prio : Linked(g_domain.priority_queues[p], active)
  BY DEF Ready, InContainer
<1>3. p = prio[active]
  BY <1>1, <1>2 DEF Sane, TypeOK
<1>4. q = g_domain.priority_queues[p] /\ q \in Seq(Item) /\ Linked(q, active)
  BY <1>1, <1>2, <1>3 DEF Queue, Sane, Container
<1>5. Head(q) # q[Len(q)]
  BY DEF IsUnique
<1> HIDE DEF q
<1>6. Len(q) \in Nat /\ Len(q) >= 1 /\ Head(q) = q[1]
  BY <1>4 DEF Linked
<1>7. q[1] \in Item /\ q[Len(q)] \in Item
  BY <1>4, <1>6, ElementOfSeq
<1>8. Linked(q, q[1]) /\ Linked(q, q[Len(q)])
  BY <1>6 DEF Linked
<1>9. PICK j \in Item : j # active /\ Linked(q, j)
  BY <1>5, <1>6, <1>7, <1>8
<1>10. Ready(j) /\ prio[j] = p
  BY <1>1, <1>4, <1>9 DEF Ready, InContainer, Sane
<1> QED BY <1>3, <1>9, <1>10 DEF HasPeer, Readies

(* The thread that is picked next is not alone if it has a peer.           *)
LEMMA PickedWithPeer ==
  ASSUME IInv, NEW i \in Item, i = ContainerGet(g_domain),
         NEW j \in Item, j # i, Ready(j), prio[j] = prio[i]
  PROVE  ~IsUnique(i)
<1>1. TypeOK /\ Sane(g_domain, prio, suspend_count) /\ prio[i] \in Prio
  BY SaneIsInvariant DEF IInv, TypeOK
<1> DEFINE q == Queue(i)
<1>2. i = Head(q)
  BY <1>1, PickedFromItsQueue DEF IInv, BitmapConsistent, Ready, Queue
<1>3. PICK p \in Prio : Linked(g_domain.priority_queues[p], j)
  BY DEF Ready, InContainer
<1>4. p = prio[i]
  BY <1>1, <1>3 DEF Sane
<1>5. q \in Seq(Item) /\ IsInjective(q) /\ Linked(q, j)
  BY <1>1, <1>3, <1>4 DEF Queue, Sane, Container
<1> HIDE DEF q
<1>6. PICK k \in 1 .. Len(q) : q[k] = j
  BY <1>5 DEF Linked
<1>7. Len(q) \in Nat /\ Head(q) = q[1] /\ DOMAIN q = 1 .. Len(q)
  BY <1>5, <1>6
<1>8. k # 1 /\ Len(q) # 1 /\ 1 \in DOMAIN q /\ Len(q) \in DOMAIN q
  BY <1>2, <1>6, <1>7
<1>9. q[1] # q[Len(q)]
  BY <1>5, <1>8 DEF IsInjective
<1> QED BY <1>7, <1>9 DEF IsUnique, q

LEMMA DispatchTimes ==
  ASSUME IInv, IInv', SliceInv, TimedInv, Dispatch
  PROVE  TimedInv'
<1> DEFINE should == timeslice[active'] /\ ~IsUnique(active')
           cancel == (active' # active \/ ~should) /\ timer_armed
           armed  == timer_armed /\ ~cancel
<1>1. /\ resched_pending /\ resched_pending' = FALSE
      /\ active' = ContainerGet(g_domain) /\ active' \in Item
      /\ UNCHANGED << changed, saved_params, g_domain, prio >>
      /\ Readies' = Readies
  BY DEF Dispatch, GetNext, IInv, TypeOK, Readies, Ready
<1>2. timer_armed' = (armed \/ should) /\ sliced' = timeslice[active']
  BY DEF Dispatch, TimesliceReset
<1>3. changed'
  BY <1>1 DEF TimedInv
<1>4. ASSUME sliced', HasPeer(prio[active])' PROVE timer_armed'
  <2>1. PICK j \in Readies : j # active' /\ prio[j] = prio[active']
    BY <1>1, <1>4 DEF HasPeer
  <2>2. ~IsUnique(active')
    BY <1>1, <2>1, PickedWithPeer DEF Readies
  <2> QED BY <1>2, <1>4, <2>2
<1> QED BY <1>1, <1>3, <1>4 DEF TimedInv

LEMMA SetPriorityTimes ==
  ASSUME IInv, SliceInv, TimedInv, NEW i \in Item, NEW p \in UserPrio,
         SetPriority(i, p)
  PROVE  TimedInv'
<1>1. /\ TypeOK /\ Sane(g_domain, prio, suspend_count)
      /\ p \in Prio /\ prio \in [Item -> Int] /\ p \in Int
      /\ timer_armed' = timer_armed /\ sliced' = sliced
  BY SaneIsInvariant, PrioSets DEF IInv, TypeOK, SetPriority, sliceVars, tickVars
<1>2. ASSUME Ready(i), Requeue(i, p)
      PROVE  /\ Readies' = Readies
             /\ prio'[i] = p
             /\ \A j \in Item \ {i} : prio'[j] = prio[j]
             /\ active' = active
  BY <1>1, <1>2, RequeueProperties DEF Readies, SameBut
<1>3. CASE ~resched_pending /\ SetParamsBoost(i, p)
  <2>1. /\ Ready(i) /\ Requeue(i, p) /\ i = active /\ p < prio[i]
        /\ saved_params' = prio[i] /\ resched_pending' = resched_pending
    BY <1>3 DEF SetParamsBoost, Boosts, IsPreempt
  <2>2. \A j \in Readies : prio[i] <= prio[j]
    BY <1>3, <2>1 DEF IInv, NoLostResched, Best, Readies
  <2>3. ~HasPeer(prio[active])'
    <3>1. ASSUME NEW j \in Readies, j # active, prio'[j] = p PROVE FALSE
      <4>1. prio[j] = p /\ prio[i] <= prio[j] /\ j \in Item
        BY <3>1, <2>1, <2>2, <1>2 DEF Readies
      <4> QED BY <4>1, <2>1, <1>1
    <3> QED BY <3>1, <2>1, <1>2 DEF HasPeer
  <2>4. HasPeer(saved_params)' => HasPeer(prio[active])
    BY <2>1, <1>2 DEF HasPeer, Readies
  <2> QED BY <1>1, <1>3, <2>1, <2>3, <2>4 DEF TimedInv
<1>4. CASE SetParamsUnboost(i, p)
  <2>1. /\ Ready(i) /\ Requeue(i, p) /\ i = active /\ ~changed
        /\ saved_params = p
        /\ UNCHANGED << resched_pending, changed, saved_params >>
    BY <1>4 DEF SetParamsUnboost, Unboosts
  <2>2. HasPeer(saved_params)' => HasPeer(saved_params)
    BY <2>1, <1>2 DEF HasPeer, Readies
  <2>3. HasPeer(prio[active])' => HasPeer(saved_params)
    BY <2>1, <1>2 DEF HasPeer, Readies
  <2> QED BY <1>1, <2>1, <2>2, <2>3 DEF TimedInv
<1>5. CASE SetParamsReady(i, p)
  BY <1>5 DEF SetParamsReady, TimedInv
<1>6. CASE SetParamsSuspended(i, p)
  <2>1. /\ suspend_count[i] > 0 /\ prio' = [prio EXCEPT ![i] = p]
        /\ UNCHANGED << resched_pending, changed, saved_params, g_domain,
                        active >>
    BY <1>6 DEF SetParamsSuspended
  <2>2. i \notin Readies /\ Readies' = Readies
    BY <2>1, <1>1 DEF Readies, Ready, InContainer, Sane
  <2>3. \A j \in Readies : prio'[j] = prio[j]
    BY <2>1, <2>2, <1>1 DEF Readies
  <2>4. ~resched_pending => active \in Readies
    BY DEF IInv, NoLostResched, Best, Readies, TypeOK
  <2>5. ~resched_pending' => (HasPeer(prio[active])' => HasPeer(prio[active]))
    BY <2>1, <2>2, <2>3, <2>4 DEF HasPeer
  <2>6. HasPeer(saved_params)' => HasPeer(saved_params)
    BY <2>1, <2>2, <2>3 DEF HasPeer
  <2> QED BY <1>1, <2>1, <2>5, <2>6 DEF TimedInv
<1> QED BY <1>3, <1>4, <1>5, <1>6 DEF SetPriority, SetParams

(* The other operations give the active thread no peers, or a reschedule.  *)
LEMMA OthersTime ==
  ASSUME IInv, SliceInv, TimedInv, NEW i \in Item,
         ItemRemove(i) \/ ItemSuspend(i) \/ ItemResume(i)
           \/ Yield(i) \/ YieldRemoved(i),
         timer_armed' = timer_armed, sliced' = sliced
  PROVE  TimedInv'
<1>1. CASE Yield(i) \/ YieldRemoved(i)
  BY <1>1 DEF Yield, YieldRemoved, TimedInv
<1>2. CASE ItemRemove(i)
  <2>1. /\ changed' = TRUE /\ resched_pending' = (resched_pending \/ active = i)
        /\ prio' = prio /\ active' = active
    BY <1>2 DEF ItemRemove
  <2>2. Readies' = Readies \ {i}
    BY <1>2, ReadyAfter
  <2>3. HasPeer(prio[active])' => HasPeer(prio[active])
    BY <2>1, <2>2 DEF HasPeer
  <2> QED BY <2>1, <2>3 DEF TimedInv
<1>3. CASE ItemSuspend(i)
  <2>1. suspend_count[i] = 0
    BY <1>3, SaneIsInvariant DEF IInv, ItemSuspend, Ready, InContainer, Sane
  <2>2. changed' = TRUE /\ resched_pending' = TRUE
    BY <1>3, <2>1 DEF ItemSuspend, IInv, TypeOK
  <2> QED BY <2>2 DEF TimedInv
<1>4. CASE ItemResume(i)
  <2>1. suspend_count[i] = 1
    BY <1>4 DEF ItemResume, IInv, TypeOK
  <2>2. /\ changed' = TRUE
        /\ resched_pending' = (\/ resched_pending
                               \/ prio[i] = prio[active]
                               \/ IsPreempt(prio[i], prio[active]))
        /\ prio' = prio /\ active' = active
    BY <1>4, <2>1 DEF ItemResume, IInv, TypeOK
  <2>3. Readies' = Readies \cup {i}
    BY <1>4, ReadyAfter
  <2>4. ~resched_pending' => ~resched_pending /\ prio[i] # prio[active]
    BY <2>2
  <2>5. ~resched_pending' => (HasPeer(prio[active])' => HasPeer(prio[active]))
    BY <2>2, <2>3, <2>4 DEF HasPeer
  <2> QED BY <2>2, <2>4, <2>5 DEF TimedInv
<1> QED BY <1>1, <1>2, <1>3, <1>4

(* What the timer is armed for depends on the ready threads, not on those  *)
(* that are created or ended elsewhere.                                    *)
LEMMA SameTimed ==
  ASSUME TimedInv, Readies' = Readies, \A j \in Readies \cup {active} : prio'[j] = prio[j],
         UNCHANGED << active, changed, saved_params, resched_pending,
                      timer_armed, sliced >>
  PROVE  TimedInv'
BY DEF TimedInv, HasPeer

LEMMA TimedInvInductive ==
  ASSUME IInv, SliceInv, TimedInv, [SliceNext]_allVars
  PROVE  TimedInv'
<1>1. CASE Dispatch
  BY <1>1, DispatchTimes, SchedStepInvariant
<1>2. CASE QuantaExpired
  <2>1. timer_armed' = timer_armed /\ sliced' = sliced
    BY <1>2 DEF QuantaExpired
  <2>2. CASE Yield(active) \/ YieldRemoved(active)
    <3>1. PICK i \in Item : Yield(i) \/ YieldRemoved(i)
      BY <2>2 DEF IInv, TypeOK
    <3> QED BY <2>1, <3>1, OthersTime
  <2>3. CASE UNCHANGED vars
    BY <2>1, <2>3, SameTimed DEF vars, Readies, Ready
  <2> QED BY <1>2, <2>2, <2>3 DEF QuantaExpired
<1>3. ASSUME NEW i \in Item, NEW p \in UserPrio, ThreadInit(i, p)
      PROVE  TimedInv'
  <2>1. /\ UNCHANGED << resched_pending, changed, saved_params, g_domain, active >>
        /\ ~Ready(i) /\ i # active /\ prio' = [prio EXCEPT ![i] = p]
        /\ timer_armed' = timer_armed /\ sliced' = sliced
    BY <1>3 DEF ThreadInit, ItemInit, tickVars
  <2>2. Readies' = Readies /\ i \notin Readies \cup {active}
    BY <2>1 DEF Readies, Ready
  <2>3. \A j \in Readies \cup {active} : prio'[j] = prio[j]
    BY <2>1, <2>2 DEF IInv, TypeOK, Readies
  <2> QED BY <2>1, <2>2, <2>3, SameTimed
<1>4. ASSUME NEW i \in Item, NEW b \in Timeslice, SetTimeslice(i, b)
      PROVE  TimedInv'
  BY <1>4, SameTimed DEF SetTimeslice, vars, tickVars, Readies, Ready
<1>5. ASSUME NEW i \in Item, NEW p \in UserPrio, SetPriority(i, p)
      PROVE  TimedInv'
  BY <1>5, SetPriorityTimes
<1>6. ASSUME NEW i \in Item, WakeUp(i) \/ ExitSync(i) \/ Suspend(i) \/ ThreadYield(i)
      PROVE  TimedInv'
  <2>1. timer_armed' = timer_armed /\ sliced' = sliced
    BY <1>6 DEF WakeUp, ExitSync, Suspend, ThreadYield, sliceVars, tickVars
  <2>2. CASE UNCHANGED vars
    BY <2>1, <2>2, SameTimed DEF vars, Readies, Ready
  <2>3. CASE ItemResume(i) \/ ItemRemove(i) \/ ItemSuspend(i) \/ Yield(i)
    BY <2>1, <2>3, OthersTime
  <2> QED BY <1>6, <2>2, <2>3 DEF WakeUp, ExitSync, Suspend, ThreadYield
<1>7. CASE UNCHANGED allVars
  BY <1>7, SameTimed DEF allVars, vars, sliceVars, tickVars, Readies, Ready
<1> QED BY <1>1, <1>2, <1>3, <1>4, <1>5, <1>6, <1>7, Zenon DEF SliceNext

LEMMA TimedShares ==
  ASSUME IInv, SliceInv, TimedInv
  PROVE  PeersShare
<1> SUFFICES ASSUME ~resched_pending, sliced, ~IsUnique(active), ~slice_timer
             PROVE  SliceOver
  BY DEF PeersShare
<1>1. Ready(active)
  BY DEF IInv, NoLostResched, Best
<1>2. timer_armed
  BY <1>1, PeerInQueue DEF TimedInv
<1> QED BY <1>2 DEF SliceInv, SliceOver

(* A thread that was dispatched with a time slice, and that has peers,     *)
(* has its timer running or has used its slice up, for any number of       *)
(* threads and priorities: neither a boost that ends without a reschedule, *)
(* nor an exit, a suspension or a resume by an interrupt, leaves it alone  *)
(* on the processor with no timer that was set for it.                     *)
THEOREM PeersAreTimed == SliceSpec => []PeersShare
<1> DEFINE Inv == IInv /\ SliceInv /\ TimedInv
<1>1. SliceInit => Inv
  BY SliceStart DEF SliceInit, Init, TimedInv
<1>2. Inv /\ [SliceNext]_allVars => Inv'
  BY SchedStepInvariant, SliceInvInductive, TimedInvInductive
<1>3. Inv => PeersShare
  BY TimedShares
<1> QED BY <1>1, <1>2, <1>3, PTL DEF SliceSpec

-----------------------------------------------------------------------------
(* A thread that has ended is in no queue.                                 *)
EndedInv == IInv /\ SliceInv /\ EndedStaysOut

LEMMA EndedInvInductive == EndedInv /\ [SliceNext]_allVars => EndedInv'
<1> SUFFICES ASSUME EndedInv, [SliceNext]_allVars PROVE EndedInv'
  OBVIOUS
<1>0. IInv /\ SliceInv
  BY DEF EndedInv
<1>1. IInv' /\ SliceInv'
  BY <1>0, SchedStepInvariant, SliceInvInductive
<1> DEFINE Known == Readies \ {Idle} \subseteq alive \cup revived
<1>2. Known
  BY DEF EndedInv, EndedStaysOut, Readies
<1>3. SUFFICES Known'
  BY <1>1 DEF EndedInv, EndedStaysOut, Readies
<1>4. CASE Dispatch
  <2>1. Readies' = Readies /\ alive' = alive /\ revived' = revived
    BY <1>4 DEF Dispatch, GetNext, lifeVars, Readies, Ready
  <2> QED BY <2>1, <1>2
<1>5. CASE QuantaExpired
  <2>1. active \in Item /\ alive' = alive
    BY <1>0, <1>5 DEF IInv, TypeOK, QuantaExpired
  <2>2. CASE Yield(active) /\ revived' = revived
    <3>1. active \in Readies /\ Readies' = Readies \cup {active}
      BY <1>0, <2>1, <2>2, ReadyAfter DEF Yield, Readies
    <3> QED BY <3>1, <2>1, <2>2, <1>2
  <2>3. CASE UNCHANGED << vars, revived >>
    <3>1. Readies' = Readies
      BY <2>3 DEF vars, Readies, Ready
    <3> QED BY <3>1, <2>1, <2>3, <1>2
  <2>4. CASE YieldRemoved(active) /\ revived' = revived \cup {active}
    <3>1. Readies' = Readies \cup {active}
      BY <1>0, <2>1, <2>4, ReadyAfter
    <3> QED BY <3>1, <2>1, <2>4, <1>2
  <2> QED BY <1>5, <2>2, <2>3, <2>4 DEF QuantaExpired
<1>6. ASSUME NEW i \in Item, NEW p \in UserPrio, ThreadInit(i, p) PROVE Known'
  <2>1. Readies' = Readies /\ i \notin Readies
    BY <1>6 DEF ThreadInit, ItemInit, Readies, Ready
  <2> QED BY <2>1, <1>2, <1>6 DEF ThreadInit
<1>7. ASSUME NEW i \in Item, ExitSync(i) PROVE Known'
  <2>1. Readies' = Readies \ {i}
    <3>1. CASE ItemRemove(i)
      BY <1>0, <3>1, ReadyAfter
    <3>2. CASE suspend_count[i] > 0 /\ UNCHANGED vars
      <4>1. i \notin Readies
        BY <1>0, <3>2, SaneIsInvariant DEF IInv, Readies, Ready, InContainer, Sane
      <4> QED BY <4>1, <3>2 DEF vars, Readies, Ready
    <3> QED BY <1>7, <3>1, <3>2 DEF ExitSync
  <2> QED BY <2>1, <1>2, <1>7 DEF ExitSync
<1>8. ASSUME NEW i \in Item, WakeUp(i) PROVE Known'
  <2>1. Readies' = Readies \cup {i} /\ i \in alive
    BY <1>0, <1>8, ReadyAfter DEF WakeUp
  <2> QED BY <2>1, <1>2, <1>8 DEF WakeUp, sliceVars, lifeVars
<1>9. ASSUME NEW i \in Item, Suspend(i) PROVE Known'
  <2>1. Readies' = Readies \ {i}
    BY <1>0, <1>9, ReadyAfter DEF Suspend
  <2> QED BY <2>1, <1>2, <1>9 DEF Suspend, sliceVars, lifeVars
<1>10. ASSUME NEW i \in Item, ThreadYield(i) PROVE Known'
  <2>1. Readies' = Readies \cup {i} /\ i \in Readies
    BY <1>0, <1>10, ReadyAfter DEF ThreadYield, Yield, Readies
  <2> QED BY <2>1, <1>2, <1>10 DEF ThreadYield, sliceVars, lifeVars
<1>11. ASSUME NEW i \in Item, NEW p \in UserPrio, SetPriority(i, p) PROVE Known'
  <2>1. Readies' = Readies
    BY <1>0, <1>11, SetParamsReadies DEF SetPriority
  <2> QED BY <2>1, <1>2, <1>11 DEF SetPriority, sliceVars, lifeVars
<1>12. ASSUME NEW i \in Item, NEW b \in Timeslice, SetTimeslice(i, b) PROVE Known'
  <2>1. Readies' = Readies
    BY <1>12 DEF SetTimeslice, vars, Readies, Ready
  <2> QED BY <2>1, <1>2, <1>12 DEF SetTimeslice, lifeVars
<1>13. CASE UNCHANGED allVars
  <2>1. Readies' = Readies
    BY <1>13 DEF allVars, vars, Readies, Ready
  <2> QED BY <2>1, <1>2, <1>13 DEF allVars, sliceVars, lifeVars
<1> HIDE DEF Known
<1> QED BY <1>4, <1>5, <1>6, <1>7, <1>8, <1>9, <1>10, <1>11, <1>12, <1>13, Zenon
        DEF SliceNext

(* No resume, wake-up or boost brings back a thread that has exited or was *)
(* terminated, in whatever state that found it; only the expiry of its own *)
(* slice does, while it is still the current thread.                       *)
THEOREM EndedThreadsStayOut == SliceSpec => []EndedStaysOut
<1>1. SliceInit => EndedInv
  <2> SUFFICES ASSUME SliceInit PROVE EndedInv
    OBVIOUS
  <2>1. IInv /\ SliceInv
    BY SliceStart
  <2>2. EndedStaysOut
    BY InitFacts DEF SliceInit, EndedStaysOut
  <2> QED BY <2>1, <2>2 DEF EndedInv
<1>2. EndedInv => EndedStaysOut
  BY DEF EndedInv
<1> QED BY <1>1, <1>2, EndedInvInductive, PTL DEF SliceSpec

-----------------------------------------------------------------------------
(* Timers.                                                                 *)

(* The values of the counter, and how far one of them is ahead of another. *)
Counter == 0 .. TickMod - 1
Ahead(at, now) == Signed(Wrap(at - now))

(* How far ahead of the counter a timer may be set.                        *)
Reach == {n \in Int : 0 - MaxLate <= n /\ n + MaxLate + 1 < Half}

-----------------------------------------------------------------------------
(* Arithmetic of the counter.                                              *)
LEMMA WidthFacts ==
  /\ TickMod \in Nat /\ Half \in Nat /\ Half > 0 /\ TickMod = Half + Half
  /\ MaxLate \in Nat /\ MaxLate + 1 < Half
  /\ Reach \subseteq Int
<1>1. TickMod \in Nat \ {0} /\ TickMod = 2 * Half /\ MaxLate \in Nat
      /\ MaxLate + 1 < Half
  BY TimerAssumption
<1>2. Half \in Nat
  BY <1>1 DEF Half
<1> QED BY <1>1, <1>2 DEF Reach

(* A number that is off by less than the width wraps around once.          *)
LEMMA WrapsOnce ==
  ASSUME NEW n \in Int, 0 - TickMod <= n, n < 2 * TickMod
  PROVE  Wrap(n) = IF n < 0 THEN n + TickMod
                   ELSE IF n < TickMod THEN n ELSE n - TickMod
<1>1. TickMod \in Nat \ {0}
  BY TimerAssumption
<1>2. PICK m \in Nat \ {0} : m = TickMod
  BY <1>1
<1>3. CASE n < 0
  <2>1. n = (n + m) + (0 - 1) * m /\ n + m \in 0 .. m - 1
    BY <1>2, <1>3
  <2>2. n % m = n + m
    BY <2>1, <1>2
  <2> QED BY <2>2, <1>2, <1>3 DEF Wrap
<1>4. CASE n >= 0 /\ n < TickMod
  <2>1. n % m = n
    BY <1>2, <1>4
  <2> QED BY <2>1, <1>2, <1>4 DEF Wrap
<1>5. CASE n >= TickMod
  <2>1. n = (n - m) + 1 * m /\ n - m \in 0 .. m - 1
    BY <1>2, <1>5
  <2>2. n % m = n - m
    BY <2>1, <1>2
  <2> QED BY <2>2, <1>2, <1>5 DEF Wrap
<1> QED BY <1>1, <1>3, <1>4, <1>5

(* A difference of two values of the counter.                              *)
LEMMA AheadIs ==
  ASSUME NEW at \in Counter, NEW now \in Counter
  PROVE  /\ Ahead(at, now) = IF at - now >= Half THEN at - now - TickMod
                             ELSE IF at - now < 0 - Half THEN at - now + TickMod
                             ELSE at - now
         /\ Ahead(at, now) \in Int
         /\ 0 - Half <= Ahead(at, now) /\ Ahead(at, now) < Half
<1>1. at \in Int /\ now \in Int /\ 0 <= at /\ at < TickMod /\ 0 <= now /\ now < TickMod
  BY WidthFacts DEF Counter
<1>2. Wrap(at - now) = IF at - now < 0 THEN at - now + TickMod ELSE at - now
  BY <1>1, WidthFacts, WrapsOnce
<1>3. PICK d \in Int : d = at - now /\ 0 - TickMod < d /\ d < TickMod
  BY <1>1, WidthFacts
<1>4. Signed(Wrap(at - now)) = IF d >= Half THEN d - TickMod
                               ELSE IF d < 0 - Half THEN d + TickMod ELSE d
  BY <1>2, <1>3, WidthFacts DEF Signed
<1> QED BY <1>3, <1>4, WidthFacts DEF Ahead

(* What is set d ticks ahead of a value is d ticks ahead of it.            *)
LEMMA AheadOfSet ==
  ASSUME NEW at \in Counter, NEW now \in Counter, NEW d \in Int,
         0 - Half <= Ahead(at, now) + d, Ahead(at, now) + d < Half,
         0 - Half <= d, d < Half
  PROVE  Wrap(at + d) \in Counter /\ Ahead(Wrap(at + d), now) = Ahead(at, now) + d
<1>1. at \in Int /\ now \in Int /\ 0 <= at /\ at < TickMod /\ 0 <= now /\ now < TickMod
  BY WidthFacts DEF Counter
<1>2. Wrap(at + d) = IF at + d < 0 THEN at + d + TickMod
                     ELSE IF at + d < TickMod THEN at + d ELSE at + d - TickMod
  BY <1>1, WidthFacts, WrapsOnce
<1>3. Wrap(at + d) \in Counter
  BY <1>1, <1>2, WidthFacts DEF Counter
<1>4. PICK w \in Counter : w = Wrap(at + d)
  BY <1>3
<1>5. /\ Ahead(w, now) = IF w - now >= Half THEN w - now - TickMod
                         ELSE IF w - now < 0 - Half THEN w - now + TickMod
                         ELSE w - now
      /\ Ahead(at, now) = IF at - now >= Half THEN at - now - TickMod
                          ELSE IF at - now < 0 - Half THEN at - now + TickMod
                          ELSE at - now
  BY AheadIs
<1>6. w \in Int /\ 0 <= w /\ w < TickMod
  BY WidthFacts DEF Counter
<1>7. Ahead(w, now) = Ahead(at, now) + d
  BY <1>1, <1>2, <1>4, <1>5, <1>6, WidthFacts
<1> QED BY <1>3, <1>4, <1>7

LEMMA AheadOfNow ==
  ASSUME NEW now \in Counter, NEW d \in Reach
  PROVE  Wrap(now + d) \in Counter /\ Ahead(Wrap(now + d), now) = d
<1>1. Ahead(now, now) = 0 /\ now \in Int
  BY AheadIs, WidthFacts DEF Counter
<1>2. d \in Int /\ 0 - Half <= d /\ d < Half
  BY WidthFacts DEF Reach
<1>3. Ahead(now, now) + d = d
  BY <1>1, <1>2
<1> QED BY <1>2, <1>3, AheadOfSet

(* A tick brings everything nearer by one.                                 *)
LEMMA AheadOfTick ==
  ASSUME NEW at \in Counter, NEW now \in Counter, 0 - Half < Ahead(at, now)
  PROVE  Wrap(now + 1) \in Counter /\ Ahead(at, Wrap(now + 1)) = Ahead(at, now) - 1
<1>1. at \in Int /\ now \in Int /\ 0 <= at /\ at < TickMod /\ 0 <= now /\ now < TickMod
  BY WidthFacts DEF Counter
<1>2. Wrap(now + 1) = IF now + 1 < TickMod THEN now + 1 ELSE now + 1 - TickMod
  BY <1>1, WidthFacts, WrapsOnce
<1>3. Wrap(now + 1) \in Counter
  BY <1>1, <1>2, WidthFacts DEF Counter
<1>4. PICK w \in Counter : w = Wrap(now + 1)
  BY <1>3
<1>5. /\ Ahead(at, w) = IF at - w >= Half THEN at - w - TickMod
                        ELSE IF at - w < 0 - Half THEN at - w + TickMod
                        ELSE at - w
      /\ Ahead(at, now) = IF at - now >= Half THEN at - now - TickMod
                          ELSE IF at - now < 0 - Half THEN at - now + TickMod
                          ELSE at - now
  BY AheadIs
<1>6. w \in Int /\ 0 <= w /\ w < TickMod
  BY WidthFacts DEF Counter
<1>7. Ahead(at, w) = Ahead(at, now) - 1
  BY <1>1, <1>2, <1>4, <1>5, <1>6, WidthFacts
<1> QED BY <1>3, <1>4, <1>7

(* The code's comparison is right for values less than half the range of   *)
(* the counter apart, wherever the counter is.                             *)
LEMMA Compares ==
  ASSUME NEW a \in Counter, NEW b \in Counter, NEW now \in Counter,
         Ahead(b, now) - Ahead(a, now) < Half,
         Ahead(a, now) - Ahead(b, now) < Half
  PROVE  TimeAfter(a, b) <=> Ahead(a, now) > Ahead(b, now)
<1>1. /\ a \in Int /\ 0 <= a /\ a < TickMod
      /\ b \in Int /\ 0 <= b /\ b < TickMod
      /\ now \in Int /\ 0 <= now /\ now < TickMod
  BY WidthFacts DEF Counter
<1>2. /\ Ahead(a, now) = IF a - now >= Half THEN a - now - TickMod
                         ELSE IF a - now < 0 - Half THEN a - now + TickMod
                         ELSE a - now
      /\ Ahead(b, now) = IF b - now >= Half THEN b - now - TickMod
                         ELSE IF b - now < 0 - Half THEN b - now + TickMod
                         ELSE b - now
      /\ Ahead(b, a) = IF b - a >= Half THEN b - a - TickMod
                       ELSE IF b - a < 0 - Half THEN b - a + TickMod
                       ELSE b - a
  BY AheadIs
<1>3. TimeAfter(a, b) <=> Ahead(b, a) < 0
  BY DEF TimeAfter, Ahead
<1> QED BY <1>1, <1>2, <1>3, WidthFacts

-----------------------------------------------------------------------------
(* The list.                                                               *)
(* The list new is list with t at position k, behind all timers that are   *)
(* not later than t and in front of the first that is.                     *)
Inserted(new, list, at, t, k) ==
  /\ k \in 1 .. Len(list) + 1
  /\ \A i \in 1 .. k - 1 : ~TimeAfter(at[list[i]], at[t])
  /\ k <= Len(list) => TimeAfter(at[list[k]], at[t])
  /\ \A i \in 1 .. Len(list) + 1 :
       new[i] = IF i < k THEN list[i] ELSE IF i = k THEN t ELSE list[i - 1]

LEMMA InsertPlace ==
  ASSUME NEW list \in Seq(Timer), NEW at, NEW t \in Timer
  PROVE  /\ InsertTimer(list, at, t) \in Seq(Timer)
         /\ Len(InsertTimer(list, at, t)) = Len(list) + 1
         /\ \E k : Inserted(InsertTimer(list, at, t), list, at, t, k)
<1> DEFINE I == {i \in 1 .. Len(list) : TimeAfter(at[list[i]], at[t])}
<1>1. Len(list) \in Nat
  BY LenProperties
<1>2. InsertTimer(list, at, t) =
        LET k == IF I # {} THEN Min(I) ELSE 0
        IN  IF k = 0 THEN Append(list, t) ELSE InsertAt(list, k, t)
  BY DEF InsertTimer, SelectInSeq
<1>3. CASE I = {}
  <2>1. InsertTimer(list, at, t) = Append(list, t)
    BY <1>2, <1>3
  <2>2. /\ Append(list, t) \in Seq(Timer)
        /\ Len(Append(list, t)) = Len(list) + 1
        /\ \A i \in 1 .. Len(list) : Append(list, t)[i] = list[i]
        /\ Append(list, t)[Len(list) + 1] = t
    BY AppendProperties
  <2>3. \A i \in 1 .. Len(list) : ~TimeAfter(at[list[i]], at[t])
    BY <1>3
  <2> DEFINE k == Len(list) + 1
  <2>4. Inserted(InsertTimer(list, at, t), list, at, t, k)
    BY <2>1, <2>2, <2>3, <1>1 DEF Inserted
  <2> HIDE DEF I, k
  <2> QED BY <2>1, <2>2, <2>4
<1>4. CASE I # {}
  <2> DEFINE k == Min(I)
  <2>1. k \in I /\ \A i \in I : k <= i
    <3>1. I \in SUBSET Nat
      BY <1>1
    <3>2. PICK n \in I : \A m \in I : n <= m
      BY <3>1, <1>4, LeastElement
    <3> HIDE DEF I
    <3> QED BY <3>2 DEF Min
  <2>2. InsertTimer(list, at, t) = InsertAt(list, k, t)
    <3>1. k # 0
      BY <2>1
    <3> HIDE DEF k, I
    <3>2. InsertTimer(list, at, t) = IF k = 0 THEN Append(list, t) ELSE InsertAt(list, k, t)
      BY <1>2, <1>4 DEF k
    <3> QED BY <3>1, <3>2
  <2> HIDE DEF k
  <2>3. k \in 1 .. Len(list) /\ TimeAfter(at[list[k]], at[t])
    BY <2>1
  <2>4. \A i \in 1 .. k - 1 : ~TimeAfter(at[list[i]], at[t])
    <3> TAKE i \in 1 .. k - 1
    <3>1. i \in 1 .. Len(list) /\ ~(k <= i)
      BY <2>3, <1>1
    <3>2. i \notin I
      <4> HIDE DEF I
      <4> QED BY <3>1, <2>1
    <3> QED BY <3>1, <3>2
  <2>5. k \in 1 .. Len(list) + 1
    BY <2>3, <1>1
  <2> HIDE DEF I
  <2>6. /\ InsertAt(list, k, t) \in Seq(Timer)
        /\ Len(InsertAt(list, k, t)) = Len(list) + 1
        /\ \A j \in 1 .. Len(list) + 1 :
             InsertAt(list, k, t)[j] = IF j < k THEN list[j]
                                       ELSE IF j = k THEN t ELSE list[j - 1]
    <3>1. InsertAt(list, k, t) \in Seq(Timer) /\ Len(InsertAt(list, k, t)) = Len(list) + 1
      BY <2>5, InsertAtProperties
    <3>2. ASSUME NEW j \in 1 .. Len(list) + 1
          PROVE  InsertAt(list, k, t)[j] = IF j < k THEN list[j]
                                           ELSE IF j = k THEN t ELSE list[j - 1]
      BY <2>5, InsertAtProperties
    <3> QED BY <3>1, <3>2
  <2>7. Inserted(InsertTimer(list, at, t), list, at, t, k)
    BY <2>2, <2>3, <2>4, <2>5, <2>6 DEF Inserted
  <2> QED BY <2>2, <2>6, <2>7
<1> QED BY <1>3, <1>4

(* A list in the order of the ticks that are left.                         *)
Ordered(list, at, now) ==
  \A i, j \in 1 .. Len(list) :
    i < j => Ahead(at[list[i]], now) <= Ahead(at[list[j]], now)

(* Times that can be compared: none is later than a call may ask for, or   *)
(* earlier than low.                                                       *)
Near(low, n) == low <= n /\ n + MaxLate + 1 < Half

LEMMA InsertKeepsOrder ==
  ASSUME NEW list \in Seq(Timer), IsInjective(list),
         NEW at \in [Timer -> Counter], NEW now \in Counter,
         NEW t \in Timer, ~Linked(list, t), Ordered(list, at, now),
         \A u \in Timer : Linked(list, u) \/ u = t
           => Near(0 - MaxLate - 1, Ahead(at[u], now))
  PROVE  /\ InsertTimer(list, at, t) \in Seq(Timer)
         /\ IsInjective(InsertTimer(list, at, t))
         /\ \A u \in Timer :
              Linked(InsertTimer(list, at, t), u) <=> Linked(list, u) \/ u = t
         /\ Ordered(InsertTimer(list, at, t), at, now)
<1> DEFINE new == InsertTimer(list, at, t)
           N == Len(list)
<1>1. PICK k \in 1 .. N + 1 :
        /\ \A j \in 1 .. k - 1 : ~TimeAfter(at[list[j]], at[t])
        /\ k <= N => TimeAfter(at[list[k]], at[t])
        /\ \A j \in 1 .. N + 1 :
             new[j] = IF j < k THEN list[j] ELSE IF j = k THEN t ELSE list[j - 1]
  <2>1. PICK k : Inserted(new, list, at, t, k)
    BY InsertPlace
  <2> HIDE DEF new
  <2> QED BY <2>1 DEF Inserted
<1>2. new \in Seq(Timer) /\ Len(new) = N + 1
  BY InsertPlace
<1> HIDE DEF new
<1>3. /\ N \in Nat /\ DOMAIN list = 1 .. N /\ DOMAIN new = 1 .. N + 1
      /\ \A i \in 1 .. N : list[i] \in Timer /\ list[i] # t
  <2>1. N \in Nat /\ DOMAIN list = 1 .. N /\ DOMAIN new = 1 .. N + 1
    BY <1>2, LenProperties
  <2>2. \A i \in 1 .. N : list[i] \in Timer
    BY ElementOfSeq
  <2> QED BY <2>1, <2>2 DEF Linked
<1>4. \A i, j \in 1 .. N : list[i] = list[j] => i = j
  BY <1>3 DEF IsInjective
<1>5. k \in Int /\ 1 <= k /\ k <= N + 1
  BY <1>3
<1>6. ASSUME NEW i \in 1 .. N + 1
      PROVE  \/ i < k /\ i \in 1 .. N /\ i \in 1 .. k - 1 /\ new[i] = list[i]
             \/ i = k /\ new[i] = t
             \/ i > k /\ i - 1 \in 1 .. N /\ k <= N /\ k <= i - 1 /\ new[i] = list[i - 1]
  BY <1>1, <1>3, <1>5
<1>7. IsInjective(new)
  <2> SUFFICES ASSUME NEW i \in 1 .. N + 1, NEW j \in 1 .. N + 1, new[i] = new[j]
               PROVE  i = j
    BY <1>3 DEF IsInjective
  <2> QED BY <1>3, <1>4, <1>5, <1>6
<1>8. ASSUME NEW u \in Timer PROVE Linked(new, u) <=> Linked(list, u) \/ u = t
  <2>1. ASSUME Linked(new, u) PROVE Linked(list, u) \/ u = t
    BY <2>1, <1>2, <1>6 DEF Linked
  <2>2. ASSUME NEW i \in 1 .. N, list[i] = u PROVE Linked(new, u)
    <3>1. CASE i < k
      BY <3>1, <2>2, <1>1, <1>2, <1>3 DEF Linked
    <3>2. CASE ~(i < k)
      <4>1. i + 1 \in 1 .. N + 1 /\ ~(i + 1 < k) /\ i + 1 # k /\ i + 1 - 1 = i
        BY <3>2, <1>3, <1>5
      <4>2. new[i + 1] = list[i]
        BY <4>1, <1>1
      <4> QED BY <4>1, <4>2, <2>2, <1>2 DEF Linked
    <3> QED BY <3>1, <3>2
  <2>3. Linked(new, t)
    BY <1>1, <1>2, <1>5 DEF Linked
  <2> QED BY <2>1, <2>2, <2>3 DEF Linked
<1>9. Ordered(new, at, now)
  <2> DEFINE L(u) == Ahead(at[u], now)
  <2>1. \A u \in Timer : at[u] \in Counter /\ L(u) \in Int
    BY AheadIs
  <2>2. \A i \in 1 .. N : Near(0 - MaxLate - 1, L(list[i]))
    BY <1>3 DEF Linked
  <2>3. \A i \in 1 .. N : TimeAfter(at[list[i]], at[t]) <=> L(list[i]) > L(t)
    <3> TAKE i \in 1 .. N
    <3>1. L(list[i]) - L(t) < Half /\ L(t) - L(list[i]) < Half
      BY <2>1, <2>2, <1>3, WidthFacts DEF Near
    <3> QED BY <3>1, <2>1, <1>3, Compares, SMTT(30)
  <2>4. \A i, j \in 1 .. N : i < j => L(list[i]) <= L(list[j])
    BY DEF Ordered
  <2>5. \A i \in 1 .. N : i < k => L(list[i]) <= L(t)
    <3> TAKE i \in 1 .. N
    <3> HAVE i < k
    <3>1. i \in 1 .. k - 1
      BY <1>3, <1>5
    <3>2. ~TimeAfter(at[list[i]], at[t])
      BY <3>1, <1>1
    <3> HIDE DEF L
    <3> QED BY <3>2, <2>1, <2>3, <1>3
  <2>6. \A i \in 1 .. N : k <= i => L(t) <= L(list[i])
    <3> TAKE i \in 1 .. N
    <3> HAVE k <= i
    <3>1. k \in 1 .. N
      BY <1>3, <1>5
    <3>2. TimeAfter(at[list[k]], at[t])
      BY <3>1, <1>1
    <3>3. k = i \/ k < i
      BY <1>5
    <3> HIDE DEF L
    <3>4. L(list[k]) > L(t)
      BY <3>1, <3>2, <2>3
    <3>5. L(list[k]) <= L(list[i])
      BY <3>1, <3>3, <2>1, <2>4, <1>3
    <3> QED BY <3>1, <3>4, <3>5, <2>1, <1>3
  <2> HIDE DEF L
  <2> SUFFICES ASSUME NEW i \in 1 .. N + 1, NEW j \in 1 .. N + 1, i < j
               PROVE  L(new[i]) <= L(new[j])
    BY <1>2 DEF Ordered, L
  <2>7. /\ \/ i < k /\ i \in 1 .. N /\ new[i] = list[i]
           \/ i = k /\ new[i] = t
           \/ i > k /\ i - 1 \in 1 .. N /\ k <= i - 1 /\ new[i] = list[i - 1]
        /\ \/ j < k /\ j \in 1 .. N /\ new[j] = list[j]
           \/ j = k /\ new[j] = t
           \/ j > k /\ j - 1 \in 1 .. N /\ k <= j - 1 /\ new[j] = list[j - 1]
    BY <1>6
  <2>8. i \in Int /\ j \in Int
    BY <1>3
  <2>9. CASE j < k
    BY <2>9, <2>7, <2>8, <2>4, <1>5
  <2>10. CASE j = k
    BY <2>10, <2>7, <2>8, <2>5, <1>5
  <2>11. CASE j > k
    <3>1. CASE i < k
      <4>1. i < j - 1
        BY <3>1, <2>11, <2>8, <1>5
      <4> QED BY <4>1, <3>1, <2>11, <2>7, <2>8, <2>4, <1>5
    <3>2. CASE i = k
      BY <3>2, <2>11, <2>7, <2>8, <2>6, <1>5
    <3>3. CASE i > k
      <4>1. i - 1 < j - 1
        BY <2>8
      <4> QED BY <4>1, <3>3, <2>11, <2>7, <2>8, <2>4, <1>5
    <3> QED BY <3>1, <3>2, <3>3, <2>8, <1>5
  <2> QED BY <2>9, <2>10, <2>11, <2>8, <1>5
<1> QED BY <1>2, <1>7, <1>8, <1>9 DEF new

(* A list stays in order when a timer leaves it.                           *)
LEMMA UnlinkKeepsOrder ==
  ASSUME NEW list \in Seq(Timer), NEW t \in Timer, NEW at, NEW now,
         Ordered(list, at, now)
  PROVE  Ordered(Unlink(list, t), at, now)
<1>1. CASE ~Linked(list, t)
  BY <1>1 DEF Unlink
<1>2. CASE Linked(list, t)
  <2> DEFINE k == CHOOSE n \in 1 .. Len(list) : list[n] = t
             rest == Unlink(list, t)
  <2>1. k \in 1 .. Len(list)
    BY <1>2 DEF Linked
  <2>2. rest = RemoveAt(list, k)
    BY <1>2 DEF Unlink
  <2> HIDE DEF k, rest
  <2>3. /\ Len(rest) = Len(list) - 1
        /\ \A j \in 1 .. Len(list) - 1 :
             rest[j] = IF j < k THEN list[j] ELSE list[j + 1]
    BY <2>1, <2>2, RemoveAtProperties
  <2>4. Len(list) \in Nat
    BY LenProperties
  <2> SUFFICES ASSUME NEW i \in 1 .. Len(rest), NEW j \in 1 .. Len(rest), i < j
               PROVE  Ahead(at[rest[i]], now) <= Ahead(at[rest[j]], now)
    BY DEF Ordered, rest
  <2>5. \E m, n \in 1 .. Len(list) : m < n /\ rest[i] = list[m] /\ rest[j] = list[n]
    <3>1. i \in 1 .. Len(list) - 1 /\ j \in 1 .. Len(list) - 1
      BY <2>3
    <3> DEFINE m == IF i < k THEN i ELSE i + 1
               n == IF j < k THEN j ELSE j + 1
    <3>2. m \in 1 .. Len(list) /\ n \in 1 .. Len(list) /\ m < n
      BY <3>1, <2>1, <2>4
    <3>3. rest[i] = list[m] /\ rest[j] = list[n]
      BY <3>1, <2>3
    <3> HIDE DEF m, n
    <3> QED BY <3>2, <3>3
  <2> QED BY <2>5 DEF Ordered
<1> QED BY <1>1, <1>2

LEMMA TailKeepsOrder ==
  ASSUME NEW list \in Seq(Timer), list # << >>, NEW at, NEW now,
         Ordered(list, at, now)
  PROVE  /\ Ordered(Tail(list), at, now)
         /\ \A u \in Timer : Linked(Tail(list), u)
              => Ahead(at[Head(list)], now) <= Ahead(at[u], now)
<1> DEFINE rest == Tail(list)
<1>1. /\ Len(rest) = Len(list) - 1
      /\ \A i \in 1 .. Len(rest) : rest[i] = list[i + 1]
  BY HeadTailProperties
<1>2. Len(list) \in Nat \ {0}
  BY LenProperties, EmptySeq
<1>3. Head(list) = list[1]
  BY <1>2
<1> HIDE DEF rest
<1>4. Ordered(rest, at, now)
  <2> SUFFICES ASSUME NEW i \in 1 .. Len(rest), NEW j \in 1 .. Len(rest), i < j
               PROVE  Ahead(at[rest[i]], now) <= Ahead(at[rest[j]], now)
    BY DEF Ordered
  <2>1. i + 1 \in 1 .. Len(list) /\ j + 1 \in 1 .. Len(list) /\ i + 1 < j + 1
    BY <1>1, <1>2
  <2> QED BY <2>1, <1>1 DEF Ordered
<1>5. ASSUME NEW u \in Timer, Linked(rest, u)
      PROVE  Ahead(at[list[1]], now) <= Ahead(at[u], now)
  <2>1. PICK i \in 1 .. Len(rest) : rest[i] = u
    BY <1>5 DEF Linked
  <2>2. 1 \in 1 .. Len(list) /\ i + 1 \in 1 .. Len(list) /\ 1 < i + 1
    BY <1>1, <1>2
  <2> QED BY <2>1, <2>2, <1>1 DEF Ordered
<1> QED BY <1>3, <1>4, <1>5 DEF rest

-----------------------------------------------------------------------------
(* The inductive invariant.  The list has the timers that are armed, in    *)
(* the order of the ticks they have left, and all of them are so near that *)
(* the code's comparisons are right.  Between two ticks a timer may be as  *)
(* late as a call may set it; in a tick, which came since, by one more.    *)
ListOK(list, at, per, now, low) ==
  /\ list \in Seq(Timer) /\ IsInjective(list)
  /\ at \in [Timer -> Counter] /\ per \in [Timer -> Period \cup {0}]
  /\ \A t \in Timer : ~Linked(list, t) => per[t] = 0
  /\ \A t \in Timer : Linked(list, t) => Near(low, Ahead(at[t], now))
  /\ Ordered(list, at, now)

Latest == IF running = NoTimer THEN 0 - MaxLate ELSE 0 - MaxLate - 1

RequestOK(t) ==
  request[t] # NoRequest =>
    /\ request[t] \in [at : Counter, period : Period]
    /\ Near(0 - MaxLate, Ahead(request[t].at, ticks))

TimerIInv ==
  /\ ticks \in Counter
  /\ running \in Timer \cup {NoTimer}
  /\ ListOK(timers, timeout, period, ticks, Latest)
  /\ DOMAIN request = Timer /\ \A t \in Timer : RequestOK(t)

(* The ticks that the armed timers have left.                              *)
Lefts(list, at, now) ==
  [t \in Timer |-> IF Linked(list, t) THEN Ahead(at[t], now) ELSE NoTimer]

AbstractLeft == [t \in Timer |-> IF Armed(t) THEN Left(timeout[t]) ELSE NoTimer]
AbstractRequest ==
  [t \in Timer |->
    IF request[t] = NoRequest THEN NoRequest
    ELSE [left |-> Left(request[t].at), period |-> request[t].period]]

LEMMA LeftsNow == AbstractLeft = Lefts(timers, timeout, ticks)
BY DEF AbstractLeft, Lefts, Armed, Left, Ahead

(* A timer is set, whether it was armed or not.                            *)
LEMMA SetKeepsTime ==
  ASSUME TimerIInv, NEW t \in Timer, NEW at \in Counter, NEW p \in Period,
         Near(0 - MaxLate, Ahead(at, ticks)), SetAbs(t, at, p)
  PROVE  /\ ListOK(timers', timeout', period', ticks, Latest)
         /\ Lefts(timers', timeout', ticks) =
              [Lefts(timers, timeout, ticks) EXCEPT ![t] = Ahead(at, ticks)]
<1> DEFINE rest == Unlink(timers, t)
           low == Latest
<1>1. /\ timers \in Seq(Timer) /\ IsInjective(timers) /\ ticks \in Counter
      /\ timeout \in [Timer -> Counter] /\ period \in [Timer -> Period \cup {0}]
      /\ \A u \in Timer : ~Linked(timers, u) => period[u] = 0
      /\ \A u \in Timer : Linked(timers, u) => Near(low, Ahead(timeout[u], ticks))
      /\ Ordered(timers, timeout, ticks)
  BY DEF TimerIInv, ListOK
<1>2. /\ timeout' = [timeout EXCEPT ![t] = at]
      /\ period' = [period EXCEPT ![t] = p]
      /\ timers' = InsertTimer(rest, timeout', t)
  BY DEF SetAbs
<1>3. /\ rest \in Seq(Timer) /\ IsInjective(rest)
      /\ \A u \in Timer : Linked(rest, u) <=> Linked(timers, u) /\ u # t
  BY <1>1, UnlinkProperties
<1>4. Ordered(rest, timeout, ticks)
  BY <1>1, UnlinkKeepsOrder
<1> HIDE DEF rest
<1>5. /\ timeout' \in [Timer -> Counter] /\ timeout'[t] = at
      /\ \A u \in Timer \ {t} : timeout'[u] = timeout[u]
      /\ period' \in [Timer -> Period \cup {0}]
      /\ \A u \in Timer \ {t} : period'[u] = period[u]
  BY <1>1, <1>2
<1>6. Ordered(rest, timeout', ticks)
  <2>1. \A i \in 1 .. Len(rest) : rest[i] \in Timer /\ Linked(rest, rest[i])
    BY <1>3, ElementOfSeq DEF Linked
  <2>2. \A i \in 1 .. Len(rest) : timeout'[rest[i]] = timeout[rest[i]]
    BY <2>1, <1>3, <1>5
  <2> QED BY <2>2, <1>4 DEF Ordered
<1>7. \A n \in Int : /\ Near(0 - MaxLate, n) => Near(low, n)
                     /\ Near(low, n) => Near(0 - MaxLate - 1, n)
  BY WidthFacts DEF Near, Latest
<1> HIDE DEF low
<1>8. \A u \in Timer : Linked(rest, u) \/ u = t => Near(low, Ahead(timeout'[u], ticks))
  BY <1>1, <1>3, <1>5, <1>7, AheadIs
<1>9. \A u \in Timer : Linked(rest, u) \/ u = t
        => Near(0 - MaxLate - 1, Ahead(timeout'[u], ticks))
  BY <1>1, <1>5, <1>7, <1>8, AheadIs
<1>10. /\ timers' \in Seq(Timer) /\ IsInjective(timers')
       /\ \A u \in Timer : Linked(timers', u) <=> Linked(rest, u) \/ u = t
       /\ Ordered(timers', timeout', ticks)
  <2>1. ~Linked(rest, t)
    BY <1>3
  <2> QED BY <2>1, <1>1, <1>2, <1>3, <1>5, <1>6, <1>9, InsertKeepsOrder
<1>11. \A u \in Timer : ~Linked(timers', u) => period'[u] = 0
  BY <1>1, <1>3, <1>5, <1>10
<1>12. ListOK(timers', timeout', period', ticks, low)
  BY <1>5, <1>8, <1>10, <1>11 DEF ListOK
<1>13. \A u \in Timer : /\ Linked(timers', u) <=> Linked(timers, u) \/ u = t
                        /\ u # t => timeout'[u] = timeout[u]
  BY <1>3, <1>5, <1>10
<1>14. Lefts(timers', timeout', ticks) =
         [Lefts(timers, timeout, ticks) EXCEPT ![t] = Ahead(at, ticks)]
  BY <1>5, <1>13 DEF Lefts
<1> QED BY <1>12, <1>14 DEF low

LEMMA CancelKeepsTime ==
  ASSUME TimerIInv, NEW t \in Timer, Cancel(t)
  PROVE  /\ ListOK(timers', timeout', period', ticks, Latest)
         /\ Lefts(timers', timeout', ticks) =
              [Lefts(timers, timeout, ticks) EXCEPT ![t] = NoTimer]
<1> DEFINE low == Latest
<1>1. /\ timers \in Seq(Timer) /\ IsInjective(timers) /\ ticks \in Counter
      /\ timeout \in [Timer -> Counter] /\ period \in [Timer -> Period \cup {0}]
      /\ \A u \in Timer : ~Linked(timers, u) => period[u] = 0
      /\ \A u \in Timer : Linked(timers, u) => Near(low, Ahead(timeout[u], ticks))
      /\ Ordered(timers, timeout, ticks)
  BY DEF TimerIInv, ListOK
<1> HIDE DEF low
<1>2. /\ timeout' = [timeout EXCEPT ![t] = 0]
      /\ period' = [period EXCEPT ![t] = 0]
      /\ timers' = Unlink(timers, t)
  BY DEF Cancel
<1>3. /\ timers' \in Seq(Timer) /\ IsInjective(timers')
      /\ \A u \in Timer : Linked(timers', u) <=> Linked(timers, u) /\ u # t
  BY <1>1, <1>2, UnlinkProperties
<1>4. Ordered(timers', timeout, ticks)
  BY <1>1, <1>2, UnlinkKeepsOrder
<1>5. /\ timeout' \in [Timer -> Counter]
      /\ \A u \in Timer \ {t} : timeout'[u] = timeout[u]
      /\ period' \in [Timer -> Period \cup {0}] /\ period'[t] = 0
      /\ \A u \in Timer \ {t} : period'[u] = period[u]
  <2>1. 0 \in Counter
    BY WidthFacts DEF Counter
  <2> QED BY <2>1, <1>1, <1>2
<1>6. Ordered(timers', timeout', ticks)
  <2>1. \A i \in 1 .. Len(timers') : timers'[i] \in Timer /\ Linked(timers', timers'[i])
    BY <1>3, ElementOfSeq DEF Linked
  <2>2. \A i \in 1 .. Len(timers') : timeout'[timers'[i]] = timeout[timers'[i]]
    BY <2>1, <1>3, <1>5
  <2> QED BY <2>2, <1>4 DEF Ordered
<1>7. ListOK(timers', timeout', period', ticks, low)
  BY <1>1, <1>3, <1>5, <1>6 DEF ListOK
<1>8. Lefts(timers', timeout', ticks) =
        [Lefts(timers, timeout, ticks) EXCEPT ![t] = NoTimer]
  BY <1>3, <1>5 DEF Lefts
<1> QED BY <1>7, <1>8 DEF low

(* One turn of the tick handler's loop, at the time ticks': it calls the   *)
(* timer that has been due for longest, or ends because none is due.       *)
LEMMA ScanKeepsTime ==
  ASSUME ticks' \in Counter, Scan(ticks'),
         ListOK(timers, timeout, period, ticks', 0 - MaxLate - 1)
  PROVE  /\ running' \in Timer \cup {NoTimer}
         /\ ListOK(timers', timeout', period', ticks', Latest')
         /\ OnTime!CallOrEnd(Lefts(timers, timeout, ticks'))
<1> DEFINE low == 0 - MaxLate - 1
           L(u) == Ahead(timeout[u], ticks')
           l == Lefts(timers, timeout, ticks')
<1>1. /\ timers \in Seq(Timer) /\ IsInjective(timers)
      /\ timeout \in [Timer -> Counter] /\ period \in [Timer -> Period \cup {0}]
      /\ \A u \in Timer : ~Linked(timers, u) => period[u] = 0
      /\ \A u \in Timer : Linked(timers, u) => Near(low, L(u))
      /\ Ordered(timers, timeout, ticks')
  BY DEF ListOK
<1>2. \A u \in Timer : timeout[u] \in Counter /\ L(u) \in Int
  BY <1>1, AheadIs
<1>3. NoTimer \notin Timer /\ NoTimer \notin Int
  BY TimerAssumption
<1>4. /\ DOMAIN l = Timer
      /\ \A u \in Timer : /\ l[u] # NoTimer <=> Linked(timers, u)
                          /\ Linked(timers, u) => l[u] = L(u)
                          /\ ~Linked(timers, u) => l[u] = NoTimer
  BY <1>2, <1>3 DEF Lefts
<1>5. AbstractLeft' = Lefts(timers', timeout', ticks')
  BY LeftsNow DEF AbstractLeft, Lefts, Armed, Left, Ahead
<1>6. timers # << >> =>
        /\ Head(timers) \in Timer /\ Linked(timers, Head(timers))
        /\ Tail(timers) \in Seq(Timer) /\ IsInjective(Tail(timers))
        /\ \A u \in Timer :
             Linked(Tail(timers), u) <=> Linked(timers, u) /\ u # Head(timers)
        /\ Ordered(Tail(timers), timeout, ticks')
        /\ \A u \in Timer : Linked(timers, u) => L(Head(timers)) <= L(u)
  <2> SUFFICES ASSUME timers # << >>
               PROVE  /\ Head(timers) \in Timer /\ Linked(timers, Head(timers))
                      /\ Tail(timers) \in Seq(Timer) /\ IsInjective(Tail(timers))
                      /\ \A u \in Timer : Linked(Tail(timers), u)
                                          <=> Linked(timers, u) /\ u # Head(timers)
                      /\ Ordered(Tail(timers), timeout, ticks')
                      /\ \A u \in Timer : Linked(timers, u)
                                          => L(Head(timers)) <= L(u)
    OBVIOUS
  <2>1. /\ Head(timers) \in Timer /\ Linked(timers, Head(timers))
        /\ Tail(timers) \in Seq(Timer) /\ IsInjective(Tail(timers))
        /\ \A u \in Timer :
             Linked(Tail(timers), u) <=> Linked(timers, u) /\ u # Head(timers)
    BY <1>1, TailLinks
  <2>2. /\ Ordered(Tail(timers), timeout, ticks')
        /\ \A u \in Timer : Linked(Tail(timers), u) => L(Head(timers)) <= L(u)
    BY <1>1, TailKeepsOrder
  <2>3. L(Head(timers)) <= L(Head(timers))
    BY <1>2, <2>1
  <2> HIDE DEF L
  <2> QED BY <2>1, <2>2, <2>3
<1>7. timers = << >> => \A u \in Timer : ~Linked(timers, u)
  BY <1>1, EmptyQueue
<1>8. timers # << >> =>
        (TimeAfterOrEq(ticks', timeout[Head(timers)]) <=> L(Head(timers)) <= 0)
  BY DEF TimeAfterOrEq, Ahead
<1> HIDE DEF l, L, low
<1>9. CASE timers # << >> /\ L(Head(timers)) <= 0
  <2> DEFINE h == Head(timers)
             rest == Tail(timers)
             per == period[h]
  <2>1. /\ h \in Timer /\ Linked(timers, h)
        /\ rest \in Seq(Timer) /\ IsInjective(rest)
        /\ \A u \in Timer : Linked(rest, u) <=> Linked(timers, u) /\ u # h
        /\ Ordered(rest, timeout, ticks')
        /\ \A u \in Timer : Linked(timers, u) => L(h) <= L(u)
    BY <1>6, <1>9
  <2>2. Expire(h)
    BY <1>8, <1>9 DEF Scan
  <2>3. running' = h /\ period' = period
    BY <2>2 DEF Expire
  <2>4. h # NoTimer /\ Latest' = low
    BY <2>1, <2>3, <1>3 DEF Latest, low
  <2> HIDE DEF h, rest
  <2>5. \A at \in [Timer -> Counter] :
          (\A u \in Timer \ {h} : at[u] = timeout[u]) => Ordered(rest, at, ticks')
    <3>1. \A i \in 1 .. Len(rest) : rest[i] \in Timer /\ Linked(rest, rest[i])
      BY <2>1, ElementOfSeq DEF Linked
    <3>2. \A i \in 1 .. Len(rest) : rest[i] \in Timer \ {h}
      BY <3>1, <2>1
    <3> QED BY <3>2, <2>1 DEF Ordered
  <2>6. l[h] = L(h) /\ h \in OnTime!Due(l) /\ \A u \in OnTime!Due(l) : l[h] <= l[u]
    <3>1. l[h] = L(h) /\ h \in OnTime!Due(l)
      BY <2>1, <1>4, <1>9 DEF OnTime!Due, h
    <3>2. \A u \in OnTime!Due(l) : u \in Timer /\ Linked(timers, u) /\ l[u] = L(u)
      BY <1>4 DEF OnTime!Due
    <3> QED BY <3>1, <3>2, <2>1
  <2>7. CASE per = 0
    <3>1. timeout' = [timeout EXCEPT ![h] = 0] /\ timers' = rest
      BY <2>2, <2>7 DEF Expire, rest
    <3>2. /\ timeout' \in [Timer -> Counter]
          /\ \A u \in Timer \ {h} : timeout'[u] = timeout[u]
      <4>1. 0 \in Counter
        BY WidthFacts DEF Counter
      <4> QED BY <4>1, <3>1, <1>1
    <3>3. ListOK(timers', timeout', period', ticks', low)
      <4>1. \A u \in Timer : ~Linked(timers', u) => period'[u] = 0
        BY <3>1, <2>1, <2>3, <2>7, <1>1
      <4>2. \A u \in Timer : Linked(timers', u) => Near(low, Ahead(timeout'[u], ticks'))
        BY <3>1, <3>2, <2>1, <1>1 DEF L
      <4> QED BY <4>1, <4>2, <3>1, <3>2, <2>1, <2>3, <2>5, <1>1 DEF ListOK
    <3>4. AbstractLeft' = [l EXCEPT ![h] = NoTimer]
      BY <3>1, <3>2, <2>1, <1>5 DEF Lefts, l
    <3>5. OnTime!Call(l, h)
      BY <3>4, <2>1, <2>3, <2>6, <2>7 DEF OnTime!Call, AbstractLeft
    <3>6. period' = [t \in Timer |-> IF AbstractLeft'[t] = NoTimer THEN 0 ELSE period[t]]
      BY <3>4, <2>1, <2>3, <2>7, <1>1, <1>4
    <3>7. OnTime!CallOrEnd(l)
      BY <3>5, <3>6, <2>1 DEF OnTime!CallOrEnd, AbstractLeft
    <3> QED BY <3>3, <3>7, <2>1, <2>3, <2>4 DEF l
  <2>8. CASE per # 0
    <3> DEFINE at == Wrap(timeout[h] + per)
    <3>1. timeout' = [timeout EXCEPT ![h] = at] /\ timers' = InsertTimer(rest, timeout', h)
      BY <2>2, <2>8, <2>1, <1>1 DEF Expire, rest
    <3>2. /\ per \in Period /\ per \in Int /\ per >= 0
          /\ per + MaxLate + 1 < Half
      BY <2>1, <2>8, <1>1, TimerAssumption
    <3>3. at \in Counter /\ Ahead(at, ticks') = L(h) + per
      <4>1. Near(low, L(h)) /\ L(h) \in Int /\ L(h) <= 0
        BY <2>1, <1>1, <1>2, <1>9 DEF h
      <4>2. /\ 0 - Half <= L(h) + per /\ L(h) + per < Half
            /\ 0 - Half <= per /\ per < Half
        BY <4>1, <3>2, WidthFacts DEF Near, low
      <4> QED BY <4>2, <3>2, <2>1, <1>2, AheadOfSet DEF L
    <3>4. Near(low, L(h) + per)
      <4>1. Near(low, L(h)) /\ L(h) \in Int /\ L(h) <= 0
        BY <2>1, <1>1, <1>2, <1>9 DEF h
      <4> QED BY <4>1, <3>2, WidthFacts DEF Near, low
    <3> HIDE DEF at, per
    <3>5. /\ timeout' \in [Timer -> Counter] /\ timeout'[h] = at
          /\ \A u \in Timer \ {h} : timeout'[u] = timeout[u]
      BY <3>1, <3>3, <2>1, <1>1
    <3>6. \A u \in Timer : Linked(rest, u) \/ u = h => Near(low, Ahead(timeout'[u], ticks'))
      BY <3>3, <3>4, <3>5, <2>1, <1>1 DEF L
    <3>7. /\ timers' \in Seq(Timer) /\ IsInjective(timers')
          /\ \A u \in Timer : Linked(timers', u) <=> Linked(rest, u) \/ u = h
          /\ Ordered(timers', timeout', ticks')
      <4>1. ~Linked(rest, h) /\ Ordered(rest, timeout', ticks')
        BY <3>5, <2>1, <2>5
      <4> QED BY <4>1, <3>1, <3>5, <3>6, <2>1, InsertKeepsOrder DEF low
    <3>8. \A u \in Timer : Linked(timers', u) <=> Linked(timers, u)
      BY <3>7, <2>1
    <3>9. ListOK(timers', timeout', period', ticks', low)
      BY <3>5, <3>6, <3>7, <3>8, <2>1, <2>3, <1>1 DEF ListOK
    <3>10. AbstractLeft' = [l EXCEPT ![h] = l[h] + per]
      BY <3>3, <3>5, <3>8, <2>1, <2>6, <1>5 DEF Lefts, l, L
    <3>11. OnTime!Call(l, h)
      BY <3>10, <2>1, <2>3, <2>6, <2>8 DEF OnTime!Call, AbstractLeft, per
    <3>12. period' = [t \in Timer |-> IF AbstractLeft'[t] = NoTimer THEN 0 ELSE period[t]]
      <4>1. AbstractLeft'[h] \in Int
        BY <3>2, <3>10, <2>1, <2>6, <1>2, <1>4
      <4> QED BY <4>1, <3>10, <2>1, <2>3, <1>1, <1>3, <1>4
    <3>13. OnTime!CallOrEnd(l)
      BY <3>11, <3>12, <2>1 DEF OnTime!CallOrEnd, AbstractLeft
    <3> QED BY <3>9, <3>13, <2>1, <2>3, <2>4 DEF l
  <2> QED BY <2>7, <2>8
<1>10. CASE ~(timers # << >> /\ L(Head(timers)) <= 0)
  <2>1. running' = NoTimer /\ UNCHANGED << timers, timeout, period >>
    BY <1>8, <1>10 DEF Scan
  <2>2. \A u \in Timer : Linked(timers, u) => L(u) > 0
    BY <1>2, <1>6, <1>7, <1>10
  <2>3. \A u \in Timer : Linked(timers, u) => Near(0 - MaxLate, L(u))
    BY <2>2, <1>1, <1>2, WidthFacts DEF Near
  <2>4. ListOK(timers', timeout', period', ticks', Latest')
    BY <2>1, <2>3, <1>1 DEF ListOK, Latest, L
  <2>5. AbstractLeft' = l
    BY <2>1, <1>5 DEF l
  <2>6. OnTime!Due(l) = {}
    <3>1. \A u \in Timer : l[u] # NoTimer => l[u] = L(u) /\ L(u) > 0 /\ L(u) \in Int
      BY <2>2, <1>2, <1>4
    <3> QED BY <3>1 DEF OnTime!Due
  <2>7. period' = [t \in Timer |-> IF AbstractLeft'[t] = NoTimer THEN 0 ELSE period[t]]
    BY <2>1, <2>5, <1>1, <1>4
  <2>8. OnTime!CallOrEnd(l)
    BY <2>1, <2>5, <2>6, <2>7 DEF OnTime!CallOrEnd, OnTime!End, AbstractLeft
  <2> QED BY <2>1, <2>4, <2>8 DEF l
<1> QED BY <1>9, <1>10

-----------------------------------------------------------------------------
(* Each step keeps the invariant and is one of the abstract timers.        *)
Kept == TimerIInv' /\ OnTime!Next

LEMMA SetStep ==
  ASSUME TimerIInv, NEW t \in Timer, NEW d \in Delay \cup Offset, NEW p \in Period,
         SetAbs(t, Wrap(ticks + d), p), UNCHANGED request
  PROVE  Kept
<1> DEFINE at == Wrap(ticks + d)
<1>1. d \in Reach
  <2>1. d \in Int
    <3>1. Delay \subseteq Nat /\ Offset \subseteq Int
      BY TimerAssumption
    <3> QED BY <3>1
  <2>2. 0 - MaxLate <= d /\ d + MaxLate + 1 < Half
    BY TimerAssumption, Zenon
  <2> QED BY <2>1, <2>2 DEF Reach
<1>2. at \in Counter /\ Ahead(at, ticks) = d /\ Near(0 - MaxLate, d)
  BY <1>1, AheadOfNow DEF TimerIInv, Reach, Near
<1> HIDE DEF at
<1>3. UNCHANGED << ticks, running >> /\ SetAbs(t, at, p)
  BY DEF SetAbs, at
<1>4. /\ ListOK(timers', timeout', period', ticks, Latest)
      /\ Lefts(timers', timeout', ticks) = [Lefts(timers, timeout, ticks) EXCEPT ![t] = d]
  BY <1>2, <1>3, SetKeepsTime
<1>5. TimerIInv'
  BY <1>3, <1>4 DEF TimerIInv, RequestOK, Latest
<1>6. AbstractLeft' = [AbstractLeft EXCEPT ![t] = d]
  BY <1>3, <1>4, LeftsNow DEF AbstractLeft, Lefts, Armed, Left, Ahead
<1>7. AbstractRequest' = AbstractRequest
  BY <1>3 DEF AbstractRequest, Left
<1>8. period' = [period EXCEPT ![t] = p]
  BY <1>3 DEF SetAbs
<1>9. OnTime!Set(t, d, p)
  BY <1>3, <1>6, <1>7, <1>8
     DEF OnTime!Set, OnTime!Arm, AbstractLeft, AbstractRequest
<1>10. OnTime!Next
  BY <1>9 DEF OnTime!Next
<1> QED BY <1>5, <1>10 DEF Kept

LEMMA ReadTicksStep ==
  ASSUME TimerIInv, NEW t \in Timer, NEW d \in SlowDelay, NEW p \in Period,
         ReadTicks(t, d, p)
  PROVE  Kept
<1> DEFINE at == Wrap(ticks + d)
<1>1. d \in Reach
  BY TimerAssumption DEF Reach
<1>2. at \in Counter /\ Ahead(at, ticks) = d /\ Near(0 - MaxLate, d)
  BY <1>1, AheadOfNow DEF TimerIInv, Reach, Near
<1>3. /\ running = NoTimer /\ request[t] = NoRequest
      /\ request' = [request EXCEPT ![t] = [at |-> at, period |-> p]]
      /\ UNCHANGED << ticks, timers, timeout, period, running >>
  BY DEF ReadTicks
<1> HIDE DEF at
<1>4. /\ DOMAIN request = Timer /\ DOMAIN request' = Timer
      /\ request'[t] = [at |-> at, period |-> p]
      /\ \A u \in Timer \ {t} : request'[u] = request[u]
  BY <1>3 DEF TimerIInv
<1>5. request'[t] # NoRequest
  <2>1. at \in Int /\ p \in Int
    BY <1>2, WidthFacts, TimerAssumption DEF Counter
  <2> QED BY <2>1, <1>4, TimerAssumption
<1>6. \A u \in Timer : RequestOK(u)'
  BY <1>2, <1>3, <1>4 DEF TimerIInv, RequestOK
<1>7. TimerIInv'
  BY <1>3, <1>4, <1>6 DEF TimerIInv, Latest
<1>8. AbstractRequest' = [AbstractRequest EXCEPT ![t] = [left |-> d, period |-> p]]
  BY <1>2, <1>3, <1>4, <1>5 DEF AbstractRequest, Left, Ahead
<1>9. AbstractLeft' = AbstractLeft
  BY <1>3 DEF AbstractLeft, Armed, Left
<1>10. AbstractRequest[t] = NoRequest
  BY <1>3 DEF AbstractRequest
<1>11. OnTime!Ask(t, d, p)
  BY <1>3, <1>8, <1>9, <1>10 DEF OnTime!Ask, AbstractLeft, AbstractRequest
<1>12. OnTime!Next
  BY <1>11 DEF OnTime!Next
<1> QED BY <1>7, <1>12 DEF Kept

LEMMA FinishStep ==
  ASSUME TimerIInv, NEW t \in Timer, FinishSetRel(t)
  PROVE  Kept
<1> DEFINE at == request[t].at
           p == request[t].period
           d == Ahead(at, ticks)
<1>1. /\ running = NoTimer /\ request[t] # NoRequest
      /\ SetAbs(t, at, p) /\ request' = [request EXCEPT ![t] = NoRequest]
  BY DEF FinishSetRel
<1>2. at \in Counter /\ p \in Period /\ Near(0 - MaxLate, d)
  BY <1>1 DEF TimerIInv, RequestOK
<1>3. UNCHANGED << ticks, running >> /\ period' = [period EXCEPT ![t] = p]
  BY <1>1 DEF SetAbs
<1>4. AbstractRequest[t] = [left |-> d, period |-> p]
  BY <1>1 DEF AbstractRequest, Left, Ahead
<1> HIDE DEF at, p
<1>5. /\ ListOK(timers', timeout', period', ticks, Latest)
      /\ Lefts(timers', timeout', ticks) = [Lefts(timers, timeout, ticks) EXCEPT ![t] = d]
  BY <1>1, <1>2, SetKeepsTime
<1> HIDE DEF d
<1>6. /\ DOMAIN request = Timer /\ DOMAIN request' = Timer
      /\ request'[t] = NoRequest
      /\ \A u \in Timer \ {t} : request'[u] = request[u]
  BY <1>1 DEF TimerIInv
<1>7. TimerIInv'
  BY <1>3, <1>5, <1>6 DEF TimerIInv, RequestOK, Latest
<1>8. AbstractLeft' = [AbstractLeft EXCEPT ![t] = d]
  BY <1>3, <1>5, LeftsNow DEF AbstractLeft, Lefts, Armed, Left, Ahead
<1>9. AbstractRequest' = [AbstractRequest EXCEPT ![t] = NoRequest]
  BY <1>3, <1>6 DEF AbstractRequest, Left
<1>10. AbstractRequest[t] # NoRequest
  <2>1. d \in Int /\ p \in Int
    BY <1>2, AheadIs, TimerAssumption DEF d, TimerIInv
  <2>2. AbstractRequest[t] \in [left : Int, period : Int]
    BY <2>1, <1>4
  <2> QED BY <2>2, TimerAssumption
<1>11. OnTime!TakeEffect(t)
  BY <1>1, <1>3, <1>4, <1>8, <1>9, <1>10
     DEF OnTime!TakeEffect, OnTime!Arm, AbstractLeft, AbstractRequest
<1>12. OnTime!Next
  BY <1>11 DEF OnTime!Next
<1> QED BY <1>7, <1>12 DEF Kept

LEMMA CancelStep ==
  ASSUME TimerIInv, NEW t \in Timer, Cancel(t)
  PROVE  Kept
<1>1. /\ ListOK(timers', timeout', period', ticks, Latest)
      /\ Lefts(timers', timeout', ticks) =
           [Lefts(timers, timeout, ticks) EXCEPT ![t] = NoTimer]
  BY CancelKeepsTime
<1>2. UNCHANGED << ticks, request, running >> /\ period' = [period EXCEPT ![t] = 0]
  BY DEF Cancel
<1>3. TimerIInv'
  BY <1>1, <1>2 DEF TimerIInv, RequestOK, Latest
<1>4. AbstractLeft' = [AbstractLeft EXCEPT ![t] = NoTimer]
  BY <1>1, <1>2, LeftsNow DEF AbstractLeft, Lefts, Armed, Left, Ahead
<1>5. AbstractRequest' = AbstractRequest
  BY <1>2 DEF AbstractRequest, Left
<1>6. OnTime!Set(t, NoTimer, 0)
  BY <1>2, <1>4, <1>5 DEF OnTime!Set, OnTime!Arm, AbstractLeft, AbstractRequest
<1>7. OnTime!Next
  BY <1>6 DEF OnTime!Next
<1> QED BY <1>3, <1>7 DEF Kept

LEMMA TickStep ==
  ASSUME TimerIInv, Tick
  PROVE  Kept
<1>1. /\ running = NoTimer /\ ticks' = Wrap(ticks + 1) /\ Scan(ticks')
      /\ request' = request
      /\ \A t \in Timer : request[t] # NoRequest
           => Ahead(request[t].at, ticks) > 0 - MaxLate
  BY DEF Tick, Ahead
<1>2. /\ ticks \in Counter /\ ListOK(timers, timeout, period, ticks, 0 - MaxLate)
      /\ DOMAIN request = Timer /\ \A t \in Timer : RequestOK(t)
  BY <1>1 DEF TimerIInv, Latest
<1>3. \A at \in Counter : Near(0 - MaxLate, Ahead(at, ticks)) =>
        /\ ticks' \in Counter /\ Ahead(at, ticks') = Ahead(at, ticks) - 1
        /\ Near(0 - MaxLate - 1, Ahead(at, ticks'))
  <2> SUFFICES ASSUME NEW at \in Counter, Near(0 - MaxLate, Ahead(at, ticks))
               PROVE  /\ ticks' \in Counter /\ Ahead(at, ticks') = Ahead(at, ticks) - 1
                      /\ Near(0 - MaxLate - 1, Ahead(at, ticks'))
    OBVIOUS
  <2>1. Ahead(at, ticks) \in Int
    BY <1>2, AheadIs
  <2>2. 0 - Half < Ahead(at, ticks)
    BY <2>1, WidthFacts DEF Near
  <2>3. Wrap(ticks + 1) \in Counter /\ Ahead(at, Wrap(ticks + 1)) = Ahead(at, ticks) - 1
    BY <2>2, <1>2, AheadOfTick
  <2> QED BY <2>1, <2>3, <1>1, WidthFacts DEF Near
<1>4. ticks' \in Counter
  <2>1. Ahead(ticks, ticks) = 0
    BY <1>2, AheadIs, WidthFacts DEF Counter
  <2>2. Near(0 - MaxLate, 0)
    BY WidthFacts DEF Near
  <2> QED BY <2>1, <2>2, <1>2, <1>3
<1>5. \A t \in Timer : Linked(timers, t) =>
        /\ Ahead(timeout[t], ticks') = Ahead(timeout[t], ticks) - 1
        /\ Near(0 - MaxLate - 1, Ahead(timeout[t], ticks'))
        /\ Ahead(timeout[t], ticks) \in Int
  BY <1>2, <1>3, AheadIs DEF ListOK
<1>6. Ordered(timers, timeout, ticks')
  <2>1. \A i \in 1 .. Len(timers) : timers[i] \in Timer /\ Linked(timers, timers[i])
    BY <1>2, ElementOfSeq DEF Linked, ListOK
  <2>2. \A i \in 1 .. Len(timers) :
          /\ Ahead(timeout[timers[i]], ticks') = Ahead(timeout[timers[i]], ticks) - 1
          /\ Ahead(timeout[timers[i]], ticks) \in Int
    BY <2>1, <1>5
  <2>3. Ordered(timers, timeout, ticks)
    BY <1>2 DEF ListOK
  <2> QED BY <2>2, <2>3 DEF Ordered
<1>7. ListOK(timers, timeout, period, ticks', 0 - MaxLate - 1)
  BY <1>2, <1>5, <1>6 DEF ListOK
<1>8. /\ running' \in Timer \cup {NoTimer}
      /\ ListOK(timers', timeout', period', ticks', Latest')
      /\ OnTime!CallOrEnd(Lefts(timers, timeout, ticks'))
  BY <1>1, <1>4, <1>7, ScanKeepsTime
<1>9. \A t \in Timer : request[t] # NoRequest =>
        /\ request[t] \in [at : Counter, period : Period]
        /\ Ahead(request[t].at, ticks') = Ahead(request[t].at, ticks) - 1
        /\ Near(0 - MaxLate, Ahead(request[t].at, ticks'))
  <2> SUFFICES ASSUME NEW t \in Timer, request[t] # NoRequest
               PROVE  /\ request[t] \in [at : Counter, period : Period]
                      /\ Ahead(request[t].at, ticks') = Ahead(request[t].at, ticks) - 1
                      /\ Near(0 - MaxLate, Ahead(request[t].at, ticks'))
    OBVIOUS
  <2>1. /\ request[t] \in [at : Counter, period : Period]
        /\ Near(0 - MaxLate, Ahead(request[t].at, ticks))
        /\ Ahead(request[t].at, ticks) > 0 - MaxLate
    BY <1>1, <1>2 DEF RequestOK
  <2>2. request[t].at \in Counter /\ Ahead(request[t].at, ticks) \in Int
    BY <2>1, <1>2, AheadIs
  <2>3. Ahead(request[t].at, ticks') = Ahead(request[t].at, ticks) - 1
    BY <2>1, <2>2, <1>3
  <2> QED BY <2>1, <2>2, <2>3, WidthFacts DEF Near
<1>10. TimerIInv'
  BY <1>1, <1>2, <1>4, <1>8, <1>9 DEF TimerIInv, RequestOK
<1>11. Lefts(timers, timeout, ticks') =
         [t \in Timer |-> IF AbstractLeft[t] = NoTimer THEN NoTimer
                          ELSE AbstractLeft[t] - 1]
  BY <1>5, LeftsNow, TimerAssumption DEF Lefts
<1>12. AbstractRequest' =
         [t \in Timer |-> IF AbstractRequest[t] = NoRequest THEN NoRequest
                          ELSE [AbstractRequest[t] EXCEPT !.left = @ - 1]]
  <2>1. ASSUME NEW t \in Timer, request[t] = NoRequest
        PROVE  AbstractRequest[t] = NoRequest /\ AbstractRequest'[t] = NoRequest
    BY <2>1, <1>1 DEF AbstractRequest
  <2>2. ASSUME NEW t \in Timer, request[t] # NoRequest
        PROVE  /\ AbstractRequest[t] # NoRequest
               /\ AbstractRequest'[t] = [AbstractRequest[t] EXCEPT !.left = @ - 1]
    <3> DEFINE n == Ahead(request[t].at, ticks)
               p == request[t].period
    <3>1. /\ request[t].at \in Counter /\ p \in Period /\ n \in Int
      BY <2>2, <1>2, <1>9, AheadIs
    <3>2. AbstractRequest[t] = [left |-> n, period |-> p]
      BY <2>2 DEF AbstractRequest, Left, Ahead
    <3>3. AbstractRequest'[t] = [left |-> n - 1, period |-> p]
      <4>1. AbstractRequest'[t] = [left |-> Ahead(request[t].at, ticks'), period |-> p]
        BY <2>2, <1>1 DEF AbstractRequest, Left, Ahead
      <4> QED BY <4>1, <2>2, <1>9
    <3> HIDE DEF n, p
    <3>4. p \in Int
      BY <3>1, TimerAssumption
    <3>5. AbstractRequest[t] \in [left : Int, period : Int]
      BY <3>1, <3>2, <3>4
    <3> QED BY <3>2, <3>3, <3>5, TimerAssumption
  <2> QED BY <2>1, <2>2 DEF AbstractRequest
<1>13. OnTime!Tick
  BY <1>1, <1>8, <1>11, <1>12 DEF OnTime!Tick, AbstractLeft, AbstractRequest
<1>14. OnTime!Next
  BY <1>13 DEF OnTime!Next
<1> QED BY <1>10, <1>14 DEF Kept

LEMMA CallbackStep ==
  ASSUME TimerIInv, CallbackReturns
  PROVE  Kept
<1>1. running # NoTimer /\ Scan(ticks') /\ UNCHANGED << ticks, request >>
  BY DEF CallbackReturns, Scan, Expire
<1>2. ticks' \in Counter /\ ListOK(timers, timeout, period, ticks', 0 - MaxLate - 1)
  BY <1>1 DEF TimerIInv, Latest
<1>3. /\ running' \in Timer \cup {NoTimer}
      /\ ListOK(timers', timeout', period', ticks', Latest')
      /\ OnTime!CallOrEnd(Lefts(timers, timeout, ticks'))
  BY <1>1, <1>2, ScanKeepsTime
<1>4. TimerIInv'
  BY <1>1, <1>3 DEF TimerIInv, RequestOK
<1>5. AbstractRequest' = AbstractRequest
  BY <1>1 DEF AbstractRequest, Left
<1>6. Lefts(timers, timeout, ticks') = AbstractLeft
  BY <1>1, LeftsNow
<1>7. OnTime!CallbackReturns
  BY <1>1, <1>3, <1>5, <1>6 DEF OnTime!CallbackReturns, AbstractLeft, AbstractRequest
<1>8. OnTime!Next
  BY <1>7 DEF OnTime!Next
<1> QED BY <1>4, <1>8 DEF Kept

LEMMA Start == TimerInit => TimerIInv /\ OnTime!Init
<1> SUFFICES ASSUME TimerInit PROVE TimerIInv /\ OnTime!Init
  OBVIOUS
<1>1. /\ ticks = 0 /\ timers = << >> /\ timeout = [t \in Timer |-> 0]
      /\ period = [t \in Timer |-> 0] /\ request = [t \in Timer |-> NoRequest]
      /\ running = NoTimer
  BY DEF TimerInit
<1>2. 0 \in Counter
  BY WidthFacts DEF Counter
<1>3. /\ timers \in Seq(Timer) /\ IsInjective(timers) /\ Len(timers) = 0
      /\ \A t \in Timer : ~Linked(timers, t)
  BY <1>1 DEF IsInjective, Linked
<1>4. ListOK(timers, timeout, period, ticks, Latest)
  BY <1>1, <1>2, <1>3 DEF ListOK, Ordered
<1>5. TimerIInv
  BY <1>1, <1>2, <1>4 DEF TimerIInv, RequestOK
<1>6. AbstractLeft = [t \in Timer |-> NoTimer]
  BY <1>3 DEF AbstractLeft, Armed
<1>7. OnTime!Init
  BY <1>1, <1>6 DEF OnTime!Init, AbstractLeft
<1> QED BY <1>5, <1>7

(* The timers implement those without a counter that wraps: whatever the   *)
(* width of the counter and whenever it wraps, a timer is called on the    *)
(* tick it was set for, the one that is due for longest first, and a tick  *)
(* ends only when none is due.                                             *)
THEOREM ImplementsTimers == TimerSpec => TimersOnTime
<1>1. TimerInit => TimerIInv /\ OnTime!Init
  BY Start
<1>2. TimerIInv /\ [TimerNext]_timerVars => TimerIInv' /\ [OnTime!Next]_OnTime!vars
  <2> SUFFICES ASSUME TimerIInv, [TimerNext]_timerVars
               PROVE  TimerIInv' /\ [OnTime!Next]_OnTime!vars
    OBVIOUS
  <2>1. CASE Tick
    BY <2>1, TickStep DEF Kept
  <2>2. CASE CallbackReturns
    BY <2>2, CallbackStep DEF Kept
  <2>3. ASSUME NEW t \in Timer, NEW d \in Delay, NEW p \in Period, SetRel(t, d, p)
        PROVE  Kept
    BY <2>3, SetStep DEF SetRel
  <2>4. ASSUME NEW t \in Timer, NEW d \in Offset, NEW p \in Period, SetAbsolute(t, d, p)
        PROVE  Kept
    BY <2>4, SetStep DEF SetAbsolute
  <2>5. ASSUME NEW t \in Timer, NEW d \in SlowDelay, NEW p \in Period, ReadTicks(t, d, p)
        PROVE  Kept
    BY <2>5, ReadTicksStep
  <2>6. ASSUME NEW t \in Timer, FinishSetRel(t) PROVE Kept
    BY <2>6, FinishStep
  <2>7. ASSUME NEW t \in Timer, Cancel(t) PROVE Kept
    BY <2>7, CancelStep
  <2>8. CASE UNCHANGED timerVars
    <3>1. UNCHANGED << ticks, timers, timeout, period, request, running >>
      BY <2>8 DEF timerVars
    <3>2. TimerIInv'
      BY <3>1 DEF TimerIInv, RequestOK, Latest
    <3>3. UNCHANGED OnTime!vars
      BY <3>1 DEF OnTime!vars, Armed, Left
    <3> QED BY <3>2, <3>3
  <2>9. CASE TimerNext
    <3>1. Kept
      BY <2>1, <2>2, <2>3, <2>4, <2>5, <2>6, <2>7, <2>9, TickStep, CallbackStep DEF TimerNext
    <3> QED BY <3>1 DEF Kept
  <2> QED BY <2>8, <2>9
<1> QED BY <1>1, <1>2, PTL DEF TimerSpec, TimersOnTime, OnTime!Spec

-----------------------------------------------------------------------------
(* Powers of two.                                                          *)

(* A table of the powers up to n.                                          *)
IsTable(n, g) ==
  /\ g \in [0 .. n -> Nat]
  /\ \A k \in 0 .. n : g[k] = IF k = 0 THEN 1 ELSE 2 * g[k - 1]

(* Two tables have the same entries as far as both go.                     *)
LEMMA TablesAgree ==
  ASSUME NEW n \in Nat, NEW g, NEW m \in Nat, NEW h, IsTable(n, g), IsTable(m, h),
         NEW k \in Nat, k <= n, k <= m
  PROVE  g[k] = h[k]
<1> DEFINE S == {i \in Nat : i <= n /\ i <= m /\ g[i] # h[i]}
<1> SUFFICES ASSUME S # {} PROVE FALSE
  OBVIOUS
<1>1. PICK i \in S : \A j \in S : i <= j
  BY LeastElement
<1>2. i = 0 \/ (i - 1 \in Nat /\ i - 1 \notin S)
  BY <1>1
<1> QED BY <1>1, <1>2 DEF IsTable

(* There is a table of every length.                                       *)
LEMMA TableExists ==
  ASSUME NEW n \in Nat
  PROVE  \E g : IsTable(n, g)
<1> DEFINE S == {i \in Nat : ~ \E g : IsTable(i, g)}
<1> SUFFICES ASSUME S # {} PROVE FALSE
  OBVIOUS
<1>1. PICK i \in S : \A j \in S : i <= j
  BY LeastElement
<1>2. i # 0
  <2>1. IsTable(0, [k \in 0 .. 0 |-> 1])
    BY DEF IsTable
  <2> QED BY <1>1, <2>1
<1>3. PICK g : IsTable(i - 1, g)
  <2>1. i - 1 \in Nat /\ i - 1 \notin S
    BY <1>1, <1>2
  <2> QED BY <2>1
<1>4. IsTable(i, [k \in 0 .. i |-> IF k = i THEN 2 * g[i - 1] ELSE g[k]])
  BY <1>1, <1>2, <1>3, SMTT(30) DEF IsTable
<1> QED BY <1>1, <1>4

(* The recursion of the powers of two has a solution, so Pow2 is one.      *)
LEMMA Pow2Def ==
  /\ Pow2 \in [Nat -> Nat]
  /\ Pow2[0] = 1
  /\ \A n \in Nat : Pow2[n + 1] = 2 * Pow2[n]
<1> DEFINE T(n) == CHOOSE g : IsTable(n, g)
           F == [n \in Nat |-> T(n)[n]]
<1>1. \A n \in Nat : IsTable(n, T(n))
  BY TableExists
<1> HIDE DEF T
<1>2. \A n \in Nat : F[n] = IF n = 0 THEN 1 ELSE 2 * F[n - 1]
  <2> TAKE n \in Nat
  <2>1. CASE n = 0
    BY <1>1, <2>1 DEF IsTable
  <2>2. CASE n # 0
    <3>1. T(n)[n] = 2 * T(n)[n - 1]
      BY <1>1, <2>2 DEF IsTable
    <3>2. T(n)[n - 1] = T(n - 1)[n - 1]
      BY <1>1, <2>2, TablesAgree
    <3> QED BY <2>2, <3>1, <3>2
  <2> QED BY <2>1, <2>2
<1>3. F = [n \in Nat |-> IF n = 0 THEN 1 ELSE 2 * F[n - 1]]
  <2> DEFINE G == [n \in Nat |-> IF n = 0 THEN 1 ELSE 2 * F[n - 1]]
  <2>1. \A n \in Nat : F[n] = G[n]
    BY <1>2
  <2>2. DOMAIN F = Nat /\ DOMAIN G = Nat
    OBVIOUS
  <2> QED BY <2>1, <2>2
<1>4. F \in [Nat -> Nat]
  <2>1. \A n \in Nat : T(n)[n] \in Nat
    BY <1>1 DEF IsTable
  <2> QED BY <2>1
<1> HIDE DEF F
<1>5. Pow2 = [n \in Nat |-> IF n = 0 THEN 1 ELSE 2 * Pow2[n - 1]]
  BY <1>3 DEF Pow2
<1>6. Pow2[0] = 1 /\ \A n \in Nat : Pow2[n + 1] = 2 * Pow2[n]
  BY <1>5
<1>7. Pow2 \in [Nat -> Nat]
  <2> DEFINE S == {n \in Nat : Pow2[n] \notin Nat}
  <2>1. S = {}
    <3> SUFFICES ASSUME S # {} PROVE FALSE
      OBVIOUS
    <3>1. PICK i \in S : \A j \in S : i <= j
      BY LeastElement
    <3>2. i # 0 /\ i - 1 \in Nat /\ i - 1 \notin S
      BY <3>1, <1>6
    <3>3. Pow2[i - 1 + 1] = 2 * Pow2[i - 1]
      BY <3>2, <1>6
    <3> QED BY <3>1, <3>2, <3>3
  <2> QED BY <1>5, <2>1
<1> QED BY <1>6, <1>7

(* Powers of two are larger than their exponents, and the next one is      *)
(* twice as large.                                                         *)
LEMMA Pow2Grows ==
  ASSUME NEW n \in Nat
  PROVE  /\ Pow2[n] \in Nat /\ Pow2[n] > n
         /\ \A m \in Nat : m <= n => Pow2[m] <= Pow2[n]
         /\ \A m \in Nat : m < n => 2 * Pow2[m] <= Pow2[n]
<1> DEFINE Good(i) == /\ Pow2[i] > i
                      /\ \A m \in Nat : m <= i => Pow2[m] <= Pow2[i]
                      /\ \A m \in Nat : m < i => 2 * Pow2[m] <= Pow2[i]
           S == {i \in Nat : ~Good(i)}
<1>1. S = {}
  <2> SUFFICES ASSUME S # {} PROVE FALSE
    OBVIOUS
  <2>1. PICK i \in S : \A j \in S : i <= j
    BY LeastElement
  <2>2. i # 0
    BY <2>1, Pow2Def
  <2>3. i - 1 \in Nat /\ Good(i - 1)
    BY <2>1, <2>2
  <2>4. Pow2[i] = 2 * Pow2[i - 1]
    <3>1. i = (i - 1) + 1
      BY <2>1
    <3> QED BY <2>3, <3>1, Pow2Def
  <2>5. Good(i)
    <3>1. Pow2[i - 1] \in Nat /\ Pow2[i - 1] >= 1
      BY <2>3, Pow2Def
    <3>2. Pow2[i] > i
      BY <2>1, <2>3, <2>4, <3>1
    <3>3. ASSUME NEW m \in Nat, m < i PROVE 2 * Pow2[m] <= Pow2[i]
      <4>1. m <= i - 1 /\ Pow2[m] \in Nat
        BY <3>3, <2>1, Pow2Def
      <4>2. Pow2[m] <= Pow2[i - 1]
        BY <4>1, <2>3
      <4> QED BY <4>1, <4>2, <3>1, <2>4
    <3>4. ASSUME NEW m \in Nat, m <= i PROVE Pow2[m] <= Pow2[i]
      <4>1. Pow2[m] \in Nat /\ Pow2[i] \in Nat
        BY <2>1, Pow2Def
      <4> QED BY <3>3, <3>4, <4>1, <2>1
    <3> QED BY <3>2, <3>3, <3>4
  <2> QED BY <2>1, <2>5
<1> QED BY <1>1, Pow2Def

(* The power of a sum is the product of the powers.                        *)
LEMMA Pow2Sum ==
  ASSUME NEW n \in Nat, NEW m \in Nat
  PROVE  Pow2[n + m] = Pow2[n] * Pow2[m]
<1> DEFINE S == {i \in Nat : Pow2[i + m] # Pow2[i] * Pow2[m]}
<1> SUFFICES ASSUME S # {} PROVE FALSE
  OBVIOUS
<1>1. PICK i \in S : \A j \in S : i <= j
  BY LeastElement
<1>2. i # 0
  BY <1>1, Pow2Def
<1>3. i - 1 \in Nat /\ Pow2[(i - 1) + m] = Pow2[i - 1] * Pow2[m]
  BY <1>1, <1>2
<1>4. Pow2[i] = 2 * Pow2[i - 1] /\ Pow2[i + m] = 2 * Pow2[(i - 1) + m]
  <2>1. i = (i - 1) + 1 /\ i + m = ((i - 1) + m) + 1 /\ (i - 1) + m \in Nat
    BY <1>1, <1>3
  <2> QED BY <2>1, <1>3, Pow2Def
<1>5. 2 * (Pow2[i - 1] * Pow2[m]) = (2 * Pow2[i - 1]) * Pow2[m]
  BY <1>3, Pow2Def
<1> QED BY <1>1, <1>3, <1>4, <1>5
-----------------------------------------------------------------------------
(* The classes of sizes.                                                   *)

(* The constants of rtl_mem_pool.c, in terms of the two that are           *)
(* configured.                                                             *)
LEMMA PoolConstants ==
  /\ SL_INDEX_COUNT_LOG2 \in Nat \ {0} /\ FL_INDEX_MAX \in Nat
  /\ FL_INDEX_SHIFT = SL_INDEX_COUNT_LOG2 + 2 /\ FL_INDEX_SHIFT <= FL_INDEX_MAX
  /\ FL_INDEX_COUNT = FL_INDEX_MAX - SL_INDEX_COUNT_LOG2 - 1 /\ FL_INDEX_COUNT \in Nat \ {0}
  /\ ALIGN_SIZE = 4
  /\ SL_INDEX_COUNT = Pow2[SL_INDEX_COUNT_LOG2] /\ SMALL_BLOCK_SIZE = SL_INDEX_COUNT
  /\ SL_INDEX_COUNT \in Nat /\ SL_INDEX_COUNT >= 2
  /\ BLK_SIZE_MAX = Pow2[FL_INDEX_MAX - 2] /\ BLK_SIZE_MAX \in Nat
  /\ SL_INDEX_COUNT <= BLK_SIZE_MAX
<1>1. /\ SL_INDEX_COUNT_LOG2 \in Nat \ {0} /\ FL_INDEX_MAX \in Nat
      /\ FL_INDEX_SHIFT = SL_INDEX_COUNT_LOG2 + 2 /\ FL_INDEX_SHIFT <= FL_INDEX_MAX
      /\ BLK_SIZE_MAX = Pow2[FL_INDEX_MAX - 2]
  BY MemPoolAssumption DEF FL_INDEX_SHIFT, ALIGN_SIZE_LOG2, BLK_SIZE_MAX
<1>2. Pow2[2] = 4
  <2>1. Pow2[0 + 1] = 2 * Pow2[0] /\ Pow2[1 + 1] = 2 * Pow2[1]
    BY Pow2Def
  <2> QED BY <2>1, Pow2Def
<1>3. SL_INDEX_COUNT \in Nat /\ SL_INDEX_COUNT >= 2
  BY <1>1, Pow2Grows DEF SL_INDEX_COUNT
<1>4. BLK_SIZE_MAX \in Nat /\ SL_INDEX_COUNT <= BLK_SIZE_MAX
  BY <1>1, Pow2Grows DEF SL_INDEX_COUNT
<1> QED
  BY <1>1, <1>2, <1>3, <1>4
  DEF SL_INDEX_COUNT, SMALL_BLOCK_SIZE, FL_INDEX_COUNT, ALIGN_SIZE, ALIGN_SIZE_LOG2

(* tlsf_fls finds the highest bit of every size that it is asked for.      *)
Sizeable == {w \in Nat \ {0} : w < Pow2[FL_INDEX_MAX + 2]}

(* tlsf_fls is the position of the highest bit.                            *)
LEMMA FlsProperties ==
  ASSUME NEW w \in Sizeable
  PROVE  /\ Fls(w) \in 0 .. FL_INDEX_MAX + 1
         /\ Pow2[Fls(w)] <= w /\ w < Pow2[Fls(w) + 1]
<1> DEFINE S == {k \in Nat : w < Pow2[k + 1]}
<1>1. w \in Nat \ {0} /\ FL_INDEX_MAX + 1 \in S
  BY PoolConstants DEF Sizeable
<1>2. PICK k \in S : \A j \in S : k <= j
  BY <1>1, LeastElement
<1>3. k \in 0 .. FL_INDEX_MAX + 1 /\ w < Pow2[k + 1]
  BY <1>1, <1>2, PoolConstants
<1>4. Pow2[k] <= w
  <2>1. CASE k = 0
    BY <2>1, <1>1, Pow2Def
  <2>2. CASE k # 0
    <3>1. k - 1 \in Nat /\ k - 1 \notin S /\ (k - 1) + 1 = k
      BY <2>2, <1>2
    <3>2. Pow2[k] \in Nat
      BY <1>2, Pow2Def
    <3> QED BY <3>1, <3>2, <1>1
  <2> QED BY <2>1, <2>2
<1> QED BY <1>3, <1>4 DEF Fls

(* The smallest size of a class, and how many sizes it has.                *)
Low(i) == IF i.fl = 0 THEN i.sl ELSE Pow2[i.fl - 1] * (SL_INDEX_COUNT + i.sl)
Width(i) == IF i.fl = 0 THEN 1 ELSE Pow2[i.fl - 1]

(* All classes there are, past the ends of the arrays too.                 *)
Class == [fl : Nat, sl : SlIndex]

(* The classes in the order that search_suitable_block looks through them. *)
Before(i, j) == i.fl < j.fl \/ (i.fl = j.fl /\ i.sl < j.sl)

(* A quotient, and what its division leaves.                               *)
LEMMA QuotientBounds ==
  ASSUME NEW a \in Nat, NEW v \in Nat \ {0}, NEW q, q = a \div v
  PROVE  q \in Nat /\ v * q <= a /\ a < v * (q + 1)
OBVIOUS

(* A positive factor does not change how two numbers compare.              *)
LEMMA FactorCompares ==
  ASSUME NEW a \in Nat, NEW b \in Nat, NEW v \in Nat \ {0}
  PROVE  /\ v * a < v * b <=> a < b
         /\ v * a <= v * b <=> a <= b
OBVIOUS

(* mapping_insert returns the class that a size lies in.                   *)
LEMMA ClassBounds ==
  ASSUME NEW w \in Sizeable
  PROVE  LET i == MappingInsert(w)
         IN  /\ i \in Class
             /\ Low(i) \in Nat /\ Width(i) \in Nat \ {0}
             /\ Low(i) <= w /\ w < Low(i) + Width(i)
             /\ i.fl \in FlIndex <=> w < BLK_SIZE_MAX
<1>1. w \in Nat \ {0}
  BY DEF Sizeable
<1>2. CASE w < SMALL_BLOCK_SIZE
  BY <1>1, <1>2, PoolConstants DEF MappingInsert, Low, Width, Class, SlIndex, FlIndex
<1>3. CASE ~(w < SMALL_BLOCK_SIZE)
  <2> DEFINE n == Fls(w)
             k == n - SL_INDEX_COUNT_LOG2
             v == Pow2[k]
             q == w \div v
  <2>1. n \in 0 .. FL_INDEX_MAX + 1 /\ Pow2[n] <= w /\ w < Pow2[n + 1]
    BY FlsProperties
  <2> HIDE DEF n
  <2>2. k \in Nat
    <3> SUFFICES ASSUME n + 1 <= SL_INDEX_COUNT_LOG2 PROVE FALSE
      BY <2>1, PoolConstants
    <3>1. Pow2[n + 1] <= SL_INDEX_COUNT /\ Pow2[n + 1] \in Nat
      BY <2>1, PoolConstants, Pow2Grows
    <3> QED BY <3>1, <2>1, <1>1, <1>3, PoolConstants
  <2>3. v \in Nat \ {0}
    BY <2>2, Pow2Grows
  <2>4. /\ Pow2[n] = v * SL_INDEX_COUNT
        /\ Pow2[n + 1] = v * (2 * SL_INDEX_COUNT)
    <3>1. n = k + SL_INDEX_COUNT_LOG2
      BY <2>1, PoolConstants
    <3>2. Pow2[n] = v * SL_INDEX_COUNT
      BY <3>1, <2>2, Pow2Sum, PoolConstants
    <3>3. Pow2[n + 1] = 2 * Pow2[n]
      BY <2>1, Pow2Def
    <3> QED BY <3>2, <3>3, <2>3, PoolConstants
  <2> HIDE DEF k, v
  <2>5. q \in Nat /\ v * q <= w /\ w < v * (q + 1)
    BY <1>1, <2>3, QuotientBounds
  <2> HIDE DEF q
  <2>6. SL_INDEX_COUNT <= q /\ q < 2 * SL_INDEX_COUNT
    <3>1. v * SL_INDEX_COUNT < v * (q + 1) /\ v * q < v * (2 * SL_INDEX_COUNT)
      BY <1>1, <2>1, <2>3, <2>4, <2>5, PoolConstants
    <3>2. SL_INDEX_COUNT < q + 1 /\ q < 2 * SL_INDEX_COUNT
      BY <3>1, <2>3, <2>5, FactorCompares, PoolConstants
    <3> QED BY <3>2, <2>5, PoolConstants
  <2>7. MappingInsert(w) = [fl |-> k + 1, sl |-> q - SL_INDEX_COUNT]
    BY <1>3 DEF MappingInsert, n, k, v, q
  <2>8. k + 1 \in FlIndex <=> w < BLK_SIZE_MAX
    <3>1. k + 1 \in FlIndex <=> n + 1 <= FL_INDEX_MAX - 2
      BY <2>1, <2>2, PoolConstants DEF FlIndex, k
    <3>2. CASE n + 1 <= FL_INDEX_MAX - 2
      <4>1. Pow2[n + 1] <= BLK_SIZE_MAX /\ Pow2[n + 1] \in Nat
        BY <3>2, <2>1, PoolConstants, Pow2Grows
      <4> QED BY <3>1, <3>2, <4>1, <2>1, <1>1, PoolConstants
    <3>3. CASE ~(n + 1 <= FL_INDEX_MAX - 2)
      <4>1. BLK_SIZE_MAX <= Pow2[n] /\ Pow2[n] \in Nat
        BY <3>3, <2>1, PoolConstants, Pow2Grows
      <4> QED BY <3>1, <3>3, <4>1, <2>1, <1>1, PoolConstants
    <3> QED BY <3>2, <3>3
  <2>9. /\ Low(MappingInsert(w)) = v * q /\ Width(MappingInsert(w)) = v
        /\ MappingInsert(w).fl = k + 1 /\ MappingInsert(w) \in Class
    <3>1. SL_INDEX_COUNT + (q - SL_INDEX_COUNT) = q /\ (k + 1) - 1 = k /\ k + 1 # 0
      BY <2>2, <2>5, PoolConstants
    <3>2. k + 1 \in Nat /\ q - SL_INDEX_COUNT \in SlIndex
      BY <2>2, <2>5, <2>6, PoolConstants DEF SlIndex
    <3> QED BY <2>7, <3>1, <3>2 DEF Low, Width, Class, v
  <2>10. v * q \in Nat /\ v * (q + 1) = v * q + v
    BY <2>3, <2>5
  <2> QED BY <2>3, <2>5, <2>8, <2>9, <2>10
<1> QED BY <1>2, <1>3

(* The classes are in the order of their sizes, and have none in common.   *)
LEMMA ClassesOrdered ==
  ASSUME NEW i \in Class, NEW j \in Class
  PROVE  /\ Low(i) \in Nat /\ Width(i) \in Nat \ {0}
         /\ Before(i, j) => Low(i) + Width(i) <= Low(j)
         /\ i = j \/ Before(i, j) \/ Before(j, i)
<1>1. \A c \in Class : /\ c.fl \in Nat /\ c.sl \in 0 .. SL_INDEX_COUNT - 1
                       /\ c = [fl |-> c.fl, sl |-> c.sl]
  BY DEF Class, SlIndex
<1>2. \A c \in Class : c.fl # 0 => Pow2[c.fl - 1] \in Nat \ {0}
  BY <1>1, Pow2Grows
<1>3. \A c \in Class : Low(c) \in Nat /\ Width(c) \in Nat \ {0}
  BY <1>1, <1>2, PoolConstants DEF Low, Width
<1>4. ASSUME Before(i, j) PROVE Low(i) + Width(i) <= Low(j)
  <2>1. CASE i.fl = j.fl /\ i.fl = 0
    BY <1>4, <2>1, <1>1 DEF Before, Low, Width
  <2>2. CASE i.fl = j.fl /\ i.fl # 0
    <3> DEFINE v == Pow2[i.fl - 1]
               a == SL_INDEX_COUNT + i.sl
               b == SL_INDEX_COUNT + j.sl
    <3>1. v \in Nat \ {0} /\ a \in Nat /\ b \in Nat /\ a + 1 <= b
      BY <1>4, <2>2, <1>1, <1>2, PoolConstants DEF Before
    <3>2. Low(i) = v * a /\ Width(i) = v /\ Low(j) = v * b
      BY <2>2 DEF Low, Width
    <3> HIDE DEF v, a, b
    <3>3. v * (a + 1) <= v * b /\ v * (a + 1) = v * a + v
      BY <3>1, FactorCompares
    <3> QED BY <3>2, <3>3
  <2>3. CASE i.fl < j.fl
    <3> DEFINE v == Pow2[j.fl - 1]
               a == SL_INDEX_COUNT + j.sl
    <3>1. /\ j.fl # 0 /\ v \in Nat \ {0} /\ a \in Nat /\ SL_INDEX_COUNT <= a
          /\ Low(j) = v * a
      BY <2>3, <1>1, <1>2, PoolConstants DEF Low
    <3> HIDE DEF a
    <3>2. v * SL_INDEX_COUNT <= Low(j) /\ v * SL_INDEX_COUNT \in Nat
      BY <3>1, FactorCompares, PoolConstants
    <3>3. CASE i.fl = 0
      <4>1. Low(i) + Width(i) <= SL_INDEX_COUNT
        BY <3>3, <1>1, PoolConstants DEF Low, Width
      <4>2. SL_INDEX_COUNT <= v * SL_INDEX_COUNT
        BY <3>1, FactorCompares, PoolConstants
      <4> QED BY <4>1, <4>2, <3>2, <1>3, <3>1, PoolConstants
    <3>4. CASE i.fl # 0
      <4> DEFINE u == Pow2[i.fl - 1]
                 b == SL_INDEX_COUNT + i.sl
      <4>1. /\ u \in Nat \ {0} /\ b \in Nat /\ b + 1 <= 2 * SL_INDEX_COUNT
            /\ Low(i) = u * b /\ Width(i) = u
        BY <3>4, <1>1, <1>2, PoolConstants DEF Low, Width
      <4>2. 2 * u <= v
        <5>1. i.fl - 1 \in Nat /\ j.fl - 1 \in Nat /\ i.fl - 1 < j.fl - 1
          BY <2>3, <3>1, <3>4, <1>1
        <5> QED BY <5>1, Pow2Grows
      <4> HIDE DEF u, b, v
      <4>3. u * (b + 1) <= u * (2 * SL_INDEX_COUNT) /\ u * (b + 1) = u * b + u
        BY <4>1, FactorCompares, PoolConstants
      <4>4. /\ SL_INDEX_COUNT * (2 * u) <= SL_INDEX_COUNT * v
            /\ SL_INDEX_COUNT * (2 * u) = u * (2 * SL_INDEX_COUNT)
            /\ SL_INDEX_COUNT * v = v * SL_INDEX_COUNT
            /\ u * (2 * SL_INDEX_COUNT) \in Nat /\ u * b \in Nat
        BY <4>1, <4>2, <3>1, FactorCompares, PoolConstants
      <4> QED BY <4>1, <4>3, <4>4, <3>2, <3>1, <1>3
    <3> QED BY <3>3, <3>4
  <2> QED BY <1>4, <1>1, <2>1, <2>2, <2>3 DEF Before
<1>5. i = j \/ Before(i, j) \/ Before(j, i)
  BY <1>1 DEF Before
<1> QED BY <1>3, <1>4, <1>5

(* A size is in no class but that of mapping_insert, and in none before    *)
(* one whose smallest size it reaches.                                     *)
LEMMA ClassUnique ==
  ASSUME NEW w \in Sizeable, NEW i \in Class
  PROVE  /\ Low(i) <= w /\ w < Low(i) + Width(i) => MappingInsert(w) = i
         /\ Low(i) <= w => MappingInsert(w) = i \/ Before(i, MappingInsert(w))
<1> DEFINE j == MappingInsert(w)
<1>1. j \in Class /\ Low(j) <= w /\ w < Low(j) + Width(j) /\ w \in Nat
  BY ClassBounds DEF Sizeable
<1> HIDE DEF j
<1>2. /\ Low(i) \in Nat /\ Width(i) \in Nat /\ Low(j) \in Nat /\ Width(j) \in Nat
      /\ Before(i, j) => Low(i) + Width(i) <= Low(j)
      /\ Before(j, i) => Low(j) + Width(j) <= Low(i)
      /\ i = j \/ Before(i, j) \/ Before(j, i)
  BY <1>1, ClassesOrdered
<1>3. Low(i) <= w => ~Before(j, i)
  BY <1>1, <1>2
<1>4. w < Low(i) + Width(i) => ~Before(i, j)
  BY <1>1, <1>2
<1> QED BY <1>2, <1>3, <1>4 DEF j

(* A class has fewer sizes than its smallest one is large.                 *)
LEMMA WidthBounds ==
  ASSUME NEW w \in Sizeable
  PROVE  LET v == Width(MappingInsert(w))
         IN  v \in Nat \ {0} /\ v <= w /\ v - 1 <= w \div SL_INDEX_COUNT
<1> DEFINE i == MappingInsert(w)
           v == Width(i)
           q == w \div SL_INDEX_COUNT
<1>1. /\ w \in Nat \ {0} /\ i \in Class /\ v \in Nat \ {0}
      /\ Low(i) \in Nat /\ Low(i) <= w
  BY ClassBounds DEF Sizeable
<1>2. /\ q \in Nat /\ SL_INDEX_COUNT * q <= w /\ w < SL_INDEX_COUNT * (q + 1)
  <2>1. SL_INDEX_COUNT \in Nat \ {0}
    BY PoolConstants
  <2> HIDE DEF i, q
  <2> QED BY <1>1, <2>1, QuotientBounds DEF q
<1>3. CASE i.fl = 0
  <2>1. v = 1
    BY <1>3 DEF Width
  <2> HIDE DEF i, v, q
  <2> QED BY <1>1, <1>2, <2>1 DEF i, v, q
<1>4. CASE i.fl # 0
  <2> DEFINE a == SL_INDEX_COUNT + i.sl
  <2>1. /\ Low(i) = v * a /\ a \in Nat /\ SL_INDEX_COUNT <= a /\ 1 <= a
    BY <1>1, <1>4, PoolConstants DEF Low, Width, Class, SlIndex
  <2> HIDE DEF i, v, q, a
  <2>2. v * SL_INDEX_COUNT <= v * a /\ v * 1 <= v * a
    BY <1>1, <2>1, FactorCompares, PoolConstants
  <2>3. v <= w
    BY <1>1, <2>1, <2>2
  <2>4. SL_INDEX_COUNT * v < SL_INDEX_COUNT * (q + 1)
    <3>1. SL_INDEX_COUNT * v = v * SL_INDEX_COUNT /\ v * SL_INDEX_COUNT \in Nat
      BY <1>1, PoolConstants
    <3> QED BY <3>1, <1>1, <1>2, <2>1, <2>2, PoolConstants
  <2>5. v < q + 1
    <3>1. SL_INDEX_COUNT \in Nat \ {0} /\ q + 1 \in Nat /\ v \in Nat
      BY <1>1, <1>2, PoolConstants
    <3> QED BY <3>1, <2>4, FactorCompares
  <2> QED BY <1>1, <1>2, <2>3, <2>5 DEF i, v, q
<1> QED BY <1>3, <1>4

(* The sizes that allocations are made of.                                 *)
Demand == {w \in Nat \ {0} : w <= BLK_SIZE_MAX + 2}

(* Such a size has a class, and so has what mapping_search rounds it to.   *)
LEMMA DemandSizeable ==
  ASSUME NEW w \in Demand
  PROVE  w \in Sizeable /\ w + Width(MappingInsert(w)) - 1 \in Sizeable
<1>1. Pow2[FL_INDEX_MAX + 2] = 16 * BLK_SIZE_MAX /\ BLK_SIZE_MAX \in Nat /\ BLK_SIZE_MAX >= 2
  <2> DEFINE n == FL_INDEX_MAX - 2
  <2>1. n \in Nat /\ FL_INDEX_MAX + 2 = n + 1 + 1 + 1 + 1
    BY PoolConstants
  <2>2. /\ Pow2[n + 1] = 2 * Pow2[n] /\ Pow2[n + 1 + 1] = 2 * Pow2[n + 1]
        /\ Pow2[n + 1 + 1 + 1] = 2 * Pow2[n + 1 + 1]
        /\ Pow2[n + 1 + 1 + 1 + 1] = 2 * Pow2[n + 1 + 1 + 1]
    BY <2>1, Pow2Def
  <2>3. BLK_SIZE_MAX = Pow2[n] /\ BLK_SIZE_MAX \in Nat /\ BLK_SIZE_MAX >= 2
    BY PoolConstants
  <2> HIDE DEF n
  <2> QED BY <2>1, <2>2, <2>3
<1>2. w \in Sizeable
  BY <1>1 DEF Demand, Sizeable
<1>3. Width(MappingInsert(w)) \in Nat \ {0} /\ Width(MappingInsert(w)) <= w
  BY <1>2, WidthBounds
<1> QED BY <1>1, <1>2, <1>3 DEF Demand, Sizeable

(* mapping_search: every block of the class that it returns, and of those  *)
(* above, is large enough, and all classes are tried that have only blocks *)
(* which are.                                                              *)
LEMMA SearchBounds ==
  ASSUME NEW w \in Demand
  PROVE  LET i == MappingInsert(w)
             j == MappingSearch(w)
         IN  /\ j \in Class /\ w <= Low(j)
             /\ \A s \in Nat : w + Width(i) - 1 <= s => Low(j) <= s
             /\ w = Low(i) => j = i
<1> DEFINE i == MappingInsert(w)
           j == MappingSearch(w)
           r == w + Width(i) - 1
<1>1. w \in Sizeable /\ r \in Sizeable
  BY DemandSizeable
<1>2. /\ i \in Class /\ Low(i) \in Nat /\ Width(i) \in Nat \ {0}
      /\ Low(i) <= w /\ w < Low(i) + Width(i) /\ w \in Nat
  BY <1>1, ClassBounds DEF Sizeable
<1>3. j = MappingInsert(r)
  <2>1. CASE w < SMALL_BLOCK_SIZE
    <3>1. Width(i) = 1
      BY <2>1 DEF MappingInsert, Width
    <3>2. r = w
      BY <3>1, <1>2
    <3> QED BY <3>2, <2>1 DEF MappingSearch
  <2>2. CASE ~(w < SMALL_BLOCK_SIZE)
    <3> DEFINE n == Fls(w) - SL_INDEX_COUNT_LOG2
    <3>1. i.fl = n + 1
      BY <2>2 DEF MappingInsert
    <3>2. i.fl # 0
      <4>1. i.fl = 0 => Low(i) = i.sl /\ Width(i) = 1 /\ i.sl < SL_INDEX_COUNT
        BY <1>2, PoolConstants DEF Low, Width, Class, SlIndex
      <4>2. i.fl = 0 => w < SL_INDEX_COUNT
        BY <4>1, <1>2, PoolConstants DEF Class, SlIndex
      <4> QED BY <4>2, <2>2, PoolConstants
    <3>3. n = i.fl - 1 /\ n \in Int
      BY <3>1, <1>1, FlsProperties, PoolConstants
    <3>4. Width(i) = Pow2[n]
      BY <3>2, <3>3 DEF Width
    <3>5. j = MappingInsert(w + Pow2[n] - 1)
      BY <2>2 DEF MappingSearch
    <3> HIDE DEF i, j, n
    <3> QED BY <3>4, <3>5
  <2> QED BY <2>1, <2>2
<1> HIDE DEF i, j
<1>4. /\ j \in Class /\ Low(j) \in Nat /\ Low(j) <= r /\ r < Low(j) + Width(j)
  BY <1>1, <1>3, ClassBounds
<1>5. w = Low(i) => j = i
  BY <1>1, <1>2, <1>3, ClassUnique
<1>6. w <= Low(j)
  <2>1. CASE w = Low(i)
    BY <2>1, <1>2, <1>5
  <2>2. CASE w # Low(i)
    <3>1. ~(r < Low(i) + Width(i)) /\ Low(i) <= r
      BY <2>2, <1>2
    <3>2. Before(i, j)
      BY <3>1, <1>1, <1>2, <1>3, <1>4, ClassUnique
    <3>3. Low(i) + Width(i) <= Low(j)
      BY <3>2, <1>2, <1>4, ClassesOrdered
    <3> QED BY <3>3, <1>2, <1>4
  <2> QED BY <2>1, <2>2
<1>7. \A s \in Nat : r <= s => Low(j) <= s
  BY <1>1, <1>4 DEF Sizeable
<1> QED BY <1>4, <1>5, <1>6, <1>7 DEF i, j

(* The least bit that is set, and the last.                                *)
LEMMA MinProperties ==
  ASSUME NEW S \in SUBSET Nat, S # {}
  PROVE  Min(S) \in S /\ \A m \in S : Min(S) <= m
BY LeastElement DEF Min

(* The same for the greatest of finitely many.                             *)
LEMMA MaxProperties ==
  ASSUME NEW n \in Nat, NEW S \in SUBSET (0 .. n), S # {}
  PROVE  Max(S) \in S /\ \A m \in S : m <= Max(S)
<1> DEFINE T == {n - m : m \in S}
<1>1. T \in SUBSET Nat /\ T # {}
  <2>1. \A m \in S : n - m \in Nat
    <3>1. \A m \in S : m \in 0 .. n
      OBVIOUS
    <3>2. \A m \in 0 .. n : n - m \in Nat
      OBVIOUS
    <3> QED BY <3>1, <3>2
  <2>2. PICK m \in S : TRUE
    OBVIOUS
  <2>3. n - m \in T
    BY <2>2
  <2> QED BY <2>1, <2>3, Zenon
<1>2. PICK t \in T : \A u \in T : t <= u
  BY <1>1, LeastElement
<1>3. PICK m \in S : t = n - m
  BY <1>2
<1>4. \A k \in S : m >= k
  BY <1>2, <1>3
<1>5. \E x \in S : \A y \in S : x >= y
  BY <1>4
<1>6. Max(S) \in S /\ \A y \in S : Max(S) >= y
  BY <1>5 DEF Max
<1> QED BY <1>6

(* adjust_request_size is 0, or a size that an allocation can be made of.  *)
(* It does not change a size that is reported as available.                *)
LEMMA AdjustBounds ==
  ASSUME NEW bytes \in Nat \ {0}
  PROVE  /\ Adjust(bytes) = 0 \/ (Adjust(bytes) \in Demand /\ Adjust(bytes) >= BLK_SIZE_MIN)
         /\ \A w \in BLK_SIZE_MIN .. BLK_SIZE_MAX - 1 :
              bytes = w * ALIGN_SIZE => Adjust(bytes) = w
<1> DEFINE u == (bytes + ALIGN_SIZE - 1) \div ALIGN_SIZE
<1>1. ALIGN_SIZE = 4 /\ BLK_SIZE_MAX \in Nat /\ BLK_SIZE_MAX >= 2 /\ BLK_SIZE_MIN = 3
  BY PoolConstants DEF BLK_SIZE_MIN
<1>2. u \in Nat \ {0}
  BY <1>1
<1>3. \A w \in Nat : bytes = w * ALIGN_SIZE => u = w
  BY <1>1
<1> HIDE DEF u
<1>4. Max({u, BLK_SIZE_MIN}) = IF u < 3 THEN 3 ELSE u
  <2> DEFINE S == {u, 3}
  <2>1. S \in SUBSET (0 .. u + 3) /\ S # {}
    BY <1>2
  <2>2. Max(S) \in S /\ \A m \in S : m <= Max(S)
    BY <2>1, <1>2, MaxProperties
  <2> QED BY <2>2, <1>1, <1>2
<1>5. Adjust(bytes) = IF u < BLK_SIZE_MAX THEN IF u < 3 THEN 3 ELSE u ELSE 0
  BY <1>4 DEF Adjust, u
<1> QED BY <1>1, <1>2, <1>3, <1>5 DEF Demand
-----------------------------------------------------------------------------
(* The lists of free blocks.                                               *)

(* The headers, by the addresses of their blocks; and the types of the     *)
(* other components.                                                       *)
HeaderFcn == UNION {[A -> Header] : A \in SUBSET Nat}
Lists == [FlIndex -> [SlIndex -> Seq(Nat)]]

PoolType == [header : HeaderFcn, blocks : Lists,
             fl_bitmap : SUBSET FlIndex, sl_bitmap : [FlIndex -> SUBSET SlIndex]]

(* The classes that the arrays have lists for.                             *)
ListClass == [fl : FlIndex, sl : SlIndex]

(* The free blocks but those in X, which an operation is moving.           *)
FreeBut(h, X) == {b \in DOMAIN h : h[b].free /\ b \notin X}

(* They are in the lists of their classes, and the bits say which lists    *)
(* have blocks.                                                            *)
BlocksListed(p, X) ==
  \A i \in ListClass :
    /\ IsInjective(p.blocks[i.fl][i.sl])
    /\ \A b \in Nat : Linked(p.blocks[i.fl][i.sl], b) <=>
         b \in FreeBut(p.header, X) /\ MappingInsert(p.header[b].size) = i

(* The bits of both levels say which lists have blocks.                    *)
BitsAgree(p) ==
  /\ \A i \in ListClass : i.sl \in p.sl_bitmap[i.fl] <=> p.blocks[i.fl][i.sl] # << >>
  /\ \A fl \in FlIndex : fl \in p.fl_bitmap <=> p.sl_bitmap[fl] # {}

(* The set of all heaps, written with the domain of one.                   *)
LEMMA HeaderFcnProperties ==
  ASSUME NEW h
  PROVE  h \in HeaderFcn <=> DOMAIN h \subseteq Nat /\ h \in [DOMAIN h -> Header]
<1>1. ASSUME h \in HeaderFcn
      PROVE  DOMAIN h \subseteq Nat /\ h \in [DOMAIN h -> Header]
  <2>1. PICK A \in SUBSET Nat : h \in [A -> Header]
    BY <1>1 DEF HeaderFcn
  <2> QED BY <2>1
<1>2. ASSUME DOMAIN h \subseteq Nat, h \in [DOMAIN h -> Header]
      PROVE  h \in HeaderFcn
  BY <1>2 DEF HeaderFcn
<1> QED BY <1>1, <1>2

(* A change of the list of one class and of its bits.                      *)
Relisted(p, i, list, map, fls) ==
  [p EXCEPT !.blocks[i.fl][i.sl] = list, !.sl_bitmap[i.fl] = map, !.fl_bitmap = fls]

(* What it leaves.                                                         *)
RelistedTo(p, q, i, list, map, fls) ==
  /\ q \in PoolType /\ q.header = p.header
  /\ \A j \in ListClass : q.blocks[j.fl][j.sl] =
       IF j = i THEN list ELSE p.blocks[j.fl][j.sl]
  /\ \A fl \in FlIndex : q.sl_bitmap[fl] =
       IF fl = i.fl THEN map ELSE p.sl_bitmap[fl]
  /\ q.fl_bitmap = fls

(* What such a change leaves is read off component by component.           *)
LEMMA RelistedProperties ==
  ASSUME NEW p \in PoolType, NEW i \in ListClass, NEW list \in Seq(Nat),
         NEW map \in SUBSET SlIndex, NEW fls \in SUBSET FlIndex,
         NEW q, q = Relisted(p, i, list, map, fls)
  PROVE  RelistedTo(p, q, i, list, map, fls)
<1> DEFINE bl == [p.blocks EXCEPT ![i.fl] = [@ EXCEPT ![i.sl] = list]]
           sm == [p.sl_bitmap EXCEPT ![i.fl] = map]
<1>1. i.fl \in FlIndex /\ i.sl \in SlIndex
  BY DEF ListClass
<1>2. /\ p.blocks \in Lists /\ p.sl_bitmap \in [FlIndex -> SUBSET SlIndex]
      /\ p.header \in HeaderFcn
  BY DEF PoolType
<1>3. q = [header |-> p.header, blocks |-> bl, fl_bitmap |-> fls, sl_bitmap |-> sm]
  <2>1. p = [header |-> p.header, blocks |-> p.blocks,
             fl_bitmap |-> p.fl_bitmap, sl_bitmap |-> p.sl_bitmap]
    BY DEF PoolType
  <2>2. [p EXCEPT !.blocks[i.fl][i.sl] = list]
          = [header |-> p.header, blocks |-> bl,
             fl_bitmap |-> p.fl_bitmap, sl_bitmap |-> p.sl_bitmap]
    BY <2>1
  <2> HIDE DEF bl
  <2>3. q = [[[p EXCEPT !.blocks[i.fl][i.sl] = list] EXCEPT !.sl_bitmap[i.fl] = map]
               EXCEPT !.fl_bitmap = fls]
    BY DEF Relisted
  <2> QED BY <2>2, <2>3
<1>4. bl \in Lists
  BY <1>1, <1>2 DEF Lists
<1>5. sm \in [FlIndex -> SUBSET SlIndex]
  BY <1>1, <1>2
<1>6. q \in PoolType
  BY <1>2, <1>3, <1>4, <1>5 DEF PoolType
<1>7. \A j \in ListClass : bl[j.fl][j.sl] = IF j = i THEN list ELSE p.blocks[j.fl][j.sl]
  <2> TAKE j \in ListClass
  <2>1. /\ j.fl \in FlIndex /\ j.sl \in SlIndex
        /\ j = i <=> j.fl = i.fl /\ j.sl = i.sl
    BY DEF ListClass
  <2> QED BY <1>1, <1>2, <2>1 DEF Lists
<1>8. \A fl \in FlIndex : sm[fl] = IF fl = i.fl THEN map ELSE p.sl_bitmap[fl]
  BY <1>1, <1>2
<1> QED BY <1>3, <1>6, <1>7, <1>8 DEF RelistedTo

(* remove_free_block leaves every other block listed, and the bits true.   *)
LEMMA RemovedListed ==
  ASSUME NEW p \in PoolType, NEW X, BlocksListed(p, X), BitsAgree(p),
         NEW b \in Nat, NEW i \in ListClass,
         b \in FreeBut(p.header, X) => MappingInsert(p.header[b].size) = i
  PROVE  LET q == RemoveFreeBlock(p, b, i)
         IN  /\ q \in PoolType /\ q.header = p.header
             /\ BlocksListed(q, X \cup {b}) /\ BitsAgree(q)
<1> DEFINE q == RemoveFreeBlock(p, b, i)
           old == p.blocks[i.fl][i.sl]
           list == Unlink(old, b)
           map == IF list = << >> THEN p.sl_bitmap[i.fl] \ {i.sl} ELSE p.sl_bitmap[i.fl]
           fls == IF map = {} THEN p.fl_bitmap \ {i.fl} ELSE p.fl_bitmap
<1>1. i.fl \in FlIndex /\ i.sl \in SlIndex
  BY DEF ListClass
<1>2. /\ p.blocks \in Lists /\ p.sl_bitmap \in [FlIndex -> SUBSET SlIndex]
      /\ p.header \in HeaderFcn /\ p.fl_bitmap \in SUBSET FlIndex
  BY DEF PoolType
<1>3. old \in Seq(Nat) /\ IsInjective(old)
  BY <1>1, <1>2 DEF Lists, BlocksListed
<1>4. /\ list \in Seq(Nat) /\ IsInjective(list)
      /\ \A a \in Nat : Linked(list, a) <=> Linked(old, a) /\ a # b
  <2> HIDE DEF old
  <2> QED BY <1>3, UnlinkProperties
<1>5. map \in SUBSET SlIndex /\ fls \in SUBSET FlIndex
  BY <1>1, <1>2
<1>6. q = Relisted(p, i, list, map, fls)
  BY DEF RemoveFreeBlock, Relisted, PoolType
<1>7. /\ q \in PoolType /\ q.header = p.header
      /\ \A j \in ListClass : q.blocks[j.fl][j.sl] =
           IF j = i THEN list ELSE p.blocks[j.fl][j.sl]
      /\ \A fl \in FlIndex : q.sl_bitmap[fl] =
           IF fl = i.fl THEN map ELSE p.sl_bitmap[fl]
      /\ q.fl_bitmap = fls
  <2> HIDE DEF q, list, map, fls
  <2>1. list \in Seq(Nat)
    BY <1>4
  <2>2. RelistedTo(p, q, i, list, map, fls)
    BY <2>1, <1>5, <1>6, RelistedProperties
  <2> QED BY <2>2 DEF RelistedTo
<1> HIDE DEF q, list
<1>8. BlocksListed(q, X \cup {b})
  <2> SUFFICES ASSUME NEW j \in ListClass
               PROVE  /\ IsInjective(q.blocks[j.fl][j.sl])
                      /\ \A a \in Nat : Linked(q.blocks[j.fl][j.sl], a) <=>
                           /\ a \in FreeBut(q.header, X \cup {b})
                           /\ MappingInsert(q.header[a].size) = j
    BY DEF BlocksListed
  <2>1. /\ IsInjective(p.blocks[j.fl][j.sl])
        /\ \A a \in Nat : Linked(p.blocks[j.fl][j.sl], a) <=>
             a \in FreeBut(p.header, X) /\ MappingInsert(p.header[a].size) = j
    BY DEF BlocksListed
  <2>2. \A a : a \in FreeBut(q.header, X \cup {b}) <=> a \in FreeBut(p.header, X) /\ a # b
    BY <1>7 DEF FreeBut
  <2>3. CASE j = i
    BY <2>1, <2>2, <2>3, <1>4, <1>7
  <2>4. CASE j # i
    BY <2>1, <2>2, <2>4, <1>7
  <2> QED BY <2>3, <2>4
<1>9. BitsAgree(q)
  <2>1. ASSUME NEW j \in ListClass
        PROVE  j.sl \in q.sl_bitmap[j.fl] <=> q.blocks[j.fl][j.sl] # << >>
    <3>1. /\ j.fl \in FlIndex /\ j.sl \in SlIndex
          /\ j = i <=> j.fl = i.fl /\ j.sl = i.sl
      BY DEF ListClass
    <3>2. j.sl \in p.sl_bitmap[j.fl] <=> p.blocks[j.fl][j.sl] # << >>
      BY DEF BitsAgree
    <3>3. CASE j = i
      <4>1. list # << >> => old # << >>
        BY <1>3, <1>4, EmptyQueue
      <4> QED BY <3>1, <3>2, <3>3, <4>1, <1>7
    <3>4. CASE j # i
      BY <3>1, <3>2, <3>4, <1>7
    <3> QED BY <3>3, <3>4
  <2>2. ASSUME NEW fl \in FlIndex
        PROVE  fl \in q.fl_bitmap <=> q.sl_bitmap[fl] # {}
    <3>1. fl \in p.fl_bitmap <=> p.sl_bitmap[fl] # {}
      BY DEF BitsAgree
    <3> QED BY <3>1, <1>7
  <2> QED BY <2>1, <2>2 DEF BitsAgree
<1> QED BY <1>7, <1>8, <1>9 DEF q

(* A node in front of a list.                                              *)
LEMMA PushLinks ==
  ASSUME NEW Node, NEW s \in Seq(Node), NEW x \in Node
  PROVE  /\ << x >> \o s \in Seq(Node) /\ << x >> \o s # << >>
         /\ \A j \in Node : Linked(<< x >> \o s, j) <=> Linked(s, j) \/ j = x
         /\ IsInjective(s) /\ ~Linked(s, x) => IsInjective(<< x >> \o s)
<1> DEFINE t == << x >> \o s
<1>1. /\ t \in Seq(Node) /\ Len(t) = Len(s) + 1 /\ Len(s) \in Nat
      /\ \A k \in 1 .. Len(t) : t[k] = IF k = 1 THEN x ELSE s[k - 1]
      /\ DOMAIN t = 1 .. Len(t) /\ DOMAIN s = 1 .. Len(s)
  OBVIOUS
<1> HIDE DEF t
<1>2. \A k \in 1 .. Len(s) : t[k + 1] = s[k] /\ k + 1 \in 1 .. Len(t)
  BY <1>1
<1>3. t # << >>
  BY <1>1
<1>4. ASSUME NEW j \in Node PROVE Linked(t, j) <=> Linked(s, j) \/ j = x
  <2>1. ASSUME Linked(t, j) PROVE Linked(s, j) \/ j = x
    <3>1. PICK k \in 1 .. Len(t) : t[k] = j
      BY <2>1 DEF Linked
    <3>2. k = 1 \/ k - 1 \in 1 .. Len(s)
      BY <1>1
    <3> QED BY <3>1, <3>2, <1>1 DEF Linked
  <2>2. ASSUME Linked(s, j) PROVE Linked(t, j)
    BY <2>2, <1>2 DEF Linked
  <2>3. ASSUME j = x PROVE Linked(t, j)
    <3>1. 1 \in 1 .. Len(t) /\ t[1] = x
      BY <1>1
    <3> QED BY <2>3, <3>1 DEF Linked
  <2> QED BY <2>1, <2>2, <2>3
<1>5. ASSUME IsInjective(s), ~Linked(s, x) PROVE IsInjective(t)
  <2>1. \A j, k \in 1 .. Len(s) : s[j] = s[k] => j = k
    BY <1>1, <1>5 DEF IsInjective
  <2>2. \A k \in 1 .. Len(s) : s[k] # x
    BY <1>5 DEF Linked
  <2>3. ASSUME NEW j \in 1 .. Len(t), NEW k \in 1 .. Len(t), t[j] = t[k] PROVE j = k
    <3>1. j # 1 => j - 1 \in 1 .. Len(s)
      BY <1>1
    <3>2. k # 1 => k - 1 \in 1 .. Len(s)
      BY <1>1
    <3>3. j # 1 /\ k # 1 => j - 1 = k - 1
      BY <3>1, <3>2, <2>1, <2>3, <1>1
    <3> QED BY <3>1, <3>2, <3>3, <2>2, <2>3, <1>1
  <2> QED BY <2>3, <1>1 DEF IsInjective
<1> QED BY <1>1, <1>3, <1>4, <1>5 DEF t

(* insert_free_block of a free block that is in no list.                   *)
LEMMA InsertedListed ==
  ASSUME NEW p \in PoolType, NEW X, BlocksListed(p, X), BitsAgree(p),
         NEW b \in X, b \in DOMAIN p.header, p.header[b].free, NEW i \in ListClass,
         MappingInsert(p.header[b].size) = i
  PROVE  LET q == InsertFreeBlock(p, b, i)
         IN  /\ q \in PoolType /\ q.header = p.header
             /\ BlocksListed(q, X \ {b}) /\ BitsAgree(q)
<1> DEFINE q == InsertFreeBlock(p, b, i)
           old == p.blocks[i.fl][i.sl]
           list == << b >> \o old
           map == p.sl_bitmap[i.fl] \cup {i.sl}
           fls == p.fl_bitmap \cup {i.fl}
<1>1. i.fl \in FlIndex /\ i.sl \in SlIndex
  BY DEF ListClass
<1>2. /\ p.blocks \in Lists /\ p.sl_bitmap \in [FlIndex -> SUBSET SlIndex]
      /\ p.header \in HeaderFcn /\ p.fl_bitmap \in SUBSET FlIndex
  BY DEF PoolType
<1>3. old \in Seq(Nat) /\ IsInjective(old)
  BY <1>1, <1>2 DEF Lists, BlocksListed
<1>4. b \in Nat /\ ~Linked(old, b)
  BY <1>2, HeaderFcnProperties DEF BlocksListed, FreeBut
<1>5. /\ list \in Seq(Nat) /\ IsInjective(list) /\ list # << >>
      /\ \A a \in Nat : Linked(list, a) <=> Linked(old, a) \/ a = b
  <2> HIDE DEF old
  <2> QED BY <1>3, <1>4, PushLinks
<1>6. map \in SUBSET SlIndex /\ fls \in SUBSET FlIndex
  BY <1>1, <1>2
<1>7. q = Relisted(p, i, list, map, fls)
  BY DEF InsertFreeBlock, Relisted, PoolType
<1>8. /\ q \in PoolType /\ q.header = p.header
      /\ \A j \in ListClass : q.blocks[j.fl][j.sl] =
           IF j = i THEN list ELSE p.blocks[j.fl][j.sl]
      /\ \A fl \in FlIndex : q.sl_bitmap[fl] =
           IF fl = i.fl THEN map ELSE p.sl_bitmap[fl]
      /\ q.fl_bitmap = fls
  <2> HIDE DEF q, list, map, fls
  <2>1. list \in Seq(Nat)
    BY <1>5
  <2>2. RelistedTo(p, q, i, list, map, fls)
    BY <2>1, <1>6, <1>7, RelistedProperties
  <2> QED BY <2>2 DEF RelistedTo
<1> HIDE DEF q, list
<1>9. BlocksListed(q, X \ {b})
  <2> SUFFICES ASSUME NEW j \in ListClass
               PROVE  /\ IsInjective(q.blocks[j.fl][j.sl])
                      /\ \A a \in Nat : Linked(q.blocks[j.fl][j.sl], a) <=>
                           /\ a \in FreeBut(q.header, X \ {b})
                           /\ MappingInsert(q.header[a].size) = j
    BY DEF BlocksListed
  <2>1. /\ IsInjective(p.blocks[j.fl][j.sl])
        /\ \A a \in Nat : Linked(p.blocks[j.fl][j.sl], a) <=>
             a \in FreeBut(p.header, X) /\ MappingInsert(p.header[a].size) = j
    BY DEF BlocksListed
  <2>2. \A a : a \in FreeBut(q.header, X \ {b}) <=> a \in FreeBut(p.header, X) \/ a = b
    BY <1>8 DEF FreeBut
  <2>3. CASE j = i
    BY <2>1, <2>2, <2>3, <1>5, <1>8, ZenonT(30)
  <2>4. CASE j # i
    BY <2>1, <2>2, <2>4, <1>8, ZenonT(30)
  <2> QED BY <2>3, <2>4
<1>10. BitsAgree(q)
  <2>1. ASSUME NEW j \in ListClass
        PROVE  j.sl \in q.sl_bitmap[j.fl] <=> q.blocks[j.fl][j.sl] # << >>
    <3>1. /\ j.fl \in FlIndex /\ j.sl \in SlIndex
          /\ j = i <=> j.fl = i.fl /\ j.sl = i.sl
      BY DEF ListClass
    <3>2. j.sl \in p.sl_bitmap[j.fl] <=> p.blocks[j.fl][j.sl] # << >>
      BY DEF BitsAgree
    <3>3. CASE j = i
      BY <3>1, <3>3, <1>5, <1>8
    <3>4. CASE j # i
      BY <3>1, <3>2, <3>4, <1>8
    <3> QED BY <3>3, <3>4
  <2>2. ASSUME NEW fl \in FlIndex
        PROVE  fl \in q.fl_bitmap <=> q.sl_bitmap[fl] # {}
    <3>1. fl \in p.fl_bitmap <=> p.sl_bitmap[fl] # {}
      BY DEF BitsAgree
    <3> QED BY <3>1, <1>8
  <2> QED BY <2>1, <2>2 DEF BitsAgree
<1> QED BY <1>8, <1>9, <1>10 DEF q
-----------------------------------------------------------------------------
(* The heap: how the headers of the blocks fit together.                   *)

(* block_next.                                                             *)
NextOf(h, b) == b + h[b].size + 1

(* The words that a chunk has but for the headers of its two blocks.       *)
WordsLeft(c) == c.bytes \div 4 - 2

(* The headers of a block and of the next one are in one chunk.            *)
Within(c, h, b) ==
  b + 1 \in ChunkWords(c) /\ (h[b].size > 0 => NextOf(h, b) + 1 \in ChunkWords(c))

(* Blocks follow one another without a gap, up to one of size 0.           *)
Shape(h, A) ==
  \A b \in DOMAIN h :
    /\ h[b].size = 0 \/ h[b].size >= BLK_SIZE_MIN
    /\ h[b].size > 0 => NextOf(h, b) \in DOMAIN h
    /\ h[b].size > 0 => \A a \in DOMAIN h : a <= b \/ NextOf(h, b) <= a
    /\ \E c \in A : Within(c, h, b)

(* What a block says of the one before it is true.                         *)
Flags(h) ==
  \A b \in DOMAIN h :
    /\ h[b].free => h[b].size > 0
    /\ h[b].size > 0 => (h[NextOf(h, b)].prev_free <=> h[b].free)
    /\ h[b].free => h[NextOf(h, b)].prev_phys = b
    /\ h[b].prev_free => /\ h[b].prev_phys \in DOMAIN h
                         /\ h[h[b].prev_phys].free
                         /\ NextOf(h, h[b].prev_phys) = b

(* Two blocks that follow one another are not both free, but for those in X. *)
NoTwoFree(h, X) ==
  \A b \in DOMAIN h :
    h[b].free /\ h[NextOf(h, b)].free => b \in X \/ NextOf(h, b) \in X

(* The blocks that are given out.                                          *)
Used(h) == {b \in DOMAIN h : h[b].size > 0 /\ ~h[b].free}

(* The memory that is in the heap: chunks whose size is below the last one. *)
InHeap(A) == A \subseteq Chunk /\ \A c \in A : WordsLeft(c) < BLK_SIZE_MAX

(* What a chunk is made of.                                                *)
LEMMA ChunkProperties ==
  ASSUME NEW c \in Chunk
  PROVE  /\ c.base \in Nat \ {0} /\ c.bytes \in Nat /\ WordsLeft(c) \in Int
         /\ WordsLeft(c) = c.bytes \div ALIGN_SIZE - POOL_OVERHEAD
         /\ ChunkWords(c) = c.base .. c.base + WordsLeft(c) + 1
<1>1. c.base \in Nat \ {0} /\ c.bytes \in Nat
  BY MemPoolAssumption
<1>2. ALIGN_SIZE = 4 /\ POOL_OVERHEAD = 2
  BY PoolConstants DEF POOL_OVERHEAD, BLK_HEADER_OVERHEAD
<1>3. c.bytes \div 4 \in Int
  BY <1>1
<1> QED BY <1>1, <1>2, <1>3, SMTT(30) DEF WordsLeft, ChunkWords

(* The types of the fields of one header.                                  *)
LEMMA HeaderFields ==
  ASSUME NEW h \in HeaderFcn, NEW b \in DOMAIN h
  PROVE  /\ b \in Nat /\ h[b] \in Header /\ h[b].size \in Nat /\ h[b].free \in BOOLEAN
         /\ h[b].prev_free \in BOOLEAN /\ h[b].prev_phys \in Nat \cup {NULL}
         /\ NextOf(h, b) \in Nat
<1>1. b \in Nat /\ h[b] \in Header
  BY HeaderFcnProperties
<1>2. h[b].size \in Nat
  BY <1>1 DEF Header
<1> QED BY <1>1, <1>2 DEF Header, NextOf

(* No two blocks end at the same place.                                    *)
LEMMA NextInjective ==
  ASSUME NEW h \in HeaderFcn, NEW A, Shape(h, A),
         NEW a \in DOMAIN h, NEW b \in DOMAIN h, h[a].size > 0, h[b].size > 0,
         NextOf(h, a) = NextOf(h, b)
  PROVE  a = b
<1>1. a \in Nat /\ b \in Nat /\ h[a].size \in Nat /\ h[b].size \in Nat
  BY HeaderFields
<1>2. (a <= b \/ NextOf(h, b) <= a) /\ (b <= a \/ NextOf(h, a) <= b)
  BY DEF Shape
<1> QED BY <1>1, <1>2 DEF NextOf

(* A size below the largest one has a list.                                *)
LEMMA ListedSize ==
  ASSUME NEW w \in Nat \ {0}, w < BLK_SIZE_MAX
  PROVE  w \in Sizeable /\ MappingInsert(w) \in ListClass
<1>1. w \in Sizeable
  BY DemandSizeable, PoolConstants DEF Demand
<1>2. MappingInsert(w) \in Class /\ MappingInsert(w).fl \in FlIndex
  BY <1>1, ClassBounds
<1> QED BY <1>1, <1>2 DEF Class, ListClass

(* A block is smaller than the chunk that it is in.                        *)
LEMMA SizeBound ==
  ASSUME NEW h \in HeaderFcn, NEW A, InHeap(A), Shape(h, A),
         NEW b \in DOMAIN h, h[b].size > 0
  PROVE  h[b].size < BLK_SIZE_MAX /\ MappingInsert(h[b].size) \in ListClass
<1>1. PICK c \in A : Within(c, h, b)
  BY DEF Shape
<1>2. c \in Chunk /\ WordsLeft(c) < BLK_SIZE_MAX
  BY DEF InHeap
<1>3. b \in Nat /\ h[b].size \in Nat
  BY HeaderFields
<1>4. h[b].size <= WordsLeft(c)
  BY <1>1, <1>2, <1>3, ChunkProperties, SMTT(30) DEF Within, NextOf
<1>5. h[b].size < BLK_SIZE_MAX
  BY <1>2, <1>3, <1>4, ChunkProperties, PoolConstants
<1> QED BY <1>3, <1>5, ListedSize

(* Two heaps whose blocks lie in the same places.                          *)
SameBlocks(h, g) ==
  DOMAIN g = DOMAIN h /\ \A a \in DOMAIN h : g[a].size = h[a].size

(* The shape of the heap is a matter of its sizes alone.                   *)
LEMMA SameShape ==
  ASSUME NEW h, NEW g, SameBlocks(h, g), NEW A, Shape(h, A)
  PROVE  Shape(g, A) /\ \A b \in DOMAIN h : NextOf(g, b) = NextOf(h, b)
<1>1. \A b \in DOMAIN h : NextOf(g, b) = NextOf(h, b)
  BY DEF SameBlocks, NextOf
<1>2. \A c : \A b \in DOMAIN h : Within(c, g, b) <=> Within(c, h, b)
  BY <1>1 DEF SameBlocks, Within
<1>3. ASSUME NEW b \in DOMAIN g
      PROVE  /\ g[b].size = 0 \/ g[b].size >= BLK_SIZE_MIN
             /\ g[b].size > 0 => NextOf(g, b) \in DOMAIN g
             /\ g[b].size > 0 => \A a \in DOMAIN g : a <= b \/ NextOf(g, b) <= a
             /\ \E c \in A : Within(c, g, b)
  <2>1. b \in DOMAIN h /\ DOMAIN g = DOMAIN h /\ g[b].size = h[b].size
    BY DEF SameBlocks
  <2> QED BY <2>1, <1>1, <1>2 DEF Shape
<1> QED BY <1>1, <1>3 DEF Shape

(* A used block becomes free.                                              *)
MarkedFree(h, g, b) ==
  /\ SameBlocks(h, g)
  /\ \A a \in DOMAIN h :
       /\ g[a].free <=> h[a].free \/ a = b
       /\ g[a].prev_free <=> h[a].prev_free \/ a = NextOf(h, b)
       /\ g[a].prev_phys = IF a = NextOf(h, b) THEN b ELSE h[a].prev_phys

(* A block that becomes free may have free neighbours, which no two other  *)
(* blocks can be.                                                          *)
LEMMA HeapMarkFree ==
  ASSUME NEW h \in HeaderFcn, NEW g, NEW A, Shape(h, A), Flags(h), NoTwoFree(h, {}),
         NEW b \in Used(h), MarkedFree(h, g, b)
  PROVE  Shape(g, A) /\ Flags(g) /\ NoTwoFree(g, {b}) /\ Used(g) = Used(h) \ {b}
<1>1. /\ SameBlocks(h, g) /\ DOMAIN g = DOMAIN h
      /\ \A a \in DOMAIN h : g[a].size = h[a].size
  BY DEF MarkedFree, SameBlocks
<1>2. Shape(g, A) /\ \A a \in DOMAIN h : NextOf(g, a) = NextOf(h, a)
  BY <1>1, SameShape
<1>3. /\ b \in DOMAIN h /\ h[b].size > 0 /\ ~h[b].free /\ NextOf(h, b) \in DOMAIN h
  BY DEF Used, Shape
<1>4. \A a \in DOMAIN h : /\ g[a].free <=> h[a].free \/ a = b
                          /\ g[a].prev_free <=> h[a].prev_free \/ a = NextOf(h, b)
                          /\ g[a].prev_phys = IF a = NextOf(h, b) THEN b ELSE h[a].prev_phys
  BY DEF MarkedFree
<1>5. Flags(g)
  <2> SUFFICES ASSUME NEW a \in DOMAIN h
               PROVE  /\ g[a].free => g[a].size > 0
                      /\ g[a].size > 0 => (g[NextOf(g, a)].prev_free <=> g[a].free)
                      /\ g[a].free => g[NextOf(g, a)].prev_phys = a
                      /\ g[a].prev_free => /\ g[a].prev_phys \in DOMAIN g
                                           /\ g[g[a].prev_phys].free
                                           /\ NextOf(g, g[a].prev_phys) = a
    BY <1>1 DEF Flags
  <2>1. /\ h[a].free => h[a].size > 0
        /\ h[a].size > 0 => (h[NextOf(h, a)].prev_free <=> h[a].free)
        /\ h[a].free => h[NextOf(h, a)].prev_phys = a
        /\ h[a].prev_free => /\ h[a].prev_phys \in DOMAIN h
                             /\ h[h[a].prev_phys].free
                             /\ NextOf(h, h[a].prev_phys) = a
    BY DEF Flags
  <2>2. h[a].size > 0 => NextOf(h, a) \in DOMAIN h
    BY DEF Shape
  <2>3. h[a].size > 0 /\ NextOf(h, a) = NextOf(h, b) => a = b
    BY <1>3, NextInjective
  <2>4. g[a].free => g[a].size > 0
    BY <2>1, <1>1, <1>3, <1>4
  <2>5. g[a].size > 0 => (g[NextOf(g, a)].prev_free <=> g[a].free)
    BY <2>1, <2>2, <2>3, <1>1, <1>2, <1>4
  <2>6. g[a].free => g[NextOf(g, a)].prev_phys = a
    <3>1. CASE a = b
      BY <3>1, <1>2, <1>3, <1>4
    <3>2. CASE a # b /\ h[a].free
      BY <3>2, <2>1, <2>2, <2>3, <1>2, <1>4
    <3> QED BY <3>1, <3>2, <1>4
  <2>7. g[a].prev_free => /\ g[a].prev_phys \in DOMAIN g
                          /\ g[g[a].prev_phys].free
                          /\ NextOf(g, g[a].prev_phys) = a
    <3>1. CASE a = NextOf(h, b)
      BY <3>1, <1>1, <1>2, <1>3, <1>4
    <3>2. CASE a # NextOf(h, b) /\ h[a].prev_free
      BY <3>2, <2>1, <1>1, <1>2, <1>4
    <3> QED BY <3>1, <3>2, <1>4
  <2> QED BY <2>4, <2>5, <2>6, <2>7
<1>6. NoTwoFree(g, {b})
  <2> SUFFICES ASSUME NEW a \in DOMAIN h, g[a].free, g[NextOf(g, a)].free,
                      a # b, NextOf(g, a) # b
               PROVE  FALSE
    BY <1>1 DEF NoTwoFree
  <2>1. h[a].free /\ NextOf(g, a) = NextOf(h, a)
    BY <1>2, <1>4
  <2>2. NextOf(h, a) \in DOMAIN h
    BY <2>1 DEF Flags, Shape
  <2>3. h[NextOf(h, a)].free
    BY <2>1, <2>2, <1>4
  <2> QED BY <2>1, <2>3 DEF NoTwoFree
<1>7. Used(g) = Used(h) \ {b}
  BY <1>1, <1>4 DEF Used
<1> QED BY <1>2, <1>5, <1>6, <1>7

(* A free block becomes used.                                              *)
MarkedUsed(h, g, b) ==
  /\ SameBlocks(h, g)
  /\ \A a \in DOMAIN h :
       /\ g[a].free <=> h[a].free /\ a # b
       /\ g[a].prev_free <=> h[a].prev_free /\ a # NextOf(h, b)
       /\ g[a].prev_phys = IF a = NextOf(h, b) THEN NULL ELSE h[a].prev_phys

(* A block that becomes used has the flags and the link of the next one    *)
(* cleared with it.                                                        *)
LEMMA HeapMarkUsed ==
  ASSUME NEW h \in HeaderFcn, NEW g, NEW A, Shape(h, A), Flags(h),
         NEW b \in DOMAIN h, h[b].free, NoTwoFree(h, {b}), MarkedUsed(h, g, b)
  PROVE  Shape(g, A) /\ Flags(g) /\ NoTwoFree(g, {}) /\ Used(g) = Used(h) \cup {b}
<1>1. /\ SameBlocks(h, g) /\ DOMAIN g = DOMAIN h
      /\ \A a \in DOMAIN h : g[a].size = h[a].size
  BY DEF MarkedUsed, SameBlocks
<1>2. Shape(g, A) /\ \A a \in DOMAIN h : NextOf(g, a) = NextOf(h, a)
  BY <1>1, SameShape
<1>3. h[b].size > 0 /\ NextOf(h, b) \in DOMAIN h
  BY DEF Flags, Shape
<1>4. \A a \in DOMAIN h : /\ g[a].free <=> h[a].free /\ a # b
                          /\ g[a].prev_free <=> h[a].prev_free /\ a # NextOf(h, b)
                          /\ g[a].prev_phys = IF a = NextOf(h, b) THEN NULL ELSE h[a].prev_phys
  BY DEF MarkedUsed
<1>5. Flags(g)
  <2> SUFFICES ASSUME NEW a \in DOMAIN h
               PROVE  /\ g[a].free => g[a].size > 0
                      /\ g[a].size > 0 => (g[NextOf(g, a)].prev_free <=> g[a].free)
                      /\ g[a].free => g[NextOf(g, a)].prev_phys = a
                      /\ g[a].prev_free => /\ g[a].prev_phys \in DOMAIN g
                                           /\ g[g[a].prev_phys].free
                                           /\ NextOf(g, g[a].prev_phys) = a
    BY <1>1 DEF Flags
  <2>1. /\ h[a].free => h[a].size > 0
        /\ h[a].size > 0 => (h[NextOf(h, a)].prev_free <=> h[a].free)
        /\ h[a].free => h[NextOf(h, a)].prev_phys = a
        /\ h[a].prev_free => /\ h[a].prev_phys \in DOMAIN h
                             /\ h[h[a].prev_phys].free
                             /\ NextOf(h, h[a].prev_phys) = a
    BY DEF Flags
  <2>2. h[a].size > 0 => NextOf(h, a) \in DOMAIN h
    BY DEF Shape
  <2>3. h[a].size > 0 /\ NextOf(h, a) = NextOf(h, b) => a = b
    BY <1>3, NextInjective
  <2>4. g[a].free => g[a].size > 0
    BY <2>1, <1>1, <1>4
  <2>5. g[a].size > 0 => (g[NextOf(g, a)].prev_free <=> g[a].free)
    BY <2>1, <2>2, <2>3, <1>1, <1>2, <1>4
  <2>6. g[a].free => g[NextOf(g, a)].prev_phys = a
    BY <2>1, <2>2, <2>3, <1>2, <1>4
  <2>7. g[a].prev_free => /\ g[a].prev_phys \in DOMAIN g
                          /\ g[g[a].prev_phys].free
                          /\ NextOf(g, g[a].prev_phys) = a
    <3> SUFFICES ASSUME h[a].prev_free, a # NextOf(h, b)
                 PROVE  /\ g[a].prev_phys \in DOMAIN g
                        /\ g[g[a].prev_phys].free
                        /\ NextOf(g, g[a].prev_phys) = a
      BY <1>4
    <3>1. g[a].prev_phys = h[a].prev_phys /\ h[a].prev_phys # b
      BY <2>1, <1>4
    <3> QED BY <3>1, <2>1, <1>1, <1>2, <1>4
  <2> QED BY <2>4, <2>5, <2>6, <2>7
<1>6. NoTwoFree(g, {})
  <2> SUFFICES ASSUME NEW a \in DOMAIN h, g[a].free, g[NextOf(g, a)].free
               PROVE  FALSE
    BY <1>1 DEF NoTwoFree
  <2>1. h[a].free /\ a # b /\ NextOf(g, a) = NextOf(h, a)
    BY <1>2, <1>4
  <2>2. NextOf(h, a) \in DOMAIN h
    BY <2>1 DEF Flags, Shape
  <2>3. h[NextOf(h, a)].free /\ NextOf(h, a) # b
    BY <2>1, <2>2, <1>4
  <2> QED BY <2>1, <2>3 DEF NoTwoFree
<1>7. Used(g) = Used(h) \cup {b}
  BY <1>1, <1>3, <1>4 DEF Used
<1> QED BY <1>2, <1>5, <1>6, <1>7

(* What Flags says of one block.                                           *)
FlagsAt(h, a) ==
  /\ h[a].free => h[a].size > 0
  /\ h[a].size > 0 => (h[NextOf(h, a)].prev_free <=> h[a].free)
  /\ h[a].free => h[NextOf(h, a)].prev_phys = a
  /\ h[a].prev_free => /\ h[a].prev_phys \in DOMAIN h
                       /\ h[h[a].prev_phys].free
                       /\ NextOf(h, h[a].prev_phys) = a

(* A free block and the free one after it become one.                      *)
Absorbed(h, g, b) ==
  LET n == NextOf(h, b)
  IN  /\ DOMAIN g = DOMAIN h \ {n}
      /\ \A a \in DOMAIN g :
           /\ g[a].size = IF a = b THEN h[b].size + h[n].size + 1 ELSE h[a].size
           /\ g[a].free <=> h[a].free
           /\ g[a].prev_free <=> h[a].prev_free
           /\ g[a].prev_phys = IF a = NextOf(h, n) THEN b ELSE h[a].prev_phys

(* Merging two free blocks keeps the heap whole. Where only one of them    *)
(* may have had free neighbours, the result may have them on one side      *)
(* only.                                                                   *)
LEMMA HeapAbsorb ==
  ASSUME NEW h \in HeaderFcn, NEW g, NEW A, InHeap(A), Shape(h, A), Flags(h),
         NEW b \in DOMAIN h, h[b].free, h[NextOf(h, b)].free, Absorbed(h, g, b)
  PROVE  /\ Shape(g, A) /\ Flags(g) /\ Used(g) = Used(h) /\ b \in DOMAIN g /\ g[b].free
         /\ NoTwoFree(h, {NextOf(h, b)}) => NoTwoFree(g, {b}) /\ ~g[b].prev_free
         /\ NoTwoFree(h, {b}) => /\ NoTwoFree(g, {b}) /\ ~g[NextOf(g, b)].free
                                 /\ g[b].prev_free <=> h[b].prev_free
<1> DEFINE n == NextOf(h, b)
           m == NextOf(h, n)
<1>1. /\ h[b].size > 0 /\ n \in DOMAIN h /\ h[n].size > 0 /\ m \in DOMAIN h
  <2>1. h[b].size > 0 /\ n \in DOMAIN h
    BY DEF Flags, Shape
  <2> HIDE DEF n
  <2>2. h[n].free
    BY DEF n
  <2> QED BY <2>1, <2>2 DEF Flags, Shape
<1>2. /\ DOMAIN g = DOMAIN h \ {n}
      /\ \A a \in DOMAIN g :
           /\ g[a].size = IF a = b THEN h[b].size + h[n].size + 1 ELSE h[a].size
           /\ g[a].free <=> h[a].free
           /\ g[a].prev_free <=> h[a].prev_free
           /\ g[a].prev_phys = IF a = m THEN b ELSE h[a].prev_phys
  BY DEF Absorbed
<1>3. \A a \in DOMAIN h : a \in Nat /\ h[a].size \in Nat /\ NextOf(h, a) \in Nat
  BY HeaderFields
<1>4. b < n /\ n < m /\ m = b + h[b].size + h[n].size + 2
  BY <1>1, <1>3 DEF NextOf
<1>5. h[n].free /\ h[b].free
  OBVIOUS
<1>6. \A a \in DOMAIN h : h[a].size > 0 => (NextOf(h, a) = n => a = b)
  BY <1>1, NextInjective
<1>7. \A a \in DOMAIN h : h[a].size > 0 => (NextOf(h, a) = m => a = n)
  BY <1>1, NextInjective
<1>8. \A a \in DOMAIN h : /\ h[a].size = 0 \/ h[a].size >= BLK_SIZE_MIN
                          /\ h[a].size > 0 => NextOf(h, a) \in DOMAIN h
                          /\ h[a].size > 0 => \A x \in DOMAIN h : x <= a \/ NextOf(h, a) <= x
                          /\ \E c \in A : Within(c, h, a)
  BY DEF Shape
<1>9. \A a \in DOMAIN h : FlagsAt(h, a)
  BY DEF Flags, FlagsAt
<1> HIDE DEF n, m
<1>10. b \in DOMAIN g /\ m \in DOMAIN g /\ n \notin DOMAIN g /\ DOMAIN g \subseteq DOMAIN h
  BY <1>1, <1>2, <1>3, <1>4
<1>11. /\ NextOf(g, b) = m
       /\ \A a \in DOMAIN g : a # b => NextOf(g, a) = NextOf(h, a)
  BY <1>1, <1>2, <1>3, <1>4, <1>10 DEF NextOf
<1>12. Shape(g, A)
  <2> SUFFICES ASSUME NEW a \in DOMAIN g
               PROVE  /\ g[a].size = 0 \/ g[a].size >= BLK_SIZE_MIN
                      /\ g[a].size > 0 => NextOf(g, a) \in DOMAIN g
                      /\ g[a].size > 0 => \A x \in DOMAIN g : x <= a \/ NextOf(g, a) <= x
                      /\ \E c \in A : Within(c, g, a)
    BY DEF Shape
  <2>1. CASE a # b
    <3>1. a \in DOMAIN h /\ g[a].size = h[a].size /\ NextOf(g, a) = NextOf(h, a)
      BY <2>1, <1>2, <1>10, <1>11
    <3>2. \A c \in A : Within(c, h, a) => Within(c, g, a)
      BY <3>1 DEF Within
    <3>3. h[a].size > 0 => NextOf(h, a) \in DOMAIN g
      BY <2>1, <3>1, <1>2, <1>6, <1>8
    <3> QED BY <3>1, <3>2, <3>3, <1>8, <1>10
  <2>2. CASE a = b
    <3>1. g[b].size = h[b].size + h[n].size + 1
      BY <1>2, <1>10
    <3>2. g[b].size >= BLK_SIZE_MIN
      BY <3>1, <1>1, <1>3, <1>8 DEF BLK_SIZE_MIN
    <3>3. ASSUME NEW x \in DOMAIN g PROVE x <= b \/ m <= x
      <4>1. x \in DOMAIN h /\ x # n
        BY <1>10
      <4>2. (x <= b \/ n <= x) /\ (x <= n \/ m <= x)
        BY <4>1, <1>1, <1>8 DEF n, m
      <4> QED BY <4>1, <4>2, <1>1, <1>3
    <3>4. \E c \in A : Within(c, g, b)
      <4>1. PICK c \in A : Within(c, h, b)
        BY <1>8
      <4>2. PICK d \in A : Within(d, h, n)
        BY <1>1, <1>8
      <4>3. n + 1 \in ChunkWords(c) /\ n + 1 \in ChunkWords(d) /\ m + 1 \in ChunkWords(d)
        BY <4>1, <4>2, <1>1 DEF Within, n, m
      <4>4. c = d
        BY <4>3, MemPoolAssumption DEF InHeap
      <4> QED BY <4>1, <4>3, <4>4, <1>11 DEF Within
    <3> QED BY <2>2, <3>2, <3>3, <3>4, <1>10, <1>11
  <2> QED BY <2>1, <2>2
<1>13. Flags(g)
  <2> SUFFICES ASSUME NEW a \in DOMAIN g PROVE FlagsAt(g, a)
    BY DEF Flags, FlagsAt
  <2>1. /\ a \in DOMAIN h
        /\ g[a].free <=> h[a].free
        /\ g[a].prev_free <=> h[a].prev_free
    BY <1>2, <1>10
  <2>2. /\ h[a].free => h[a].size > 0
        /\ h[a].size > 0 => (h[NextOf(h, a)].prev_free <=> h[a].free)
        /\ h[a].free => h[NextOf(h, a)].prev_phys = a
        /\ h[a].prev_free => /\ h[a].prev_phys \in DOMAIN h
                             /\ h[h[a].prev_phys].free
                             /\ NextOf(h, h[a].prev_phys) = a
    BY <1>10, <1>9 DEF FlagsAt
  <2>3. /\ h[m].prev_free
        /\ g[m].prev_phys = b /\ g[m].prev_free
    BY <1>1, <1>2, <1>5, <1>9, <1>10 DEF FlagsAt, m
  <2>4. CASE a = b
    <3>1. g[b].size > 0
      BY <1>12, <1>1, <1>2, <1>3, <1>10
    <3>2. g[b].prev_free => /\ h[b].prev_phys \in DOMAIN h
                            /\ h[h[b].prev_phys].free
                            /\ NextOf(h, h[b].prev_phys) = b
                            /\ g[b].prev_phys = h[b].prev_phys
      BY <2>1, <2>2, <2>4, <1>1, <1>2, <1>3, <1>4, <1>10
    <3>3. ASSUME g[b].prev_free
          PROVE  /\ h[b].prev_phys \in DOMAIN g /\ h[b].prev_phys # b
      <4>1. h[b].prev_phys # n /\ h[b].prev_phys # b
        BY <3>2, <3>3, <1>1, <1>3, <1>4 DEF m, NextOf
      <4> QED BY <4>1, <3>2, <3>3, <1>2
    <3>4. g[b].prev_free => /\ g[b].prev_phys \in DOMAIN g
                            /\ g[g[b].prev_phys].free
                            /\ NextOf(g, g[b].prev_phys) = b
      BY <3>2, <3>3, <1>2, <1>11
    <3> QED BY <2>1, <2>3, <2>4, <3>1, <3>4, <1>5, <1>11 DEF FlagsAt
  <2>5. CASE a # b
    <3>1. /\ g[a].size = h[a].size /\ NextOf(g, a) = NextOf(h, a)
      BY <2>5, <1>2, <1>11
    <3>2. h[a].size > 0 => NextOf(h, a) \in DOMAIN g /\ NextOf(h, a) # m
      BY <2>1, <2>5, <1>2, <1>6, <1>7, <1>8, <1>10
    <3>3. h[a].size > 0 => (g[NextOf(h, a)].prev_free <=> g[a].free)
      BY <2>1, <2>2, <3>2, <1>2
    <3>4. g[a].free => g[NextOf(h, a)].prev_phys = a
      BY <2>1, <2>2, <3>2, <1>2
    <3>5. CASE a = m
      <4>1. g[a].prev_phys = b /\ NextOf(g, b) = a /\ g[b].free
        BY <2>3, <3>5, <1>2, <1>5, <1>10, <1>11
      <4> QED BY <4>1, <2>1, <2>2, <3>1, <3>3, <3>4, <1>10 DEF FlagsAt
    <3>6. CASE a # m
      <4>1. g[a].prev_phys = h[a].prev_phys
        BY <3>6, <1>2
      <4>2. ASSUME g[a].prev_free
            PROVE  h[a].prev_phys \in DOMAIN g /\ h[a].prev_phys # b
        <5>1. h[a].prev_phys \in DOMAIN h /\ NextOf(h, h[a].prev_phys) = a
          BY <4>2, <2>1, <2>2
        <5>2. h[a].prev_phys # n /\ h[a].prev_phys # b
          BY <5>1, <3>6, <1>10 DEF m, n
        <5> QED BY <5>1, <5>2, <1>2
      <4>3. g[a].prev_free => /\ g[a].prev_phys \in DOMAIN g
                              /\ g[g[a].prev_phys].free
                              /\ NextOf(g, g[a].prev_phys) = a
        BY <4>1, <4>2, <2>1, <2>2, <1>2, <1>11
      <4> QED BY <4>3, <2>1, <2>2, <3>1, <3>3, <3>4 DEF FlagsAt
    <3> QED BY <3>5, <3>6
  <2> QED BY <2>4, <2>5
<1>14. Used(g) = Used(h)
  <2>1. \A a \in DOMAIN g : g[a].size > 0 /\ ~g[a].free <=> h[a].size > 0 /\ ~h[a].free
    BY <1>2, <1>5, <1>10
  <2> QED BY <2>1, <1>2, <1>5, <1>10 DEF Used
<1>15. ASSUME NEW x \in {b, n}, NoTwoFree(h, {x}) PROVE NoTwoFree(g, {b})
  <2> SUFFICES ASSUME NEW a \in DOMAIN g, g[a].free, g[NextOf(g, a)].free,
                      a # b, NextOf(g, a) # b
               PROVE  FALSE
    BY DEF NoTwoFree
  <2>1. a \in DOMAIN h /\ h[a].free /\ NextOf(g, a) = NextOf(h, a) /\ g[a].size > 0
    BY <1>2, <1>10, <1>11, <1>13 DEF Flags
  <2>2. NextOf(h, a) \in DOMAIN g
    BY <2>1, <1>12 DEF Shape
  <2>3. h[NextOf(h, a)].free
    BY <2>1, <2>2, <1>2
  <2>4. a # n /\ NextOf(h, a) # n
    BY <2>2, <1>10
  <2> QED BY <2>1, <2>3, <2>4, <1>15 DEF NoTwoFree
<1>16. ASSUME NoTwoFree(h, {n}) PROVE ~g[b].prev_free
  <2> SUFFICES ASSUME h[b].prev_free PROVE FALSE
    BY <1>2, <1>10
  <2> DEFINE q == h[b].prev_phys
  <2>1. q \in DOMAIN h /\ h[q].free /\ NextOf(h, q) = b
    BY <1>9 DEF FlagsAt
  <2> HIDE DEF q
  <2>2. q # n
    BY <2>1, <1>1, <1>3, <1>4 DEF m
  <2> QED BY <2>1, <2>2, <1>3, <1>4, <1>5, <1>16 DEF NoTwoFree
<1>17. ASSUME NoTwoFree(h, {b}) PROVE ~g[NextOf(g, b)].free
  <2> SUFFICES ASSUME h[m].free PROVE FALSE
    BY <1>2, <1>10, <1>11
  <2> QED BY <1>17, <1>1, <1>3, <1>4, <1>5 DEF NoTwoFree, m
<1>18. (g[b].prev_free <=> h[b].prev_free) /\ g[b].free
  BY <1>2, <1>5, <1>10
<1>19. /\ NoTwoFree(h, {n}) => NoTwoFree(g, {b}) /\ ~g[b].prev_free
       /\ NoTwoFree(h, {b}) => /\ NoTwoFree(g, {b}) /\ ~g[NextOf(g, b)].free
                               /\ g[b].prev_free <=> h[b].prev_free
  BY <1>15, <1>16, <1>17, <1>18
<1> QED BY <1>10, <1>12, <1>13, <1>14, <1>18, <1>19 DEF n

(* A free block keeps w words, and the rest becomes a free block.          *)
SplitAt(h, g, b, w) ==
  LET r == b + w + 1
  IN  /\ DOMAIN g = DOMAIN h \cup {r}
      /\ \A a \in DOMAIN g :
           /\ g[a].size = IF a = b THEN w
                          ELSE IF a = r THEN h[b].size - (w + 1) ELSE h[a].size
           /\ g[a].free <=> (a = r \/ h[a].free)
           /\ g[a].prev_free <=> (a = r \/ h[a].prev_free)
           /\ g[a].prev_phys = IF a = r THEN b
                               ELSE IF a = NextOf(h, b) THEN r ELSE h[a].prev_phys

(* Splitting a free block makes two, which are the only free ones next to  *)
(* one another.                                                            *)
LEMMA HeapSplit ==
  ASSUME NEW h \in HeaderFcn, NEW g, NEW A, InHeap(A), Shape(h, A), Flags(h), NoTwoFree(h, {}),
         NEW b \in DOMAIN h, h[b].free, NEW w \in Nat, w >= BLK_SIZE_MIN,
         h[b].size >= w + HEADER_SIZE, SplitAt(h, g, b, w)
  PROVE  /\ Shape(g, A) /\ Flags(g) /\ NoTwoFree(g, {b}) /\ Used(g) = Used(h)
         /\ b + w + 1 \notin DOMAIN h
<1> DEFINE r == b + w + 1
           m == NextOf(h, b)
<1>1. h[b].size > 0 /\ m \in DOMAIN h
  BY DEF Flags, Shape
<1>2. /\ DOMAIN g = DOMAIN h \cup {r}
      /\ \A a \in DOMAIN g :
           /\ g[a].size = IF a = b THEN w
                          ELSE IF a = r THEN h[b].size - (w + 1) ELSE h[a].size
           /\ g[a].free <=> (a = r \/ h[a].free)
           /\ g[a].prev_free <=> (a = r \/ h[a].prev_free)
           /\ g[a].prev_phys = IF a = r THEN b
                               ELSE IF a = m THEN r ELSE h[a].prev_phys
  BY DEF SplitAt
<1>3. \A a \in DOMAIN h : a \in Nat /\ h[a].size \in Nat /\ NextOf(h, a) \in Nat
  BY HeaderFields
<1>4. \A a \in DOMAIN h : /\ h[a].size = 0 \/ h[a].size >= BLK_SIZE_MIN
                          /\ h[a].size > 0 => NextOf(h, a) \in DOMAIN h
                          /\ h[a].size > 0 => \A x \in DOMAIN h : x <= a \/ NextOf(h, a) <= x
                          /\ \E c \in A : Within(c, h, a)
  BY DEF Shape
<1>5. \A a \in DOMAIN h : FlagsAt(h, a)
  BY DEF Flags, FlagsAt
<1>6. \A a \in DOMAIN h : h[a].size > 0 => (NextOf(h, a) = m => a = b)
  BY <1>1, NextInjective
<1>7. /\ w >= 3 /\ h[b].size >= w + 4 /\ r \in Nat
      /\ b < r /\ r < m /\ m = b + h[b].size + 1
  BY <1>3 DEF NextOf, BLK_SIZE_MIN, HEADER_SIZE
<1>8. r \notin DOMAIN h
  BY <1>1, <1>3, <1>4, <1>7
<1> HIDE DEF m, r
<1>9. /\ g[b].size = w /\ g[b].free /\ g[r].size = h[b].size - (w + 1) /\ g[r].free
      /\ b # r /\ g[r].size \in Nat /\ g[r].size >= 3 /\ w \in Nat
  BY <1>2, <1>3, <1>7
<1>10. /\ NextOf(g, b) = r /\ NextOf(g, r) = m
       /\ \A a \in DOMAIN h : a # b => g[a].size = h[a].size /\ NextOf(g, a) = NextOf(h, a)
  <2>1. NextOf(g, b) = r
    BY <1>9 DEF NextOf, r
  <2>2. NextOf(g, r) = m
    <3>1. b \in Nat /\ h[b].size \in Nat
      BY <1>3
    <3>2. NextOf(g, r) = r + (h[b].size - (w + 1)) + 1
      BY <1>9 DEF NextOf
    <3>3. r = b + w + 1
      BY DEF r
    <3> QED BY <3>1, <3>2, <3>3, <1>7, <1>9
  <2>3. \A a \in DOMAIN h : a # b => g[a].size = h[a].size /\ NextOf(g, a) = NextOf(h, a)
    BY <1>2, <1>8 DEF NextOf
  <2> QED BY <2>1, <2>2, <2>3
<1>11. Shape(g, A)
  <2> SUFFICES ASSUME NEW a \in DOMAIN g
               PROVE  /\ g[a].size = 0 \/ g[a].size >= BLK_SIZE_MIN
                      /\ g[a].size > 0 => NextOf(g, a) \in DOMAIN g
                      /\ g[a].size > 0 => \A x \in DOMAIN g : x <= a \/ NextOf(g, a) <= x
                      /\ \E c \in A : Within(c, g, a)
    BY DEF Shape
  <2>1. PICK c \in A : Within(c, h, b)
    BY <1>4
  <2>2. /\ b + 1 \in ChunkWords(c) /\ m + 1 \in ChunkWords(c)
        /\ r + 1 \in ChunkWords(c)
    <3>1. b + 1 \in ChunkWords(c) /\ m + 1 \in ChunkWords(c)
      BY <2>1, <1>1 DEF Within, m
    <3>2. /\ c.base \in Nat /\ WordsLeft(c) \in Int
          /\ ChunkWords(c) = c.base .. c.base + WordsLeft(c) + 1
      BY ChunkProperties DEF InHeap
    <3>3. b \in Nat /\ m \in Nat
      BY <1>1, <1>3
    <3> HIDE DEF r, m
    <3> QED BY <3>1, <3>2, <3>3, <1>7, SMTT(30)
  <2>3. CASE a = b
    <3>1. \A x \in DOMAIN g : x <= b \/ r <= x
      BY <1>1, <1>2, <1>3, <1>4, <1>7 DEF m
    <3>2. Within(c, g, b)
      BY <2>2, <1>10 DEF Within
    <3> QED BY <2>3, <3>1, <3>2, <1>2, <1>7, <1>9, <1>10 DEF BLK_SIZE_MIN
  <2>4. CASE a = r
    <3>1. \A x \in DOMAIN g : x <= r \/ m <= x
      BY <1>1, <1>2, <1>3, <1>4, <1>7 DEF m
    <3>2. Within(c, g, r)
      BY <2>2, <1>10 DEF Within
    <3> QED BY <2>4, <3>1, <3>2, <1>1, <1>2, <1>9, <1>10 DEF BLK_SIZE_MIN
  <2>5. CASE a # b /\ a # r
    <3>1. a \in DOMAIN h /\ g[a].size = h[a].size /\ NextOf(g, a) = NextOf(h, a)
      BY <2>5, <1>2, <1>10
    <3>2. \A d \in A : Within(d, h, a) => Within(d, g, a)
      BY <3>1 DEF Within
    <3>3. h[a].size > 0 => r <= a \/ NextOf(h, a) <= r
      <4>1. h[a].size > 0 => (b <= a \/ NextOf(h, a) <= b)
        BY <3>1, <1>4
      <4>2. a <= b \/ m <= a
        BY <3>1, <1>1, <1>4 DEF m
      <4> QED BY <4>1, <4>2, <2>5, <3>1, <1>1, <1>3, <1>7
    <3>4. h[a].size > 0 => \A x \in DOMAIN g : x <= a \/ NextOf(h, a) <= x
      BY <3>1, <3>3, <1>2, <1>3, <1>4, <1>7
    <3> QED BY <3>1, <3>2, <3>4, <1>2, <1>4
  <2> QED BY <2>3, <2>4, <2>5
<1>12. Flags(g)
  <2> SUFFICES ASSUME NEW a \in DOMAIN g PROVE FlagsAt(g, a)
    BY DEF Flags, FlagsAt
  <2>1. /\ g[r].prev_free /\ g[r].prev_phys = b
        /\ g[m].prev_free /\ g[m].prev_phys = r /\ m \in DOMAIN g /\ m # r
    BY <1>1, <1>2, <1>3, <1>5, <1>7 DEF FlagsAt, m
  <2>2. \A x \in DOMAIN h : h[x].prev_phys = b /\ h[x].prev_free => x = m
    BY <1>5 DEF FlagsAt, m
  <2>3. CASE a = r
    BY <2>1, <2>3, <1>2, <1>9, <1>10 DEF FlagsAt
  <2>4. CASE a # r
    <3>1. /\ a \in DOMAIN h
          /\ g[a].free <=> h[a].free
          /\ g[a].prev_free <=> h[a].prev_free
      BY <2>4, <1>2
    <3>2. /\ h[a].free => h[a].size > 0
          /\ h[a].size > 0 => (h[NextOf(h, a)].prev_free <=> h[a].free)
          /\ h[a].free => h[NextOf(h, a)].prev_phys = a
          /\ h[a].prev_free => /\ h[a].prev_phys \in DOMAIN h
                               /\ h[h[a].prev_phys].free
                               /\ NextOf(h, h[a].prev_phys) = a
      BY <3>1, <1>5 DEF FlagsAt
    <3>3. g[a].prev_free => /\ g[a].prev_phys \in DOMAIN g
                            /\ g[g[a].prev_phys].free
                            /\ NextOf(g, g[a].prev_phys) = a
      <4>1. CASE a = m
        BY <4>1, <2>1, <1>2, <1>9, <1>10
      <4>2. CASE a # m
        <5> SUFFICES ASSUME h[a].prev_free
                     PROVE  /\ g[a].prev_phys \in DOMAIN g
                            /\ g[g[a].prev_phys].free
                            /\ NextOf(g, g[a].prev_phys) = a
          BY <3>1
        <5>1. g[a].prev_phys = h[a].prev_phys /\ h[a].prev_phys # b
          BY <4>2, <3>1, <2>2, <2>4, <1>2
        <5> QED BY <5>1, <3>1, <3>2, <1>2, <1>10
      <4> QED BY <4>1, <4>2
    <3>4. CASE a = b
      <4>1. /\ g[a].free => g[a].size > 0
            /\ g[a].size > 0 => (g[NextOf(g, a)].prev_free <=> g[a].free)
            /\ g[a].free => g[NextOf(g, a)].prev_phys = a
        BY <3>4, <2>1, <1>7, <1>9, <1>10
      <4> QED BY <4>1, <3>3 DEF FlagsAt
    <3>5. CASE a # b
      <4>1. /\ g[a].size = h[a].size /\ NextOf(g, a) = NextOf(h, a)
        BY <3>1, <3>5, <1>10
      <4>2. h[a].size > 0 => /\ NextOf(h, a) \in DOMAIN h /\ NextOf(h, a) # m
                             /\ NextOf(h, a) # r
        BY <3>1, <3>5, <1>4, <1>6, <1>8
      <4>3. /\ g[a].free => g[a].size > 0
            /\ g[a].size > 0 => (g[NextOf(g, a)].prev_free <=> g[a].free)
            /\ g[a].free => g[NextOf(g, a)].prev_phys = a
        BY <3>1, <3>2, <4>1, <4>2, <1>2
      <4> QED BY <4>3, <3>3 DEF FlagsAt
    <3> QED BY <3>4, <3>5
  <2> QED BY <2>3, <2>4
<1>13. NoTwoFree(g, {b})
  <2> SUFFICES ASSUME NEW a \in DOMAIN g, g[a].free, g[NextOf(g, a)].free,
                      a # b, NextOf(g, a) # b
               PROVE  FALSE
    BY DEF NoTwoFree
  <2>1. CASE a = r
    <3>1. h[m].free
      BY <2>1, <1>1, <1>2, <1>8, <1>10
    <3> QED BY <3>1 DEF NoTwoFree, m
  <2>2. CASE a # r
    <3>1. a \in DOMAIN h /\ h[a].free /\ NextOf(g, a) = NextOf(h, a)
      BY <2>2, <1>2, <1>10
    <3>2. NextOf(h, a) \in DOMAIN h
      BY <3>1, <1>4, <1>5 DEF FlagsAt
    <3>3. h[NextOf(h, a)].free
      BY <3>1, <3>2, <1>2, <1>8
    <3> QED BY <3>1, <3>3 DEF NoTwoFree
  <2> QED BY <2>1, <2>2
<1>14. Used(g) = Used(h)
  <2>1. \A a \in DOMAIN h : g[a].size > 0 /\ ~g[a].free <=> h[a].size > 0 /\ ~h[a].free
    BY <1>2, <1>8, <1>9, <1>10
  <2> QED BY <2>1, <1>2, <1>9 DEF Used
<1> QED BY <1>8, <1>11, <1>12, <1>13, <1>14 DEF r

(* The two headers that new memory starts with.                            *)
NewBlock(w) == [size |-> w, free |-> TRUE, prev_free |-> FALSE, prev_phys |-> NULL]
EndBlock(b) == [size |-> 0, free |-> FALSE, prev_free |-> TRUE, prev_phys |-> b]

(* A chunk becomes a free block and the last one, of size 0.               *)
Extended(h, g, c) ==
  LET b == c.base - 1
      l == c.base + WordsLeft(c)
  IN  /\ DOMAIN g = DOMAIN h \cup {b, l}
      /\ \A a \in DOMAIN h \ {b, l} : g[a] = h[a]
      /\ g[b] = NewBlock(WordsLeft(c)) /\ g[l] = EndBlock(b)

(* New memory is apart from all of the heap, so the heap stays whole.      *)
LEMMA HeapExtend ==
  ASSUME NEW h \in HeaderFcn, NEW g, NEW A, InHeap(A), Shape(h, A), Flags(h), NoTwoFree(h, {}),
         NEW c \in Chunk \ A, WordsLeft(c) >= BLK_SIZE_MIN, Extended(h, g, c)
  PROVE  /\ Shape(g, A \cup {c}) /\ Flags(g) /\ NoTwoFree(g, {}) /\ Used(g) = Used(h)
         /\ c.base - 1 \notin DOMAIN h /\ \A a \in DOMAIN h : a \in DOMAIN g /\ g[a] = h[a]
<1> DEFINE b == c.base - 1
           l == c.base + WordsLeft(c)
           new == NewBlock(WordsLeft(c))
           last == EndBlock(b)
<1>1. /\ c.base \in Nat \ {0} /\ WordsLeft(c) \in Nat /\ WordsLeft(c) >= 3
      /\ ChunkWords(c) = c.base .. c.base + WordsLeft(c) + 1
  BY ChunkProperties DEF BLK_SIZE_MIN
<1>2. /\ b \in Nat /\ l \in Nat /\ b < l /\ l = b + WordsLeft(c) + 1
      /\ b + 1 \in ChunkWords(c) /\ l + 1 \in ChunkWords(c)
      /\ \A k \in Nat : b <= k /\ k <= l => k + 1 \in ChunkWords(c)
  BY <1>1, SMTT(30)
<1>3. \A a \in DOMAIN h : a \in Nat /\ h[a].size \in Nat /\ NextOf(h, a) \in Nat
  BY HeaderFields
<1>4. \A a \in DOMAIN h : /\ h[a].size = 0 \/ h[a].size >= BLK_SIZE_MIN
                          /\ h[a].size > 0 => NextOf(h, a) \in DOMAIN h
                          /\ h[a].size > 0 => \A x \in DOMAIN h : x <= a \/ NextOf(h, a) <= x
                          /\ \E d \in A : Within(d, h, a)
  BY DEF Shape
<1>5. \A a \in DOMAIN h : FlagsAt(h, a)
  BY DEF Flags, FlagsAt
<1>6. \A d \in A : d \in Chunk /\ ChunkWords(d) \cap ChunkWords(c) = {}
  BY MemPoolAssumption DEF InHeap
<1>7. ASSUME NEW a \in DOMAIN h
      PROVE  /\ a + 1 \notin ChunkWords(c)
             /\ h[a].size > 0 => ~(a <= b /\ b <= NextOf(h, a)) /\ ~(a <= l /\ l <= NextOf(h, a))
  <2>1. PICK d \in A : Within(d, h, a)
    BY <1>4
  <2>2. /\ d.base \in Nat /\ WordsLeft(d) \in Int
        /\ ChunkWords(d) = d.base .. d.base + WordsLeft(d) + 1
    BY <1>6, ChunkProperties
  <2>3. a + 1 \in ChunkWords(d) /\ (h[a].size > 0 => NextOf(h, a) + 1 \in ChunkWords(d))
    BY <2>1 DEF Within
  <2>4. a \in Nat /\ NextOf(h, a) \in Nat
    BY <1>3
  <2>5. ASSUME NEW k \in Nat, a <= k, k <= NextOf(h, a), h[a].size > 0
        PROVE  k + 1 \in ChunkWords(d)
    BY <2>2, <2>3, <2>4, <2>5
  <2> QED BY <2>3, <2>5, <1>2, <1>6
<1> HIDE DEF b, l
<1>8. b \notin DOMAIN h /\ l \notin DOMAIN h
  BY <1>2, <1>7
<1>9. /\ DOMAIN g = DOMAIN h \cup {b, l}
      /\ \A a \in DOMAIN h : g[a] = h[a] /\ NextOf(g, a) = NextOf(h, a)
      /\ g[b] = new /\ g[l] = last
  <2>1. /\ DOMAIN g = DOMAIN h \cup {b, l}
        /\ \A a \in DOMAIN h \ {b, l} : g[a] = h[a]
        /\ g[b] = new /\ g[l] = last
    BY DEF Extended, b, l
  <2> QED BY <2>1, <1>8 DEF NextOf
<1>10. /\ g[b].size = WordsLeft(c) /\ g[b].free /\ ~g[b].prev_free
       /\ g[l].size = 0 /\ ~g[l].free /\ g[l].prev_free /\ g[l].prev_phys = b
       /\ NextOf(g, b) = l
  BY <1>2, <1>9 DEF NextOf, NewBlock, EndBlock
<1>11. Shape(g, A \cup {c})
  <2> SUFFICES ASSUME NEW a \in DOMAIN g
               PROVE  /\ g[a].size = 0 \/ g[a].size >= BLK_SIZE_MIN
                      /\ g[a].size > 0 => NextOf(g, a) \in DOMAIN g
                      /\ g[a].size > 0 => \A x \in DOMAIN g : x <= a \/ NextOf(g, a) <= x
                      /\ \E d \in A \cup {c} : Within(d, g, a)
    BY DEF Shape
  <2>1. CASE a = b
    <3>1. \A x \in DOMAIN g : x <= b \/ l <= x
      BY <1>2, <1>3, <1>7, <1>9
    <3>2. Within(c, g, b)
      BY <1>2, <1>10 DEF Within
    <3> QED BY <2>1, <3>1, <3>2, <1>9, <1>10
  <2>2. CASE a = l
    <3>1. Within(c, g, l)
      BY <1>2, <1>10 DEF Within
    <3> QED BY <2>2, <3>1, <1>10
  <2>3. CASE a \in DOMAIN h
    <3>1. g[a].size = h[a].size /\ NextOf(g, a) = NextOf(h, a)
      BY <2>3, <1>9
    <3>2. \A d \in A : Within(d, h, a) => Within(d, g, a)
      BY <3>1 DEF Within
    <3>3. h[a].size > 0 => \A x \in {b, l} : x <= a \/ NextOf(h, a) <= x
      BY <2>3, <1>2, <1>3, <1>7
    <3> QED BY <2>3, <3>1, <3>2, <3>3, <1>4, <1>9
  <2> QED BY <2>1, <2>2, <2>3, <1>9
<1>12. Flags(g)
  <2> SUFFICES ASSUME NEW a \in DOMAIN g PROVE FlagsAt(g, a)
    BY DEF Flags, FlagsAt
  <2>1. CASE a = b
    BY <2>1, <1>1, <1>10 DEF FlagsAt
  <2>2. CASE a = l
    BY <2>2, <1>9, <1>10 DEF FlagsAt
  <2>3. CASE a \in DOMAIN h
    <3>1. FlagsAt(h, a)
      BY <2>3, <1>5
    <3>2. g[a] = h[a] /\ NextOf(g, a) = NextOf(h, a)
      BY <2>3, <1>9
    <3>3. h[a].size > 0 => NextOf(h, a) \in DOMAIN h
      BY <2>3, <1>4
    <3> QED BY <3>1, <3>2, <3>3, <1>9 DEF FlagsAt
  <2> QED BY <2>1, <2>2, <2>3, <1>9
<1>13. NoTwoFree(g, {})
  <2> SUFFICES ASSUME NEW a \in DOMAIN g, g[a].free, g[NextOf(g, a)].free
               PROVE  FALSE
    BY DEF NoTwoFree
  <2>1. a # b /\ a # l
    BY <1>10
  <2>2. a \in DOMAIN h /\ h[a].free /\ NextOf(g, a) = NextOf(h, a)
    BY <2>1, <1>9
  <2>3. NextOf(h, a) \in DOMAIN h
    BY <2>2, <1>4, <1>5 DEF FlagsAt
  <2> QED BY <2>2, <2>3, <1>9 DEF NoTwoFree
<1>14. Used(g) = Used(h)
  BY <1>9, <1>10 DEF Used
<1> QED BY <1>8, <1>9, <1>11, <1>12, <1>13, <1>14 DEF b, l
-----------------------------------------------------------------------------
(* What the functions of the allocator do to the headers.                  *)

(* A change of headers alone.                                              *)
SameLists(p, q) ==
  q.blocks = p.blocks /\ q.fl_bitmap = p.fl_bitmap /\ q.sl_bitmap = p.sl_bitmap

(* Only headers are written.                                               *)
LEMMA HeaderReplaced ==
  ASSUME NEW p \in PoolType, NEW g \in HeaderFcn, NEW q, q = [p EXCEPT !.header = g]
  PROVE  q \in PoolType /\ SameLists(p, q) /\ q.header = g
<1>1. q = [header |-> g, blocks |-> p.blocks,
           fl_bitmap |-> p.fl_bitmap, sl_bitmap |-> p.sl_bitmap]
  BY DEF PoolType
<1> QED BY <1>1 DEF PoolType, SameLists

(* One field of one header is written.                                     *)
SizeSet(h, g, n, v) ==
  /\ DOMAIN g = DOMAIN h
  /\ \A a \in DOMAIN h : /\ g[a].size = IF a = n THEN v ELSE h[a].size
                         /\ g[a].free <=> h[a].free
                         /\ g[a].prev_free <=> h[a].prev_free
                         /\ g[a].prev_phys = h[a].prev_phys

FreeSet(h, g, n, v) ==
  /\ SameBlocks(h, g)
  /\ \A a \in DOMAIN h : /\ g[a].free <=> IF a = n THEN v ELSE h[a].free
                         /\ g[a].prev_free <=> h[a].prev_free
                         /\ g[a].prev_phys = h[a].prev_phys

PrevFreeSet(h, g, n, v) ==
  /\ SameBlocks(h, g)
  /\ \A a \in DOMAIN h : /\ g[a].free <=> h[a].free
                         /\ g[a].prev_free <=> IF a = n THEN v ELSE h[a].prev_free
                         /\ g[a].prev_phys = h[a].prev_phys

PrevPhysSet(h, g, n, v) ==
  /\ SameBlocks(h, g)
  /\ \A a \in DOMAIN h : /\ g[a].free <=> h[a].free
                         /\ g[a].prev_free <=> h[a].prev_free
                         /\ g[a].prev_phys = IF a = n THEN v ELSE h[a].prev_phys

(* A size is written.                                                      *)
LEMMA SetSize ==
  ASSUME NEW h \in HeaderFcn, NEW n \in DOMAIN h, NEW v \in Nat,
         NEW g, g = [h EXCEPT ![n].size = v]
  PROVE  g \in HeaderFcn /\ SizeSet(h, g, n, v)
<1> DEFINE r == [h[n] EXCEPT !.size = v]
<1>1. h[n] \in Header
  BY HeaderFields
<1>2. /\ r \in Header /\ r.size = v
      /\ r.free <=> h[n].free
      /\ r.prev_free <=> h[n].prev_free
      /\ r.prev_phys = h[n].prev_phys
  BY <1>1 DEF Header
<1>3. g = [h EXCEPT ![n] = r]
  OBVIOUS
<1> HIDE DEF r
<1>4. /\ g \in HeaderFcn /\ DOMAIN g = DOMAIN h /\ g[n] = r
      /\ \A a \in DOMAIN h : a # n => g[a] = h[a]
  BY <1>2, <1>3, HeaderFcnProperties
<1> QED BY <1>2, <1>4 DEF SizeSet

(* The flag of a free block is written.                                    *)
LEMMA SetFree ==
  ASSUME NEW h \in HeaderFcn, NEW n \in DOMAIN h, NEW v \in BOOLEAN,
         NEW g, g = [h EXCEPT ![n].free = v]
  PROVE  g \in HeaderFcn /\ FreeSet(h, g, n, v)
<1> DEFINE r == [h[n] EXCEPT !.free = v]
<1>1. h[n] \in Header
  BY HeaderFields
<1>2. /\ r \in Header /\ r.size = h[n].size
      /\ r.free <=> v
      /\ r.prev_free <=> h[n].prev_free
      /\ r.prev_phys = h[n].prev_phys
  BY <1>1 DEF Header
<1>3. g = [h EXCEPT ![n] = r]
  OBVIOUS
<1> HIDE DEF r
<1>4. /\ g \in HeaderFcn /\ DOMAIN g = DOMAIN h /\ g[n] = r
      /\ \A a \in DOMAIN h : a # n => g[a] = h[a]
  BY <1>2, <1>3, HeaderFcnProperties
<1> QED BY <1>2, <1>4 DEF FreeSet, SameBlocks

(* The flag for the block before is written.                               *)
LEMMA SetPrevFree ==
  ASSUME NEW h \in HeaderFcn, NEW n \in DOMAIN h, NEW v \in BOOLEAN,
         NEW g, g = [h EXCEPT ![n].prev_free = v]
  PROVE  g \in HeaderFcn /\ PrevFreeSet(h, g, n, v)
<1> DEFINE r == [h[n] EXCEPT !.prev_free = v]
<1>1. h[n] \in Header
  BY HeaderFields
<1>2. /\ r \in Header /\ r.size = h[n].size
      /\ r.free <=> h[n].free
      /\ r.prev_free <=> v
      /\ r.prev_phys = h[n].prev_phys
  BY <1>1 DEF Header
<1>3. g = [h EXCEPT ![n] = r]
  OBVIOUS
<1> HIDE DEF r
<1>4. /\ g \in HeaderFcn /\ DOMAIN g = DOMAIN h /\ g[n] = r
      /\ \A a \in DOMAIN h : a # n => g[a] = h[a]
  BY <1>2, <1>3, HeaderFcnProperties
<1> QED BY <1>2, <1>4 DEF PrevFreeSet, SameBlocks

(* The link to the block before is written.                                *)
LEMMA SetPrevPhys ==
  ASSUME NEW h \in HeaderFcn, NEW n \in DOMAIN h, NEW v \in Nat \cup {NULL},
         NEW g, g = [h EXCEPT ![n].prev_phys = v]
  PROVE  g \in HeaderFcn /\ PrevPhysSet(h, g, n, v)
<1> DEFINE r == [h[n] EXCEPT !.prev_phys = v]
<1>1. h[n] \in Header
  BY HeaderFields
<1>2. /\ r \in Header /\ r.size = h[n].size
      /\ r.free <=> h[n].free
      /\ r.prev_free <=> h[n].prev_free
      /\ r.prev_phys = v
  BY <1>1 DEF Header
<1>3. g = [h EXCEPT ![n] = r]
  OBVIOUS
<1> HIDE DEF r
<1>4. /\ g \in HeaderFcn /\ DOMAIN g = DOMAIN h /\ g[n] = r
      /\ \A a \in DOMAIN h : a # n => g[a] = h[a]
  BY <1>2, <1>3, HeaderFcnProperties
<1> QED BY <1>2, <1>4 DEF PrevPhysSet, SameBlocks

(* block_link_next writes one link.                                        *)
LEMMA LinkNextProperties ==
  ASSUME NEW p \in PoolType, NEW b \in DOMAIN p.header, NextOf(p.header, b) \in DOMAIN p.header,
         NEW q, q = LinkNext(p, b)
  PROVE  /\ q \in PoolType /\ SameLists(p, q)
         /\ PrevPhysSet(p.header, q.header, NextOf(p.header, b), b)
<1> DEFINE n == NextOf(p.header, b)
           g == [p.header EXCEPT ![n].prev_phys = b]
<1>1. BlockNext(p, b) = n
  BY DEF BlockNext, NextOf, BLK_HEADER_OVERHEAD
<1>2. p.header \in HeaderFcn
  BY DEF PoolType
<1>3. b \in Nat \cup {NULL}
  BY <1>2, HeaderFields
<1>4. q = [p EXCEPT !.header = g]
  BY <1>1 DEF LinkNext
<1>5. g \in HeaderFcn /\ PrevPhysSet(p.header, g, n, b)
  <2> HIDE DEF n
  <2>1. n \in DOMAIN p.header
    BY DEF n
  <2> QED BY <1>2, <1>3, <2>1, SetPrevPhys
<1> HIDE DEF g
<1> QED BY <1>4, <1>5, HeaderReplaced

(* block_mark_as_free writes the block and what the next one says of it.   *)
LEMMA MarkAsFreeProperties ==
  ASSUME NEW p \in PoolType, NEW b \in DOMAIN p.header, NextOf(p.header, b) \in DOMAIN p.header,
         NEW q, q = MarkAsFree(p, b)
  PROVE  q \in PoolType /\ SameLists(p, q) /\ MarkedFree(p.header, q.header, b)
<1> DEFINE n == NextOf(p.header, b)
           l == LinkNext(p, b)
           f == [l.header EXCEPT ![n].prev_free = TRUE]
           g == [f EXCEPT ![b].free = TRUE]
<1>1. BlockNext(p, b) = n
  BY DEF BlockNext, NextOf, BLK_HEADER_OVERHEAD
<1>2. /\ l \in PoolType /\ SameLists(p, l)
      /\ PrevPhysSet(p.header, l.header, n, b)
  <2> HIDE DEF l
  <2> QED BY LinkNextProperties DEF l
<1>3. q = [l EXCEPT !.header = g]
  <2> HIDE DEF l
  <2>1. q = [[l EXCEPT !.header[n].prev_free = TRUE] EXCEPT !.header[b].free = TRUE]
    BY <1>1 DEF MarkAsFree, l
  <2>2. l = [header |-> l.header, blocks |-> l.blocks,
             fl_bitmap |-> l.fl_bitmap, sl_bitmap |-> l.sl_bitmap]
    BY <1>2 DEF PoolType
  <2> QED BY <2>1, <2>2
<1> HIDE DEF l, n
<1>4. /\ l.header \in HeaderFcn /\ DOMAIN l.header = DOMAIN p.header
      /\ n \in DOMAIN p.header
  BY <1>2 DEF PoolType, PrevPhysSet, SameBlocks, n
<1> HIDE DEF f, g
<1>5. f \in HeaderFcn /\ PrevFreeSet(l.header, f, n, TRUE)
  BY <1>4, SetPrevFree DEF f
<1>6. g \in HeaderFcn /\ FreeSet(f, g, b, TRUE)
  <2>1. b \in DOMAIN f
    BY <1>4, <1>5 DEF PrevFreeSet, SameBlocks
  <2> QED BY <1>5, <2>1, SetFree DEF g
<1>7. q \in PoolType /\ SameLists(p, q) /\ q.header = g
  BY <1>2, <1>3, <1>6, HeaderReplaced DEF SameLists
<1>8. MarkedFree(p.header, g, b)
  BY <1>2, <1>5, <1>6 DEF MarkedFree, PrevPhysSet, PrevFreeSet, FreeSet, SameBlocks, n
<1> QED BY <1>7, <1>8

(* block_mark_as_used writes the block and what the next one says of it.   *)
LEMMA MarkAsUsedProperties ==
  ASSUME NEW p \in PoolType, NEW b \in DOMAIN p.header, NextOf(p.header, b) \in DOMAIN p.header,
         NEW q, q = MarkAsUsed(p, b)
  PROVE  q \in PoolType /\ SameLists(p, q) /\ MarkedUsed(p.header, q.header, b)
<1> DEFINE n == NextOf(p.header, b)
           e == [p.header EXCEPT ![n].prev_free = FALSE]
           f == [e EXCEPT ![n].prev_phys = NULL]
           g == [f EXCEPT ![b].free = FALSE]
<1>1. BlockNext(p, b) = n
  BY DEF BlockNext, NextOf, BLK_HEADER_OVERHEAD
<1>2. q = [p EXCEPT !.header = g]
  <2>1. q = [[[p EXCEPT !.header[n].prev_free = FALSE]
                EXCEPT !.header[n].prev_phys = NULL] EXCEPT !.header[b].free = FALSE]
    BY <1>1 DEF MarkAsUsed
  <2>2. p = [header |-> p.header, blocks |-> p.blocks,
             fl_bitmap |-> p.fl_bitmap, sl_bitmap |-> p.sl_bitmap]
    BY DEF PoolType
  <2> QED BY <2>1, <2>2
<1> HIDE DEF n
<1>3. p.header \in HeaderFcn /\ n \in DOMAIN p.header
  BY DEF PoolType, n
<1> HIDE DEF e, f, g
<1>4. e \in HeaderFcn /\ PrevFreeSet(p.header, e, n, FALSE)
  BY <1>3, SetPrevFree DEF e
<1>5. f \in HeaderFcn /\ PrevPhysSet(e, f, n, NULL)
  <2>1. n \in DOMAIN e /\ NULL \in Nat \cup {NULL}
    BY <1>3, <1>4 DEF PrevFreeSet, SameBlocks
  <2> QED BY <1>4, <2>1, SetPrevPhys DEF f
<1>6. g \in HeaderFcn /\ FreeSet(f, g, b, FALSE)
  <2>1. b \in DOMAIN f
    BY <1>4, <1>5 DEF PrevFreeSet, PrevPhysSet, SameBlocks
  <2> QED BY <1>5, <2>1, SetFree DEF g
<1>7. q \in PoolType /\ SameLists(p, q) /\ q.header = g
  BY <1>2, <1>6, HeaderReplaced
<1>8. MarkedUsed(p.header, g, b)
  BY <1>4, <1>5, <1>6 DEF MarkedUsed, PrevPhysSet, PrevFreeSet, FreeSet, SameBlocks, n
<1> QED BY <1>7, <1>8

(* block_absorb writes the size of the first block and the link of the one *)
(* after both.                                                             *)
LEMMA AbsorbProperties ==
  ASSUME NEW p \in PoolType, NEW A, Shape(p.header, A), Flags(p.header),
         NEW b \in DOMAIN p.header, p.header[b].free, p.header[NextOf(p.header, b)].free,
         NEW q, q = Absorb(p, b, NextOf(p.header, b))
  PROVE  q \in PoolType /\ SameLists(p, q) /\ Absorbed(p.header, q.header, b)
<1> DEFINE h == p.header
           n == NextOf(h, b)
           size == h[b].size + h[n].size + 1
           f == [a \in DOMAIN h \ {n} |-> IF a = b THEN [h[a] EXCEPT !.size = size] ELSE h[a]]
           l == [p EXCEPT !.header = f]
<1>1. q = LinkNext(l, b)
  BY DEF Absorb, BLK_HEADER_OVERHEAD
<1>2. h \in HeaderFcn
  BY DEF PoolType
<1>3. n \in DOMAIN h /\ h[b].size > 0 /\ h[n].size > 0 /\ NextOf(h, n) \in DOMAIN h
  <2>1. n \in DOMAIN h /\ h[b].size > 0
    BY DEF Flags, Shape
  <2>2. h[n].free
    OBVIOUS
  <2> HIDE DEF n, h
  <2>3. Flags(h) /\ Shape(h, A)
    BY DEF h
  <2> QED BY <2>1, <2>2, <2>3 DEF Flags, Shape
<1> HIDE DEF h, n
<1>4. /\ b \in Nat /\ n \in Nat /\ h[b].size \in Nat /\ h[n].size \in Nat
      /\ h[b] \in Header /\ b \in DOMAIN h
      /\ NextOf(h, n) = b + size + 1 /\ n = b + h[b].size + 1 /\ NextOf(h, n) # n /\ n # b
  BY <1>2, <1>3, HeaderFields DEF NextOf, n, h
<1>5. [h[b] EXCEPT !.size = size] \in Header
  BY <1>4 DEF Header
<1>6. f \in HeaderFcn
  <2>1. DOMAIN h \subseteq Nat /\ \A a \in DOMAIN h : h[a] \in Header
    BY <1>2, HeaderFcnProperties
  <2>2. \A a \in DOMAIN h \ {n} :
          (IF a = b THEN [h[a] EXCEPT !.size = size] ELSE h[a]) \in Header
    BY <1>5, <2>1
  <2> HIDE DEF size
  <2>3. f \in [DOMAIN h \ {n} -> Header]
    BY <2>2
  <2> QED BY <2>1, <2>3 DEF HeaderFcn
<1>7. /\ DOMAIN f = DOMAIN h \ {n}
      /\ \A a \in DOMAIN f :
           /\ f[a].size = IF a = b THEN size ELSE h[a].size
           /\ f[a].free <=> h[a].free
           /\ f[a].prev_free <=> h[a].prev_free
           /\ f[a].prev_phys = h[a].prev_phys
  <2>1. LET r == [h[b] EXCEPT !.size = size]
        IN  /\ r.size = size
            /\ r.free <=> h[b].free
            /\ r.prev_free <=> h[b].prev_free
            /\ r.prev_phys = h[b].prev_phys
    BY <1>4 DEF Header
  <2> HIDE DEF size
  <2> QED BY <2>1
<1> HIDE DEF f
<1>8. l \in PoolType /\ SameLists(p, l) /\ l.header = f
  BY <1>6, HeaderReplaced
<1> HIDE DEF l
<1>9. b \in DOMAIN f /\ NextOf(f, b) = NextOf(h, n) /\ NextOf(h, n) \in DOMAIN f
  BY <1>3, <1>4, <1>7 DEF NextOf
<1>10. /\ q \in PoolType /\ SameLists(l, q)
       /\ PrevPhysSet(f, q.header, NextOf(h, n), b)
  BY <1>1, <1>8, <1>9, LinkNextProperties
<1>11. Absorbed(h, q.header, b)
  <2>1. /\ DOMAIN q.header = DOMAIN h \ {n}
        /\ \A a \in DOMAIN q.header :
             /\ q.header[a].size = IF a = b THEN size ELSE h[a].size
             /\ q.header[a].free <=> h[a].free
             /\ q.header[a].prev_free <=> h[a].prev_free
             /\ q.header[a].prev_phys = IF a = NextOf(h, n) THEN b ELSE h[a].prev_phys
    BY <1>7, <1>10 DEF PrevPhysSet, SameBlocks
  <2> QED BY <2>1 DEF Absorbed, n
<1> QED BY <1>8, <1>10, <1>11 DEF SameLists, h

(* A header at n, whether there was one or not.                            *)
EntryPut(h, g, n, r) ==
  /\ DOMAIN g = DOMAIN h \cup {n} /\ g[n] = r
  /\ \A a \in DOMAIN h \ {n} : g[a] = h[a]

(* What Put leaves.                                                        *)
LEMMA PutEntry ==
  ASSUME NEW h \in HeaderFcn, NEW n \in Nat, NEW r \in Header, NEW g, g = Put(h, n, r)
  PROVE  g \in HeaderFcn /\ EntryPut(h, g, n, r)
<1>1. /\ DOMAIN g = DOMAIN h \cup {n} /\ g[n] = r
      /\ \A a \in DOMAIN h \ {n} : g[a] = h[a]
      /\ g = [a \in DOMAIN h \cup {n} |-> g[a]]
  BY DEF Put
<1>2. DOMAIN h \subseteq Nat /\ \A a \in DOMAIN h : h[a] \in Header
  BY HeaderFcnProperties
<1>3. \A a \in DOMAIN g : g[a] \in Header
  BY <1>1, <1>2
<1>4. g \in [DOMAIN g -> Header]
  BY <1>1, <1>3
<1> QED BY <1>1, <1>2, <1>4, HeaderFcnProperties DEF EntryPut

(* block_trim_free, up to the insertion of the rest into its list.         *)
Trimmed(p, b, w) ==
  LET rest  == b + w + BLK_HEADER_OVERHEAD
      split == LinkNext(MarkAsFree(Split(p, b, w), rest), b)
  IN  [split EXCEPT !.header[rest].prev_free = TRUE]

(* The writes of block_trim_free, one after another, split the block.      *)
LEMMA TrimmedProperties ==
  ASSUME NEW p \in PoolType, NEW A, InHeap(A), Shape(p.header, A), Flags(p.header),
         NEW b \in DOMAIN p.header, p.header[b].free, NEW w \in Nat, w >= BLK_SIZE_MIN,
         p.header[b].size >= w + HEADER_SIZE,
         NEW q, q = Trimmed(p, b, w)
  PROVE  q \in PoolType /\ SameLists(p, q) /\ SplitAt(p.header, q.header, b, w)
<1> DEFINE h == p.header
           r == b + w + 1
           m == NextOf(h, b)
           new == [size |-> h[b].size - (w + 1), free |-> FALSE,
                   prev_free |-> FALSE, prev_phys |-> NULL]
           e == [h EXCEPT ![b].size = w]
           s == Split(p, b, w)
           t == MarkAsFree(s, r)
           u == LinkNext(t, b)
           g == [u.header EXCEPT ![r].prev_free = TRUE]
<1>1. /\ h \in HeaderFcn /\ m \in DOMAIN h /\ h[m].prev_free
      /\ h[b].size > 0 /\ h[b].free /\ b \in DOMAIN h
      /\ \A a \in DOMAIN h : a <= b \/ m <= a
  BY DEF PoolType, Flags, Shape
<1>2. /\ h[b].size \in Nat /\ b \in Nat /\ m \in Nat /\ \A a \in DOMAIN h : a \in Nat
  BY <1>1, HeaderFields
<1>3. w >= 3 /\ h[b].size >= w + 4 /\ m = b + h[b].size + 1
  BY DEF BLK_SIZE_MIN, HEADER_SIZE, NextOf
<1>4. q = [u EXCEPT !.header = g]
  <2>1. q = [u EXCEPT !.header[r].prev_free = TRUE]
    BY DEF Trimmed, BLK_HEADER_OVERHEAD
  <2> HIDE DEF u
  <2> QED BY <2>1
<1> HIDE DEF h, m
<1>5. /\ r \in Nat /\ b < r /\ r < m /\ r + (h[b].size - (w + 1)) + 1 = m
      /\ r \notin DOMAIN h
  BY <1>1, <1>2, <1>3
<1>6. s = [p EXCEPT !.header = Put(e, r, new)]
  BY DEF Split, BLK_HEADER_OVERHEAD, h
<1>7. new \in Header
  <2>1. h[b].size - (w + 1) \in Nat /\ NULL \in Nat \cup {NULL}
    BY <1>2, <1>3
  <2> QED BY <2>1 DEF Header
<1>8. e \in HeaderFcn /\ SizeSet(h, e, b, w)
  BY <1>1, SetSize
<1> HIDE DEF e, r
<1>9. /\ new.size = h[b].size - (w + 1)
      /\ new.free <=> FALSE
      /\ new.prev_free <=> FALSE
  OBVIOUS
<1> HIDE DEF new
<1>10. /\ s \in PoolType /\ SameLists(p, s)
       /\ DOMAIN s.header = DOMAIN h \cup {r} /\ s.header[r] = new
       /\ \A a \in DOMAIN h : s.header[a] = e[a]
  <2> DEFINE k == Put(e, r, new)
  <2> HIDE DEF k
  <2>1. k \in HeaderFcn /\ EntryPut(e, k, r, new)
    BY <1>5, <1>7, <1>8, PutEntry DEF k
  <2>2. s \in PoolType /\ SameLists(p, s) /\ s.header = k
    BY <1>6, <2>1, HeaderReplaced DEF k
  <2>3. DOMAIN e = DOMAIN h
    BY <1>8 DEF SizeSet
  <2> QED BY <2>1, <2>2, <2>3, <1>5 DEF EntryPut
<1> HIDE DEF s
<1>11. /\ NextOf(s.header, r) = m /\ NextOf(s.header, b) = r
       /\ m \in DOMAIN s.header /\ r \in DOMAIN s.header
  <2>1. s.header[b].size = w
    BY <1>1, <1>8, <1>10 DEF SizeSet
  <2> QED BY <2>1, <1>1, <1>5, <1>9, <1>10 DEF NextOf, r
<1>12. t \in PoolType /\ SameLists(s, t) /\ MarkedFree(s.header, t.header, r)
  BY <1>10, <1>11, MarkAsFreeProperties
<1> HIDE DEF t
<1>13. /\ DOMAIN t.header = DOMAIN s.header /\ NextOf(t.header, b) = r
       /\ b \in DOMAIN t.header /\ r \in DOMAIN t.header
  BY <1>1, <1>10, <1>11, <1>12 DEF MarkedFree, SameBlocks, NextOf
<1>14. /\ u \in PoolType /\ SameLists(t, u)
       /\ PrevPhysSet(t.header, u.header, r, b)
  BY <1>12, <1>13, LinkNextProperties
<1> HIDE DEF u
<1>15. g \in HeaderFcn /\ PrevFreeSet(u.header, g, r, TRUE)
  <2>1. u.header \in HeaderFcn /\ r \in DOMAIN u.header
    BY <1>13, <1>14 DEF PoolType, PrevPhysSet, SameBlocks
  <2> QED BY <2>1, SetPrevFree
<1> HIDE DEF g
<1>16. q \in PoolType /\ SameLists(u, q) /\ q.header = g
  BY <1>4, <1>14, <1>15, HeaderReplaced
<1>17. SameLists(p, q)
  BY <1>10, <1>12, <1>14, <1>16 DEF SameLists
<1>18. SplitAt(h, g, b, w)
  <2>1. DOMAIN g = DOMAIN h \cup {r}
    BY <1>10, <1>13, <1>14, <1>15 DEF PrevFreeSet, PrevPhysSet, SameBlocks
  <2>2. \A a \in DOMAIN g :
          /\ g[a].size = s.header[a].size
          /\ g[a].free <=> (a = r \/ s.header[a].free)
          /\ g[a].prev_free <=> (a = r \/ a = m \/ s.header[a].prev_free)
          /\ g[a].prev_phys = IF a = r THEN b ELSE IF a = m THEN r ELSE s.header[a].prev_phys
    BY <2>1, <1>10, <1>11, <1>12, <1>13, <1>14, <1>15
       DEF PrevFreeSet, PrevPhysSet, MarkedFree, SameBlocks
  <2>3. \A a \in DOMAIN h : /\ s.header[a].size = IF a = b THEN w ELSE h[a].size
                            /\ s.header[a].free <=> h[a].free
                            /\ s.header[a].prev_free <=> h[a].prev_free
                            /\ s.header[a].prev_phys = h[a].prev_phys
    BY <1>8, <1>10 DEF SizeSet
  <2>4. \A a \in DOMAIN g :
          /\ g[a].size = IF a = b THEN w
                         ELSE IF a = r THEN h[b].size - (w + 1) ELSE h[a].size
          /\ g[a].free <=> (a = r \/ h[a].free)
          /\ g[a].prev_free <=> (a = r \/ h[a].prev_free)
          /\ g[a].prev_phys = IF a = r THEN b ELSE IF a = m THEN r ELSE h[a].prev_phys
    <3> SUFFICES ASSUME NEW a \in DOMAIN g
                 PROVE  /\ g[a].size = IF a = b THEN w
                                       ELSE IF a = r THEN h[b].size - (w + 1) ELSE h[a].size
                        /\ g[a].free <=> (a = r \/ h[a].free)
                        /\ g[a].prev_free <=> (a = r \/ h[a].prev_free)
                        /\ g[a].prev_phys = IF a = r THEN b ELSE IF a = m THEN r ELSE h[a].prev_phys
      OBVIOUS
    <3>1. CASE a = r
      BY <3>1, <2>2, <1>5, <1>9, <1>10
    <3>2. CASE a # r
      BY <3>2, <2>1, <2>2, <2>3, <1>1
    <3> QED BY <3>1, <3>2
  <2> QED BY <2>1, <2>4 DEF SplitAt, r, m
<1> QED BY <1>16, <1>17, <1>18 DEF h

(* rtl_mem_pool_add_mem, up to the insertion of the block into its list.   *)
Grown(p, c, w) ==
  LET b    == c.base - 1
      free == [size |-> w, free |-> TRUE, prev_free |-> FALSE, prev_phys |-> NULL]
      last == [size |-> 0, free |-> FALSE, prev_free |-> TRUE, prev_phys |-> b]
  IN  [p EXCEPT !.header = Put(Put(@, b + w + BLK_HEADER_OVERHEAD, last), b, free)]

(* The writes of rtl_mem_pool_add_mem make the two headers of a new chunk. *)
LEMMA GrownProperties ==
  ASSUME NEW p \in PoolType, NEW c \in Chunk, WordsLeft(c) >= BLK_SIZE_MIN,
         NEW q, q = Grown(p, c, WordsLeft(c))
  PROVE  q \in PoolType /\ SameLists(p, q) /\ Extended(p.header, q.header, c)
<1> DEFINE h == p.header
           b == c.base - 1
           l == c.base + WordsLeft(c)
           free == NewBlock(WordsLeft(c))
           last == EndBlock(b)
           e == Put(h, l, last)
           f == Put(e, b, free)
<1>1. c.base \in Nat \ {0} /\ WordsLeft(c) \in Nat /\ WordsLeft(c) >= 3
  BY ChunkProperties DEF BLK_SIZE_MIN
<1>2. b \in Nat /\ l \in Nat /\ b # l /\ b + WordsLeft(c) + 1 = l
  BY <1>1
<1>3. free \in Header /\ last \in Header
  BY <1>1, <1>2 DEF Header, NewBlock, EndBlock
<1>4. h \in HeaderFcn
  BY DEF PoolType
<1>5. q = [p EXCEPT !.header = Put(Put(h, l, last), b, free)]
  BY <1>2 DEF Grown, BLK_HEADER_OVERHEAD, NewBlock, EndBlock
<1> HIDE DEF h, b, l, free, last
<1> HIDE DEF e, f
<1>6. e \in HeaderFcn /\ EntryPut(h, e, l, last)
  BY <1>2, <1>3, <1>4, PutEntry DEF e
<1>7. f \in HeaderFcn /\ EntryPut(e, f, b, free)
  BY <1>2, <1>3, <1>6, PutEntry DEF f
<1>8. q \in PoolType /\ SameLists(p, q) /\ q.header = f
  BY <1>5, <1>7, HeaderReplaced DEF e, f
<1>9. /\ DOMAIN f = DOMAIN h \cup {b, l}
      /\ \A a \in DOMAIN h \ {b, l} : f[a] = h[a]
      /\ f[b] = free /\ f[l] = last
  BY <1>2, <1>6, <1>7 DEF EntryPut
<1>10. Extended(h, f, c)
  BY <1>9 DEF Extended, b, l, free, last
<1> QED BY <1>8, <1>10 DEF h
-----------------------------------------------------------------------------
(* A pool whose blocks and lists agree, but for the blocks in X, which are *)
(* free and in no list yet.                                                *)

(* The state of the allocator during an operation on the chunks A: the     *)
(* blocks in X are free and in no list, and may have free neighbours.      *)
WellFormed(p, A, X) ==
  /\ p \in PoolType
  /\ Shape(p.header, A) /\ Flags(p.header) /\ NoTwoFree(p.header, X)
  /\ BlocksListed(p, X) /\ BitsAgree(p)

(* The used blocks of g are those of h but for those in X, as large.       *)
UsedBut(h, g, X) ==
  /\ Used(g) = Used(h) \ X
  /\ \A a \in Used(g) : g[a].size = h[a].size

(* Writes that change the size of no listed block leave the lists as they  *)
(* should be.                                                              *)
LEMMA ListedFrame ==
  ASSUME NEW p \in PoolType, NEW q \in PoolType, SameLists(p, q),
         NEW X, NEW Y, FreeBut(q.header, Y) = FreeBut(p.header, X),
         \A a \in FreeBut(p.header, X) : q.header[a].size = p.header[a].size,
         BlocksListed(p, X), BitsAgree(p)
  PROVE  BlocksListed(q, Y) /\ BitsAgree(q)
<1>1. BlocksListed(q, Y)
  <2> SUFFICES ASSUME NEW i \in ListClass
               PROVE  /\ IsInjective(q.blocks[i.fl][i.sl])
                      /\ \A b \in Nat : Linked(q.blocks[i.fl][i.sl], b) <=>
                           b \in FreeBut(q.header, Y) /\ MappingInsert(q.header[b].size) = i
    BY DEF BlocksListed
  <2>1. /\ IsInjective(p.blocks[i.fl][i.sl])
        /\ \A b \in Nat : Linked(p.blocks[i.fl][i.sl], b) <=>
             b \in FreeBut(p.header, X) /\ MappingInsert(p.header[b].size) = i
    BY DEF BlocksListed
  <2> QED BY <2>1 DEF SameLists
<1>2. BitsAgree(q)
  BY DEF BitsAgree, SameLists
<1> QED BY <1>1, <1>2

(* block_insert uses the list that its free block belongs to.              *)
LEMMA BlockInserted ==
  ASSUME NEW p \in PoolType, NEW A, InHeap(A), Shape(p.header, A), Flags(p.header),
         NEW X, NEW b \in X, BlocksListed(p, X), BitsAgree(p),
         b \in DOMAIN p.header, p.header[b].free,
         NEW q, q = BlockInsert(p, b)
  PROVE  /\ q \in PoolType /\ q.header = p.header
         /\ BlocksListed(q, X \ {b}) /\ BitsAgree(q)
<1> DEFINE i == MappingInsert(p.header[b].size)
<1>1. p.header \in HeaderFcn /\ p.header[b].size > 0
  BY DEF PoolType, Flags
<1>2. i \in ListClass
  BY <1>1, SizeBound
<1> HIDE DEF i
<1>3. q = InsertFreeBlock(p, b, i)
  BY DEF BlockInsert, i
<1> QED BY <1>2, <1>3, InsertedListed DEF i

(* block_remove uses the list that its free block is in.                   *)
LEMMA BlockRemoved ==
  ASSUME NEW p \in PoolType, NEW A, InHeap(A), Shape(p.header, A), Flags(p.header),
         NEW X, BlocksListed(p, X), BitsAgree(p),
         NEW b \in DOMAIN p.header, p.header[b].free,
         NEW q, q = BlockRemove(p, b)
  PROVE  /\ q \in PoolType /\ q.header = p.header
         /\ BlocksListed(q, X \cup {b}) /\ BitsAgree(q)
<1> DEFINE i == MappingInsert(p.header[b].size)
<1>1. p.header \in HeaderFcn /\ p.header[b].size > 0
  BY DEF PoolType, Flags
<1>2. i \in ListClass /\ b \in Nat
  BY <1>1, SizeBound, HeaderFields
<1> HIDE DEF i
<1>3. q = RemoveFreeBlock(p, b, i)
  BY DEF BlockRemove, i
<1> QED BY <1>2, <1>3, RemovedListed DEF i

(* block_mark_as_free leaves a block that is in no list yet.               *)
LEMMA MarkAsFreeKeeps ==
  ASSUME NEW p, NEW A, InHeap(A), WellFormed(p, A, {}), NEW b \in Used(p.header),
         NEW q, q = MarkAsFree(p, b)
  PROVE  /\ WellFormed(q, A, {b}) /\ b \in DOMAIN q.header /\ q.header[b].free
         /\ UsedBut(p.header, q.header, {b})
<1> DEFINE h == p.header
           g == q.header
<1>1. /\ p \in PoolType /\ Shape(h, A) /\ Flags(h) /\ NoTwoFree(h, {})
      /\ BlocksListed(p, {}) /\ BitsAgree(p) /\ h \in HeaderFcn
  BY DEF WellFormed, PoolType
<1>2. b \in DOMAIN h /\ ~h[b].free /\ NextOf(h, b) \in DOMAIN h
  BY <1>1 DEF Used, Shape
<1>3. q \in PoolType /\ SameLists(p, q) /\ MarkedFree(h, g, b)
  BY <1>1, <1>2, MarkAsFreeProperties
<1> HIDE DEF h, g
<1>4. Shape(g, A) /\ Flags(g) /\ NoTwoFree(g, {b}) /\ Used(g) = Used(h) \ {b}
  <2>1. b \in Used(h)
    BY DEF h
  <2> QED BY <2>1, <1>1, <1>3, HeapMarkFree
<1>5. /\ DOMAIN g = DOMAIN h /\ \A a \in DOMAIN h : g[a].size = h[a].size
      /\ \A a \in DOMAIN h : g[a].free <=> h[a].free \/ a = b
  BY <1>3 DEF MarkedFree, SameBlocks
<1>6. FreeBut(g, {b}) = FreeBut(h, {})
  BY <1>2, <1>5 DEF FreeBut
<1>7. \A a \in FreeBut(h, {}) : g[a].size = h[a].size
  BY <1>5 DEF FreeBut
<1>8. BlocksListed(q, {b}) /\ BitsAgree(q)
  BY <1>1, <1>3, <1>6, <1>7, ListedFrame DEF g, h
<1>9. UsedBut(h, g, {b})
  BY <1>4, <1>5 DEF UsedBut, Used
<1> QED BY <1>2, <1>3, <1>4, <1>5, <1>8, <1>9 DEF WellFormed, g, h

(* block_absorb of two blocks that were taken out of their lists leaves    *)
(* one that is in none.                                                    *)
LEMMA AbsorbKeeps ==
  ASSUME NEW p \in PoolType, NEW A, InHeap(A), Shape(p.header, A), Flags(p.header),
         NEW b \in DOMAIN p.header, p.header[b].free,
         NEW n, n = NextOf(p.header, b), p.header[n].free,
         NEW X, X = {b, n}, BlocksListed(p, X), BitsAgree(p),
         NEW q, q = Absorb(p, b, n)
  PROVE  /\ q \in PoolType /\ Absorbed(p.header, q.header, b)
         /\ BlocksListed(q, {b}) /\ BitsAgree(q) /\ UsedBut(p.header, q.header, {})
<1> DEFINE h == p.header
           g == q.header
<1>1. /\ q \in PoolType /\ SameLists(p, q) /\ Absorbed(h, g, b)
  BY AbsorbProperties
<1>2. h \in HeaderFcn
  BY DEF PoolType
<1> HIDE DEF h, g
<1>3. /\ Shape(h, A) /\ Flags(h) /\ b \in DOMAIN h /\ h[b].free /\ n = NextOf(h, b) /\ h[n].free
  BY DEF h
<1>4. Used(g) = Used(h) /\ b \in DOMAIN g /\ g[b].free
  BY <1>1, <1>2, <1>3, HeapAbsorb
<1>5. /\ DOMAIN g = DOMAIN h \ {n}
      /\ \A a \in DOMAIN g : /\ a # b => g[a].size = h[a].size
                             /\ g[a].free <=> h[a].free
  BY <1>1, <1>3 DEF Absorbed
<1>6. FreeBut(g, {b}) = FreeBut(h, X)
  BY <1>5 DEF FreeBut
<1>7. \A a \in FreeBut(h, X) : g[a].size = h[a].size
  BY <1>5 DEF FreeBut
<1>8. BlocksListed(q, {b}) /\ BitsAgree(q)
  BY <1>1, <1>6, <1>7, ListedFrame DEF g, h
<1>9. UsedBut(h, g, {})
  BY <1>4, <1>5 DEF UsedBut, Used
<1> QED BY <1>1, <1>8, <1>9 DEF g, h

(* block_merge_prev leaves a block whose predecessor is used.              *)
LEMMA MergePrevKeeps ==
  ASSUME NEW p, NEW A, InHeap(A), NEW b, WellFormed(p, A, {b}),
         b \in DOMAIN p.header, p.header[b].free,
         NEW q, q = MergePrev(p, b)[1], NEW m, m = MergePrev(p, b)[2]
  PROVE  /\ WellFormed(q, A, {m}) /\ m \in DOMAIN q.header /\ q.header[m].free
         /\ ~q.header[m].prev_free /\ UsedBut(p.header, q.header, {})
<1> DEFINE h == p.header
<1>1. /\ p \in PoolType /\ Shape(h, A) /\ Flags(h) /\ NoTwoFree(h, {b})
      /\ BlocksListed(p, {b}) /\ BitsAgree(p) /\ h \in HeaderFcn
  BY DEF WellFormed, PoolType
<1>2. CASE ~h[b].prev_free
  <2>1. q = p /\ m = b
    BY <1>2 DEF MergePrev
  <2> QED BY <2>1, <1>2 DEF UsedBut
<1>3. CASE h[b].prev_free
  <2> DEFINE r == BlockRemove(p, m)
  <2>1. m = h[b].prev_phys /\ q = Absorb(r, m, b)
    BY <1>3 DEF MergePrev
  <2>2. m \in DOMAIN h /\ h[m].free /\ NextOf(h, m) = b
    BY <2>1, <1>1, <1>3 DEF Flags
  <2>3. /\ r \in PoolType /\ r.header = h
        /\ BlocksListed(r, {b} \cup {m}) /\ BitsAgree(r)
    <3> HIDE DEF r
    <3> QED BY <2>2, <1>1, BlockRemoved DEF r
  <2> HIDE DEF r
  <2>4. {b} \cup {m} = {m, b}
    OBVIOUS
  <2>5. /\ q \in PoolType /\ Absorbed(h, q.header, m)
        /\ BlocksListed(q, {m}) /\ BitsAgree(q) /\ UsedBut(h, q.header, {})
    BY <2>1, <2>2, <2>3, <2>4, <1>1, AbsorbKeeps, SMTT(30)
  <2> DEFINE g == q.header
  <2> HIDE DEF h, g
  <2>6. h[b].free /\ Absorbed(h, g, m)
    BY <2>5 DEF h, g
  <2>7. /\ Shape(g, A) /\ Flags(g) /\ m \in DOMAIN g /\ g[m].free
        /\ NoTwoFree(g, {m}) /\ ~g[m].prev_free
    BY <2>2, <2>6, <1>1, HeapAbsorb
  <2> QED BY <2>5, <2>7 DEF WellFormed, g, h
<1> QED BY <1>2, <1>3

(* block_merge_next leaves a block whose neighbours are both used.         *)
LEMMA MergeNextKeeps ==
  ASSUME NEW p, NEW A, InHeap(A), NEW b, WellFormed(p, A, {b}),
         b \in DOMAIN p.header, p.header[b].free, ~p.header[b].prev_free,
         NEW q, q = MergeNext(p, b)
  PROVE  /\ WellFormed(q, A, {b}) /\ b \in DOMAIN q.header /\ q.header[b].free
         /\ ~q.header[b].prev_free /\ ~q.header[NextOf(q.header, b)].free
         /\ UsedBut(p.header, q.header, {})
<1> DEFINE h == p.header
           n == NextOf(h, b)
<1>1. /\ p \in PoolType /\ Shape(h, A) /\ Flags(h) /\ NoTwoFree(h, {b})
      /\ BlocksListed(p, {b}) /\ BitsAgree(p) /\ h \in HeaderFcn
  BY DEF WellFormed, PoolType
<1>2. BlockNext(p, b) = n /\ n \in DOMAIN h
  BY <1>1 DEF BlockNext, NextOf, BLK_HEADER_OVERHEAD, Flags, Shape
<1>3. CASE ~h[n].free
  <2>1. q = p
    BY <1>2, <1>3 DEF MergeNext
  <2> QED BY <2>1, <1>3 DEF UsedBut
<1>4. CASE h[n].free
  <2> DEFINE r == BlockRemove(p, n)
  <2> HIDE DEF n, r
  <2>1. q = Absorb(r, b, n)
    BY <1>2, <1>4 DEF MergeNext, r
  <2>2. /\ r \in PoolType /\ r.header = h
        /\ BlocksListed(r, {b} \cup {n}) /\ BitsAgree(r)
    BY <1>1, <1>2, <1>4, BlockRemoved DEF r
  <2>3. {b} \cup {n} = {b, n} /\ n = NextOf(h, b)
    BY DEF n
  <2>4. /\ q \in PoolType /\ Absorbed(h, q.header, b)
        /\ BlocksListed(q, {b}) /\ BitsAgree(q) /\ UsedBut(h, q.header, {})
    BY <2>1, <2>2, <2>3, <1>1, <1>4, AbsorbKeeps
  <2> DEFINE g == q.header
  <2>5. b \in DOMAIN h /\ h[b].free /\ ~h[b].prev_free
    OBVIOUS
  <2> HIDE DEF h, g
  <2>6. Absorbed(h, g, b) /\ h[NextOf(h, b)].free
    BY <2>3, <2>4, <1>4 DEF g
  <2>7. /\ Shape(g, A) /\ Flags(g) /\ b \in DOMAIN g /\ g[b].free
        /\ NoTwoFree(g, {b}) /\ ~g[NextOf(g, b)].free
        /\ g[b].prev_free <=> h[b].prev_free
    BY <2>5, <2>6, <1>1, HeapAbsorb
  <2> QED BY <2>4, <2>5, <2>7 DEF WellFormed, g, h
<1> QED BY <1>3, <1>4

(* A free block between used ones is no exception any more.                *)
LEMMA NoneAdjacent ==
  ASSUME NEW h, NEW A, Shape(h, A), Flags(h), NEW b \in DOMAIN h, NoTwoFree(h, {b}),
         ~h[b].prev_free, ~h[NextOf(h, b)].free
  PROVE  NoTwoFree(h, {})
<1> SUFFICES ASSUME NEW a \in DOMAIN h, h[a].free, h[NextOf(h, a)].free PROVE FALSE
  BY DEF NoTwoFree
<1>1. h[NextOf(h, a)].prev_free
  BY DEF Flags
<1> QED BY <1>1 DEF NoTwoFree

(* rtl_mem_pool_free.                                                      *)
LEMMA FreedKeeps ==
  ASSUME NEW p, NEW A, InHeap(A), WellFormed(p, A, {}), NEW b \in Used(p.header),
         NEW q, q = Freed(p, b)
  PROVE  WellFormed(q, A, {}) /\ UsedBut(p.header, q.header, {b})
<1> DEFINE r == MarkAsFree(p, b)
           s == MergePrev(r, b)[1]
           m == MergePrev(r, b)[2]
           t == MergeNext(s, m)
<1>1. q = BlockInsert(t, m)
  BY DEF Freed
<1> HIDE DEF r, s, m, t
<1>2. /\ WellFormed(r, A, {b}) /\ b \in DOMAIN r.header /\ r.header[b].free
      /\ UsedBut(p.header, r.header, {b})
  BY MarkAsFreeKeeps DEF r
<1>3. /\ WellFormed(s, A, {m}) /\ m \in DOMAIN s.header /\ s.header[m].free
      /\ ~s.header[m].prev_free /\ UsedBut(r.header, s.header, {})
  BY <1>2, MergePrevKeeps DEF s, m
<1>4. /\ WellFormed(t, A, {m}) /\ m \in DOMAIN t.header /\ t.header[m].free
      /\ ~t.header[m].prev_free /\ ~t.header[NextOf(t.header, m)].free
      /\ UsedBut(s.header, t.header, {})
  BY <1>3, MergeNextKeeps DEF t
<1>5. NoTwoFree(t.header, {})
  <2> DEFINE h == t.header
  <2>1. Shape(h, A) /\ Flags(h) /\ NoTwoFree(h, {m})
    BY <1>4 DEF WellFormed
  <2>2. m \in DOMAIN h /\ ~h[m].prev_free /\ ~h[NextOf(h, m)].free
    BY <1>4
  <2> HIDE DEF h
  <2>3. NoTwoFree(h, {})
    BY <2>1, <2>2, NoneAdjacent
  <2> QED BY <2>3 DEF h
<1>6. WellFormed(q, A, {}) /\ q.header = t.header
  <2>1. /\ t \in PoolType /\ Shape(t.header, A) /\ Flags(t.header)
        /\ BlocksListed(t, {m}) /\ BitsAgree(t) /\ m \in {m}
    BY <1>4 DEF WellFormed
  <2>2. /\ q \in PoolType /\ q.header = t.header
        /\ BlocksListed(q, {m} \ {m}) /\ BitsAgree(q)
    BY <2>1, <1>1, <1>4, BlockInserted
  <2>3. {m} \ {m} = {}
    OBVIOUS
  <2> QED BY <2>1, <2>2, <2>3, <1>5 DEF WellFormed
<1> QED BY <1>2, <1>3, <1>4, <1>6 DEF UsedBut

(* block_trim_free of a block that was taken out of its list.              *)
LEMMA TrimFreeKeeps ==
  ASSUME NEW p \in PoolType, NEW A, InHeap(A), Shape(p.header, A), Flags(p.header),
         NoTwoFree(p.header, {}), NEW b \in DOMAIN p.header, p.header[b].free,
         BlocksListed(p, {b}), BitsAgree(p),
         NEW w \in Nat, w >= BLK_SIZE_MIN, p.header[b].size >= w,
         NEW q, q = TrimFree(p, b, w)
  PROVE  /\ WellFormed(q, A, {b}) /\ b \in DOMAIN q.header /\ q.header[b].free
         /\ q.header[b].size >= w /\ UsedBut(p.header, q.header, {})
<1> DEFINE h == p.header
           r == b + w + 1
<1>1. CASE ~CanSplit(p, b, w)
  <2>1. q = p
    BY <1>1 DEF TrimFree
  <2> QED BY <2>1 DEF WellFormed, NoTwoFree, UsedBut
<1>2. CASE CanSplit(p, b, w)
  <2> DEFINE s == Trimmed(p, b, w)
             g == s.header
  <2>1. q = BlockInsert(s, r)
    BY <1>2 DEF TrimFree, Trimmed, BLK_HEADER_OVERHEAD
  <2>2. h[b].size >= w + HEADER_SIZE /\ h[b].size \in Nat
    <3>1. h \in HeaderFcn
      BY DEF PoolType
    <3>2. h[b].size \in Nat
      BY <3>1, HeaderFields
    <3> QED BY <3>2, <1>2 DEF CanSplit, HEADER_SIZE
  <2> HIDE DEF s
  <2>3. s \in PoolType /\ SameLists(p, s) /\ SplitAt(h, g, b, w)
    BY <2>2, TrimmedProperties DEF s
  <2>4. /\ h \in HeaderFcn /\ Shape(h, A) /\ Flags(h) /\ NoTwoFree(h, {})
        /\ b \in DOMAIN h /\ h[b].free
    BY DEF PoolType
  <2> HIDE DEF h, g
  <2>5. /\ Shape(g, A) /\ Flags(g) /\ NoTwoFree(g, {b}) /\ Used(g) = Used(h)
        /\ r \notin DOMAIN h
    BY <2>2, <2>3, <2>4, HeapSplit
  <2>6. /\ DOMAIN g = DOMAIN h \cup {r} /\ g[r].free /\ g[b].free /\ g[b].size = w
        /\ \A a \in DOMAIN h : /\ a # b => g[a].size = h[a].size
                               /\ g[a].free <=> h[a].free
    BY <2>3, <2>4, <2>5 DEF SplitAt
  <2>7. FreeBut(g, {b, r}) = FreeBut(h, {b})
    BY <2>5, <2>6 DEF FreeBut
  <2>8. \A a \in FreeBut(h, {b}) : g[a].size = h[a].size
    BY <2>6 DEF FreeBut
  <2>9. BlocksListed(s, {b, r}) /\ BitsAgree(s)
    BY <2>3, <2>7, <2>8, ListedFrame DEF g, h
  <2>10. /\ q \in PoolType /\ q.header = g
         /\ BlocksListed(q, {b, r} \ {r}) /\ BitsAgree(q)
    <3>1. r \in {b, r} /\ r \in DOMAIN g
      BY <2>6
    <3> HIDE DEF r
    <3> QED BY <3>1, <2>1, <2>3, <2>5, <2>6, <2>9, BlockInserted DEF g
  <2>11. {b, r} \ {r} = {b}
    BY <2>4, <2>5
  <2>12. UsedBut(h, g, {})
    BY <2>4, <2>5, <2>6, SMTT(30) DEF UsedBut, Used
  <2>13. WellFormed(q, A, {b})
    BY <2>5, <2>10, <2>11 DEF WellFormed
  <2> QED BY <2>4, <2>6, <2>10, <2>12, <2>13 DEF h
<1> QED BY <1>1, <1>2

(* block_mark_as_used ends the exception for the block that was taken out  *)
(* of its list.                                                            *)
LEMMA MarkAsUsedKeeps ==
  ASSUME NEW p, NEW A, InHeap(A), NEW b, WellFormed(p, A, {b}),
         b \in DOMAIN p.header, p.header[b].free,
         NEW q, q = MarkAsUsed(p, b)
  PROVE  /\ WellFormed(q, A, {}) /\ Used(q.header) = Used(p.header) \cup {b}
         /\ SameBlocks(p.header, q.header)
<1> DEFINE h == p.header
           g == q.header
<1>1. /\ p \in PoolType /\ Shape(h, A) /\ Flags(h) /\ NoTwoFree(h, {b})
      /\ BlocksListed(p, {b}) /\ BitsAgree(p) /\ h \in HeaderFcn
      /\ b \in DOMAIN h /\ h[b].free
  BY DEF WellFormed, PoolType
<1>2. NextOf(h, b) \in DOMAIN h
  BY <1>1 DEF Flags, Shape
<1>3. q \in PoolType /\ SameLists(p, q) /\ MarkedUsed(h, g, b)
  BY <1>1, <1>2, MarkAsUsedProperties
<1> HIDE DEF h, g
<1>4. Shape(g, A) /\ Flags(g) /\ NoTwoFree(g, {}) /\ Used(g) = Used(h) \cup {b}
  BY <1>1, <1>3, HeapMarkUsed
<1>5. /\ DOMAIN g = DOMAIN h /\ \A a \in DOMAIN h : g[a].size = h[a].size
      /\ \A a \in DOMAIN h : g[a].free <=> h[a].free /\ a # b
      /\ SameBlocks(h, g)
  BY <1>3 DEF MarkedUsed, SameBlocks
<1>6. FreeBut(g, {}) = FreeBut(h, {b})
  BY <1>5 DEF FreeBut
<1>7. \A a \in FreeBut(h, {b}) : g[a].size = h[a].size
  BY <1>5 DEF FreeBut
<1>8. BlocksListed(q, {}) /\ BitsAgree(q)
  BY <1>1, <1>3, <1>6, <1>7, ListedFrame DEF g, h
<1> QED BY <1>3, <1>4, <1>5, <1>8 DEF WellFormed, g, h

(* b becomes used, with w words at least.                                  *)
Taken(h, g, b, w) ==
  /\ b \in DOMAIN g /\ g[b].size >= w
  /\ b \notin Used(h) /\ Used(g) = Used(h) \cup {b}
  /\ \A a \in Used(h) : g[a].size = h[a].size

(* fx_mem_pool_alloc, of w words from the first block of a list.           *)
LEMMA PreparedKeeps ==
  ASSUME NEW p, NEW A, InHeap(A), WellFormed(p, A, {}),
         NEW i \in ListClass, p.blocks[i.fl][i.sl] # << >>,
         NEW b, b = Head(p.blocks[i.fl][i.sl]),
         NEW w \in Nat, w >= BLK_SIZE_MIN,
         \A s \in Sizeable : MappingInsert(s) = i => w <= s,
         NEW q, q = PrepareUsed(RemoveFreeBlock(p, b, i), b, w)
  PROVE  WellFormed(q, A, {}) /\ Taken(p.header, q.header, b, w)
<1> DEFINE h == p.header
           list == p.blocks[i.fl][i.sl]
           r == RemoveFreeBlock(p, b, i)
           t == TrimFree(r, b, w)
<1>1. /\ p \in PoolType /\ Shape(h, A) /\ Flags(h) /\ NoTwoFree(h, {})
      /\ BlocksListed(p, {}) /\ BitsAgree(p) /\ h \in HeaderFcn
  BY DEF WellFormed, PoolType
<1>2. list \in Seq(Nat) /\ list # << >>
  BY <1>1 DEF PoolType, Lists, ListClass
<1>3. b \in Nat /\ Linked(list, b)
  <2>1. b = Head(list)
    OBVIOUS
  <2> HIDE DEF list
  <2>2. 1 \in 1 .. Len(list) /\ Head(list) = list[1] /\ list[1] \in Nat
    BY <1>2, SMTT(30)
  <2> QED BY <2>1, <2>2 DEF Linked
<1>4. b \in FreeBut(h, {}) /\ MappingInsert(h[b].size) = i
  BY <1>1, <1>3 DEF BlocksListed
<1>5. b \in DOMAIN h /\ h[b].free /\ h[b].size > 0
  BY <1>1, <1>4 DEF FreeBut, Flags
<1>6. h[b].size >= w /\ h[b].size \in Nat
  <2>1. h[b].size \in Nat /\ h[b].size < BLK_SIZE_MAX
    BY <1>1, <1>5, SizeBound, HeaderFields
  <2>2. h[b].size \in Sizeable
    <3> DEFINE v == h[b].size
    <3>1. v \in Nat /\ v > 0 /\ v < BLK_SIZE_MAX
      BY <2>1, <1>5
    <3> HIDE DEF v
    <3>2. v \in Nat \ {0}
      BY <3>1
    <3>3. v \in Sizeable
      BY <3>1, <3>2, ListedSize
    <3> QED BY <3>3 DEF v
  <2> QED BY <2>1, <2>2, <1>4
<1> HIDE DEF r, t
<1>7. /\ r \in PoolType /\ r.header = h
      /\ BlocksListed(r, {} \cup {b}) /\ BitsAgree(r)
  BY <1>1, <1>3, <1>4, RemovedListed DEF r
<1>8. {} \cup {b} = {b}
  OBVIOUS
<1>9. /\ WellFormed(t, A, {b}) /\ b \in DOMAIN t.header /\ t.header[b].free
      /\ t.header[b].size >= w /\ UsedBut(h, t.header, {})
  BY <1>1, <1>5, <1>6, <1>7, <1>8, TrimFreeKeeps DEF t
<1>10. /\ WellFormed(q, A, {}) /\ Used(q.header) = Used(t.header) \cup {b}
       /\ SameBlocks(t.header, q.header)
  <2>1. q = MarkAsUsed(t, b)
    BY DEF PrepareUsed, t, r
  <2> QED BY <2>1, <1>9, MarkAsUsedKeeps
<1>11. b \notin Used(h)
  BY <1>5 DEF Used
<1> QED BY <1>9, <1>10, <1>11 DEF UsedBut, SameBlocks, Used, Taken

(* fx_mem_pool_add_mem of memory whose class is within the arrays.         *)
LEMMA WithMemKeeps ==
  ASSUME NEW p, NEW A, InHeap(A), WellFormed(p, A, {}),
         NEW c \in Chunk \ A, WordsLeft(c) >= BLK_SIZE_MIN, WordsLeft(c) < BLK_SIZE_MAX,
         NEW q, q = WithMem(p, c, WordsLeft(c))
  PROVE  WellFormed(q, A \cup {c}, {}) /\ UsedBut(p.header, q.header, {})
<1> DEFINE h == p.header
           b == c.base - 1
           s == Grown(p, c, WordsLeft(c))
           g == s.header
<1>1. /\ p \in PoolType /\ Shape(h, A) /\ Flags(h) /\ NoTwoFree(h, {})
      /\ BlocksListed(p, {}) /\ BitsAgree(p) /\ h \in HeaderFcn
  BY DEF WellFormed, PoolType
<1>2. q = BlockInsert(s, b)
  BY DEF WithMem, Grown
<1> HIDE DEF s
<1>3. s \in PoolType /\ SameLists(p, s) /\ Extended(h, g, c)
  BY <1>1, GrownProperties DEF s
<1> HIDE DEF h, g
<1>4. /\ Shape(g, A \cup {c}) /\ Flags(g) /\ NoTwoFree(g, {}) /\ Used(g) = Used(h)
      /\ b \notin DOMAIN h /\ \A a \in DOMAIN h : a \in DOMAIN g /\ g[a] = h[a]
  BY <1>1, <1>3, HeapExtend
<1>5. /\ b \in DOMAIN g /\ g[b].free
      /\ \A a \in DOMAIN g : a \in DOMAIN h \/ a = b \/ ~g[a].free
  BY <1>3 DEF Extended, NewBlock, EndBlock
<1> HIDE DEF b
<1>6. FreeBut(g, {b}) = FreeBut(h, {})
  BY <1>4, <1>5 DEF FreeBut
<1>7. \A a \in FreeBut(h, {}) : g[a].size = h[a].size
  BY <1>4 DEF FreeBut
<1>8. BlocksListed(s, {b}) /\ BitsAgree(s)
  BY <1>1, <1>3, <1>6, <1>7, ListedFrame DEF g, h
<1>9. InHeap(A \cup {c})
  BY DEF InHeap
<1>10. /\ q \in PoolType /\ q.header = g
       /\ BlocksListed(q, {b} \ {b}) /\ BitsAgree(q)
  <2>1. b \in {b}
    OBVIOUS
  <2> QED BY <2>1, <1>2, <1>3, <1>4, <1>5, <1>8, <1>9, BlockInserted DEF g
<1>11. {b} \ {b} = {}
  OBVIOUS
<1>12. UsedBut(h, g, {})
  BY <1>4 DEF UsedBut, Used
<1> QED BY <1>4, <1>10, <1>11, <1>12 DEF WellFormed, h

(* search_suitable_block finds a list that is not empty, if there is one   *)
(* from i on.                                                              *)
LEMMA SearchFinds ==
  ASSUME NEW p \in PoolType, BitsAgree(p), NEW i \in ListClass
  PROVE  /\ \/ SearchSuitable(p, i) = << >>
            \/ \E j \in ListClass : /\ SearchSuitable(p, i) = << j >>
                                    /\ p.blocks[j.fl][j.sl] # << >>
                                    /\ i = j \/ Before(i, j)
         /\ \A k \in ListClass :
              p.blocks[k.fl][k.sl] # << >> /\ (i = k \/ Before(i, k)) =>
                SearchSuitable(p, i) # << >>
<1> DEFINE sl_map == {sl \in p.sl_bitmap[i.fl] : sl >= i.sl}
           fl_map == {fl \in p.fl_bitmap : fl > i.fl}
           fl == Min(fl_map)
           sl == Min(p.sl_bitmap[fl])
<1>1. /\ i.fl \in FlIndex /\ i.sl \in SlIndex /\ i = [fl |-> i.fl, sl |-> i.sl]
      /\ p.fl_bitmap \in SUBSET FlIndex /\ p.sl_bitmap \in [FlIndex -> SUBSET SlIndex]
      /\ FlIndex \subseteq Nat /\ SlIndex \subseteq Nat
  BY DEF PoolType, ListClass, FlIndex, SlIndex
<1>2. \A j \in ListClass : /\ j.fl \in FlIndex /\ j.sl \in SlIndex
                           /\ j = [fl |-> j.fl, sl |-> j.sl]
                           /\ j.sl \in p.sl_bitmap[j.fl] <=> p.blocks[j.fl][j.sl] # << >>
  BY DEF BitsAgree, ListClass
<1>3. \A f \in FlIndex : f \in p.fl_bitmap <=> p.sl_bitmap[f] # {}
  BY DEF BitsAgree
<1>4. SearchSuitable(p, i) =
        IF sl_map # {} THEN << [fl |-> i.fl, sl |-> Min(sl_map)] >>
        ELSE IF fl_map # {} THEN << [fl |-> fl, sl |-> sl] >> ELSE << >>
  BY DEF SearchSuitable
<1>5. CASE sl_map # {}
  <2> DEFINE j == [fl |-> i.fl, sl |-> Min(sl_map)]
  <2>1. Min(sl_map) \in sl_map
    <3>1. sl_map \in SUBSET Nat
      BY <1>1
    <3> HIDE DEF sl_map
    <3> QED BY <3>1, <1>5, MinProperties
  <2>2. j.fl = i.fl /\ j.sl \in p.sl_bitmap[i.fl] /\ j.sl >= i.sl /\ j.sl \in SlIndex
    BY <2>1, <1>1
  <2>3. j \in ListClass
    BY <2>2, <1>1 DEF ListClass
  <2>4. SearchSuitable(p, i) = << j >>
    BY <1>4, <1>5
  <2> HIDE DEF j, sl_map, fl_map
  <2>5. p.blocks[j.fl][j.sl] # << >>
    BY <2>2, <2>3, <1>2
  <2>6. i = j \/ Before(i, j)
    BY <2>2, <2>3, <1>1, <1>2 DEF Before
  <2> QED BY <2>3, <2>4, <2>5, <2>6
<1>6. CASE sl_map = {} /\ fl_map # {}
  <2> DEFINE j == [fl |-> fl, sl |-> sl]
  <2>1. fl \in fl_map
    <3>1. fl_map \in SUBSET Nat
      BY <1>1
    <3> HIDE DEF fl_map
    <3> QED BY <3>1, <1>6, MinProperties
  <2>2. fl \in FlIndex /\ fl > i.fl /\ p.sl_bitmap[fl] # {}
    BY <2>1, <1>1, <1>3
  <2> HIDE DEF fl
  <2>3. sl \in p.sl_bitmap[fl]
    <3>1. p.sl_bitmap[fl] \in SUBSET Nat
      BY <2>2, <1>1
    <3> QED BY <3>1, <2>2, MinProperties
  <2> HIDE DEF sl
  <2>4. j.fl = fl /\ j.sl = sl /\ j \in ListClass
    BY <2>2, <2>3, <1>1 DEF ListClass
  <2>5. SearchSuitable(p, i) = << j >>
    BY <1>4, <1>6
  <2> HIDE DEF j, sl_map, fl_map
  <2>6. p.blocks[j.fl][j.sl] # << >>
    BY <2>3, <2>4, <1>2
  <2>7. Before(i, j)
    BY <2>2, <2>4 DEF Before
  <2> QED BY <2>4, <2>5, <2>6, <2>7
<1>7. CASE sl_map = {} /\ fl_map = {}
  <2>1. SearchSuitable(p, i) = << >>
    BY <1>4, <1>7
  <2>2. ASSUME NEW k \in ListClass, p.blocks[k.fl][k.sl] # << >>, i = k \/ Before(i, k)
        PROVE  FALSE
    <3>1. k.sl \in p.sl_bitmap[k.fl] /\ k.fl \in p.fl_bitmap
      BY <2>2, <1>2, <1>3
    <3>2. CASE k.fl = i.fl
      <4>1. k.sl >= i.sl
        BY <2>2, <3>2, <1>1, <1>2 DEF Before
      <4> QED BY <3>1, <3>2, <4>1, <1>7
    <3>3. CASE k.fl # i.fl
      <4>1. k.fl > i.fl
        BY <2>2, <3>3, <1>1, <1>2 DEF Before
      <4> QED BY <3>1, <4>1, <1>7
    <3> QED BY <3>2, <3>3
  <2> QED BY <2>1, <2>2
<1> QED BY <1>5, <1>6, <1>7
-----------------------------------------------------------------------------
(* The inductive invariant.                                                *)

(* The chunks whose memory is in the heap.                                 *)
Held == {c \in added : WordsLeft(c) < BLK_SIZE_MAX}

(* The inductive invariant: the heap is whole, its used blocks are those   *)
(* which were given out, each as large as was asked for.                   *)
PoolInv ==
  /\ WellFormed(Pool, Held, {})
  /\ DOMAIN asked = Used(header)
  /\ \A b \in DOMAIN asked : asked[b] \in Nat /\ header[b].size >= asked[b]
  /\ added \subseteq Chunk /\ outside \in BOOLEAN

(* The components of the allocator are the variables of the model.         *)
LEMMA PoolFields ==
  /\ Pool.header = header /\ Pool.blocks = blocks
  /\ Pool.fl_bitmap = fl_bitmap /\ Pool.sl_bitmap = sl_bitmap
BY DEF Pool

(* A step sets the variables to what a function returned.                  *)
LEMMA BecomesPool ==
  ASSUME NEW p \in PoolType, Becomes(p)
  PROVE  Pool' = p
<1>1. p = [header |-> p.header, blocks |-> p.blocks,
           fl_bitmap |-> p.fl_bitmap, sl_bitmap |-> p.sl_bitmap]
  BY DEF PoolType
<1> QED BY <1>1 DEF Becomes, Pool

(* rtl_mem_pool_init: nothing is in the heap.                              *)
LEMMA PoolInitial == PoolInit => PoolInv
<1> SUFFICES ASSUME PoolInit PROVE PoolInv
  OBVIOUS
<1>1. /\ header = << >> /\ added = {} /\ asked = << >> /\ outside = FALSE
      /\ blocks = [fl \in FlIndex |-> [sl \in SlIndex |-> << >>]]
      /\ fl_bitmap = {} /\ sl_bitmap = [fl \in FlIndex |-> {}]
  BY DEF PoolInit
<1>2. DOMAIN header = {} /\ DOMAIN asked = {}
  BY <1>1
<1>3. header \in HeaderFcn
  <2>1. header = [a \in {} |-> header[a]]
    BY <1>1
  <2>2. header \in [{} -> Header]
    BY <2>1
  <2> QED BY <2>2, <1>2, HeaderFcnProperties
<1>4. blocks \in Lists
  <2>1. << >> \in Seq(Nat)
    OBVIOUS
  <2>2. [sl \in SlIndex |-> << >>] \in [SlIndex -> Seq(Nat)]
    BY <2>1
  <2> QED BY <2>2, <1>1 DEF Lists
<1>5. Pool \in PoolType
  BY <1>1, <1>3, <1>4 DEF Pool, PoolType
<1>6. \A i \in ListClass : blocks[i.fl][i.sl] = << >> /\ sl_bitmap[i.fl] = {}
  BY <1>1 DEF ListClass
<1>7. IsInjective(<< >>) /\ \A b \in Nat : ~Linked(<< >>, b)
  BY DEF IsInjective, Linked
<1>8. BlocksListed(Pool, {})
  BY <1>2, <1>6, <1>7, PoolFields DEF BlocksListed, FreeBut
<1>9. BitsAgree(Pool)
  BY <1>1, <1>6, PoolFields DEF BitsAgree
<1>10. Shape(header, Held) /\ Flags(header) /\ NoTwoFree(header, {}) /\ Used(header) = {}
  BY <1>2 DEF Shape, Flags, NoTwoFree, Used
<1>11. WellFormed(Pool, Held, {})
  BY <1>5, <1>8, <1>9, <1>10, PoolFields DEF WellFormed
<1> QED BY <1>1, <1>2, <1>10, <1>11 DEF PoolInv

(* Chunks that are held were added and have a list.                        *)
LEMMA HeldInHeap ==
  ASSUME PoolInv
  PROVE  InHeap(Held)
BY DEF PoolInv, Held, InHeap

(* fx_mem_pool_add_mem keeps the invariant.                                *)
LEMMA AddMemKeeps ==
  ASSUME PoolInv, NEW c \in Chunk, AddMem(c)
  PROVE  PoolInv'
<1> DEFINE w == c.bytes \div ALIGN_SIZE - POOL_OVERHEAD
<1>1. /\ w = WordsLeft(c) /\ WordsLeft(c) \in Int
      /\ c \notin added /\ BLK_SIZE_MIN <= w /\ w <= BLK_SIZE_MAX
      /\ added' = added \cup {c} /\ asked' = asked
  BY ChunkProperties DEF AddMem
<1>2. WordsLeft(c) \in Sizeable /\ WordsLeft(c) \in Nat
  BY <1>1, DemandSizeable, PoolConstants DEF Demand, BLK_SIZE_MIN
<1>3. MappingInsert(WordsLeft(c)).fl \in FlIndex <=> WordsLeft(c) < BLK_SIZE_MAX
  BY <1>2, ClassBounds
<1>4. /\ WellFormed(Pool, Held, {}) /\ DOMAIN asked = Used(header)
      /\ \A b \in DOMAIN asked : asked[b] \in Nat /\ header[b].size >= asked[b]
      /\ added \subseteq Chunk /\ outside \in BOOLEAN
  BY DEF PoolInv
<1>5. CASE WordsLeft(c) < BLK_SIZE_MAX
  <2> DEFINE q == WithMem(Pool, c, WordsLeft(c))
  <2>1. Becomes(q) /\ outside' = outside
    BY <1>1, <1>3, <1>5 DEF AddMem
  <2>2. c \in Chunk \ Held /\ Held' = Held \cup {c}
    BY <1>1, <1>5 DEF Held
  <2> HIDE DEF q, w
  <2>3. WellFormed(q, Held \cup {c}, {}) /\ UsedBut(Pool.header, q.header, {})
    BY <2>2, <1>1, <1>4, <1>5, HeldInHeap, WithMemKeeps DEF q
  <2>4. Pool' = q /\ header' = q.header
    BY <2>1, <2>3, BecomesPool DEF WellFormed, Becomes
  <2>5. UsedBut(header, header', {})
    BY <2>3, <2>4, PoolFields
  <2> QED BY <2>1, <2>2, <2>3, <2>4, <2>5, <1>1, <1>4 DEF PoolInv, UsedBut
<1>6. CASE ~(WordsLeft(c) < BLK_SIZE_MAX)
  <2>1. /\ outside' = TRUE
        /\ header' = header /\ blocks' = blocks /\ fl_bitmap' = fl_bitmap
        /\ sl_bitmap' = sl_bitmap
    BY <1>1, <1>3, <1>6 DEF AddMem
  <2>2. Held' = Held
    BY <1>1, <1>6 DEF Held
  <2>3. Pool' = Pool
    BY <2>1 DEF Pool
  <2> QED BY <2>1, <2>2, <2>3, <1>1, <1>4 DEF PoolInv
<1> QED BY <1>5, <1>6

(* Where mapping_search leads within the arrays, the list that is found    *)
(* has only blocks that are large enough.                                  *)
LEMMA LocatedFits ==
  ASSUME NEW p \in PoolType, BitsAgree(p), NEW w \in Demand,
         MappingSearch(w).fl \in FlIndex, Located(p, w) # << >>,
         NEW i, i = Located(p, w)[1]
  PROVE  /\ i \in ListClass /\ p.blocks[i.fl][i.sl] # << >>
         /\ \A s \in Sizeable : MappingInsert(s) = i => w <= s
<1> DEFINE j == MappingSearch(w)
<1>1. j \in Class /\ w <= Low(j) /\ w \in Nat \ {0}
  BY SearchBounds DEF Demand
<1>2. j \in ListClass
  BY <1>1 DEF Class, ListClass
<1>3. Located(p, w) = SearchSuitable(p, j)
  BY <1>1 DEF Located
<1> HIDE DEF j
<1>4. PICK k \in ListClass : /\ SearchSuitable(p, j) = << k >>
                             /\ p.blocks[k.fl][k.sl] # << >>
                             /\ j = k \/ Before(j, k)
  BY <1>2, <1>3, SearchFinds
<1>5. i = k
  BY <1>3, <1>4
<1>6. k \in Class /\ j \in Class
  BY <1>1 DEF ListClass, Class, FlIndex
<1>7. ASSUME NEW s \in Sizeable, MappingInsert(s) = k PROVE w <= s
  <2>1. Low(k) <= s /\ s \in Nat /\ Low(k) \in Nat
    BY <1>7, ClassBounds DEF Sizeable
  <2>2. /\ Low(j) \in Nat /\ Width(j) \in Nat
        /\ Before(j, k) => Low(j) + Width(j) <= Low(k)
    BY <1>6, ClassesOrdered
  <2> QED BY <2>1, <2>2, <1>1, <1>4
<1> QED BY <1>4, <1>5, <1>7

(* fx_mem_pool_alloc keeps the invariant.                                  *)
LEMMA AllocKeeps ==
  ASSUME PoolInv, NEW bytes \in Request, Alloc(bytes)
  PROVE  PoolInv'
<1> DEFINE w == Adjust(bytes)
<1>1. w = 0 \/ (w \in Demand /\ w >= BLK_SIZE_MIN)
  BY AdjustBounds, MemPoolAssumption
<1>2. /\ WellFormed(Pool, Held, {}) /\ DOMAIN asked = Used(header)
      /\ \A b \in DOMAIN asked : asked[b] \in Nat /\ header[b].size >= asked[b]
      /\ added \subseteq Chunk /\ outside \in BOOLEAN
  BY DEF PoolInv
<1>3. CASE w # 0 /\ MappingSearch(w).fl \notin FlIndex
  <2>1. /\ outside' = TRUE /\ added' = added /\ asked' = asked
        /\ header' = header /\ blocks' = blocks /\ fl_bitmap' = fl_bitmap
        /\ sl_bitmap' = sl_bitmap
    BY <1>3 DEF Alloc
  <2>2. Held' = Held /\ Pool' = Pool
    BY <2>1 DEF Held, Pool
  <2> QED BY <2>1, <2>2, <1>2 DEF PoolInv
<1>4. CASE ~(w # 0 /\ MappingSearch(w).fl \notin FlIndex)
  <2> DEFINE i == Located(Pool, w)[1]
             b == Head(blocks[i.fl][i.sl])
             q == PrepareUsed(RemoveFreeBlock(Pool, b, i), b, w)
  <2>1. /\ Located(Pool, w) # << >> /\ Becomes(q) /\ asked' = Put(asked, b, w)
        /\ added' = added /\ outside' = outside
    BY <1>4 DEF Alloc
  <2> HIDE DEF w
  <2>2. /\ w \in Demand /\ w >= BLK_SIZE_MIN /\ MappingSearch(w).fl \in FlIndex
        /\ w \in Nat
    BY <2>1, <1>1, <1>4 DEF Located, Demand
  <2>3. Pool \in PoolType /\ BitsAgree(Pool)
    BY <1>2 DEF WellFormed
  <2> HIDE DEF i
  <2>4. /\ i \in ListClass /\ Pool.blocks[i.fl][i.sl] # << >>
        /\ \A s \in Sizeable : MappingInsert(s) = i => w <= s
    BY <2>1, <2>2, <2>3, LocatedFits DEF i
  <2>5. b = Head(Pool.blocks[i.fl][i.sl])
    BY PoolFields
  <2> HIDE DEF b, q
  <2>6. /\ WellFormed(q, Held, {}) /\ b \in DOMAIN q.header /\ q.header[b].size >= w
        /\ b \notin Used(header) /\ Used(q.header) = Used(header) \cup {b}
        /\ \A a \in Used(header) : q.header[a].size = header[a].size
    <3>1. WellFormed(q, Held, {}) /\ Taken(Pool.header, q.header, b, w)
      BY <2>2, <2>4, <2>5, <1>2, HeldInHeap, PreparedKeeps DEF q
    <3> QED BY <3>1, PoolFields DEF Taken
  <2>7. Pool' = q /\ header' = q.header
    BY <2>1, <2>6, BecomesPool DEF WellFormed, Becomes
  <2>8. Held' = Held
    BY <2>1 DEF Held
  <2>9. /\ DOMAIN asked' = DOMAIN asked \cup {b} /\ asked'[b] = w
        /\ \A a \in DOMAIN asked \ {b} : asked'[a] = asked[a]
    BY <2>1 DEF Put
  <2>10. \A a \in DOMAIN asked' : asked'[a] \in Nat /\ header'[a].size >= asked'[a]
    BY <2>2, <2>6, <2>7, <2>9, <1>2
  <2> QED BY <2>1, <2>6, <2>7, <2>8, <2>9, <2>10, <1>2 DEF PoolInv
<1> QED BY <1>3, <1>4

(* fx_mem_pool_free keeps the invariant.                                   *)
LEMMA FreeKeeps ==
  ASSUME PoolInv, NEW b \in DOMAIN asked, Free(b)
  PROVE  PoolInv'
<1> DEFINE q == Freed(Pool, b)
<1>1. /\ Becomes(q) /\ asked' = [a \in DOMAIN asked \ {b} |-> asked[a]]
      /\ added' = added /\ outside' = outside
  BY DEF Free
<1>2. /\ WellFormed(Pool, Held, {}) /\ DOMAIN asked = Used(header)
      /\ \A a \in DOMAIN asked : asked[a] \in Nat /\ header[a].size >= asked[a]
      /\ added \subseteq Chunk /\ outside \in BOOLEAN
  BY DEF PoolInv
<1> HIDE DEF q
<1>3. WellFormed(q, Held, {}) /\ UsedBut(header, q.header, {b})
  BY <1>2, HeldInHeap, FreedKeeps, PoolFields DEF q
<1>4. Pool' = q /\ header' = q.header /\ Held' = Held
  BY <1>1, <1>3, BecomesPool DEF WellFormed, Becomes, Held
<1>5. /\ DOMAIN asked' = DOMAIN asked \ {b}
      /\ \A a \in DOMAIN asked' : asked'[a] = asked[a]
  BY <1>1
<1> QED BY <1>1, <1>2, <1>3, <1>4, <1>5 DEF PoolInv, UsedBut

(* The heap and its lists agree, whatever is added, asked for and given    *)
(* back.                                                                   *)
THEOREM PoolInvariant == PoolSpec => []PoolInv
<1>1. PoolInit => PoolInv
  BY PoolInitial
<1>2. PoolInv /\ [PoolNext]_poolVars => PoolInv'
  <2> SUFFICES ASSUME PoolInv, [PoolNext]_poolVars PROVE PoolInv'
    OBVIOUS
  <2>1. CASE PoolNext
    BY <2>1, AddMemKeeps, AllocKeeps, FreeKeeps DEF PoolNext
  <2>2. CASE UNCHANGED poolVars
    <3>1. Held' = Held /\ Pool' = Pool
      BY <2>2 DEF poolVars, Held, Pool
    <3> QED BY <2>2, <3>1 DEF PoolInv, poolVars
  <2> QED BY <2>1, <2>2
<1> QED BY <1>1, <1>2, PTL DEF PoolSpec
-----------------------------------------------------------------------------
(* The invariants that the runs check.                                     *)

(* What the invariant says of the variables.                               *)
LEMMA PoolState ==
  ASSUME PoolInv
  PROVE  /\ header \in HeaderFcn /\ blocks \in Lists
         /\ fl_bitmap \in SUBSET FlIndex /\ sl_bitmap \in [FlIndex -> SUBSET SlIndex]
         /\ Shape(header, Held) /\ Flags(header) /\ NoTwoFree(header, {})
         /\ BlocksListed(Pool, {}) /\ BitsAgree(Pool) /\ Pool \in PoolType
         /\ DOMAIN asked = Used(header) /\ InHeap(Held)
BY PoolFields, HeldInHeap DEF PoolInv, WellFormed, PoolType

(* Blocks follow one another, within their chunks, so none overlaps        *)
(* another.                                                                *)
LEMMA InvDisjoint == PoolInv => AllocationsDisjoint
<1> SUFFICES ASSUME PoolInv, NEW b \in DOMAIN asked
             PROVE  /\ header[b].size >= asked[b]
                    /\ \E c \in added : Words(b) \subseteq ChunkWords(c)
                    /\ \A a \in DOMAIN header \ {b} :
                         /\ a + 1 \notin Words(b)
                         /\ a \in DOMAIN asked => Words(a) \cap Words(b) = {}
  BY DEF AllocationsDisjoint
<1>1. /\ header \in HeaderFcn /\ Shape(header, Held) /\ InHeap(Held)
      /\ DOMAIN asked = Used(header)
  BY PoolState
<1>2. header[b].size >= asked[b]
  BY DEF PoolInv
<1>3. \A a \in Used(header) : a \in DOMAIN header /\ header[a].size > 0
  BY DEF Used
<1>4. \A a \in DOMAIN header : a \in Nat /\ header[a].size \in Nat
  BY <1>1, HeaderFields
<1>5. \A a \in DOMAIN header : Words(a) = a + 2 .. NextOf(header, a)
  BY <1>4 DEF Words, NextOf
<1>6. b \in DOMAIN header /\ header[b].size > 0 /\ b \in Nat /\ NextOf(header, b) \in Nat
  BY <1>1, <1>3, HeaderFields
<1>7. \E c \in added : Words(b) \subseteq ChunkWords(c)
  <2>1. PICK c \in Held : Within(c, header, b)
    BY <1>1, <1>6 DEF Shape
  <2>2. /\ c.base \in Nat /\ WordsLeft(c) \in Int /\ c \in added
        /\ ChunkWords(c) = c.base .. c.base + WordsLeft(c) + 1
    BY <1>1, ChunkProperties DEF InHeap, Held
  <2>3. b + 1 \in ChunkWords(c) /\ NextOf(header, b) + 1 \in ChunkWords(c)
    BY <2>1, <1>6 DEF Within
  <2>4. \A k \in b + 2 .. NextOf(header, b) : k \in ChunkWords(c)
    BY <2>2, <2>3, <1>6
  <2> QED BY <2>2, <2>4, <1>5, <1>6
<1>8. ASSUME NEW a \in DOMAIN header \ {b}
      PROVE  /\ a + 1 \notin Words(b)
             /\ a \in DOMAIN asked => Words(a) \cap Words(b) = {}
  <2>1. a \in Nat /\ NextOf(header, a) \in Nat /\ a # b
    BY <1>1, HeaderFields
  <2>2. a <= b \/ NextOf(header, b) <= a
    BY <1>1, <1>6 DEF Shape
  <2>3. a + 1 \notin Words(b)
    BY <2>1, <2>2, <1>5, <1>6
  <2>4. ASSUME a \in DOMAIN asked PROVE Words(a) \cap Words(b) = {}
    <3>1. b <= a \/ NextOf(header, a) <= b
      BY <2>4, <1>1, <1>3, <1>6 DEF Shape
    <3>2. \A k \in a + 2 .. NextOf(header, a) : k \notin b + 2 .. NextOf(header, b)
      BY <3>1, <2>1, <2>2, <1>6
    <3> QED BY <3>2, <1>5, <1>6
  <2> QED BY <2>3, <2>4
<1> QED BY <1>2, <1>7, <1>8

(* A list is a sequence of what is linked into it.                         *)
LEMMA SeqOfMembers ==
  ASSUME NEW S, NEW T, NEW s \in Seq(S), \A x \in S : Linked(s, x) => x \in T
  PROVE  s \in Seq(T)
<1>1. \A k \in 1 .. Len(s) : s[k] \in S
  OBVIOUS
<1>2. \A k \in 1 .. Len(s) : s[k] \in T
  BY <1>1 DEF Linked
<1>3. Len(s) \in Nat /\ s = [k \in 1 .. Len(s) |-> s[k]]
  OBVIOUS
<1>4. s \in [1 .. Len(s) -> T]
  BY <1>2, <1>3
<1> QED BY <1>3, <1>4, SeqDef

(* The invariant at the end of an operation, when no block is being moved. *)
LEMMA InvWellFormed == PoolInv => HeapWellFormed
<1> SUFFICES ASSUME PoolInv PROVE HeapWellFormed
  OBVIOUS
<1>1. /\ header \in HeaderFcn /\ blocks \in Lists
      /\ fl_bitmap \in SUBSET FlIndex /\ sl_bitmap \in [FlIndex -> SUBSET SlIndex]
      /\ Shape(header, Held) /\ Flags(header) /\ NoTwoFree(header, {})
      /\ BlocksListed(Pool, {}) /\ BitsAgree(Pool) /\ DOMAIN asked = Used(header)
  BY PoolState
<1>2. DOMAIN header \subseteq Nat /\ header \in [DOMAIN header -> Header]
  BY <1>1, HeaderFcnProperties
<1>3. ASSUME NEW fl \in FlIndex, NEW sl \in SlIndex
      PROVE  /\ IsInjective(blocks[fl][sl])
             /\ \A b \in Nat : Linked(blocks[fl][sl], b) <=>
                  /\ b \in DOMAIN header
                  /\ header[b].free /\ MappingInsert(header[b].size) = [fl |-> fl, sl |-> sl]
             /\ sl \in sl_bitmap[fl] <=> blocks[fl][sl] # << >>
  <2> DEFINE i == [fl |-> fl, sl |-> sl]
  <2>1. i \in ListClass /\ i.fl = fl /\ i.sl = sl
    BY DEF ListClass
  <2> HIDE DEF i
  <2>2. /\ IsInjective(blocks[fl][sl])
        /\ \A b \in Nat : Linked(blocks[fl][sl], b) <=>
             b \in FreeBut(header, {}) /\ MappingInsert(header[b].size) = i
        /\ sl \in sl_bitmap[fl] <=> blocks[fl][sl] # << >>
    BY <2>1, <1>1, PoolFields DEF BlocksListed, BitsAgree
  <2>3. \A b : b \in FreeBut(header, {}) <=> b \in DOMAIN header /\ header[b].free
    BY DEF FreeBut
  <2> QED BY <2>2, <2>3 DEF i
<1>4. blocks \in [FlIndex -> [SlIndex -> Seq(DOMAIN header)]]
  <2>1. /\ blocks = [fl \in FlIndex |-> blocks[fl]]
        /\ \A fl \in FlIndex : /\ blocks[fl] \in [SlIndex -> Seq(Nat)]
                               /\ blocks[fl] = [sl \in SlIndex |-> blocks[fl][sl]]
    BY <1>1 DEF Lists
  <2>2. ASSUME NEW fl \in FlIndex, NEW sl \in SlIndex
        PROVE  blocks[fl][sl] \in Seq(DOMAIN header)
    <3>1. blocks[fl][sl] \in Seq(Nat)
      BY <2>1
    <3>2. \A b \in Nat : Linked(blocks[fl][sl], b) => b \in DOMAIN header
      BY <1>3
    <3> QED BY <3>1, <3>2, SeqOfMembers
  <2>3. \A fl \in FlIndex : blocks[fl] \in [SlIndex -> Seq(DOMAIN header)]
    BY <2>1, <2>2
  <2> QED BY <2>1, <2>3
<1>5. PoolTypeOK
  BY <1>1, <1>2, <1>4 DEF PoolTypeOK, Used, PoolInv
<1>6. NeighboursAgree
  <2> SUFFICES ASSUME NEW b \in DOMAIN header, header[b].size > 0
               PROVE  LET next == b + header[b].size + BLK_HEADER_OVERHEAD
                      IN  /\ next \in DOMAIN header
                          /\ header[next].prev_free = header[b].free
                          /\ header[b].free =>
                               header[next].prev_phys = b /\ ~header[next].free
                          /\ header[b].free <=> b \notin DOMAIN asked
    BY DEF NeighboursAgree
  <2> DEFINE n == NextOf(header, b)
  <2>1. n \in DOMAIN header
    BY <1>1 DEF Shape
  <2>2. /\ header[n].prev_free <=> header[b].free
        /\ header[b].free => header[n].prev_phys = b
    BY <1>1 DEF Flags
  <2>3. header[n].prev_free \in BOOLEAN /\ header[b].free \in BOOLEAN
    BY <1>1, <2>1, HeaderFields
  <2>4. header[n].prev_free = header[b].free
    BY <2>2, <2>3
  <2>5. header[b].free => ~header[n].free
    BY <1>1 DEF NoTwoFree
  <2>6. header[b].free <=> b \notin DOMAIN asked
    BY <1>1 DEF Used
  <2>7. b + header[b].size + BLK_HEADER_OVERHEAD = n
    BY DEF NextOf, BLK_HEADER_OVERHEAD
  <2> HIDE DEF n
  <2> QED BY <2>1, <2>2, <2>4, <2>5, <2>6, <2>7
<1>7. FreeBlocksListed
  <2>1. \A fl \in FlIndex : fl \in fl_bitmap <=> sl_bitmap[fl] # {}
    BY <1>1, PoolFields DEF BitsAgree
  <2>2. \A fl \in FlIndex, sl \in SlIndex :
          /\ IsInjective(blocks[fl][sl])
          /\ \A b \in DOMAIN header : Linked(blocks[fl][sl], b) <=>
               header[b].free /\ MappingInsert(header[b].size) = [fl |-> fl, sl |-> sl]
          /\ sl \in sl_bitmap[fl] <=> blocks[fl][sl] # << >>
    BY <1>2, <1>3
  <2> QED BY <2>1, <2>2 DEF FreeBlocksListed
<1> QED BY <1>5, <1>6, <1>7 DEF HeapWellFormed

(* A free block is in the list of its class, which the bits lead to.       *)
LEMMA FreeIsFound ==
  ASSUME PoolInv, NEW b \in DOMAIN header, header[b].free,
         NEW j \in ListClass, Low(j) <= header[b].size
  PROVE  SearchSuitable(Pool, j) # << >>
<1> DEFINE s == header[b].size
           k == MappingInsert(s)
<1>1. /\ header \in HeaderFcn /\ Shape(header, Held) /\ Flags(header) /\ InHeap(Held)
      /\ BlocksListed(Pool, {}) /\ BitsAgree(Pool) /\ Pool \in PoolType
  BY PoolState
<1>2. s \in Nat /\ s > 0 /\ s < BLK_SIZE_MAX /\ k \in ListClass /\ b \in Nat
  BY <1>1, SizeBound, HeaderFields DEF Flags
<1> HIDE DEF s
<1>3. s \in Sizeable
  <2>1. s \in Nat \ {0}
    BY <1>2
  <2> QED BY <2>1, <1>2, ListedSize
<1>4. k = j \/ Before(j, k)
  <2>1. j \in Class
    BY DEF Class, ListClass, FlIndex
  <2>2. Low(j) <= s
    BY DEF s
  <2> QED BY <2>1, <2>2, <1>3, ClassUnique
<1>5. Linked(Pool.blocks[k.fl][k.sl], b)
  <2>1. b \in FreeBut(Pool.header, {}) /\ MappingInsert(Pool.header[b].size) = k
    BY PoolFields DEF FreeBut, s
  <2> HIDE DEF k
  <2> QED BY <2>1, <1>1, <1>2 DEF BlocksListed
<1> HIDE DEF k
<1>6. Pool.blocks[k.fl][k.sl] # << >>
  BY <1>5 DEF Linked
<1> QED BY <1>1, <1>2, <1>4, <1>6, SearchFinds

(* The class of the largest size that is reported.                         *)
LEMMA MaxBlkIsLow ==
  ASSUME PoolInv, MaxBlk > 0
  PROVE  \E i \in ListClass : /\ MaxBlk = Low(i) /\ Pool.blocks[i.fl][i.sl] # << >>
                              /\ Low(i) \in BLK_SIZE_MIN .. BLK_SIZE_MAX - 1
<1> DEFINE fl == Max(fl_bitmap)
           sl == Max(sl_bitmap[fl])
           i == [fl |-> fl, sl |-> sl]
<1>1. /\ fl_bitmap \in SUBSET FlIndex /\ sl_bitmap \in [FlIndex -> SUBSET SlIndex]
      /\ BitsAgree(Pool) /\ BlocksListed(Pool, {}) /\ Pool \in PoolType
      /\ header \in HeaderFcn /\ Shape(header, Held) /\ Flags(header) /\ InHeap(Held)
  BY PoolState
<1>2. /\ fl_bitmap # {}
      /\ MaxBlk = IF fl = 0 THEN sl
                  ELSE Pow2[fl + SL_INDEX_COUNT_LOG2 - 1] + Pow2[fl - 1] * sl
  BY DEF MaxBlk
<1>3. fl \in fl_bitmap /\ fl \in FlIndex
  <2>1. FL_INDEX_COUNT - 1 \in Nat
    BY PoolConstants
  <2> QED BY <2>1, <1>1, <1>2, MaxProperties DEF FlIndex
<1> HIDE DEF fl
<1>4. sl \in sl_bitmap[fl] /\ sl \in SlIndex
  <2>1. SL_INDEX_COUNT - 1 \in Nat
    BY PoolConstants
  <2>2. sl_bitmap[fl] \in SUBSET SlIndex /\ sl_bitmap[fl] # {}
    BY <1>1, <1>3, PoolFields DEF BitsAgree
  <2> QED BY <2>1, <2>2, MaxProperties DEF SlIndex
<1> HIDE DEF sl
<1>5. i \in ListClass /\ i.fl = fl /\ i.sl = sl
  BY <1>3, <1>4 DEF ListClass
<1>6. i \in Class /\ fl \in Nat /\ sl \in Nat
  BY <1>3, <1>4, <1>5 DEF Class, FlIndex, SlIndex
<1> HIDE DEF i
<1>7. Pool.blocks[i.fl][i.sl] # << >>
  BY <1>1, <1>4, <1>5, PoolFields DEF BitsAgree
<1>8. MaxBlk = Low(i)
  <2>1. CASE fl = 0
    BY <2>1, <1>2, <1>5 DEF Low
  <2>2. CASE fl # 0
    <3> DEFINE v == Pow2[fl - 1]
    <3>1. v \in Nat
      BY <2>2, <1>6, Pow2Grows
    <3>2. Pow2[fl + SL_INDEX_COUNT_LOG2 - 1] = v * SL_INDEX_COUNT
      <4>1. fl - 1 \in Nat /\ fl + SL_INDEX_COUNT_LOG2 - 1 = (fl - 1) + SL_INDEX_COUNT_LOG2
        BY <2>2, <1>6, PoolConstants
      <4> QED BY <4>1, Pow2Sum, PoolConstants
    <3> HIDE DEF v
    <3>3. v * (SL_INDEX_COUNT + sl) = v * SL_INDEX_COUNT + v * sl
      BY <3>1, <1>6, PoolConstants
    <3> QED BY <2>2, <3>2, <3>3, <1>2, <1>5 DEF Low, v
  <2> QED BY <2>1, <2>2
<1>9. PICK b \in DOMAIN header : header[b].free /\ MappingInsert(header[b].size) = i
  <2> DEFINE list == Pool.blocks[i.fl][i.sl]
  <2>1. list \in Seq(Nat) /\ list # << >>
    BY <1>1, <1>5, <1>7 DEF PoolType, Lists, ListClass
  <2>2. list[1] \in Nat /\ Linked(list, list[1])
    <3> HIDE DEF list
    <3>1. 1 \in 1 .. Len(list) /\ list[1] \in Nat
      BY <2>1
    <3> QED BY <3>1 DEF Linked
  <2>3. /\ list[1] \in FreeBut(header, {})
        /\ MappingInsert(header[list[1]].size) = i
    BY <2>2, <1>1, <1>5, PoolFields DEF BlocksListed
  <2> QED BY <2>3 DEF FreeBut
<1>10. /\ header[b].size \in Nat /\ header[b].size >= 3 /\ header[b].size < BLK_SIZE_MAX
       /\ header[b].size \in Nat \ {0}
  <2>1. header[b].size > 0
    BY <1>1, <1>9 DEF Flags
  <2>2. header[b].size >= BLK_SIZE_MIN
    BY <2>1, <1>1 DEF Shape, BLK_SIZE_MIN
  <2>3. header[b].size \in Nat /\ header[b].size < BLK_SIZE_MAX
    BY <2>1, <1>1, SizeBound, HeaderFields
  <2> QED BY <2>2, <2>3 DEF BLK_SIZE_MIN
<1>11. /\ Low(i) \in Nat /\ Low(i) <= header[b].size /\ header[b].size < Low(i) + Width(i)
  <2>1. header[b].size \in Sizeable
    BY <1>10, ListedSize
  <2> QED BY <2>1, <1>9, ClassBounds
<1>12. Low(i) >= 3
  <2>1. CASE Width(i) = 1
    BY <2>1, <1>10, <1>11
  <2>2. CASE Width(i) # 1
    <3>1. fl # 0 /\ fl # 1
      BY <2>2, <1>5, Pow2Def DEF Width
    <3>2. Pow2[fl - 1] \in Nat /\ Pow2[fl - 1] >= 2
      BY <3>1, <1>6, Pow2Grows
    <3>3. Low(i) = Pow2[fl - 1] * (SL_INDEX_COUNT + sl)
      BY <3>1, <1>5 DEF Low
    <3> DEFINE v == Pow2[fl - 1]
               a == SL_INDEX_COUNT + sl
    <3>4. v \in Nat /\ v >= 2 /\ a \in Nat /\ a >= 2
      BY <3>2, <1>6, PoolConstants
    <3> HIDE DEF v, a
    <3>5. v * 2 <= v * a
      BY <3>4, FactorCompares
    <3> QED BY <3>3, <3>4, <3>5 DEF v, a
  <2> QED BY <2>1, <2>2
<1>13. Low(i) \in BLK_SIZE_MIN .. BLK_SIZE_MAX - 1
  BY <1>10, <1>11, <1>12, PoolConstants DEF BLK_SIZE_MIN
<1> QED BY <1>5, <1>7, <1>8, <1>13

(* A request of the size that is reported leads to the class which that    *)
(* size was found in, or to one before it.                                 *)
LEMMA InvGoodFit == PoolInv => GoodFit
<1> SUFFICES ASSUME PoolInv PROVE GoodFit
  OBVIOUS
<1>1. ASSUME MaxBlk > 0 PROVE Found(Adjust(MaxBlk * ALIGN_SIZE))
  <2>1. PICK i \in ListClass : /\ MaxBlk = Low(i) /\ Pool.blocks[i.fl][i.sl] # << >>
                               /\ Low(i) \in BLK_SIZE_MIN .. BLK_SIZE_MAX - 1
    BY <1>1, MaxBlkIsLow
  <2> DEFINE w == Low(i)
  <2>2. w \in Nat \ {0} /\ w < BLK_SIZE_MAX /\ w \in Demand /\ w * ALIGN_SIZE \in Nat \ {0}
    <3> HIDE DEF w
    <3>1. w \in BLK_SIZE_MIN .. BLK_SIZE_MAX - 1
      BY <2>1 DEF w
    <3>2. w \in Nat \ {0} /\ w < BLK_SIZE_MAX /\ w * 4 \in Nat \ {0}
      BY <3>1, PoolConstants, SMTT(30) DEF BLK_SIZE_MIN
    <3> QED BY <3>2, PoolConstants DEF Demand
  <2>3. Adjust(w * ALIGN_SIZE) = w
    BY <2>1, <2>2, AdjustBounds
  <2>4. i \in Class
    BY DEF Class, ListClass, FlIndex
  <2>5. Width(i) \in Nat \ {0}
    BY <2>4, ClassesOrdered
  <2>6. MappingInsert(w) = i
    <3>1. w \in Sizeable /\ Low(i) <= w /\ w < Low(i) + Width(i)
      BY <2>2, <2>5, DemandSizeable
    <3> HIDE DEF w
    <3> QED BY <3>1, <2>4, ClassUnique
  <2>7. MappingSearch(w) = i
    <3>1. w = Low(MappingInsert(w))
      BY <2>6
    <3> HIDE DEF w
    <3> QED BY <3>1, <2>2, <2>6, SearchBounds
  <2>8. SearchSuitable(Pool, i) # << >>
    BY <2>1, PoolState, SearchFinds
  <2> HIDE DEF w
  <2>9. Found(w)
    BY <2>2, <2>7, <2>8 DEF Found, Located
  <2> QED BY <2>1, <2>3, <2>9 DEF w
<1>2. ASSUME NEW bytes \in Request, NEW b \in DOMAIN header,
             Adjust(bytes) # 0, MappingSearch(Adjust(bytes)).fl \in FlIndex,
             header[b].free,
             header[b].size >= Adjust(bytes) + Adjust(bytes) \div SL_INDEX_COUNT
      PROVE  Found(Adjust(bytes))
  <2> DEFINE w == Adjust(bytes)
             j == MappingSearch(w)
             v == Width(MappingInsert(w))
  <2>1. w \in Demand
    BY <1>2, AdjustBounds, MemPoolAssumption
  <2> HIDE DEF w
  <2>2. w \in Nat \ {0} /\ w \in Sizeable
    BY <2>1, DemandSizeable DEF Demand
  <2>3. v \in Nat \ {0} /\ v - 1 <= w \div SL_INDEX_COUNT
    BY <2>2, WidthBounds
  <2>4. header[b].size \in Nat
    BY PoolState, HeaderFields
  <2>5. header[b].size >= w + w \div SL_INDEX_COUNT /\ w \div SL_INDEX_COUNT \in Nat
    <3>1. SL_INDEX_COUNT \in Nat \ {0}
      BY PoolConstants
    <3>2. w \div SL_INDEX_COUNT \in Nat
      BY <3>1, <2>2, QuotientBounds
    <3> QED BY <3>2, <1>2 DEF w
  <2>6. w + v - 1 <= header[b].size
    BY <2>2, <2>3, <2>4, <2>5
  <2>7. j \in Class /\ Low(j) <= header[b].size
    BY <2>1, <2>4, <2>6, SearchBounds
  <2>8. j \in ListClass
    BY <2>7, <1>2 DEF Class, ListClass, w
  <2> HIDE DEF j
  <2>9. SearchSuitable(Pool, j) # << >>
    BY <1>2, <2>7, <2>8, FreeIsFound
  <2> QED BY <2>2, <2>9 DEF Found, Located, j, w
<1> QED BY <1>1, <1>2 DEF GoodFit

(* Memory that was given out is as large as was asked for, within memory   *)
(* that was added, and apart from all other blocks.                        *)
THEOREM AllocationsStayDisjoint == PoolSpec => []AllocationsDisjoint
BY PoolInvariant, InvDisjoint, PTL

(* No order of allocations and releases loses a free block, leaves one in  *)
(* a wrong list, or leaves two that follow one another apart.              *)
THEOREM HeapStaysWellFormed == PoolSpec => []HeapWellFormed
BY PoolInvariant, InvWellFormed, PTL

(* An allocation fails only when no free block has room for its class, and *)
(* the size that is reported as available can be had.                      *)
THEOREM FitStaysGood == PoolSpec => []GoodFit
BY PoolInvariant, InvGoodFit, PTL

-----------------------------------------------------------------------------
(* The last class of the arrays.                                           *)
LastClass == [fl |-> FL_INDEX_COUNT - 1, sl |-> SL_INDEX_COUNT - 1]

(* Chunks below the size that is supported, and requests that are not in   *)
(* the last class but for its smallest size.                               *)
SizesInRange ==
  /\ \A c \in Chunk : WordsLeft(c) < BLK_SIZE_MAX
  /\ \A bytes \in Request : Adjust(bytes) <= Low(LastClass)

(* The last class ends where sizes that are not supported begin.           *)
LEMMA LastClassEnds ==
  /\ LastClass \in Class /\ LastClass.fl = FL_INDEX_COUNT - 1
  /\ Low(LastClass) \in Nat /\ Width(LastClass) \in Nat \ {0}
  /\ Low(LastClass) + Width(LastClass) = BLK_SIZE_MAX
<1> DEFINE f == FL_INDEX_COUNT - 1
           s == SL_INDEX_COUNT - 1
<1>1. f \in Nat /\ s \in Nat /\ f = FL_INDEX_MAX - SL_INDEX_COUNT_LOG2 - 2
  BY PoolConstants
<1>2. LastClass \in Class /\ LastClass.fl = f /\ LastClass.sl = s
  BY <1>1, PoolConstants DEF LastClass, Class, SlIndex
<1>3. Low(LastClass) \in Nat /\ Width(LastClass) \in Nat \ {0}
  BY <1>2, ClassesOrdered
<1>4. CASE f = 0
  <2>1. FL_INDEX_MAX - 2 = SL_INDEX_COUNT_LOG2
    BY <1>1, <1>4, PoolConstants
  <2>2. BLK_SIZE_MAX = SL_INDEX_COUNT
    BY <2>1, PoolConstants
  <2>3. Low(LastClass) = s /\ Width(LastClass) = 1
    BY <1>2, <1>4 DEF Low, Width
  <2> QED BY <2>2, <2>3, <1>2, <1>3, PoolConstants
<1>5. CASE f # 0
  <2> DEFINE v == Pow2[f - 1]
  <2>1. v \in Nat \ {0} /\ f - 1 \in Nat
    <3>1. f - 1 \in Nat
      BY <1>5, PoolConstants
    <3>2. \A n \in Nat : Pow2[n] \in Nat \ {0}
      BY Pow2Grows
    <3> HIDE DEF f
    <3> QED BY <3>1, <3>2
  <2>2. BLK_SIZE_MAX = v * (2 * SL_INDEX_COUNT)
    <3> DEFINE m == f - 1 + SL_INDEX_COUNT_LOG2
    <3>1. m \in Nat /\ FL_INDEX_MAX - 2 = m + 1
      BY <2>1, <1>1, PoolConstants
    <3>2. Pow2[m] = v * SL_INDEX_COUNT
      BY <2>1, Pow2Sum, PoolConstants
    <3> HIDE DEF m
    <3>3. BLK_SIZE_MAX = 2 * Pow2[m]
      BY <3>1, Pow2Def, PoolConstants
    <3> HIDE DEF v
    <3>4. 2 * (v * SL_INDEX_COUNT) = v * (2 * SL_INDEX_COUNT)
      BY <2>1, PoolConstants
    <3> QED BY <3>2, <3>3, <3>4
  <2>3. Low(LastClass) = v * (SL_INDEX_COUNT + s) /\ Width(LastClass) = v
    BY <1>2, <1>5 DEF Low, Width
  <2> HIDE DEF v
  <2>4. v * (SL_INDEX_COUNT + s) + v = v * (2 * SL_INDEX_COUNT)
    <3>1. v * (SL_INDEX_COUNT + s) + v = v * (SL_INDEX_COUNT + s + 1)
      BY <2>1, <1>1, PoolConstants
    <3>2. SL_INDEX_COUNT + s + 1 = 2 * SL_INDEX_COUNT
      BY PoolConstants
    <3> QED BY <3>1, <3>2
  <2> QED BY <2>2, <2>3, <2>4, <1>2, <1>3
<1> QED BY <1>4, <1>5

(* A size in a class before the last one is rounded up to the last one at  *)
(* most.                                                                   *)
LEMMA SearchInRange ==
  ASSUME NEW w \in Demand, w <= Low(LastClass)
  PROVE  MappingSearch(w).fl \in FlIndex
<1> DEFINE i == MappingInsert(w)
           j == MappingSearch(w)
           k == LastClass
<1>1. /\ k \in Class /\ Low(k) \in Nat /\ Width(k) \in Nat \ {0}
      /\ Low(k) + Width(k) = BLK_SIZE_MAX /\ k.fl = FL_INDEX_COUNT - 1
  BY LastClassEnds
<1>2. w \in Sizeable /\ w \in Nat
  BY DemandSizeable DEF Demand
<1>3. /\ i \in Class /\ Low(i) \in Nat /\ Width(i) \in Nat \ {0}
      /\ Low(i) <= w /\ w < Low(i) + Width(i)
      /\ i.fl \in FlIndex
  <2>1. w < BLK_SIZE_MAX
    BY <1>1, <1>2
  <2> QED BY <2>1, <1>2, ClassBounds
<1>4. /\ j \in Class
      /\ w = Low(i) => j = i
      /\ \A s \in Nat : w + Width(i) - 1 <= s => Low(j) <= s
  BY SearchBounds
<1> HIDE DEF i, j, k
<1>5. CASE w = Low(i)
  BY <1>3, <1>4, <1>5 DEF j
<1>6. CASE w # Low(i)
  <2>1. w < Low(k)
    <3>1. w = Low(k) => i = k
      BY <1>1, <1>2, ClassUnique DEF i
    <3> QED BY <3>1, <1>1, <1>2, <1>6 DEF k
  <2>2. Width(i) <= Width(k)
    <3>1. i.fl \in Nat /\ i.fl <= k.fl /\ k.fl \in Nat
      BY <1>1, <1>3, PoolConstants DEF FlIndex
    <3>2. CASE i.fl = 0
      BY <3>2, <1>1 DEF Width
    <3>3. CASE i.fl # 0
      <4>1. i.fl - 1 \in Nat /\ k.fl - 1 \in Nat /\ i.fl - 1 <= k.fl - 1 /\ k.fl # 0
        BY <3>1, <3>3
      <4>2. Pow2[i.fl - 1] <= Pow2[k.fl - 1]
        BY <4>1, Pow2Grows
      <4> QED BY <3>3, <4>1, <4>2 DEF Width
    <3> QED BY <3>2, <3>3
  <2>3. BLK_SIZE_MAX - 1 \in Nat /\ w + Width(i) - 1 <= BLK_SIZE_MAX - 1
    BY <2>1, <2>2, <1>1, <1>2, <1>3
  <2>4. Low(j) <= BLK_SIZE_MAX - 1
    BY <2>3, <1>4
  <2>5. ~Before(k, j)
    <3>1. Low(j) \in Nat /\ (Before(k, j) => Low(k) + Width(k) <= Low(j))
      BY <1>1, <1>4, ClassesOrdered
    <3> QED BY <3>1, <2>4, <1>1
  <2>6. j.fl \in Nat /\ j.fl <= k.fl
    BY <2>5, <1>1, <1>4, PoolConstants DEF Before, Class
  <2> QED BY <2>6, <1>1, PoolConstants DEF FlIndex, j
<1> QED BY <1>5, <1>6

(* Where the run finds that sizes which the code accepts lead past the     *)
(* arrays, this says which sizes do not: chunks that leave less than       *)
(* BLK_SIZE_MAX words, and requests up to the smallest size of the last    *)
(* class.                                                                  *)
THEOREM SizesStayInRange ==
  ASSUME SizesInRange
  PROVE  PoolSpec => []IndexesInRange
<1>1. PoolInit => IndexesInRange
  BY DEF PoolInit, IndexesInRange
<1>2. IndexesInRange /\ [PoolNext]_poolVars => IndexesInRange'
  <2> SUFFICES ASSUME IndexesInRange, [PoolNext]_poolVars PROVE IndexesInRange'
    OBVIOUS
  <2>1. ASSUME NEW c \in Chunk, AddMem(c) PROVE IndexesInRange'
    <3> DEFINE w == c.bytes \div ALIGN_SIZE - POOL_OVERHEAD
    <3>1. /\ w = WordsLeft(c) /\ WordsLeft(c) \in Int /\ BLK_SIZE_MIN <= w
          /\ WordsLeft(c) < BLK_SIZE_MAX
      BY <2>1, ChunkProperties DEF AddMem, SizesInRange
    <3>2. w \in Sizeable
      BY <3>1, DemandSizeable, PoolConstants DEF Demand, BLK_SIZE_MIN
    <3>3. MappingInsert(w).fl \in FlIndex
      BY <3>1, <3>2, ClassBounds
    <3> QED BY <2>1, <3>3 DEF AddMem, IndexesInRange
  <2>2. ASSUME NEW bytes \in Request, Alloc(bytes) PROVE IndexesInRange'
    <3> DEFINE w == Adjust(bytes)
    <3>1. w = 0 \/ w \in Demand
      BY AdjustBounds, MemPoolAssumption
    <3>2. w <= Low(LastClass)
      BY DEF SizesInRange
    <3> HIDE DEF w
    <3>3. w # 0 => MappingSearch(w).fl \in FlIndex
      BY <3>1, <3>2, SearchInRange
    <3> QED BY <2>2, <3>3 DEF Alloc, IndexesInRange, w
  <2>3. ASSUME NEW b \in DOMAIN asked, Free(b) PROVE IndexesInRange'
    BY <2>3 DEF Free, IndexesInRange
  <2>4. CASE UNCHANGED poolVars
    BY <2>4 DEF poolVars, IndexesInRange
  <2> QED BY <2>1, <2>2, <2>3, <2>4 DEF PoolNext
<1> QED BY <1>1, <1>2, PTL DEF PoolSpec
=============================================================================
