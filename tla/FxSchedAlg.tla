----------------------------- MODULE FxSchedAlg -----------------------------
(***************************************************************************)
(* The container of the scheduler: nanokernel/sched/sched_alg/mpq.  One    *)
(* FIFO queue per priority and a two-level bitmap of the queues that are   *)
(* not empty: map2 has one bit per priority, map1 one bit per word of      *)
(* map2.  A bitmap word is the set of the positions of its bits.           *)
(***************************************************************************)
EXTENDS RtlQueue

CONSTANTS
  Item,         \* schedulable items: threads, or interrupt service routines
  PRIO_NUM,     \* FX_SCHED_ALG_PRIO_NUM; a lower number is a better priority
  WORD_BITS     \* bits of an unsigned int

(* fx_sched_alg.h:41 rejects more priorities than two levels of words can  *)
(* index, and the IDLE level needs a level above it.                       *)
ASSUME AlgAssumption ==
  /\ WORD_BITS \in Nat \ {0}
  /\ PRIO_NUM \in Nat
  /\ 2 <= PRIO_NUM
  /\ PRIO_NUM <= WORD_BITS * WORD_BITS

Prio == 0 .. (PRIO_NUM - 1)
PRIO_IDLE == PRIO_NUM - 1

WordOf(p) == p \div WORD_BITS
BitOf(p) == p % WORD_BITS
Word == 0 .. (WORD_BITS - 1)

Container ==
  [priority_queues : [Prio -> Seq(Item)],
   map1            : SUBSET Word,
   map2            : [Word -> SUBSET Word]]

EmptyContainer ==
  [priority_queues |-> [p \in Prio |-> << >>],
   map1            |-> {},
   map2            |-> [w \in Word |-> {}]]

(* MUTANT: a higher number preempts.                                       *)
IsPreempt_Swapped(p, q) == q < p

IsPreempt(p, q) == p < q

-----------------------------------------------------------------------------
ContainerAdd(c, i, p) ==
  [priority_queues |-> [c.priority_queues EXCEPT ![p] = Append(@, i)],
   map1            |-> c.map1 \cup {WordOf(p)},
   map2            |-> [c.map2 EXCEPT ![WordOf(p)] = @ \cup {BitOf(p)}]]

ContainerRemove(c, i, p) ==
  LET queues  == [q \in Prio |-> Unlink(c.priority_queues[q], i)]
      drained == queues[p] = << >>
      map2    == IF drained
                 THEN [c.map2 EXCEPT ![WordOf(p)] = @ \ {BitOf(p)}]
                 ELSE c.map2
      map1    == IF drained /\ map2[WordOf(p)] = {}
                 THEN c.map1 \ {WordOf(p)}
                 ELSE c.map1
  IN  [priority_queues |-> queues, map1 |-> map1, map2 |-> map2]

(* hw_cpu_ctz: the position of the lowest bit that is set.                 *)
Ctz(word) == CHOOSE b \in word : \A x \in word : b <= x

BestPrio(c) ==
  LET w == Ctz(c.map1) IN WORD_BITS * w + Ctz(c.map2[w])

ContainerGet(c) == Head(c.priority_queues[BestPrio(c)])

-----------------------------------------------------------------------------
(* The item is in the container.                                           *)
InContainer(c, i) == \E p \in Prio : Linked(c.priority_queues[p], i)

(* A bit of map2 is set exactly for a queue that is not empty, a bit of    *)
(* map1 exactly for a word of map2 that is not zero.                       *)
BitmapExact(c) ==
  /\ \A p \in Prio :
        (BitOf(p) \in c.map2[WordOf(p)]) <=> (c.priority_queues[p] # << >>)
  /\ \A w \in Word : (w \in c.map1) <=> (c.map2[w] # {})
  /\ \A w \in Word : \A b \in c.map2[w] : WORD_BITS * w + b \in Prio
=============================================================================
