--------------------------- MODULE FxSchedBitmap ---------------------------
(***************************************************************************)
(* The scheduler container with one item per priority,                     *)
(* sched/sched_alg/bitmap/fx_sched_alg.h.  items_map is the set of the     *)
(* positions of its bits; a smaller number is a better priority.           *)
(***************************************************************************)
EXTENDS Integers, FiniteSetsExt

EmptyContainer(P, none) == [items_map |-> {}, items |-> [p \in P |-> none]]

(* fx_sched_container_add.                                                 *)
ContainerAdd(c, item, p) ==
  [c EXCEPT !.items[p] = item, !.items_map = @ \cup {p}]

(* The same for a set of items, whose priorities differ.                   *)
ContainerAddAll(c, prio, S) ==
  [items_map |-> c.items_map \cup {prio[i] : i \in S},
   items |-> [p \in DOMAIN c.items |->
                IF \E i \in S : prio[i] = p
                THEN CHOOSE i \in S : prio[i] = p ELSE c.items[p]]]

(* fx_sched_container_remove.                                              *)
ContainerRemove(c, p, none) ==
  [c EXCEPT !.items[p] = none, !.items_map = @ \ {p}]

(* fx_sched_container_get: the item at the lowest bit that is set.         *)
ContainerGet(c) == c.items[Min(c.items_map)]
=============================================================================
