---------------------------- MODULE PrioritySched ----------------------------
(***************************************************************************)
(* What a preemptive priority scheduler promises, with no word on how:     *)
(* the processor is given to a ready item of the best priority, and as     *)
(* long as no dispatch is owed the item that has it is still one of those. *)
(***************************************************************************)
EXTENDS Integers

CONSTANTS Item, Prio

VARIABLES
  ready,        \* items that can run
  prio,         \* the priority of each item, a lower number is better
  running,      \* the item that has the processor
  owed          \* a dispatch is owed before thread code runs again

vars == << ready, prio, running, owed >>

BestItems(r, p) == {i \in r : \A j \in r : p[i] <= p[j]}

Init ==
  /\ ready \in SUBSET Item
  /\ prio \in [Item -> Prio]
  /\ running \in ready
  /\ owed = TRUE

(* Items become ready, block, or change priority.  A dispatch that is owed *)
(* stays owed; none is needed only if the running item is still best.      *)
Change ==
  /\ ready' \in SUBSET Item
  /\ prio' \in [Item -> Prio]
  /\ owed' \in BOOLEAN
  /\ running' = running
  /\ owed => owed'
  /\ ~owed' => running \in BestItems(ready', prio')

Dispatch ==
  /\ owed
  /\ running' \in BestItems(ready, prio)
  /\ owed' = FALSE
  /\ UNCHANGED << ready, prio >>

Next == Change \/ Dispatch

Spec == Init /\ [][Next]_vars
=============================================================================
