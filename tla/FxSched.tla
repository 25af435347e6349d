------------------------------- MODULE FxSched -------------------------------
(***************************************************************************)
(* The uniprocessor scheduler, nanokernel/sched/up/fx_sched.c, over the    *)
(* priority-queue container of FxSchedAlg.                                 *)
(*                                                                         *)
(* Every operation runs with interrupts disabled, so each is one atomic    *)
(* action.  The dispatch software interrupt is taken as soon as a thread   *)
(* enables interrupts again, so a critical section that a thread opens     *)
(* finds no request pending; one that an interrupt handler opens may.      *)
(* Several operations of one critical section are several actions here,    *)
(* which only adds interleavings.                                          *)
(***************************************************************************)
EXTENDS FxSchedAlg

CONSTANT Idle           \* the item of the IDLE thread

ASSUME IdleAssumption == Idle \in Item

VARIABLES
  resched_pending,      \* a reschedule was requested and not yet done
  changed,              \* changes_counter differs from the timestamp that
                        \*   the last boost of the active item took
  saved_params,         \* the active item's priority before that boost
  g_domain,             \* the container of the items that are ready
  active,               \* the item the processor was last given to
  suspend_count,
  prio                  \* sched_params.prio of each item

vars == << resched_pending, changed, saved_params, g_domain, active,
           suspend_count, prio >>

UserPrio == 0 .. (PRIO_IDLE - 1)

Ready(i) == InContainer(g_domain, i)
Best(i) == Ready(i) /\ \A j \in Item : Ready(j) => prio[i] <= prio[j]

-----------------------------------------------------------------------------
(* fx_thread_ctor: fx_sched_ctor, then the IDLE item is initialised, made  *)
(* active and resumed, which counts a change and requests a reschedule.    *)
(* Other items are memory that no one has initialised yet: not suspended   *)
(* and in no queue.                                                        *)
Init ==
  /\ prio = [i \in Item |-> IF i = Idle THEN PRIO_IDLE ELSE 0]
  /\ suspend_count = [i \in Item |-> 0]
  /\ active = Idle
  /\ g_domain = ContainerAdd(EmptyContainer, Idle, PRIO_IDLE)
  /\ changed = TRUE
  /\ saved_params = 0
  /\ resched_pending = TRUE

(* fx_sched_item_init with FX_SCHED_PARAMS_INIT_SPECIFIED.  The caller     *)
(* passes memory that is free for use: not queued, not on the processor.   *)
ItemInit(i, p) ==
  /\ i # Idle
  /\ i # active
  /\ ~Ready(i)
  /\ prio' = [prio EXCEPT ![i] = p]
  /\ suspend_count' = [suspend_count EXCEPT ![i] = 1]
  /\ UNCHANGED << resched_pending, changed, saved_params, g_domain, active >>

(* fx_sched_item_remove: a thread that exits, or is terminated.  An item   *)
(* that is suspended is in no queue and nothing happens.                   *)
ItemRemove(i) ==
  /\ i # Idle
  /\ Ready(i)
  /\ suspend_count[i] = 0
  /\ g_domain' = ContainerRemove(g_domain, i, prio[i])
  /\ changed' = TRUE
  /\ resched_pending' = (resched_pending \/ active = i)
  /\ UNCHANGED << saved_params, active, suspend_count, prio >>

(* fx_sched_item_suspend: an item suspends itself only.                    *)
ItemSuspend(i) ==
  /\ i = active
  /\ i # Idle
  /\ Ready(i)
  /\ suspend_count' = [suspend_count EXCEPT ![i] = @ + 1]
  /\ IF suspend_count'[i] = 1
     THEN /\ g_domain' = ContainerRemove(g_domain, i, prio[i])
          /\ changed' = TRUE
          /\ resched_pending' = TRUE
     ELSE UNCHANGED << g_domain, changed, resched_pending >>
  /\ UNCHANGED << saved_params, active, prio >>

(* MUTANT: the count is decremented even when it is zero.                  *)
ItemResume_NoZeroCheck(i) ==
  /\ suspend_count' = [suspend_count EXCEPT ![i] = @ - 1]
  /\ UNCHANGED << resched_pending, changed, saved_params, g_domain, active,
                  prio >>

(* fx_sched_item_resume.                                                   *)
ItemResume(i) ==
  /\ suspend_count[i] > 0
  /\ suspend_count' = [suspend_count EXCEPT ![i] = @ - 1]
  /\ IF suspend_count'[i] = 0
     THEN /\ g_domain' = ContainerAdd(g_domain, i, prio[i])
          /\ changed' = TRUE
          /\ resched_pending' = (\/ resched_pending
                                 \/ prio[i] = prio[active]
                                 \/ IsPreempt(prio[i], prio[active]))
     ELSE UNCHANGED << g_domain, changed, resched_pending >>
  /\ UNCHANGED << saved_params, active, prio >>

-----------------------------------------------------------------------------
(* fx_sched_item_set_params.  A boost of the active item only records the  *)
(* state of the container; lowering it back to what it was needs no        *)
(* reschedule if the container has not changed since.                      *)
Boosts(i, p) == i = active /\ IsPreempt(p, prio[i])

(* MUTANT: the changes counter is not compared with the timestamp.         *)
Unboosts_Unchecked(i, p) == i = active /\ saved_params = p

Unboosts(i, p) == i = active /\ ~changed /\ saved_params = p

Requeue(i, p) ==
  /\ g_domain' = ContainerAdd(ContainerRemove(g_domain, i, prio[i]), i, p)
  /\ prio' = [prio EXCEPT ![i] = p]
  /\ UNCHANGED << active, suspend_count >>

SetParamsBoost(i, p) ==
  /\ Ready(i) /\ suspend_count[i] = 0
  /\ Boosts(i, p)
  /\ changed' = FALSE
  /\ saved_params' = prio[i]
  /\ Requeue(i, p)
  /\ UNCHANGED resched_pending

SetParamsUnboost(i, p) ==
  /\ Ready(i) /\ suspend_count[i] = 0
  /\ ~Boosts(i, p)
  /\ Unboosts(i, p)
  /\ Requeue(i, p)
  /\ UNCHANGED << resched_pending, changed, saved_params >>

SetParamsReady(i, p) ==
  /\ Ready(i) /\ suspend_count[i] = 0
  /\ ~Boosts(i, p)
  /\ ~Unboosts(i, p)
  /\ changed' = TRUE
  /\ resched_pending' = TRUE
  /\ Requeue(i, p)
  /\ UNCHANGED saved_params

SetParamsSuspended(i, p) ==
  /\ suspend_count[i] > 0
  /\ prio' = [prio EXCEPT ![i] = p]
  /\ UNCHANGED << resched_pending, changed, saved_params, g_domain, active,
                  suspend_count >>

(* A thread boosts itself (fx_thread_set_params, the ceiling of a mutex it *)
(* takes) as the first operation of a critical section of its own.         *)
SetParams(i, p) ==
  /\ i # Idle
  /\ \/ ~resched_pending /\ SetParamsBoost(i, p)
     \/ SetParamsUnboost(i, p)
     \/ SetParamsReady(i, p)
     \/ SetParamsSuspended(i, p)

-----------------------------------------------------------------------------
(* MUTANT: the item is added again without being removed.                  *)
Yield_NoRemove(i) ==
  /\ i = active
  /\ i # Idle
  /\ Ready(i) /\ suspend_count[i] = 0
  /\ Len(g_domain.priority_queues[prio[i]]) < 4
  /\ g_domain' = ContainerAdd(g_domain, i, prio[i])
  /\ changed' = TRUE
  /\ resched_pending' = TRUE
  /\ UNCHANGED << saved_params, active, suspend_count, prio >>

(* MUTANT: the reschedule is requested, the queue is left as it is.        *)
Yield_NoRequeue(i) ==
  /\ i = active
  /\ i # Idle
  /\ Ready(i) /\ suspend_count[i] = 0
  /\ changed' = TRUE
  /\ resched_pending' = TRUE
  /\ UNCHANGED << saved_params, g_domain, active, suspend_count, prio >>

(* fx_sched_yield: the active item goes to the end of its queue, called by *)
(* the thread itself or by the tick that ends its time slice.              *)
Yield(i) ==
  /\ i = active
  /\ i # Idle
  /\ Ready(i) /\ suspend_count[i] = 0
  /\ g_domain' = ContainerAdd(ContainerRemove(g_domain, i, prio[i]),
                              i, prio[i])
  /\ changed' = TRUE
  /\ resched_pending' = TRUE
  /\ UNCHANGED << saved_params, active, suspend_count, prio >>

(* fx_sched_mark_resched_needed, called by itself from fx_esr_lower_pl.    *)
MarkReschedNeeded ==
  /\ resched_pending' = TRUE
  /\ UNCHANGED << changed, saved_params, g_domain, active, suspend_count,
                  prio >>

(* fx_sched_get_next, called by the dispatch software interrupt.           *)
GetNext ==
  /\ resched_pending
  /\ active' = ContainerGet(g_domain)
  /\ resched_pending' = FALSE
  /\ UNCHANGED << changed, saved_params, g_domain, suspend_count, prio >>

ItemOp(i) ==
  \/ \E p \in UserPrio : ItemInit(i, p) \/ SetParams(i, p)
  \/ ItemRemove(i)
  \/ ItemSuspend(i)
  \/ ItemResume(i)
  \/ Yield(i)

Next ==
  \/ \E i \in Item : ItemOp(i)
  \/ MarkReschedNeeded
  \/ GetNext

Spec == Init /\ [][Next]_vars

(* The software interrupt is taken once interrupts are enabled, and the    *)
(* timer tick ends the time slice of a thread that has equal peers.        *)
SomeYield == \E i \in Item : Yield(i)

FairSpec == Spec /\ WF_vars(GetNext) /\ WF_vars(SomeYield)

-----------------------------------------------------------------------------
(* Every variable holds a value of its C type; suspend_count never nests   *)
(* because an item suspends only itself, while it runs.                    *)
TypeOK ==
  /\ resched_pending \in BOOLEAN
  /\ changed \in BOOLEAN
  /\ saved_params \in Prio
  /\ g_domain \in Container
  /\ active \in Item
  /\ suspend_count \in [Item -> 0 .. 1]
  /\ prio \in [Item -> Prio]

(* An item is linked into the queue of its own priority, once, and only    *)
(* while it is not suspended; so rtl_queue_remove finds it and the bitmap  *)
(* bit it clears is the right one.                                         *)
QueuesConsistent ==
  \A p \in Prio :
    LET q == g_domain.priority_queues[p]
    IN  /\ IsInjective(q)
        /\ \A i \in Item : Linked(q, i) => prio[i] = p /\ suspend_count[i] = 0

(* Both levels of the bitmap agree with the queues, and IDLE is always     *)
(* there to be picked, so hw_cpu_ctz is never given zero.                  *)
BitmapConsistent == BitmapExact(g_domain) /\ Ready(Idle)

(* No reschedule is lost: when none is pending, the active item is ready   *)
(* and none that is ready preempts it, whatever boosts came and went       *)
(* without a reschedule (the head comment of fx_sched.c).                  *)
NoLostResched == ~resched_pending => Best(active)

(* While nothing has changed since a boost, no other ready item lies       *)
(* between the boosted priority and the one it will be lowered to.         *)
BoostWindowEmpty ==
  ~changed => \A i \in Item : Ready(i) /\ i # active => saved_params <= prio[i]

(* The scheduler does what a priority scheduler promises.                  *)
Abstract == INSTANCE PrioritySched
              WITH ready   <- {i \in Item : Ready(i)},
                   running <- active,
                   owed    <- resched_pending

PriorityScheduling == Abstract!Spec

(* Round robin: an item that stays among the best, and that no one puts    *)
(* back by setting its parameters, gets the processor again and again.     *)
RoundRobin ==
  \A i \in Item :
    (/\ <>[]Best(i)
     /\ <>[][~\E p \in UserPrio : SetParams(i, p)]_vars)
    => []<>(active = i)
=============================================================================
