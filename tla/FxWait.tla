------------------------------- MODULE FxWait -------------------------------
(***************************************************************************)
(* The wait framework: sync_fwk/up/fx_sync.c and the thread's side of it,  *)
(* thread/kthread/fx_thread_wait.c.  A synchronization primitive extends   *)
(* this module with its own state, and composes its handlers from the      *)
(* operators below, as the code does from the functions they are named     *)
(* for.                                                                    *)
(*                                                                         *)
(* A waiting thread has two wait blocks: the first is in the queue of the  *)
(* object it waits for, the second in that of an event that cancels the    *)
(* wait, which is the thread's own timer_event in a timed wait.  A thread  *)
(* that was woken leaves the queue it was not woken from only when it gets *)
(* the processor again.  Critical sections run with interrupts disabled,   *)
(* so each is one action; timer ticks, interrupt handlers and all other    *)
(* threads act between them.  Any ready thread may be the next to run.     *)
(***************************************************************************)
EXTENDS RtlQueue

CONSTANTS
  Thread,
  AbortEvent,   \* events that are passed to waits to abort them
  NoEvent,      \* a wait that nothing cancels
  WaitQueue,    \* the waitables of the primitive
  NoObject,     \* stands for the object of a thread that waits for none
  Prio,         \* priorities of threads, a lower number is better
  NewPrio       \* those that fx_thread_set_params is called with

ASSUME WaitAssumption ==
  /\ NoObject \notin WaitQueue
  /\ Thread \cap AbortEvent = {}
  /\ NoEvent \notin Thread \cup AbortEvent
  /\ Prio \subseteq Int
  /\ NewPrio \subseteq Prio

VARIABLES
  pc,             \* where the thread is with respect to its wait
  state,          \* thread->state
  prio,           \* waiter->sched_params
  wq,             \* the queue of each waitable
  object,         \* the waitable that the current wait is for
  status,         \* of the first wait block
  cancel,         \* the event that cancels the current wait
  cancel_status,  \* of the second wait block
  signaled,       \* the state of each event; a thread names its timer_event
  timer,          \* the thread's timer is set
  result          \* what the wait returned

waitVars == << pc, state, prio, wq, object, status, cancel, cancel_status,
               signaled, timer, result >>

(* What neither a notification nor a wait that is skipped touches.         *)
restVars == << object, cancel, cancel_status, signaled, timer >>

Event == Thread \cup AbortEvent

(* "running": in no wait; "armed": in a wait function, before its critical *)
(* section; "blocked": suspended by it, or woken but not yet running;      *)
(* "returning": after it, with the timer still to be cancelled.            *)
Phase == {"running", "armed", "blocked", "returning", "dead"}
ThreadState == {"READY", "WAITING", "SUSPENDED", "COMPLETED"}
BlockStatus == {"IN_PROGRESS", "SATISFIED", "CANCELLED", "DELETED"}
Result == {"OK", "WAIT_CANCELLED", "WAIT_DELETED", "WAIT_INTERRUPTED",
           "WAIT_TIMEOUT"}

Waiters(q) == {t \in Thread : Linked(wq[q], t)}

WaitInit ==
  /\ pc = [t \in Thread |-> "running"]
  /\ state = [t \in Thread |-> "READY"]
  /\ prio \in [Thread -> Prio]
  /\ wq = [q \in WaitQueue |-> << >>]
  /\ object = [t \in Thread |-> NoObject]
  /\ status = [t \in Thread |-> "CANCELLED"]
  /\ cancel = [t \in Thread |-> NoEvent]
  /\ cancel_status = [t \in Thread |-> "CANCELLED"]
  /\ signaled = [e \in Event |-> FALSE]
  /\ timer = [t \in Thread |-> FALSE]
  /\ result = [t \in Thread |-> "OK"]

-----------------------------------------------------------------------------
(* MUTANT: a later waiter of equal priority is preferred.                  *)
FirstBest_NotStrict(s) ==
  LET next[k \in 1 .. Len(s)] ==
        IF k = 1 THEN s[1]
        ELSE IF prio[s[k]] <= prio[next[k - 1]] THEN s[k] ELSE next[k - 1]
  IN  next[Len(s)]

(* The search of a queue goes on from the first waiter and prefers a later *)
(* one only if it preempts the best so far.                                *)
FirstBest(s) ==
  LET next[k \in 1 .. Len(s)] ==
        IF k = 1 THEN s[1]
        ELSE IF prio[s[k]] < prio[next[k - 1]] THEN s[k] ELSE next[k - 1]
  IN  next[Len(s)]

(* MUTANT: the one that was queued last.                                   *)
Selected_Lifo(s, policy) == Last(s)

Selected(s, policy) == IF policy = "PRIO" THEN FirstBest(s) ELSE Head(s)

(* _fx_sync_wait_block_get of a queue that is not empty.                   *)
WaitBlockGet(q, policy) == Selected(wq[q], policy)

(* _fx_sync_wait_notify of one wait block, and fx_sync_waiter_notify: the  *)
(* block leaves the queue, the thread is made ready.                       *)
NotifyBlock(q, t, reason) ==
  /\ wq' = [wq EXCEPT ![q] = Unlink(@, t)]
  /\ status' = [status EXCEPT ![t] = reason]
  /\ state' = [state EXCEPT ![t] = "READY"]

(* The same for all wait blocks.                                           *)
NotifyBlocks(q, reason) ==
  /\ wq' = [wq EXCEPT ![q] = << >>]
  /\ status' = [t \in Thread |-> IF t \in Waiters(q) THEN reason
                                                      ELSE status[t]]
  /\ state' = [t \in Thread |-> IF t \in Waiters(q) THEN "READY"
                                                     ELSE state[t]]

(* By a caller that does not wait itself.  The primitive says what becomes *)
(* of priorities, here and in the calls below.                             *)
NotifyOne(q, t, reason) ==
  NotifyBlock(q, t, reason) /\ UNCHANGED << pc, result, restVars >>

NotifyAll(q, reason) ==
  NotifyBlocks(q, reason) /\ UNCHANGED << pc, result, restVars >>

(* MUTANT: the cancel event is looked at first.                            *)
WaitStatus_CancelFirst(t, obj0, obj1) ==
  IF obj1 = "SATISFIED" THEN "WAIT_TIMEOUT" ELSE
  IF obj0 = "SATISFIED" THEN "OK" ELSE "WAIT_DELETED"

(* fx_thread_get_wait_status, and the result it has in a timed wait.       *)
WaitStatus(t, obj0, obj1) ==
  CASE obj0 = "SATISFIED" -> "OK"
    [] obj0 # "SATISFIED" /\ obj1 = "SATISFIED" ->
         IF cancel[t] = t THEN "WAIT_TIMEOUT" ELSE "WAIT_CANCELLED"
    [] "SATISFIED" \notin {obj0, obj1} /\ "DELETED" \in {obj0, obj1} ->
         "WAIT_DELETED"
    [] {obj0, obj1} \cap {"SATISFIED", "DELETED"} = {} -> "WAIT_INTERRUPTED"

-----------------------------------------------------------------------------
(* The calls that wait.                                                    *)

(* The calling thread enters a wait function for the waitable q.  A timed  *)
(* wait first resets the timer event and sets the timer, which no one else *)
(* uses meanwhile.                                                         *)
Call(t, q, c) ==
  /\ state[t] = "READY" /\ pc[t] = "running"
  /\ c \in {t, NoEvent} \cup AbortEvent
  /\ pc' = [pc EXCEPT ![t] = "armed"]
  /\ object' = [object EXCEPT ![t] = q]
  /\ cancel' = [cancel EXCEPT ![t] = c]
  /\ IF c = t
     THEN /\ signaled' = [signaled EXCEPT ![t] = FALSE]
          /\ timer' = [timer EXCEPT ![t] = TRUE]
     ELSE UNCHANGED << signaled, timer >>
  /\ UNCHANGED << state, prio, wq, status, cancel_status, result >>

(* What may end a wait.  A wait without timeout is one whose timer does    *)
(* not expire in time.                                                     *)
Canceller(t) == {t} \cup AbortEvent

Enters(t, q) == state[t] = "READY" /\ pc[t] = "armed" /\ object[t] = q

(* test_wait found the object signaled: the wait is skipped.               *)
Skip(t, r) ==
  /\ pc' = [pc EXCEPT ![t] = "returning"]
  /\ result' = [result EXCEPT ![t] = r]

Proceed(t) == Skip(t, "OK") /\ UNCHANGED << state, wq, status, restVars >>

(* The same, and a waiter is released by it.                               *)
ProceedAndNotify(t, q, u) ==
  Skip(t, "OK") /\ NotifyBlock(q, u, "SATISFIED") /\ UNCHANGED restVars

(* MUTANT: the state of the cancel event is not tested.                    *)
Block_CancelUntested(t) ==
  /\ pc' = [pc EXCEPT ![t] = "blocked"]
  /\ wq' = [wq EXCEPT ![object[t]] = Append(@, t)]
  /\ status' = [status EXCEPT ![t] = "IN_PROGRESS"]
  /\ cancel_status' = [cancel_status EXCEPT ![t] =
                          IF cancel[t] = NoEvent THEN "CANCELLED"
                                                 ELSE "IN_PROGRESS"]
  /\ state' = [state EXCEPT ![t] = "WAITING"]
  /\ UNCHANGED << prio, object, cancel, signaled, timer, result >>

(* test_wait queued the first block.  If the cancel event is signaled the  *)
(* wait is skipped and the block unlinked in the same critical section.    *)
Block(t) ==
  IF cancel[t] # NoEvent /\ signaled[cancel[t]]
  THEN /\ pc' = [pc EXCEPT ![t] = "returning"]
       /\ result' = [result EXCEPT ![t] = IF cancel[t] = t
                                          THEN "WAIT_TIMEOUT"
                                          ELSE "WAIT_CANCELLED"]
       /\ UNCHANGED << state, prio, wq, object, status, cancel,
                       cancel_status, signaled, timer >>
  ELSE /\ pc' = [pc EXCEPT ![t] = "blocked"]
       /\ wq' = [wq EXCEPT ![object[t]] = Append(@, t)]
       /\ status' = [status EXCEPT ![t] = "IN_PROGRESS"]
       /\ cancel_status' = [cancel_status EXCEPT ![t] =
                              IF cancel[t] = NoEvent THEN "CANCELLED"
                                                     ELSE "IN_PROGRESS"]
       /\ state' = [state EXCEPT ![t] = "WAITING"]
       /\ UNCHANGED << prio, object, cancel, signaled, timer, result >>

(* A call with a zero timeout only tests the object.                       *)
TryCall(t) == state[t] = "READY" /\ pc[t] = "running"

TryDone(t, r) == Skip(t, r) /\ UNCHANGED << state, wq, status, restVars >>

(* MUTANT: also blocks that were notified are marked cancelled.            *)
RolledBack_Always(t, s) == "CANCELLED"

(* fx_sync_wait_rollback: blocks that are still linked are unlinked.       *)
RolledBack(t, s) == IF s = "IN_PROGRESS" THEN "CANCELLED" ELSE s

Rollback(t) ==
  /\ wq' = [q \in WaitQueue |-> Unlink(wq[q], t)]
  /\ status' = [status EXCEPT ![t] = RolledBack(t, @)]
  /\ cancel_status' = [cancel_status EXCEPT ![t] = RolledBack(t, @)]

(* The woken thread runs again: the rest of                                *)
(* fx_thread_wait_object_internal.                                         *)
Wakeup(t) ==
  /\ state[t] = "READY" /\ pc[t] = "blocked"
  /\ Rollback(t)
  /\ result' = [result EXCEPT ![t] =
                  WaitStatus(t, status'[t], cancel_status'[t])]
  /\ pc' = [pc EXCEPT ![t] = "returning"]
  /\ UNCHANGED << state, prio, object, cancel, signaled, timer >>

(* A timed wait cancels its timer and returns; the wait blocks were in the *)
(* frame of the call.                                                      *)
Return(t) ==
  /\ state[t] = "READY" /\ pc[t] = "returning"
  /\ pc' = [pc EXCEPT ![t] = "running"]
  /\ timer' = [timer EXCEPT ![t] = FALSE]
  /\ status' = [status EXCEPT ![t] = "CANCELLED"]
  /\ cancel_status' = [cancel_status EXCEPT ![t] = "CANCELLED"]
  /\ cancel' = [cancel EXCEPT ![t] = NoEvent]
  /\ result' = [result EXCEPT ![t] = "OK"]
  /\ object' = [object EXCEPT ![t] = NoObject]
  /\ UNCHANGED << state, prio, wq, signaled >>

-----------------------------------------------------------------------------
(* What others do to a thread that waits.                                  *)

CancelWaiters(e) ==
  {t \in Thread : cancel[t] = e /\ cancel_status[t] = "IN_PROGRESS"}

(* MUTANT: the status is set, the thread is not resumed.                   *)
NotifyCancel_NoResume(S, reason) ==
  /\ cancel_status' =
       [t \in Thread |-> IF t \in S THEN reason ELSE cancel_status[t]]
  /\ UNCHANGED state

NotifyCancel(S, reason) ==
  /\ cancel_status' =
       [t \in Thread |-> IF t \in S THEN reason ELSE cancel_status[t]]
  /\ state' = [t \in Thread |-> IF t \in S THEN "READY" ELSE state[t]]

(* fx_event_internal_set: only a change of state releases waiters.         *)
EventSet(e) ==
  /\ signaled' = [signaled EXCEPT ![e] = TRUE]
  /\ NotifyCancel(IF signaled[e] THEN {} ELSE CancelWaiters(e), "SATISFIED")
  /\ UNCHANGED << pc, prio, wq, object, status, cancel, result >>

(* The timer of a timed wait expires.                                      *)
TimerExpire(t) ==
  /\ timer[t]
  /\ timer' = [timer EXCEPT ![t] = FALSE]
  /\ EventSet(t)

AbortSet(e) == EventSet(e) /\ UNCHANGED timer

AbortReset(e) ==
  /\ signaled' = [signaled EXCEPT ![e] = FALSE]
  /\ UNCHANGED << pc, state, prio, wq, object, status, cancel,
                  cancel_status, timer, result >>

AbortDeinit(e) ==
  /\ NotifyCancel(CancelWaiters(e), "DELETED")
  /\ UNCHANGED << pc, prio, wq, object, status, cancel, signaled, timer,
                  result >>

(* MUTANT: the wait of the thread is not rolled back.                      *)
Terminate_NoRollback(t) ==
  /\ state[t] # "COMPLETED"
  /\ timer' = [timer EXCEPT ![t] = FALSE]
  /\ state' = [state EXCEPT ![t] = "COMPLETED"]
  /\ pc' = [pc EXCEPT ![t] = "dead"]
  /\ UNCHANGED << prio, wq, object, status, cancel, cancel_status, signaled,
                  result >>

(* fx_thread_terminate of any thread, by way of                            *)
(* fx_thread_apc_on_receive_handler and fx_thread_exit_sync.               *)
Terminate(t) ==
  /\ state[t] # "COMPLETED"
  /\ timer' = [timer EXCEPT ![t] = FALSE]
  /\ Rollback(t)
  /\ state' = [state EXCEPT ![t] = "COMPLETED"]
  /\ pc' = [pc EXCEPT ![t] = "dead"]
  /\ object' = [object EXCEPT ![t] = NoObject]
  /\ cancel' = [cancel EXCEPT ![t] = NoEvent]
  /\ result' = [result EXCEPT ![t] = "OK"]
  /\ UNCHANGED << prio, signaled >>

(* fx_thread_set_params: no queue is sorted by it.                         *)
SetPrio(t, p) ==
  /\ state[t] # "COMPLETED"
  /\ prio' = [prio EXCEPT ![t] = p]
  /\ UNCHANGED << pc, state, wq, object, status, cancel, cancel_status,
                  signaled, timer, result >>

(* The frame of the thread's wait, if any, is gone.                        *)
Leave(t) == Return(t) \/ Terminate(t)

EventStep ==
  \/ \E t \in Thread : TimerExpire(t)
  \/ \E e \in AbortEvent : AbortSet(e) \/ AbortReset(e) \/ AbortDeinit(e)

StayStep ==
  \/ EventStep
  \/ \E t \in Thread :
       \/ Wakeup(t)
       \/ \E p \in NewPrio : SetPrio(t, p)

WaitStep == StayStep \/ \E t \in Thread : Leave(t)

-----------------------------------------------------------------------------
WaitTypeOK ==
  /\ pc \in [Thread -> Phase]
  /\ state \in [Thread -> ThreadState]
  /\ prio \in [Thread -> Prio]
  /\ wq \in [WaitQueue -> Seq(Thread)]
  /\ object \in [Thread -> WaitQueue \cup {NoObject}]
  /\ \A t \in Thread : pc[t] \in {"armed", "blocked"} => object[t] \in WaitQueue
  /\ status \in [Thread -> BlockStatus]
  /\ cancel \in [Thread -> Event \cup {NoEvent}]
  /\ cancel_status \in [Thread -> BlockStatus]
  /\ signaled \in [Event -> BOOLEAN]
  /\ timer \in [Thread -> BOOLEAN]
  /\ result \in [Thread -> Result]

(* A block is in the queue of the object its thread waits for, once, from  *)
(* the critical section that suspends the thread to the notification or    *)
(* the rollback, and in no other queue ever; a dead thread is in none.     *)
LinksConsistent ==
  /\ \A q \in WaitQueue : IsInjective(wq[q])
  /\ \A t \in Thread :
       /\ \A q \in WaitQueue :
            Linked(wq[q], t) <=> /\ object[t] = q
                             /\ pc[t] = "blocked"
                             /\ status[t] = "IN_PROGRESS"
       /\ cancel_status[t] = "IN_PROGRESS" => pc[t] = "blocked"
       /\ state[t] = "COMPLETED" <=> pc[t] = "dead"

(* No wake-up is lost: a suspended thread has not been notified by either  *)
(* object, both of its blocks are linked, the event that cancels its wait  *)
(* is not signaled, and if that is its timer event the timer still runs.   *)
(* So it never misses its timeout, nor sleeps on with a status.            *)
SleeperCanWake ==
  \A t \in Thread : state[t] = "WAITING" =>
    /\ pc[t] = "blocked"
    /\ status[t] = "IN_PROGRESS"
    /\ cancel[t] # NoEvent =>
         /\ cancel_status[t] = "IN_PROGRESS"
         /\ ~signaled[cancel[t]]
    /\ cancel[t] = t => timer[t]

(* A timer runs only for the timed wait that set it, so it cannot end a    *)
(* later wait of the thread; and a timed wait that is about to block has   *)
(* its timer running, or has already timed out.                            *)
TimerBelongsToWait ==
  \A t \in Thread :
    /\ cancel[t] \in {t, NoEvent} \cup AbortEvent
    /\ timer[t] => cancel[t] = t /\ pc[t] \in {"armed", "blocked", "returning"}
    /\ pc[t] = "armed" /\ cancel[t] = t => timer[t] \/ signaled[t]

(* A thread that is woken has a reason: it is never told that its wait was *)
(* interrupted, because the only asynchronous call is a termination.       *)
WokenForReason ==
  \A t \in Thread :
    /\ pc[t] = "blocked" /\ state[t] = "READY" =>
         {status[t], cancel_status[t]} \cap {"SATISFIED", "DELETED"} # {}
    /\ result[t] # "WAIT_INTERRUPTED"
=============================================================================
