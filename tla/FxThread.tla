------------------------------ MODULE FxThread ------------------------------
(***************************************************************************)
(* The life of threads: thread/kthread/fx_thread_api.c, with what          *)
(* fx_thread_sys.c and thread/apc/limited/fx_thread_apc.c add when a       *)
(* thread ends.  Every thread has an event of its own that is set when it  *)
(* has ended, which joins wait for, and its timer_event, which it waits    *)
(* for itself when it sleeps.                                              *)
(***************************************************************************)
EXTENDS FxWait

(* The waitables of the two events.                                        *)
Completion(t) == << "completion", t >>
TimerEvent(t) == << "timer_event", t >>

ASSUME ThreadAssumption ==
  \A t \in Thread : {Completion(t), TimerEvent(t)} \subseteq WaitQueue

VARIABLES
  thread_calls, \* threads may be created, joined and suspended, and sleep
  valid_thread, \* initialised and not yet destroyed
  completion,   \* the state of each thread's completion event
  leaving,      \* the thread has ended and is still on the processor
  sleep_timer,  \* the thread's timer is set, by a sleep
  endless       \* threads that sleep without a timeout

threadVars == << thread_calls, valid_thread, completion, leaving,
                 sleep_timer, endless >>
lifeVars == << thread_calls, valid_thread, sleep_timer, endless >>

ThreadsInit(up) ==
  /\ thread_calls = up
  /\ valid_thread = [t \in Thread |-> TRUE]
  /\ completion = [t \in Thread |-> FALSE]
  /\ leaving = [t \in Thread |-> FALSE]
  /\ sleep_timer = [t \in Thread |-> FALSE]
  /\ endless = {}

(* A thread that has ended on the processor keeps it until the dispatch    *)
(* that it has left owed: interrupt handlers may run before that, threads  *)
(* do not.                                                                 *)
Dispatched == \A t \in Thread : ~leaving[t]

Runs(t) == Dispatched /\ state[t] = "READY" /\ pc[t] = "running"

-----------------------------------------------------------------------------
(* The end of a thread.                                                    *)

(* fx_event_internal_set of a completion event, while t is unlinked from   *)
(* all queues and S is the new state of the threads.                       *)
Complete(t, S) ==
  /\ completion' = [completion EXCEPT ![t] = TRUE]
  /\ wq' = [q \in WaitQueue |-> IF q = Completion(t) THEN << >>
                                                     ELSE Unlink(wq[q], t)]
  /\ status' = [u \in Thread |->
                  IF u \in Waiters(Completion(t)) THEN "SATISFIED"
                  ELSE IF u = t THEN RolledBack(t, status[t])
                  ELSE status[u]]
  /\ state' = [u \in Thread |->
                 IF u \in Waiters(Completion(t)) THEN "READY" ELSE S[u]]

(* What a termination does at once: the wait is rolled back, the timer     *)
(* cancelled, and the thread leaves the scheduler.  The thread may be the  *)
(* one on the processor, if it terminates itself or if a handler that has  *)
(* interrupted it does; where that is, matters only where threads join.    *)
EndBy(t) ==
  /\ state[t] # "COMPLETED"
  /\ timer' = [timer EXCEPT ![t] = FALSE]
  /\ sleep_timer' = [sleep_timer EXCEPT ![t] = FALSE]
  /\ endless' = endless \ {t}
  /\ cancel_status' = [cancel_status EXCEPT ![t] = RolledBack(t, @)]
  /\ pc' = [pc EXCEPT ![t] = "dead"]
  /\ object' = [object EXCEPT ![t] = NoObject]
  /\ cancel' = [cancel EXCEPT ![t] = NoEvent]
  /\ result' = [result EXCEPT ![t] = "OK"]
  /\ \/ UNCHANGED leaving
     \/ thread_calls /\ Dispatched /\ leaving' = [leaving EXCEPT ![t] = TRUE]
  /\ UNCHANGED << prio, signaled, thread_calls, valid_thread >>

(* MUTANT: the event is left to the scheduler, which may never switch from *)
(* the thread.                                                             *)
Kill_NoEvent(t) ==
  /\ EndBy(t)
  /\ wq' = [q \in WaitQueue |-> Unlink(wq[q], t)]
  /\ status' = [status EXCEPT ![t] = RolledBack(t, @)]
  /\ state' = [state EXCEPT ![t] = "COMPLETED"]
  /\ UNCHANGED completion

(* fx_thread_terminate, by any thread or interrupt handler, with the call  *)
(* that it makes at once.  The completion event is set by hand, also when  *)
(* the thread is still on the processor.                                   *)
Kill(t) == EndBy(t) /\ Complete(t, [state EXCEPT ![t] = "COMPLETED"])

(* fx_thread_exit and fx_thread_exit_sync.                                 *)
Exit(t) ==
  /\ thread_calls /\ Runs(t)
  /\ pc' = [pc EXCEPT ![t] = "dead"]
  /\ state' = [state EXCEPT ![t] = "COMPLETED"]
  /\ leaving' = [leaving EXCEPT ![t] = TRUE]
  /\ UNCHANGED << prio, wq, status, result, restVars, completion, lifeVars >>

(* fx_dispatch_handler switches from a thread that has ended to another    *)
(* one, and sets the event, perhaps again.                                 *)
SwitchFrom(t) ==
  /\ leaving[t]
  /\ leaving' = [leaving EXCEPT ![t] = FALSE]
  /\ Complete(t, state)
  /\ UNCHANGED << pc, prio, result, restVars, lifeVars >>

(* fx_thread_deinit, by one that knows that the thread has ended.          *)
ThreadDeinit(t) ==
  /\ thread_calls /\ Dispatched /\ completion[t] /\ valid_thread[t]
  /\ \A u \in Thread : ~Enters(u, Completion(t))
  /\ valid_thread' = [valid_thread EXCEPT ![t] = FALSE]
  /\ UNCHANGED << waitVars, completion, leaving, thread_calls, sleep_timer,
                  endless >>

(* fx_thread_init_ex on the same memory, when no join of the old thread is *)
(* in progress.                                                            *)
ThreadInit(t, p, suspended) ==
  /\ thread_calls /\ Dispatched /\ ~valid_thread[t]
  /\ \A u \in Thread : pc[u] \in {"armed", "blocked", "returning"}
                         => object[u] # Completion(t)
  /\ valid_thread' = [valid_thread EXCEPT ![t] = TRUE]
  /\ completion' = [completion EXCEPT ![t] = FALSE]
  /\ pc' = [pc EXCEPT ![t] = "running"]
  /\ state' = [state EXCEPT ![t] = IF suspended THEN "SUSPENDED" ELSE "READY"]
  /\ prio' = [prio EXCEPT ![t] = p]
  /\ signaled' = [signaled EXCEPT ![t] = FALSE]
  /\ status' = [status EXCEPT ![t] = "CANCELLED"]
  /\ cancel_status' = [cancel_status EXCEPT ![t] = "CANCELLED"]
  /\ UNCHANGED << wq, result, object, cancel, timer, leaving, thread_calls,
                  sleep_timer, endless >>

-----------------------------------------------------------------------------
(* Joins, sleeps, suspensions.                                             *)

(* fx_thread_join, up to its critical section.                             *)
Join(t, u) ==
  /\ thread_calls /\ Dispatched /\ valid_thread[u] /\ t # u
  /\ Call(t, Completion(u), NoEvent)
  /\ UNCHANGED threadVars

(* fx_event_test_and_wait of a completion event.                           *)
JoinTestAndWait(t, u) ==
  /\ Dispatched /\ Enters(t, Completion(u))
  /\ IF completion[u] THEN Proceed(t) /\ UNCHANGED prio ELSE Block(t)
  /\ UNCHANGED threadVars

(* MUTANT: the timer is set before the event is reset, and may expire      *)
(* between the two.                                                        *)
SleepFor_LateReset(t, ticks) ==
  /\ thread_calls /\ Runs(t)
  /\ pc' = [pc EXCEPT ![t] = "armed"]
  /\ object' = [object EXCEPT ![t] = TimerEvent(t)]
  /\ signaled' = [signaled EXCEPT ![t] = FALSE]
  /\ \E pending \in {TRUE, FALSE} :
       sleep_timer' = [sleep_timer EXCEPT ![t] = ticks = "finite" /\ pending]
  /\ endless' = IF ticks = "finite" THEN endless ELSE endless \cup {t}
  /\ UNCHANGED << state, prio, wq, status, cancel, cancel_status, timer,
                  result, thread_calls, valid_thread, completion, leaving >>

(* fx_thread_sleep and fx_thread_delay_until, up to their critical         *)
(* section: the event is reset, then the timer set.                        *)
SleepFor(t, ticks) ==
  /\ thread_calls /\ Runs(t)
  /\ pc' = [pc EXCEPT ![t] = "armed"]
  /\ object' = [object EXCEPT ![t] = TimerEvent(t)]
  /\ signaled' = [signaled EXCEPT ![t] = FALSE]
  /\ sleep_timer' = [sleep_timer EXCEPT ![t] = ticks = "finite"]
  /\ endless' = IF ticks = "finite" THEN endless ELSE endless \cup {t}
  /\ UNCHANGED << state, prio, wq, status, cancel, cancel_status, timer,
                  result, thread_calls, valid_thread, completion, leaving >>

(* fx_thread_delay_until a time that is past: it returns at once.          *)
DelayPast(t) ==
  /\ thread_calls /\ Runs(t)
  /\ signaled' = [signaled EXCEPT ![t] = FALSE]
  /\ UNCHANGED << pc, state, prio, wq, status, result, object, cancel,
                  cancel_status, timer, threadVars >>

(* fx_event_test_and_wait of the thread's own timer_event.                 *)
SleepTestAndWait(t) ==
  /\ Dispatched /\ Enters(t, TimerEvent(t))
  /\ IF signaled[t] THEN Proceed(t) /\ UNCHANGED prio ELSE Block(t)
  /\ UNCHANGED threadVars

(* The timer expires: fx_event_internal_set of timer_event.                *)
SleepExpire(t) ==
  /\ sleep_timer[t]
  /\ sleep_timer' = [sleep_timer EXCEPT ![t] = FALSE]
  /\ signaled' = [signaled EXCEPT ![t] = TRUE]
  /\ IF signaled[t]
     THEN UNCHANGED << wq, status, state >>
     ELSE NotifyBlocks(TimerEvent(t), "SATISFIED")
  /\ UNCHANGED << pc, prio, result, object, cancel, cancel_status, timer,
                  thread_calls, valid_thread, completion, leaving, endless >>

(* fx_thread_suspend.                                                      *)
Suspend(t) ==
  /\ thread_calls /\ Runs(t)
  /\ state' = [state EXCEPT ![t] = "SUSPENDED"]
  /\ UNCHANGED << pc, prio, wq, status, result, restVars, threadVars >>

(* fx_thread_resume: it ends suspensions, not waits.                       *)
Resume(t) ==
  /\ thread_calls /\ valid_thread[t] /\ state[t] = "SUSPENDED"
  /\ state' = [state EXCEPT ![t] = "READY"]
  /\ UNCHANGED << pc, prio, wq, status, result, restVars, threadVars >>

ThreadStep ==
  \E t \in Thread :
    \/ Exit(t) \/ SwitchFrom(t) \/ ThreadDeinit(t)
    \/ \E p \in Prio, suspended \in BOOLEAN : ThreadInit(t, p, suspended)
    \/ \E u \in Thread : Join(t, u) \/ JoinTestAndWait(t, u)
    \/ \E ticks \in {"finite", "infinite"} : SleepFor(t, ticks)
    \/ DelayPast(t) \/ SleepTestAndWait(t) \/ SleepExpire(t)
    \/ Suspend(t) \/ Resume(t)

(* A sleep cancels the thread's timer when its wait is over.               *)
ThreadReturn(t) ==
  /\ sleep_timer' = [sleep_timer EXCEPT ![t] = FALSE]
  /\ endless' = endless \ {t}
  /\ UNCHANGED << thread_calls, valid_thread, completion, leaving >>

-----------------------------------------------------------------------------
(* "It should be guaranteed that the thread will no longer be used by      *)
(* anyone, when the event is set" (fx_thread_sys.c:248).  A thread whose   *)
(* completion event is set has ended, none of its blocks or timers is      *)
(* linked, and no join is left waiting for it.  A thread that ended        *)
(* without its event is on its way to the dispatch that sets it.  The      *)
(* event may be set while a thread that was terminated is still on the     *)
(* processor, but whoever was told by a join finds it gone from there, so  *)
(* that its memory may be freed.                                           *)
JoinSeesEnd ==
  \A t \in Thread :
    /\ completion[t] =>
         /\ state[t] = "COMPLETED"
         /\ \A q \in WaitQueue : t \notin Waiters(q)
         /\ cancel_status[t] # "IN_PROGRESS"
         /\ ~timer[t] /\ ~sleep_timer[t]
         /\ wq[Completion(t)] = << >>
    /\ state[t] = "COMPLETED" /\ ~completion[t] => leaving[t]
    /\ \A u \in Thread :
         /\ pc[u] = "returning" /\ object[u] = Completion(t)
         /\ result[u] = "OK"
         => completion[t] /\ ~leaving[t]

(* A sleep ends: a thread that sleeps has a timer that will wake it, and a *)
(* timer that is set wakes no other wait of the thread.  It is ready only  *)
(* when the event was set, whatever resumes it meanwhile.                  *)
SleepEnds ==
  \A t \in Thread :
    /\ state[t] = "WAITING" /\ object[t] = TimerEvent(t) /\ t \notin endless
         => sleep_timer[t] /\ ~signaled[t]
    /\ sleep_timer[t] =>
         object[t] = TimerEvent(t) /\ pc[t] \in {"armed", "blocked", "returning"}
    /\ pc[t] = "blocked" /\ object[t] = TimerEvent(t) /\ state[t] = "READY"
         => signaled[t] /\ t \notin endless
=============================================================================
