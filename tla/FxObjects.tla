------------------------------ MODULE FxObjects ------------------------------
(***************************************************************************)
(* Threads that use a read-write lock, a barrier, a pool of blocks, a      *)
(* group of event flags, an event, or each other: the primitives that      *)
(* share the thread's wait.  One of them is in use in a behaviour.         *)
(***************************************************************************)
EXTENDS FxRwlock, FxBarrier, FxBlockPool, FxEvFlags, FxEvent, FxThread

ASSUME ObjectsAssumption ==
  /\ IsInjective(<< RdWtbl, WrWtbl, Barr, Pool, Evf, Ev >>)
  /\ \A t \in Thread : {RdWtbl, WrWtbl, Barr, Pool, Evf, Ev}
                         \cap {Completion(t), TimerEvent(t)} = {}

vars == << waitVars, rwlockVars, barrierVars, poolVars, evfVars, eventVars,
           threadVars >>

Init ==
  /\ WaitInit
  /\ \E o \in {"rwlock", "barrier", "pool", "flags", "event", "threads"} :
       /\ RwlockInit(o = "rwlock")
       /\ BarrierInit(o = "barrier")
       /\ PoolInit(o = "pool")
       /\ EvfInit(o = "flags")
       /\ EvInit(o = "event")
       /\ ThreadsInit(o = "threads")

(* The calls of the primitives.                                            *)
ObjectStep ==
  \/ /\ RwStep
     /\ UNCHANGED << barrierVars, poolVars, evfVars, eventVars, threadVars >>
  \/ /\ BarrierStep
     /\ UNCHANGED << rwlockVars, poolVars, evfVars, eventVars, threadVars >>
  \/ /\ PoolStep
     /\ UNCHANGED << rwlockVars, barrierVars, evfVars, eventVars, threadVars >>
  \/ /\ EvfStep
     /\ UNCHANGED << rwlockVars, barrierVars, poolVars, eventVars, threadVars >>
  \/ /\ EvStep
     /\ UNCHANGED << rwlockVars, barrierVars, poolVars, evfVars, threadVars >>
  \/ /\ ThreadStep
     /\ UNCHANGED << rwlockVars, barrierVars, poolVars, evfVars, eventVars >>

(* A woken thread runs again, in the wait function.                        *)
WakeupIn(t) ==
  /\ Dispatched /\ Wakeup(t)
  /\ RwWakeup(t) /\ BarrierWithdraw(t)
  /\ UNCHANGED << poolVars, evfVars, eventVars, threadVars >>

(* The call returns to its caller.                                         *)
ReturnTo(t) ==
  /\ Dispatched /\ Return(t)
  /\ PoolReturn(t) /\ EvfReturn(t) /\ ThreadReturn(t)
  /\ UNCHANGED << rwlockVars, barrierVars, eventVars >>

(* fx_thread_terminate.                                                    *)
KillIn(t) ==
  /\ Kill(t)
  /\ RwKill(t) /\ BarrierWithdraw(t) /\ EvfReturn(t)
  /\ UNCHANGED << poolVars, eventVars >>

Next ==
  \/ ObjectStep
  \/ \E t \in Thread : WakeupIn(t) \/ ReturnTo(t) \/ KillIn(t)
  \/ EventStep /\ UNCHANGED << rwlockVars, barrierVars, poolVars, evfVars,
                               eventVars, threadVars >>

Spec == Init /\ [][Next]_vars

-----------------------------------------------------------------------------
(* Nobody waits for what is there, whatever threads timed out, ended or    *)
(* came in between: a reader while the lock is for readers, a thread for a *)
(* block while one is free, a thread for flags or an event that are set.   *)
(* The one exception is the readers that queued behind a writer which was  *)
(* terminated: see RwNoIdle.                                               *)
NobodyWaitsInVain == RwNoIdle /\ PoolNoIdle /\ EvfNoIdle /\ EvNoIdle
=============================================================================
