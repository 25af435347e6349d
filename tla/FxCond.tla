------------------------------- MODULE FxCond -------------------------------
(***************************************************************************)
(* The condition variable, sync_objects/fx_cond.c, and the mutexes that it *)
(* is used with.  A wait releases the mutex in the critical section that   *)
(* queues the thread, and takes it back when it is over for any reason.    *)
(***************************************************************************)
EXTENDS FxMutex

CONSTANTS
  Cond,         \* the waitable of the condition variable
  NoMutex,
  InUse         \* a bound of the model: the sets of objects that are used
                \* together

ASSUME CondAssumption ==
  /\ Cond \in WaitQueue \ Mutex
  /\ NoMutex \notin Mutex
  /\ InUse \subseteq SUBSET (Mutex \cup {Cond})

VARIABLES
  cond_valid,   \* initialised and not yet destroyed
  mutex,        \* the mutex of the wait that each thread is in, or NoMutex
  retaking,     \* the thread is in the second half of that call
  depth         \* how often it had the mutex when it called

condVars == << cond_valid, mutex, retaking, depth >>
allVars == << vars, condVars >>

(* fx_cond_init, and fx_mutex_init of the mutexes in use.                  *)
CondInit ==
  /\ Init
  /\ \E used \in InUse :
       /\ valid = [m \in Mutex |-> m \in used]
       /\ cond_valid = (Cond \in used)
  /\ mutex = [t \in Thread |-> NoMutex]
  /\ retaking = [t \in Thread |-> FALSE]
  /\ depth = [t \in Thread |-> 0]

InNoWait(t) == mutex[t] = NoMutex

(* The waiter that gets the mutex when its owner releases it, or NoOwner,  *)
(* which is in no queue.                                                   *)
Heir(m, policy) ==
  IF recursive_locks[m] = 0 /\ wq[m] # << >> THEN WaitBlockGet(m, policy)
                                             ELSE NoOwner

(* fx_mutex_release by t, without the notification of the heir, which is   *)
(* in the same critical section.                                           *)
GiveUp(t, m, w) ==
  /\ Told(t, m, -1)
  /\ \/ /\ recursive_locks[m] > 0
        /\ recursive_locks' = [recursive_locks EXCEPT ![m] = @ - 1]
        /\ UNCHANGED << prio, owner, owner_params >>
     \/ /\ w # NoOwner
        /\ HandOver(t, m, w)
        /\ UNCHANGED recursive_locks
     \/ /\ recursive_locks[m] = 0 /\ w = NoOwner
        /\ SetFree(t, m)
        /\ UNCHANGED recursive_locks
  /\ UNCHANGED << valid, own >>

(* The waiter w of m, if it is one, is notified, and in the same critical  *)
(* section t blocks on the condition variable unless its wait was aborted  *)
(* already.                                                                *)
BlockAndNotify(t, m, w) ==
  LET aborted == cancel[t] # NoEvent /\ signaled[cancel[t]]
  IN  /\ wq' = [wq EXCEPT ![m] = Unlink(@, w),
                          ![Cond] = IF aborted THEN @ ELSE Append(@, t)]
      /\ pc' = [pc EXCEPT ![t] = IF aborted THEN "returning" ELSE "blocked"]
      /\ status' = [u \in Thread |->
                      IF u = w THEN "SATISFIED"
                      ELSE IF u = t /\ ~aborted THEN "IN_PROGRESS"
                      ELSE status[u]]
      /\ cancel_status' = [cancel_status EXCEPT ![t] =
                             IF aborted \/ cancel[t] = NoEvent THEN @
                             ELSE "IN_PROGRESS"]
      /\ state' = [u \in Thread |->
                     IF u = w THEN "READY"
                     ELSE IF u = t /\ ~aborted THEN "WAITING"
                     ELSE state[u]]
      /\ result' = [result EXCEPT ![t] =
                      IF ~aborted THEN @
                      ELSE IF cancel[t] = t THEN "WAIT_TIMEOUT"
                                            ELSE "WAIT_CANCELLED"]
      /\ UNCHANGED << object, cancel, signaled, timer >>

(* The same of a wait that does not block: it has timed out at once.       *)
TimeOutAndNotify(t, m, w) ==
  /\ Skip(t, "WAIT_TIMEOUT")
  /\ wq' = [wq EXCEPT ![m] = Unlink(@, w)]
  /\ status' = [u \in Thread |-> IF u = w THEN "SATISFIED" ELSE status[u]]
  /\ state' = [u \in Thread |-> IF u = w THEN "READY" ELSE state[u]]
  /\ UNCHANGED restVars

(* fx_cond_wait and fx_cond_timedwait by the owner of the mutex, up to the *)
(* critical section.                                                       *)
CondWait(t, m, c) ==
  /\ cond_valid /\ InNoWait(t)
  /\ valid[m] /\ owner[m] = t
  /\ Call(t, Cond, c)
  /\ mutex' = [mutex EXCEPT ![t] = m]
  /\ depth' = [depth EXCEPT ![t] = held[t][m]]
  /\ UNCHANGED << mutexVars, cond_valid, retaking >>

(* MUTANT: the mutex is released in a critical section of its own, before  *)
(* the one that queues the thread.                                         *)
CondTestAndWait_ReleaseFirst(t, policy) ==
  /\ Enters(t, Cond)
  /\ \/ /\ owner[mutex[t]] = t
        /\ GiveUp(t, mutex[t], Heir(mutex[t], policy))
        /\ IF Heir(mutex[t], policy) = NoOwner
           THEN UNCHANGED << pc, state, wq, status, result, restVars >>
           ELSE NotifyOne(mutex[t], Heir(mutex[t], policy), "SATISFIED")
     \/ owner[mutex[t]] # t /\ Block(t) /\ UNCHANGED mutexVars
  /\ UNCHANGED condVars

(* fx_cond_test_and_wait.  A mutex that was destroyed meanwhile refuses to *)
(* be released.                                                            *)
CondTestAndWait(t, policy) ==
  /\ Enters(t, Cond)
  /\ \/ /\ valid[mutex[t]]
        /\ LET w == Heir(mutex[t], policy)
           IN  GiveUp(t, mutex[t], w) /\ BlockAndNotify(t, mutex[t], w)
     \/ ~valid[mutex[t]] /\ Block(t) /\ UNCHANGED mutexVars
  /\ UNCHANGED condVars

(* fx_cond_timedwait with a zero timeout: the mutex is released and taken  *)
(* again.                                                                  *)
CondTry(t, m, policy) ==
  /\ cond_valid /\ InNoWait(t)
  /\ valid[m] /\ owner[m] = t
  /\ TryCall(t)
  /\ mutex' = [mutex EXCEPT ![t] = m]
  /\ depth' = [depth EXCEPT ![t] = held[t][m]]
  /\ LET w == Heir(m, policy)
     IN  GiveUp(t, m, w) /\ TimeOutAndNotify(t, m, w)
  /\ UNCHANGED << cond_valid, retaking >>

(* MUTANT: a wait that failed does not take the mutex back.                *)
CondReturn_IfOk(t) ==
  /\ ~InNoWait(t)
  /\ Return(t)
  /\ IF retaking[t] \/ result[t] # "OK"
     THEN /\ mutex' = [mutex EXCEPT ![t] = NoMutex]
          /\ retaking' = [retaking EXCEPT ![t] = FALSE]
          /\ depth' = [depth EXCEPT ![t] = 0]
     ELSE /\ retaking' = [retaking EXCEPT ![t] = TRUE]
          /\ UNCHANGED << mutex, depth >>
  /\ UNCHANGED << mutexVars, cond_valid >>

(* The wait is over, and then the acquisition of the mutex is.             *)
CondReturn(t) ==
  /\ ~InNoWait(t)
  /\ Return(t)
  /\ IF retaking[t]
     THEN /\ mutex' = [mutex EXCEPT ![t] = NoMutex]
          /\ retaking' = [retaking EXCEPT ![t] = FALSE]
          /\ depth' = [depth EXCEPT ![t] = 0]
     ELSE /\ retaking' = [retaking EXCEPT ![t] = TRUE]
          /\ UNCHANGED << mutex, depth >>
  /\ UNCHANGED << mutexVars, cond_valid >>

(* fx_mutex_acquire by a wait that is over; if the mutex is no longer      *)
(* valid, the call returns FX_COND_MUTEX_ERROR.                            *)
Retake(t) ==
  /\ retaking[t]
  /\ IF valid[mutex[t]]
     THEN Call(t, mutex[t], NoEvent) /\ UNCHANGED << mutex, retaking, depth >>
     ELSE /\ state[t] = "READY" /\ pc[t] = "running"
          /\ mutex' = [mutex EXCEPT ![t] = NoMutex]
          /\ retaking' = [retaking EXCEPT ![t] = FALSE]
          /\ depth' = [depth EXCEPT ![t] = 0]
          /\ UNCHANGED waitVars
  /\ UNCHANGED << mutexVars, cond_valid >>

(* fx_cond_signal and fx_cond_signal_with_policy.                          *)
CondSignal(policy) ==
  /\ cond_valid
  /\ wq[Cond] # << >>
  /\ NotifyOne(Cond, WaitBlockGet(Cond, policy), "SATISFIED")
  /\ UNCHANGED << prio, mutexVars, condVars >>

(* fx_cond_broadcast.                                                      *)
CondBroadcast ==
  /\ cond_valid
  /\ NotifyAll(Cond, "SATISFIED")
  /\ UNCHANGED << prio, mutexVars, condVars >>

(* fx_cond_deinit, when no call is about to enter its critical section.    *)
CondDeinit ==
  /\ cond_valid
  /\ \A t \in Thread : ~Enters(t, Cond)
  /\ cond_valid' = FALSE
  /\ NotifyAll(Cond, "DELETED")
  /\ UNCHANGED << prio, mutexVars, mutex, retaking, depth >>

CondStep ==
  \/ \E t \in Thread, m \in Mutex :
       \/ \E c \in {t, NoEvent} \cup AbortEvent : CondWait(t, m, c)
       \/ \E policy \in Policy : CondTry(t, m, policy)
  \/ \E t \in Thread, policy \in Policy : CondTestAndWait(t, policy)
  \/ \E t \in Thread : CondReturn(t) \/ Retake(t)
  \/ \E policy \in Policy : CondSignal(policy)
  \/ CondBroadcast
  \/ CondDeinit

(* What the mutexes do meanwhile.                                          *)
MutexStep ==
  \/ \E t \in Thread, m \in Mutex :
       \/ /\ InNoWait(t)
          /\ \/ \E c \in {t, NoEvent} \cup AbortEvent : Acquire(t, m, c)
             \/ TryAcquire(t, m)
             \/ \E policy \in Policy : Release(t, m, policy)
       \/ TestAndWait(t, m)
  \/ \E t \in Thread : WakeupTold(t)
  \/ \E t \in Thread : InNoWait(t) /\ Return(t) /\ UNCHANGED mutexVars
  \/ \E t \in Thread, p \in NewPrio : SetParams(t, p)
  \/ \E m \in Mutex : Deinit(m)
  \/ EventStep /\ UNCHANGED mutexVars

(* The frame of a thread that is terminated is gone.                       *)
CondTerminate(t) ==
  /\ Terminate(t)
  /\ mutex' = [mutex EXCEPT ![t] = NoMutex]
  /\ retaking' = [retaking EXCEPT ![t] = FALSE]
  /\ depth' = [depth EXCEPT ![t] = 0]
  /\ UNCHANGED << mutexVars, cond_valid >>

CondNext ==
  \/ CondStep
  \/ MutexStep /\ UNCHANGED condVars
  \/ \E t \in Thread : CondTerminate(t)

CondSpec == CondInit /\ [][CondNext]_allVars

-----------------------------------------------------------------------------
(* Until a thread is in the queue of the condition variable it has the     *)
(* mutex, so no one who changes the condition under the mutex can signal   *)
(* too early for it.                                                       *)
NoSignalTooEarly ==
  \A t \in Thread :
    pc[t] = "armed" /\ object[t] = Cond /\ valid[mutex[t]]
      => owner[mutex[t]] = t /\ held[t][mutex[t]] = depth[t]

(* Whatever ended its wait, and whoever had the mutex meanwhile, a thread  *)
(* comes back from fx_cond_wait with the mutex as often as it had it when  *)
(* it called.                                                              *)
CondRestoresMutex ==
  [][\A t \in Thread :
       ~InNoWait(t) /\ mutex'[t] = NoMutex /\ pc'[t] # "dead" /\ valid[mutex[t]]
         => owner[mutex[t]] = t /\ held[t][mutex[t]] = depth[t]]_allVars
=============================================================================
