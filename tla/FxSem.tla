------------------------------- MODULE FxSem -------------------------------
(***************************************************************************)
(* The counting semaphore, sync_objects/fx_sem.c, on the wait framework.   *)
(***************************************************************************)
EXTENDS FxWait

CONSTANTS
  Sem,          \* the waitable of the semaphore
  MaxCount,     \* sem->max_count
  Policy        \* the policies that are passed to fx_sem_post_with_policy

ASSUME SemAssumption ==
  /\ WaitQueue = {Sem}
  /\ MaxCount \in Nat
  /\ Policy \subseteq {"FIFO", "PRIO"}

VARIABLES
  semaphore,    \* the counter
  valid         \* initialised and not yet destroyed

vars == << waitVars, semaphore, valid >>

Init ==
  /\ WaitInit
  /\ semaphore \in 0 .. MaxCount
  /\ valid = TRUE

(* fx_sem_wait and fx_sem_timedwait, up to their critical section.         *)
Wait(t, c) == valid /\ Call(t, Sem, c) /\ UNCHANGED << semaphore, valid >>

(* fx_sem_test_and_wait.                                                   *)
TestAndWait(t) ==
  /\ Enters(t, Sem)
  /\ IF semaphore > 0
     THEN semaphore' = semaphore - 1 /\ Proceed(t) /\ UNCHANGED prio
     ELSE Block(t) /\ UNCHANGED semaphore
  /\ UNCHANGED valid

(* fx_sem_timedwait with a zero timeout.                                   *)
TryWait(t) ==
  /\ valid
  /\ TryCall(t)
  /\ IF semaphore > 0
     THEN semaphore' = semaphore - 1 /\ TryDone(t, "OK")
     ELSE TryDone(t, "WAIT_TIMEOUT") /\ UNCHANGED semaphore
  /\ UNCHANGED << prio, valid >>

(* MUTANT: the limit of the counter is not looked at.                      *)
Post_NoLimit(p) ==
  /\ valid
  /\ IF wq[Sem] # << >>
     THEN /\ NotifyOne(Sem, WaitBlockGet(Sem, p), "SATISFIED")
          /\ UNCHANGED << prio, semaphore >>
     ELSE semaphore' = semaphore + 1 /\ UNCHANGED waitVars
  /\ UNCHANGED valid

(* MUTANT: a waiter is released and the counter goes up as well.           *)
Post_Twice(p) ==
  /\ valid
  /\ IF wq[Sem] # << >>
     THEN NotifyOne(Sem, WaitBlockGet(Sem, p), "SATISFIED") /\ UNCHANGED prio
     ELSE UNCHANGED waitVars
  /\ semaphore' = IF semaphore < MaxCount THEN semaphore + 1 ELSE semaphore
  /\ UNCHANGED valid

(* fx_sem_post_with_policy, called by threads and interrupt handlers.      *)
Post(p) ==
  /\ valid
  /\ IF wq[Sem] # << >>
     THEN /\ NotifyOne(Sem, WaitBlockGet(Sem, p), "SATISFIED")
          /\ UNCHANGED << prio, semaphore >>
     ELSE /\ semaphore' = IF semaphore < MaxCount THEN semaphore + 1
                                                  ELSE semaphore
          /\ UNCHANGED waitVars
  /\ UNCHANGED valid

(* fx_sem_reset.                                                           *)
Reset ==
  /\ valid
  /\ semaphore' = 0
  /\ UNCHANGED << waitVars, valid >>

(* fx_sem_deinit: waiters are released only if the counter is zero.        *)
Deinit ==
  /\ valid
  /\ valid' = FALSE
  /\ IF semaphore = 0
     THEN NotifyAll(Sem, "DELETED") /\ UNCHANGED prio
     ELSE UNCHANGED waitVars
  /\ UNCHANGED semaphore

(* fx_sem_init on the same memory, once no one uses it any longer.         *)
Reinit(n) ==
  /\ ~valid
  /\ \A t \in Thread : pc[t] # "armed"
  /\ wq[Sem] = << >>
  /\ valid' = TRUE
  /\ semaphore' = n
  /\ UNCHANGED waitVars

Next ==
  \/ \E t \in Thread :
       \/ \E c \in {t, NoEvent} \cup AbortEvent : Wait(t, c)
       \/ TestAndWait(t)
       \/ TryWait(t)
  \/ \E p \in Policy : Post(p)
  \/ Reset
  \/ Deinit
  \/ \E n \in 0 .. MaxCount : Reinit(n)
  \/ WaitStep /\ UNCHANGED << semaphore, valid >>

Spec == Init /\ [][Next]_vars

(* A ready thread gets the processor, and the tick comes.                  *)
ThreadStep(t) ==
  \/ TestAndWait(t)
  \/ (Wakeup(t) \/ Return(t)) /\ UNCHANGED << semaphore, valid >>

Tick(t) == TimerExpire(t) /\ UNCHANGED << semaphore, valid >>

FairSpec ==
  /\ Spec
  /\ \A t \in Thread : WF_vars(ThreadStep(t)) /\ WF_vars(Tick(t))

-----------------------------------------------------------------------------
TypeOK ==
  /\ WaitTypeOK
  /\ semaphore \in 0 .. MaxCount
  /\ valid \in BOOLEAN

(* No thread waits while there is something to take.  fx_sem_deinit relies *)
(* on it when it looks for waiters only if the counter is zero.            *)
NoIdleToken == semaphore > 0 => wq[Sem] = << >>

(* A post takes the waiter that its policy asks for: no other waiter has a *)
(* better priority at that moment, and none that is as good has waited     *)
(* longer; FIFO takes the one that has waited longest.                     *)
Released(t) == status[t] = "IN_PROGRESS" /\ status'[t] = "SATISFIED"

GrantOrder ==
  [][\A p \in Policy : Post(p) /\ wq[Sem] # << >> =>
       \E k \in 1 .. Len(wq[Sem]) :
         /\ Waiters(Sem) \ Waiters(Sem)' = {wq[Sem][k]}
         /\ Released(wq[Sem][k])
         /\ p = "FIFO" => k = 1
         /\ p = "PRIO" => \A j \in 1 .. Len(wq[Sem]) :
              \/ prio[wq[Sem][k]] < prio[wq[Sem][j]]
              \/ prio[wq[Sem][k]] = prio[wq[Sem][j]] /\ k <= j]_vars

(* The destructor leaves no one in the queue.                              *)
DeinitReleasesAll ==
  [][Deinit => wq'[Sem] = << >> /\ \A t \in Thread : state'[t] # "WAITING"]_vars

(* The semaphore keeps its promise about tokens.                           *)
PhaseOf(t) ==
  CASE pc[t] \in {"running", "dead"} -> "out"
    [] pc[t] = "armed" -> "waiting"
    [] pc[t] = "blocked" -> IF status[t] = "SATISFIED" THEN "acquired"
                                                       ELSE "waiting"
    [] pc[t] = "returning" -> IF result[t] = "OK" THEN "acquired"
                                                  ELSE "failed"

Abstract == INSTANCE AbstractSem
              WITH count <- semaphore,
                   open <- valid,
                   phase <- [t \in Thread |-> PhaseOf(t)]

TokensConserved == Abstract!Spec

(* A timed wait ends, whether or not anyone posts.                         *)
TimedWaitReturns ==
  \A t \in Thread : (pc[t] = "armed" /\ cancel[t] = t)
                      ~> pc[t] \in {"returning", "dead"}

(* No waiter of a semaphore starves if posts in FIFO order go on, although *)
(* other threads take tokens and come back for more, and waits are aborted *)
(* and begun again.                                                        *)
NoStarvation ==
  WF_vars(Post("FIFO")) =>
    \A t \in Thread : (state[t] = "WAITING" /\ valid) ~> state[t] # "WAITING"
=============================================================================
