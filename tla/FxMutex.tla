------------------------------ MODULE FxMutex ------------------------------
(***************************************************************************)
(* Mutexes with recursion and priority ceiling, sync_objects/fx_mutex.c,   *)
(* on the wait framework.                                                  *)
(***************************************************************************)
EXTENDS FxWait

CONSTANTS
  Mutex,        \* the waitables that are mutexes
  NoOwner,
  NoCeiling,    \* FX_MUTEX_CEILING_DISABLED
  Ceiling,      \* of each mutex: ceiling_orig, or NoCeiling
  Policy,       \* passed to fx_mutex_release_with_policy
  MaxLocks      \* a bound of the model: recursive acquisitions

ASSUME MutexAssumption ==
  /\ Mutex \subseteq WaitQueue
  /\ NoOwner \notin Thread
  /\ Prio # {}
  /\ NoCeiling \notin Prio
  /\ Ceiling \in [Mutex -> Prio \cup {NoCeiling}]
  /\ Policy \subseteq {"FIFO", "PRIO"}
  /\ MaxLocks \in Nat

VARIABLES
  owner,            \* of each mutex
  recursive_locks,
  owner_params,     \* the owner's priority before the ceiling
  valid,            \* initialised and not yet destroyed
  held,             \* how often each thread was told that it has the mutex,
                    \* and has not released it since
  own               \* the priority each thread was given last

mutexVars == << owner, recursive_locks, owner_params, valid, held, own >>
vars == << waitVars, mutexVars >>

HasCeiling(m) == Ceiling[m] # NoCeiling

Init ==
  /\ WaitInit
  /\ owner = [m \in Mutex |-> NoOwner]
  /\ recursive_locks = [m \in Mutex |-> 0]
  /\ owner_params = [m \in Mutex |-> CHOOSE p \in Prio : TRUE]
  /\ valid \in [Mutex -> BOOLEAN]
  /\ held = [t \in Thread |-> [m \in Mutex |-> 0]]
  /\ own = prio

Told(t, m, n) == held' = [held EXCEPT ![t][m] = @ + n]

(* The priority of a thread that becomes the owner: the ceiling never      *)
(* lowers it.                                                              *)
Raised(p, m) == IF HasCeiling(m) /\ Ceiling[m] < p THEN Ceiling[m] ELSE p

(* The mutex is free: the caller becomes its owner.                        *)
TakeFree(t, m) ==
  /\ owner' = [owner EXCEPT ![m] = t]
  /\ owner_params' = IF HasCeiling(m)
                     THEN [owner_params EXCEPT ![m] = prio[t]]
                     ELSE owner_params
  /\ prio' = [prio EXCEPT ![t] = Raised(@, m)]
  /\ UNCHANGED recursive_locks

(* The caller has it already.                                              *)
TakeAgain(m) ==
  /\ recursive_locks' = [recursive_locks EXCEPT ![m] = @ + 1]
  /\ UNCHANGED << prio, owner, owner_params >>

MayTake(t, m) == owner[m] \in {NoOwner, t}

Take(t, m) ==
  \/ owner[m] = NoOwner /\ TakeFree(t, m)
  \/ owner[m] = t /\ TakeAgain(m)

(* fx_mutex_acquire and fx_mutex_timedacquire, up to the critical section. *)
Acquire(t, m, c) ==
  /\ valid[m]
  /\ owner[m] = t => recursive_locks[m] < MaxLocks
  /\ Call(t, m, c)
  /\ UNCHANGED mutexVars

(* fx_mutex_test_and_wait.                                                 *)
TestAndWait(t, m) ==
  /\ Enters(t, m)
  /\ IF MayTake(t, m)
     THEN Take(t, m) /\ Proceed(t) /\ Told(t, m, 1)
     ELSE /\ Block(t)
          /\ UNCHANGED << owner, recursive_locks, owner_params, held >>
  /\ UNCHANGED << valid, own >>

(* fx_mutex_timedacquire with a zero timeout.                              *)
TryAcquire(t, m) ==
  /\ valid[m] /\ TryCall(t)
  /\ owner[m] = t => recursive_locks[m] < MaxLocks
  /\ IF MayTake(t, m)
     THEN Take(t, m) /\ TryDone(t, "OK") /\ Told(t, m, 1)
     ELSE /\ TryDone(t, "WAIT_TIMEOUT")
          /\ UNCHANGED << prio, owner, recursive_locks, owner_params, held >>
  /\ UNCHANGED << valid, own >>

(* The woken thread returns from the wait function.                        *)
WakeupTold(t) ==
  /\ Wakeup(t)
  /\ IF result'[t] = "OK" /\ object[t] \in Mutex
     THEN Told(t, object[t], 1)
     ELSE UNCHANGED held
  /\ UNCHANGED << owner, recursive_locks, owner_params, valid, own >>

(* MUTANT: the new owner is not raised to the ceiling.                     *)
HandOver_NoCeiling(t, m, w) ==
  /\ owner' = [owner EXCEPT ![m] = w]
  /\ IF HasCeiling(m)
     THEN /\ owner_params' = [owner_params EXCEPT ![m] = prio[w]]
          /\ prio' = [prio EXCEPT ![t] = owner_params[m]]
     ELSE UNCHANGED << prio, owner_params >>

(* The waiter w becomes the owner before it is notified, and t gets back   *)
(* the priority it had.                                                    *)
HandOver(t, m, w) ==
  /\ owner' = [owner EXCEPT ![m] = w]
  /\ IF HasCeiling(m)
     THEN /\ owner_params' = [owner_params EXCEPT ![m] = prio[w]]
          /\ prio' = [prio EXCEPT ![w] = Raised(@, m), ![t] = owner_params[m]]
     ELSE UNCHANGED << prio, owner_params >>

SetFree(t, m) ==
  /\ owner' = [owner EXCEPT ![m] = NoOwner]
  /\ prio' = IF HasCeiling(m) THEN [prio EXCEPT ![t] = owner_params[m]] ELSE prio
  /\ UNCHANGED owner_params

(* MUTANT: the mutex is set free although a waiter is woken for it.        *)
Release_FreeAndWake(t, m, policy) ==
  /\ valid[m] /\ owner[m] = t
  /\ pc[t] = "running" /\ state[t] = "READY"
  /\ Told(t, m, -1)
  /\ IF recursive_locks[m] > 0
     THEN /\ recursive_locks' = [recursive_locks EXCEPT ![m] = @ - 1]
          /\ UNCHANGED << waitVars, owner, owner_params >>
     ELSE /\ SetFree(t, m)
          /\ IF wq[m] # << >>
             THEN NotifyOne(m, WaitBlockGet(m, policy), "SATISFIED")
             ELSE UNCHANGED << pc, state, wq, status, result, restVars >>
          /\ UNCHANGED recursive_locks
  /\ UNCHANGED << valid, own >>

(* MUTANT: nobody looks for waiters.                                       *)
Release_NoNotify(t, m, policy) ==
  /\ valid[m] /\ owner[m] = t
  /\ pc[t] = "running" /\ state[t] = "READY"
  /\ Told(t, m, -1)
  /\ IF recursive_locks[m] > 0
     THEN /\ recursive_locks' = [recursive_locks EXCEPT ![m] = @ - 1]
          /\ UNCHANGED << prio, owner, owner_params >>
     ELSE SetFree(t, m) /\ UNCHANGED recursive_locks
  /\ UNCHANGED << pc, state, wq, status, result, restVars, valid, own >>

(* fx_mutex_release_with_policy, called by the owner.                      *)
Release(t, m, policy) ==
  /\ valid[m] /\ owner[m] = t
  /\ pc[t] = "running" /\ state[t] = "READY"
  /\ Told(t, m, -1)
  /\ \/ /\ recursive_locks[m] > 0
        /\ recursive_locks' = [recursive_locks EXCEPT ![m] = @ - 1]
        /\ UNCHANGED << waitVars, owner, owner_params >>
     \/ /\ recursive_locks[m] = 0 /\ wq[m] # << >>
        /\ LET w == WaitBlockGet(m, policy)
           IN  HandOver(t, m, w) /\ NotifyOne(m, w, "SATISFIED")
        /\ UNCHANGED recursive_locks
     \/ /\ recursive_locks[m] = 0 /\ wq[m] = << >>
        /\ SetFree(t, m)
        /\ UNCHANGED << pc, state, wq, status, result, restVars,
                        recursive_locks >>
  /\ UNCHANGED << valid, own >>

(* fx_mutex_deinit, when no call is about to enter its critical section.   *)
(* The owner of a mutex with a ceiling must be alive: a thread that ended  *)
(* is no longer in the scheduler's queues.                                 *)
Deinit(m) ==
  /\ valid[m]
  /\ \A t \in Thread : ~Enters(t, m)
  /\ HasCeiling(m) /\ owner[m] # NoOwner => state[owner[m]] # "COMPLETED"
  /\ valid' = [valid EXCEPT ![m] = FALSE]
  /\ NotifyAll(m, "DELETED")
  /\ prio' = IF HasCeiling(m) /\ owner[m] # NoOwner
             THEN [prio EXCEPT ![owner[m]] = owner_params[m]]
             ELSE prio
  /\ UNCHANGED << owner, recursive_locks, owner_params, held, own >>

(* fx_thread_set_params of a thread that owns no mutex with a ceiling: the *)
(* new priority of one that does would lift the ceiling, and be undone by  *)
(* the release.                                                            *)
SetParams(t, p) ==
  /\ \A m \in Mutex : HasCeiling(m) /\ valid[m] => owner[m] # t
  /\ SetPrio(t, p)
  /\ own' = [own EXCEPT ![t] = p]
  /\ UNCHANGED << owner, recursive_locks, owner_params, valid, held >>

-----------------------------------------------------------------------------
TypeOK ==
  /\ WaitTypeOK
  /\ owner \in [Mutex -> Thread \cup {NoOwner}]
  /\ recursive_locks \in [Mutex -> Nat]
  /\ owner_params \in [Mutex -> Prio]
  /\ valid \in [Mutex -> BOOLEAN]
  /\ held \in [Thread -> [Mutex -> Nat]]
  /\ own \in [Thread -> Prio]

(* What a thread was told is what the mutex holds: a thread that is told   *)
(* that it has the mutex is the owner, as often as it was told, and a      *)
(* thread that was told of a timeout, an abort or a deletion is not left   *)
(* with it.  Only a waiter that has been selected and has not run yet is   *)
(* an owner that does not know.                                            *)
Chosen(t, m) ==
  pc[t] = "blocked" /\ object[t] = m /\ status[t] = "SATISFIED"

OwnershipKnown ==
  \A t \in Thread, m \in Mutex : pc[t] # "dead" =>
    LET locks == IF owner[m] = t THEN recursive_locks[m] + 1 ELSE 0
    IN  held[t][m] = IF Chosen(t, m) THEN locks - 1 ELSE locks

(* No thread waits for a mutex that nobody has.                            *)
NoIdleMutex ==
  \A m \in Mutex : valid[m] /\ owner[m] = NoOwner => wq[m] = << >>

(* The comment of fx_mutex_init on the priority of a mutex: it is applied  *)
(* to the thread that owns the mutex while the mutex is acquired.          *)
CeilingApplied ==
  \A m \in Mutex :
    valid[m] /\ HasCeiling(m) /\ owner[m] # NoOwner => prio[owner[m]] <= Ceiling[m]

(* A thread that owns no mutex with a ceiling has its own priority again.  *)
CeilingUndone ==
  \A t \in Thread :
    (\A m \in Mutex : HasCeiling(m) /\ valid[m] => owner[m] # t)
      => prio[t] = own[t]

(* The priority of a thread is raised as long as it has a mutex that asks  *)
(* for it, and no longer.                                                  *)
CeilingExact == CeilingApplied /\ CeilingUndone
=============================================================================
