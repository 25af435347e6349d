---------------------------- MODULE FxCondProofs ----------------------------
(***************************************************************************)
(* Proofs about mutexes and the condition variable, for every set of       *)
(* threads, mutexes, priorities and ceilings.                              *)
(***************************************************************************)
EXTENDS FxCond, FxWaitProofs

-----------------------------------------------------------------------------
(* The heir of a mutex waits for it.                                       *)
LEMMA HeirWaits ==
  ASSUME WaitTypeOK, NEW m \in Mutex, NEW p
  PROVE  /\ Heir(m, p) \in Waiters(m) \cup {NoOwner}
         /\ recursive_locks[m] > 0 => Heir(m, p) = NoOwner
         /\ recursive_locks[m] = 0 /\ Heir(m, p) = NoOwner => wq[m] = << >>
<1>1. m \in WaitQueue /\ NoOwner \notin Thread
  BY MutexAssumption
<1>2. CASE recursive_locks[m] = 0 /\ wq[m] # << >>
  <2>1. Heir(m, p) \in Waiters(m)
    BY <1>1, <1>2, SelectedIsWaiter DEF Heir
  <2> QED BY <1>1, <1>2, <2>1 DEF Waiters
<1>3. CASE ~(recursive_locks[m] = 0 /\ wq[m] # << >>)
  BY <1>3 DEF Heir
<1> QED BY <1>2, <1>3

(* What the queues become when the heir, if any, leaves one.               *)
LEMMA HeirUnlinked ==
  ASSUME WaitTypeOK, LinksConsistent, NEW q \in WaitQueue,
         NEW w \in Waiters(q) \cup {NoOwner}
  PROVE  /\ Unlink(wq[q], w) \in Seq(Thread)
         /\ IsInjective(Unlink(wq[q], w))
         /\ \A u \in Thread : Linked(Unlink(wq[q], w), u) <=>
                                Linked(wq[q], u) /\ u # w
<1>1. wq[q] \in Seq(Thread) /\ IsInjective(wq[q])
  BY DEF WaitTypeOK, LinksConsistent
<1>2. CASE w \in Thread
  BY <1>1, <1>2, UnlinkProperties
<1>3. CASE w \notin Thread
  <2>1. ~Linked(wq[q], w)
    BY <1>1, <1>3, ElementOfSeq DEF Linked
  <2> QED BY <1>1, <1>3, <2>1 DEF Unlink
<1> QED BY <1>2, <1>3

(* A thread blocks on the condition variable and releases an heir.         *)
LEMMA BlockAndNotifyInvariant ==
  ASSUME WaitInv, NEW t \in Thread, NEW m \in Mutex,
         NEW w \in Waiters(m) \cup {NoOwner},
         Enters(t, Cond), BlockAndNotify(t, m, w), prio' \in [Thread -> Prio]
  PROVE  WaitInv'
<1> DEFINE aborted == cancel[t] # NoEvent /\ signaled[cancel[t]]
<1> USE DEF WaitInv
<1>1. /\ Cond \in WaitQueue /\ m \in WaitQueue /\ m # Cond
      /\ state[t] = "READY" /\ pc[t] = "armed" /\ object[t] = Cond
  BY MutexAssumption, CondAssumption DEF Enters
<1>2. /\ w \in Thread =>
           /\ pc[w] = "blocked" /\ object[w] = m /\ status[w] = "IN_PROGRESS"
           /\ state[w] # "COMPLETED"
      /\ w # t
      /\ w \in Thread \cup {NoOwner} /\ NoOwner \notin Thread
  BY <1>1, MutexAssumption DEF Waiters, LinksConsistent
<1>3. /\ pc' = [pc EXCEPT ![t] = IF aborted THEN "returning" ELSE "blocked"]
      /\ wq' = [wq EXCEPT ![m] = Unlink(@, w),
                          ![Cond] = IF aborted THEN @ ELSE Append(@, t)]
      /\ status' = [u \in Thread |->
                      IF u = w THEN "SATISFIED"
                      ELSE IF u = t /\ ~aborted THEN "IN_PROGRESS"
                      ELSE status[u]]
      /\ cancel_status' = [cancel_status EXCEPT ![t] =
                             IF aborted \/ cancel[t] = NoEvent THEN @
                             ELSE "IN_PROGRESS"]
      /\ state' = [u \in Thread |->
                     IF u = w THEN "READY"
                     ELSE IF u = t /\ ~aborted THEN "WAITING"
                     ELSE state[u]]
      /\ result' = [result EXCEPT ![t] =
                      IF ~aborted THEN @
                      ELSE IF cancel[t] = t THEN "WAIT_TIMEOUT"
                                            ELSE "WAIT_CANCELLED"]
      /\ UNCHANGED << object, cancel, signaled, timer >>
  BY DEF BlockAndNotify
<1> HIDE DEF aborted
<1>4. wq \in [WaitQueue -> Seq(Thread)] /\ \A q \in WaitQueue : ~Linked(wq[q], t)
  BY <1>1 DEF WaitTypeOK, LinksConsistent
<1>5. /\ Append(wq[Cond], t) \in Seq(Thread)
      /\ IsInjective(Append(wq[Cond], t))
      /\ \A u \in Thread : Linked(Append(wq[Cond], t), u) <=>
                             Linked(wq[Cond], u) \/ u = t
  BY <1>1, <1>4, AppendLinks DEF LinksConsistent
<1>6. /\ Unlink(wq[m], w) \in Seq(Thread)
      /\ IsInjective(Unlink(wq[m], w))
      /\ \A u \in Thread : Linked(Unlink(wq[m], w), u) <=> Linked(wq[m], u) /\ u # w
  BY <1>1, HeirUnlinked
<1>7. /\ wq' \in [WaitQueue -> Seq(Thread)]
      /\ \A q \in WaitQueue : IsInjective(wq'[q])
      /\ \A q \in WaitQueue, u \in Thread :
           Linked(wq'[q], u) <=> \/ Linked(wq[q], u) /\ ~(q = m /\ u = w)
                                 \/ q = Cond /\ u = t /\ ~aborted
  <2>1. /\ wq'[m] = Unlink(wq[m], w)
        /\ wq'[Cond] = IF aborted THEN wq[Cond] ELSE Append(wq[Cond], t)
        /\ \A q \in WaitQueue \ {m, Cond} : wq'[q] = wq[q]
        /\ wq' = [q \in WaitQueue |-> wq'[q]]
    BY <1>1, <1>3, <1>4
  <2>2. ASSUME NEW q \in WaitQueue
        PROVE  /\ wq'[q] \in Seq(Thread) /\ IsInjective(wq'[q])
               /\ \A u \in Thread :
                    Linked(wq'[q], u) <=> \/ Linked(wq[q], u) /\ ~(q = m /\ u = w)
                                          \/ q = Cond /\ u = t /\ ~aborted
    <3>1. CASE q = m
      BY <2>1, <3>1, <1>1, <1>6
    <3>2. CASE q = Cond
      BY <2>1, <3>2, <1>1, <1>4, <1>5, ZenonT(30) DEF LinksConsistent
    <3>3. CASE q \notin {m, Cond}
      BY <2>1, <3>3, <1>4 DEF LinksConsistent
    <3> QED BY <3>1, <3>2, <3>3
  <2> QED BY <2>1, <2>2
<1>8. WaitTypeOK'
  <2>1. pc' \in [Thread -> Phase] /\ result' \in [Thread -> Result]
    BY <1>3 DEF WaitTypeOK, Phase, Result
  <2>2. status' \in [Thread -> BlockStatus] /\ state' \in [Thread -> ThreadState]
        /\ cancel_status' \in [Thread -> BlockStatus]
    BY <1>3 DEF WaitTypeOK, ThreadState, BlockStatus
  <2>3. \A u \in Thread : pc'[u] \in {"armed", "blocked"} => object'[u] \in WaitQueue
    BY <1>1, <1>3 DEF WaitTypeOK
  <2> QED BY <1>3, <1>7, <2>1, <2>2, <2>3 DEF WaitTypeOK
<1>9. ASSUME NEW u \in Thread
      PROVE  /\ pc'[u] = IF u # t THEN pc[u]
                         ELSE IF aborted THEN "returning" ELSE "blocked"
             /\ status'[u] = IF u = w THEN "SATISFIED"
                             ELSE IF u = t /\ ~aborted THEN "IN_PROGRESS"
                             ELSE status[u]
             /\ state'[u] = IF u = w THEN "READY"
                            ELSE IF u = t /\ ~aborted THEN "WAITING"
                            ELSE state[u]
             /\ cancel_status'[u] = IF u # t \/ aborted \/ cancel[t] = NoEvent
                                    THEN cancel_status[u] ELSE "IN_PROGRESS"
             /\ result'[u] = result[u] \/ result'[u] # "WAIT_INTERRUPTED"
  BY <1>3 DEF WaitTypeOK
<1>10. UNCHANGED << object, cancel, signaled, timer >>
  BY <1>3
<1>11. LinksConsistent'
  <2>1. ASSUME NEW u \in Thread, NEW q \in WaitQueue
        PROVE  Linked(wq'[q], u) <=> /\ object'[u] = q
                                     /\ pc'[u] = "blocked"
                                     /\ status'[u] = "IN_PROGRESS"
    <3>1. CASE u = t
      <4>1. object'[u] = Cond /\ u # w
        BY <3>1, <1>1, <1>2, <1>10
      <4>2. Linked(wq'[q], u) <=> q = Cond /\ ~aborted
        BY <3>1, <1>4, <1>7
      <4>3. pc'[u] = "blocked" /\ status'[u] = "IN_PROGRESS" <=> ~aborted
        BY <3>1, <4>1, <1>9
      <4> QED BY <4>1, <4>2, <4>3
    <3>2. CASE u = w
      <4>1. status'[u] = "SATISFIED"
        BY <3>2, <1>9
      <4>2. Linked(wq[q], u) => q = m
        BY <3>2, <1>2 DEF LinksConsistent
      <4> QED BY <3>2, <4>1, <4>2, <1>2, <1>7
    <3>3. CASE u \notin {t, w}
      <4>1. pc'[u] = pc[u] /\ status'[u] = status[u] /\ object'[u] = object[u]
        BY <3>3, <1>9, <1>10
      <4>2. Linked(wq'[q], u) <=> Linked(wq[q], u)
        BY <3>3, <1>7
      <4> QED BY <4>1, <4>2 DEF LinksConsistent
    <3> QED BY <3>1, <3>2, <3>3
  <2>2. ASSUME NEW u \in Thread
        PROVE  /\ cancel_status'[u] = "IN_PROGRESS" => pc'[u] = "blocked"
               /\ state'[u] = "COMPLETED" <=> pc'[u] = "dead"
    BY <1>1, <1>2, <1>9 DEF LinksConsistent
  <2> QED BY <1>7, <2>1, <2>2 DEF LinksConsistent
<1>12. SleeperCanWake'
  <2>1. ~aborted /\ cancel[t] # NoEvent => ~signaled[cancel[t]]
    BY DEF aborted
  <2>2. ~aborted /\ cancel[t] = t => timer[t]
    BY <1>1, <2>1, WaitAssumption DEF TimerBelongsToWait
  <2> QED BY <1>1, <1>2, <1>3, <1>9, <2>1, <2>2 DEF SleeperCanWake
<1>13. WokenForReason'
  <2>1. ASSUME NEW u \in Thread
        PROVE  /\ pc'[u] = "blocked" /\ state'[u] = "READY" =>
                    {status'[u], cancel_status'[u]} \cap {"SATISFIED", "DELETED"} # {}
               /\ result'[u] # "WAIT_INTERRUPTED"
    <3>1. CASE u = t
      BY <3>1, <1>2, <1>9 DEF WokenForReason
    <3>2. CASE u = w
      BY <3>2, <1>9 DEF WokenForReason
    <3>3. CASE u \notin {t, w}
      BY <3>3, <1>9 DEF WokenForReason
    <3> QED BY <3>1, <3>2, <3>3
  <2> QED BY <2>1 DEF WokenForReason
<1>14. TimerBelongsToWait'
  BY <1>1, <1>2, <1>10, <1>9 DEF TimerBelongsToWait
<1> QED BY <1>8, <1>11, <1>12, <1>13, <1>14

(* The same of a thread that does not block.                               *)
LEMMA TimeOutAndNotifyInvariant ==
  ASSUME WaitInv, NEW t \in Thread, NEW m \in Mutex,
         NEW w \in Waiters(m) \cup {NoOwner},
         TryCall(t), TimeOutAndNotify(t, m, w), prio' \in [Thread -> Prio]
  PROVE  WaitInv'
<1> USE DEF WaitInv
<1>1. m \in WaitQueue /\ state[t] = "READY" /\ pc[t] = "running"
  BY MutexAssumption DEF TryCall
<1>2. /\ w \in Thread =>
           /\ pc[w] = "blocked" /\ object[w] = m /\ status[w] = "IN_PROGRESS"
           /\ state[w] # "COMPLETED"
      /\ w # t
      /\ w \in Thread \cup {NoOwner} /\ NoOwner \notin Thread
  BY <1>1, MutexAssumption DEF Waiters, LinksConsistent
<1>3. /\ pc' = [pc EXCEPT ![t] = "returning"]
      /\ result' = [result EXCEPT ![t] = "WAIT_TIMEOUT"]
      /\ wq' = [wq EXCEPT ![m] = Unlink(@, w)]
      /\ status' = [u \in Thread |-> IF u = w THEN "SATISFIED" ELSE status[u]]
      /\ state' = [u \in Thread |-> IF u = w THEN "READY" ELSE state[u]]
      /\ UNCHANGED << object, cancel, cancel_status, signaled, timer >>
  BY DEF TimeOutAndNotify, Skip, restVars
<1>4. /\ Unlink(wq[m], w) \in Seq(Thread)
      /\ IsInjective(Unlink(wq[m], w))
      /\ \A u \in Thread : Linked(Unlink(wq[m], w), u) <=> Linked(wq[m], u) /\ u # w
  BY <1>1, HeirUnlinked
<1>5. /\ wq' \in [WaitQueue -> Seq(Thread)]
      /\ \A q \in WaitQueue : IsInjective(wq'[q])
      /\ \A q \in WaitQueue, u \in Thread :
           Linked(wq'[q], u) <=> Linked(wq[q], u) /\ ~(q = m /\ u = w)
  BY <1>1, <1>3, <1>4 DEF WaitTypeOK, LinksConsistent
<1>6. ASSUME NEW u \in Thread
      PROVE  /\ pc'[u] = IF u = t THEN "returning" ELSE pc[u]
             /\ status'[u] = IF u = w THEN "SATISFIED" ELSE status[u]
             /\ state'[u] = IF u = w THEN "READY" ELSE state[u]
             /\ result'[u] = IF u = t THEN "WAIT_TIMEOUT" ELSE result[u]
  BY <1>3 DEF WaitTypeOK
<1>7. UNCHANGED << object, cancel, cancel_status, signaled, timer >>
  BY <1>3
<1>8. WaitTypeOK'
  <2>1. pc' \in [Thread -> Phase] /\ result' \in [Thread -> Result]
    BY <1>3 DEF WaitTypeOK, Phase, Result
  <2>2. status' \in [Thread -> BlockStatus] /\ state' \in [Thread -> ThreadState]
    BY <1>3 DEF WaitTypeOK, ThreadState, BlockStatus
  <2>3. \A u \in Thread : pc'[u] \in {"armed", "blocked"} => object'[u] \in WaitQueue
    BY <1>3, <1>7 DEF WaitTypeOK
  <2> QED BY <1>3, <1>5, <1>7, <2>1, <2>2, <2>3 DEF WaitTypeOK
<1>9. LinksConsistent'
  <2>1. ASSUME NEW u \in Thread, NEW q \in WaitQueue
        PROVE  Linked(wq'[q], u) <=> /\ object'[u] = q
                                     /\ pc'[u] = "blocked"
                                     /\ status'[u] = "IN_PROGRESS"
    <3>1. CASE u = w
      <4>1. status'[u] = "SATISFIED"
        BY <3>1, <1>6
      <4>2. Linked(wq[q], u) => q = m
        BY <3>1, <1>2 DEF LinksConsistent
      <4> QED BY <3>1, <4>1, <4>2, <1>2, <1>5
    <3>2. CASE u = t
      BY <3>2, <1>1, <1>2, <1>5, <1>6 DEF LinksConsistent
    <3>3. CASE u \notin {t, w}
      BY <3>3, <1>5, <1>6, <1>7 DEF LinksConsistent
    <3> QED BY <3>1, <3>2, <3>3
  <2>2. ASSUME NEW u \in Thread
        PROVE  /\ cancel_status'[u] = "IN_PROGRESS" => pc'[u] = "blocked"
               /\ state'[u] = "COMPLETED" <=> pc'[u] = "dead"
    BY <1>1, <1>2, <1>6, <1>7 DEF LinksConsistent
  <2> QED BY <1>5, <2>1, <2>2 DEF LinksConsistent
<1>10. SleeperCanWake'
  BY <1>1, <1>2, <1>6, <1>7 DEF SleeperCanWake
<1>11. WokenForReason'
  BY <1>1, <1>2, <1>6, <1>7 DEF WokenForReason
<1>12. TimerBelongsToWait'
  BY <1>1, <1>2, <1>6, <1>7 DEF TimerBelongsToWait
<1> QED BY <1>8, <1>9, <1>10, <1>11, <1>12

-----------------------------------------------------------------------------
(* The inductive invariant, part by part.                                  *)

CondTypeOK ==
  /\ TypeOK
  /\ cond_valid \in BOOLEAN
  /\ mutex \in [Thread -> Mutex \cup {NoMutex}]
  /\ retaking \in [Thread -> BOOLEAN]
  /\ depth \in [Thread -> Nat]

(* A mutex that is free is not locked, and nobody waits for it.            *)
FreeIsIdle ==
  \A m \in Mutex : owner[m] = NoOwner =>
    recursive_locks[m] = 0 /\ (valid[m] => wq[m] = << >>)

(* OwnershipKnown of one thread and one mutex.                             *)
Knows(t, m) ==
  LET locks == IF owner[m] = t THEN recursive_locks[m] + 1 ELSE 0
  IN  held[t][m] = IF Chosen(t, m) THEN locks - 1 ELSE locks

(* Where a thread can be in a call of fx_cond_wait, and how the mutex is   *)
(* taken back: by a wait that nothing can cancel.                          *)
InCall(t) ==
  /\ pc[t] \in {"armed", "blocked"} =>
       (object[t] = Cond <=> mutex[t] # NoMutex /\ ~retaking[t])
  /\ retaking[t] =>
       /\ mutex[t] # NoMutex
       /\ pc[t] # "running" => object[t] = mutex[t] /\ cancel[t] = NoEvent
  /\ pc[t] = "running" => cancel[t] = NoEvent
  /\ cancel[t] = NoEvent => cancel_status[t] = "CANCELLED"
  /\ pc[t] = "blocked" /\ status[t] = "DELETED" /\ object[t] \in Mutex =>
       ~valid[object[t]]

(* How often it has the mutex meanwhile.                                   *)
DepthKnown(t) ==
  mutex[t] # NoMutex /\ valid[mutex[t]] =>
    IF \/ pc[t] = "armed" /\ object[t] = Cond
       \/ pc[t] = "returning" /\ retaking[t]
    THEN owner[mutex[t]] = t /\ held[t][mutex[t]] = depth[t]
    ELSE held[t][mutex[t]] = depth[t] - 1

Sound(t) ==
  pc[t] # "dead" =>
    InCall(t) /\ DepthKnown(t) /\ \A m \in Mutex : Knows(t, m)

IInv == WaitInv /\ CondTypeOK /\ FreeIsIdle /\ \A t \in Thread : Sound(t)

(* The parts of the invariant that the runs check follow from it.          *)
LEMMA InvariantImplies ==
  IInv => TypeOK /\ NoIdleMutex /\ OwnershipKnown /\ NoSignalTooEarly
<1> SUFFICES ASSUME IInv
             PROVE  TypeOK /\ NoIdleMutex /\ OwnershipKnown /\ NoSignalTooEarly
  OBVIOUS
<1>1. TypeOK /\ NoIdleMutex
  BY DEF IInv, CondTypeOK, FreeIsIdle, NoIdleMutex
<1>2. OwnershipKnown
  BY DEF IInv, Sound, Knows, OwnershipKnown
<1>3. ASSUME NEW t \in Thread, pc[t] = "armed", object[t] = Cond, valid[mutex[t]]
      PROVE  owner[mutex[t]] = t /\ held[t][mutex[t]] = depth[t]
  <2>1. InCall(t) /\ DepthKnown(t)
    BY <1>3 DEF IInv, Sound
  <2> QED BY <1>3, <2>1 DEF InCall, DepthKnown
<1> QED BY <1>1, <1>2, <1>3 DEF NoSignalTooEarly

(* A thread that a step leaves alone stays sound.                          *)
LEMMA Undisturbed ==
  ASSUME NEW u \in Thread, Sound(u), CondTypeOK,
         pc'[u] = pc[u], object'[u] = object[u], cancel'[u] = cancel[u],
         cancel_status'[u] = cancel_status[u] \/ cancel[u] # NoEvent,
         \/ status'[u] = status[u]
         \/ object[u] \notin Mutex,
         held'[u] = held[u], mutex'[u] = mutex[u],
         retaking'[u] = retaking[u], depth'[u] = depth[u],
         \A m \in Mutex : /\ owner'[m] = u <=> owner[m] = u
                          /\ owner[m] = u => recursive_locks'[m] = recursive_locks[m]
                          /\ valid'[m] => valid[m]
  PROVE  Sound(u)'
<1> SUFFICES ASSUME pc[u] # "dead"
             PROVE  /\ InCall(u)'
                    /\ DepthKnown(u)'
                    /\ \A m \in Mutex : Knows(u, m)'
  BY DEF Sound
<1>1. InCall(u) /\ DepthKnown(u) /\ \A m \in Mutex : Knows(u, m)
  BY DEF Sound
<1>2. InCall(u)'
  BY <1>1 DEF InCall
<1>3. mutex[u] # NoMutex => mutex[u] \in Mutex
  BY DEF CondTypeOK
<1>4. DepthKnown(u)'
  BY <1>1, <1>3 DEF DepthKnown
<1>5. ASSUME NEW m \in Mutex PROVE Knows(u, m)'
  <2>1. Chosen(u, m)' <=> Chosen(u, m)
    BY DEF Chosen
  <2> QED BY <1>1, <2>1 DEF Knows
<1> QED BY <1>2, <1>4, <1>5

-----------------------------------------------------------------------------
(* Steps that move no thread through its call: events, priorities and      *)
(* notifications of the condition variable.                                *)
LEMMA QuietInvariant ==
  ASSUME IInv, WaitInv',
         UNCHANGED << pc, object, cancel, owner, recursive_locks, held, mutex,
                      retaking, depth, valid >>,
         owner_params' = owner_params, own' \in [Thread -> Prio],
         cond_valid' \in BOOLEAN,
         \A u \in Thread :
           /\ cancel_status'[u] = cancel_status[u] \/ cancel[u] # NoEvent
           /\ status'[u] = status[u] \/ object[u] = Cond,
         \A m \in Mutex : wq[m] = << >> => wq'[m] = << >>
  PROVE  IInv'
<1>1. CondTypeOK' 
  BY DEF IInv, CondTypeOK, TypeOK, WaitInv
<1>2. FreeIsIdle'
  BY DEF IInv, FreeIsIdle
<1>3. ASSUME NEW u \in Thread PROVE Sound(u)'
  <2>1. status'[u] = status[u] \/ object[u] \notin Mutex
    BY CondAssumption
  <2> QED BY <2>1, Undisturbed DEF IInv
<1> QED BY <1>1, <1>2, <1>3 DEF IInv

(* Timers and abort events touch no mutex.                                 *)
LEMMA EventStepInvariant ==
  ASSUME IInv, EventStep, UNCHANGED mutexVars, UNCHANGED condVars
  PROVE  IInv'
<1>1. WaitInv'
  BY WaitStepInvariant DEF IInv, WaitStep, StayStep
<1>2. UNCHANGED << pc, object, cancel, status, wq >>
  BY DEF EventStep, TimerExpire, AbortSet, AbortReset, AbortDeinit, EventSet
<1>3. ASSUME NEW u \in Thread
      PROVE  cancel_status'[u] = cancel_status[u] \/ cancel[u] # NoEvent
  <2>1. ASSUME NEW e \in Event, NEW S \in SUBSET CancelWaiters(e), NEW r,
               NotifyCancel(S, r)
        PROVE  cancel_status'[u] = cancel_status[u] \/ cancel[u] # NoEvent
    <3>1. u \in S => cancel[u] # NoEvent
      BY WaitAssumption DEF CancelWaiters, Event
    <3> QED BY <2>1, <3>1 DEF NotifyCancel
  <2>2. ASSUME NEW e \in Event, EventSet(e)
        PROVE  cancel_status'[u] = cancel_status[u] \/ cancel[u] # NoEvent
    BY <2>1, <2>2 DEF EventSet
  <2>3. ASSUME NEW e \in AbortEvent, AbortReset(e) \/ AbortDeinit(e)
        PROVE  cancel_status'[u] = cancel_status[u] \/ cancel[u] # NoEvent
    BY <2>1, <2>3 DEF AbortReset, AbortDeinit, Event
  <2> QED BY <2>2, <2>3 DEF EventStep, TimerExpire, AbortSet, Event
<1> QED BY <1>1, <1>2, <1>3, QuietInvariant
        DEF mutexVars, condVars, IInv, CondTypeOK, TypeOK

(* A thread that owns no mutex with a ceiling changes its priority.        *)
LEMMA SetParamsInvariant ==
  ASSUME IInv, NEW t \in Thread, NEW p \in NewPrio, SetParams(t, p),
         UNCHANGED condVars
  PROVE  IInv'
<1>1. WaitInv'
  BY WaitStepInvariant DEF IInv, WaitStep, StayStep, SetParams
<1>2. UNCHANGED << pc, object, cancel, status, wq, cancel_status >>
  BY DEF SetParams, SetPrio
<1>3. own' \in [Thread -> Prio]
  BY WaitAssumption DEF SetParams, IInv, CondTypeOK, TypeOK
<1> QED BY <1>1, <1>2, <1>3, QuietInvariant
        DEF SetParams, condVars, IInv, CondTypeOK, TypeOK

(* A waiter of the condition variable is notified, or all of them are.     *)
LEMMA CondNotifyInvariant ==
  ASSUME IInv, (\E p \in Policy : CondSignal(p)) \/ CondBroadcast \/ CondDeinit
  PROVE  IInv'
<1>1. Cond \in WaitQueue /\ Cond \notin Mutex /\ prio' \in [Thread -> Prio]
  BY CondAssumption DEF CondSignal, CondBroadcast, CondDeinit, IInv, WaitInv, WaitTypeOK
<1>2. CASE \E p \in Policy : CondSignal(p)
  <2>1. PICK w \in Waiters(Cond) : NotifyOne(Cond, w, "SATISFIED")
    BY <1>1, <1>2, SelectedIsWaiter DEF CondSignal, IInv, WaitInv
  <2>2. WaitInv'
    BY <1>1, <2>1, NotifyOneInvariant DEF IInv
  <2>3. w \in Thread /\ object[w] = Cond
    BY <1>1 DEF Waiters, IInv, WaitInv, LinksConsistent
  <2>4. \A u \in Thread : status'[u] = status[u] \/ object[u] = Cond
    BY <2>1, <2>3 DEF NotifyOne, NotifyBlock, IInv, WaitInv, WaitTypeOK
  <2>5. \A m \in Mutex : wq'[m] = wq[m]
    BY <1>1, <2>1, MutexAssumption DEF NotifyOne, NotifyBlock, IInv, WaitInv, WaitTypeOK
  <2>6. UNCHANGED << pc, object, cancel, cancel_status >> /\ UNCHANGED << mutexVars, condVars >>
    BY <1>2, <2>1 DEF NotifyOne, restVars, CondSignal
  <2> QED BY <2>2, <2>4, <2>5, <2>6, QuietInvariant
          DEF mutexVars, condVars, IInv, CondTypeOK, TypeOK
<1>3. CASE CondBroadcast \/ CondDeinit
  <2>1. PICK r \in {"SATISFIED", "DELETED"} : NotifyAll(Cond, r)
    BY <1>3 DEF CondBroadcast, CondDeinit
  <2>2. WaitInv'
    BY <1>1, <2>1, NotifyAllInvariant DEF IInv
  <2>3. \A w \in Waiters(Cond) : object[w] = Cond
    BY <1>1 DEF Waiters, IInv, WaitInv, LinksConsistent
  <2>4. \A u \in Thread : status'[u] = status[u] \/ object[u] = Cond
    BY <2>1, <2>3 DEF NotifyAll, NotifyBlocks
  <2>5. \A m \in Mutex : wq'[m] = wq[m]
    BY <1>1, <2>1, MutexAssumption DEF NotifyAll, NotifyBlocks, IInv, WaitInv, WaitTypeOK
  <2>6. /\ UNCHANGED << pc, object, cancel, cancel_status, mutexVars >>
        /\ UNCHANGED << mutex, retaking, depth >> /\ cond_valid' \in BOOLEAN
    BY <1>3, <2>1 DEF NotifyAll, restVars, CondBroadcast, CondDeinit, condVars,
                      IInv, CondTypeOK
  <2> QED BY <2>2, <2>4, <2>5, <2>6, QuietInvariant
          DEF mutexVars, IInv, CondTypeOK, TypeOK
<1> QED BY <1>2, <1>3

(* What destroying a mutex does to its waiters.                            *)
LEMMA DeinitInvariant ==
  ASSUME IInv, NEW m \in Mutex, Deinit(m), UNCHANGED condVars
  PROVE  IInv'
<1>1. m \in WaitQueue /\ prio' \in [Thread -> Prio]
  BY MutexAssumption DEF Deinit, IInv, WaitInv, WaitTypeOK, CondTypeOK, TypeOK
<1>2. WaitInv' /\ wq'[m] = << >>
  BY <1>1, NotifyAllInvariant DEF Deinit, IInv
<1>3. /\ UNCHANGED << pc, object, cancel, cancel_status, owner, recursive_locks,
                      owner_params, held, own >>
      /\ valid' = [valid EXCEPT ![m] = FALSE]
      /\ wq' = [wq EXCEPT ![m] = << >>]
      /\ \A u \in Thread : status'[u] = IF u \in Waiters(m) THEN "DELETED" ELSE status[u]
  BY DEF Deinit, NotifyAll, NotifyBlocks, restVars
<1>4. CondTypeOK'
  BY <1>2, <1>3 DEF IInv, CondTypeOK, TypeOK, WaitInv, condVars
<1>5. FreeIsIdle'
  BY <1>3, MutexAssumption DEF IInv, FreeIsIdle, CondTypeOK, TypeOK, WaitInv, WaitTypeOK
<1>6. ASSUME NEW u \in Thread PROVE Sound(u)'
  <2>1. valid'[m] = FALSE /\ \A k \in Mutex : valid'[k] => valid[k]
    BY <1>3 DEF IInv, CondTypeOK, TypeOK
  <2>2. CASE u \notin Waiters(m)
    BY <2>1, <2>2, <1>3, Undisturbed DEF IInv, condVars
  <2>3. CASE u \in Waiters(m)
    <3>1. /\ pc[u] = "blocked" /\ object[u] = m /\ status[u] = "IN_PROGRESS"
          /\ status'[u] = "DELETED" /\ Sound(u)
      BY <1>1, <1>3, <2>3 DEF Waiters, IInv, WaitInv, LinksConsistent
    <3>2. InCall(u) /\ DepthKnown(u) /\ \A k \in Mutex : Knows(u, k)
      BY <3>1 DEF Sound
    <3>3. InCall(u)'
      BY <1>3, <2>1, <3>1, <3>2 DEF InCall, condVars
    <3>4. mutex[u] # NoMutex => mutex[u] \in Mutex
      BY DEF IInv, CondTypeOK
    <3>5. DepthKnown(u)'
      BY <1>3, <2>1, <3>1, <3>2, <3>4 DEF DepthKnown, condVars
    <3>6. \A k \in Mutex : Knows(u, k)'
      BY <1>3, <3>1, <3>2 DEF Knows, Chosen
    <3> QED BY <3>3, <3>5, <3>6 DEF Sound
  <2> QED BY <2>2, <2>3
<1> QED BY <1>2, <1>4, <1>5, <1>6 DEF IInv

-----------------------------------------------------------------------------
(* Steps of one thread that change no mutex.                               *)
LEMMA OneThreadInvariant ==
  ASSUME IInv, WaitInv', NEW t \in Thread, Sound(t)',
         UNCHANGED << owner, recursive_locks, owner_params, valid, held, own >>,
         cond_valid' = cond_valid,
         mutex' \in [Thread -> Mutex \cup {NoMutex}],
         retaking' \in [Thread -> BOOLEAN], depth' \in [Thread -> Nat],
         \A m \in Mutex : owner[m] = NoOwner /\ wq[m] = << >> => wq'[m] = << >>,
         \A u \in Thread \ {t} :
           /\ pc'[u] = pc[u] /\ object'[u] = object[u] /\ cancel'[u] = cancel[u]
           /\ cancel_status'[u] = cancel_status[u] /\ status'[u] = status[u]
           /\ mutex'[u] = mutex[u] /\ retaking'[u] = retaking[u]
           /\ depth'[u] = depth[u]
  PROVE  IInv'
<1>1. CondTypeOK'
  BY DEF IInv, CondTypeOK, TypeOK, WaitInv
<1>2. FreeIsIdle'
  BY DEF IInv, FreeIsIdle
<1>3. \A u \in Thread \ {t} : Sound(u)'
  BY Undisturbed DEF IInv
<1> QED BY <1>1, <1>2, <1>3 DEF IInv

(* A thread enters a wait for a mutex or for the condition variable.       *)
LEMMA AcquireInvariant ==
  ASSUME IInv, NEW t \in Thread, NEW m \in Mutex,
         NEW c \in {t, NoEvent} \cup AbortEvent, InNoWait(t), Acquire(t, m, c),
         UNCHANGED condVars
  PROVE  IInv'
<1>1. WaitInv'
  BY CallInvariant, MutexAssumption DEF IInv, Acquire
<1>2. /\ pc[t] = "running" /\ pc' = [pc EXCEPT ![t] = "armed"]
      /\ object' = [object EXCEPT ![t] = m] /\ cancel' = [cancel EXCEPT ![t] = c]
      /\ UNCHANGED << wq, status, cancel_status, mutexVars, condVars >>
  BY DEF Acquire, Call
<1>3. pc'[t] = "armed" /\ object'[t] = m /\ m # Cond
  BY <1>2, CondAssumption DEF IInv, WaitInv, WaitTypeOK
<1>4. mutex[t] = NoMutex /\ InCall(t) /\ \A k \in Mutex : Knows(t, k)
  BY <1>2 DEF IInv, Sound, InNoWait
<1>5. Sound(t)'
  <2>1. InCall(t)'
    BY <1>2, <1>3, <1>4 DEF InCall, condVars
  <2>2. DepthKnown(t)'
    BY <1>2, <1>4 DEF DepthKnown, condVars
  <2>3. \A k \in Mutex : Knows(t, k)'
    BY <1>2, <1>3, <1>4 DEF Knows, Chosen, mutexVars
  <2> QED BY <2>1, <2>2, <2>3 DEF Sound
<1>6. \A u \in Thread \ {t} :
        pc'[u] = pc[u] /\ object'[u] = object[u] /\ cancel'[u] = cancel[u]
  BY <1>2 DEF IInv, WaitInv, WaitTypeOK
<1> QED BY <1>1, <1>2, <1>5, <1>6, OneThreadInvariant
        DEF mutexVars, condVars, IInv, CondTypeOK

(* A call of fx_cond_wait remembers how often its thread has the mutex.    *)
LEMMA CondWaitInvariant ==
  ASSUME IInv, NEW t \in Thread, NEW m \in Mutex,
         NEW c \in {t, NoEvent} \cup AbortEvent, CondWait(t, m, c)
  PROVE  IInv'
<1>1. WaitInv'
  BY CallInvariant, CondAssumption DEF IInv, CondWait
<1>2. /\ pc[t] = "running" /\ pc' = [pc EXCEPT ![t] = "armed"]
      /\ object' = [object EXCEPT ![t] = Cond] /\ cancel' = [cancel EXCEPT ![t] = c]
      /\ mutex' = [mutex EXCEPT ![t] = m]
      /\ depth' = [depth EXCEPT ![t] = held[t][m]]
      /\ UNCHANGED << wq, status, cancel_status, mutexVars, cond_valid, retaking >>
      /\ owner[m] = t /\ mutex[t] = NoMutex
  BY DEF CondWait, Call, InNoWait
<1>3. /\ pc'[t] = "armed" /\ object'[t] = Cond /\ Cond \notin Mutex
      /\ mutex'[t] = m /\ depth'[t] = held[t][m] /\ cancel'[t] = c
      /\ held[t][m] \in Nat /\ m # NoMutex
  BY <1>2, CondAssumption DEF IInv, WaitInv, WaitTypeOK, CondTypeOK, TypeOK
<1>4. InCall(t) /\ \A k \in Mutex : Knows(t, k)
  BY <1>2 DEF IInv, Sound
<1>5. Sound(t)'
  <2>1. InCall(t)'
    BY <1>2, <1>3, <1>4 DEF InCall
  <2>2. DepthKnown(t)'
    BY <1>2, <1>3 DEF DepthKnown, mutexVars
  <2>3. \A k \in Mutex : Knows(t, k)'
    BY <1>2, <1>3, <1>4 DEF Knows, Chosen, mutexVars
  <2> QED BY <2>1, <2>2, <2>3 DEF Sound
<1>6. \A u \in Thread \ {t} :
        /\ pc'[u] = pc[u] /\ object'[u] = object[u] /\ cancel'[u] = cancel[u]
        /\ mutex'[u] = mutex[u] /\ depth'[u] = depth[u]
  BY <1>2 DEF IInv, WaitInv, WaitTypeOK, CondTypeOK
<1>7. mutex' \in [Thread -> Mutex \cup {NoMutex}] /\ depth' \in [Thread -> Nat]
  BY <1>2, <1>3 DEF IInv, CondTypeOK
<1> QED BY <1>1, <1>2, <1>5, <1>6, <1>7, OneThreadInvariant
        DEF mutexVars, IInv, CondTypeOK

(* The rest of fx_cond_wait.                                               *)
LEMMA RetakeInvariant ==
  ASSUME IInv, NEW t \in Thread, Retake(t)
  PROVE  IInv'
<1>1. pc[t] = "running" /\ retaking[t]
  BY DEF Retake, Call
<1>2. /\ InCall(t) /\ DepthKnown(t) /\ \A k \in Mutex : Knows(t, k)
      /\ mutex[t] # NoMutex /\ mutex[t] \in Mutex
  <2>1. InCall(t) /\ DepthKnown(t) /\ \A k \in Mutex : Knows(t, k)
    BY <1>1 DEF IInv, Sound
  <2> QED BY <1>1, <2>1 DEF InCall, IInv, CondTypeOK
<1>3. CASE valid[mutex[t]]
  <2>1. Call(t, mutex[t], NoEvent) /\ UNCHANGED << mutexVars, condVars >>
    BY <1>3 DEF Retake, condVars
  <2>2. WaitInv'
    BY <1>2, <2>1, CallInvariant, MutexAssumption DEF IInv
  <2>3. /\ pc' = [pc EXCEPT ![t] = "armed"] /\ object' = [object EXCEPT ![t] = mutex[t]]
        /\ cancel' = [cancel EXCEPT ![t] = NoEvent]
        /\ UNCHANGED << wq, status, cancel_status >>
    BY <2>1 DEF Call
  <2>4. /\ pc'[t] = "armed" /\ object'[t] = mutex[t] /\ mutex[t] # Cond
        /\ cancel'[t] = NoEvent
    BY <1>2, <2>3, CondAssumption DEF IInv, WaitInv, WaitTypeOK
  <2>5. Sound(t)'
    <3>1. InCall(t)'
      BY <1>1, <1>2, <2>1, <2>3, <2>4 DEF InCall, condVars
    <3>2. DepthKnown(t)'
      BY <1>1, <1>2, <2>1, <2>3, <2>4 DEF DepthKnown, condVars, mutexVars
    <3>3. \A k \in Mutex : Knows(t, k)'
      BY <1>1, <1>2, <2>1, <2>3, <2>4 DEF Knows, Chosen, mutexVars
    <3> QED BY <3>1, <3>2, <3>3 DEF Sound
  <2>6. \A u \in Thread \ {t} :
          pc'[u] = pc[u] /\ object'[u] = object[u] /\ cancel'[u] = cancel[u]
    BY <2>3 DEF IInv, WaitInv, WaitTypeOK
  <2> QED BY <2>1, <2>2, <2>3, <2>5, <2>6, OneThreadInvariant
          DEF mutexVars, condVars, IInv, CondTypeOK
<1>4. CASE ~valid[mutex[t]]
  <2>1. /\ mutex' = [mutex EXCEPT ![t] = NoMutex]
        /\ retaking' = [retaking EXCEPT ![t] = FALSE]
        /\ depth' = [depth EXCEPT ![t] = 0]
        /\ UNCHANGED << waitVars, mutexVars, cond_valid >>
    BY <1>4 DEF Retake
  <2>2. WaitInv'
    BY <2>1, WaitUnchanged DEF IInv
  <2>3. mutex'[t] = NoMutex /\ retaking'[t] = FALSE
    BY <2>1 DEF IInv, CondTypeOK
  <2>4. Sound(t)'
    <3>1. InCall(t)'
      BY <1>1, <1>2, <2>1, <2>3 DEF InCall, waitVars
    <3>2. DepthKnown(t)'
      BY <2>3 DEF DepthKnown
    <3>3. \A k \in Mutex : Knows(t, k)'
      BY <1>1, <1>2, <2>1 DEF Knows, Chosen, mutexVars, waitVars
    <3> QED BY <3>1, <3>2, <3>3 DEF Sound
  <2>5. /\ mutex' \in [Thread -> Mutex \cup {NoMutex}]
        /\ retaking' \in [Thread -> BOOLEAN] /\ depth' \in [Thread -> Nat]
        /\ \A u \in Thread \ {t} : /\ mutex'[u] = mutex[u] /\ retaking'[u] = retaking[u]
                                   /\ depth'[u] = depth[u]
    BY <2>1 DEF IInv, CondTypeOK
  <2> QED BY <2>1, <2>2, <2>4, <2>5, OneThreadInvariant DEF mutexVars, waitVars
<1> QED BY <1>3, <1>4

(* The frame of a wait is left: what happens to the waits of the thread.   *)
LEMMA ReturnFacts ==
  ASSUME IInv, NEW t \in Thread, Return(t)
  PROVE  /\ WaitInv'
         /\ pc[t] = "returning" /\ pc'[t] = "running"
         /\ cancel'[t] = NoEvent /\ cancel_status'[t] = "CANCELLED"
         /\ wq' = wq
         /\ \A u \in Thread \ {t} :
              /\ pc'[u] = pc[u] /\ object'[u] = object[u] /\ cancel'[u] = cancel[u]
              /\ cancel_status'[u] = cancel_status[u] /\ status'[u] = status[u]
<1>1. WaitInv'
  BY WaitStepInvariant DEF IInv, WaitStep, Leave
<1> QED BY <1>1 DEF Return, IInv, WaitInv, WaitTypeOK

(* The return from a wait that is not for the condition variable.          *)
LEMMA ReturnInvariantHere ==
  ASSUME IInv, NEW t \in Thread, Return(t), InNoWait(t),
         UNCHANGED << mutexVars, condVars >>
  PROVE  IInv'
<1>1. /\ InCall(t) /\ mutex[t] = NoMutex /\ \A k \in Mutex : Knows(t, k)
      /\ pc[t] = "returning" /\ pc'[t] = "running"
      /\ cancel'[t] = NoEvent /\ cancel_status'[t] = "CANCELLED"
  BY ReturnFacts DEF IInv, Sound, InNoWait
<1>2. Sound(t)'
  <2>1. InCall(t)'
    BY <1>1 DEF InCall, condVars
  <2>2. DepthKnown(t)'
    BY <1>1 DEF DepthKnown, condVars
  <2>3. \A k \in Mutex : Knows(t, k)'
    BY <1>1 DEF Knows, Chosen, mutexVars
  <2> QED BY <2>1, <2>2, <2>3 DEF Sound
<1> QED BY <1>2, ReturnFacts, OneThreadInvariant
        DEF mutexVars, condVars, IInv, CondTypeOK

(* The return from the first wait goes on to take the mutex back, the      *)
(* return from the second leaves the call.                                 *)
LEMMA CondReturnInvariant ==
  ASSUME IInv, NEW t \in Thread, CondReturn(t)
  PROVE  IInv'
<1>1. /\ InCall(t) /\ DepthKnown(t) /\ \A k \in Mutex : Knows(t, k)
      /\ pc[t] = "returning" /\ pc'[t] = "running" /\ mutex[t] # NoMutex
      /\ cancel'[t] = NoEvent /\ cancel_status'[t] = "CANCELLED"
  BY ReturnFacts DEF IInv, Sound, InNoWait, CondReturn
<1>2. /\ IF retaking[t] THEN mutex'[t] = NoMutex /\ ~retaking'[t]
                        ELSE /\ mutex'[t] = mutex[t] /\ retaking'[t]
                             /\ depth'[t] = depth[t]
      /\ mutex' \in [Thread -> Mutex \cup {NoMutex}]
      /\ retaking' \in [Thread -> BOOLEAN] /\ depth' \in [Thread -> Nat]
      /\ \A u \in Thread \ {t} : /\ mutex'[u] = mutex[u] /\ retaking'[u] = retaking[u]
                                 /\ depth'[u] = depth[u]
      /\ UNCHANGED << mutexVars, cond_valid >>
  <2>1. CASE retaking[t]
    <3>1. /\ mutex' = [mutex EXCEPT ![t] = NoMutex]
          /\ retaking' = [retaking EXCEPT ![t] = FALSE]
          /\ depth' = [depth EXCEPT ![t] = 0]
          /\ UNCHANGED << mutexVars, cond_valid >>
      BY <2>1 DEF CondReturn
    <3> QED BY <3>1, <2>1 DEF IInv, CondTypeOK
  <2>2. CASE ~retaking[t]
    <3>1. /\ retaking' = [retaking EXCEPT ![t] = TRUE]
          /\ UNCHANGED << mutex, depth, mutexVars, cond_valid >>
      BY <2>2 DEF CondReturn
    <3> QED BY <3>1, <2>2 DEF IInv, CondTypeOK
  <2> QED BY <2>1, <2>2
<1>3. Sound(t)'
  <2>1. InCall(t)'
    BY <1>1, <1>2 DEF InCall
  <2>2. DepthKnown(t)'
    BY <1>1, <1>2 DEF DepthKnown, mutexVars
  <2>3. \A k \in Mutex : Knows(t, k)'
    BY <1>1, <1>2 DEF Knows, Chosen, mutexVars
  <2> QED BY <2>1, <2>2, <2>3 DEF Sound
<1> QED BY <1>2, <1>3, ReturnFacts, OneThreadInvariant DEF mutexVars, CondReturn

(* A thread that is terminated leaves its call, and whatever it had locked *)
(* stays locked.                                                           *)
LEMMA TerminateInvariantHere ==
  ASSUME IInv, NEW t \in Thread, CondTerminate(t)
  PROVE  IInv'
<1>1. WaitInv'
  BY WaitStepInvariant DEF IInv, WaitStep, Leave, CondTerminate
<1>2. Rollback(t) /\ UNCHANGED << mutexVars, cond_valid >> /\ pc' = [pc EXCEPT ![t] = "dead"]
      /\ object' = [object EXCEPT ![t] = NoObject] /\ cancel' = [cancel EXCEPT ![t] = NoEvent]
      /\ mutex' = [mutex EXCEPT ![t] = NoMutex] /\ retaking' = [retaking EXCEPT ![t] = FALSE]
      /\ depth' = [depth EXCEPT ![t] = 0]
  BY DEF CondTerminate, Terminate
<1>3. \A m \in Mutex : wq[m] = << >> => wq'[m] = << >>
  BY <1>2, MutexAssumption, EmptySeq DEF Rollback, Unlink, Linked
<1>4. \A u \in Thread \ {t} :
        /\ pc'[u] = pc[u] /\ object'[u] = object[u] /\ cancel'[u] = cancel[u]
        /\ cancel_status'[u] = cancel_status[u] /\ status'[u] = status[u]
        /\ mutex'[u] = mutex[u] /\ retaking'[u] = retaking[u] /\ depth'[u] = depth[u]
  BY <1>2, RollbackUnlinks DEF IInv, WaitInv, WaitTypeOK, CondTypeOK
<1>5. Sound(t)'
  BY <1>2 DEF Sound, IInv, WaitInv, WaitTypeOK
<1>6. /\ mutex' \in [Thread -> Mutex \cup {NoMutex}]
      /\ retaking' \in [Thread -> BOOLEAN] /\ depth' \in [Thread -> Nat]
  BY <1>2 DEF IInv, CondTypeOK
<1> QED BY <1>1, <1>2, <1>3, <1>4, <1>5, <1>6, OneThreadInvariant DEF mutexVars

(* A woken thread learns whether it was given the mutex.                   *)
LEMMA WakeupToldInvariant ==
  ASSUME IInv, NEW t \in Thread, WakeupTold(t), UNCHANGED condVars
  PROVE  IInv'
<1>1. WaitInv'
  BY WaitStepInvariant DEF IInv, WaitStep, StayStep, WakeupTold
<1>2. /\ pc[t] = "blocked" /\ state[t] = "READY" /\ Rollback(t)
      /\ pc' = [pc EXCEPT ![t] = "returning"]
      /\ result'[t] = WaitStatus(t, status'[t], cancel_status'[t])
      /\ UNCHANGED << object, cancel >>
      /\ UNCHANGED << owner, recursive_locks, owner_params, valid, own >>
  BY DEF WakeupTold, Wakeup, IInv, WaitInv, WaitTypeOK
<1>3. /\ status'[t] = RolledBack(t, status[t])
      /\ cancel_status'[t] = RolledBack(t, cancel_status[t])
      /\ \A u \in Thread \ {t} : /\ status'[u] = status[u]
                                 /\ cancel_status'[u] = cancel_status[u]
                                 /\ pc'[u] = pc[u]
      /\ pc'[t] = "returning"
  BY <1>2, RollbackUnlinks DEF IInv, WaitInv, WaitTypeOK
<1>4. result'[t] = "OK" <=> status[t] = "SATISFIED"
  BY <1>2, <1>3 DEF WaitStatus, RolledBack
<1>5. InCall(t) /\ DepthKnown(t) /\ \A k \in Mutex : Knows(t, k)
  BY <1>2 DEF IInv, Sound
<1>6. /\ \A u \in Thread \ {t} : held'[u] = held[u]
      /\ \A m \in Mutex : held'[t][m] = IF Chosen(t, m) THEN held[t][m] + 1
                                                        ELSE held[t][m]
      /\ held' \in [Thread -> [Mutex -> Nat]]
  <2>1. CASE result'[t] = "OK" /\ object[t] \in Mutex
    <3>1. held' = [held EXCEPT ![t][object[t]] = @ + 1]
      BY <2>1 DEF WakeupTold, Told
    <3> QED BY <3>1, <2>1, <1>2, <1>4 DEF Chosen, IInv, CondTypeOK, TypeOK
  <2>2. CASE ~(result'[t] = "OK" /\ object[t] \in Mutex)
    <3>1. held' = held
      BY <2>2 DEF WakeupTold
    <3> QED BY <3>1, <2>2, <1>2, <1>4 DEF Chosen, IInv, CondTypeOK, TypeOK
  <2> QED BY <2>1, <2>2
<1>7. Sound(t)'
  <2>1. InCall(t)'
    BY <1>2, <1>3, <1>5 DEF InCall, condVars, RolledBack
  <2>2. ASSUME NEW k \in Mutex PROVE Knows(t, k)'
    <3>1. /\ ~Chosen(t, k)' /\ Knows(t, k)
          /\ held[t][k] \in Nat /\ recursive_locks[k] \in Nat
      BY <1>3, <1>5 DEF Chosen, IInv, CondTypeOK, TypeOK
    <3>2. held'[t][k] = IF Chosen(t, k) THEN held[t][k] + 1 ELSE held[t][k]
      BY <1>6
    <3> QED BY <3>1, <3>2, <1>2 DEF Knows
  <2>3. mutex[t] # NoMutex => mutex[t] \in Mutex
    BY DEF IInv, CondTypeOK
  <2>4. CASE mutex[t] # NoMutex /\ valid[mutex[t]] /\ retaking[t]
    <3>1. /\ object[t] = mutex[t] /\ mutex[t] # Cond
          /\ cancel_status[t] = "CANCELLED"
          /\ status[t] # "DELETED"
      BY <2>3, <2>4, <1>2, <1>5, CondAssumption DEF InCall
    <3>2. status[t] = "SATISFIED"
      BY <3>1, <1>2 DEF IInv, WaitInv, WokenForReason
    <3>3. Chosen(t, mutex[t])
      BY <3>1, <3>2, <1>2 DEF Chosen
    <3>4. held[t][mutex[t]] = depth[t] - 1 /\ depth[t] \in Nat
          /\ held[t][mutex[t]] \in Nat /\ recursive_locks[mutex[t]] \in Nat
      BY <2>3, <2>4, <1>2, <1>5 DEF DepthKnown, IInv, CondTypeOK, TypeOK
    <3>5. owner[mutex[t]] = t
      <4>1. Knows(t, mutex[t])
        BY <2>3, <2>4, <1>5
      <4> QED BY <4>1, <3>3, <3>4 DEF Knows
    <3>6. held'[t][mutex[t]] = held[t][mutex[t]] + 1
      BY <2>3, <2>4, <3>3, <1>6
    <3>7. held'[t][mutex[t]] = depth[t]
      BY <3>4, <3>6
    <3>8. DepthKnown(t)'
      BY <3>5, <3>7, <1>2, <1>3, <2>4 DEF DepthKnown, condVars
    <3> QED BY <2>1, <2>2, <3>8 DEF Sound
  <2>5. CASE ~(mutex[t] # NoMutex /\ valid[mutex[t]] /\ retaking[t])
    <3>1. mutex[t] # NoMutex /\ valid[mutex[t]] =>
            held'[t][mutex[t]] = held[t][mutex[t]] /\ ~retaking[t]
      BY <2>3, <2>5, <1>2, <1>5, <1>6, CondAssumption DEF Chosen, InCall
    <3>2. DepthKnown(t)'
      BY <3>1, <1>2, <1>3, <1>5 DEF DepthKnown, condVars
    <3> QED BY <2>1, <2>2, <3>2 DEF Sound
  <2> QED BY <2>4, <2>5
<1>8. \A m \in Mutex : wq[m] = << >> => wq'[m] = << >>
  BY <1>2, MutexAssumption, EmptySeq DEF Rollback, Unlink, Linked
<1>9. CondTypeOK' /\ FreeIsIdle'
  BY <1>1, <1>2, <1>6, <1>8 DEF IInv, CondTypeOK, TypeOK, WaitInv, FreeIsIdle, condVars
<1>10. \A u \in Thread \ {t} : Sound(u)'
  BY <1>2, <1>3, <1>6, Undisturbed DEF IInv, condVars
<1> QED BY <1>1, <1>7, <1>9, <1>10 DEF IInv

-----------------------------------------------------------------------------
(* What taking a mutex does to it and to what its owner was told.          *)
LEMMA TakeFacts ==
  ASSUME IInv, NEW t \in Thread, NEW m \in Mutex, pc[t] \in {"running", "armed"},
         Take(t, m), Told(t, m, 1), UNCHANGED << valid, own >>
  PROVE  /\ owner' \in [Mutex -> Thread \cup {NoOwner}]
         /\ recursive_locks' \in [Mutex -> Nat]
         /\ owner_params' \in [Mutex -> Prio]
         /\ held' \in [Thread -> [Mutex -> Nat]]
         /\ prio' \in [Thread -> Prio]
         /\ owner'[m] = t
         /\ \A k \in Mutex \ {m} : /\ owner'[k] = owner[k]
                                   /\ recursive_locks'[k] = recursive_locks[k]
         /\ held'[t][m] = held[t][m] + 1
         /\ \A k \in Mutex : held'[t][k] =
              IF owner'[k] = t THEN recursive_locks'[k] + 1 ELSE 0
         /\ \A u \in Thread \ {t} :
              /\ held'[u] = held[u]
              /\ \A k \in Mutex :
                   /\ owner'[k] = u <=> owner[k] = u
                   /\ owner[k] = u => recursive_locks'[k] = recursive_locks[k]
<1>1. /\ owner \in [Mutex -> Thread \cup {NoOwner}]
      /\ recursive_locks \in [Mutex -> Nat] /\ owner_params \in [Mutex -> Prio]
      /\ held \in [Thread -> [Mutex -> Nat]] /\ prio \in [Thread -> Prio]
      /\ NoOwner \notin Thread
  BY MutexAssumption DEF IInv, WaitInv, WaitTypeOK, CondTypeOK, TypeOK
<1>2. \A k \in Mutex : held[t][k] = IF owner[k] = t THEN recursive_locks[k] + 1 ELSE 0
  BY DEF IInv, Sound, Knows, Chosen
<1>3. /\ held' = [held EXCEPT ![t][m] = @ + 1]
      /\ held' \in [Thread -> [Mutex -> Nat]]
      /\ held'[t][m] = held[t][m] + 1
      /\ \A k \in Mutex \ {m} : held'[t][k] = held[t][k]
      /\ \A u \in Thread \ {t} : held'[u] = held[u]
  BY <1>1 DEF Told
<1>4. CASE owner[m] = NoOwner
  <2>1. /\ owner' = [owner EXCEPT ![m] = t]
        /\ recursive_locks' = recursive_locks
        /\ prio' = [prio EXCEPT ![t] = Raised(@, m)]
        /\ owner_params' = owner_params \/ owner_params' = [owner_params EXCEPT ![m] = prio[t]]
    BY <1>1, <1>4 DEF Take, TakeFree
  <2>2. Raised(prio[t], m) \in Prio
    BY <1>1, MutexAssumption DEF Raised, HasCeiling
  <2>3. recursive_locks[m] = 0
    BY <1>4 DEF IInv, FreeIsIdle
  <2>4. owner_params' \in [Mutex -> Prio] /\ prio' \in [Thread -> Prio]
    BY <1>1, <2>1, <2>2
  <2>5. /\ owner' \in [Mutex -> Thread \cup {NoOwner}] /\ owner'[m] = t
        /\ \A k \in Mutex \ {m} : owner'[k] = owner[k]
        /\ recursive_locks' \in [Mutex -> Nat] /\ t # NoOwner
    BY <1>1, <2>1
  <2>6. /\ held[t][m] = 0
        /\ \A k \in Mutex \ {m} :
             held[t][k] = IF owner[k] = t THEN recursive_locks[k] + 1 ELSE 0
    BY <1>2, <1>4, <2>5
  <2>7. ASSUME NEW k \in Mutex
        PROVE  held'[t][k] = IF owner'[k] = t THEN recursive_locks'[k] + 1 ELSE 0
    <3>1. CASE k = m
      BY <3>1, <1>3, <2>1, <2>3, <2>5, <2>6
    <3>2. CASE k # m
      <4>1. held'[t][k] = held[t][k] /\ owner'[k] = owner[k]
        BY <3>2, <1>3, <2>5
      <4> QED BY <3>2, <4>1, <2>1, <2>6
    <3> QED BY <3>1, <3>2
  <2>8. ASSUME NEW u \in Thread \ {t}, NEW k \in Mutex
        PROVE  /\ owner'[k] = u <=> owner[k] = u
               /\ owner[k] = u => recursive_locks'[k] = recursive_locks[k]
    <3>1. CASE k = m
      BY <3>1, <1>1, <1>4, <2>5
    <3>2. CASE k # m
      BY <3>2, <2>1, <2>5
    <3> QED BY <3>1, <3>2
  <2>9. \A k \in Mutex \ {m} : /\ owner'[k] = owner[k]
                               /\ recursive_locks'[k] = recursive_locks[k]
    BY <2>1, <2>5
  <2> QED BY <1>3, <2>4, <2>5, <2>7, <2>8, <2>9
<1>5. CASE owner[m] = t
  <2>1. /\ recursive_locks' = [recursive_locks EXCEPT ![m] = @ + 1]
        /\ UNCHANGED << prio, owner, owner_params >>
    BY <1>1, <1>5 DEF Take, TakeAgain
  <2> QED BY <1>1, <1>2, <1>3, <1>5, <2>1
<1> QED BY <1>4, <1>5 DEF Take

(* The same of a release, which leaves the mutex with t, the heir w or     *)
(* nobody.                                                                 *)
LEMMA GiveUpFacts ==
  ASSUME IInv, NEW t \in Thread, NEW m \in Mutex, pc[t] \in {"running", "armed"},
         owner[m] = t, NEW p \in Policy, NEW w, w = Heir(m, p), GiveUp(t, m, w)
  PROVE  /\ owner' \in [Mutex -> Thread \cup {NoOwner}]
         /\ recursive_locks' \in [Mutex -> Nat]
         /\ owner_params' \in [Mutex -> Prio]
         /\ held' \in [Thread -> [Mutex -> Nat]]
         /\ prio' \in [Thread -> Prio]
         /\ valid' = valid /\ own' = own
         /\ w \in Waiters(m) \cup {NoOwner} /\ w # t
         /\ w # NoOwner => owner'[m] = w
         /\ owner'[m] = NoOwner => recursive_locks'[m] = 0 /\ wq[m] = << >>
         /\ w # NoOwner => recursive_locks'[m] = 0
         /\ \A k \in Mutex \ {m} : /\ owner'[k] = owner[k]
                                   /\ recursive_locks'[k] = recursive_locks[k]
         /\ held'[t][m] = held[t][m] - 1
         /\ \A k \in Mutex \ {m} : held'[t][k] = held[t][k]
         /\ \A k \in Mutex : held'[t][k] =
              IF owner'[k] = t THEN recursive_locks'[k] + 1 ELSE 0
         /\ \A u \in Thread \ {t} : held'[u] = held[u]
         /\ \A u \in Thread \ {t, w} : \A k \in Mutex :
              /\ owner'[k] = u <=> owner[k] = u
              /\ owner[k] = u => recursive_locks'[k] = recursive_locks[k]
<1>1. /\ owner \in [Mutex -> Thread \cup {NoOwner}]
      /\ recursive_locks \in [Mutex -> Nat] /\ owner_params \in [Mutex -> Prio]
      /\ held \in [Thread -> [Mutex -> Nat]] /\ prio \in [Thread -> Prio]
      /\ NoOwner \notin Thread /\ m \in WaitQueue
  BY MutexAssumption DEF IInv, WaitInv, WaitTypeOK, CondTypeOK, TypeOK
<1>2. \A k \in Mutex : held[t][k] = IF owner[k] = t THEN recursive_locks[k] + 1 ELSE 0
  BY DEF IInv, Sound, Knows, Chosen
<1>3. /\ w \in Waiters(m) \cup {NoOwner}
      /\ recursive_locks[m] > 0 => w = NoOwner
      /\ recursive_locks[m] = 0 /\ w = NoOwner => wq[m] = << >>
  BY HeirWaits DEF IInv, WaitInv
<1>4. w \in Thread \cup {NoOwner} /\ w # t
  BY <1>1, <1>3 DEF Waiters, IInv, WaitInv, LinksConsistent
<1>5. /\ held' = [held EXCEPT ![t][m] = @ - 1]
      /\ held[t][m] = recursive_locks[m] + 1
      /\ valid' = valid /\ own' = own
  BY <1>1, <1>2 DEF GiveUp, Told
<1>6. /\ held' \in [Thread -> [Mutex -> Nat]]
      /\ held'[t][m] = held[t][m] - 1
      /\ \A k \in Mutex \ {m} : held'[t][k] = held[t][k]
      /\ \A u \in Thread \ {t} : held'[u] = held[u]
  BY <1>1, <1>5
<1>7. CASE recursive_locks[m] > 0
  <2>1. /\ recursive_locks' = [recursive_locks EXCEPT ![m] = @ - 1]
        /\ UNCHANGED << prio, owner, owner_params >>
    BY <1>3, <1>7, <1>1 DEF GiveUp
  <2> QED BY <1>1, <1>2, <1>3, <1>4, <1>5, <1>6, <1>7, <2>1
<1>8. CASE recursive_locks[m] = 0 /\ w # NoOwner
  <2>1. recursive_locks' = recursive_locks /\ HandOver(t, m, w)
    BY <1>8, <1>1 DEF GiveUp
  <2>2. Raised(prio[w], m) \in Prio
    BY <1>1, <1>4, <1>8, MutexAssumption DEF Raised, HasCeiling
  <2>3. /\ owner' = [owner EXCEPT ![m] = w]
        /\ owner_params' \in [Mutex -> Prio] /\ prio' \in [Thread -> Prio]
    <3>1. owner' = [owner EXCEPT ![m] = w]
      BY <2>1 DEF HandOver
    <3>2. owner_params' \in [Mutex -> Prio]
      BY <1>1, <1>4, <1>8, <2>1 DEF HandOver
    <3>3. prio' \in [Thread -> Prio]
      BY <1>1, <1>4, <1>8, <2>1, <2>2 DEF HandOver
    <3> QED BY <3>1, <3>2, <3>3
  <2> QED BY <1>1, <1>2, <1>3, <1>4, <1>5, <1>6, <1>8, <2>1, <2>3
<1>9. CASE recursive_locks[m] = 0 /\ w = NoOwner
  <2>1. recursive_locks' = recursive_locks /\ SetFree(t, m)
    BY <1>9, <1>1 DEF GiveUp
  <2>2. /\ owner' = [owner EXCEPT ![m] = NoOwner]
        /\ owner_params' = owner_params /\ prio' \in [Thread -> Prio]
    BY <1>1, <2>1 DEF SetFree
  <2> QED BY <1>1, <1>2, <1>3, <1>4, <1>5, <1>6, <1>9, <2>1, <2>2
<1> QED BY <1>1, <1>7, <1>8, <1>9

(* The heir has the mutex and does not know it yet.                        *)
LEMMA HeirSound ==
  ASSUME IInv, NEW m \in Mutex, NEW w \in Waiters(m),
         pc'[w] = pc[w], object'[w] = object[w], cancel'[w] = cancel[w],
         cancel_status'[w] = cancel_status[w], status'[w] = "SATISFIED",
         held'[w] = held[w], mutex'[w] = mutex[w],
         retaking'[w] = retaking[w], depth'[w] = depth[w],
         owner[m] # w, owner'[m] = w, recursive_locks'[m] = 0,
         \A k \in Mutex \ {m} : /\ owner'[k] = owner[k]
                                /\ recursive_locks'[k] = recursive_locks[k],
         valid' = valid
  PROVE  Sound(w)'
<1>1. /\ w \in Thread /\ m \in WaitQueue
      /\ pc[w] = "blocked" /\ object[w] = m /\ status[w] = "IN_PROGRESS"
  BY MutexAssumption DEF Waiters, IInv, WaitInv, LinksConsistent
<1>2. InCall(w) /\ DepthKnown(w) /\ \A k \in Mutex : Knows(w, k)
  BY <1>1 DEF IInv, Sound
<1>3. InCall(w)'
  BY <1>1, <1>2 DEF InCall
<1>4. DepthKnown(w)'
  BY <1>1, <1>2 DEF DepthKnown
<1>5. ASSUME NEW k \in Mutex PROVE Knows(w, k)'
  <2>1. CASE k = m
    <3>1. held[w][m] = 0
      BY <1>1, <1>2 DEF Knows, Chosen
    <3> QED BY <3>1, <2>1, <1>1 DEF Knows, Chosen
  <2>2. CASE k # m
    BY <2>2, <1>1, <1>2 DEF Knows, Chosen
  <2> QED BY <2>1, <2>2
<1> QED BY <1>3, <1>4, <1>5 DEF Sound

-----------------------------------------------------------------------------
(* A thread that is told that it has the mutex it asked for.               *)
LEMMA TakenInvariant ==
  ASSUME IInv, WaitInv', NEW t \in Thread, NEW m \in Mutex,
         Take(t, m), Told(t, m, 1), UNCHANGED << valid, own, condVars, wq >>,
         UNCHANGED << object, cancel, cancel_status, status >>,
         pc' = [pc EXCEPT ![t] = "returning"],
         \/ pc[t] = "armed" /\ object[t] = m
         \/ pc[t] = "running" /\ mutex[t] = NoMutex
  PROVE  IInv'
<1>1. pc[t] \in {"running", "armed"} /\ pc'[t] = "returning"
      /\ \A u \in Thread \ {t} : pc'[u] = pc[u]
  BY DEF IInv, WaitInv, WaitTypeOK
<1>2. /\ owner' \in [Mutex -> Thread \cup {NoOwner}]
      /\ recursive_locks' \in [Mutex -> Nat]
      /\ owner_params' \in [Mutex -> Prio]
      /\ held' \in [Thread -> [Mutex -> Nat]]
      /\ owner'[m] = t
      /\ held'[t][m] = held[t][m] + 1
      /\ \A k \in Mutex \ {m} : /\ owner'[k] = owner[k]
                                /\ recursive_locks'[k] = recursive_locks[k]
      /\ \A k \in Mutex : held'[t][k] =
           IF owner'[k] = t THEN recursive_locks'[k] + 1 ELSE 0
      /\ \A u \in Thread \ {t} :
           /\ held'[u] = held[u]
           /\ \A k \in Mutex :
                /\ owner'[k] = u <=> owner[k] = u
                /\ owner[k] = u => recursive_locks'[k] = recursive_locks[k]
  BY <1>1, TakeFacts
<1>3. CondTypeOK'
  BY <1>2 DEF IInv, CondTypeOK, TypeOK, WaitInv, condVars
<1>4. FreeIsIdle'
  <2>1. t # NoOwner
    BY MutexAssumption
  <2>2. ASSUME NEW k \in Mutex, owner'[k] = NoOwner
        PROVE  recursive_locks'[k] = 0 /\ (valid'[k] => wq'[k] = << >>)
    <3>1. k # m /\ owner[k] = NoOwner /\ recursive_locks'[k] = recursive_locks[k]
      BY <2>1, <2>2, <1>2
    <3> QED BY <3>1 DEF IInv, FreeIsIdle
  <2> QED BY <2>2 DEF FreeIsIdle
<1>5. InCall(t) /\ DepthKnown(t)
  BY <1>1 DEF IInv, Sound
<1>6. InCall(t)'
  BY <1>1, <1>5, CondAssumption DEF InCall, condVars
<1>7. DepthKnown(t)'
  <2>1. mutex[t] = NoMutex \/ (mutex[t] = m /\ retaking[t])
    BY <1>5, CondAssumption DEF InCall
  <2>2. CASE mutex[t] = NoMutex
    BY <2>2 DEF DepthKnown, condVars
  <2>3. CASE mutex[t] = m /\ retaking[t] /\ mutex[t] # NoMutex
    <3>1. pc[t] = "armed" /\ object[t] # Cond
      BY <2>3, CondAssumption
    <3>2. valid[m] => held[t][m] = depth[t] - 1
      BY <3>1, <2>3, <1>5 DEF DepthKnown
    <3>3. depth[t] \in Nat /\ held[t][m] \in Nat
      BY DEF IInv, CondTypeOK, TypeOK
    <3>4. valid[m] => held'[t][m] = depth[t]
      BY <3>2, <3>3, <1>2
    <3> QED BY <3>4, <2>3, <1>1, <1>2 DEF DepthKnown, condVars
  <2> QED BY <2>1, <2>2, <2>3
<1>8. \A k \in Mutex : Knows(t, k)'
  BY <1>1, <1>2 DEF Knows, Chosen
<1>9. \A u \in Thread \ {t} : Sound(u)'
  BY <1>1, <1>2, Undisturbed DEF IInv, condVars
<1> QED BY <1>3, <1>4, <1>6, <1>7, <1>8, <1>9 DEF IInv, Sound

(* A thread that has to wait for it, or for the condition variable.        *)
LEMMA BlocksInvariant ==
  ASSUME IInv, NEW t \in Thread, NEW q \in WaitQueue, Enters(t, q), Block(t),
         UNCHANGED << owner, recursive_locks, owner_params, valid, held, own >>,
         UNCHANGED condVars,
         q \in Mutex => owner[q] # NoOwner,
         q = Cond => ~valid[mutex[t]],
         q \in Mutex \cup {Cond}
  PROVE  IInv'
<1>1. WaitInv'
  BY BlockInvariant DEF IInv
<1>2. pc[t] = "armed" /\ object[t] = q
  BY DEF Enters
<1>3. InCall(t) /\ DepthKnown(t) /\ \A k \in Mutex : Knows(t, k)
  BY <1>2 DEF IInv, Sound
<1>4. /\ UNCHANGED << object, cancel >>
      /\ \/ /\ cancel[t] # NoEvent /\ pc'[t] = "returning"
            /\ status' = status /\ cancel_status' = cancel_status
         \/ /\ pc'[t] = "blocked" /\ status'[t] = "IN_PROGRESS"
            /\ cancel[t] = NoEvent => cancel_status'[t] = "CANCELLED"
      /\ \A k \in Mutex \ {q} : wq'[k] = wq[k]
      /\ \A u \in Thread \ {t} :
           /\ pc'[u] = pc[u] /\ status'[u] = status[u]
           /\ cancel_status'[u] = cancel_status[u]
  <2>1. CASE cancel[t] # NoEvent /\ signaled[cancel[t]]
    BY <2>1 DEF Block, IInv, WaitInv, WaitTypeOK
  <2>2. CASE ~(cancel[t] # NoEvent /\ signaled[cancel[t]])
    <3>1. /\ pc' = [pc EXCEPT ![t] = "blocked"]
          /\ wq' = [wq EXCEPT ![q] = Append(@, t)]
          /\ status' = [status EXCEPT ![t] = "IN_PROGRESS"]
          /\ cancel_status' = [cancel_status EXCEPT ![t] =
                                 IF cancel[t] = NoEvent THEN "CANCELLED"
                                                        ELSE "IN_PROGRESS"]
          /\ UNCHANGED << object, cancel >>
      BY <1>2, <2>2 DEF Block
    <3>2. /\ pc'[t] = "blocked" /\ status'[t] = "IN_PROGRESS"
          /\ cancel[t] = NoEvent => cancel_status'[t] = "CANCELLED"
      BY <3>1 DEF IInv, WaitInv, WaitTypeOK
    <3>3. \A u \in Thread \ {t} :
            /\ pc'[u] = pc[u] /\ status'[u] = status[u]
            /\ cancel_status'[u] = cancel_status[u]
      BY <3>1 DEF IInv, WaitInv, WaitTypeOK
    <3>4. \A k \in Mutex \ {q} : wq'[k] = wq[k]
      BY <3>1, MutexAssumption DEF IInv, WaitInv, WaitTypeOK
    <3> QED BY <3>1, <3>2, <3>3, <3>4
  <2> QED BY <2>1, <2>2
<1>5. \A k \in Mutex : owner[k] = NoOwner /\ wq[k] = << >> => wq'[k] = << >>
  BY <1>4
<1>6. InCall(t)'
  <2>1. retaking[t] => cancel[t] = NoEvent
    BY <1>2, <1>3 DEF InCall
  <2> QED BY <2>1, <1>2, <1>3, <1>4 DEF InCall, condVars
<1>7. DepthKnown(t)'
  <2>1. mutex[t] # NoMutex => retaking[t] \/ q = Cond
    BY <1>2, <1>3 DEF InCall
  <2>2. retaking[t] => q # Cond /\ pc'[t] # "returning"
    BY <1>2, <1>3, <1>4 DEF InCall
  <2>3. pc'[t] # "armed"
    BY <1>4
  <2> QED BY <2>1, <2>2, <2>3, <1>2, <1>3 DEF DepthKnown, condVars
<1>8. \A k \in Mutex : Knows(t, k)'
  BY <1>2, <1>3, <1>4 DEF Knows, Chosen
<1> QED BY <1>1, <1>4, <1>5, <1>6, <1>7, <1>8, OneThreadInvariant
        DEF condVars, IInv, CondTypeOK, Sound

(* fx_mutex_acquire takes the mutex or waits for its owner.                *)
LEMMA TestAndWaitInvariant ==
  ASSUME IInv, NEW t \in Thread, NEW m \in Mutex, TestAndWait(t, m),
         UNCHANGED condVars
  PROVE  IInv'
<1>1. m \in WaitQueue /\ pc[t] = "armed" /\ object[t] = m
  BY MutexAssumption DEF TestAndWait, Enters
<1>2. CASE MayTake(t, m)
  <2>1. Take(t, m) /\ Told(t, m, 1) /\ Proceed(t) /\ Enters(t, m)
        /\ UNCHANGED << valid, own >>
    BY <1>2 DEF TestAndWait
  <2>2. prio' \in [Thread -> Prio]
    BY <1>1, <2>1, TakeFacts
  <2>3. WaitInv'
    BY <1>1, <2>1, <2>2, ProceedInvariant DEF IInv
  <2> QED BY <1>1, <2>1, <2>3, TakenInvariant DEF Proceed, Skip, restVars
<1>3. CASE ~MayTake(t, m)
  <2>1. Block(t) /\ Enters(t, m) /\ m # Cond /\ owner[m] # NoOwner
        /\ UNCHANGED << owner, recursive_locks, owner_params, valid, held, own >>
    BY <1>3, CondAssumption DEF TestAndWait, MayTake
  <2> QED BY <1>1, <2>1, BlocksInvariant
<1> QED BY <1>2, <1>3

(* The same without waiting.                                               *)
LEMMA TryAcquireInvariant ==
  ASSUME IInv, NEW t \in Thread, NEW m \in Mutex, InNoWait(t), TryAcquire(t, m),
         UNCHANGED condVars
  PROVE  IInv'
<1>1. pc[t] = "running" /\ TryCall(t) /\ mutex[t] = NoMutex
  BY DEF TryAcquire, TryCall, InNoWait
<1>2. CASE MayTake(t, m)
  <2>1. Take(t, m) /\ Told(t, m, 1) /\ TryDone(t, "OK") /\ UNCHANGED << valid, own >>
    BY <1>2 DEF TryAcquire
  <2>2. prio' \in [Thread -> Prio]
    BY <1>1, <2>1, TakeFacts
  <2>3. WaitInv'
    BY <1>1, <2>1, <2>2, TryDoneInvariant DEF IInv, Result
  <2> QED BY <1>1, <2>1, <2>3, TakenInvariant DEF TryDone, Skip, restVars
<1>3. CASE ~MayTake(t, m)
  <2>1. TryDone(t, "WAIT_TIMEOUT")
        /\ UNCHANGED << prio, owner, recursive_locks, owner_params, valid, held, own >>
    BY <1>3 DEF TryAcquire
  <2>2. WaitInv'
    BY <1>1, <2>1, TryDoneInvariant DEF IInv, Result, WaitInv, WaitTypeOK
  <2>3. /\ pc' = [pc EXCEPT ![t] = "returning"]
        /\ UNCHANGED << wq, object, cancel, cancel_status, status >>
    BY <2>1 DEF TryDone, Skip, restVars
  <2>4. pc'[t] = "returning" /\ \A u \in Thread \ {t} : pc'[u] = pc[u]
    BY <2>3 DEF IInv, WaitInv, WaitTypeOK
  <2>5. InCall(t) /\ \A k \in Mutex : Knows(t, k)
    BY <1>1 DEF IInv, Sound
  <2>6. Sound(t)'
    <3>1. InCall(t)'
      BY <1>1, <2>3, <2>4, <2>5 DEF InCall, condVars
    <3>2. DepthKnown(t)'
      BY <1>1 DEF DepthKnown, condVars
    <3>3. \A k \in Mutex : Knows(t, k)'
      BY <1>1, <2>1, <2>3, <2>4, <2>5 DEF Knows, Chosen
    <3> QED BY <3>1, <3>2, <3>3 DEF Sound
  <2> QED BY <2>1, <2>2, <2>3, <2>4, <2>6, OneThreadInvariant
          DEF condVars, IInv, CondTypeOK
<1> QED BY <1>2, <1>3

-----------------------------------------------------------------------------
(* Steps that release a mutex: what they have in common.                   *)
LEMMA GivenUpInvariant ==
  ASSUME IInv, WaitInv', NEW t \in Thread, NEW m \in Mutex,
         pc[t] \in {"running", "armed"}, owner[m] = t,
         NEW p \in Policy, NEW w, w = Heir(m, p), GiveUp(t, m, w), Sound(t)',
         cond_valid' = cond_valid,
         mutex' \in [Thread -> Mutex \cup {NoMutex}],
         retaking' \in [Thread -> BOOLEAN], depth' \in [Thread -> Nat],
         \A k \in Mutex : wq[k] = << >> => wq'[k] = << >>,
         \A u \in Thread \ {t} :
           /\ pc'[u] = pc[u] /\ object'[u] = object[u] /\ cancel'[u] = cancel[u]
           /\ cancel_status'[u] = cancel_status[u]
           /\ status'[u] = IF u = w THEN "SATISFIED" ELSE status[u]
           /\ mutex'[u] = mutex[u] /\ retaking'[u] = retaking[u]
           /\ depth'[u] = depth[u]
  PROVE  IInv'
<1>1. /\ owner' \in [Mutex -> Thread \cup {NoOwner}]
      /\ recursive_locks' \in [Mutex -> Nat]
      /\ owner_params' \in [Mutex -> Prio]
      /\ held' \in [Thread -> [Mutex -> Nat]]
      /\ valid' = valid /\ own' = own
      /\ w \in Waiters(m) \cup {NoOwner} /\ w # t
      /\ w # NoOwner => owner'[m] = w /\ recursive_locks'[m] = 0
      /\ owner'[m] = NoOwner => recursive_locks'[m] = 0 /\ wq[m] = << >>
      /\ \A k \in Mutex \ {m} : /\ owner'[k] = owner[k]
                                /\ recursive_locks'[k] = recursive_locks[k]
      /\ \A u \in Thread \ {t} : held'[u] = held[u]
      /\ \A u \in Thread \ {t, w} : \A k \in Mutex :
           /\ owner'[k] = u <=> owner[k] = u
           /\ owner[k] = u => recursive_locks'[k] = recursive_locks[k]
  BY GiveUpFacts
<1>2. CondTypeOK'
  BY <1>1 DEF IInv, CondTypeOK, TypeOK, WaitInv
<1>3. FreeIsIdle'
  <2>1. ASSUME NEW k \in Mutex, owner'[k] = NoOwner
        PROVE  recursive_locks'[k] = 0 /\ (valid'[k] => wq'[k] = << >>)
    <3>1. CASE k = m
      BY <2>1, <3>1, <1>1
    <3>2. CASE k # m
      <4>1. /\ owner[k] = NoOwner /\ recursive_locks'[k] = recursive_locks[k]
            /\ valid'[k] = valid[k] /\ (wq[k] = << >> => wq'[k] = << >>)
        BY <2>1, <3>2, <1>1
      <4> QED BY <4>1 DEF IInv, FreeIsIdle
    <3> QED BY <3>1, <3>2
  <2> QED BY <2>1 DEF FreeIsIdle
<1>4. ASSUME NEW u \in Thread \ {t} PROVE Sound(u)'
  <2>1. CASE u = w
    <3>1. u \in Waiters(m) /\ w # NoOwner
      BY <2>1, <1>1, MutexAssumption
    <3> QED BY <2>1, <3>1, <1>1, HeirSound
  <2>2. CASE u # w
    BY <2>2, <1>1, Undisturbed DEF IInv
  <2> QED BY <2>1, <2>2
<1> QED BY <1>2, <1>3, <1>4 DEF IInv

(* A step that only changes priorities.                                    *)
LEMMA WaitPrioChanged ==
  ASSUME WaitInv, prio' \in [Thread -> Prio],
         UNCHANGED << pc, state, wq, status, result, restVars >>
  PROVE  WaitInv'
<1> USE DEF WaitInv, restVars
<1>1. WaitTypeOK'
  BY DEF WaitTypeOK
<1>2. LinksConsistent' /\ SleeperCanWake' /\ WokenForReason' /\ TimerBelongsToWait'
  BY DEF LinksConsistent, SleeperCanWake, WokenForReason, TimerBelongsToWait
<1> QED BY <1>1, <1>2

(* A release, step by step, is what GiveUp and the notification of the     *)
(* heir are together.                                                      *)
LEMMA ReleaseGivesUp ==
  ASSUME IInv, NEW t \in Thread, NEW m \in Mutex, NEW p \in Policy,
         Release(t, m, p)
  PROVE  /\ GiveUp(t, m, Heir(m, p))
         /\ UNCHANGED << pc, object, cancel, cancel_status >>
         /\ \/ /\ Heir(m, p) # NoOwner
               /\ NotifyOne(m, Heir(m, p), "SATISFIED")
            \/ /\ Heir(m, p) = NoOwner
               /\ UNCHANGED << pc, state, wq, status, result, restVars >>
<1>1. /\ recursive_locks[m] \in Nat /\ m \in WaitQueue
      /\ Heir(m, p) \in Waiters(m) \cup {NoOwner}
      /\ recursive_locks[m] > 0 => Heir(m, p) = NoOwner
      /\ recursive_locks[m] = 0 /\ Heir(m, p) = NoOwner => wq[m] = << >>
  BY HeirWaits, MutexAssumption DEF IInv, WaitInv, CondTypeOK, TypeOK
<1>2. CASE recursive_locks[m] > 0
  BY <1>1, <1>2 DEF Release, GiveUp, waitVars, restVars
<1>3. CASE recursive_locks[m] = 0 /\ wq[m] # << >>
  <2>1. Heir(m, p) = WaitBlockGet(m, p)
    BY <1>3 DEF Heir
  <2>2. Heir(m, p) # NoOwner
    BY <2>1, <1>1, <1>3, MutexAssumption, SelectedIsWaiter DEF IInv, WaitInv, Waiters
  <2> QED BY <2>1, <2>2, <1>1, <1>3 DEF Release, GiveUp, NotifyOne, restVars
<1>4. CASE recursive_locks[m] = 0 /\ wq[m] = << >>
  <2>1. Heir(m, p) = NoOwner
    BY <1>4 DEF Heir
  <2> QED BY <2>1, <1>1, <1>4 DEF Release, GiveUp, restVars
<1> QED BY <1>1, <1>2, <1>3, <1>4

(* fx_mutex_release gives a lock back, or hands the mutex over.            *)
LEMMA ReleaseInvariant ==
  ASSUME IInv, NEW t \in Thread, NEW m \in Mutex, NEW p \in Policy,
         InNoWait(t), Release(t, m, p), UNCHANGED condVars
  PROVE  IInv'
<1> DEFINE w == Heir(m, p)
<1>1. /\ pc[t] = "running" /\ owner[m] = t /\ mutex[t] = NoMutex
      /\ m \in WaitQueue
  BY MutexAssumption DEF Release, InNoWait
<1>2. /\ GiveUp(t, m, w)
      /\ UNCHANGED << pc, object, cancel, cancel_status >>
      /\ \/ w # NoOwner /\ NotifyOne(m, w, "SATISFIED")
         \/ w = NoOwner /\ UNCHANGED << pc, state, wq, status, result, restVars >>
  BY ReleaseGivesUp
<1>3. /\ w \in Waiters(m) \cup {NoOwner} /\ w # t
      /\ prio' \in [Thread -> Prio]
      /\ valid' = valid
      /\ \A k \in Mutex : held'[t][k] =
           IF owner'[k] = t THEN recursive_locks'[k] + 1 ELSE 0
  BY <1>1, <1>2, GiveUpFacts
<1> HIDE DEF w
<1>4. WaitInv'
  BY <1>1, <1>2, <1>3, NotifyOneInvariant, WaitPrioChanged DEF IInv
<1>5. \A u \in Thread : status'[u] = IF u = w THEN "SATISFIED" ELSE status[u]
  BY <1>2, <1>3, MutexAssumption DEF NotifyOne, NotifyBlock, IInv, WaitInv, WaitTypeOK
<1>6. \A k \in Mutex : wq[k] = << >> => wq'[k] = << >>
  <2>1. CASE w # NoOwner
    <3>1. wq' = [wq EXCEPT ![m] = Unlink(@, w)]
      BY <1>2, <2>1 DEF NotifyOne, NotifyBlock
    <3>2. \A k \in Mutex \ {m} : wq'[k] = wq[k]
      BY <3>1, <1>1, MutexAssumption DEF IInv, WaitInv, WaitTypeOK
    <3>3. wq[m] # << >>
      BY <2>1 DEF w, Heir
    <3> QED BY <3>2, <3>3
  <2>2. CASE w = NoOwner
    BY <1>2, <2>2
  <2> QED BY <2>1, <2>2
<1>7. Sound(t)'
  <2>1. InCall(t)
    BY <1>1 DEF IInv, Sound
  <2>2. InCall(t)'
    BY <2>1, <1>1, <1>2 DEF InCall, condVars
  <2>3. DepthKnown(t)'
    BY <1>1 DEF DepthKnown, condVars
  <2>4. \A k \in Mutex : Knows(t, k)'
    BY <1>1, <1>2, <1>3 DEF Knows, Chosen
  <2> QED BY <2>2, <2>3, <2>4 DEF Sound
<1>8. w = Heir(m, p)
  BY DEF w
<1> QED BY <1>1, <1>2, <1>4, <1>5, <1>6, <1>7, <1>8, GivenUpInvariant
        DEF condVars, IInv, CondTypeOK

(* The critical section that gives the mutex up and waits.                 *)
LEMMA CondTestAndWaitInvariant ==
  ASSUME IInv, NEW t \in Thread, NEW p \in Policy, CondTestAndWait(t, p)
  PROVE  IInv'
<1>1. /\ pc[t] = "armed" /\ object[t] = Cond /\ Enters(t, Cond)
      /\ Cond \in WaitQueue /\ Cond \notin Mutex
      /\ UNCHANGED condVars
  BY CondAssumption DEF CondTestAndWait, Enters
<1>2. InCall(t) /\ DepthKnown(t) /\ \A k \in Mutex : Knows(t, k)
  BY <1>1 DEF IInv, Sound
<1>3. mutex[t] # NoMutex /\ mutex[t] \in Mutex /\ ~retaking[t]
  BY <1>1, <1>2 DEF InCall, IInv, CondTypeOK
<1>4. CASE valid[mutex[t]]
  <2> DEFINE m == mutex[t]
             w == Heir(m, p)
             aborted == cancel[t] # NoEvent /\ signaled[cancel[t]]
  <2>1. GiveUp(t, m, w) /\ BlockAndNotify(t, m, w)
    BY <1>4 DEF CondTestAndWait
  <2>2. /\ owner[m] = t /\ held[t][m] = depth[t] /\ m \in Mutex /\ m \in WaitQueue
        /\ m # Cond
    BY <1>1, <1>2, <1>3, <1>4, MutexAssumption DEF DepthKnown
  <2>3. m = mutex[t] /\ w = Heir(m, p)
    OBVIOUS
  <2> HIDE DEF m, w, aborted
  <2>4. /\ w \in Waiters(m) \cup {NoOwner} /\ w # t
        /\ prio' \in [Thread -> Prio] /\ valid' = valid
        /\ held'[t][m] = held[t][m] - 1
        /\ \A k \in Mutex : held'[t][k] =
             IF owner'[k] = t THEN recursive_locks'[k] + 1 ELSE 0
    BY <1>1, <2>1, <2>2, <2>3, GiveUpFacts
  <2>5. WaitInv'
    BY <1>1, <2>1, <2>2, <2>4, BlockAndNotifyInvariant DEF IInv
  <2>6. /\ pc' = [pc EXCEPT ![t] = IF aborted THEN "returning" ELSE "blocked"]
        /\ wq' = [wq EXCEPT ![m] = Unlink(@, w),
                            ![Cond] = IF aborted THEN @ ELSE Append(@, t)]
        /\ status' = [u \in Thread |->
                        IF u = w THEN "SATISFIED"
                        ELSE IF u = t /\ ~aborted THEN "IN_PROGRESS"
                        ELSE status[u]]
        /\ cancel_status' = [cancel_status EXCEPT ![t] =
                               IF aborted \/ cancel[t] = NoEvent THEN @
                               ELSE "IN_PROGRESS"]
        /\ UNCHANGED << object, cancel >>
    BY <2>1 DEF BlockAndNotify, aborted
  <2>7. /\ pc'[t] = IF aborted THEN "returning" ELSE "blocked"
        /\ ~aborted => status'[t] = "IN_PROGRESS"
        /\ cancel[t] = NoEvent => cancel_status'[t] = cancel_status[t]
        /\ \A u \in Thread \ {t} :
             /\ pc'[u] = pc[u] /\ cancel_status'[u] = cancel_status[u]
             /\ status'[u] = IF u = w THEN "SATISFIED" ELSE status[u]
    BY <2>4, <2>6 DEF IInv, WaitInv, WaitTypeOK
  <2>8. \A k \in Mutex : wq[k] = << >> => wq'[k] = << >>
    <3>1. /\ wq'[m] = Unlink(wq[m], w)
          /\ \A k \in Mutex \ {m} : wq'[k] = wq[k]
      BY <1>1, <2>2, <2>6, MutexAssumption DEF IInv, WaitInv, WaitTypeOK
    <3>2. wq[m] = << >> => Unlink(wq[m], w) = << >>
      BY EmptySeq DEF Unlink, Linked
    <3> QED BY <3>1, <3>2
  <2>9. Sound(t)'
    <3>1. InCall(t)'
      BY <1>1, <1>2, <1>3, <2>6, <2>7 DEF InCall, condVars
    <3>2. DepthKnown(t)'
      BY <1>1, <1>3, <2>2, <2>3, <2>4, <2>7 DEF DepthKnown, condVars
    <3>3. \A k \in Mutex : Knows(t, k)'
      BY <1>1, <2>4, <2>6 DEF Knows, Chosen
    <3> QED BY <3>1, <3>2, <3>3 DEF Sound
  <2> QED BY <1>1, <2>1, <2>2, <2>3, <2>5, <2>6, <2>7, <2>8, <2>9, GivenUpInvariant
          DEF condVars, IInv, CondTypeOK
<1>5. CASE ~valid[mutex[t]]
  <2>1. Block(t) /\ UNCHANGED mutexVars
    BY <1>5 DEF CondTestAndWait
  <2> QED BY <1>1, <1>5, <2>1, BlocksInvariant DEF mutexVars
<1> QED BY <1>4, <1>5

(* A wait for the condition variable with a zero timeout gives the mutex   *)
(* up and takes it back.                                                   *)
LEMMA CondTryInvariant ==
  ASSUME IInv, NEW t \in Thread, NEW m \in Mutex, NEW p \in Policy,
         CondTry(t, m, p)
  PROVE  IInv'
<1> DEFINE w == Heir(m, p)
<1>1. /\ pc[t] = "running" /\ owner[m] = t /\ TryCall(t) /\ m \in WaitQueue
      /\ mutex[t] = NoMutex /\ m # NoMutex
      /\ mutex' = [mutex EXCEPT ![t] = m]
      /\ depth' = [depth EXCEPT ![t] = held[t][m]]
      /\ GiveUp(t, m, w) /\ TimeOutAndNotify(t, m, w)
      /\ UNCHANGED << cond_valid, retaking >>
  BY MutexAssumption, CondAssumption DEF CondTry, TryCall, InNoWait
<1>2. InCall(t) /\ \A k \in Mutex : Knows(t, k)
  BY <1>1 DEF IInv, Sound
<1>3. w = Heir(m, p)
  OBVIOUS
<1> HIDE DEF w
<1>4. /\ w \in Waiters(m) \cup {NoOwner} /\ w # t
      /\ prio' \in [Thread -> Prio] /\ valid' = valid
      /\ held'[t][m] = held[t][m] - 1
      /\ \A k \in Mutex : held'[t][k] =
           IF owner'[k] = t THEN recursive_locks'[k] + 1 ELSE 0
  BY <1>1, <1>3, GiveUpFacts
<1>5. WaitInv'
  BY <1>1, <1>4, TimeOutAndNotifyInvariant DEF IInv
<1>6. /\ pc' = [pc EXCEPT ![t] = "returning"]
      /\ wq' = [wq EXCEPT ![m] = Unlink(@, w)]
      /\ status' = [u \in Thread |-> IF u = w THEN "SATISFIED" ELSE status[u]]
      /\ UNCHANGED << object, cancel, cancel_status >>
  BY <1>1 DEF TimeOutAndNotify, Skip, restVars
<1>7. /\ pc'[t] = "returning"
      /\ \A u \in Thread \ {t} : pc'[u] = pc[u]
      /\ \A u \in Thread : status'[u] = IF u = w THEN "SATISFIED" ELSE status[u]
  BY <1>6 DEF IInv, WaitInv, WaitTypeOK
<1>8. /\ mutex' \in [Thread -> Mutex \cup {NoMutex}] /\ depth' \in [Thread -> Nat]
      /\ mutex'[t] = m /\ depth'[t] = held[t][m]
      /\ \A u \in Thread \ {t} : mutex'[u] = mutex[u] /\ depth'[u] = depth[u]
  BY <1>1 DEF IInv, CondTypeOK, TypeOK
<1>9. \A k \in Mutex : wq[k] = << >> => wq'[k] = << >>
  <2>1. /\ wq'[m] = Unlink(wq[m], w)
        /\ \A k \in Mutex \ {m} : wq'[k] = wq[k]
    BY <1>1, <1>6, MutexAssumption DEF IInv, WaitInv, WaitTypeOK
  <2>2. wq[m] = << >> => Unlink(wq[m], w) = << >>
    BY EmptySeq DEF Unlink, Linked
  <2> QED BY <2>1, <2>2
<1>10. Sound(t)'
  <2>1. ~retaking[t]
    BY <1>1, <1>2 DEF InCall
  <2>2. InCall(t)'
    BY <2>1, <1>1, <1>2, <1>6, <1>7, <1>8 DEF InCall
  <2>3. DepthKnown(t)'
    BY <2>1, <1>1, <1>4, <1>7, <1>8 DEF DepthKnown
  <2>4. \A k \in Mutex : Knows(t, k)'
    BY <1>4, <1>7 DEF Knows, Chosen
  <2> QED BY <2>2, <2>3, <2>4 DEF Sound
<1>11. /\ cond_valid' = cond_valid /\ retaking' \in [Thread -> BOOLEAN]
       /\ \A u \in Thread \ {t} :
            /\ pc'[u] = pc[u] /\ object'[u] = object[u] /\ cancel'[u] = cancel[u]
            /\ cancel_status'[u] = cancel_status[u]
            /\ status'[u] = IF u = w THEN "SATISFIED" ELSE status[u]
            /\ mutex'[u] = mutex[u] /\ retaking'[u] = retaking[u]
            /\ depth'[u] = depth[u]
  BY <1>1, <1>6, <1>7, <1>8 DEF IInv, CondTypeOK
<1>12. pc[t] \in {"running", "armed"} /\ owner[m] = t /\ GiveUp(t, m, w)
  BY <1>1
<1> QED BY <1>3, <1>5, <1>8, <1>9, <1>10, <1>11, <1>12, GivenUpInvariant

-----------------------------------------------------------------------------
(* The invariant holds at first and is kept by every step.                 *)
LEMMA InitInvariant == CondInit => IInv
<1> SUFFICES ASSUME CondInit PROVE IInv
  OBVIOUS
<1>1. /\ WaitInit /\ WaitInv
      /\ owner = [m \in Mutex |-> NoOwner]
      /\ recursive_locks = [m \in Mutex |-> 0]
      /\ owner_params = [m \in Mutex |-> CHOOSE p \in Prio : TRUE]
      /\ valid \in [Mutex -> BOOLEAN] /\ cond_valid \in BOOLEAN
      /\ held = [t \in Thread |-> [m \in Mutex |-> 0]]
      /\ own = prio
      /\ mutex = [t \in Thread |-> NoMutex]
      /\ retaking = [t \in Thread |-> FALSE]
      /\ depth = [t \in Thread |-> 0]
  BY WaitInitInvariant DEF CondInit, Init
<1>2. /\ pc = [t \in Thread |-> "running"] /\ wq = [q \in WaitQueue |-> << >>]
      /\ cancel = [t \in Thread |-> NoEvent]
      /\ cancel_status = [t \in Thread |-> "CANCELLED"]
      /\ prio \in [Thread -> Prio]
  BY <1>1 DEF WaitInit
<1>3. (CHOOSE p \in Prio : TRUE) \in Prio
  BY MutexAssumption
<1>4. CondTypeOK
  BY <1>1, <1>2, <1>3 DEF CondTypeOK, TypeOK, WaitInv
<1>5. FreeIsIdle
  BY <1>1, <1>2, MutexAssumption DEF FreeIsIdle
<1>6. ASSUME NEW t \in Thread PROVE Sound(t)
  <2>1. NoOwner # t
    BY MutexAssumption
  <2>2. InCall(t)
    BY <1>1, <1>2 DEF InCall
  <2>3. DepthKnown(t)
    BY <1>1 DEF DepthKnown
  <2>4. \A m \in Mutex : Knows(t, m)
    BY <2>1, <1>1, <1>2 DEF Knows, Chosen
  <2> QED BY <2>2, <2>3, <2>4 DEF Sound
<1> QED BY <1>1, <1>4, <1>5, <1>6 DEF IInv

(* All steps together.                                                     *)
LEMMA NextInvariant == IInv /\ [CondNext]_allVars => IInv'
<1> SUFFICES ASSUME IInv, [CondNext]_allVars PROVE IInv'
  OBVIOUS
<1>1. CASE CondStep
  BY <1>1, CondWaitInvariant, CondTryInvariant, CondTestAndWaitInvariant,
     CondReturnInvariant, RetakeInvariant, CondNotifyInvariant DEF CondStep
<1>2. CASE MutexStep /\ UNCHANGED condVars
  <2>1. ASSUME NEW t \in Thread, NEW m \in Mutex, InNoWait(t),
               \/ \E c \in {t, NoEvent} \cup AbortEvent : Acquire(t, m, c)
               \/ TryAcquire(t, m)
               \/ \E policy \in Policy : Release(t, m, policy)
        PROVE  IInv'
    BY <1>2, <2>1, AcquireInvariant, TryAcquireInvariant, ReleaseInvariant
  <2>2. ASSUME NEW t \in Thread, NEW m \in Mutex, TestAndWait(t, m)
        PROVE  IInv'
    BY <1>2, <2>2, TestAndWaitInvariant
  <2>3. ASSUME NEW t \in Thread, WakeupTold(t) PROVE IInv'
    BY <1>2, <2>3, WakeupToldInvariant
  <2>4. ASSUME NEW t \in Thread, InNoWait(t), Return(t), UNCHANGED mutexVars
        PROVE  IInv'
    BY <1>2, <2>4, ReturnInvariantHere
  <2>5. ASSUME NEW t \in Thread, NEW p \in NewPrio, SetParams(t, p) PROVE IInv'
    BY <1>2, <2>5, SetParamsInvariant
  <2>6. ASSUME NEW m \in Mutex, Deinit(m) PROVE IInv'
    BY <1>2, <2>6, DeinitInvariant
  <2>7. CASE EventStep /\ UNCHANGED mutexVars
    BY <1>2, <2>7, EventStepInvariant
  <2> QED BY <1>2, <2>1, <2>2, <2>3, <2>4, <2>5, <2>6, <2>7 DEF MutexStep
<1>3. CASE \E t \in Thread : CondTerminate(t)
  BY <1>3, TerminateInvariantHere
<1>4. CASE UNCHANGED allVars
  <2>1. WaitInv'
    BY <1>4, WaitUnchanged DEF allVars, vars, IInv
  <2> QED BY <2>1, <1>4, QuietInvariant
          DEF allVars, vars, waitVars, mutexVars, condVars, IInv, CondTypeOK, TypeOK
<1> QED BY <1>1, <1>2, <1>3, <1>4 DEF CondNext

(* The invariant of mutexes and the condition variable holds in every      *)
(* state.                                                                  *)
LEMMA InvariantHolds == CondSpec => []IInv
<1> QED BY InitInvariant, NextInvariant, PTL DEF CondSpec

(* The types of the mutexes' state, and of the waits'.                     *)
THEOREM TypeCorrect == CondSpec => []TypeOK
<1> QED BY InvariantHolds, InvariantImplies, PTL

(* No thread waits for a mutex that nobody has, whatever threads release,  *)
(* destroy, time out, are terminated, or use the condition variable.       *)
THEOREM NobodyWaitsForFree == CondSpec => []NoIdleMutex
<1> QED BY InvariantHolds, InvariantImplies, PTL

(* A thread has a mutex as often as the calls it made told it.             *)
THEOREM OwnersKnow == CondSpec => []OwnershipKnown
<1> QED BY InvariantHolds, InvariantImplies, PTL

(* A thread has the mutex until it is in the queue of the condition        *)
(* variable.                                                               *)
THEOREM SignalsNotTooEarly == CondSpec => []NoSignalTooEarly
<1> QED BY InvariantHolds, InvariantImplies, PTL

(* A thread that returns from fx_cond_wait has the mutex as often as it    *)
(* had it when it called.                                                  *)
THEOREM MutexRestored == CondSpec => CondRestoresMutex
<1> DEFINE Restores(t) ==
      ~InNoWait(t) /\ mutex'[t] = NoMutex /\ pc'[t] # "dead" /\ valid[mutex[t]]
        => owner[mutex[t]] = t /\ held[t][mutex[t]] = depth[t]
<1>1. ASSUME IInv, [CondNext]_allVars, NEW t \in Thread,
             ~InNoWait(t), mutex'[t] = NoMutex, pc'[t] # "dead", valid[mutex[t]]
      PROVE  owner[mutex[t]] = t /\ held[t][mutex[t]] = depth[t]
  <2>1. mutex[t] # NoMutex /\ mutex'[t] # mutex[t] /\ mutex \in [Thread -> Mutex \cup {NoMutex}]
    BY <1>1 DEF InNoWait, IInv, CondTypeOK
  <2>2. ASSUME NEW u \in Thread, NEW m \in Mutex, mutex' = [mutex EXCEPT ![u] = m]
        PROVE  FALSE
    BY <1>1, <2>1, <2>2, CondAssumption
  <2>3. ~ \E u \in Thread : CondTerminate(u)
    <3>1. ASSUME NEW u \in Thread, CondTerminate(u) PROVE FALSE
      <4>1. /\ mutex' = [mutex EXCEPT ![u] = NoMutex]
            /\ pc' = [pc EXCEPT ![u] = "dead"]
        BY <3>1 DEF CondTerminate, Terminate
      <4>2. u = t
        BY <2>1, <4>1
      <4> QED BY <1>1, <4>1, <4>2 DEF IInv, WaitInv, WaitTypeOK
    <3> QED BY <3>1
  <2>4. PICK u \in Thread : CondReturn(u) \/ Retake(u)
    BY <1>1, <2>1, <2>2, <2>3
    DEF CondNext, CondStep, CondWait, CondTry, CondTestAndWait, CondSignal,
        CondBroadcast, CondDeinit, allVars, condVars
  <2>5. CASE CondReturn(u) /\ retaking[u]
    <3>1. mutex' = [mutex EXCEPT ![u] = NoMutex] /\ pc[u] = "returning"
      BY <2>5 DEF CondReturn, Return
    <3>2. u = t
      BY <2>1, <3>1
    <3>3. DepthKnown(t)
      BY <3>1, <3>2, <1>1 DEF IInv, Sound
    <3> QED BY <1>1, <2>1, <2>5, <3>1, <3>2, <3>3 DEF DepthKnown
  <2>6. CASE CondReturn(u) /\ ~retaking[u]
    BY <2>1, <2>6 DEF CondReturn
  <2>7. CASE Retake(u) /\ valid[mutex[u]]
    BY <2>1, <2>7 DEF Retake
  <2>8. CASE Retake(u) /\ ~valid[mutex[u]]
    <3>1. mutex' = [mutex EXCEPT ![u] = NoMutex]
      BY <2>8 DEF Retake
    <3>2. u = t
      BY <2>1, <3>1
    <3> QED BY <1>1, <2>8, <3>2
  <2> QED BY <2>4, <2>5, <2>6, <2>7, <2>8
<1>2. ASSUME IInv, [CondNext]_allVars PROVE [\A t \in Thread : Restores(t)]_allVars
  BY <1>1, <1>2
<1> QED BY <1>2, InvariantHolds, PTL DEF CondSpec, CondRestoresMutex

-----------------------------------------------------------------------------
(* Ceilings.  A mutex that is not destroyed raises its owner.              *)
RaisedBy(t, m) == HasCeiling(m) /\ valid[m] /\ owner[m] = t

(* No thread has two mutexes with ceilings at once: each of them keeps the *)
(* priority that its owner had before in owner_params, and fx_mutex_release *)
(* gives that one back whatever else the thread has.                       *)
OneCeilingEach ==
  \A t \in Thread, m, n \in Mutex : RaisedBy(t, m) /\ RaisedBy(t, n) => m = n

(* The priority of a thread, and what the release will give back.          *)
CeilingKnown(t) ==
  /\ \A m \in Mutex :
       RaisedBy(t, m) => owner_params[m] = own[t] /\ prio[t] = Raised(own[t], m)
  /\ (\A m \in Mutex : ~RaisedBy(t, m)) => prio[t] = own[t]

(* A thread that is about to test a mutex finds it as it called for it.    *)
ArmedValid(t) ==
  pc[t] = "armed" =>
    state[t] = "READY" /\ (object[t] \in Mutex => valid[object[t]])

CeilingInv == \A t \in Thread : CeilingKnown(t) /\ ArmedValid(t)

LEMMA CeilingInvImplies == CondTypeOK /\ CeilingInv => CeilingExact
<1> SUFFICES ASSUME CondTypeOK, CeilingInv PROVE CeilingExact
  OBVIOUS
<1>1. /\ owner \in [Mutex -> Thread \cup {NoOwner}] /\ own \in [Thread -> Prio]
      /\ Prio \subseteq Int /\ Ceiling \in [Mutex -> Prio \cup {NoCeiling}]
  BY MutexAssumption, WaitAssumption DEF CondTypeOK, TypeOK
<1>2. ASSUME NEW m \in Mutex, valid[m], HasCeiling(m), owner[m] # NoOwner
      PROVE  prio[owner[m]] <= Ceiling[m]
  <2>1. owner[m] \in Thread /\ RaisedBy(owner[m], m) /\ Ceiling[m] \in Prio
    BY <1>1, <1>2 DEF RaisedBy, HasCeiling
  <2>2. prio[owner[m]] = Raised(own[owner[m]], m) /\ own[owner[m]] \in Prio
    BY <1>1, <2>1 DEF CeilingInv, CeilingKnown
  <2>3. own[owner[m]] \in Int /\ Ceiling[m] \in Int
    BY <1>1, <2>1, <2>2
  <2> DEFINE p == own[owner[m]]
             c == Ceiling[m]
  <2>4. p \in Int /\ c \in Int
    BY <2>3
  <2>5. prio[owner[m]] = IF c < p THEN c ELSE p
    BY <1>2, <2>2 DEF Raised
  <2> HIDE DEF p, c
  <2>6. prio[owner[m]] <= c
    BY <2>4, <2>5
  <2> QED BY <2>6 DEF c
<1>3. CeilingUndone
  BY DEF CeilingInv, CeilingKnown, RaisedBy, CeilingUndone
<1> QED BY <1>2, <1>3 DEF CeilingExact, CeilingApplied

(* A step that does not concern the ceilings of u.                         *)
LEMMA CeilingStays ==
  ASSUME NEW u \in Thread, CeilingKnown(u), prio'[u] = prio[u], own'[u] = own[u],
         \A m \in Mutex : /\ RaisedBy(u, m)' <=> RaisedBy(u, m)
                          /\ RaisedBy(u, m) => owner_params'[m] = owner_params[m]
  PROVE  CeilingKnown(u)'
BY DEF CeilingKnown, Raised, HasCeiling

LEMMA NoCeilingStep ==
  ASSUME CeilingInv, UNCHANGED << prio, owner, owner_params, valid, own >>
  PROVE  \A u \in Thread : CeilingKnown(u)'
BY CeilingStays DEF CeilingInv, RaisedBy, HasCeiling

(* A thread gets a mutex that is free, or that it has already.             *)
LEMMA TakeKeepsCeilings ==
  ASSUME IInv, CeilingInv, OneCeilingEach', NEW t \in Thread, NEW m \in Mutex,
         valid[m], Take(t, m), UNCHANGED << valid, own >>
  PROVE  \A u \in Thread : CeilingKnown(u)'
<1>1. /\ owner \in [Mutex -> Thread \cup {NoOwner}] /\ prio \in [Thread -> Prio]
      /\ owner_params \in [Mutex -> Prio] /\ NoOwner \notin Thread
  BY MutexAssumption DEF IInv, CondTypeOK, TypeOK, WaitInv, WaitTypeOK
<1>2. CASE owner[m] = t
  BY <1>1, <1>2, NoCeilingStep DEF Take, TakeAgain
<1>3. CASE owner[m] = NoOwner
  <2>1. TakeFree(t, m)
    BY <1>1, <1>3 DEF Take
  <2>2. /\ owner'[m] = t /\ \A k \in Mutex \ {m} : owner'[k] = owner[k]
        /\ \A k \in Mutex \ {m} : owner_params'[k] = owner_params[k]
        /\ HasCeiling(m) => owner_params'[m] = prio[t]
        /\ \A u \in Thread \ {t} : prio'[u] = prio[u]
        /\ prio'[t] = Raised(prio[t], m)
    BY <1>1, <2>1 DEF TakeFree
  <2>3. ASSUME NEW u \in Thread \ {t} PROVE CeilingKnown(u)'
    <3>1. \A k \in Mutex : owner'[k] = u <=> owner[k] = u
      BY <1>1, <1>3, <2>2
    <3>2. \A k \in Mutex : RaisedBy(u, k) => k # m
      BY <1>1, <1>3 DEF RaisedBy
    <3>3. \A k \in Mutex : RaisedBy(u, k)' <=> RaisedBy(u, k)
      BY <3>1 DEF RaisedBy, HasCeiling
    <3> QED BY <2>2, <3>2, <3>3, CeilingStays DEF CeilingInv
  <2>4. CeilingKnown(t)'
    <3>1. CASE HasCeiling(m)
      <4>1. RaisedBy(t, m)'
        BY <2>2, <3>1 DEF RaisedBy, HasCeiling
      <4>2. \A k \in Mutex \ {m} : ~RaisedBy(t, k)'
        BY <4>1 DEF OneCeilingEach
      <4>3. \A k \in Mutex : ~RaisedBy(t, k)
        BY <1>1, <1>3, <2>2, <4>2 DEF RaisedBy, HasCeiling
      <4>4. prio[t] = own[t]
        BY <4>3 DEF CeilingInv, CeilingKnown
      <4>5. owner_params'[m] = own'[t] /\ prio'[t] = Raised(own[t], m)
        BY <2>2, <3>1, <4>4
      <4> QED BY <4>1, <4>2, <4>5 DEF CeilingKnown, Raised, HasCeiling
    <3>2. CASE ~HasCeiling(m)
      <4>1. \A k \in Mutex : RaisedBy(t, k)' <=> RaisedBy(t, k)
        BY <2>2, <3>2 DEF RaisedBy, HasCeiling
      <4>2. \A k \in Mutex : RaisedBy(t, k) => k # m
        BY <3>2 DEF RaisedBy
      <4>3. prio'[t] = prio[t]
        BY <2>2, <3>2 DEF Raised
      <4> QED BY <2>2, <4>1, <4>2, <4>3, CeilingStays DEF CeilingInv
    <3> QED BY <3>1, <3>2
  <2> QED BY <2>3, <2>4
<1> QED BY <1>2, <1>3 DEF Take

(* Its owner gives it up, to a waiter or to nobody.                        *)
LEMMA GiveUpKeepsCeilings ==
  ASSUME IInv, CeilingInv, OneCeilingEach, OneCeilingEach',
         NEW t \in Thread, NEW m \in Mutex, pc[t] \in {"running", "armed"},
         valid[m], owner[m] = t, NEW p \in Policy, NEW w, w = Heir(m, p),
         GiveUp(t, m, w)
  PROVE  \A u \in Thread : CeilingKnown(u)'
<1>1. /\ owner \in [Mutex -> Thread \cup {NoOwner}] /\ prio \in [Thread -> Prio]
      /\ owner_params \in [Mutex -> Prio] /\ NoOwner \notin Thread
      /\ recursive_locks[m] \in Nat
  BY MutexAssumption DEF IInv, CondTypeOK, TypeOK, WaitInv, WaitTypeOK
<1>2. /\ w \in Waiters(m) \cup {NoOwner} /\ w # t
      /\ valid' = valid /\ own' = own
  BY GiveUpFacts
<1>3. w \in Thread \cup {NoOwner} /\ (recursive_locks[m] > 0 => w = NoOwner)
  BY <1>2, HeirWaits DEF Waiters, IInv, WaitInv
<1>4. GiveUp(t, m, w)
  OBVIOUS
<1>5. CASE recursive_locks[m] > 0
  BY <1>1, <1>2, <1>3, <1>4, <1>5, NoCeilingStep DEF GiveUp
<1>6. CASE recursive_locks[m] = 0
  <2>1. /\ owner'[m] = w /\ \A k \in Mutex \ {m} : owner'[k] = owner[k]
        /\ \A k \in Mutex \ {m} : owner_params'[k] = owner_params[k]
        /\ HasCeiling(m) => prio'[t] = owner_params[m]
        /\ HasCeiling(m) /\ w # NoOwner =>
             owner_params'[m] = prio[w] /\ prio'[w] = Raised(prio[w], m)
        /\ \A u \in Thread \ {t, w} : prio'[u] = prio[u]
        /\ ~HasCeiling(m) => prio' = prio /\ owner_params' = owner_params
    <3>1. CASE w # NoOwner
      <4>1. HandOver(t, m, w)
        BY <1>1, <1>4, <1>6, <3>1 DEF GiveUp
      <4> QED BY <1>1, <1>2, <1>3, <3>1, <4>1 DEF HandOver
    <3>2. CASE w = NoOwner
      <4>1. SetFree(t, m)
        BY <1>1, <1>4, <1>6, <3>2 DEF GiveUp
      <4> QED BY <1>1, <1>2, <1>3, <3>2, <4>1 DEF SetFree
    <3> QED BY <3>1, <3>2
  <2>2. ASSUME NEW u \in Thread \ {t, w} PROVE CeilingKnown(u)'
    <3>1. \A k \in Mutex : RaisedBy(u, k)' <=> RaisedBy(u, k)
      BY <1>2, <2>1 DEF RaisedBy, HasCeiling
    <3>2. \A k \in Mutex : RaisedBy(u, k) => k # m
      BY DEF RaisedBy
    <3> QED BY <1>2, <2>1, <3>1, <3>2, CeilingStays DEF CeilingInv
  <2>3. CASE ~HasCeiling(m)
    <3>1. ASSUME NEW u \in Thread, NEW k \in Mutex
          PROVE  RaisedBy(u, k)' <=> RaisedBy(u, k)
      BY <1>2, <2>1, <2>3 DEF RaisedBy, HasCeiling
    <3> QED BY <1>2, <2>1, <2>3, <3>1, CeilingStays DEF CeilingInv
  <2>4. CASE HasCeiling(m)
    <3>1. RaisedBy(t, m)
      BY <2>4 DEF RaisedBy
    <3>2. \A k \in Mutex \ {m} : ~RaisedBy(t, k)
      BY <3>1 DEF OneCeilingEach
    <3>3. \A k \in Mutex : ~RaisedBy(t, k)'
      BY <1>2, <2>1, <3>2 DEF RaisedBy, HasCeiling
    <3>4. owner_params[m] = own[t]
      BY <3>1 DEF CeilingInv, CeilingKnown
    <3>5. CeilingKnown(t)'
      BY <1>2, <2>1, <2>4, <3>3, <3>4 DEF CeilingKnown
    <3>6. CASE w # NoOwner
      <4>1. w \in Thread /\ RaisedBy(w, m)'
        BY <1>2, <1>3, <2>1, <2>4, <3>6 DEF RaisedBy, HasCeiling
      <4>2. \A k \in Mutex \ {m} : ~RaisedBy(w, k)'
        BY <4>1 DEF OneCeilingEach
      <4>3. \A k \in Mutex : ~RaisedBy(w, k)
        BY <1>2, <2>1, <4>2 DEF RaisedBy, HasCeiling
      <4>4. prio[w] = own[w]
        BY <4>1, <4>3 DEF CeilingInv, CeilingKnown
      <4>5. owner_params'[m] = own'[w] /\ prio'[w] = Raised(own[w], m)
        BY <1>2, <2>1, <2>4, <3>6, <4>4
      <4>6. CeilingKnown(w)'
        BY <1>2, <4>1, <4>2, <4>5 DEF CeilingKnown, Raised, HasCeiling
      <4> QED BY <2>2, <3>5, <4>6
    <3>7. CASE w = NoOwner
      BY <1>1, <2>2, <3>5, <3>7
    <3> QED BY <3>6, <3>7
  <2> QED BY <2>3, <2>4
<1> QED BY <1>1, <1>5, <1>6

(* A mutex is destroyed, or a thread that no mutex raises gets a new       *)
(* priority.                                                               *)
LEMMA DeinitKeepsCeilings ==
  ASSUME IInv, CeilingInv, OneCeilingEach, NEW m \in Mutex, Deinit(m)
  PROVE  \A u \in Thread : CeilingKnown(u)'
<1>1. /\ owner \in [Mutex -> Thread \cup {NoOwner}] /\ prio \in [Thread -> Prio]
      /\ valid \in [Mutex -> BOOLEAN] /\ NoOwner \notin Thread
  BY MutexAssumption DEF IInv, CondTypeOK, TypeOK, WaitInv, WaitTypeOK
<1>2. /\ valid[m] /\ ~valid'[m] /\ \A k \in Mutex \ {m} : valid'[k] = valid[k]
      /\ UNCHANGED << owner, owner_params, own >>
      /\ prio' = IF HasCeiling(m) /\ owner[m] # NoOwner
                 THEN [prio EXCEPT ![owner[m]] = owner_params[m]]
                 ELSE prio
  BY <1>1 DEF Deinit
<1>3. ASSUME NEW u \in Thread, ~RaisedBy(u, m) PROVE CeilingKnown(u)'
  <2>1. prio'[u] = prio[u]
    BY <1>1, <1>2, <1>3 DEF RaisedBy
  <2>2. \A k \in Mutex : RaisedBy(u, k)' <=> RaisedBy(u, k)
    BY <1>2, <1>3 DEF RaisedBy, HasCeiling
  <2> QED BY <1>2, <2>1, <2>2, CeilingStays DEF CeilingInv
<1>4. ASSUME NEW u \in Thread, RaisedBy(u, m) PROVE CeilingKnown(u)'
  <2>1. \A k \in Mutex : ~RaisedBy(u, k)'
    <3>1. \A k \in Mutex \ {m} : ~RaisedBy(u, k)
      BY <1>4 DEF OneCeilingEach
    <3> QED BY <1>2, <3>1 DEF RaisedBy, HasCeiling
  <2>2. owner_params[m] = own[u]
    BY <1>4 DEF CeilingInv, CeilingKnown
  <2>3. prio'[u] = owner_params[m]
    BY <1>1, <1>2, <1>4 DEF RaisedBy
  <2> QED BY <1>2, <2>1, <2>2, <2>3 DEF CeilingKnown
<1> QED BY <1>3, <1>4

LEMMA SetParamsKeepsCeilings ==
  ASSUME IInv, CeilingInv, NEW t \in Thread, NEW p \in NewPrio, SetParams(t, p)
  PROVE  \A u \in Thread : CeilingKnown(u)'
<1>1. prio \in [Thread -> Prio] /\ own \in [Thread -> Prio]
  BY DEF IInv, CondTypeOK, TypeOK, WaitInv, WaitTypeOK
<1>2. /\ UNCHANGED << owner, owner_params, valid >>
      /\ prio'[t] = p /\ own'[t] = p
      /\ \A u \in Thread \ {t} : prio'[u] = prio[u] /\ own'[u] = own[u]
      /\ \A k \in Mutex : ~RaisedBy(t, k)
  BY <1>1 DEF SetParams, SetPrio, RaisedBy
<1>3. \A u \in Thread, k \in Mutex : RaisedBy(u, k)' <=> RaisedBy(u, k)
  BY <1>2 DEF RaisedBy, HasCeiling
<1>4. CeilingKnown(t)'
  BY <1>2, <1>3 DEF CeilingKnown
<1>5. \A u \in Thread \ {t} : CeilingKnown(u)'
  BY <1>2, <1>3, CeilingStays DEF CeilingInv
<1> QED BY <1>4, <1>5

(* Every step.                                                             *)
LEMMA CeilingsKept ==
  ASSUME IInv, CeilingInv, OneCeilingEach, OneCeilingEach', [CondNext]_allVars
  PROVE  \A u \in Thread : CeilingKnown(u)'
<1>1. ASSUME UNCHANGED << prio, mutexVars >>
      PROVE  \A u \in Thread : CeilingKnown(u)'
  BY <1>1, NoCeilingStep DEF mutexVars
<1>2. CASE CondStep
  <2>1. ASSUME NEW t \in Thread, NEW m \in Mutex,
               \E c \in {t, NoEvent} \cup AbortEvent : CondWait(t, m, c)
        PROVE  \A u \in Thread : CeilingKnown(u)'
    BY <1>1, <2>1 DEF CondWait, Call
  <2>2. ASSUME NEW t \in Thread, NEW m \in Mutex, NEW p \in Policy, CondTry(t, m, p)
        PROVE  \A u \in Thread : CeilingKnown(u)'
    BY <2>2, GiveUpKeepsCeilings DEF CondTry, TryCall
  <2>3. ASSUME NEW t \in Thread, NEW p \in Policy, CondTestAndWait(t, p)
        PROVE  \A u \in Thread : CeilingKnown(u)'
    <3>1. CASE ~valid[mutex[t]] /\ Block(t) /\ UNCHANGED mutexVars
      BY <1>1, <3>1 DEF Block
    <3>2. CASE valid[mutex[t]] /\ GiveUp(t, mutex[t], Heir(mutex[t], p))
      <4>1. pc[t] = "armed" /\ object[t] = Cond
        BY <2>3 DEF CondTestAndWait, Enters
      <4>2. InCall(t) /\ DepthKnown(t)
        BY <4>1 DEF IInv, Sound
      <4>3. mutex[t] \in Mutex /\ owner[mutex[t]] = t
        BY <3>2, <4>1, <4>2 DEF InCall, DepthKnown, IInv, CondTypeOK
      <4> QED BY <3>2, <4>1, <4>3, GiveUpKeepsCeilings
    <3> QED BY <2>3, <3>1, <3>2 DEF CondTestAndWait
  <2>4. ASSUME NEW t \in Thread, CondReturn(t) \/ Retake(t)
        PROVE  \A u \in Thread : CeilingKnown(u)'
    BY <1>1, <2>4 DEF CondReturn, Return, Retake, Call, waitVars
  <2>5. CASE (\E p \in Policy : CondSignal(p)) \/ CondBroadcast \/ CondDeinit
    BY <1>1, <2>5 DEF CondSignal, CondBroadcast, CondDeinit
  <2> QED BY <1>2, <2>1, <2>2, <2>3, <2>4, <2>5 DEF CondStep
<1>3. CASE MutexStep
  <2>1. ASSUME NEW t \in Thread, NEW m \in Mutex,
               \E c \in {t, NoEvent} \cup AbortEvent : Acquire(t, m, c)
        PROVE  \A u \in Thread : CeilingKnown(u)'
    BY <1>1, <2>1 DEF Acquire, Call
  <2>2. ASSUME NEW t \in Thread, NEW m \in Mutex, TryAcquire(t, m)
        PROVE  \A u \in Thread : CeilingKnown(u)'
    <3>1. CASE MayTake(t, m)
      BY <2>2, <3>1, TakeKeepsCeilings DEF TryAcquire
    <3>2. CASE ~MayTake(t, m)
      BY <2>2, <3>2, NoCeilingStep DEF TryAcquire
    <3> QED BY <3>1, <3>2
  <2>3. ASSUME NEW t \in Thread, NEW m \in Mutex, NEW p \in Policy, Release(t, m, p)
        PROVE  \A u \in Thread : CeilingKnown(u)'
    BY <2>3, ReleaseGivesUp, GiveUpKeepsCeilings DEF Release
  <2>4. ASSUME NEW t \in Thread, NEW m \in Mutex, TestAndWait(t, m)
        PROVE  \A u \in Thread : CeilingKnown(u)'
    <3>1. valid[m] /\ UNCHANGED << valid, own >>
      BY <2>4 DEF TestAndWait, Enters, CeilingInv, ArmedValid
    <3>2. CASE MayTake(t, m)
      BY <2>4, <3>1, <3>2, TakeKeepsCeilings DEF TestAndWait
    <3>3. CASE ~MayTake(t, m)
      BY <2>4, <3>1, <3>3, NoCeilingStep DEF TestAndWait, Block
    <3> QED BY <3>2, <3>3
  <2>5. ASSUME NEW t \in Thread,
               WakeupTold(t) \/ (Return(t) /\ UNCHANGED mutexVars)
        PROVE  \A u \in Thread : CeilingKnown(u)'
    BY <2>5, NoCeilingStep DEF WakeupTold, Wakeup, Return, mutexVars
  <2>6. ASSUME NEW t \in Thread, NEW p \in NewPrio, SetParams(t, p)
        PROVE  \A u \in Thread : CeilingKnown(u)'
    BY <2>6, SetParamsKeepsCeilings
  <2>7. ASSUME NEW m \in Mutex, Deinit(m)
        PROVE  \A u \in Thread : CeilingKnown(u)'
    BY <2>7, DeinitKeepsCeilings
  <2>8. CASE EventStep /\ UNCHANGED mutexVars
    BY <1>1, <2>8 DEF EventStep, TimerExpire, AbortSet, EventSet, AbortReset,
                      AbortDeinit
  <2> QED BY <1>3, <2>1, <2>2, <2>3, <2>4, <2>5, <2>6, <2>7, <2>8 DEF MutexStep
<1>4. CASE (\E t \in Thread : CondTerminate(t)) \/ UNCHANGED allVars
  BY <1>1, <1>4 DEF CondTerminate, Terminate, allVars, vars, waitVars
<1> QED BY <1>2, <1>3, <1>4 DEF CondNext

(* A thread that stays on its way to a test, or enters a call.             *)
LEMMA ArmedValidStays ==
  ASSUME CeilingInv, WaitTypeOK, NEW u \in Thread,
         \/ pc'[u] # "armed"
         \/ /\ pc'[u] = pc[u] /\ object'[u] = object[u]
            /\ state'[u] \in {state[u], "READY"}
         \/ state'[u] = "READY" /\ (object'[u] \in Mutex => valid[object'[u]]),
         pc'[u] = "armed" /\ object'[u] \in Mutex /\ valid[object'[u]]
           => valid'[object'[u]]
  PROVE  ArmedValid(u)'
BY DEF CeilingInv, ArmedValid

(* One thread moves, or enters a call for q.                               *)
LEMMA MoveKeepsArmed ==
  ASSUME CeilingInv, WaitTypeOK, NEW t \in Thread, NEW to \in Phase \ {"armed"},
         pc' = [pc EXCEPT ![t] = to],
         \A u \in Thread \ {t} : /\ object'[u] = object[u]
                                 /\ state'[u] \in {state[u], "READY"},
         valid' = valid
  PROVE  \A u \in Thread : ArmedValid(u)'
<1>1. pc'[t] # "armed" /\ \A u \in Thread \ {t} : pc'[u] = pc[u]
  BY DEF WaitTypeOK
<1> QED BY <1>1, ArmedValidStays

LEMMA CallKeepsArmed ==
  ASSUME CeilingInv, WaitTypeOK, NEW t \in Thread, NEW q, NEW c, Call(t, q, c),
         q \in Mutex => valid[q], valid' = valid
  PROVE  \A u \in Thread : ArmedValid(u)'
<1>1. /\ state'[t] = "READY" /\ object'[t] = q
      /\ \A u \in Thread \ {t} : /\ pc'[u] = pc[u] /\ object'[u] = object[u]
                                 /\ state'[u] = state[u]
  BY DEF Call, WaitTypeOK
<1> QED BY <1>1, ArmedValidStays

LEMMA StayKeepsArmed ==
  ASSUME CeilingInv, WaitTypeOK, UNCHANGED << pc, object >>,
         \A u \in Thread : state'[u] \in {state[u], "READY"},
         \A u \in Thread : pc[u] = "armed" /\ object[u] \in Mutex /\ valid[object[u]]
                             => valid'[object[u]]
  PROVE  \A u \in Thread : ArmedValid(u)'
BY ArmedValidStays

(* What the calls of the framework do to the state of others.              *)
LEMMA StatesOfOthers ==
  ASSUME WaitTypeOK, NEW t \in Thread
  PROVE  /\ Block(t) => /\ \E to \in Phase \ {"armed"} : pc' = [pc EXCEPT ![t] = to]
                        /\ object' = object
                        /\ \A u \in Thread \ {t} : state'[u] = state[u]
         /\ \A r : TryDone(t, r) => /\ pc' = [pc EXCEPT ![t] = "returning"]
                                    /\ UNCHANGED << object, state >>
         /\ \A q, r : NotifyOne(q, t, r) =>
              /\ UNCHANGED << pc, object >>
              /\ \A u \in Thread : state'[u] \in {state[u], "READY"}
         /\ \A q, r : NotifyAll(q, r) =>
              /\ UNCHANGED << pc, object >>
              /\ \A u \in Thread : state'[u] \in {state[u], "READY"}
<1>1. ASSUME Block(t)
      PROVE  /\ \E to \in Phase \ {"armed"} : pc' = [pc EXCEPT ![t] = to]
             /\ object' = object
             /\ \A u \in Thread \ {t} : state'[u] = state[u]
  BY <1>1 DEF Block, WaitTypeOK, Phase
<1>2. ASSUME NEW r, TryDone(t, r)
      PROVE  pc' = [pc EXCEPT ![t] = "returning"] /\ UNCHANGED << object, state >>
  BY <1>2 DEF TryDone, Skip, restVars
<1>3. ASSUME NEW q, NEW r, NotifyOne(q, t, r)
      PROVE  /\ UNCHANGED << pc, object >>
             /\ \A u \in Thread : state'[u] \in {state[u], "READY"}
  BY <1>3 DEF NotifyOne, NotifyBlock, restVars, WaitTypeOK
<1>4. ASSUME NEW q, NEW r, NotifyAll(q, r)
      PROVE  /\ UNCHANGED << pc, object >>
             /\ \A u \in Thread : state'[u] \in {state[u], "READY"}
  BY <1>4 DEF NotifyAll, NotifyBlocks, restVars
<1> QED BY <1>1, <1>2, <1>3, <1>4

LEMMA ArmedKept ==
  ASSUME IInv, CeilingInv, [CondNext]_allVars
  PROVE  \A u \in Thread : ArmedValid(u)'
<1> DEFINE Goal == \A u \in Thread : ArmedValid(u)'
<1>1. WaitTypeOK /\ mutex \in [Thread -> Mutex \cup {NoMutex}] /\ Cond \notin Mutex
  BY CondAssumption DEF IInv, WaitInv, CondTypeOK
<1>2. ASSUME UNCHANGED << pc, object, valid >>,
             \A u \in Thread : state'[u] \in {state[u], "READY"}
      PROVE  Goal
  BY <1>1, <1>2, StayKeepsArmed
<1>3. ASSUME NEW t \in Thread, NEW to \in {"blocked", "returning", "running", "dead"},
             pc' = [pc EXCEPT ![t] = to], valid' = valid,
             \A u \in Thread \ {t} : /\ object'[u] = object[u]
                                     /\ state'[u] \in {state[u], "READY"}
      PROVE  Goal
  BY <1>1, <1>3, MoveKeepsArmed DEF Phase
<1>4. ASSUME NEW t \in Thread, NEW q, NEW c, Call(t, q, c),
             q \in Mutex => valid[q], valid' = valid
      PROVE  Goal
  BY <1>1, <1>4, CallKeepsArmed
<1>5. ASSUME NEW t \in Thread, Block(t), valid' = valid
      PROVE  Goal
  <2>1. \E to \in {"blocked", "returning"} : pc' = [pc EXCEPT ![t] = to]
    BY <1>5 DEF Block
  <2>2. object' = object /\ \A u \in Thread \ {t} : state'[u] = state[u]
    BY <1>1, <1>5, StatesOfOthers
  <2> QED BY <1>3, <1>5, <2>1, <2>2
<1>6. ASSUME NEW t \in Thread, NEW r, TryDone(t, r), valid' = valid
      PROVE  Goal
  BY <1>1, <1>3, <1>6, StatesOfOthers
<1>7. ASSUME NEW q, NEW w, NEW r, NotifyOne(q, w, r), valid' = valid
      PROVE  Goal
  BY <1>1, <1>2, <1>7 DEF NotifyOne, NotifyBlock, restVars, WaitTypeOK
<1>8. ASSUME NEW q, NEW r, NotifyAll(q, r), valid' = valid
      PROVE  Goal
  BY <1>1, <1>2, <1>8 DEF NotifyAll, NotifyBlocks, restVars
<1> SUFFICES Goal
  OBVIOUS
<1> HIDE DEF Goal
<1>9. CASE CondStep
  <2>1. ASSUME NEW t \in Thread, NEW m \in Mutex, NEW c, CondWait(t, m, c)
        PROVE  Goal
    BY <1>1, <1>4, <2>1 DEF CondWait, mutexVars
  <2>2. ASSUME NEW t \in Thread, NEW m \in Mutex, NEW p \in Policy, CondTry(t, m, p)
        PROVE  Goal
    <3>1. PICK w : GiveUp(t, m, w) /\ TimeOutAndNotify(t, m, w)
      BY <2>2 DEF CondTry
    <3>2. /\ pc' = [pc EXCEPT ![t] = "returning"] /\ valid' = valid
          /\ object' = object
          /\ \A u \in Thread : state'[u] \in {state[u], "READY"}
      BY <3>1 DEF GiveUp, TimeOutAndNotify, Skip, restVars
    <3> QED BY <1>3, <3>2
  <2>3. ASSUME NEW t \in Thread, NEW p \in Policy, CondTestAndWait(t, p)
        PROVE  Goal
    <3>1. CASE Block(t) /\ UNCHANGED mutexVars
      BY <1>5, <3>1 DEF mutexVars
    <3>2. CASE \E w : GiveUp(t, mutex[t], w) /\ BlockAndNotify(t, mutex[t], w)
      <4>1. PICK w : GiveUp(t, mutex[t], w) /\ BlockAndNotify(t, mutex[t], w)
        BY <3>2
      <4>2. /\ \E to \in {"blocked", "returning"} : pc' = [pc EXCEPT ![t] = to]
            /\ valid' = valid /\ object' = object
            /\ \A u \in Thread \ {t} : state'[u] \in {state[u], "READY"}
        BY <4>1 DEF GiveUp, BlockAndNotify
      <4> QED BY <1>3, <4>2
    <3> QED BY <2>3, <3>1, <3>2 DEF CondTestAndWait
  <2>4. ASSUME NEW t \in Thread, CondReturn(t) PROVE Goal
    <3>1. /\ pc' = [pc EXCEPT ![t] = "running"] /\ valid' = valid
          /\ state' = state /\ object' = [object EXCEPT ![t] = NoObject]
      BY <2>4 DEF CondReturn, Return, mutexVars
    <3> QED BY <1>1, <1>3, <3>1 DEF WaitTypeOK
  <2>5. ASSUME NEW t \in Thread, Retake(t) PROVE Goal
    <3>1. CASE valid[mutex[t]] /\ Call(t, mutex[t], NoEvent)
      BY <1>4, <2>5, <3>1 DEF Retake, mutexVars
    <3>2. CASE ~valid[mutex[t]] /\ UNCHANGED waitVars
      BY <1>2, <2>5, <3>2 DEF Retake, mutexVars, waitVars
    <3> QED BY <2>5, <3>1, <3>2 DEF Retake
  <2>6. CASE \E p \in Policy : CondSignal(p)
    BY <1>7, <2>6 DEF CondSignal, mutexVars
  <2>7. CASE CondBroadcast \/ CondDeinit
    BY <1>8, <2>7 DEF CondBroadcast, CondDeinit, mutexVars
  <2> QED BY <1>9, <2>1, <2>2, <2>3, <2>4, <2>5, <2>6, <2>7 DEF CondStep
<1>10. CASE MutexStep
  <2>1. ASSUME NEW t \in Thread, NEW m \in Mutex, NEW c, Acquire(t, m, c)
        PROVE  Goal
    BY <1>4, <2>1 DEF Acquire, mutexVars
  <2>2. ASSUME NEW t \in Thread, NEW m \in Mutex, TryAcquire(t, m)
        PROVE  Goal
    BY <1>6, <2>2 DEF TryAcquire
  <2>3. ASSUME NEW t \in Thread, NEW m \in Mutex, NEW p \in Policy, Release(t, m, p)
        PROVE  Goal
    <3>1. valid' = valid
      BY <2>3 DEF Release
    <3>2. CASE \E w : NotifyOne(m, w, "SATISFIED")
      BY <1>7, <3>1, <3>2
    <3>3. CASE UNCHANGED << pc, state, object >>
      BY <1>2, <3>1, <3>3
    <3> QED BY <2>3, <3>2, <3>3 DEF Release, restVars, waitVars
  <2>4. ASSUME NEW t \in Thread, NEW m \in Mutex, TestAndWait(t, m)
        PROVE  Goal
    <3>1. valid' = valid
      BY <2>4 DEF TestAndWait
    <3>2. CASE Proceed(t)
      BY <1>3, <3>1, <3>2 DEF Proceed, Skip, restVars
    <3>3. CASE Block(t)
      BY <1>5, <3>1, <3>3
    <3> QED BY <2>4, <3>2, <3>3 DEF TestAndWait
  <2>5. ASSUME NEW t \in Thread, WakeupTold(t) PROVE Goal
    BY <1>3, <2>5 DEF WakeupTold, Wakeup
  <2>6. ASSUME NEW t \in Thread, Return(t), UNCHANGED mutexVars PROVE Goal
    <3>1. /\ pc' = [pc EXCEPT ![t] = "running"] /\ valid' = valid
          /\ state' = state /\ object' = [object EXCEPT ![t] = NoObject]
      BY <2>6 DEF Return, mutexVars
    <3> QED BY <1>1, <1>3, <3>1 DEF WaitTypeOK
  <2>7. ASSUME NEW t \in Thread, NEW p \in NewPrio, SetParams(t, p) PROVE Goal
    BY <1>2, <2>7 DEF SetParams, SetPrio
  <2>8. ASSUME NEW m \in Mutex, Deinit(m) PROVE Goal
    <3>1. /\ UNCHANGED << pc, object >>
          /\ \A u \in Thread : state'[u] \in {state[u], "READY"}
      BY <2>8 DEF Deinit, NotifyAll, NotifyBlocks, restVars
    <3>2. ASSUME NEW u \in Thread, pc[u] = "armed", object[u] \in Mutex, valid[object[u]]
          PROVE  valid'[object[u]]
      <4>1. state[u] = "READY"
        BY <3>2 DEF CeilingInv, ArmedValid
      <4>2. object[u] # m
        BY <2>8, <3>2, <4>1 DEF Deinit, Enters
      <4> QED BY <2>8, <3>2, <4>2 DEF Deinit, IInv, CondTypeOK, TypeOK
    <3> QED BY <1>1, <3>1, <3>2, StayKeepsArmed DEF Goal
  <2>9. CASE EventStep /\ UNCHANGED mutexVars
    <3>1. /\ UNCHANGED << pc, object, valid >>
          /\ \A u \in Thread : state'[u] \in {state[u], "READY"}
      BY <2>9 DEF EventStep, TimerExpire, AbortSet, EventSet, AbortReset,
                  AbortDeinit, NotifyCancel, mutexVars
    <3> QED BY <1>2, <3>1
  <2> QED BY <1>10, <2>1, <2>2, <2>3, <2>4, <2>5, <2>6, <2>7, <2>8, <2>9 DEF MutexStep
<1>11. CASE \E t \in Thread : CondTerminate(t)
  <2>1. PICK t \in Thread : CondTerminate(t)
    BY <1>11
  <2>2. /\ pc' = [pc EXCEPT ![t] = "dead"] /\ valid' = valid
        /\ state' = [state EXCEPT ![t] = "COMPLETED"]
        /\ object' = [object EXCEPT ![t] = NoObject]
    BY <2>1 DEF CondTerminate, Terminate, mutexVars
  <2> QED BY <1>1, <1>3, <2>2 DEF WaitTypeOK
<1>12. CASE UNCHANGED allVars
  BY <1>2, <1>12 DEF allVars, vars, waitVars, mutexVars
<1> QED BY <1>9, <1>10, <1>11, <1>12 DEF CondNext

LEMMA CeilingInit == CondInit => CeilingInv
<1> SUFFICES ASSUME CondInit PROVE CeilingInv
  OBVIOUS
<1>1. /\ owner = [m \in Mutex |-> NoOwner] /\ own = prio
      /\ pc = [t \in Thread |-> "running"] /\ NoOwner \notin Thread
  BY MutexAssumption DEF CondInit, Init, WaitInit
<1> QED BY <1>1 DEF CeilingInv, CeilingKnown, ArmedValid, RaisedBy

(* As long as no thread has two mutexes with ceilings at once, a thread    *)
(* has its raised priority exactly as long as it has a mutex that asks for *)
(* it: fx_mutex_acquire, a hand-over by fx_mutex_release, a retake after a *)
(* wait for a condition, fx_mutex_deinit, whatever waits end meanwhile.    *)
THEOREM CeilingsHold == CondSpec /\ []OneCeilingEach => []CeilingExact
<1>1. CondInit => CeilingInv
  BY CeilingInit
<1>2. IInv /\ CeilingInv /\ OneCeilingEach /\ OneCeilingEach' /\ [CondNext]_allVars
        => CeilingInv'
  BY CeilingsKept, ArmedKept DEF CeilingInv
<1>3. IInv /\ CeilingInv => CeilingExact
  BY CeilingInvImplies DEF IInv
<1> QED BY <1>1, <1>2, <1>3, InvariantHolds, PTL DEF CondSpec

(* With one mutex that has a ceiling, and any number of others, no thread  *)
(* can have two.                                                           *)
THEOREM OneCeilingHolds ==
  ASSUME \A m, n \in Mutex : HasCeiling(m) /\ HasCeiling(n) => m = n
  PROVE  CondSpec => []CeilingExact
<1>1. OneCeilingEach
  BY DEF OneCeilingEach, RaisedBy
<1> QED BY <1>1, CeilingsHold, PTL
=============================================================================
