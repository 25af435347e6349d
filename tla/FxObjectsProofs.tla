--------------------------- MODULE FxObjectsProofs ---------------------------
(***************************************************************************)
(* The primitives that share the thread's wait keep their promises, for    *)
(* every number of threads and every value of their constants.             *)
(*                                                                         *)
(* One primitive is in use in a behaviour, the variables of the others     *)
(* keep the values they have at first.  The invariant is therefore one of  *)
(* six, each of which is kept by every step: the threads wait for nothing  *)
(* but the waitables of the primitive, the invariant of the primitive      *)
(* holds, the others are idle.                                             *)
(***************************************************************************)
EXTENDS FxObjects, FxWaitProofs, FiniteSetTheorems

(* Threads wait for nothing outside Q.                                     *)
Only(Q) == \A t \in Thread : object[t] \in Q \cup {NoObject}

RwlockQueues == {RdWtbl, WrWtbl}
ThreadQueues == {Completion(t) : t \in Thread} \cup {TimerEvent(t) : t \in Thread}

(* A primitive that is not in use.                                         *)
RwlockIdle == RwlockInit(FALSE)
BarrierIdle == BarrierInit(FALSE)
PoolIdle == PoolInit(FALSE)
EvfIdle == EvfInit(FALSE)
EvIdle == EvInit(FALSE)

(* Threads that end also when no call of FxThread is made.                 *)
ThreadsIdle ==
  /\ ~thread_calls
  /\ valid_thread = [t \in Thread |-> TRUE]
  /\ completion = [t \in Thread |-> pc[t] = "dead"]
  /\ leaving = [t \in Thread |-> FALSE]
  /\ sleep_timer = [t \in Thread |-> FALSE]
  /\ endless = {}

-----------------------------------------------------------------------------
(* The invariants of the primitives, each with what its proof needs about  *)
(* the threads in a call.                                                  *)

BarrierInv == blocked \in Nat /\ withdrawn \in Nat /\ BarrierExact

EvInv == EvNoIdle

(* The frame of a call, and what a thread that waits knows of the flags.   *)
EvfFrame(t) ==
  /\ pc[t] \in {"armed", "blocked", "returning"} => attr[t] \in Request
  /\ pc[t] \in {"running", "dead"} => attr[t] = NoRequest
  /\ pc[t] = "armed" => prev[t] = {}
  /\ pc[t] = "blocked" => (prev[t] # {} <=> status[t] = "SATISFIED")
  /\ pc[t] = "returning" => (prev[t] # {} <=> result[t] = "OK")
  /\ attr[t] # NoRequest /\ prev[t] # {} => Satisfied(attr[t], prev[t])
  /\ pc[t] = "blocked" /\ status[t] = "IN_PROGRESS" => ~Satisfied(attr[t], flags)

EvfInv ==
  /\ attr \in [Thread -> Request \cup {NoRequest}]
  /\ prev \in [Thread -> SUBSET Flag]
  /\ flags \in SUBSET Flag
  /\ \A t \in Thread : EvfFrame(t)

(* Every block that was cut is somewhere, and nowhere else.                *)
PoolPlaces ==
  /\ \A b \in 1 .. cut : \/ b \in free_blocks
                         \/ \E t \in Thread : b \in allocated[t] \/ ptr[t] = b
  /\ \A t \in Thread :
       /\ allocated[t] \cap free_blocks = {}
       /\ ptr[t] \notin free_blocks
       /\ \A u \in Thread :
            /\ ptr[u] \notin allocated[t]
            /\ u # t => /\ allocated[u] \cap allocated[t] = {}
                        /\ ptr[u] = ptr[t] => ptr[t] = 0

PoolBlocks ==
  /\ cut \in 0 .. BlkNum
  /\ free_blocks \in SUBSET (1 .. cut)
  /\ ptr \in [Thread -> 0 .. cut]
  /\ allocated \in [Thread -> SUBSET (1 .. cut)]
  /\ free_blocks_num = Cardinality(free_blocks) + BlkNum - cut
  /\ PoolPlaces

(* A call that has a block in its frame is going to say so.                *)
PoolFrames ==
  \A t \in Thread : ptr[t] # 0 =>
    \/ pc[t] = "blocked" /\ status[t] = "SATISFIED"
    \/ pc[t] = "returning" /\ result[t] = "OK"
    \/ pc[t] = "dead"

PoolInv == PoolBlocks /\ PoolFrames /\ PoolNoIdle

Readers == {t \in Thread : Has(t, RdWtbl, "read")}

RwTypes ==
  /\ rw_owner \in Thread \cup {NoWriter}
  /\ readers \in Nat
  /\ kicking \in SUBSET Thread
  /\ locked \in [Thread -> {"none", "read", "write"}]
  /\ \A t \in Thread : pc[t] \in {"armed", "blocked"} => locked[t] = "none"

RwGranted == (~intruded => IsFiniteSet(Readers)) /\ RwExclusion

RwInv == RwTypes /\ RwNoIdle /\ RwGranted

(* A sleep, from the call to the return.                                   *)
Sleeps(t) ==
  object[t] = TimerEvent(t) /\ pc[t] \in {"armed", "blocked", "returning"}

LifeTypes ==
  /\ valid_thread \in [Thread -> BOOLEAN]
  /\ completion \in [Thread -> BOOLEAN]
  /\ leaving \in [Thread -> BOOLEAN]
  /\ sleep_timer \in [Thread -> BOOLEAN]

(* A thread, its calls, the events that are its own and its timer.         *)
Life(t) ==
  /\ cancel[t] = NoEvent /\ cancel_status[t] # "IN_PROGRESS"
  /\ state[t] = "SUSPENDED" => pc[t] = "running"
  /\ pc[t] \in {"armed", "blocked", "returning"} =>
       /\ object[t] # Completion(t)
       /\ \A u \in Thread : object[t] = TimerEvent(u) => u = t
  /\ leaving[t] => pc[t] = "dead"
  /\ completion[t] => pc[t] = "dead"
  /\ pc[t] = "dead" /\ ~completion[t] => leaving[t]
  /\ ~valid_thread[t] => completion[t] /\ ~leaving[t]
  /\ completion[t] => wq[Completion(t)] = << >>
  /\ sleep_timer[t] => Sleeps(t) /\ t \notin endless
  /\ t \in endless => Sleeps(t)
  /\ pc[t] = "armed" /\ Sleeps(t) =>
       IF t \in endless THEN ~signaled[t] ELSE sleep_timer[t] \/ signaled[t]
  /\ pc[t] = "blocked" /\ Sleeps(t) =>
       IF state[t] = "WAITING"
       THEN ~signaled[t] /\ (t \in endless \/ sleep_timer[t])
       ELSE signaled[t] /\ t \notin endless

(* A join of t that u is told, or about to be told, of.                    *)
Joined(t, u) ==
  object[u] = Completion(t) =>
    /\ pc[u] = "blocked" /\ status[u] = "SATISFIED" => completion[t]
    /\ pc[u] = "returning" /\ result[u] = "OK" =>
         completion[t] /\ ~leaving[t]

LifeInv ==
  /\ LifeTypes
  /\ \A t \in Thread : Life(t)
  /\ \A t, u \in Thread : Joined(t, u)

-----------------------------------------------------------------------------
RwlockInUse == /\ WaitInv /\ Only(RwlockQueues) /\ RwInv /\ BarrierIdle
               /\ PoolIdle /\ EvfIdle /\ EvIdle /\ ThreadsIdle
BarrierInUse == /\ WaitInv /\ Only({Barr}) /\ RwlockIdle /\ BarrierInv
                /\ PoolIdle /\ EvfIdle /\ EvIdle /\ ThreadsIdle
PoolInUse == /\ WaitInv /\ Only({Pool}) /\ RwlockIdle /\ BarrierIdle
             /\ PoolInv /\ EvfIdle /\ EvIdle /\ ThreadsIdle
EvfInUse == /\ WaitInv /\ Only({Evf}) /\ RwlockIdle /\ BarrierIdle
            /\ PoolIdle /\ EvfInv /\ EvIdle /\ ThreadsIdle
EvInUse == /\ WaitInv /\ Only({Ev}) /\ RwlockIdle /\ BarrierIdle
           /\ PoolIdle /\ EvfIdle /\ EvInv /\ ThreadsIdle
ThreadsInUse == /\ WaitInv /\ Only(ThreadQueues) /\ RwlockIdle /\ BarrierIdle
                /\ PoolIdle /\ EvfIdle /\ EvIdle /\ LifeInv

IInv == \/ RwlockInUse \/ BarrierInUse \/ PoolInUse
        \/ EvfInUse \/ EvInUse \/ ThreadsInUse

-----------------------------------------------------------------------------
(* What the operators of the framework keep, besides its own invariant.    *)

(* No thread ends or is created.                                           *)
SameEnds == \A t \in Thread : pc'[t] = "dead" <=> pc[t] = "dead"

(* A call is for one of the waitables in use.                              *)
LEMMA CallKeeps ==
  ASSUME WaitInv, NEW Q, Only(Q), NEW t \in Thread, NEW q \in Q, q \in WaitQueue,
         NEW c, Call(t, q, c)
  PROVE  /\ WaitInv' /\ Only(Q)' /\ SameEnds
         /\ pc[t] = "running" /\ pc'[t] = "armed"
         /\ object'[t] = q
         /\ \A u \in Thread \ {t} : pc'[u] = pc[u] /\ object'[u] = object[u]
         /\ UNCHANGED << wq, status, result, state, cancel_status >>
<1>1. WaitInv'
  BY CallInvariant
<1>2. /\ pc[t] = "running" /\ pc'[t] = "armed"
      /\ object'[t] = q
      /\ \A u \in Thread \ {t} : pc'[u] = pc[u] /\ object'[u] = object[u]
      /\ UNCHANGED << wq, status, result, state, cancel_status >>
  BY DEF Call, WaitInv, WaitTypeOK
<1> QED BY <1>1, <1>2 DEF Only, SameEnds

(* A wait that is skipped because the object is signaled.                  *)
LEMMA ProceedKeeps ==
  ASSUME WaitInv, NEW Q, Only(Q), NEW t \in Thread, NEW q \in WaitQueue,
         Enters(t, q), Proceed(t), UNCHANGED prio
  PROVE  /\ WaitInv' /\ Only(Q)' /\ SameEnds
         /\ pc[t] = "armed" /\ pc'[t] = "returning" /\ object[t] = q
         /\ result'[t] = "OK"
         /\ \A u \in Thread \ {t} : pc'[u] = pc[u] /\ result'[u] = result[u]
         /\ UNCHANGED << object, wq, status, state, cancel_status, cancel, signaled >>
<1>1. prio' \in [Thread -> Prio]
  BY DEF WaitInv, WaitTypeOK
<1>2. WaitInv'
  BY <1>1, ProceedInvariant
<1>3. /\ pc[t] = "armed" /\ pc'[t] = "returning" /\ object[t] = q
      /\ result'[t] = "OK"
      /\ \A u \in Thread \ {t} : pc'[u] = pc[u] /\ result'[u] = result[u]
      /\ UNCHANGED << object, wq, status, state, cancel_status, cancel, signaled >>
  BY DEF Enters, Proceed, Skip, restVars, WaitInv, WaitTypeOK
<1> QED BY <1>2, <1>3 DEF Only, SameEnds

(* A call that does not wait.                                              *)
LEMMA TryKeeps ==
  ASSUME WaitInv, NEW Q, Only(Q), NEW t \in Thread, NEW r \in {"OK", "WAIT_TIMEOUT"},
         TryCall(t), TryDone(t, r), UNCHANGED prio
  PROVE  /\ WaitInv' /\ Only(Q)' /\ SameEnds
         /\ pc[t] = "running" /\ pc'[t] = "returning"
         /\ result'[t] = r
         /\ \A u \in Thread \ {t} : pc'[u] = pc[u] /\ result'[u] = result[u]
         /\ UNCHANGED << object, wq, status, state, cancel_status >>
<1>1. prio' \in [Thread -> Prio]
  BY DEF WaitInv, WaitTypeOK
<1>2. WaitInv'
  BY <1>1, TryDoneInvariant DEF Result
<1>3. /\ pc[t] = "running" /\ pc'[t] = "returning"
      /\ result'[t] = r
      /\ \A u \in Thread \ {t} : pc'[u] = pc[u] /\ result'[u] = result[u]
      /\ UNCHANGED << object, wq, status, state, cancel_status >>
  BY DEF TryCall, TryDone, Skip, restVars, WaitInv, WaitTypeOK
<1> QED BY <1>2, <1>3 DEF Only, SameEnds

(* A wait that blocks, or is over because it is cancelled already.         *)
LEMMA BlockKeeps ==
  ASSUME WaitInv, NEW Q, Only(Q), NEW t \in Thread, NEW q \in WaitQueue,
         Enters(t, q), Block(t)
  PROVE  /\ WaitInv' /\ Only(Q)' /\ SameEnds
         /\ pc[t] = "armed" /\ object[t] = q
         /\ \/ /\ pc'[t] = "blocked" /\ status'[t] = "IN_PROGRESS"
               /\ result'[t] = result[t] /\ state'[t] = "WAITING"
               /\ wq' = [wq EXCEPT ![q] = Append(@, t)]
            \/ /\ pc'[t] = "returning" /\ result'[t] # "OK"
               /\ cancel[t] # NoEvent
               /\ UNCHANGED << wq, status, state >>
         /\ \A u \in Thread \ {t} : /\ pc'[u] = pc[u] /\ result'[u] = result[u]
                                    /\ status'[u] = status[u] /\ state'[u] = state[u]
         /\ UNCHANGED << object, cancel, signaled >>
<1>1. WaitInv'
  BY BlockInvariant
<1>2. pc[t] = "armed" /\ object[t] = q
  BY DEF Enters
<1>3. /\ \/ /\ pc'[t] = "blocked" /\ status'[t] = "IN_PROGRESS"
            /\ result'[t] = result[t] /\ state'[t] = "WAITING"
            /\ wq' = [wq EXCEPT ![q] = Append(@, t)]
         \/ /\ pc'[t] = "returning" /\ result'[t] # "OK"
            /\ cancel[t] # NoEvent
            /\ UNCHANGED << wq, status, state >>
      /\ \A u \in Thread \ {t} : /\ pc'[u] = pc[u] /\ result'[u] = result[u]
                                 /\ status'[u] = status[u] /\ state'[u] = state[u]
      /\ UNCHANGED << object, cancel, signaled >>
  BY <1>2 DEF Block, WaitInv, WaitTypeOK
<1> QED BY <1>1, <1>2, <1>3 DEF Only, SameEnds

(* A waiter that is notified.                                              *)
LEMMA NotifyOneKeeps ==
  ASSUME WaitInv, NEW Q, Only(Q), NEW q \in WaitQueue, NEW t \in Waiters(q),
         NEW reason \in {"SATISFIED", "DELETED"}, NotifyOne(q, t, reason),
         UNCHANGED prio
  PROVE  /\ WaitInv' /\ Only(Q)' /\ SameEnds
         /\ t \in Thread /\ pc[t] = "blocked" /\ object[t] = q
         /\ status[t] = "IN_PROGRESS" /\ status'[t] = reason
         /\ \A u \in Thread \ {t} : status'[u] = status[u]
         /\ UNCHANGED << pc, object, result >>
         /\ \A r \in WaitQueue : r # q => wq'[r] = wq[r]
<1>1. prio' \in [Thread -> Prio]
  BY DEF WaitInv, WaitTypeOK
<1>2. WaitInv'
  BY <1>1, NotifyOneInvariant
<1>3. /\ t \in Thread /\ pc[t] = "blocked" /\ object[t] = q
      /\ status[t] = "IN_PROGRESS" /\ status'[t] = reason
      /\ \A u \in Thread \ {t} : status'[u] = status[u]
      /\ UNCHANGED << pc, object, result >>
      /\ \A r \in WaitQueue : r # q => wq'[r] = wq[r]
  BY DEF NotifyOne, NotifyBlock, restVars, Waiters, WaitInv, WaitTypeOK,
         LinksConsistent
<1> QED BY <1>2, <1>3 DEF Only, SameEnds

(* All waiters of a queue that are notified.                               *)
LEMMA NotifyAllKeeps ==
  ASSUME WaitInv, NEW Q, Only(Q), NEW q \in WaitQueue,
         NEW reason \in {"SATISFIED", "DELETED"}, NotifyAll(q, reason),
         UNCHANGED prio
  PROVE  /\ WaitInv' /\ Only(Q)' /\ SameEnds
         /\ wq' = [wq EXCEPT ![q] = << >>]
         /\ \A u \in Thread :
              IF u \in Waiters(q)
              THEN /\ pc[u] = "blocked" /\ object[u] = q
                   /\ status[u] = "IN_PROGRESS" /\ status'[u] = reason
              ELSE status'[u] = status[u]
         /\ UNCHANGED << pc, object, result >>
<1>1. prio' \in [Thread -> Prio]
  BY DEF WaitInv, WaitTypeOK
<1>2. WaitInv'
  BY <1>1, NotifyAllInvariant
<1>3. /\ wq' = [wq EXCEPT ![q] = << >>]
      /\ \A u \in Thread :
           IF u \in Waiters(q)
           THEN /\ pc[u] = "blocked" /\ object[u] = q
                /\ status[u] = "IN_PROGRESS" /\ status'[u] = reason
           ELSE status'[u] = status[u]
      /\ UNCHANGED << pc, object, result >>
  BY DEF NotifyAll, NotifyBlocks, restVars, Waiters, WaitInv, LinksConsistent
<1> QED BY <1>2, <1>3 DEF Only, SameEnds

(* A woken thread runs again: its result is success exactly if the object  *)
(* notified it.                                                            *)
LEMMA WakeupKeeps ==
  ASSUME WaitInv, NEW Q, Only(Q), NEW t \in Thread, Wakeup(t)
  PROVE  /\ WaitInv' /\ Only(Q)' /\ SameEnds
         /\ pc[t] = "blocked" /\ pc'[t] = "returning"
         /\ result'[t] = "OK" <=> status[t] = "SATISFIED"
         /\ wq' = [q \in WaitQueue |-> Unlink(wq[q], t)]
         /\ \A q \in WaitQueue, u \in Thread :
              Linked(wq'[q], u) <=> Linked(wq[q], u) /\ u # t
         /\ \A q \in WaitQueue : wq[q] = << >> => wq'[q] = << >>
         /\ \A u \in Thread \ {t} : /\ pc'[u] = pc[u] /\ result'[u] = result[u]
                                    /\ status'[u] = status[u]
         /\ UNCHANGED << object, state, cancel, signaled >>
<1>1. WaitInv'
  BY WakeupInvariant
<1>2. /\ wq' = [q \in WaitQueue |-> Unlink(wq[q], t)]
      /\ \A q \in WaitQueue, u \in Thread :
           Linked(wq'[q], u) <=> Linked(wq[q], u) /\ u # t
      /\ status'[t] = RolledBack(t, status[t])
      /\ cancel_status'[t] # "IN_PROGRESS"
      /\ \A u \in Thread \ {t} : status'[u] = status[u]
  BY RollbackUnlinks DEF Wakeup, WaitInv, Rollback
<1>3. \A q \in WaitQueue : wq[q] = << >> => wq'[q] = << >>
  <2>1. \A q \in WaitQueue : wq[q] \in Seq(Thread) /\ wq'[q] \in Seq(Thread)
    BY <1>1 DEF WaitInv, WaitTypeOK
  <2> QED BY <1>2, <2>1, EmptyQueue
<1>4. /\ pc[t] = "blocked" /\ pc'[t] = "returning"
      /\ result'[t] = WaitStatus(t, status'[t], cancel_status'[t])
      /\ \A u \in Thread \ {t} : pc'[u] = pc[u] /\ result'[u] = result[u]
      /\ UNCHANGED << object, state, cancel, signaled >>
  BY DEF Wakeup, WaitInv, WaitTypeOK
<1>5. result'[t] = "OK" <=> status[t] = "SATISFIED"
  <2>1. status'[t] = "SATISFIED" <=> status[t] = "SATISFIED"
    BY <1>2 DEF RolledBack
  <2>2. result'[t] = "OK" <=> status'[t] = "SATISFIED"
    BY <1>4 DEF WaitStatus
  <2> QED BY <2>1, <2>2
<1> QED BY <1>1, <1>2, <1>3, <1>4, <1>5 DEF Only, SameEnds

(* A call that returns.                                                    *)
LEMMA ReturnKeeps ==
  ASSUME WaitInv, NEW Q, Only(Q), NEW t \in Thread, Return(t)
  PROVE  /\ WaitInv' /\ Only(Q)' /\ SameEnds
         /\ pc[t] = "returning" /\ pc'[t] = "running" /\ object'[t] = NoObject
         /\ status'[t] = "CANCELLED"
         /\ \A u \in Thread \ {t} : /\ pc'[u] = pc[u] /\ result'[u] = result[u]
                                    /\ status'[u] = status[u]
                                    /\ object'[u] = object[u]
                                    /\ cancel'[u] = cancel[u]
                                    /\ cancel_status'[u] = cancel_status[u]
         /\ cancel'[t] = NoEvent /\ cancel_status'[t] = "CANCELLED"
         /\ UNCHANGED << wq, state, signaled >>
<1>1. WaitInv'
  BY ReturnInvariant
<1>2. /\ pc[t] = "returning" /\ pc'[t] = "running" /\ object'[t] = NoObject
      /\ status'[t] = "CANCELLED"
      /\ \A u \in Thread \ {t} : /\ pc'[u] = pc[u] /\ result'[u] = result[u]
                                 /\ status'[u] = status[u]
                                 /\ object'[u] = object[u]
                                 /\ cancel'[u] = cancel[u]
                                 /\ cancel_status'[u] = cancel_status[u]
      /\ cancel'[t] = NoEvent /\ cancel_status'[t] = "CANCELLED"
      /\ UNCHANGED << wq, state, signaled >>
  BY DEF Return, WaitInv, WaitTypeOK
<1> QED BY <1>1, <1>2 DEF Only, SameEnds

(* A timer that expires, or something that happens to the event that       *)
(* aborts waits.                                                           *)
LEMMA EventKeeps ==
  ASSUME WaitInv, NEW Q, Only(Q), EventStep
  PROVE  /\ WaitInv' /\ Only(Q)' /\ SameEnds
         /\ UNCHANGED << pc, object, wq, status, result, cancel >>
<1>1. WaitInv'
  BY WaitStepInvariant DEF WaitStep, StayStep
<1>2. UNCHANGED << pc, object, wq, status, result, cancel >>
  BY DEF EventStep, TimerExpire, AbortSet, AbortReset, AbortDeinit, EventSet
<1> QED BY <1>1, <1>2 DEF Only, SameEnds

(* The end of a thread: it leaves all queues, and whoever joins it is      *)
(* notified.                                                               *)
LEMMA CompleteEffect ==
  ASSUME WaitInv, NEW t \in Thread, NEW S \in [Thread -> ThreadState],
         t \notin Waiters(Completion(t)), Complete(t, S)
  PROVE  /\ wq' \in [WaitQueue -> Seq(Thread)]
         /\ wq'[Completion(t)] = << >>
         /\ \A q \in WaitQueue : IsInjective(wq'[q])
         /\ \A q \in WaitQueue, u \in Thread :
              Linked(wq'[q], u) <=> /\ Linked(wq[q], u) /\ u # t
                                    /\ q # Completion(t)
         /\ \A q \in WaitQueue : q # Completion(t) => wq'[q] = Unlink(wq[q], t)
         /\ \A q \in WaitQueue : wq[q] = << >> => wq'[q] = << >>
         /\ status' \in [Thread -> BlockStatus]
         /\ state' \in [Thread -> ThreadState]
         /\ \A u \in Thread \ {t} :
              IF u \in Waiters(Completion(t))
              THEN /\ pc[u] = "blocked" /\ object[u] = Completion(t)
                   /\ status[u] = "IN_PROGRESS"
                   /\ status'[u] = "SATISFIED" /\ state'[u] = "READY"
              ELSE status'[u] = status[u] /\ state'[u] = S[u]
         /\ status'[t] = RolledBack(t, status[t]) /\ state'[t] = S[t]
<1>1. Completion(t) \in WaitQueue
  BY ThreadAssumption
<1>2. \A q \in WaitQueue :
        /\ Unlink(wq[q], t) \in Seq(Thread)
        /\ IsInjective(Unlink(wq[q], t))
        /\ \A u \in Thread : Linked(Unlink(wq[q], t), u) <=>
                               Linked(wq[q], u) /\ u # t
  BY UnlinkProperties DEF WaitInv, WaitTypeOK, LinksConsistent
<1>3. << >> \in Seq(Thread) /\ IsInjective(<< >>) /\ \A u \in Thread : ~Linked(<< >>, u)
  BY EmptySeq DEF IsInjective, Linked
<1>4. wq' = [q \in WaitQueue |-> IF q = Completion(t) THEN << >>
                                                       ELSE Unlink(wq[q], t)]
  BY DEF Complete
<1>5. /\ wq' \in [WaitQueue -> Seq(Thread)]
      /\ wq'[Completion(t)] = << >>
      /\ \A q \in WaitQueue : IsInjective(wq'[q])
      /\ \A q \in WaitQueue, u \in Thread :
           Linked(wq'[q], u) <=> /\ Linked(wq[q], u) /\ u # t
                                 /\ q # Completion(t)
      /\ \A q \in WaitQueue : q # Completion(t) => wq'[q] = Unlink(wq[q], t)
  BY <1>1, <1>2, <1>3, <1>4
<1>6. \A q \in WaitQueue : wq[q] = << >> => wq'[q] = << >>
  <2>1. \A q \in WaitQueue : wq[q] \in Seq(Thread) /\ wq'[q] \in Seq(Thread)
    BY <1>5 DEF WaitInv, WaitTypeOK
  <2> QED BY <1>5, <2>1, EmptyQueue
<1>7. \A u \in Waiters(Completion(t)) :
        /\ u \in Thread /\ pc[u] = "blocked" /\ object[u] = Completion(t)
        /\ status[u] = "IN_PROGRESS"
  BY <1>1 DEF Waiters, WaitInv, LinksConsistent
<1>8. /\ status' \in [Thread -> BlockStatus]
      /\ state' \in [Thread -> ThreadState]
  BY DEF Complete, RolledBack, BlockStatus, ThreadState, WaitInv, WaitTypeOK
<1>9. /\ \A u \in Thread \ {t} :
           IF u \in Waiters(Completion(t))
           THEN status'[u] = "SATISFIED" /\ state'[u] = "READY"
           ELSE status'[u] = status[u] /\ state'[u] = S[u]
      /\ status'[t] = RolledBack(t, status[t]) /\ state'[t] = S[t]
  BY DEF Complete
<1> QED BY <1>5, <1>6, <1>7, <1>8, <1>9

(* A thread that is terminated, by whomever.                               *)
LEMMA KillKeeps ==
  ASSUME WaitInv, NEW Q, Only(Q), NEW t \in Thread, Kill(t),
         t \notin Waiters(Completion(t))
  PROVE  /\ WaitInv' /\ Only(Q)'
         /\ pc[t] # "dead" /\ pc'[t] = "dead" /\ object'[t] = NoObject
         /\ wq'[Completion(t)] = << >>
         /\ \A q \in WaitQueue, u \in Thread :
              Linked(wq'[q], u) <=> /\ Linked(wq[q], u) /\ u # t
                                    /\ q # Completion(t)
         /\ \A q \in WaitQueue : q # Completion(t) => wq'[q] = Unlink(wq[q], t)
         /\ \A q \in WaitQueue : wq[q] = << >> => wq'[q] = << >>
         /\ \A u \in Thread \ {t} :
              /\ pc'[u] = pc[u] /\ object'[u] = object[u]
              /\ result'[u] = result[u] /\ cancel'[u] = cancel[u]
              /\ cancel_status'[u] = cancel_status[u]
              /\ IF u \in Waiters(Completion(t))
                 THEN /\ pc[u] = "blocked" /\ object[u] = Completion(t)
                      /\ status[u] = "IN_PROGRESS"
                      /\ status'[u] = "SATISFIED" /\ state'[u] = "READY"
                 ELSE status'[u] = status[u] /\ state'[u] = state[u]
         /\ cancel'[t] = NoEvent /\ cancel_status'[t] # "IN_PROGRESS"
         /\ state'[t] = "COMPLETED"
         /\ UNCHANGED signaled
<1> DEFINE S == [state EXCEPT ![t] = "COMPLETED"]
<1>1. /\ S \in [Thread -> ThreadState] /\ S[t] = "COMPLETED"
      /\ \A u \in Thread \ {t} : S[u] = state[u]
      /\ Complete(t, S)
  BY DEF Kill, WaitInv, WaitTypeOK, ThreadState
<1> HIDE DEF S
<1>2. /\ wq' \in [WaitQueue -> Seq(Thread)]
      /\ wq'[Completion(t)] = << >>
      /\ \A q \in WaitQueue : IsInjective(wq'[q])
      /\ \A q \in WaitQueue, u \in Thread :
           Linked(wq'[q], u) <=> /\ Linked(wq[q], u) /\ u # t
                                 /\ q # Completion(t)
      /\ \A q \in WaitQueue : q # Completion(t) => wq'[q] = Unlink(wq[q], t)
      /\ \A q \in WaitQueue : wq[q] = << >> => wq'[q] = << >>
      /\ status' \in [Thread -> BlockStatus]
      /\ state' \in [Thread -> ThreadState]
      /\ \A u \in Thread \ {t} :
           IF u \in Waiters(Completion(t))
           THEN /\ pc[u] = "blocked" /\ object[u] = Completion(t)
                /\ status[u] = "IN_PROGRESS"
                /\ status'[u] = "SATISFIED" /\ state'[u] = "READY"
           ELSE status'[u] = status[u] /\ state'[u] = S[u]
      /\ status'[t] = RolledBack(t, status[t]) /\ state'[t] = S[t]
  BY <1>1, CompleteEffect
<1>3. /\ state[t] # "COMPLETED"
      /\ timer' = [timer EXCEPT ![t] = FALSE]
      /\ pc' = [pc EXCEPT ![t] = "dead"]
      /\ object' = [object EXCEPT ![t] = NoObject]
      /\ cancel' = [cancel EXCEPT ![t] = NoEvent]
      /\ cancel_status' = [cancel_status EXCEPT ![t] = RolledBack(t, @)]
      /\ result' = [result EXCEPT ![t] = "OK"]
      /\ UNCHANGED << prio, signaled >>
  BY DEF Kill, EndBy
<1>4. /\ pc' \in [Thread -> Phase] /\ timer' \in [Thread -> BOOLEAN]
      /\ cancel_status' \in [Thread -> BlockStatus]
      /\ pc[t] # "dead" /\ pc'[t] = "dead" /\ object'[t] = NoObject
      /\ cancel'[t] = NoEvent /\ cancel_status'[t] # "IN_PROGRESS"
      /\ result'[t] = "OK" /\ ~timer'[t]
      /\ \A u \in Thread \ {t} :
           /\ pc'[u] = pc[u] /\ object'[u] = object[u] /\ timer'[u] = timer[u]
           /\ result'[u] = result[u] /\ cancel'[u] = cancel[u]
           /\ cancel_status'[u] = cancel_status[u]
  BY <1>3 DEF WaitInv, WaitTypeOK, LinksConsistent, Phase, BlockStatus, RolledBack
<1>5. WaitTypeOK'
  BY <1>2, <1>3, <1>4 DEF WaitInv, WaitTypeOK, Result
<1>6. LinksConsistent'
  <2>1. ASSUME NEW u \in Thread, NEW q \in WaitQueue
        PROVE  Linked(wq'[q], u) <=> /\ object'[u] = q
                                     /\ pc'[u] = "blocked"
                                     /\ status'[u] = "IN_PROGRESS"
    <3>1. CASE u = t
      BY <1>2, <1>4, <3>1
    <3>2. CASE u # t /\ u \in Waiters(Completion(t))
      <4>1. ~Linked(wq'[q], u)
        BY <1>2, <3>2, SMTT(30) DEF WaitInv, LinksConsistent
      <4> QED BY <1>2, <3>2, <4>1
    <3>3. CASE u # t /\ u \notin Waiters(Completion(t))
      <4>1. Linked(wq'[q], u) <=> Linked(wq[q], u)
        BY <1>2, <3>3 DEF Waiters
      <4> QED BY <1>2, <1>4, <3>3, <4>1 DEF WaitInv, LinksConsistent
    <3> QED BY <3>1, <3>2, <3>3
  <2>2. ASSUME NEW u \in Thread
        PROVE  /\ cancel_status'[u] = "IN_PROGRESS" => pc'[u] = "blocked"
               /\ state'[u] = "COMPLETED" <=> pc'[u] = "dead"
    <3>1. CASE u = t
      BY <1>1, <1>2, <1>4, <3>1
    <3>2. CASE u # t
      <4>1. pc'[u] = pc[u] /\ cancel_status'[u] = cancel_status[u]
        BY <1>4, <3>2
      <4>2. state'[u] = state[u] \/ (state'[u] = "READY" /\ pc[u] = "blocked")
        BY <1>1, <1>2, <3>2
      <4> QED BY <4>1, <4>2 DEF WaitInv, LinksConsistent
    <3> QED BY <3>1, <3>2
  <2> QED BY <1>2, <2>1, <2>2 DEF LinksConsistent
<1>7. ASSUME NEW u \in Thread, u # t
      PROVE  \/ state'[u] = state[u] /\ status'[u] = status[u]
             \/ state'[u] = "READY" /\ status'[u] = "SATISFIED"
  BY <1>1, <1>2, <1>7
<1>8. SleeperCanWake'
  BY <1>1, <1>2, <1>4, <1>7, <1>3, SMTT(30) DEF WaitInv, SleeperCanWake
<1>9. WokenForReason' /\ TimerBelongsToWait'
  <2>1. TimerBelongsToWait'
    BY <1>3, <1>4 DEF WaitInv, TimerBelongsToWait
  <2>2. ASSUME NEW u \in Thread, pc'[u] = "blocked", state'[u] = "READY"
        PROVE  {status'[u], cancel_status'[u]} \cap {"SATISFIED", "DELETED"} # {}
    <3>1. u # t /\ pc[u] = "blocked" /\ cancel_status'[u] = cancel_status[u]
      BY <1>4, <2>2
    <3>2. CASE state'[u] = state[u] /\ status'[u] = status[u]
      BY <2>2, <3>1, <3>2 DEF WaitInv, WokenForReason
    <3>3. CASE status'[u] = "SATISFIED"
      BY <3>3
    <3> QED BY <1>7, <3>1, <3>2, <3>3
  <2>3. \A u \in Thread : result'[u] # "WAIT_INTERRUPTED"
    BY <1>4 DEF WaitInv, WokenForReason
  <2> QED BY <2>1, <2>2, <2>3 DEF WokenForReason
<1>10. Only(Q)'
  BY <1>4 DEF Only
<1>11. \A u \in Thread \ {t} :
         IF u \in Waiters(Completion(t))
         THEN /\ pc[u] = "blocked" /\ object[u] = Completion(t)
              /\ status[u] = "IN_PROGRESS"
              /\ status'[u] = "SATISFIED" /\ state'[u] = "READY"
         ELSE status'[u] = status[u] /\ state'[u] = state[u]
  BY <1>1, <1>2
<1>12. WaitInv'
  BY <1>5, <1>6, <1>8, <1>9 DEF WaitInv
<1> HIDE DEF WaitInv
<1> QED BY <1>1, <1>2, <1>3, <1>4, <1>10, <1>11, <1>12

-----------------------------------------------------------------------------
(* A primitive that is not in use stays idle, and none of its calls is     *)
(* made.                                                                   *)

(* The waitables are different ones.                                       *)
LEMMA QueuesDiffer ==
  /\ RdWtbl # Barr /\ RdWtbl # Pool /\ RdWtbl # Evf /\ RdWtbl # Ev
  /\ WrWtbl # Barr /\ WrWtbl # Pool /\ WrWtbl # Evf /\ WrWtbl # Ev
  /\ Barr # Pool /\ Barr # Evf /\ Barr # Ev
  /\ Pool # Evf /\ Pool # Ev /\ Evf # Ev
  /\ {RdWtbl, WrWtbl, Barr, Pool, Evf, Ev} \subseteq WaitQueue \ ThreadQueues
  /\ \A t \in Thread : /\ {Completion(t), TimerEvent(t)} \subseteq WaitQueue
                       /\ {Completion(t), TimerEvent(t)} \subseteq ThreadQueues
  /\ NoObject \notin WaitQueue
<1>1. LET s == << RdWtbl, WrWtbl, Barr, Pool, Evf, Ev >>
      IN  \A i, j \in 1 .. 6 : s[i] = s[j] => i = j
  BY ObjectsAssumption DEF IsInjective
<1>2. /\ {RdWtbl, WrWtbl, Barr, Pool, Evf, Ev} \subseteq WaitQueue
      /\ NoObject \notin WaitQueue
  BY RwlockAssumption, BarrierAssumption, PoolAssumption, EvFlagsAssumption,
     EventAssumption, WaitAssumption
<1>3. \A q \in {RdWtbl, WrWtbl, Barr, Pool, Evf, Ev} : q \notin ThreadQueues
  <2>1. \A t \in Thread : \A q \in {RdWtbl, WrWtbl, Barr, Pool, Evf, Ev} :
          q # Completion(t) /\ q # TimerEvent(t)
    BY ObjectsAssumption
  <2> QED BY <2>1 DEF ThreadQueues
<1>4. RdWtbl # Barr /\ RdWtbl # Pool /\ RdWtbl # Evf /\ RdWtbl # Ev
  BY <1>1
<1>5. WrWtbl # Barr /\ WrWtbl # Pool /\ WrWtbl # Evf /\ WrWtbl # Ev
  BY <1>1
<1>6. Barr # Pool /\ Barr # Evf /\ Barr # Ev
  BY <1>1
<1>7. Pool # Evf /\ Pool # Ev /\ Evf # Ev
  BY <1>1
<1>8. \A t \in Thread : /\ {Completion(t), TimerEvent(t)} \subseteq WaitQueue
                        /\ {Completion(t), TimerEvent(t)} \subseteq ThreadQueues
  BY ThreadAssumption DEF ThreadQueues
<1> QED BY <1>2, <1>3, <1>4, <1>5, <1>6, <1>7, <1>8

(* Nobody is in a call for, or waits for, a waitable that is not in use.   *)
LEMMA NobodyThere ==
  ASSUME WaitInv, NEW Q, Only(Q), NEW q \in WaitQueue \ Q
  PROVE  /\ \A t \in Thread : object[t] # q /\ ~Linked(wq[q], t)
         /\ wq[q] = << >>
<1>1. \A t \in Thread : object[t] # q
  BY WaitAssumption DEF Only
<1>2. \A t \in Thread : ~Linked(wq[q], t)
  BY <1>1 DEF WaitInv, LinksConsistent
<1>3. wq[q] \in Seq(Thread)
  BY DEF WaitInv, WaitTypeOK
<1> QED BY <1>1, <1>2, <1>3, EmptyQueue

LEMMA RwlockStaysIdle ==
  ASSUME WaitInv, NEW Q, Only(Q), RdWtbl \notin Q, WrWtbl \notin Q, RwlockIdle
  PROVE  ~RwStep /\ (Next => RwlockIdle')
<1>1. \A t \in Thread : /\ object[t] # RdWtbl /\ object[t] # WrWtbl
                        /\ ~Linked(wq[WrWtbl], t)
  BY NobodyThere, QueuesDiffer
<1>2. ~rw_valid /\ kicking = {}
  BY DEF RwlockIdle, RwlockInit
<1>3. ~RwStep
  BY <1>1, <1>2 DEF RwStep, RwLock, MayAsk, RdTestAndWait, WrTestAndWait, Enters,
                    TryRead, TryWrite, RwUnlock, KickReaders, RwDeinit
<1>4. ASSUME UNCHANGED rwlockVars PROVE RwlockIdle'
  BY <1>4 DEF rwlockVars, RwlockIdle, RwlockInit
<1>5. ASSUME NEW t \in Thread, RwWakeup(t) PROVE RwlockIdle'
  BY <1>1, <1>5 DEF RwWakeup, ToldAsChosen, Chosen, RwlockIdle, RwlockInit
<1>6. ASSUME NEW t \in Thread, RwKill(t) PROVE RwlockIdle'
  BY <1>1, <1>6
  DEF RwKill, ToldAsChosen, Chosen, RwlockIdle, RwlockInit, Waiters
<1> QED BY <1>3, <1>4, <1>5, <1>6 DEF Next, ObjectStep, WakeupIn, ReturnTo, KillIn

LEMMA BarrierStaysIdle ==
  ASSUME WaitInv, NEW Q, Only(Q), Barr \notin Q, BarrierIdle
  PROVE  ~BarrierStep /\ (Next => BarrierIdle')
<1>1. \A t \in Thread : object[t] # Barr /\ ~Linked(wq[Barr], t)
  BY NobodyThere, QueuesDiffer
<1>2. ~BarrierStep
  BY <1>1 DEF BarrierStep, BarrierWait, BarrierTestAndWait, Enters, BarrierTry,
              BarrierDeinit, BarrierIdle, BarrierInit
<1>3. ASSUME UNCHANGED barrierVars PROVE BarrierIdle'
  BY <1>3 DEF barrierVars, BarrierIdle, BarrierInit
<1>4. ASSUME NEW t \in Thread, BarrierWithdraw(t) PROVE BarrierIdle'
  BY <1>1, <1>4 DEF BarrierWithdraw, BarrierIdle, BarrierInit
<1> QED BY <1>2, <1>3, <1>4 DEF Next, ObjectStep, WakeupIn, ReturnTo, KillIn

LEMMA PoolStaysIdle ==
  ASSUME WaitInv, NEW Q, Only(Q), Pool \notin Q, PoolIdle
  PROVE  ~PoolStep /\ (Next => PoolIdle')
<1>1. \A t \in Thread : object[t] # Pool
  BY NobodyThere, QueuesDiffer
<1>2. ~PoolStep
  BY <1>1 DEF PoolStep, PoolAlloc, PoolTestAndWait, Enters, PoolTry, PoolRelease,
              PoolDeinit, PoolIdle, PoolInit
<1>3. ASSUME UNCHANGED poolVars PROVE PoolIdle'
  BY <1>3 DEF poolVars, PoolIdle, PoolInit
<1>4. ASSUME NEW t \in Thread, PoolReturn(t) PROVE PoolIdle'
  BY <1>4 DEF PoolReturn, PoolIdle, PoolInit
<1> QED BY <1>2, <1>3, <1>4 DEF Next, ObjectStep, WakeupIn, ReturnTo, KillIn

LEMMA EvfStaysIdle ==
  ASSUME WaitInv, NEW Q, Only(Q), Evf \notin Q, EvfIdle
  PROVE  ~EvfStep /\ (Next => EvfIdle')
<1>1. \A t \in Thread : object[t] # Evf
  BY NobodyThere, QueuesDiffer
<1>2. ~EvfStep
  BY <1>1 DEF EvfStep, EvfWait, EvfTestAndWait, Enters, EvfTry, SetFlags,
              ClearFlags, EvfDeinit, EvfIdle, EvfInit
<1>3. ASSUME UNCHANGED evfVars PROVE EvfIdle'
  BY <1>3 DEF evfVars, EvfIdle, EvfInit
<1>4. ASSUME NEW t \in Thread, EvfReturn(t) PROVE EvfIdle'
  BY <1>4 DEF EvfReturn, EvfIdle, EvfInit
<1> QED BY <1>2, <1>3, <1>4 DEF Next, ObjectStep, WakeupIn, ReturnTo, KillIn

LEMMA EvStaysIdle ==
  ASSUME WaitInv, NEW Q, Only(Q), Ev \notin Q, EvIdle
  PROVE  ~EvStep /\ (Next => EvIdle')
<1>1. \A t \in Thread : object[t] # Ev
  BY NobodyThere, QueuesDiffer
<1>2. ~EvStep
  BY <1>1 DEF EvStep, EvWait, EvTestAndWait, Enters, EvTry, EvSet, EvReset, EvDeinit,
              EvIdle, EvInit
<1>3. ASSUME UNCHANGED eventVars PROVE EvIdle'
  BY <1>3 DEF eventVars, EvIdle, EvInit
<1> QED BY <1>2, <1>3 DEF Next, ObjectStep, WakeupIn, ReturnTo, KillIn

(* Threads do not use each other, but may be terminated.                   *)
LEMMA ThreadsStayIdle ==
  ASSUME WaitInv, NEW Q, Only(Q), Q \cap ThreadQueues = {}, ThreadsIdle
  PROVE  /\ ~ThreadStep
         /\ Next /\ (ObjectStep => SameEnds) => ThreadsIdle'
         /\ \A t \in Thread : t \notin Waiters(Completion(t))
<1>1. \A t, u \in Thread : /\ object[t] # Completion(u) /\ object[t] # TimerEvent(u)
                           /\ ~Linked(wq[Completion(u)], t)
  BY NobodyThere, QueuesDiffer
<1>2. ~ThreadStep
  BY <1>1 DEF ThreadStep, Exit, SwitchFrom, ThreadDeinit, ThreadInit, Join,
              JoinTestAndWait, Enters, SleepFor, DelayPast, SleepTestAndWait,
              SleepExpire, Suspend, Resume, ThreadsIdle
<1>3. ASSUME UNCHANGED threadVars, SameEnds PROVE ThreadsIdle'
  <2>1. \A t \in Thread : (pc'[t] = "dead") = (pc[t] = "dead")
    BY <1>3 DEF SameEnds
  <2> QED BY <1>3, <2>1 DEF threadVars, ThreadsIdle
<1>4. ASSUME NEW t \in Thread, Return(t), ThreadReturn(t) PROVE ThreadsIdle'
  <2>1. \A u \in Thread : (pc'[u] = "dead") = (pc[u] = "dead")
    BY <1>4, ReturnKeeps DEF SameEnds
  <2> QED BY <1>4, <2>1 DEF ThreadReturn, ThreadsIdle
<1>5. ASSUME NEW t \in Thread, Kill(t) PROVE ThreadsIdle'
  <2>1. pc' = [pc EXCEPT ![t] = "dead"]
    BY <1>5 DEF Kill, EndBy
  <2>2. completion' = [completion EXCEPT ![t] = TRUE]
    BY <1>5 DEF Kill, Complete
  <2>3. completion' = [u \in Thread |-> pc'[u] = "dead"]
    BY <2>1, <2>2 DEF ThreadsIdle, WaitInv, WaitTypeOK
  <2> QED BY <1>5, <2>3 DEF Kill, EndBy, ThreadsIdle
<1>6. ASSUME NEW t \in Thread, WakeupIn(t) PROVE ThreadsIdle'
  BY <1>3, <1>6, WakeupKeeps DEF WakeupIn
<1>7. ASSUME EventStep, UNCHANGED threadVars PROVE ThreadsIdle'
  BY <1>3, <1>7, EventKeeps
<1> QED BY <1>1, <1>2, <1>3, <1>4, <1>5, <1>6, <1>7
        DEF Next, ObjectStep, ReturnTo, KillIn, Waiters

-----------------------------------------------------------------------------
(* The event.                                                              *)

LEMMA EvStepKeeps ==
  ASSUME WaitInv, Only({Ev}), EvInv, EvStep
  PROVE  WaitInv' /\ Only({Ev})' /\ SameEnds /\ EvInv'
<1>1. Ev \in WaitQueue
  BY EventAssumption
<1>2. ASSUME NEW t \in Thread, NEW c, EvWait(t, c)
      PROVE  WaitInv' /\ Only({Ev})' /\ SameEnds /\ EvInv'
  BY <1>1, <1>2, CallKeeps DEF EvWait, EvInv, EvNoIdle, eventVars
<1>3. ASSUME NEW t \in Thread, EvTestAndWait(t)
      PROVE  WaitInv' /\ Only({Ev})' /\ SameEnds /\ EvInv'
  <2>1. CASE ev_state /\ Proceed(t) /\ UNCHANGED prio
    BY <1>1, <1>3, <2>1, ProceedKeeps DEF EvTestAndWait, EvInv, EvNoIdle, eventVars
  <2>2. CASE ~ev_state /\ Block(t)
    BY <1>1, <1>3, <2>2, BlockKeeps DEF EvTestAndWait, EvInv, EvNoIdle, eventVars
  <2> QED BY <1>3, <2>1, <2>2 DEF EvTestAndWait
<1>4. ASSUME NEW t \in Thread, EvTry(t)
      PROVE  WaitInv' /\ Only({Ev})' /\ SameEnds /\ EvInv'
  BY <1>4, TryKeeps DEF EvTry, EvInv, EvNoIdle, eventVars
<1>5. ASSUME EvSet PROVE WaitInv' /\ Only({Ev})' /\ SameEnds /\ EvInv'
  <2>1. CASE NotifyAll(Ev, "SATISFIED")
    <3>1. /\ WaitInv' /\ Only({Ev})' /\ SameEnds
          /\ wq' = [wq EXCEPT ![Ev] = << >>]
      BY <1>1, <1>5, <2>1, NotifyAllKeeps DEF EvSet
    <3> QED BY <1>1, <3>1 DEF EvInv, EvNoIdle, WaitInv, WaitTypeOK
  <2>2. CASE ev_state /\ UNCHANGED << pc, state, wq, status, result, restVars >>
    <3>1. UNCHANGED waitVars /\ ev_state' = TRUE
      BY <1>5, <2>2 DEF EvSet, waitVars, restVars
    <3> QED BY <2>2, <3>1, WaitUnchanged
            DEF waitVars, EvInv, EvNoIdle, Only, SameEnds
  <2> QED BY <1>5, <2>1, <2>2 DEF EvSet
<1>6. ASSUME EvReset PROVE WaitInv' /\ Only({Ev})' /\ SameEnds /\ EvInv'
  BY <1>6, WaitUnchanged DEF EvReset, waitVars, EvInv, EvNoIdle, Only, SameEnds
<1>7. ASSUME EvDeinit PROVE WaitInv' /\ Only({Ev})' /\ SameEnds /\ EvInv'
  <2>1. /\ WaitInv' /\ Only({Ev})' /\ SameEnds
        /\ wq' = [wq EXCEPT ![Ev] = << >>]
    BY <1>1, <1>7, NotifyAllKeeps DEF EvDeinit
  <2> QED BY <1>1, <2>1 DEF EvInv, EvNoIdle, WaitInv, WaitTypeOK
<1> QED BY <1>2, <1>3, <1>4, <1>5, <1>6, <1>7 DEF EvStep

LEMMA EvInUseInvariant == EvInUse /\ Next => EvInUse'
<1> SUFFICES ASSUME EvInUse, Next PROVE EvInUse'
  OBVIOUS
<1> DEFINE Q == {Ev}
<1>1. /\ WaitInv /\ Only(Q) /\ EvInv /\ Ev \in WaitQueue
      /\ RwlockIdle /\ BarrierIdle /\ PoolIdle /\ EvfIdle /\ ThreadsIdle
      /\ RdWtbl \notin Q /\ WrWtbl \notin Q /\ Barr \notin Q /\ Pool \notin Q
      /\ Evf \notin Q /\ Q \cap ThreadQueues = {}
  BY QueuesDiffer DEF EvInUse
<1> HIDE DEF Q
<1>2. /\ RwlockIdle' /\ BarrierIdle' /\ PoolIdle' /\ EvfIdle'
      /\ (ObjectStep => SameEnds) => ThreadsIdle'
      /\ ObjectStep => EvStep
      /\ \A t \in Thread : t \notin Waiters(Completion(t))
  BY <1>1, RwlockStaysIdle, BarrierStaysIdle, PoolStaysIdle, EvfStaysIdle,
     ThreadsStayIdle DEF ObjectStep
<1>3. CASE ObjectStep
  BY <1>1, <1>2, <1>3, EvStepKeeps DEF EvInUse, Q
<1>4. ASSUME ~ObjectStep, UNCHANGED eventVars, WaitInv', Only(Q)',
             wq[Ev] = << >> => wq'[Ev] = << >>
      PROVE  EvInUse'
  BY <1>1, <1>2, <1>4 DEF eventVars, EvInUse, Q, EvInv, EvNoIdle
<1>5. ASSUME NEW t \in Thread, ~ObjectStep, WakeupIn(t) PROVE EvInUse'
  BY <1>1, <1>4, <1>5, WakeupKeeps DEF WakeupIn
<1>6. ASSUME NEW t \in Thread, ~ObjectStep, ReturnTo(t) PROVE EvInUse'
  BY <1>1, <1>4, <1>6, ReturnKeeps DEF ReturnTo
<1>7. ASSUME NEW t \in Thread, ~ObjectStep, KillIn(t) PROVE EvInUse'
  BY <1>1, <1>2, <1>4, <1>7, KillKeeps DEF KillIn
<1>8. ASSUME EventStep, ~ObjectStep, UNCHANGED eventVars PROVE EvInUse'
  BY <1>1, <1>4, <1>8, EventKeeps
<1> QED BY <1>3, <1>5, <1>6, <1>7, <1>8 DEF Next

-----------------------------------------------------------------------------
(* The barrier.                                                            *)

(* The thread that opens the barrier goes on, and all who wait are         *)
(* notified.                                                               *)
LEMMA OpenKeeps ==
  ASSUME WaitInv, Only({Barr}), NEW t \in Thread, state[t] = "READY",
         pc[t] \in {"armed", "running"}, Open(t)
  PROVE  /\ WaitInv' /\ Only({Barr})' /\ SameEnds
         /\ wq' = [wq EXCEPT ![Barr] = << >>]
<1>1. Barr \in WaitQueue
  BY BarrierAssumption
<1>2. \A u \in Waiters(Barr) :
        /\ u \in Thread /\ u # t /\ Linked(wq[Barr], u)
        /\ pc[u] = "blocked" /\ object[u] = Barr /\ status[u] = "IN_PROGRESS"
        /\ state[u] # "COMPLETED"
  BY <1>1 DEF Waiters, WaitInv, LinksConsistent
<1>3. /\ pc' = [pc EXCEPT ![t] = "returning"]
      /\ result' = [result EXCEPT ![t] = "OK"]
      /\ wq' = [wq EXCEPT ![Barr] = << >>]
      /\ status' = [u \in Thread |-> IF u \in Waiters(Barr) THEN "SATISFIED"
                                                            ELSE status[u]]
      /\ state' = [u \in Thread |-> IF u \in Waiters(Barr) THEN "READY"
                                                           ELSE state[u]]
      /\ UNCHANGED << prio, object, cancel, cancel_status, signaled, timer >>
  BY DEF Open, Skip, NotifyBlocks, restVars
<1>4. /\ wq' \in [WaitQueue -> Seq(Thread)]
      /\ \A r \in WaitQueue : IsInjective(wq'[r])
      /\ \A r \in WaitQueue, u \in Thread :
           Linked(wq'[r], u) <=> Linked(wq[r], u) /\ r # Barr
  <2>1. << >> \in Seq(Thread) /\ IsInjective(<< >>)
        /\ \A u \in Thread : ~Linked(<< >>, u)
    BY EmptySeq DEF IsInjective, Linked
  <2> QED BY <1>1, <1>3, <2>1 DEF WaitInv, WaitTypeOK, LinksConsistent
<1>5. WaitTypeOK'
  <2>1. pc' \in [Thread -> Phase] /\ result' \in [Thread -> Result]
    BY <1>3 DEF WaitInv, WaitTypeOK, Phase, Result
  <2>2. status' \in [Thread -> BlockStatus] /\ state' \in [Thread -> ThreadState]
    BY <1>3 DEF WaitInv, WaitTypeOK, BlockStatus, ThreadState
  <2>3. \A u \in Thread : pc'[u] \in {"armed", "blocked"} => object'[u] \in WaitQueue
    BY <1>3 DEF WaitInv, WaitTypeOK
  <2> QED BY <1>3, <1>4, <2>1, <2>2, <2>3 DEF WaitInv, WaitTypeOK
<1>6. LinksConsistent'
  BY <1>2, <1>3, <1>4 DEF WaitInv, WaitTypeOK, LinksConsistent, Waiters
<1>7. SleeperCanWake' /\ WokenForReason'
  BY <1>2, <1>3 DEF WaitInv, WaitTypeOK, SleeperCanWake, WokenForReason
<1>8. TimerBelongsToWait'
  BY <1>2, <1>3 DEF WaitInv, WaitTypeOK, TimerBelongsToWait
<1>9. Only({Barr})' /\ SameEnds
  BY <1>3 DEF Only, SameEnds, WaitInv, WaitTypeOK
<1> QED BY <1>3, <1>5, <1>6, <1>7, <1>8, <1>9 DEF WaitInv

LEMMA BarrierStepKeeps ==
  ASSUME WaitInv, Only({Barr}), BarrierInv, BarrierStep
  PROVE  WaitInv' /\ Only({Barr})' /\ SameEnds /\ BarrierInv'
<1>1. /\ Barr \in WaitQueue /\ Barrier \in Nat \ {0}
      /\ wq \in [WaitQueue -> Seq(Thread)] /\ Len(wq[Barr]) \in Nat
      /\ Len(<< >>) = 0
  BY BarrierAssumption, LenProperties, EmptySeq DEF WaitInv, WaitTypeOK
<1>2. ASSUME NEW t \in Thread, NEW c, BarrierWait(t, c)
      PROVE  WaitInv' /\ Only({Barr})' /\ SameEnds /\ BarrierInv'
  BY <1>1, <1>2, CallKeeps DEF BarrierWait, BarrierInv, BarrierExact, barrierVars
<1>3. ASSUME NEW t \in Thread, state[t] = "READY", pc[t] \in {"armed", "running"},
             Open(t)
      PROVE  WaitInv' /\ Only({Barr})' /\ SameEnds /\ BarrierInv'
  <2>1. /\ WaitInv' /\ Only({Barr})' /\ SameEnds
        /\ wq' = [wq EXCEPT ![Barr] = << >>]
    BY <1>3, OpenKeeps
  <2>2. blocked' = 0 /\ withdrawn' = 0 /\ wq'[Barr] = << >>
    BY <1>1, <1>3, <2>1 DEF Open
  <2> QED BY <1>1, <2>1, <2>2 DEF BarrierInv, BarrierExact
<1>4. ASSUME NEW t \in Thread, BarrierTestAndWait(t)
      PROVE  WaitInv' /\ Only({Barr})' /\ SameEnds /\ BarrierInv'
  <2>1. CASE IsLast
    BY <1>3, <1>4, <2>1 DEF BarrierTestAndWait, Enters
  <2>2. CASE ~IsLast
    <3>1. /\ Enters(t, Barr) /\ Block(t)
          /\ blocked' = blocked + 1
          /\ withdrawn' = IF pc'[t] = "blocked" THEN withdrawn ELSE withdrawn + 1
          /\ barr_valid' = barr_valid
      BY <1>4, <2>2 DEF BarrierTestAndWait
    <3>2. /\ WaitInv' /\ Only({Barr})' /\ SameEnds
          /\ \/ pc'[t] = "blocked" /\ wq' = [wq EXCEPT ![Barr] = Append(@, t)]
             \/ pc'[t] = "returning" /\ wq' = wq
      BY <1>1, <3>1, BlockKeeps
    <3>3. Len(Append(wq[Barr], t)) = Len(wq[Barr]) + 1
      BY <1>1, AppendProperties
    <3>4. \/ Len(wq'[Barr]) = Len(wq[Barr]) + 1 /\ withdrawn' = withdrawn
          \/ Len(wq'[Barr]) = Len(wq[Barr]) /\ withdrawn' = withdrawn + 1
      <4>1. CASE pc'[t] = "blocked" /\ wq' = [wq EXCEPT ![Barr] = Append(@, t)]
        BY <1>1, <3>1, <3>3, <4>1
      <4>2. CASE pc'[t] = "returning" /\ wq' = wq
        BY <3>1, <4>2
      <4> QED BY <3>2, <4>1, <4>2
    <3> HIDE DEF IsLast
    <3>5. blocked + 1 # Barrier
      BY <2>2 DEF IsLast
    <3>6. BarrierInv'
      <4>1. blocked' \in Nat /\ withdrawn' \in Nat
        BY <3>1 DEF BarrierInv
      <4>2. ASSUME barr_valid
            PROVE  blocked' = Len(wq'[Barr]) + withdrawn' /\ blocked' < Barrier
        <5>1. blocked = Len(wq[Barr]) + withdrawn /\ blocked < Barrier
          BY <4>2 DEF BarrierInv, BarrierExact
        <5>2. blocked \in Nat /\ withdrawn \in Nat
          BY DEF BarrierInv
        <5>3. blocked' = blocked + 1 /\ blocked' < Barrier
          BY <1>1, <3>1, <3>5, <5>1, <5>2
        <5>4. Len(wq'[Barr]) + withdrawn' = Len(wq[Barr]) + withdrawn + 1
          <6>1. Len(wq[Barr]) \in Nat
            BY <1>1
          <6> QED BY <3>4, <5>2, <6>1
        <5> QED BY <5>1, <5>3, <5>4
      <4> QED BY <3>1, <4>1, <4>2 DEF BarrierInv, BarrierExact
    <3> QED BY <3>2, <3>6
  <2> QED BY <2>1, <2>2
<1>5. ASSUME NEW t \in Thread, BarrierTry(t)
      PROVE  WaitInv' /\ Only({Barr})' /\ SameEnds /\ BarrierInv'
  <2>1. CASE IsLast
    BY <1>3, <1>5, <2>1 DEF BarrierTry, TryCall
  <2>2. CASE ~IsLast
    <3>1. /\ TryCall(t) /\ TryDone(t, "WAIT_TIMEOUT") /\ UNCHANGED prio
          /\ blocked' = blocked + 1 /\ withdrawn' = withdrawn + 1
          /\ barr_valid' = barr_valid
      BY <1>5, <2>2 DEF BarrierTry
    <3>2. WaitInv' /\ Only({Barr})' /\ SameEnds /\ wq' = wq
      BY <3>1, TryKeeps
    <3> QED BY <1>1, <2>2, <3>1, <3>2 DEF BarrierInv, BarrierExact, IsLast
  <2> QED BY <2>1, <2>2
<1>6. ASSUME BarrierDeinit
      PROVE  WaitInv' /\ Only({Barr})' /\ SameEnds /\ BarrierInv'
  BY <1>1, <1>6, NotifyAllKeeps DEF BarrierDeinit, BarrierInv, BarrierExact
<1> QED BY <1>2, <1>4, <1>5, <1>6 DEF BarrierStep

LEMMA BarrierInUseInvariant == BarrierInUse /\ Next => BarrierInUse'
<1> SUFFICES ASSUME BarrierInUse, Next PROVE BarrierInUse'
  OBVIOUS
<1> DEFINE Q == {Barr}
<1>1. /\ WaitInv /\ Only(Q) /\ BarrierInv /\ Barr \in WaitQueue
      /\ RwlockIdle /\ PoolIdle /\ EvfIdle /\ EvIdle /\ ThreadsIdle
      /\ RdWtbl \notin Q /\ WrWtbl \notin Q /\ Pool \notin Q
      /\ Evf \notin Q /\ Ev \notin Q /\ Q \cap ThreadQueues = {}
      /\ \A t \in Thread : Barr # Completion(t)
  BY QueuesDiffer DEF BarrierInUse
<1> HIDE DEF Q
<1>2. /\ RwlockIdle' /\ PoolIdle' /\ EvfIdle' /\ EvIdle'
      /\ (ObjectStep => SameEnds) => ThreadsIdle'
      /\ ObjectStep => BarrierStep
      /\ \A t \in Thread : t \notin Waiters(Completion(t))
  BY <1>1, RwlockStaysIdle, PoolStaysIdle, EvfStaysIdle, EvStaysIdle,
     ThreadsStayIdle DEF ObjectStep
<1>3. CASE ObjectStep
  BY <1>1, <1>2, <1>3, BarrierStepKeeps DEF BarrierInUse, Q
<1>4. wq[Barr] \in Seq(Thread) /\ Len(wq[Barr]) \in Nat
  BY <1>1, LenProperties DEF WaitInv, WaitTypeOK
<1>5. ASSUME NEW t \in Thread, BarrierWithdraw(t), ~ObjectStep, WaitInv', Only(Q)',
             wq'[Barr] = Unlink(wq[Barr], t)
      PROVE  BarrierInUse'
  <2>1. /\ withdrawn' = IF Linked(wq[Barr], t) THEN withdrawn + 1 ELSE withdrawn
        /\ blocked' = blocked /\ barr_valid' = barr_valid
    BY <1>5 DEF BarrierWithdraw
  <2>2. Len(wq'[Barr]) = IF Linked(wq[Barr], t) THEN Len(wq[Barr]) - 1
                                                ELSE Len(wq[Barr])
    BY <1>4, <1>5, UnlinkLength
  <2>3. BarrierInv'
    <3>1. Linked(wq[Barr], t) => Len(wq[Barr]) - 1 \in Nat
      BY <1>4 DEF Linked
    <3>2. blocked' \in Nat /\ withdrawn' \in Nat
      BY <1>1, <2>1 DEF BarrierInv
    <3>3. ASSUME barr_valid
          PROVE  blocked' = Len(wq'[Barr]) + withdrawn' /\ blocked' < Barrier
      <4>1. blocked = Len(wq[Barr]) + withdrawn /\ blocked < Barrier
        BY <1>1, <3>3 DEF BarrierInv, BarrierExact
      <4>2. blocked \in Nat /\ withdrawn \in Nat /\ Len(wq[Barr]) \in Nat
        BY <1>1, <1>4 DEF BarrierInv
      <4> DEFINE n == Len(wq[Barr])
                 m == Len(wq'[Barr])
      <4>3. \/ m = n - 1 /\ withdrawn' = withdrawn + 1
            \/ m = n /\ withdrawn' = withdrawn
        BY <2>1, <2>2
      <4>4. n \in Nat /\ blocked = n + withdrawn /\ blocked' = blocked
        BY <2>1, <4>1, <4>2
      <4> HIDE DEF n, m
      <4>5. blocked' = m + withdrawn' /\ blocked' < Barrier
        BY <4>1, <4>2, <4>3, <4>4
      <4> QED BY <4>5 DEF m
    <3> QED BY <2>1, <3>2, <3>3 DEF BarrierInv, BarrierExact
  <2> QED BY <1>2, <1>5, <2>3 DEF BarrierInUse, Q
<1>6. ASSUME ~ObjectStep, UNCHANGED barrierVars, WaitInv', Only(Q)', wq' = wq
      PROVE  BarrierInUse'
  BY <1>1, <1>2, <1>6 DEF barrierVars, BarrierInUse, Q, BarrierInv, BarrierExact
<1>7. ASSUME NEW t \in Thread, ~ObjectStep, WakeupIn(t) PROVE BarrierInUse'
  <2>1. WaitInv' /\ Only(Q)' /\ wq'[Barr] = Unlink(wq[Barr], t)
    BY <1>1, <1>7, WakeupKeeps DEF WakeupIn
  <2> QED BY <1>5, <1>7, <2>1 DEF WakeupIn
<1>8. ASSUME NEW t \in Thread, ~ObjectStep, ReturnTo(t) PROVE BarrierInUse'
  BY <1>1, <1>6, <1>8, ReturnKeeps DEF ReturnTo
<1>9. ASSUME NEW t \in Thread, ~ObjectStep, KillIn(t) PROVE BarrierInUse'
  <2>1. WaitInv' /\ Only(Q)' /\ wq'[Barr] = Unlink(wq[Barr], t)
    BY <1>1, <1>2, <1>9, KillKeeps DEF KillIn
  <2> QED BY <1>5, <1>9, <2>1 DEF KillIn
<1>10. ASSUME EventStep, ~ObjectStep, UNCHANGED barrierVars PROVE BarrierInUse'
  BY <1>1, <1>6, <1>10, EventKeeps
<1> QED BY <1>3, <1>7, <1>8, <1>9, <1>10 DEF Next

-----------------------------------------------------------------------------
(* The pool of blocks.                                                     *)

LEMMA FreeBlocksFinite ==
  ASSUME PoolBlocks
  PROVE  IsFiniteSet(free_blocks) /\ Cardinality(free_blocks) \in Nat
<1>1. 1 \in Int /\ cut \in Int
  BY PoolAssumption DEF PoolBlocks
<1>2. IsFiniteSet(1 .. cut)
  BY <1>1, FS_Interval
<1>3. IsFiniteSet(free_blocks)
  BY <1>2, FS_Subset DEF PoolBlocks
<1> QED BY <1>3, FS_CardinalityType

(* A block moves from the list, or from the rest of the memory, into the   *)
(* frame of a call.                                                        *)
LEMMA TakeBlockKeeps ==
  ASSUME PoolBlocks, NEW t \in Thread, ptr[t] = 0, HasBlock, TakeBlock(t)
  PROVE  PoolBlocks' /\ \A u \in Thread \ {t} : ptr'[u] = ptr[u]
<1>1. /\ BlkNum \in Nat /\ cut \in Nat /\ cut <= BlkNum
      /\ free_blocks \in SUBSET (1 .. cut) /\ ptr \in [Thread -> 0 .. cut]
      /\ allocated \in [Thread -> SUBSET (1 .. cut)]
      /\ free_blocks_num = Cardinality(free_blocks) + BlkNum - cut
  BY PoolAssumption DEF PoolBlocks
<1>2. IsFiniteSet(free_blocks) /\ Cardinality(free_blocks) \in Nat
  BY FreeBlocksFinite
<1>3. allocated' = allocated /\ free_blocks_num' = free_blocks_num - 1
  BY DEF TakeBlock
<1>4. CASE free_blocks # {}
  <2>1. PICK b \in free_blocks : /\ free_blocks' = free_blocks \ {b}
                                 /\ ptr' = [ptr EXCEPT ![t] = b]
                                 /\ cut' = cut
    BY <1>4 DEF TakeBlock
  <2>2. b \in 1 .. cut /\ b # 0
    BY <1>1
  <2>3. Cardinality(free_blocks') = Cardinality(free_blocks) - 1
    BY <1>2, <2>1, FS_RemoveElement
  <2>4. ptr' \in [Thread -> 0 .. cut] /\ ptr'[t] = b
        /\ \A u \in Thread \ {t} : ptr'[u] = ptr[u]
    BY <1>1, <2>1, <2>2
  <2>5. free_blocks_num' = Cardinality(free_blocks') + BlkNum - cut
    BY <1>1, <1>2, <1>3, <2>3
  <2>6. PoolPlaces'
    BY <1>3, <2>1, <2>2, <2>4 DEF PoolBlocks, PoolPlaces
  <2> QED BY <1>1, <1>3, <2>1, <2>4, <2>5, <2>6 DEF PoolBlocks
<1>5. CASE free_blocks = {}
  <2>1. /\ cut' = cut + 1 /\ ptr' = [ptr EXCEPT ![t] = cut + 1]
        /\ free_blocks' = free_blocks
    BY <1>5 DEF TakeBlock
  <2>2. cut < BlkNum
    BY <1>1, <1>5 DEF HasBlock
  <2>3. /\ ptr' \in [Thread -> 0 .. cut'] /\ ptr'[t] = cut + 1
        /\ \A u \in Thread \ {t} : ptr'[u] = ptr[u] /\ ptr[u] # cut + 1
        /\ \A u \in Thread : cut + 1 \notin allocated[u]
    BY <1>1, <2>1
  <2>4. /\ cut' \in 0 .. BlkNum
        /\ free_blocks' \in SUBSET (1 .. cut')
        /\ allocated' \in [Thread -> SUBSET (1 .. cut')]
    BY <1>1, <1>3, <1>5, <2>1, <2>2
  <2>5. free_blocks_num' = Cardinality(free_blocks') + BlkNum - cut'
    BY <1>1, <1>2, <1>3, <2>1
  <2>6. PoolPlaces'
    <3>1. \A b \in 1 .. cut' : b \in 1 .. cut \/ b = cut + 1
      BY <1>1, <2>1
    <3> QED BY <1>1, <1>3, <1>5, <2>1, <2>3, <3>1 DEF PoolBlocks, PoolPlaces
  <2> QED BY <2>3, <2>4, <2>5, <2>6 DEF PoolBlocks
<1> QED BY <1>4, <1>5

(* A block that was released moves from its thread to the list, or into    *)
(* the frame of a waiting call.                                            *)
LEMMA FreeBlockKeeps ==
  ASSUME PoolBlocks, NEW t \in Thread, NEW b \in allocated[t],
         allocated' = [allocated EXCEPT ![t] = @ \ {b}],
         free_blocks' = free_blocks \cup {b},
         free_blocks_num' = free_blocks_num + 1,
         ptr' = ptr, cut' = cut
  PROVE  PoolBlocks'
<1>1. /\ BlkNum \in Nat /\ cut \in Nat
      /\ free_blocks \in SUBSET (1 .. cut)
      /\ allocated \in [Thread -> SUBSET (1 .. cut)]
      /\ free_blocks_num = Cardinality(free_blocks) + BlkNum - cut
      /\ b \notin free_blocks /\ b \in 1 .. cut
  BY PoolAssumption DEF PoolBlocks, PoolPlaces
<1>2. IsFiniteSet(free_blocks) /\ Cardinality(free_blocks) \in Nat
  BY FreeBlocksFinite
<1>3. Cardinality(free_blocks') = Cardinality(free_blocks) + 1
  BY <1>1, <1>2, FS_AddElement
<1>4. /\ allocated' \in [Thread -> SUBSET (1 .. cut)]
      /\ allocated'[t] = allocated[t] \ {b}
      /\ \A u \in Thread \ {t} : allocated'[u] = allocated[u]
  BY <1>1
<1>5. free_blocks_num' = Cardinality(free_blocks') + BlkNum - cut
  BY <1>1, <1>2, <1>3
<1>6. PoolPlaces'
  BY <1>4 DEF PoolBlocks, PoolPlaces
<1> QED BY <1>1, <1>4, <1>5, <1>6 DEF PoolBlocks

LEMMA PassBlockKeeps ==
  ASSUME PoolBlocks, NEW t \in Thread, NEW b \in allocated[t],
         NEW w \in Thread, ptr[w] = 0,
         allocated' = [allocated EXCEPT ![t] = @ \ {b}],
         ptr' = [ptr EXCEPT ![w] = b],
         UNCHANGED << free_blocks, free_blocks_num, cut >>
  PROVE  PoolBlocks' /\ \A u \in Thread \ {w} : ptr'[u] = ptr[u]
<1>1. b \in 1 .. cut /\ b # 0 /\ b \notin free_blocks
  BY DEF PoolBlocks, PoolPlaces
<1>2. /\ allocated' \in [Thread -> SUBSET (1 .. cut)]
      /\ allocated'[t] = allocated[t] \ {b}
      /\ \A u \in Thread \ {t} : allocated'[u] = allocated[u]
      /\ ptr' \in [Thread -> 0 .. cut] /\ ptr'[w] = b
      /\ \A u \in Thread \ {w} : ptr'[u] = ptr[u]
  BY <1>1 DEF PoolBlocks
<1>3. PoolPlaces'
  BY <1>1, <1>2 DEF PoolBlocks, PoolPlaces
<1> QED BY <1>2, <1>3 DEF PoolBlocks

(* A call that returns gives its block to the caller.                      *)
LEMMA PoolReturnKeeps ==
  ASSUME PoolBlocks, NEW t \in Thread, PoolReturn(t), ptr[t] # 0 => result[t] = "OK"
  PROVE  PoolBlocks' /\ ptr'[t] = 0 /\ \A u \in Thread \ {t} : ptr'[u] = ptr[u]
<1>1. /\ ptr' \in [Thread -> 0 .. cut] /\ ptr'[t] = 0
      /\ \A u \in Thread \ {t} : ptr'[u] = ptr[u]
      /\ UNCHANGED << cut, free_blocks, free_blocks_num >>
  BY PoolAssumption DEF PoolBlocks, PoolReturn
<1>2. /\ allocated' \in [Thread -> SUBSET (1 .. cut)]
      /\ allocated'[t] = allocated[t] \cup ({ptr[t]} \ {0})
      /\ \A u \in Thread \ {t} : allocated'[u] = allocated[u]
  <2>1. CASE ptr[t] = 0
    <3>1. allocated' = allocated
      BY <2>1 DEF PoolReturn
    <3> QED BY <2>1, <3>1 DEF PoolBlocks
  <2>2. CASE ptr[t] # 0
    <3>1. allocated' = [allocated EXCEPT ![t] = @ \cup {ptr[t]}]
      BY <2>2 DEF PoolReturn
    <3>2. ptr[t] \in 1 .. cut
      BY <2>2 DEF PoolBlocks
    <3> QED BY <2>2, <3>1, <3>2 DEF PoolBlocks
  <2> QED BY <2>1, <2>2
<1>3. PoolPlaces'
  BY <1>1, <1>2 DEF PoolBlocks, PoolPlaces
<1> QED BY <1>1, <1>2, <1>3 DEF PoolBlocks

LEMMA PoolStepKeeps ==
  ASSUME WaitInv, Only({Pool}), PoolInv, PoolStep
  PROVE  WaitInv' /\ Only({Pool})' /\ SameEnds /\ PoolInv'
<1> DEFINE Kept == WaitInv' /\ Only({Pool})' /\ SameEnds /\ PoolInv'
<1>1. /\ Pool \in WaitQueue
      /\ wq \in [WaitQueue -> Seq(Thread)]
      /\ PoolBlocks /\ PoolFrames /\ PoolNoIdle
  BY PoolAssumption DEF WaitInv, WaitTypeOK, PoolInv
<1>2. \A t \in Thread : pc[t] \in {"armed", "running"} => ptr[t] = 0
  BY <1>1 DEF PoolFrames
<1>3. ASSUME UNCHANGED poolVars PROVE PoolBlocks' /\ (HasBlock' <=> HasBlock)
  BY <1>1, <1>3 DEF poolVars, PoolBlocks, PoolPlaces, HasBlock
<1>4. ASSUME NEW t \in Thread, NEW c, PoolAlloc(t, c) PROVE Kept
  <2>1. /\ WaitInv' /\ Only({Pool})' /\ SameEnds /\ UNCHANGED << wq, status, result >>
        /\ pc[t] = "running" /\ \A u \in Thread \ {t} : pc'[u] = pc[u]
        /\ UNCHANGED poolVars
    BY <1>1, <1>4, CallKeeps DEF PoolAlloc
  <2>2. PoolFrames'
    BY <1>1, <1>2, <2>1 DEF PoolFrames, poolVars
  <2>3. PoolNoIdle'
    BY <1>1, <1>3, <2>1 DEF PoolNoIdle
  <2> QED BY <1>3, <2>1, <2>2, <2>3 DEF PoolInv
<1>5. ASSUME NEW t \in Thread, pc[t] \in {"armed", "running"}, HasBlock, TakeBlock(t),
             WaitInv', Only({Pool})', SameEnds, pc'[t] = "returning",
             result'[t] = "OK", UNCHANGED << wq, status >>,
             \A u \in Thread \ {t} : pc'[u] = pc[u] /\ result'[u] = result[u]
      PROVE  Kept
  <2>1. PoolBlocks' /\ \A u \in Thread \ {t} : ptr'[u] = ptr[u]
    BY <1>1, <1>2, <1>5, TakeBlockKeeps
  <2>2. PoolFrames'
    BY <1>1, <1>5, <2>1 DEF PoolFrames
  <2>3. PoolNoIdle'
    BY <1>1, <1>5 DEF PoolNoIdle
  <2> QED BY <1>5, <2>1, <2>2, <2>3 DEF PoolInv
<1>6. ASSUME NEW t \in Thread, PoolTestAndWait(t) PROVE Kept
  <2>1. CASE HasBlock
    <3>1. Enters(t, Pool) /\ TakeBlock(t) /\ Proceed(t) /\ UNCHANGED prio
      BY <1>6, <2>1 DEF PoolTestAndWait
    <3> QED BY <1>1, <1>5, <2>1, <3>1, ProceedKeeps
  <2>2. CASE ~HasBlock
    <3>1. Enters(t, Pool) /\ Block(t) /\ UNCHANGED poolVars
      BY <1>6, <2>2 DEF PoolTestAndWait
    <3>2. /\ WaitInv' /\ Only({Pool})' /\ SameEnds /\ pc[t] = "armed"
          /\ \A u \in Thread \ {t} : /\ pc'[u] = pc[u] /\ result'[u] = result[u]
                                     /\ status'[u] = status[u]
      BY <1>1, <3>1, BlockKeeps
    <3>3. PoolFrames'
      BY <1>1, <1>2, <3>1, <3>2 DEF PoolFrames, poolVars
    <3>4. PoolNoIdle'
      BY <1>3, <2>2, <3>1 DEF PoolNoIdle
    <3> QED BY <1>3, <3>1, <3>2, <3>3, <3>4 DEF PoolInv
  <2> QED BY <2>1, <2>2
<1>7. ASSUME NEW t \in Thread, PoolTry(t) PROVE Kept
  <2>1. CASE HasBlock
    <3>1. TryCall(t) /\ TakeBlock(t) /\ TryDone(t, "OK") /\ UNCHANGED prio
      BY <1>7, <2>1 DEF PoolTry
    <3>2. /\ WaitInv' /\ Only({Pool})' /\ SameEnds /\ pc[t] = "running"
          /\ pc'[t] = "returning" /\ result'[t] = "OK" /\ UNCHANGED << wq, status >>
          /\ \A u \in Thread \ {t} : pc'[u] = pc[u] /\ result'[u] = result[u]
      BY <3>1, TryKeeps
    <3> QED BY <1>5, <2>1, <3>1, <3>2
  <2>2. CASE ~HasBlock
    <3>1. /\ TryCall(t) /\ TryDone(t, "WAIT_TIMEOUT") /\ UNCHANGED prio
          /\ UNCHANGED poolVars
      BY <1>7, <2>2 DEF PoolTry
    <3>2. /\ WaitInv' /\ Only({Pool})' /\ SameEnds /\ pc[t] = "running"
          /\ \A u \in Thread \ {t} : pc'[u] = pc[u] /\ result'[u] = result[u]
          /\ UNCHANGED << wq, status >>
      BY <3>1, TryKeeps
    <3>3. PoolFrames'
      BY <1>1, <1>2, <3>1, <3>2 DEF PoolFrames, poolVars
    <3>4. PoolNoIdle'
      BY <1>3, <2>2, <3>1 DEF PoolNoIdle
    <3> QED BY <1>3, <3>1, <3>2, <3>3, <3>4 DEF PoolInv
  <2> QED BY <2>1, <2>2
<1>8. ASSUME NEW t \in Thread, NEW b, NEW policy, PoolRelease(t, b, policy) PROVE Kept
  <2>1. /\ b \in allocated[t] /\ allocated' = [allocated EXCEPT ![t] = @ \ {b}]
        /\ cut' = cut
    BY <1>8 DEF PoolRelease
  <2>2. CASE wq[Pool] # << >>
    <3> DEFINE w == WaitBlockGet(Pool, policy)
    <3>1. /\ ptr' = [ptr EXCEPT ![w] = b]
          /\ NotifyOne(Pool, w, "SATISFIED")
          /\ UNCHANGED << prio, free_blocks, free_blocks_num >>
      BY <1>8, <2>2 DEF PoolRelease
    <3>2. w \in Waiters(Pool)
      BY <1>1, <2>2, SelectedIsWaiter DEF WaitInv
    <3> HIDE DEF w
    <3>3. /\ WaitInv' /\ Only({Pool})' /\ SameEnds
          /\ w \in Thread /\ pc[w] = "blocked" /\ status[w] = "IN_PROGRESS"
          /\ status'[w] = "SATISFIED"
          /\ \A u \in Thread \ {w} : status'[u] = status[u]
          /\ UNCHANGED << pc, result >>
      BY <1>1, <3>1, <3>2, NotifyOneKeeps
    <3>4. ptr[w] = 0
      BY <1>1, <3>3 DEF PoolFrames
    <3>5. PoolBlocks' /\ \A u \in Thread \ {w} : ptr'[u] = ptr[u]
      BY <1>1, <2>1, <3>1, <3>3, <3>4, PassBlockKeeps
    <3>6. PoolFrames'
      BY <1>1, <3>3, <3>5 DEF PoolFrames
    <3>7. PoolNoIdle'
      BY <1>1, <2>1, <2>2, <3>1 DEF PoolNoIdle, HasBlock
    <3> QED BY <3>3, <3>5, <3>6, <3>7 DEF PoolInv
  <2>3. CASE wq[Pool] = << >>
    <3>1. /\ free_blocks' = free_blocks \cup {b}
          /\ free_blocks_num' = free_blocks_num + 1
          /\ UNCHANGED << waitVars, ptr >>
      BY <1>8, <2>3 DEF PoolRelease
    <3>2. PoolBlocks'
      BY <1>1, <2>1, <3>1, FreeBlockKeeps
    <3>3. WaitInv' /\ Only({Pool})' /\ SameEnds /\ PoolFrames' /\ PoolNoIdle'
      BY <1>1, <2>3, <3>1, WaitUnchanged
      DEF waitVars, Only, SameEnds, PoolFrames, PoolNoIdle
    <3> QED BY <3>2, <3>3 DEF PoolInv
  <2> QED BY <2>2, <2>3
<1>9. ASSUME PoolDeinit PROVE Kept
  <2>1. /\ NotifyAll(Pool, "DELETED") /\ UNCHANGED prio
        /\ UNCHANGED << cut, free_blocks, free_blocks_num, ptr, allocated >>
    BY <1>9 DEF PoolDeinit
  <2>2. /\ WaitInv' /\ Only({Pool})' /\ SameEnds /\ wq'[Pool] = << >>
        /\ \A u \in Thread : \/ status'[u] = status[u]
                             \/ pc[u] = "blocked" /\ status[u] = "IN_PROGRESS"
        /\ UNCHANGED << pc, result >>
    BY <1>1, <2>1, NotifyAllKeeps
  <2>3. PoolBlocks'
    BY <1>1, <2>1 DEF PoolBlocks, PoolPlaces
  <2>4. PoolFrames' /\ PoolNoIdle'
    BY <1>1, <2>1, <2>2 DEF PoolFrames, PoolNoIdle
  <2> QED BY <2>2, <2>3, <2>4 DEF PoolInv
<1> QED BY <1>4, <1>6, <1>7, <1>8, <1>9 DEF PoolStep

LEMMA PoolInUseInvariant == PoolInUse /\ Next => PoolInUse'
<1> SUFFICES ASSUME PoolInUse, Next PROVE PoolInUse'
  OBVIOUS
<1> DEFINE Q == {Pool}
<1>1. /\ WaitInv /\ Only(Q) /\ PoolInv /\ Pool \in WaitQueue
      /\ RwlockIdle /\ BarrierIdle /\ EvfIdle /\ EvIdle /\ ThreadsIdle
      /\ RdWtbl \notin Q /\ WrWtbl \notin Q /\ Barr \notin Q
      /\ Evf \notin Q /\ Ev \notin Q /\ Q \cap ThreadQueues = {}
  BY QueuesDiffer DEF PoolInUse
<1> HIDE DEF Q
<1>2. /\ RwlockIdle' /\ BarrierIdle' /\ EvfIdle' /\ EvIdle'
      /\ (ObjectStep => SameEnds) => ThreadsIdle'
      /\ ObjectStep => PoolStep
      /\ \A t \in Thread : t \notin Waiters(Completion(t))
  BY <1>1, RwlockStaysIdle, BarrierStaysIdle, EvfStaysIdle, EvStaysIdle,
     ThreadsStayIdle DEF ObjectStep
<1>3. CASE ObjectStep
  BY <1>1, <1>2, <1>3, PoolStepKeeps DEF PoolInUse, Q
<1>4. ASSUME ~ObjectStep, WaitInv', Only(Q)', PoolBlocks', PoolFrames',
             UNCHANGED << cut, free_blocks >>, wq[Pool] = << >> => wq'[Pool] = << >>
      PROVE  PoolInUse'
  <2>1. PoolNoIdle'
    BY <1>1, <1>4 DEF PoolInv, PoolNoIdle, HasBlock
  <2> QED BY <1>2, <1>4, <2>1 DEF PoolInv, PoolInUse, Q
<1>5. ASSUME UNCHANGED poolVars PROVE PoolBlocks' /\ UNCHANGED << cut, free_blocks, ptr >>
  BY <1>1, <1>5 DEF poolVars, PoolInv, PoolBlocks, PoolPlaces
<1>6. ASSUME NEW t \in Thread, ~ObjectStep, WakeupIn(t) PROVE PoolInUse'
  <2>1. /\ WaitInv' /\ Only(Q)' /\ pc[t] = "blocked" /\ pc'[t] = "returning"
        /\ result'[t] = "OK" <=> status[t] = "SATISFIED"
        /\ wq[Pool] = << >> => wq'[Pool] = << >>
        /\ \A u \in Thread \ {t} : /\ pc'[u] = pc[u] /\ result'[u] = result[u]
                                   /\ status'[u] = status[u]
    BY <1>1, <1>6, WakeupKeeps DEF WakeupIn
  <2>2. PoolFrames'
    BY <1>1, <1>5, <1>6, <2>1 DEF PoolInv, PoolFrames, WakeupIn
  <2> QED BY <1>4, <1>5, <1>6, <2>1, <2>2 DEF WakeupIn
<1>7. ASSUME NEW t \in Thread, ~ObjectStep, ReturnTo(t) PROVE PoolInUse'
  <2>1. /\ WaitInv' /\ Only(Q)' /\ pc[t] = "returning" /\ UNCHANGED wq
        /\ \A u \in Thread \ {t} : /\ pc'[u] = pc[u] /\ result'[u] = result[u]
                                   /\ status'[u] = status[u]
    BY <1>1, <1>7, ReturnKeeps DEF ReturnTo
  <2>2. /\ PoolReturn(t) /\ PoolBlocks /\ PoolFrames
        /\ ptr[t] # 0 => result[t] = "OK"
    BY <1>1, <1>7, <2>1 DEF ReturnTo, PoolInv, PoolFrames
  <2>3. PoolBlocks' /\ ptr'[t] = 0 /\ \A u \in Thread \ {t} : ptr'[u] = ptr[u]
    BY <2>2, PoolReturnKeeps
  <2>4. PoolFrames' /\ UNCHANGED << cut, free_blocks >>
    BY <2>1, <2>2, <2>3 DEF PoolFrames, PoolReturn
  <2> QED BY <1>4, <1>7, <2>1, <2>3, <2>4
<1>8. ASSUME NEW t \in Thread, ~ObjectStep, KillIn(t) PROVE PoolInUse'
  <2>1. /\ WaitInv' /\ Only(Q)' /\ pc'[t] = "dead"
        /\ wq[Pool] = << >> => wq'[Pool] = << >>
        /\ \A u \in Thread \ {t} :
             /\ pc'[u] = pc[u] /\ result'[u] = result[u]
             /\ status'[u] = status[u] \/ status'[u] = "SATISFIED"
    BY <1>1, <1>2, <1>8, KillKeeps DEF KillIn
  <2>2. PoolFrames'
    BY <1>1, <1>5, <1>8, <2>1 DEF PoolInv, PoolFrames, KillIn
  <2> QED BY <1>4, <1>5, <1>8, <2>1, <2>2 DEF KillIn
<1>9. ASSUME EventStep, ~ObjectStep, UNCHANGED poolVars PROVE PoolInUse'
  <2>1. WaitInv' /\ Only(Q)' /\ UNCHANGED << pc, wq, status, result >>
    BY <1>1, <1>9, EventKeeps
  <2>2. PoolFrames'
    BY <1>1, <1>5, <1>9, <2>1 DEF PoolInv, PoolFrames
  <2> QED BY <1>4, <1>5, <1>9, <2>1, <2>2
<1> QED BY <1>3, <1>6, <1>7, <1>8, <1>9 DEF Next

(* What the places of the blocks mean: every block that was cut is in      *)
(* exactly one.                                                            *)
LEMMA PlacesConserve == PoolInv => PoolConserved
<1> SUFFICES ASSUME PoolInv PROVE PoolConserved
  OBVIOUS
<1>1. PoolBlocks /\ PoolFrames /\ cut \in Nat /\ BlkNum \in Nat
  BY PoolAssumption DEF PoolInv, PoolBlocks
<1>2. ASSUME NEW b \in 1 .. BlkNum, b <= cut PROVE \E x : Places(b) = {x}
  <2>1. b \in 1 .. cut /\ b # 0
    BY <1>1, <1>2
  <2>2. CASE b \in free_blocks
    <3>1. \A t \in Thread : b \notin allocated[t] /\ ptr[t] # b
      BY <1>1, <2>2 DEF PoolBlocks, PoolPlaces
    <3>2. Places(b) = {"list"}
      BY <2>2, <3>1 DEF Places
    <3> QED BY <3>2
  <2>3. ASSUME NEW t \in Thread, b \in allocated[t] PROVE \E x : Places(b) = {x}
    <3>1. /\ b \notin free_blocks
          /\ \A u \in Thread : ptr[u] # b /\ (b \in allocated[u] => u = t)
      BY <1>1, <2>3 DEF PoolBlocks, PoolPlaces
    <3>2. Places(b) = {<< "caller", t >>}
      BY <2>3, <3>1 DEF Places
    <3> QED BY <3>2
  <2>4. ASSUME NEW t \in Thread, ptr[t] = b PROVE \E x : Places(b) = {x}
    <3>1. /\ b \notin free_blocks
          /\ \A u \in Thread : b \notin allocated[u] /\ (ptr[u] = b => u = t)
      BY <1>1, <2>1, <2>4 DEF PoolBlocks, PoolPlaces
    <3>2. Places(b) = {<< "frame", t >>}
      BY <2>4, <3>1 DEF Places
    <3> QED BY <3>2
  <2> QED BY <1>1, <2>1, <2>2, <2>3, <2>4 DEF PoolBlocks, PoolPlaces
<1>3. ASSUME NEW b \in 1 .. BlkNum, ~(b <= cut) PROVE Places(b) = {}
  <2>1. /\ b \notin free_blocks
        /\ \A t \in Thread : b \notin allocated[t] /\ ptr[t] # b
    BY <1>1, <1>3 DEF PoolBlocks
  <2> QED BY <2>1 DEF Places
<1>4. ASSUME NEW b \in 1 .. BlkNum
      PROVE  Cardinality(Places(b)) = IF b <= cut THEN 1 ELSE 0
  <2>1. CASE b <= cut
    <3>1. PICK x : Places(b) = {x}
      BY <1>2, <2>1
    <3>2. Cardinality({x}) = 1
      BY FS_Singleton
    <3> QED BY <2>1, <3>1, <3>2
  <2>2. CASE ~(b <= cut)
    <3>1. Places(b) = {}
      BY <1>3, <2>2
    <3> QED BY <2>2, <3>1, FS_EmptySet
  <2> QED BY <2>1, <2>2
<1> QED BY <1>1, <1>4 DEF PoolConserved, PoolBlocks, PoolFrames

-----------------------------------------------------------------------------
(* The event flags.                                                        *)

(* Flags that satisfy a request are not none, and more flags satisfy it.   *)
LEMMA RequestProperties ==
  ASSUME NEW r \in Request
  PROVE  /\ r # NoRequest
         /\ Consumed(r) \in SUBSET Flag
         /\ \A f : Satisfied(r, f) => f # {}
         /\ \A f, g : Satisfied(r, f) /\ f \subseteq g => Satisfied(r, g)
<1>1. r.flags \in SUBSET Flag /\ r.flags # {} /\ r # NoRequest
  BY EvFlagsAssumption
<1> QED BY <1>1 DEF Satisfied, Consumed

(* The waiters in S are notified.                                          *)
LEMMA ReleaseKeeps ==
  ASSUME WaitInv, Only({Evf}), NEW S \in SUBSET Waiters(Evf), NEW now,
         ReleaseWaiters(S, now)
  PROVE  /\ WaitInv' /\ Only({Evf})' /\ SameEnds
         /\ \A u \in S : pc[u] = "blocked" /\ status[u] = "IN_PROGRESS"
<1>1. Evf \in WaitQueue
  BY EvFlagsAssumption
<1>2. \A u \in S :
        /\ u \in Thread /\ Linked(wq[Evf], u)
        /\ pc[u] = "blocked" /\ object[u] = Evf /\ status[u] = "IN_PROGRESS"
        /\ state[u] # "COMPLETED"
  BY <1>1 DEF Waiters, WaitInv, LinksConsistent
<1>3. /\ wq' = [wq EXCEPT ![Evf] = UnlinkAll(@, S)]
      /\ status' = [u \in Thread |-> IF u \in S THEN "SATISFIED" ELSE status[u]]
      /\ state' = [u \in Thread |-> IF u \in S THEN "READY" ELSE state[u]]
      /\ UNCHANGED << pc, prio, result, object, cancel, cancel_status, signaled,
                      timer >>
  BY DEF ReleaseWaiters, restVars
<1>4. /\ wq' \in [WaitQueue -> Seq(Thread)]
      /\ \A r \in WaitQueue : IsInjective(wq'[r])
      /\ \A r \in WaitQueue, u \in Thread :
           Linked(wq'[r], u) <=> Linked(wq[r], u) /\ ~(r = Evf /\ u \in S)
  <2>1. /\ UnlinkAll(wq[Evf], S) \in Seq(Thread)
        /\ IsInjective(UnlinkAll(wq[Evf], S))
        /\ \A u \in Thread :
             Linked(UnlinkAll(wq[Evf], S), u) <=> Linked(wq[Evf], u) /\ u \notin S
    BY <1>1, UnlinkAllProperties DEF WaitInv, WaitTypeOK, LinksConsistent
  <2> QED BY <1>1, <1>3, <2>1 DEF WaitInv, WaitTypeOK, LinksConsistent
<1>5. WaitTypeOK'
  <2>1. status' \in [Thread -> BlockStatus] /\ state' \in [Thread -> ThreadState]
    BY <1>3 DEF WaitInv, WaitTypeOK, BlockStatus, ThreadState
  <2> QED BY <1>3, <1>4, <2>1 DEF WaitInv, WaitTypeOK
<1>6. LinksConsistent'
  BY <1>2, <1>3, <1>4 DEF WaitInv, WaitTypeOK, LinksConsistent
<1>7. SleeperCanWake' /\ WokenForReason'
  BY <1>2, <1>3 DEF WaitInv, WaitTypeOK, SleeperCanWake, WokenForReason
<1>8. TimerBelongsToWait'
  BY <1>2, <1>3 DEF WaitInv, WaitTypeOK, TimerBelongsToWait
<1>9. Only({Evf})' /\ SameEnds
  BY <1>3 DEF Only, SameEnds
<1> QED BY <1>2, <1>5, <1>6, <1>7, <1>8, <1>9 DEF WaitInv

(* Nothing happens to the call of a thread; flags may be cleared.          *)
LEMMA EvfFrameStays ==
  ASSUME EvfInv, NEW u \in Thread, flags' \subseteq flags,
         attr'[u] = attr[u], prev'[u] = prev[u], pc'[u] = pc[u],
         pc[u] = "blocked" => status'[u] = status[u],
         pc[u] = "returning" => result'[u] = result[u]
  PROVE  EvfFrame(u)'
<1>1. EvfFrame(u)
  BY DEF EvfInv
<1>2. pc[u] = "blocked" => attr[u] \in Request
  BY <1>1 DEF EvfFrame
<1>3. pc[u] = "blocked" /\ ~Satisfied(attr[u], flags) => ~Satisfied(attr[u], flags')
  BY <1>2, RequestProperties
<1>4. Satisfied(attr[u], flags)' <=> Satisfied(attr[u], flags')
  BY DEF Satisfied
<1>5. Satisfied(attr[u], prev[u])' <=> Satisfied(attr[u], prev[u])
  BY DEF Satisfied
<1> QED BY <1>1, <1>3, <1>4, <1>5 DEF EvfFrame

(* A call that finds its flags.                                            *)
LEMMA TakeKeeps ==
  ASSUME EvfInv, NEW t \in Thread, NEW r \in Request, Satisfied(r, flags),
         Take(t, r), attr' \in [Thread -> Request \cup {NoRequest}], attr'[t] = r,
         pc'[t] = "returning", result'[t] = "OK",
         \A u \in Thread \ {t} : /\ pc'[u] = pc[u] /\ attr'[u] = attr[u]
                                 /\ result'[u] = result[u],
         UNCHANGED status
  PROVE  EvfInv'
<1>1. /\ prev' = [prev EXCEPT ![t] = flags]
      /\ flags' = flags \ Consumed(r)
  BY DEF Take
<1>2. /\ prev' \in [Thread -> SUBSET Flag] /\ flags' \in SUBSET Flag
      /\ prev'[t] = flags /\ \A u \in Thread \ {t} : prev'[u] = prev[u]
      /\ flags' \subseteq flags
  BY <1>1 DEF EvfInv
<1>3. flags # {} /\ r # NoRequest
  BY RequestProperties
<1>4. Satisfied(attr[t], prev[t])' <=> Satisfied(r, flags)
  BY <1>2 DEF Satisfied
<1>5. EvfFrame(t)'
  BY <1>2, <1>3, <1>4 DEF EvfFrame
<1>6. ASSUME NEW u \in Thread, u # t PROVE EvfFrame(u)'
  BY <1>2, <1>6, EvfFrameStays
<1> QED BY <1>2, <1>5, <1>6 DEF EvfInv

LEMMA SetFlagsKeeps ==
  ASSUME WaitInv, Only({Evf}), EvfInv, NEW f \in SUBSET Flag, SetFlags(f)
  PROVE  WaitInv' /\ Only({Evf})' /\ SameEnds /\ EvfInv'
<1> DEFINE now == flags \cup f
           S == {t \in Waiters(Evf) : Satisfied(attr[t], now)}
<1>1. ReleaseWaiters(S, now) /\ S \in SUBSET Waiters(Evf)
  BY DEF SetFlags
<1>2. \A u \in Waiters(Evf) : u \notin S => ~Satisfied(attr[u], now)
  OBVIOUS
<1>3. \A u \in S : Satisfied(attr[u], now)
  OBVIOUS
<1>4. now \in SUBSET Flag
  BY DEF EvfInv
<1> HIDE DEF S, now
<1>5. /\ WaitInv' /\ Only({Evf})' /\ SameEnds
      /\ \A u \in S : pc[u] = "blocked" /\ status[u] = "IN_PROGRESS"
  BY <1>1, ReleaseKeeps
<1>6. /\ flags' = now \ UNION {Consumed(attr[t]) : t \in S}
      /\ prev' = [t \in Thread |-> IF t \in S THEN now ELSE prev[t]]
      /\ status' = [t \in Thread |-> IF t \in S THEN "SATISFIED" ELSE status[t]]
      /\ UNCHANGED << pc, result, attr >>
  BY <1>1 DEF ReleaseWaiters
<1>7. /\ flags' \in SUBSET Flag /\ flags' \subseteq now
      /\ prev' \in [Thread -> SUBSET Flag]
  BY <1>4, <1>6 DEF EvfInv
<1>8. ASSUME NEW u \in Thread PROVE EvfFrame(u)'
  <2>1. EvfFrame(u)
    BY DEF EvfInv
  <2>2. /\ Satisfied(attr[u], flags)' <=> Satisfied(attr[u], flags')
        /\ Satisfied(attr[u], prev[u])' <=> Satisfied(attr[u], prev'[u])
    BY <1>6 DEF Satisfied
  <2>3. CASE u \in S
    <3>1. /\ pc[u] = "blocked" /\ attr[u] \in Request
          /\ prev'[u] = now /\ status'[u] = "SATISFIED"
      BY <1>5, <1>6, <2>1, <2>3 DEF EvfFrame
    <3>2. Satisfied(attr[u], now) /\ now # {}
      BY <1>3, <2>3, <3>1, RequestProperties
    <3> QED BY <1>6, <2>2, <3>1, <3>2 DEF EvfFrame
  <2>4. CASE u \notin S
    <3>1. prev'[u] = prev[u] /\ status'[u] = status[u]
      BY <1>6, <2>4
    <3>2. ASSUME pc[u] = "blocked", status[u] = "IN_PROGRESS"
          PROVE  ~Satisfied(attr[u], flags')
      <4>1. object[u] = Evf
        BY <3>2, WaitAssumption DEF Only, WaitInv, WaitTypeOK
      <4>2. u \in Waiters(Evf)
        BY <3>2, <4>1, EvFlagsAssumption DEF WaitInv, LinksConsistent, Waiters
      <4>3. ~Satisfied(attr[u], now) /\ attr[u] \in Request
        BY <1>2, <2>1, <2>4, <3>2, <4>2 DEF EvfFrame
      <4> QED BY <1>7, <4>3, RequestProperties
    <3> QED BY <1>6, <2>1, <2>2, <3>1, <3>2 DEF EvfFrame
  <2> QED BY <2>3, <2>4
<1> QED BY <1>5, <1>6, <1>7, <1>8 DEF EvfInv

LEMMA EvfStepKeeps ==
  ASSUME WaitInv, Only({Evf}), EvfInv, EvfStep
  PROVE  WaitInv' /\ Only({Evf})' /\ SameEnds /\ EvfInv'
<1> DEFINE Kept == WaitInv' /\ Only({Evf})' /\ SameEnds /\ EvfInv'
<1>1. /\ Evf \in WaitQueue /\ NoRequest \notin Request
      /\ attr \in [Thread -> Request \cup {NoRequest}]
      /\ prev \in [Thread -> SUBSET Flag] /\ flags \in SUBSET Flag
      /\ \A t \in Thread : EvfFrame(t)
  BY EvFlagsAssumption DEF EvfInv
<1>2. ASSUME NEW t \in Thread, NEW r \in Request, NEW c, EvfWait(t, r, c) PROVE Kept
  <2>1. /\ attr' = [attr EXCEPT ![t] = r] /\ prev' = [prev EXCEPT ![t] = {}]
        /\ flags' = flags /\ Call(t, Evf, c)
    BY <1>2 DEF EvfWait
  <2>2. /\ WaitInv' /\ Only({Evf})' /\ SameEnds
        /\ pc'[t] = "armed" /\ UNCHANGED << status, result >>
        /\ \A u \in Thread \ {t} : pc'[u] = pc[u]
    BY <1>1, <2>1, CallKeeps
  <2>3. /\ attr' \in [Thread -> Request \cup {NoRequest}] /\ attr'[t] = r
        /\ prev' \in [Thread -> SUBSET Flag] /\ prev'[t] = {}
        /\ \A u \in Thread \ {t} : attr'[u] = attr[u] /\ prev'[u] = prev[u]
    BY <1>1, <2>1
  <2>4. EvfFrame(t)'
    BY <2>2, <2>3 DEF EvfFrame
  <2>5. ASSUME NEW u \in Thread, u # t PROVE EvfFrame(u)'
    BY <2>1, <2>2, <2>3, <2>5, EvfFrameStays
  <2> QED BY <1>1, <2>1, <2>2, <2>3, <2>4, <2>5 DEF EvfInv
<1>3. ASSUME NEW t \in Thread, EvfTestAndWait(t) PROVE Kept
  <2>1. attr[t] \in Request /\ prev[t] = {} /\ attr' = attr
    BY <1>1, <1>3 DEF EvfFrame, EvfTestAndWait, Enters
  <2>2. CASE Satisfied(attr[t], flags)
    <3>1. /\ Enters(t, Evf) /\ Take(t, attr[t]) /\ Proceed(t) /\ UNCHANGED prio
      BY <1>3, <2>2 DEF EvfTestAndWait
    <3>2. /\ WaitInv' /\ Only({Evf})' /\ SameEnds
          /\ pc'[t] = "returning" /\ result'[t] = "OK" /\ UNCHANGED status
          /\ \A u \in Thread \ {t} : pc'[u] = pc[u] /\ result'[u] = result[u]
      BY <1>1, <3>1, ProceedKeeps
    <3>3. EvfInv'
      BY <1>1, <2>1, <2>2, <3>1, <3>2, TakeKeeps
    <3> QED BY <3>2, <3>3
  <2>3. CASE ~Satisfied(attr[t], flags)
    <3>1. Enters(t, Evf) /\ Block(t) /\ UNCHANGED << flags, prev >>
      BY <1>3, <2>3 DEF EvfTestAndWait
    <3>2. /\ WaitInv' /\ Only({Evf})' /\ SameEnds
          /\ \/ pc'[t] = "blocked" /\ status'[t] = "IN_PROGRESS"
             \/ pc'[t] = "returning" /\ result'[t] # "OK"
          /\ \A u \in Thread \ {t} : /\ pc'[u] = pc[u] /\ result'[u] = result[u]
                                     /\ status'[u] = status[u]
      BY <1>1, <3>1, BlockKeeps
    <3>3. EvfFrame(t)'
      <4>1. Satisfied(attr[t], flags)' <=> Satisfied(attr[t], flags)
        BY <2>1, <3>1 DEF Satisfied
      <4> QED BY <2>1, <2>3, <3>1, <3>2, <4>1 DEF EvfFrame
    <3>4. ASSUME NEW u \in Thread, u # t PROVE EvfFrame(u)'
      BY <2>1, <3>1, <3>2, <3>4, EvfFrameStays
    <3> QED BY <1>1, <2>1, <3>1, <3>2, <3>3, <3>4 DEF EvfInv
  <2> QED BY <2>2, <2>3
<1>4. ASSUME NEW t \in Thread, NEW r \in Request, EvfTry(t, r) PROVE Kept
  <2>1. /\ attr' = [attr EXCEPT ![t] = r] /\ TryCall(t) /\ UNCHANGED prio
    BY <1>4 DEF EvfTry
  <2>2. /\ attr' \in [Thread -> Request \cup {NoRequest}] /\ attr'[t] = r
        /\ \A u \in Thread \ {t} : attr'[u] = attr[u]
    BY <1>1, <2>1
  <2>3. CASE Satisfied(r, flags)
    <3>1. Take(t, r) /\ TryDone(t, "OK")
      BY <1>4, <2>3 DEF EvfTry
    <3>2. /\ WaitInv' /\ Only({Evf})' /\ SameEnds
          /\ pc'[t] = "returning" /\ result'[t] = "OK" /\ UNCHANGED status
          /\ \A u \in Thread \ {t} : pc'[u] = pc[u] /\ result'[u] = result[u]
      BY <2>1, <3>1, TryKeeps
    <3>3. EvfInv'
      BY <2>2, <2>3, <3>1, <3>2, TakeKeeps
    <3> QED BY <3>2, <3>3
  <2>4. CASE ~Satisfied(r, flags)
    <3>1. /\ TryDone(t, "WAIT_TIMEOUT") /\ prev' = [prev EXCEPT ![t] = {}]
          /\ flags' = flags
      BY <1>4, <2>4 DEF EvfTry
    <3>2. /\ WaitInv' /\ Only({Evf})' /\ SameEnds
          /\ pc'[t] = "returning" /\ result'[t] = "WAIT_TIMEOUT" /\ UNCHANGED status
          /\ \A u \in Thread \ {t} : pc'[u] = pc[u] /\ result'[u] = result[u]
      BY <2>1, <3>1, TryKeeps
    <3>3. /\ prev' \in [Thread -> SUBSET Flag] /\ prev'[t] = {}
          /\ \A u \in Thread \ {t} : prev'[u] = prev[u]
      BY <1>1, <3>1
    <3>4. EvfFrame(t)'
      BY <2>2, <3>2, <3>3 DEF EvfFrame
    <3>5. ASSUME NEW u \in Thread, u # t PROVE EvfFrame(u)'
      BY <2>2, <3>1, <3>2, <3>3, <3>5, EvfFrameStays
    <3> QED BY <1>1, <2>2, <3>1, <3>2, <3>3, <3>4, <3>5 DEF EvfInv
  <2> QED BY <2>3, <2>4
<1>5. ASSUME NEW f \in SUBSET Flag, ClearFlags(f) PROVE Kept
  <2>1. flags' = flags \ f /\ UNCHANGED << waitVars, attr, prev >>
    BY <1>5 DEF ClearFlags
  <2>2. UNCHANGED << pc, object, status, result, attr, prev >>
    BY <2>1 DEF waitVars
  <2>3. WaitInv' /\ Only({Evf})' /\ SameEnds
    BY <2>1, <2>2, WaitUnchanged DEF Only, SameEnds
  <2>4. ASSUME NEW u \in Thread PROVE EvfFrame(u)'
    BY <2>1, <2>2, EvfFrameStays
  <2> QED BY <1>1, <2>1, <2>2, <2>3, <2>4 DEF EvfInv
<1>6. ASSUME EvfDeinit PROVE Kept
  <2>1. NotifyAll(Evf, "DELETED") /\ UNCHANGED << prio, flags, attr, prev >>
    BY <1>6 DEF EvfDeinit
  <2>2. /\ WaitInv' /\ Only({Evf})' /\ SameEnds /\ UNCHANGED << pc, result >>
        /\ \A u \in Thread :
             \/ status'[u] = status[u]
             \/ /\ pc[u] = "blocked" /\ status[u] = "IN_PROGRESS"
                /\ status'[u] = "DELETED"
    BY <1>1, <2>1, NotifyAllKeeps
  <2>3. ASSUME NEW u \in Thread PROVE EvfFrame(u)'
    <3>1. CASE status'[u] = status[u]
      BY <2>1, <2>2, <3>1, EvfFrameStays
    <3>2. CASE /\ pc[u] = "blocked" /\ status[u] = "IN_PROGRESS"
               /\ status'[u] = "DELETED"
      BY <1>1, <2>1, <2>2, <3>2 DEF EvfFrame
    <3> QED BY <2>2, <3>1, <3>2
  <2> QED BY <1>1, <2>1, <2>2, <2>3 DEF EvfInv
<1>7. ASSUME NEW f \in SUBSET Flag, SetFlags(f) PROVE Kept
  BY <1>7, SetFlagsKeeps
<1> HIDE DEF Kept
<1>8. Kept
  BY <1>2, <1>3, <1>4, <1>5, <1>6, <1>7 DEF EvfStep
<1> QED BY <1>8 DEF Kept

LEMMA EvfInUseInvariant == EvfInUse /\ Next => EvfInUse'
<1> SUFFICES ASSUME EvfInUse, Next PROVE EvfInUse'
  OBVIOUS
<1> DEFINE Q == {Evf}
<1>1. /\ WaitInv /\ Only(Q) /\ EvfInv /\ Evf \in WaitQueue
      /\ RwlockIdle /\ BarrierIdle /\ PoolIdle /\ EvIdle /\ ThreadsIdle
      /\ RdWtbl \notin Q /\ WrWtbl \notin Q /\ Barr \notin Q
      /\ Pool \notin Q /\ Ev \notin Q /\ Q \cap ThreadQueues = {}
  BY QueuesDiffer DEF EvfInUse
<1> HIDE DEF Q
<1>2. /\ RwlockIdle' /\ BarrierIdle' /\ PoolIdle' /\ EvIdle'
      /\ (ObjectStep => SameEnds) => ThreadsIdle'
      /\ ObjectStep => EvfStep
      /\ \A t \in Thread : t \notin Waiters(Completion(t))
  BY <1>1, RwlockStaysIdle, BarrierStaysIdle, PoolStaysIdle, EvStaysIdle,
     ThreadsStayIdle DEF ObjectStep
<1>3. CASE ObjectStep
  BY <1>1, <1>2, <1>3, EvfStepKeeps DEF EvfInUse, Q
<1>4. /\ attr \in [Thread -> Request \cup {NoRequest}]
      /\ prev \in [Thread -> SUBSET Flag] /\ flags \in SUBSET Flag
      /\ \A t \in Thread : EvfFrame(t)
  BY <1>1 DEF EvfInv
<1>5. ASSUME ~ObjectStep, WaitInv', Only(Q)', flags' = flags,
             attr' \in [Thread -> Request \cup {NoRequest}],
             prev' \in [Thread -> SUBSET Flag], \A u \in Thread : EvfFrame(u)'
      PROVE  EvfInUse'
  BY <1>2, <1>4, <1>5 DEF EvfInv, EvfInUse, Q
<1>6. ASSUME NEW t \in Thread, ~ObjectStep, WakeupIn(t) PROVE EvfInUse'
  <2>1. UNCHANGED << flags, attr, prev >>
    BY <1>6 DEF WakeupIn, evfVars
  <2>2. /\ WaitInv' /\ Only(Q)' /\ pc[t] = "blocked" /\ pc'[t] = "returning"
        /\ result'[t] = "OK" <=> status[t] = "SATISFIED"
        /\ \A u \in Thread \ {t} : /\ pc'[u] = pc[u] /\ result'[u] = result[u]
                                   /\ status'[u] = status[u]
    BY <1>1, <1>6, WakeupKeeps DEF WakeupIn
  <2>3. EvfFrame(t)'
    <3>1. Satisfied(attr[t], prev[t])' <=> Satisfied(attr[t], prev[t])
      BY <2>1 DEF Satisfied
    <3> QED BY <1>4, <2>1, <2>2, <3>1 DEF EvfFrame
  <2>4. ASSUME NEW u \in Thread, u # t PROVE EvfFrame(u)'
    BY <1>1, <2>1, <2>2, <2>4, EvfFrameStays
  <2> QED BY <1>4, <1>5, <1>6, <2>1, <2>2, <2>3, <2>4
<1>7. ASSUME NEW t \in Thread, EvfReturn(t)
      PROVE  /\ flags' = flags /\ attr'[t] = NoRequest /\ prev'[t] = {}
             /\ attr' \in [Thread -> Request \cup {NoRequest}]
             /\ prev' \in [Thread -> SUBSET Flag]
             /\ \A u \in Thread \ {t} : attr'[u] = attr[u] /\ prev'[u] = prev[u]
  BY <1>4, <1>7 DEF EvfReturn
<1>8. ASSUME NEW t \in Thread, ~ObjectStep, ReturnTo(t) PROVE EvfInUse'
  <2>1. /\ WaitInv' /\ Only(Q)' /\ pc'[t] = "running"
        /\ \A u \in Thread \ {t} : /\ pc'[u] = pc[u] /\ result'[u] = result[u]
                                   /\ status'[u] = status[u]
    BY <1>1, <1>8, ReturnKeeps DEF ReturnTo
  <2>2. EvfReturn(t)
    BY <1>8 DEF ReturnTo
  <2>3. EvfFrame(t)'
    BY <1>7, <2>1, <2>2 DEF EvfFrame
  <2>4. ASSUME NEW u \in Thread, u # t PROVE EvfFrame(u)'
    BY <1>1, <1>7, <2>1, <2>2, <2>4, EvfFrameStays
  <2> QED BY <1>5, <1>7, <1>8, <2>1, <2>2, <2>3, <2>4
<1>9. ASSUME NEW t \in Thread, ~ObjectStep, KillIn(t) PROVE EvfInUse'
  <2>1. \A u \in Thread : object[u] # Completion(t)
    BY <1>1, NobodyThere, QueuesDiffer
  <2>2. /\ WaitInv' /\ Only(Q)' /\ pc'[t] = "dead"
        /\ \A u \in Thread \ {t} : /\ pc'[u] = pc[u] /\ result'[u] = result[u]
                                   /\ status'[u] = status[u]
    BY <1>1, <1>2, <1>9, <2>1, KillKeeps DEF KillIn
  <2>3. EvfReturn(t)
    BY <1>9 DEF KillIn
  <2>4. EvfFrame(t)'
    BY <1>7, <2>2, <2>3 DEF EvfFrame
  <2>5. ASSUME NEW u \in Thread, u # t PROVE EvfFrame(u)'
    BY <1>1, <1>7, <2>2, <2>3, <2>5, EvfFrameStays
  <2> QED BY <1>5, <1>7, <1>9, <2>2, <2>3, <2>4, <2>5
<1>10. ASSUME EventStep, ~ObjectStep, UNCHANGED evfVars PROVE EvfInUse'
  <2>1. WaitInv' /\ Only(Q)' /\ UNCHANGED << pc, wq, status, result >>
    BY <1>1, <1>10, EventKeeps
  <2>2. UNCHANGED << flags, attr, prev >>
    BY <1>10 DEF evfVars
  <2>3. ASSUME NEW u \in Thread PROVE EvfFrame(u)'
    BY <1>1, <2>1, <2>2, EvfFrameStays
  <2> QED BY <1>4, <1>5, <1>10, <2>1, <2>2, <2>3
<1> QED BY <1>3, <1>6, <1>8, <1>9, <1>10 DEF Next

(* What is said of a call's frame is what its caller is told, and nobody   *)
(* waits for flags that are set.                                           *)
LEMMA FramesAgree == WaitInv /\ EvfInv => EvfStatusAgrees /\ EvfNoIdle
<1> SUFFICES ASSUME WaitInv, EvfInv PROVE EvfStatusAgrees /\ EvfNoIdle
  OBVIOUS
<1>1. \A t \in Thread : EvfFrame(t)
  BY DEF EvfInv
<1>2. EvfStatusAgrees
  BY <1>1 DEF EvfFrame, EvfStatusAgrees
<1>3. \A t \in Waiters(Evf) : t \in Thread /\ pc[t] = "blocked" /\ status[t] = "IN_PROGRESS"
  BY EvFlagsAssumption DEF WaitInv, LinksConsistent, Waiters
<1>4. EvfNoIdle
  BY <1>1, <1>3 DEF EvfFrame, EvfNoIdle
<1> QED BY <1>2, <1>4

-----------------------------------------------------------------------------
(* The read-write lock.                                                    *)

(* A queue is as long as there are threads that wait in it.                *)
LEMMA WaitersCounted ==
  ASSUME WaitInv, NEW q \in WaitQueue
  PROVE  IsFiniteSet(Waiters(q)) /\ Cardinality(Waiters(q)) = Len(wq[q])
<1> DEFINE s == wq[q]
           N == Len(s)
<1>1. /\ s \in Seq(Thread) /\ IsInjective(s)
  BY DEF WaitInv, WaitTypeOK, LinksConsistent
<1>2. Waiters(q) = {t \in Thread : \E k \in 1 .. N : s[k] = t}
  BY DEF Waiters, Linked
<1> HIDE DEF s
<1>3. /\ N \in Nat /\ DOMAIN s = 1 .. N
      /\ \A k \in 1 .. N : s[k] \in Thread
      /\ \A j, k \in 1 .. N : s[j] = s[k] => j = k
  BY <1>1, LenProperties, ElementOfSeq DEF IsInjective
<1> HIDE DEF N
<1> DEFINE f == [k \in 1 .. N |-> s[k]]
<1>4. f \in Bijection(1 .. N, Waiters(q))
  <2>1. f \in Injection(1 .. N, Waiters(q))
    BY <1>2, <1>3 DEF Injection, IsInjective
  <2>2. f \in Surjection(1 .. N, Waiters(q))
    BY <1>2, <1>3 DEF Surjection
  <2> QED BY <2>1, <2>2 DEF Bijection
<1>5. ExistsBijection(1 .. N, Waiters(q))
  BY <1>4 DEF ExistsBijection
<1> QED BY <1>3, <1>5, FS_NatBijection, FS_CountingElements DEF N, s

(* A thread keeps what it has, and gets nothing.                           *)
LEMMA HasStays ==
  ASSUME NEW u \in Thread, NEW q, NEW how, locked'[u] = locked[u],
         \/ pc'[u] = pc[u]
         \/ pc[u] # "blocked" /\ pc'[u] # "blocked"
         \/ pc[u] # "blocked" /\ status'[u] # "SATISFIED",
         pc[u] = "blocked" =>
           /\ object'[u] = object[u]
           /\ \/ status'[u] = status[u]
              \/ status[u] # "SATISFIED" /\ status'[u] # "SATISFIED"
  PROVE  Has(u, q, how)' <=> Has(u, q, how)
BY DEF Has, Chosen

(* Nobody gets the lock or gives it back.                                  *)
LEMMA GrantsStay ==
  ASSUME RwGranted, UNCHANGED << readers, rw_owner, intruded >>,
         \A u \in Thread :
           /\ Has(u, RdWtbl, "read")' <=> Has(u, RdWtbl, "read")
           /\ Has(u, WrWtbl, "write")' <=> Has(u, WrWtbl, "write")
  PROVE  RwGranted'
<1>1. Readers' = Readers
  BY DEF Readers
<1> HIDE DEF Readers
<1> QED BY <1>1 DEF RwGranted, RwExclusion, Readers

(* The grants in the terms of the sets they are about.                     *)
LEMMA GrantsAre ==
  RwGranted <=>
    (~intruded => /\ IsFiniteSet(Readers)
                  /\ readers = Cardinality(Readers)
                  /\ \A t \in Thread : Has(t, WrWtbl, "write") <=> rw_owner = t
                  /\ rw_owner # NoWriter => readers = 0)
BY DEF RwGranted, RwExclusion, Readers

(* A thread reads that did not have the lock.                              *)
LEMMA ReadGranted ==
  ASSUME RwTypes, RwGranted, MayRead, NEW t \in Thread, ~Has(t, RdWtbl, "read"),
         locked[t] = "none", ~Chosen(t, WrWtbl),
         TakeRead(t), intruded' = intruded, pc'[t] # "blocked",
         \A u \in Thread \ {t} :
           /\ Has(u, RdWtbl, "read")' <=> Has(u, RdWtbl, "read")
           /\ Has(u, WrWtbl, "write")' <=> Has(u, WrWtbl, "write")
  PROVE  RwGranted'
<1>1. /\ rw_owner = NoWriter /\ rw_owner' = NoWriter /\ NoWriter \notin Thread
      /\ readers' = readers + 1 /\ locked'[t] = "read"
  BY RwlockAssumption DEF MayRead, TakeRead, Told, RwTypes
<1>2. Readers' = Readers \cup {t} /\ t \notin Readers
  BY <1>1 DEF Readers, Has
<1>3. ~Has(t, WrWtbl, "write") /\ ~Has(t, WrWtbl, "write")'
  BY <1>1 DEF Has, Chosen
<1> SUFFICES ASSUME ~intruded PROVE RwGranted'
  BY DEF RwGranted, RwExclusion
<1>4. /\ IsFiniteSet(Readers) /\ readers = Cardinality(Readers)
      /\ \A u \in Thread : Has(u, WrWtbl, "write") <=> rw_owner = u
  BY GrantsAre
<1>5. IsFiniteSet(Readers') /\ Cardinality(Readers') = Cardinality(Readers) + 1
  BY <1>2, <1>4, FS_AddElement
<1>6. readers' = Cardinality(Readers')
  BY <1>1, <1>4, <1>5
<1>7. ASSUME NEW u \in Thread PROVE Has(u, WrWtbl, "write")' <=> rw_owner' = u
  BY <1>1, <1>3, <1>4
<1> HIDE DEF Readers
<1>8. /\ IsFiniteSet(Readers') /\ readers' = Cardinality(Readers')
      /\ \A u \in Thread : Has(u, WrWtbl, "write")' <=> rw_owner' = u
      /\ rw_owner' = NoWriter
  BY <1>1, <1>5, <1>6, <1>7
<1> QED BY <1>8, GrantsAre DEF RwGranted, RwExclusion, Readers

(* A thread writes that did not have the lock.                             *)
LEMMA WriteGranted ==
  ASSUME RwTypes, RwGranted, MayWrite, NEW t \in Thread, ~Has(t, RdWtbl, "read"),
         TakeWrite(t), intruded' = intruded, pc'[t] # "blocked",
         \A u \in Thread \ {t} :
           /\ Has(u, RdWtbl, "read")' <=> Has(u, RdWtbl, "read")
           /\ Has(u, WrWtbl, "write")' <=> Has(u, WrWtbl, "write")
  PROVE  RwGranted'
<1>1. /\ rw_owner = NoWriter /\ rw_owner' = t /\ NoWriter \notin Thread
      /\ readers' = readers /\ readers = 0 /\ locked'[t] = "write"
  BY RwlockAssumption DEF MayWrite, TakeWrite, Told, RwTypes
<1>2. Readers' = Readers
  BY <1>1 DEF Readers, Has, Chosen
<1>3. Has(t, WrWtbl, "write")'
  BY <1>1 DEF Has
<1>4. ~intruded => \A u \in Thread : ~Has(u, WrWtbl, "write")
  BY <1>1, GrantsAre
<1>5. ~intruded => \A u \in Thread : Has(u, WrWtbl, "write")' <=> rw_owner' = u
  BY <1>1, <1>3, <1>4
<1>6. ~intruded => IsFiniteSet(Readers') /\ readers' = Cardinality(Readers')
  BY <1>1, <1>2, GrantsAre
<1> QED BY <1>1, <1>5, <1>6 DEF RwGranted, RwExclusion, Readers

(* The waiting readers are let in.                                         *)
LEMMA ReadersLetIn ==
  ASSUME WaitInv, Only(RwlockQueues), RwTypes, RwGranted, LetReadersIn,
         UNCHANGED prio
  PROVE  /\ WaitInv' /\ Only(RwlockQueues)' /\ SameEnds
         /\ UNCHANGED << pc, object, result >>
         /\ wq'[RdWtbl] = << >> /\ wq'[WrWtbl] = wq[WrWtbl]
         /\ readers' \in Nat
         /\ \A u \in Thread : Chosen(u, WrWtbl)' <=> Chosen(u, WrWtbl)
         /\ ~intruded /\ (\A u \in Thread : locked'[u] = "read" <=> locked[u] = "read")
              => IsFiniteSet(Readers') /\ readers' = Cardinality(Readers')
<1> DEFINE S == Waiters(RdWtbl)
<1>1. /\ RdWtbl \in WaitQueue /\ WrWtbl \in WaitQueue /\ RdWtbl # WrWtbl
      /\ wq \in [WaitQueue -> Seq(Thread)]
  BY RwlockAssumption DEF WaitInv, WaitTypeOK
<1>2. /\ WaitInv' /\ Only(RwlockQueues)' /\ SameEnds
      /\ wq' = [wq EXCEPT ![RdWtbl] = << >>]
      /\ \A u \in Thread :
           IF u \in S
           THEN /\ pc[u] = "blocked" /\ object[u] = RdWtbl
                /\ status[u] = "IN_PROGRESS" /\ status'[u] = "SATISFIED"
           ELSE status'[u] = status[u]
      /\ UNCHANGED << pc, object, result >>
  BY <1>1, NotifyAllKeeps DEF LetReadersIn
<1>3. IsFiniteSet(S) /\ Cardinality(S) = Len(wq[RdWtbl])
  BY <1>1, WaitersCounted
<1>4. readers' = readers + Cardinality(S) /\ readers \in Nat /\ Cardinality(S) \in Nat
  <2>1. readers' = readers + Len(wq[RdWtbl]) /\ readers \in Nat
    BY DEF LetReadersIn, RwTypes
  <2>2. Cardinality(S) \in Nat
    BY <1>3, FS_CardinalityType
  <2> QED BY <1>3, <2>1, <2>2
<1>5. S \subseteq Thread
  BY DEF Waiters
<1> HIDE DEF S
<1>6. \A u \in Thread : /\ Chosen(u, WrWtbl)' <=> Chosen(u, WrWtbl)
                        /\ Chosen(u, RdWtbl)' <=> Chosen(u, RdWtbl) \/ u \in S
                        /\ u \in S => /\ ~Chosen(u, RdWtbl)
                                      /\ locked[u] = "none"
  <2>1. ASSUME NEW u \in Thread, u \in S
        PROVE  /\ pc'[u] = "blocked" /\ object'[u] = RdWtbl
               /\ status'[u] = "SATISFIED" /\ status[u] # "SATISFIED"
               /\ object[u] # WrWtbl /\ object'[u] # WrWtbl /\ locked[u] = "none"
    BY <1>1, <1>2, <2>1 DEF RwTypes
  <2>2. ASSUME NEW u \in Thread, u \notin S
        PROVE  pc'[u] = pc[u] /\ object'[u] = object[u] /\ status'[u] = status[u]
    BY <1>2, <2>2
  <2> QED BY <2>1, <2>2 DEF Chosen
<1>7. ASSUME ~intruded, \A u \in Thread : locked'[u] = "read" <=> locked[u] = "read"
      PROVE  IsFiniteSet(Readers') /\ readers' = Cardinality(Readers')
  <2>1. Readers' = Readers \cup S
    BY <1>5, <1>6, <1>7 DEF Readers, Has
  <2>2. Readers \cap S = {}
    BY <1>5, <1>6 DEF Readers, Has
  <2> HIDE DEF Readers
  <2>3. IsFiniteSet(Readers) /\ readers = Cardinality(Readers)
    BY <1>7, GrantsAre
  <2>4. /\ IsFiniteSet(Readers \cup S)
        /\ Cardinality(Readers \cup S) =
             Cardinality(Readers) + Cardinality(S) - Cardinality(Readers \cap S)
    BY <1>3, <2>3, FS_Union
  <2>5. Cardinality(Readers \cap S) = 0
    BY <2>2, FS_EmptySet
  <2>6. Cardinality(Readers \cup S) = readers + Cardinality(S)
    BY <1>4, <2>3, <2>4, <2>5
  <2> QED BY <1>4, <2>1, <2>4, <2>6
<1>8. readers' \in Nat
  BY <1>4
<1> HIDE DEF Readers
<1> QED BY <1>1, <1>2, <1>6, <1>7, <1>8

(* A waiting writer is handed the lock.                                    *)
LEMMA HandedToWriter ==
  ASSUME WaitInv, Only(RwlockQueues), wq[WrWtbl] # << >>, NEW policy,
         HandToWriter(policy), UNCHANGED prio
  PROVE  /\ WaitInv' /\ Only(RwlockQueues)' /\ SameEnds
         /\ UNCHANGED << pc, object, result >>
         /\ \E w \in Thread :
              /\ rw_owner' = w /\ pc[w] = "blocked"
              /\ \A u \in Thread :
                   /\ Chosen(u, RdWtbl)' <=> Chosen(u, RdWtbl)
                   /\ Chosen(u, WrWtbl)' <=> Chosen(u, WrWtbl) \/ u = w
<1> DEFINE w == WaitBlockGet(WrWtbl, policy)
<1>1. RdWtbl \in WaitQueue /\ WrWtbl \in WaitQueue /\ RdWtbl # WrWtbl
  BY RwlockAssumption
<1>2. w \in Waiters(WrWtbl)
  BY <1>1, SelectedIsWaiter DEF WaitInv
<1>3. rw_owner' = w /\ NotifyOne(WrWtbl, w, "SATISFIED")
  BY DEF HandToWriter
<1> HIDE DEF w
<1>4. /\ WaitInv' /\ Only(RwlockQueues)' /\ SameEnds
      /\ w \in Thread /\ pc[w] = "blocked" /\ object[w] = WrWtbl
      /\ status[w] = "IN_PROGRESS" /\ status'[w] = "SATISFIED"
      /\ \A u \in Thread \ {w} : status'[u] = status[u]
      /\ UNCHANGED << pc, object, result >>
  BY <1>1, <1>2, <1>3, NotifyOneKeeps
<1>5. \A u \in Thread :
        /\ Chosen(u, RdWtbl)' <=> Chosen(u, RdWtbl)
        /\ Chosen(u, WrWtbl)' <=> Chosen(u, WrWtbl) \/ u = w
  BY <1>1, <1>4 DEF Chosen
<1> QED BY <1>3, <1>4, <1>5

(* The thread that unlocks has the lock as it was told, unless readers     *)
(* were let in beside a writer.                                            *)
LEMMA UnlockerHas ==
  ASSUME RwTypes, RwGranted, ~intruded, NEW t \in Thread, pc[t] = "running",
         locked[t] # "none"
  PROVE  locked[t] = IF rw_owner = t THEN "write" ELSE "read"
<1>1. ~Chosen(t, WrWtbl) /\ locked[t] \in {"none", "read", "write"}
  BY DEF Chosen, RwTypes
<1>2. Has(t, WrWtbl, "write") <=> rw_owner = t
  BY GrantsAre
<1> QED BY <1>1, <1>2 DEF Has

(* Readers that wait are none, or have a writer in their way.              *)
WriterInWay == rw_owner # NoWriter \/ wq[WrWtbl] # << >> \/ kicking # {}

LEMMA NoIdleWhenEmpty ==
  ASSUME wq'[RdWtbl] = << >>, wq'[WrWtbl] = << >>
  PROVE  RwNoIdle'
BY EmptySeq DEF RwNoIdle, Waiters, Linked

LEMMA NoIdleStays ==
  ASSUME RwNoIdle,
         wq'[WrWtbl] # << >> => rw_owner' # NoWriter \/ readers' > 0,
         WriterInWay => WriterInWay',
         \A u \in Thread : Linked(wq'[RdWtbl], u) => Linked(wq[RdWtbl], u),
         UNCHANGED stranded
  PROVE  RwNoIdle'
BY DEF RwNoIdle, Waiters, WriterInWay

LEMMA UnlockByWriterKeeps ==
  ASSUME WaitInv, Only(RwlockQueues), RwInv, NEW t \in Thread, NEW policy,
         pc[t] = "running", locked[t] # "none", UnlockByWriter(t, policy),
         Told(t, "none"), UNCHANGED << prio, kicking, intruded, stranded >>
  PROVE  WaitInv' /\ Only(RwlockQueues)' /\ SameEnds /\ RwInv'
<1>1. /\ RwTypes /\ RwNoIdle /\ RwGranted /\ rw_owner = t
      /\ t # NoWriter /\ NoWriter \notin Thread
  BY RwlockAssumption DEF RwInv, UnlockByWriter
<1>2. /\ locked' \in [Thread -> {"none", "read", "write"}]
      /\ locked'[t] = "none" /\ \A u \in Thread \ {t} : locked'[u] = locked[u]
  BY <1>1 DEF Told, RwTypes
<1>3. ~intruded => /\ locked[t] = "write"
                   /\ \A u \in Thread : locked'[u] = "read" <=> locked[u] = "read"
  BY <1>1, <1>2, UnlockerHas
<1>4. ~Chosen(t, WrWtbl) /\ ~Chosen(t, RdWtbl)
  BY DEF Chosen
<1>5. CASE wq[WrWtbl] # << >> /\ HandToWriter(policy) /\ UNCHANGED readers
  <2>1. /\ WaitInv' /\ Only(RwlockQueues)' /\ SameEnds
        /\ UNCHANGED << pc, object, result >>
    BY <1>1, <1>5, HandedToWriter
  <2>2. PICK w \in Thread :
          /\ rw_owner' = w /\ pc[w] = "blocked"
          /\ \A u \in Thread :
               /\ Chosen(u, RdWtbl)' <=> Chosen(u, RdWtbl)
               /\ Chosen(u, WrWtbl)' <=> Chosen(u, WrWtbl) \/ u = w
    BY <1>1, <1>5, HandedToWriter
  <2>3. RwTypes' /\ RwNoIdle'
    BY <1>1, <1>2, <1>5, <2>1, <2>2 DEF RwTypes, RwNoIdle
  <2>4. ASSUME ~intruded PROVE RwGranted'
    <3>1. /\ IsFiniteSet(Readers) /\ readers = Cardinality(Readers) /\ readers = 0
          /\ \A u \in Thread : Has(u, WrWtbl, "write") <=> u = t
      BY <1>1, <2>4, GrantsAre
    <3>2. Readers' = Readers
      BY <1>3, <2>2, <2>4 DEF Readers, Has
    <3>3. w # t
      BY <2>2
    <3>4. ASSUME NEW u \in Thread PROVE Has(u, WrWtbl, "write")' <=> rw_owner' = u
      <4>1. CASE u = t
        BY <1>2, <1>4, <2>2, <3>3, <4>1 DEF Has
      <4>2. CASE u # t
        BY <1>2, <2>2, <3>1, <4>2 DEF Has
      <4> QED BY <4>1, <4>2
    <3> HIDE DEF Readers
    <3>5. /\ IsFiniteSet(Readers') /\ readers' = Cardinality(Readers') /\ readers' = 0
      BY <1>5, <3>1, <3>2
    <3> QED BY <3>4, <3>5 DEF RwGranted, RwExclusion, Readers
  <2>5. intruded => RwGranted'
    BY DEF RwGranted, RwExclusion
  <2> QED BY <2>1, <2>3, <2>4, <2>5 DEF RwInv
<1>6. CASE wq[WrWtbl] = << >> /\ rw_owner' = NoWriter /\ LetReadersIn
  <2>1. /\ WaitInv' /\ Only(RwlockQueues)' /\ SameEnds
        /\ UNCHANGED << pc, object, result >>
        /\ wq'[RdWtbl] = << >> /\ wq'[WrWtbl] = wq[WrWtbl]
        /\ readers' \in Nat
        /\ \A u \in Thread : Chosen(u, WrWtbl)' <=> Chosen(u, WrWtbl)
        /\ ~intruded /\ (\A u \in Thread : locked'[u] = "read" <=> locked[u] = "read")
             => IsFiniteSet(Readers') /\ readers' = Cardinality(Readers')
    BY <1>1, <1>6, ReadersLetIn
  <2>2. RwTypes' /\ RwNoIdle'
    BY <1>1, <1>2, <1>6, <2>1, NoIdleWhenEmpty DEF RwTypes
  <2>3. ASSUME ~intruded PROVE RwGranted'
    <3>1. \A u \in Thread : Has(u, WrWtbl, "write") <=> u = t
      BY <1>1, <2>3, GrantsAre
    <3>2. \A u \in Thread : ~Has(u, WrWtbl, "write")'
      BY <1>2, <1>4, <2>1, <3>1 DEF Has
    <3> HIDE DEF Readers
    <3>3. IsFiniteSet(Readers') /\ readers' = Cardinality(Readers')
      BY <1>3, <2>1, <2>3
    <3> QED BY <1>1, <1>6, <3>2, <3>3 DEF RwGranted, RwExclusion, Readers
  <2>4. intruded => RwGranted'
    BY DEF RwGranted, RwExclusion
  <2> QED BY <2>1, <2>2, <2>3, <2>4 DEF RwInv
<1> QED BY <1>5, <1>6 DEF UnlockByWriter

LEMMA UnlockByReaderKeeps ==
  ASSUME WaitInv, Only(RwlockQueues), RwInv, NEW t \in Thread, NEW policy,
         pc[t] = "running", locked[t] # "none", UnlockByReader(t, policy),
         Told(t, "none"), UNCHANGED << prio, kicking, intruded, stranded >>
  PROVE  WaitInv' /\ Only(RwlockQueues)' /\ SameEnds /\ RwInv'
<1>1. /\ RwTypes /\ RwNoIdle /\ RwGranted /\ rw_owner # t
      /\ NoWriter \notin Thread /\ readers \in Nat
  BY RwlockAssumption DEF RwInv, UnlockByReader, RwTypes
<1>2. /\ locked' \in [Thread -> {"none", "read", "write"}]
      /\ locked'[t] = "none" /\ \A u \in Thread \ {t} : locked'[u] = locked[u]
  BY <1>1 DEF Told, RwTypes
<1>3. ~intruded => locked[t] = "read"
  BY <1>1, UnlockerHas
<1>4. ~Chosen(t, WrWtbl) /\ ~Chosen(t, RdWtbl)
  BY DEF Chosen
<1>5. ASSUME ~intruded
      PROVE  /\ IsFiniteSet(Readers) /\ readers = Cardinality(Readers) /\ t \in Readers
             /\ rw_owner = NoWriter /\ readers > 0
             /\ \A u \in Thread : ~Has(u, WrWtbl, "write")
  <2>1. /\ IsFiniteSet(Readers) /\ readers = Cardinality(Readers)
        /\ rw_owner # NoWriter => readers = 0
        /\ \A u \in Thread : Has(u, WrWtbl, "write") <=> rw_owner = u
    BY <1>1, <1>5, GrantsAre
  <2>2. t \in Readers
    BY <1>3, <1>5 DEF Readers, Has
  <2> HIDE DEF Readers
  <2>3. Cardinality(Readers \ {t}) = Cardinality(Readers) - 1
        /\ Cardinality(Readers \ {t}) \in Nat
    BY <2>1, <2>2, FS_RemoveElement, FS_CardinalityType
  <2>4. readers > 0
    BY <1>1, <2>1, <2>3
  <2> QED BY <1>1, <2>1, <2>2, <2>4
<1>6. ASSUME ~intruded, \A u \in Thread : Chosen(u, RdWtbl)' <=> Chosen(u, RdWtbl),
             readers' = readers - 1
      PROVE  IsFiniteSet(Readers') /\ readers' = Cardinality(Readers')
  <2>1. Readers' = Readers \ {t}
    BY <1>2, <1>4, <1>6 DEF Readers, Has
  <2> HIDE DEF Readers
  <2> QED BY <1>5, <1>6, <2>1, FS_RemoveElement
<1>7. intruded => RwGranted'
  BY DEF RwGranted, RwExclusion
<1>8. CASE /\ rw_owner = NoWriter /\ readers > 0 /\ readers' = readers - 1
           /\ readers' = 0 /\ wq[WrWtbl] # << >> /\ HandToWriter(policy)
  <2>1. /\ WaitInv' /\ Only(RwlockQueues)' /\ SameEnds
        /\ UNCHANGED << pc, object, result >>
    BY <1>1, <1>8, HandedToWriter
  <2>2. PICK w \in Thread :
          /\ rw_owner' = w /\ pc[w] = "blocked"
          /\ \A u \in Thread :
               /\ Chosen(u, RdWtbl)' <=> Chosen(u, RdWtbl)
               /\ Chosen(u, WrWtbl)' <=> Chosen(u, WrWtbl) \/ u = w
    BY <1>1, <1>8, HandedToWriter
  <2>3. RwTypes' /\ RwNoIdle'
    BY <1>1, <1>2, <1>8, <2>1, <2>2 DEF RwTypes, RwNoIdle
  <2>4. ASSUME ~intruded PROVE RwGranted'
    <3>1. IsFiniteSet(Readers') /\ readers' = Cardinality(Readers')
      BY <1>6, <1>8, <2>2, <2>4
    <3>2. w # t
      BY <2>2
    <3>3. ASSUME NEW u \in Thread PROVE Has(u, WrWtbl, "write")' <=> rw_owner' = u
      <4>1. CASE u = t
        BY <1>2, <1>4, <2>2, <3>2, <4>1 DEF Has
      <4>2. CASE u # t
        BY <1>2, <1>5, <2>2, <2>4, <4>2 DEF Has
      <4> QED BY <4>1, <4>2
    <3> HIDE DEF Readers
    <3> QED BY <1>8, <3>1, <3>3 DEF RwGranted, RwExclusion, Readers
  <2> QED BY <1>7, <2>1, <2>3, <2>4 DEF RwInv
<1>9. ASSUME NotifyNone, rw_owner' = rw_owner
      PROVE  /\ WaitInv' /\ Only(RwlockQueues)' /\ SameEnds /\ UNCHANGED << pc, wq >>
             /\ readers' \in Nat => RwTypes'
             /\ \A u \in Thread : /\ Chosen(u, RdWtbl)' <=> Chosen(u, RdWtbl)
                                  /\ Chosen(u, WrWtbl)' <=> Chosen(u, WrWtbl)
  <2>1. UNCHANGED waitVars
    BY <1>9 DEF NotifyNone, waitVars, restVars
  <2>2. UNCHANGED << pc, wq, object, status >>
    BY <2>1 DEF waitVars
  <2> QED BY <1>1, <1>2, <1>9, <2>1, <2>2, WaitUnchanged
          DEF Only, SameEnds, RwTypes, Chosen
<1>10. CASE /\ rw_owner = NoWriter /\ readers > 0 /\ readers' = readers - 1
            /\ ~(readers' = 0 /\ wq[WrWtbl] # << >>)
            /\ NotifyNone /\ UNCHANGED rw_owner
  <2>1. readers' \in Nat /\ (readers' = 0 \/ readers' > 0)
    BY <1>1, <1>10
  <2>2. RwTypes' /\ UNCHANGED wq
    BY <1>9, <1>10, <2>1
  <2>3. RwNoIdle'
    BY <1>1, <1>10, <2>1, <2>2 DEF RwNoIdle, Waiters
  <2>4. ASSUME ~intruded PROVE RwGranted'
    <3>1. IsFiniteSet(Readers') /\ readers' = Cardinality(Readers')
      BY <1>6, <1>9, <1>10, <2>4
    <3>2. \A u \in Thread : ~Has(u, WrWtbl, "write")'
      BY <1>2, <1>5, <1>9, <1>10, <2>4 DEF Has
    <3> HIDE DEF Readers
    <3> QED BY <1>1, <1>10, <3>1, <3>2 DEF RwGranted, RwExclusion, Readers
  <2> QED BY <1>7, <1>9, <1>10, <2>2, <2>3, <2>4 DEF RwInv
<1>11. CASE /\ ~(rw_owner = NoWriter /\ readers > 0)
            /\ NotifyNone /\ UNCHANGED << readers, rw_owner >>
  <2>1. RwTypes' /\ UNCHANGED wq
    BY <1>1, <1>9, <1>11
  <2>2. RwNoIdle'
    BY <1>1, <1>11, <2>1 DEF RwNoIdle, Waiters
  <2> QED BY <1>5, <1>7, <1>9, <1>11, <2>1, <2>2 DEF RwInv
<1> QED BY <1>8, <1>10, <1>11 DEF UnlockByReader

(* The destruction of the lock notifies all who wait for it.               *)
LEMMA RwDeinitKeeps ==
  ASSUME WaitInv, Only(RwlockQueues), RwDeinit
  PROVE  /\ WaitInv' /\ Only(RwlockQueues)' /\ SameEnds
         /\ wq'[RdWtbl] = << >> /\ wq'[WrWtbl] = << >>
         /\ UNCHANGED << pc, object >>
         /\ \A u \in Thread : \/ status'[u] = status[u]
                              \/ status[u] = "IN_PROGRESS" /\ status'[u] = "DELETED"
<1> DEFINE S == Waiters(RdWtbl) \cup Waiters(WrWtbl)
<1>1. RdWtbl \in WaitQueue /\ WrWtbl \in WaitQueue
  BY RwlockAssumption
<1>2. \A u \in S :
        /\ u \in Thread /\ pc[u] = "blocked" /\ object[u] \in {RdWtbl, WrWtbl}
        /\ status[u] = "IN_PROGRESS" /\ state[u] # "COMPLETED"
  BY <1>1 DEF Waiters, WaitInv, LinksConsistent
<1>3. /\ wq' = [wq EXCEPT ![RdWtbl] = << >>, ![WrWtbl] = << >>]
      /\ status' = [u \in Thread |-> IF u \in S THEN "DELETED" ELSE status[u]]
      /\ state' = [u \in Thread |-> IF u \in S THEN "READY" ELSE state[u]]
      /\ UNCHANGED << pc, prio, result, object, cancel, cancel_status, signaled,
                      timer >>
  BY DEF RwDeinit, restVars
<1>4. \A u \in Thread : u \notin S => ~Linked(wq[RdWtbl], u) /\ ~Linked(wq[WrWtbl], u)
  BY DEF Waiters
<1>5. \A q \in WaitQueue, u \in Thread :
        Linked(wq[q], u) /\ u \in S => q \in {RdWtbl, WrWtbl}
  BY <1>2 DEF WaitInv, LinksConsistent
<1> HIDE DEF S
<1>6. /\ wq' \in [WaitQueue -> Seq(Thread)]
      /\ wq'[RdWtbl] = << >> /\ wq'[WrWtbl] = << >>
      /\ \A r \in WaitQueue : IsInjective(wq'[r])
      /\ \A r \in WaitQueue, u \in Thread :
           Linked(wq'[r], u) <=> Linked(wq[r], u) /\ u \notin S
  <2>1. << >> \in Seq(Thread) /\ IsInjective(<< >>)
        /\ \A u \in Thread : ~Linked(<< >>, u)
    BY EmptySeq DEF IsInjective, Linked
  <2>2. \A r \in WaitQueue : wq'[r] = IF r \in {RdWtbl, WrWtbl} THEN << >> ELSE wq[r]
    BY <1>1, <1>3 DEF WaitInv, WaitTypeOK
  <2>3. wq' \in [WaitQueue -> Seq(Thread)]
    BY <1>1, <1>3, <2>1 DEF WaitInv, WaitTypeOK
  <2>4. \A r \in WaitQueue : IsInjective(wq'[r])
    BY <2>1, <2>2 DEF WaitInv, LinksConsistent
  <2>5. \A r \in WaitQueue, u \in Thread :
           Linked(wq'[r], u) <=> Linked(wq[r], u) /\ u \notin S
    BY <1>4, <1>5, <2>1, <2>2
  <2> QED BY <1>1, <2>2, <2>3, <2>4, <2>5
<1>7. WaitTypeOK'
  <2>1. status' \in [Thread -> BlockStatus] /\ state' \in [Thread -> ThreadState]
    BY <1>3 DEF WaitInv, WaitTypeOK, BlockStatus, ThreadState
  <2> QED BY <1>3, <1>6, <2>1 DEF WaitInv, WaitTypeOK
<1>8. LinksConsistent'
  BY <1>2, <1>3, <1>6 DEF WaitInv, WaitTypeOK, LinksConsistent
<1>9. SleeperCanWake' /\ WokenForReason'
  BY <1>2, <1>3 DEF WaitInv, WaitTypeOK, SleeperCanWake, WokenForReason
<1>10. TimerBelongsToWait'
  BY <1>2, <1>3 DEF WaitInv, WaitTypeOK, TimerBelongsToWait
<1>11. Only(RwlockQueues)' /\ SameEnds
  BY <1>3 DEF Only, SameEnds
<1>12. \A u \in Thread : \/ status'[u] = status[u]
                         \/ status[u] = "IN_PROGRESS" /\ status'[u] = "DELETED"
  BY <1>2, <1>3
<1> QED BY <1>3, <1>6, <1>7, <1>8, <1>9, <1>10, <1>11, <1>12 DEF WaitInv

LEMMA RwStepKeeps ==
  ASSUME WaitInv, Only(RwlockQueues), RwInv, RwStep
  PROVE  WaitInv' /\ Only(RwlockQueues)' /\ SameEnds /\ RwInv'
<1> DEFINE Kept == WaitInv' /\ Only(RwlockQueues)' /\ SameEnds /\ RwInv'
<1>1. /\ RdWtbl \in WaitQueue /\ WrWtbl \in WaitQueue /\ RdWtbl # WrWtbl
      /\ RdWtbl \in RwlockQueues /\ WrWtbl \in RwlockQueues
      /\ wq \in [WaitQueue -> Seq(Thread)]
      /\ RwTypes /\ RwNoIdle /\ RwGranted /\ NoWriter \notin Thread
      /\ readers \in Nat
  BY RwlockAssumption DEF WaitInv, WaitTypeOK, RwInv, RwlockQueues, RwTypes
<1>2. \A t \in Thread : pc[t] = "armed" => locked[t] = "none"
  BY <1>1 DEF RwTypes
<1>3. ASSUME NEW t \in Thread, NEW q, NEW c, RwLock(t, q, c) PROVE Kept
  <2>1. /\ q \in {RdWtbl, WrWtbl} /\ Call(t, q, c) /\ locked[t] = "none"
        /\ UNCHANGED << rw_owner, readers, kicking, locked, intruded, stranded >>
    BY <1>3 DEF RwLock, MayAsk, rwlockVars
  <2>2. /\ WaitInv' /\ Only(RwlockQueues)' /\ SameEnds
        /\ pc[t] = "running" /\ pc'[t] = "armed"
        /\ \A u \in Thread \ {t} : pc'[u] = pc[u] /\ object'[u] = object[u]
        /\ UNCHANGED << wq, status >>
    BY <1>1, <2>1, CallKeeps
  <2>3. RwGranted'
    BY <1>1, <2>1, <2>2, HasStays, GrantsStay
  <2>4. RwTypes' /\ RwNoIdle'
    BY <1>1, <2>1, <2>2 DEF RwTypes, RwNoIdle, Waiters
  <2> QED BY <2>2, <2>3, <2>4 DEF RwInv
<1>4. ASSUME NEW t \in Thread, pc[t] \in {"armed", "running"}, locked[t] = "none",
             pc'[t] = "returning", UNCHANGED << object, wq, status >>,
             \A u \in Thread \ {t} : pc'[u] = pc[u],
             WaitInv', Only(RwlockQueues)', SameEnds, kicking' = kicking,
             UNCHANGED intruded, \/ stranded' = stranded
                                 \/ stranded' = stranded \ {t} /\ MayRead,
             \/ MayRead /\ TakeRead(t)
             \/ MayWrite /\ TakeWrite(t)
      PROVE  Kept
  <2>1. /\ locked' \in [Thread -> {"none", "read", "write"}]
        /\ \A u \in Thread \ {t} : locked'[u] = locked[u]
        /\ rw_owner' \in Thread \cup {NoWriter} /\ readers' \in Nat
        /\ readers' >= readers
    <3>1. CASE TakeRead(t)
      BY <1>1, <3>1 DEF TakeRead, Told, RwTypes
    <3>2. CASE TakeWrite(t)
      BY <1>1, <3>2 DEF TakeWrite, Told, RwTypes
    <3> QED BY <1>4, <3>1, <3>2
  <2>2. ~Chosen(t, RdWtbl) /\ ~Chosen(t, WrWtbl) /\ ~Has(t, RdWtbl, "read")
    BY <1>4 DEF Chosen, Has
  <2>3. \A u \in Thread \ {t} :
          /\ Has(u, RdWtbl, "read")' <=> Has(u, RdWtbl, "read")
          /\ Has(u, WrWtbl, "write")' <=> Has(u, WrWtbl, "write")
    BY <1>4, <2>1, HasStays
  <2>4. RwGranted'
    BY <1>1, <1>4, <2>2, <2>3, ReadGranted, WriteGranted
  <2>5. RwTypes'
    BY <1>1, <1>4, <2>1 DEF RwTypes
  <2>6. RwNoIdle'
    <3>1. \A u \in Waiters(RdWtbl) : u # t
      BY <1>1, <1>4 DEF Waiters, WaitInv, LinksConsistent
    <3>2. Waiters(RdWtbl)' = Waiters(RdWtbl)
      BY <1>4 DEF Waiters
    <3> QED BY <1>1, <1>4, <2>1, <3>1, <3>2
            DEF RwNoIdle, MayRead, MayWrite, TakeRead, TakeWrite
  <2> QED BY <1>4, <2>4, <2>5, <2>6 DEF RwInv
<1>5. ASSUME NEW t \in Thread, pc[t] \in {"armed", "running"}, locked[t] = "none",
             UNCHANGED << locked, readers, rw_owner, intruded, object >>,
             \/ pc'[t] = "blocked" /\ status'[t] = "IN_PROGRESS"
             \/ pc'[t] = "returning",
             \A u \in Thread \ {t} : pc'[u] = pc[u] /\ status'[u] = status[u],
             WaitInv', Only(RwlockQueues)', SameEnds,
             kicking' \in SUBSET Thread
      PROVE  RwGranted' /\ RwTypes'
  <2>1. RwTypes'
    BY <1>1, <1>5 DEF RwTypes
  <2>2. RwGranted'
    BY <1>1, <1>5, HasStays, GrantsStay
  <2> QED BY <2>1, <2>2
<1>6. ASSUME NEW t \in Thread, RdTestAndWait(t) PROVE Kept
  <2>1. /\ Enters(t, RdWtbl) /\ pc[t] = "armed" /\ locked[t] = "none"
        /\ UNCHANGED << kicking, intruded >> /\ stranded' = stranded \ {t}
    BY <1>2, <1>6 DEF RdTestAndWait, Enters
  <2>2. CASE MayRead
    <3>1. TakeRead(t) /\ Proceed(t) /\ UNCHANGED prio
      BY <1>6, <2>2 DEF RdTestAndWait
    <3> QED BY <1>1, <1>4, <2>1, <2>2, <3>1, ProceedKeeps
  <2>3. CASE ~MayRead
    <3>1. Block(t) /\ UNCHANGED << locked, readers, rw_owner >>
      BY <1>6, <2>3 DEF RdTestAndWait
    <3>2. /\ WaitInv' /\ Only(RwlockQueues)' /\ SameEnds
          /\ \/ /\ pc'[t] = "blocked" /\ status'[t] = "IN_PROGRESS"
                /\ wq' = [wq EXCEPT ![RdWtbl] = Append(@, t)]
             \/ /\ pc'[t] = "returning" /\ UNCHANGED << wq, status >>
          /\ \A u \in Thread \ {t} : pc'[u] = pc[u] /\ status'[u] = status[u]
          /\ UNCHANGED object
      BY <1>1, <2>1, <3>1, BlockKeeps
    <3>3. wq'[WrWtbl] = wq[WrWtbl]
      BY <1>1, <3>2
    <3>4. kicking' \in SUBSET Thread
      BY <1>1, <2>1 DEF RwTypes
    <3>5. RwGranted' /\ RwTypes'
      BY <1>5, <2>1, <3>1, <3>2, <3>4
    <3>6. RwNoIdle'
      <4>1. rw_owner' # NoWriter \/ wq'[WrWtbl] # << >>
        BY <2>3, <3>1, <3>3 DEF MayRead
      <4> QED BY <1>1, <2>1, <3>1, <3>3, <4>1 DEF RwNoIdle
    <3> QED BY <3>2, <3>5, <3>6 DEF RwInv
  <2> QED BY <2>2, <2>3
<1>7. ASSUME NEW t \in Thread, WrTestAndWait(t) PROVE Kept
  <2>1. /\ Enters(t, WrWtbl) /\ pc[t] = "armed" /\ locked[t] = "none"
        /\ UNCHANGED << intruded, stranded >> /\ KickIfFailed(t)
    BY <1>2, <1>7 DEF WrTestAndWait, Enters
  <2>2. CASE MayWrite
    <3>1. TakeWrite(t) /\ Proceed(t) /\ UNCHANGED prio
      BY <1>7, <2>2 DEF WrTestAndWait
    <3>2. /\ WaitInv' /\ Only(RwlockQueues)' /\ SameEnds
          /\ pc'[t] = "returning" /\ result'[t] = "OK"
          /\ \A u \in Thread \ {t} : pc'[u] = pc[u]
          /\ UNCHANGED << object, wq, status >>
      BY <1>1, <2>1, <3>1, ProceedKeeps
    <3>3. kicking' = kicking
      BY <2>1, <3>2 DEF KickIfFailed
    <3> QED BY <1>4, <2>1, <2>2, <3>1, <3>2, <3>3
  <2>3. CASE ~MayWrite
    <3>1. Block(t) /\ UNCHANGED << locked, readers, rw_owner >>
      BY <1>7, <2>3 DEF WrTestAndWait
    <3>2. /\ WaitInv' /\ Only(RwlockQueues)' /\ SameEnds
          /\ \/ /\ pc'[t] = "blocked" /\ status'[t] = "IN_PROGRESS"
                /\ wq' = [wq EXCEPT ![WrWtbl] = Append(@, t)]
             \/ /\ pc'[t] = "returning" /\ UNCHANGED << wq, status >>
          /\ \A u \in Thread \ {t} : pc'[u] = pc[u] /\ status'[u] = status[u]
          /\ UNCHANGED object
      BY <1>1, <2>1, <3>1, BlockKeeps
    <3>3. wq'[RdWtbl] = wq[RdWtbl]
      BY <1>1, <3>2
    <3>4. kicking' \in SUBSET Thread /\ kicking \subseteq kicking'
      BY <1>1, <2>1 DEF RwTypes, KickIfFailed
    <3>5. RwGranted' /\ RwTypes'
      BY <1>5, <2>1, <3>1, <3>2, <3>4
    <3>6. rw_owner # NoWriter \/ readers > 0
      BY <1>1, <2>3 DEF MayWrite
    <3>7. wq[WrWtbl] # << >> => wq'[WrWtbl] # << >>
      <4>1. Append(wq[WrWtbl], t) # << >>
        BY <1>1, AppendLinks
      <4> QED BY <1>1, <3>2, <4>1
    <3>8. RwNoIdle'
      BY <1>1, <2>1, <3>1, <3>3, <3>4, <3>6, <3>7, NoIdleStays DEF WriterInWay
    <3> QED BY <3>2, <3>5, <3>8 DEF RwInv
  <2> QED BY <2>2, <2>3
<1>8. ASSUME NEW t \in Thread, TryCall(t), TryDone(t, "WAIT_TIMEOUT"), UNCHANGED prio,
             locked[t] = "none", kicking' \in SUBSET Thread, kicking \subseteq kicking',
             UNCHANGED << locked, readers, rw_owner, intruded, stranded >>
      PROVE  Kept
  <2>1. /\ WaitInv' /\ Only(RwlockQueues)' /\ SameEnds
        /\ pc[t] = "running" /\ pc'[t] = "returning"
        /\ \A u \in Thread \ {t} : pc'[u] = pc[u]
        /\ UNCHANGED << object, wq, status >>
    BY <1>8, TryKeeps
  <2>2. RwGranted' /\ RwTypes'
    BY <1>5, <1>8, <2>1
  <2>3. RwNoIdle'
    BY <1>1, <1>8, <2>1, NoIdleStays DEF RwNoIdle, WriterInWay
  <2> QED BY <2>1, <2>2, <2>3 DEF RwInv
<1>9. ASSUME NEW t \in Thread, TryCall(t), TryDone(t, "OK"), UNCHANGED prio
      PROVE  /\ WaitInv' /\ Only(RwlockQueues)' /\ SameEnds
             /\ pc[t] = "running" /\ pc'[t] = "returning" /\ result'[t] = "OK"
             /\ \A u \in Thread \ {t} : pc'[u] = pc[u]
             /\ UNCHANGED << object, wq, status >>
  BY <1>9, TryKeeps
<1>10. ASSUME NEW t \in Thread, TryRead(t) PROVE Kept
  <2>1. /\ TryCall(t) /\ locked[t] = "none"
        /\ UNCHANGED << prio, kicking, intruded, stranded >>
    BY <1>10 DEF TryRead, MayAsk
  <2>2. CASE MayRead
    <3>1. TakeRead(t) /\ TryDone(t, "OK")
      BY <1>10, <2>2 DEF TryRead
    <3> QED BY <1>4, <1>9, <2>1, <2>2, <3>1
  <2>3. CASE ~MayRead
    <3>1. TryDone(t, "WAIT_TIMEOUT") /\ UNCHANGED << locked, readers, rw_owner >>
      BY <1>10, <2>3 DEF TryRead
    <3>2. kicking' \in SUBSET Thread /\ kicking \subseteq kicking'
      BY <1>1, <2>1 DEF RwTypes
    <3> QED BY <1>8, <2>1, <3>1, <3>2
  <2> QED BY <2>2, <2>3
<1>11. ASSUME NEW t \in Thread, TryWrite(t) PROVE Kept
  <2>1. /\ TryCall(t) /\ locked[t] = "none" /\ KickIfFailed(t)
        /\ UNCHANGED << prio, intruded, stranded >>
    BY <1>11 DEF TryWrite, MayAsk
  <2>2. CASE MayWrite
    <3>1. TakeWrite(t) /\ TryDone(t, "OK")
      BY <1>11, <2>2 DEF TryWrite
    <3>2. kicking' = kicking
      BY <1>9, <2>1, <3>1 DEF KickIfFailed
    <3> QED BY <1>4, <1>9, <2>1, <2>2, <3>1, <3>2
  <2>3. CASE ~MayWrite
    <3>1. TryDone(t, "WAIT_TIMEOUT") /\ UNCHANGED << locked, readers, rw_owner >>
      BY <1>11, <2>3 DEF TryWrite
    <3>2. kicking' \in SUBSET Thread /\ kicking \subseteq kicking'
      BY <1>1, <2>1 DEF RwTypes, KickIfFailed
    <3> QED BY <1>8, <2>1, <3>1, <3>2
  <2> QED BY <2>2, <2>3
<1>12. ASSUME NEW t \in Thread, NEW policy, RwUnlock(t, policy) PROVE Kept
  BY <1>12, UnlockByWriterKeeps, UnlockByReaderKeeps DEF RwUnlock
<1>13. ASSUME NEW t \in Thread, KickReaders(t) PROVE Kept
  <2>1. /\ kicking' = kicking \ {t} /\ UNCHANGED << prio, rw_owner, locked, stranded >>
    BY <1>13 DEF KickReaders
  <2>2. CASE wq[RdWtbl] # << >> /\ wq[WrWtbl] = << >>
    <3>1. LetReadersIn /\ intruded' = (intruded \/ rw_owner # NoWriter)
      BY <1>13, <2>2 DEF KickReaders
    <3>2. /\ WaitInv' /\ Only(RwlockQueues)' /\ SameEnds
          /\ UNCHANGED << pc, object, result >>
          /\ wq'[RdWtbl] = << >> /\ wq'[WrWtbl] = wq[WrWtbl]
          /\ readers' \in Nat
          /\ \A u \in Thread : Chosen(u, WrWtbl)' <=> Chosen(u, WrWtbl)
          /\ ~intruded => IsFiniteSet(Readers') /\ readers' = Cardinality(Readers')
      BY <1>1, <2>1, <3>1, ReadersLetIn
    <3>3. RwTypes' /\ RwNoIdle'
      BY <1>1, <2>1, <2>2, <3>2, NoIdleWhenEmpty DEF RwTypes
    <3>4. ASSUME ~intruded, rw_owner = NoWriter PROVE RwGranted'
      <4>1. \A u \in Thread : ~Has(u, WrWtbl, "write")
        BY <1>1, <3>4, GrantsAre
      <4>2. \A u \in Thread : ~Has(u, WrWtbl, "write")'
        BY <2>1, <3>2, <4>1 DEF Has
      <4> HIDE DEF Readers
      <4> QED BY <1>1, <2>1, <3>2, <3>4, <4>2 DEF RwGranted, RwExclusion, Readers
    <3>5. intruded' => RwGranted'
      BY DEF RwGranted, RwExclusion
    <3> QED BY <3>1, <3>2, <3>3, <3>4, <3>5 DEF RwInv
  <2>3. CASE ~(wq[RdWtbl] # << >> /\ wq[WrWtbl] = << >>)
    <3>1. NotifyNone /\ UNCHANGED << readers, intruded >>
      BY <1>13, <2>3 DEF KickReaders
    <3>2. UNCHANGED waitVars
      BY <2>1, <3>1 DEF NotifyNone, waitVars, restVars
    <3>3. UNCHANGED << pc, wq, object, status >>
      BY <3>2 DEF waitVars
    <3>4. WaitInv' /\ Only(RwlockQueues)' /\ SameEnds
      BY <3>2, <3>3, WaitUnchanged DEF Only, SameEnds
    <3>5. RwGranted'
      BY <1>1, <2>1, <3>1, <3>3, HasStays, GrantsStay
    <3>6. RwTypes'
      BY <1>1, <2>1, <3>1, <3>3 DEF RwTypes
    <3>7. RwNoIdle'
      <4>1. CASE wq[RdWtbl] = << >>
        BY <1>1, <2>1, <3>1, <3>3, <4>1, EmptySeq DEF RwNoIdle, Waiters, Linked
      <4>2. CASE wq[WrWtbl] # << >>
        BY <1>1, <2>1, <3>1, <3>3, <4>2, NoIdleStays DEF RwNoIdle, WriterInWay
      <4> QED BY <2>3, <4>1, <4>2
    <3> QED BY <3>4, <3>5, <3>6, <3>7 DEF RwInv
  <2> QED BY <2>2, <2>3
<1>14. ASSUME RwDeinit PROVE Kept
  <2>1. UNCHANGED << readers, rw_owner, kicking, locked, intruded, stranded >>
    BY <1>14 DEF RwDeinit
  <2>2. /\ WaitInv' /\ Only(RwlockQueues)' /\ SameEnds
        /\ wq'[RdWtbl] = << >> /\ wq'[WrWtbl] = << >>
        /\ UNCHANGED << pc, object >>
        /\ \A u \in Thread : \/ status'[u] = status[u]
                             \/ status[u] = "IN_PROGRESS" /\ status'[u] = "DELETED"
    BY <1>14, RwDeinitKeeps
  <2>3. RwGranted'
    BY <1>1, <2>1, <2>2, HasStays, GrantsStay
  <2>4. RwTypes' /\ RwNoIdle'
    BY <1>1, <2>1, <2>2, NoIdleWhenEmpty DEF RwTypes
  <2> QED BY <2>2, <2>3, <2>4 DEF RwInv
<1> HIDE DEF Kept
<1>15. Kept
  BY <1>3, <1>6, <1>7, <1>10, <1>11, <1>12, <1>13, <1>14 DEF RwStep
<1> QED BY <1>15 DEF Kept

(* What the thread was about to be told it is told now.                    *)
LEMMA ToldKeepsHas ==
  ASSUME RwTypes, RwGranted, NEW t \in Thread, ToldAsChosen(t), pc'[t] # "blocked",
         UNCHANGED << readers, rw_owner, intruded >>,
         \A u \in Thread \ {t} : /\ pc'[u] = pc[u]
                                 /\ pc[u] = "blocked" => /\ object'[u] = object[u]
                                                         /\ status'[u] = status[u]
  PROVE  /\ RwGranted'
         /\ locked' \in [Thread -> {"none", "read", "write"}]
         /\ \A u \in Thread \ {t} : locked'[u] = locked[u]
         /\ pc[t] # "blocked" => locked'[t] = locked[t]
<1>1. RdWtbl # WrWtbl /\ locked \in [Thread -> {"none", "read", "write"}]
  BY RwlockAssumption DEF RwTypes
<1>2. /\ locked' \in [Thread -> {"none", "read", "write"}]
      /\ \A u \in Thread \ {t} : locked'[u] = locked[u]
      /\ locked'[t] = IF Chosen(t, RdWtbl) THEN "read"
                      ELSE IF Chosen(t, WrWtbl) THEN "write" ELSE locked[t]
  BY <1>1 DEF ToldAsChosen
<1>3. Chosen(t, RdWtbl) \/ Chosen(t, WrWtbl) => locked[t] = "none" /\ pc[t] = "blocked"
  BY DEF Chosen, RwTypes
<1>4. ~(Chosen(t, RdWtbl) /\ Chosen(t, WrWtbl))
  BY <1>1 DEF Chosen
<1>5. /\ Has(t, RdWtbl, "read")' <=> Has(t, RdWtbl, "read")
      /\ Has(t, WrWtbl, "write")' <=> Has(t, WrWtbl, "write")
  <2>1. ~Chosen(t, RdWtbl)' /\ ~Chosen(t, WrWtbl)'
    BY DEF Chosen
  <2> QED BY <1>2, <1>3, <1>4, <2>1 DEF Has
<1>6. \A u \in Thread \ {t} :
        /\ Has(u, RdWtbl, "read")' <=> Has(u, RdWtbl, "read")
        /\ Has(u, WrWtbl, "write")' <=> Has(u, WrWtbl, "write")
  BY <1>2, HasStays
<1>7. RwGranted'
  BY <1>5, <1>6, GrantsStay
<1> QED BY <1>2, <1>3, <1>7

LEMMA RwInUseInvariant == RwlockInUse /\ Next => RwlockInUse'
<1> SUFFICES ASSUME RwlockInUse, Next PROVE RwlockInUse'
  OBVIOUS
<1> DEFINE Q == RwlockQueues
<1>1. /\ WaitInv /\ Only(Q) /\ RwInv
      /\ RdWtbl \in WaitQueue /\ WrWtbl \in WaitQueue
      /\ BarrierIdle /\ PoolIdle /\ EvfIdle /\ EvIdle /\ ThreadsIdle
      /\ Barr \notin Q /\ Pool \notin Q /\ Evf \notin Q /\ Ev \notin Q
      /\ Q \cap ThreadQueues = {}
  BY QueuesDiffer DEF RwlockInUse, RwlockQueues
<1> HIDE DEF Q
<1>2. /\ BarrierIdle' /\ PoolIdle' /\ EvfIdle' /\ EvIdle'
      /\ (ObjectStep => SameEnds) => ThreadsIdle'
      /\ ObjectStep => RwStep
      /\ \A t \in Thread : t \notin Waiters(Completion(t))
  BY <1>1, BarrierStaysIdle, PoolStaysIdle, EvfStaysIdle, EvStaysIdle,
     ThreadsStayIdle DEF ObjectStep
<1>3. CASE ObjectStep
  BY <1>1, <1>2, <1>3, RwStepKeeps DEF RwlockInUse, Q
<1>4. ASSUME ~ObjectStep, WaitInv', Only(Q)', RwInv' PROVE RwlockInUse'
  BY <1>2, <1>4 DEF RwlockInUse, Q
<1>5. RwTypes /\ RwNoIdle /\ RwGranted
  BY <1>1 DEF RwInv
<1>6. ASSUME NEW t \in Thread, ~ObjectStep, WakeupIn(t) PROVE RwlockInUse'
  <2>1. /\ ToldAsChosen(t) /\ UNCHANGED << rw_owner, readers, intruded, stranded >>
        /\ IF object[t] = WrWtbl THEN KickIfFailed(t) ELSE UNCHANGED kicking
    BY <1>6 DEF WakeupIn, RwWakeup
  <2>2. /\ WaitInv' /\ Only(Q)' /\ pc[t] = "blocked" /\ pc'[t] = "returning"
        /\ result'[t] = "OK" <=> status[t] = "SATISFIED"
        /\ \A q \in WaitQueue, u \in Thread :
             Linked(wq'[q], u) <=> Linked(wq[q], u) /\ u # t
        /\ \A q \in WaitQueue : wq[q] = << >> => wq'[q] = << >>
        /\ \A u \in Thread \ {t} : pc'[u] = pc[u] /\ status'[u] = status[u]
        /\ UNCHANGED object
    BY <1>1, <1>6, WakeupKeeps DEF WakeupIn
  <2>3. /\ RwGranted'
        /\ locked' \in [Thread -> {"none", "read", "write"}]
        /\ \A u \in Thread \ {t} : locked'[u] = locked[u]
    BY <1>5, <2>1, <2>2, ToldKeepsHas
  <2>4. kicking' \in SUBSET Thread /\ kicking \subseteq kicking'
    BY <1>5, <2>1 DEF KickIfFailed, RwTypes
  <2>5. RwTypes'
    BY <1>5, <2>1, <2>2, <2>3, <2>4 DEF RwTypes
  <2>6. wq[WrWtbl] # << >> /\ wq'[WrWtbl] = << >> => kicking' # {}
    <3> SUFFICES ASSUME wq[WrWtbl] # << >>, wq'[WrWtbl] = << >> PROVE kicking' # {}
      OBVIOUS
    <3>1. PICK u \in Thread : Linked(wq[WrWtbl], u)
      <4>1. wq[WrWtbl] \in Seq(Thread)
        BY <1>1 DEF WaitInv, WaitTypeOK
      <4> QED BY <4>1, EmptyQueue
    <3>2. ~Linked(wq'[WrWtbl], u)
      BY EmptySeq DEF Linked
    <3>3. u = t /\ object[t] = WrWtbl /\ status[t] = "IN_PROGRESS"
      BY <1>1, <2>2, <3>1, <3>2 DEF WaitInv, LinksConsistent
    <3> QED BY <2>1, <2>2, <3>3 DEF KickIfFailed
  <2>7. RwNoIdle'
    <3>1. WriterInWay => WriterInWay'
      BY <2>1, <2>4, <2>6 DEF WriterInWay
    <3>2. wq'[WrWtbl] # << >> => rw_owner' # NoWriter \/ readers' > 0
      BY <1>1, <1>5, <2>1, <2>2 DEF RwNoIdle
    <3> QED BY <1>1, <1>5, <2>1, <2>2, <3>1, <3>2, NoIdleStays
  <2> QED BY <1>4, <1>6, <2>2, <2>3, <2>5, <2>7 DEF RwInv
<1>7. ASSUME NEW t \in Thread, ~ObjectStep, ReturnTo(t) PROVE RwlockInUse'
  <2>1. UNCHANGED << rw_owner, readers, kicking, locked, intruded, stranded >>
    BY <1>7 DEF ReturnTo, rwlockVars
  <2>2. /\ WaitInv' /\ Only(Q)' /\ pc[t] = "returning" /\ pc'[t] = "running"
        /\ \A u \in Thread \ {t} : /\ pc'[u] = pc[u] /\ status'[u] = status[u]
                                   /\ object'[u] = object[u]
        /\ UNCHANGED wq
    BY <1>1, <1>7, ReturnKeeps DEF ReturnTo
  <2>3. RwGranted'
    BY <1>5, <2>1, <2>2, HasStays, GrantsStay
  <2>4. RwTypes' /\ RwNoIdle'
    BY <1>5, <2>1, <2>2, NoIdleStays DEF RwTypes, RwNoIdle, WriterInWay
  <2> QED BY <1>4, <1>7, <2>2, <2>3, <2>4 DEF RwInv
<1>8. ASSUME NEW t \in Thread, ~ObjectStep, KillIn(t) PROVE RwlockInUse'
  <2>1. /\ ToldAsChosen(t) /\ UNCHANGED << rw_owner, readers, intruded >>
        /\ kicking' = kicking \ {t}
        /\ stranded' = IF rw_owner = NoWriter /\ kicking \cup Waiters(WrWtbl) = {t}
                       THEN stranded \cup Waiters(RdWtbl) ELSE stranded
    BY <1>8 DEF KillIn, RwKill
  <2>2. /\ \A u \in Thread : object[u] # Completion(t)
        /\ Completion(t) # WrWtbl /\ Completion(t) # RdWtbl
    BY <1>1, NobodyThere, QueuesDiffer
  <2>3. /\ WaitInv' /\ Only(Q)' /\ pc'[t] = "dead"
        /\ \A q \in WaitQueue, u \in Thread :
             Linked(wq'[q], u) <=> /\ Linked(wq[q], u) /\ u # t
                                   /\ q # Completion(t)
        /\ \A q \in WaitQueue : wq[q] = << >> => wq'[q] = << >>
        /\ \A u \in Thread \ {t} : /\ pc'[u] = pc[u] /\ object'[u] = object[u]
                                   /\ status'[u] = status[u]
    BY <1>1, <1>2, <1>8, <2>2, KillKeeps DEF KillIn
  <2>4. /\ RwGranted'
        /\ locked' \in [Thread -> {"none", "read", "write"}]
        /\ \A u \in Thread \ {t} : locked'[u] = locked[u]
    BY <1>5, <2>1, <2>3, ToldKeepsHas
  <2>5. RwTypes'
    BY <1>5, <2>1, <2>3, <2>4 DEF RwTypes
  <2>6. wq'[WrWtbl] # << >> => rw_owner' # NoWriter \/ readers' > 0
    BY <1>1, <1>5, <2>1, <2>3 DEF RwNoIdle
  <2>7. ASSUME NEW u \in Thread, Linked(wq'[RdWtbl], u), u \notin stranded'
        PROVE  WriterInWay'
    <3> DEFINE Writers == kicking \cup Waiters(WrWtbl)
    <3>1. u \in Waiters(RdWtbl)
      BY <1>1, <2>3, <2>7 DEF Waiters
    <3>2. u \notin stranded /\ ~(rw_owner = NoWriter /\ Writers = {t})
      BY <2>1, <2>7, <3>1
    <3>3. rw_owner # NoWriter \/ wq[WrWtbl] # << >> \/ kicking # {}
      BY <1>5, <3>1, <3>2 DEF RwNoIdle
    <3>4. Writers \subseteq Thread /\ (wq[WrWtbl] # << >> \/ kicking # {} => Writers # {})
      <4>1. wq[WrWtbl] \in Seq(Thread) /\ kicking \subseteq Thread
        BY <1>1, <1>5 DEF WaitInv, WaitTypeOK, RwTypes
      <4>2. wq[WrWtbl] # << >> => \E w \in Thread : Linked(wq[WrWtbl], w)
        BY <4>1, EmptyQueue
      <4> QED BY <4>1, <4>2 DEF Waiters
    <3>5. CASE rw_owner # NoWriter
      BY <2>1, <3>5 DEF WriterInWay
    <3>6. CASE rw_owner = NoWriter
      <4>1. PICK w \in Writers : w # t
        BY <3>2, <3>3, <3>4, <3>6
      <4>2. w \in kicking' \/ Linked(wq'[WrWtbl], w)
        BY <1>1, <2>1, <2>2, <2>3, <3>4, <4>1 DEF Waiters
      <4>3. Linked(wq'[WrWtbl], w) => wq'[WrWtbl] # << >>
        BY EmptySeq DEF Linked
      <4> QED BY <4>2, <4>3 DEF WriterInWay
    <3> QED BY <3>5, <3>6
  <2>8. RwNoIdle'
    BY <2>6, <2>7 DEF RwNoIdle, Waiters, WriterInWay
  <2> QED BY <1>4, <1>8, <2>3, <2>4, <2>5, <2>8 DEF RwInv
<1>9. ASSUME EventStep, ~ObjectStep, UNCHANGED rwlockVars PROVE RwlockInUse'
  <2>1. UNCHANGED << rw_owner, readers, kicking, locked, intruded, stranded >>
    BY <1>9 DEF rwlockVars
  <2>2. WaitInv' /\ Only(Q)' /\ UNCHANGED << pc, object, wq, status >>
    BY <1>1, <1>9, EventKeeps
  <2>3. RwGranted'
    BY <1>5, <2>1, <2>2, HasStays, GrantsStay
  <2>4. RwTypes' /\ RwNoIdle'
    BY <1>5, <2>1, <2>2, NoIdleStays DEF RwTypes, RwNoIdle, WriterInWay
  <2> QED BY <1>4, <1>9, <2>2, <2>3, <2>4 DEF RwInv
<1> QED BY <1>3, <1>6, <1>7, <1>8, <1>9 DEF Next

-----------------------------------------------------------------------------
(* The threads that use each other.                                        *)

LEMMA ThreadQueuesDiffer ==
  \A t, u \in Thread :
    /\ Completion(t) # TimerEvent(u)
    /\ Completion(t) = Completion(u) => t = u
    /\ TimerEvent(t) = TimerEvent(u) => t = u
    /\ Completion(t) \in WaitQueue /\ TimerEvent(t) \in WaitQueue
    /\ Completion(t) \in ThreadQueues /\ TimerEvent(t) \in ThreadQueues
<1>1. \A t, u \in Thread :
        /\ Completion(t) # TimerEvent(u)
        /\ Completion(t) = Completion(u) => t = u
        /\ TimerEvent(t) = TimerEvent(u) => t = u
  BY DEF Completion, TimerEvent
<1> QED BY <1>1, QueuesDiffer

(* One thread moves; of the others those may be notified that join it.     *)
LEMMA LifeMoves ==
  ASSUME LifeInv, LifeTypes', NEW t \in Thread, Life(t)',
         \A u \in Thread : Joined(t, u)' /\ Joined(u, t)',
         \A u \in Thread \ {t} :
           /\ pc'[u] = pc[u] /\ object'[u] = object[u] /\ result'[u] = result[u]
           /\ cancel'[u] = cancel[u] /\ cancel_status'[u] = cancel_status[u]
           /\ signaled'[u] = signaled[u]
           /\ valid_thread'[u] = valid_thread[u] /\ completion'[u] = completion[u]
           /\ leaving'[u] = leaving[u] /\ sleep_timer'[u] = sleep_timer[u]
           /\ u \in endless' <=> u \in endless
           /\ wq[Completion(u)] = << >> => wq'[Completion(u)] = << >> \/ ~completion[u]
           /\ \/ status'[u] = status[u] /\ state'[u] = state[u]
              \/ object[u] = Completion(t) /\ state'[u] = "READY" /\ completion'[t]
  PROVE  LifeInv'
<1>1. ASSUME NEW u \in Thread, u # t PROVE Life(u)'
  <2>1. Life(u)
    BY DEF LifeInv
  <2>2. Sleeps(u)' <=> Sleeps(u)
    BY <1>1 DEF Sleeps
  <2>3. state'[u] = state[u] \/ (state'[u] = "READY" /\ ~Sleeps(u))
    BY <1>1, ThreadQueuesDiffer DEF Sleeps
  <2> QED BY <1>1, <2>1, <2>2, <2>3 DEF Life
<1>2. ASSUME NEW u \in Thread, u # t, NEW v \in Thread, v # t PROVE Joined(v, u)'
  <2>1. Joined(v, u)
    BY DEF LifeInv
  <2>2. object[u] # Completion(t) \/ object[u] # Completion(v)
    BY <1>2, ThreadQueuesDiffer
  <2> QED BY <1>2, <2>1, <2>2 DEF Joined
<1> QED BY <1>1, <1>2 DEF LifeInv

(* The framework's invariant is kept by a thread that is in no queue.      *)
LEMMA MoveKeeps ==
  ASSUME WaitInv, Only(ThreadQueues), NEW t \in Thread,
         \A u \in Thread : cancel[u] = NoEvent,
         pc[t] # "blocked", pc'[t] # "blocked",
         UNCHANGED << wq, cancel, timer, result >>,
         pc' \in [Thread -> Phase], state' \in [Thread -> ThreadState],
         prio' \in [Thread -> Prio], status' \in [Thread -> BlockStatus],
         object' \in [Thread -> WaitQueue \cup {NoObject}],
         object'[t] \in ThreadQueues \cup {NoObject},
         pc'[t] = "armed" => object'[t] \in WaitQueue,
         cancel_status' \in [Thread -> BlockStatus],
         cancel_status'[t] # "IN_PROGRESS",
         signaled' \in [Event -> BOOLEAN],
         state'[t] # "WAITING", state'[t] = "COMPLETED" <=> pc'[t] = "dead",
         \A u \in Thread \ {t} :
           /\ pc'[u] = pc[u] /\ state'[u] = state[u] /\ object'[u] = object[u]
           /\ status'[u] = status[u] /\ cancel_status'[u] = cancel_status[u]
  PROVE  WaitInv' /\ Only(ThreadQueues)'
<1>1. \A u \in Thread : ~timer[u] /\ cancel[u] # u
  BY WaitAssumption DEF WaitInv, TimerBelongsToWait
<1>2. WaitTypeOK'
  BY DEF WaitInv, WaitTypeOK
<1>3. LinksConsistent'
  BY DEF WaitInv, LinksConsistent
<1>4. SleeperCanWake'
  BY <1>1 DEF WaitInv, SleeperCanWake
<1>5. TimerBelongsToWait'
  BY <1>1 DEF WaitInv, TimerBelongsToWait
<1>6. WokenForReason'
  BY DEF WaitInv, WokenForReason
<1> QED BY <1>2, <1>3, <1>4, <1>5, <1>6 DEF WaitInv, Only

(* What LifeInv says of all threads at once.                               *)
LEMMA LifeFacts ==
  ASSUME LifeInv
  PROVE  /\ LifeTypes
         /\ \A t \in Thread : Life(t) /\ cancel[t] = NoEvent
         /\ \A t, u \in Thread : Joined(t, u)
BY DEF LifeInv, Life

LEMMA ExitKeeps ==
  ASSUME WaitInv, Only(ThreadQueues), LifeInv, NEW t \in Thread, Exit(t)
  PROVE  WaitInv' /\ Only(ThreadQueues)' /\ LifeInv'
<1>1. /\ LifeTypes /\ Life(t) /\ \A u \in Thread : cancel[u] = NoEvent
      /\ \A u \in Thread : Joined(t, u) /\ Joined(u, t)
  BY LifeFacts
<1>2. /\ pc[t] = "running" /\ pc' = [pc EXCEPT ![t] = "dead"]
      /\ state' = [state EXCEPT ![t] = "COMPLETED"]
      /\ leaving' = [leaving EXCEPT ![t] = TRUE]
      /\ UNCHANGED << prio, wq, status, result, object, cancel, cancel_status,
                      signaled, timer, completion, valid_thread, sleep_timer,
                      endless >>
  BY DEF Exit, Runs, restVars, lifeVars
<1>3. /\ pc' \in [Thread -> Phase] /\ state' \in [Thread -> ThreadState]
      /\ pc'[t] = "dead" /\ state'[t] = "COMPLETED"
      /\ leaving' \in [Thread -> BOOLEAN] /\ leaving'[t]
      /\ \A u \in Thread \ {t} : pc'[u] = pc[u] /\ state'[u] = state[u]
                                 /\ leaving'[u] = leaving[u]
  BY <1>1, <1>2 DEF WaitInv, WaitTypeOK, Phase, ThreadState, LifeTypes
<1>4. WaitInv' /\ Only(ThreadQueues)'
  BY <1>1, <1>2, <1>3, MoveKeeps DEF WaitInv, WaitTypeOK, Only, Life
<1>5. Life(t)'
  BY <1>1, <1>2, <1>3 DEF Life, Sleeps
<1>6. \A u \in Thread : Joined(t, u)' /\ Joined(u, t)'
  <2>1. ~completion[t]
    BY <1>1, <1>2 DEF Life
  <2> QED BY <1>1, <1>2, <1>3, <2>1 DEF Joined
<1>7. LifeInv'
  BY <1>1, <1>2, <1>3, <1>5, <1>6, LifeMoves DEF LifeTypes
<1> QED BY <1>4, <1>7

LEMMA ThreadDeinitKeeps ==
  ASSUME WaitInv, Only(ThreadQueues), LifeInv, NEW t \in Thread, ThreadDeinit(t)
  PROVE  WaitInv' /\ Only(ThreadQueues)' /\ LifeInv'
<1>1. /\ LifeTypes /\ Life(t) /\ \A u \in Thread : Joined(t, u) /\ Joined(u, t)
  BY LifeFacts
<1>2. /\ completion[t] /\ ~leaving[t]
      /\ valid_thread' = [valid_thread EXCEPT ![t] = FALSE]
      /\ UNCHANGED << completion, leaving, sleep_timer, endless >>
      /\ UNCHANGED waitVars
  BY DEF ThreadDeinit, Dispatched
<1>3. UNCHANGED << pc, state, wq, object, status, cancel, cancel_status, signaled,
                   result >>
  BY <1>2 DEF waitVars
<1>4. /\ valid_thread' \in [Thread -> BOOLEAN]
      /\ \A u \in Thread \ {t} : valid_thread'[u] = valid_thread[u]
  BY <1>1, <1>2 DEF LifeTypes
<1>5. WaitInv' /\ Only(ThreadQueues)'
  BY <1>2, <1>3, WaitUnchanged DEF Only
<1>6. Life(t)'
  BY <1>1, <1>2, <1>3 DEF Life, Sleeps
<1>7. \A u \in Thread : Joined(t, u)' /\ Joined(u, t)'
  BY <1>1, <1>2, <1>3 DEF Joined
<1>8. LifeInv'
  BY <1>1, <1>2, <1>3, <1>4, <1>6, <1>7, LifeMoves DEF LifeTypes
<1> QED BY <1>5, <1>8

LEMMA ThreadInitKeeps ==
  ASSUME WaitInv, Only(ThreadQueues), LifeInv, NEW t \in Thread, NEW p \in Prio,
         NEW suspended \in BOOLEAN, ThreadInit(t, p, suspended)
  PROVE  WaitInv' /\ Only(ThreadQueues)' /\ LifeInv'
<1>1. /\ LifeTypes /\ Life(t) /\ \A u \in Thread : cancel[u] = NoEvent
      /\ \A u \in Thread : Joined(t, u) /\ Joined(u, t)
  BY LifeFacts
<1>2. /\ ~valid_thread[t]
      /\ \A u \in Thread : pc[u] \in {"armed", "blocked", "returning"}
                             => object[u] # Completion(t)
      /\ valid_thread' = [valid_thread EXCEPT ![t] = TRUE]
      /\ completion' = [completion EXCEPT ![t] = FALSE]
      /\ pc' = [pc EXCEPT ![t] = "running"]
      /\ state' = [state EXCEPT ![t] = IF suspended THEN "SUSPENDED" ELSE "READY"]
      /\ prio' = [prio EXCEPT ![t] = p]
      /\ signaled' = [signaled EXCEPT ![t] = FALSE]
      /\ status' = [status EXCEPT ![t] = "CANCELLED"]
      /\ cancel_status' = [cancel_status EXCEPT ![t] = "CANCELLED"]
      /\ UNCHANGED << wq, result, object, cancel, timer, leaving, sleep_timer,
                      endless >>
  BY DEF ThreadInit
<1>3. /\ pc' \in [Thread -> Phase] /\ state' \in [Thread -> ThreadState]
      /\ prio' \in [Thread -> Prio] /\ status' \in [Thread -> BlockStatus]
      /\ cancel_status' \in [Thread -> BlockStatus]
  BY <1>2 DEF WaitInv, WaitTypeOK, Phase, ThreadState, BlockStatus
<1>4. /\ signaled' \in [Event -> BOOLEAN]
      /\ \A u \in Thread \ {t} : signaled'[u] = signaled[u]
  BY <1>2 DEF WaitInv, WaitTypeOK, Event
<1>5. /\ pc'[t] = "running" /\ state'[t] \in {"SUSPENDED", "READY"}
      /\ status'[t] = "CANCELLED" /\ cancel_status'[t] = "CANCELLED"
      /\ \A u \in Thread \ {t} :
           /\ pc'[u] = pc[u] /\ state'[u] = state[u] /\ status'[u] = status[u]
           /\ cancel_status'[u] = cancel_status[u]
  BY <1>2 DEF WaitInv, WaitTypeOK
<1>6. /\ valid_thread' \in [Thread -> BOOLEAN] /\ completion' \in [Thread -> BOOLEAN]
      /\ valid_thread'[t] /\ ~completion'[t]
      /\ \A u \in Thread \ {t} : /\ valid_thread'[u] = valid_thread[u]
                                 /\ completion'[u] = completion[u]
  BY <1>1, <1>2 DEF LifeTypes
<1>7. pc[t] = "dead" /\ ~leaving[t]
  BY <1>1, <1>2 DEF Life
<1>8. WaitInv' /\ Only(ThreadQueues)'
  <2>1. /\ object' \in [Thread -> WaitQueue \cup {NoObject}]
        /\ object'[t] \in ThreadQueues \cup {NoObject}
        /\ \A u \in Thread : object'[u] = object[u]
    BY <1>2 DEF WaitInv, WaitTypeOK, Only
  <2> QED BY <1>1, <1>2, <1>3, <1>4, <1>5, <1>7, <2>1, MoveKeeps
<1>9. Life(t)'
  BY <1>1, <1>2, <1>5, <1>6, <1>7 DEF Life, Sleeps
<1>10. \A u \in Thread : Joined(t, u)' /\ Joined(u, t)'
  BY <1>2, <1>5 DEF Joined
<1>11. LifeInv'
  <2>1. LifeTypes'
    BY <1>1, <1>2, <1>6 DEF LifeTypes
  <2>2. UNCHANGED << wq, result, object, cancel, leaving, sleep_timer, endless >>
    BY <1>2
  <2> QED BY <1>4, <1>5, <1>6, <1>9, <1>10, <2>1, <2>2, LifeMoves
<1> QED BY <1>8, <1>11

LEMMA JoinKeeps ==
  ASSUME WaitInv, Only(ThreadQueues), LifeInv, NEW t \in Thread, NEW v \in Thread,
         Join(t, v)
  PROVE  WaitInv' /\ Only(ThreadQueues)' /\ LifeInv'
<1>1. /\ LifeTypes /\ Life(t) /\ \A u \in Thread : Joined(t, u) /\ Joined(u, t)
  BY LifeFacts
<1>2. /\ t # v /\ Call(t, Completion(v), NoEvent)
      /\ UNCHANGED << valid_thread, completion, leaving, sleep_timer, endless >>
  BY DEF Join, threadVars
<1>3. /\ WaitInv' /\ Only(ThreadQueues)'
      /\ pc[t] = "running" /\ pc'[t] = "armed"
      /\ object'[t] = Completion(v)
      /\ \A u \in Thread \ {t} : pc'[u] = pc[u] /\ object'[u] = object[u]
      /\ UNCHANGED << wq, status, result, state, cancel_status >>
  BY <1>2, ThreadQueuesDiffer, CallKeeps
<1>4. /\ cancel'[t] = NoEvent /\ cancel' = cancel /\ signaled' = signaled
      /\ state[t] = "READY"
  BY <1>1, <1>2, WaitAssumption DEF Call, Life, WaitInv, WaitTypeOK
<1>5. Life(t)'
  <2>1. /\ object'[t] # Completion(t)
        /\ \A u \in Thread : object'[t] # TimerEvent(u)
    BY <1>2, <1>3, ThreadQueuesDiffer
  <2>2. ~Sleeps(t) /\ ~Sleeps(t)'
    BY <1>3, <2>1 DEF Sleeps
  <2> QED BY <1>1, <1>2, <1>3, <1>4, <2>1, <2>2 DEF Life
<1>6. \A u \in Thread : Joined(t, u)' /\ Joined(u, t)'
  BY <1>1, <1>2, <1>3 DEF Joined
<1>7. LifeInv'
  BY <1>1, <1>2, <1>3, <1>4, <1>5, <1>6, LifeMoves DEF LifeTypes
<1> QED BY <1>3, <1>7

(* A thread finds the event that it waits for set.                         *)
LEMMA ProceedLives ==
  ASSUME WaitInv, Only(ThreadQueues), LifeInv, NEW t \in Thread, NEW q \in WaitQueue,
         Enters(t, q), Proceed(t), UNCHANGED prio, UNCHANGED threadVars,
         \A u \in Thread : q = Completion(u) => completion[u] /\ ~leaving[u]
  PROVE  WaitInv' /\ Only(ThreadQueues)' /\ LifeInv'
<1>1. /\ LifeTypes /\ Life(t) /\ \A u \in Thread : Joined(t, u) /\ Joined(u, t)
  BY LifeFacts
<1>2. UNCHANGED << valid_thread, completion, leaving, sleep_timer, endless >>
  BY DEF threadVars
<1>3. /\ WaitInv' /\ Only(ThreadQueues)'
      /\ pc[t] = "armed" /\ pc'[t] = "returning" /\ object[t] = q
      /\ \A u \in Thread \ {t} : pc'[u] = pc[u] /\ result'[u] = result[u]
      /\ UNCHANGED << object, wq, status, state, cancel_status, cancel, signaled >>
  BY ProceedKeeps
<1>4. state[t] = "READY"
  BY DEF Enters
<1>5. Life(t)'
  BY <1>1, <1>2, <1>3, <1>4 DEF Life, Sleeps
<1>6. \A u \in Thread : Joined(t, u)' /\ Joined(u, t)'
  <2>1. \A u \in Thread : Joined(u, t)'
    BY <1>2, <1>3 DEF Joined
  <2>2. \A u \in Thread : u # t => Joined(t, u)'
    BY <1>1, <1>2, <1>3 DEF Joined
  <2> QED BY <2>1, <2>2
<1>7. LifeInv'
  BY <1>1, <1>2, <1>3, <1>5, <1>6, LifeMoves DEF LifeTypes
<1> QED BY <1>3, <1>7

(* A thread blocks until the event is set: the end of a thread, or its own *)
(* timer.                                                                  *)
LEMMA BlockLives ==
  ASSUME WaitInv, Only(ThreadQueues), LifeInv, NEW t \in Thread, NEW q \in WaitQueue,
         Enters(t, q), Block(t), UNCHANGED threadVars,
         \A u \in Thread : q = Completion(u) => ~completion[u],
         q = TimerEvent(t) => ~signaled[t]
  PROVE  WaitInv' /\ Only(ThreadQueues)' /\ LifeInv'
<1>1. /\ LifeTypes /\ Life(t) /\ \A u \in Thread : Joined(t, u) /\ Joined(u, t)
      /\ cancel[t] = NoEvent
  BY LifeFacts
<1>2. UNCHANGED << valid_thread, completion, leaving, sleep_timer, endless >>
  BY DEF threadVars
<1>3. /\ WaitInv' /\ Only(ThreadQueues)'
      /\ pc[t] = "armed" /\ object[t] = q
      /\ pc'[t] = "blocked" /\ status'[t] = "IN_PROGRESS"
      /\ state'[t] = "WAITING"
      /\ wq' = [wq EXCEPT ![q] = Append(@, t)]
      /\ \A u \in Thread \ {t} : /\ pc'[u] = pc[u] /\ result'[u] = result[u]
                                 /\ status'[u] = status[u] /\ state'[u] = state[u]
      /\ UNCHANGED << object, cancel, signaled >>
  BY <1>1, BlockKeeps
<1>4. /\ cancel_status'[t] = "CANCELLED"
      /\ \A u \in Thread \ {t} : cancel_status'[u] = cancel_status[u]
  BY <1>1 DEF Block, WaitInv, WaitTypeOK
<1>5. \A u \in Thread : completion[u] => wq'[Completion(u)] = wq[Completion(u)]
  BY <1>3, ThreadQueuesDiffer DEF WaitInv, WaitTypeOK
<1>6. Life(t)'
  BY <1>1, <1>2, <1>3, <1>4, <1>5 DEF Life, Sleeps
<1>7. \A u \in Thread : Joined(t, u)' /\ Joined(u, t)'
  BY <1>1, <1>2, <1>3 DEF Joined
<1>8. LifeInv'
  <2>1. LifeTypes'
    BY <1>1, <1>2 DEF LifeTypes
  <2>2. \A u \in Thread \ {t} : wq[Completion(u)] = << >> =>
          wq'[Completion(u)] = << >> \/ ~completion[u]
    BY <1>5
  <2> QED BY <1>2, <1>3, <1>4, <1>6, <1>7, <2>1, <2>2, LifeMoves
<1> QED BY <1>3, <1>8

LEMMA SleepForKeeps ==
  ASSUME WaitInv, Only(ThreadQueues), LifeInv, NEW t \in Thread,
         NEW ticks \in {"finite", "infinite"}, SleepFor(t, ticks)
  PROVE  WaitInv' /\ Only(ThreadQueues)' /\ LifeInv'
<1>1. /\ LifeTypes /\ Life(t) /\ \A u \in Thread : cancel[u] = NoEvent
      /\ \A u \in Thread : Joined(t, u) /\ Joined(u, t)
  BY LifeFacts
<1>2. /\ state[t] = "READY" /\ pc[t] = "running"
      /\ pc' = [pc EXCEPT ![t] = "armed"]
      /\ object' = [object EXCEPT ![t] = TimerEvent(t)]
      /\ signaled' = [signaled EXCEPT ![t] = FALSE]
      /\ sleep_timer' = [sleep_timer EXCEPT ![t] = ticks = "finite"]
      /\ endless' = IF ticks = "finite" THEN endless ELSE endless \cup {t}
      /\ UNCHANGED << state, prio, wq, status, cancel, cancel_status, timer, result,
                      valid_thread, completion, leaving >>
  BY DEF SleepFor, Runs
<1>3. /\ pc' \in [Thread -> Phase] /\ pc'[t] = "armed"
      /\ object' \in [Thread -> WaitQueue \cup {NoObject}]
      /\ object'[t] = TimerEvent(t)
      /\ \A u \in Thread \ {t} : pc'[u] = pc[u] /\ object'[u] = object[u]
  BY <1>2, ThreadQueuesDiffer DEF WaitInv, WaitTypeOK, Phase
<1>4. /\ signaled' \in [Event -> BOOLEAN] /\ ~signaled'[t]
      /\ \A u \in Thread \ {t} : signaled'[u] = signaled[u]
  BY <1>2 DEF WaitInv, WaitTypeOK, Event
<1>5. /\ sleep_timer' \in [Thread -> BOOLEAN]
      /\ sleep_timer'[t] <=> ticks = "finite"
      /\ \A u \in Thread \ {t} : sleep_timer'[u] = sleep_timer[u]
  BY <1>1, <1>2 DEF LifeTypes
<1>6. t \notin endless /\ (t \in endless' <=> ticks # "finite")
  BY <1>1, <1>2 DEF Life, Sleeps
<1>7. WaitInv' /\ Only(ThreadQueues)'
  <2>1. /\ state' \in [Thread -> ThreadState] /\ prio' \in [Thread -> Prio]
        /\ status' \in [Thread -> BlockStatus]
        /\ cancel_status' \in [Thread -> BlockStatus]
    BY <1>2 DEF WaitInv, WaitTypeOK
  <2>2. /\ cancel_status'[t] # "IN_PROGRESS" /\ state'[t] = "READY"
        /\ object'[t] \in WaitQueue /\ object'[t] \in ThreadQueues
    BY <1>1, <1>2, <1>3, ThreadQueuesDiffer DEF Life
  <2> QED BY <1>1, <1>2, <1>3, <1>4, <2>1, <2>2, MoveKeeps
<1>8. Life(t)'
  <2>1. Sleeps(t)'
    BY <1>3 DEF Sleeps
  <2> QED BY <1>1, <1>2, <1>3, <1>4, <1>5, <1>6, <2>1, ThreadQueuesDiffer DEF Life
<1>9. \A u \in Thread : Joined(t, u)' /\ Joined(u, t)'
  BY <1>1, <1>2, <1>3 DEF Joined
<1>10. LifeInv'
  <2>1. LifeTypes'
    BY <1>1, <1>2, <1>5 DEF LifeTypes
  <2>2. \A u \in Thread \ {t} : u \in endless' <=> u \in endless
    BY <1>2
  <2> QED BY <1>2, <1>3, <1>4, <1>5, <1>8, <1>9, <2>1, <2>2, LifeMoves
<1> QED BY <1>7, <1>10

LEMMA DelayPastKeeps ==
  ASSUME WaitInv, Only(ThreadQueues), LifeInv, NEW t \in Thread, DelayPast(t)
  PROVE  WaitInv' /\ Only(ThreadQueues)' /\ LifeInv'
<1>1. /\ LifeTypes /\ Life(t) /\ \A u \in Thread : cancel[u] = NoEvent
      /\ \A u \in Thread : Joined(t, u) /\ Joined(u, t)
  BY LifeFacts
<1>2. /\ state[t] = "READY" /\ pc[t] = "running"
      /\ signaled' = [signaled EXCEPT ![t] = FALSE]
      /\ UNCHANGED << pc, state, prio, wq, status, result, object, cancel,
                      cancel_status, timer, valid_thread, completion, leaving,
                      sleep_timer, endless >>
  BY DEF DelayPast, Runs, threadVars
<1>3. /\ signaled' \in [Event -> BOOLEAN]
      /\ \A u \in Thread \ {t} : signaled'[u] = signaled[u]
  BY <1>2 DEF WaitInv, WaitTypeOK, Event
<1>4. WaitInv' /\ Only(ThreadQueues)'
  BY <1>1, <1>2, <1>3, MoveKeeps DEF WaitInv, WaitTypeOK, LinksConsistent, Only, Life
<1>5. Life(t)'
  BY <1>1, <1>2 DEF Life, Sleeps
<1>6. \A u \in Thread : Joined(t, u)' /\ Joined(u, t)'
  BY <1>1, <1>2 DEF Joined
<1>7. LifeInv'
  BY <1>1, <1>2, <1>3, <1>5, <1>6, LifeMoves DEF LifeTypes
<1> QED BY <1>4, <1>7

(* Suspend and Resume.                                                     *)
LEMMA SuspensionKeeps ==
  ASSUME WaitInv, Only(ThreadQueues), LifeInv, NEW t \in Thread,
         NEW s \in {"READY", "SUSPENDED"},
         state[t] \in {"READY", "SUSPENDED"}, pc[t] = "running",
         state' = [state EXCEPT ![t] = s],
         UNCHANGED << pc, prio, wq, status, result, restVars, threadVars >>
  PROVE  WaitInv' /\ Only(ThreadQueues)' /\ LifeInv'
<1>1. /\ LifeTypes /\ Life(t) /\ \A u \in Thread : cancel[u] = NoEvent
      /\ \A u \in Thread : Joined(t, u) /\ Joined(u, t)
  BY LifeFacts
<1>2. UNCHANGED << pc, prio, wq, status, result, object, cancel, cancel_status,
                   signaled, timer, valid_thread, completion, leaving, sleep_timer,
                   endless >>
  BY DEF restVars, threadVars
<1>3. /\ state' \in [Thread -> ThreadState] /\ state'[t] = s
      /\ \A u \in Thread \ {t} : state'[u] = state[u]
  BY DEF WaitInv, WaitTypeOK, ThreadState
<1>4. WaitInv' /\ Only(ThreadQueues)'
  BY <1>1, <1>2, <1>3, MoveKeeps DEF WaitInv, WaitTypeOK, Only, Life
<1>5. Life(t)'
  BY <1>1, <1>2, <1>3 DEF Life, Sleeps
<1>6. \A u \in Thread : Joined(t, u)' /\ Joined(u, t)'
  BY <1>1, <1>2 DEF Joined
<1>7. LifeInv'
  BY <1>1, <1>2, <1>3, <1>5, <1>6, LifeMoves DEF LifeTypes
<1> QED BY <1>4, <1>7

(* The timer of a sleep expires: no other thread waits for that event.     *)
LEMMA SleepExpireKeeps ==
  ASSUME WaitInv, Only(ThreadQueues), LifeInv, NEW t \in Thread, SleepExpire(t)
  PROVE  WaitInv' /\ Only(ThreadQueues)' /\ LifeInv'
<1> DEFINE q == TimerEvent(t)
<1>1. /\ LifeTypes /\ Life(t)
      /\ \A u \in Thread : Life(u) /\ cancel[u] = NoEvent
      /\ \A u \in Thread : Joined(t, u) /\ Joined(u, t)
  BY LifeFacts
<1>2. /\ sleep_timer[t] /\ sleep_timer' = [sleep_timer EXCEPT ![t] = FALSE]
      /\ signaled' = [signaled EXCEPT ![t] = TRUE]
      /\ IF signaled[t] THEN UNCHANGED << wq, status, state >>
         ELSE NotifyBlocks(q, "SATISFIED")
      /\ UNCHANGED << pc, prio, result, object, cancel, cancel_status, timer,
                      valid_thread, completion, leaving, endless >>
  BY DEF SleepExpire
<1>3. /\ signaled' \in [Event -> BOOLEAN] /\ signaled'[t]
      /\ \A u \in Thread \ {t} : signaled'[u] = signaled[u]
      /\ sleep_timer' \in [Thread -> BOOLEAN] /\ ~sleep_timer'[t]
      /\ \A u \in Thread \ {t} : sleep_timer'[u] = sleep_timer[u]
  BY <1>1, <1>2 DEF WaitInv, WaitTypeOK, Event, LifeTypes
<1>4. /\ q \in WaitQueue /\ Sleeps(t) /\ t \notin endless /\ object[t] = q
      /\ \A u \in Thread : Completion(u) # q
  BY <1>1, <1>2, ThreadQueuesDiffer DEF Life, Sleeps
<1>5. \A u \in Waiters(q) : /\ u = t /\ pc[u] = "blocked" /\ status[u] = "IN_PROGRESS"
                            /\ state[u] # "COMPLETED"
  <2>1. \A u \in Waiters(q) :
          /\ u \in Thread /\ pc[u] = "blocked" /\ object[u] = q
          /\ status[u] = "IN_PROGRESS" /\ state[u] # "COMPLETED"
    BY <1>4 DEF Waiters, WaitInv, LinksConsistent
  <2>2. \A u \in Waiters(q) : u = t
    BY <1>1, <2>1 DEF Life
  <2> QED BY <2>1, <2>2
<1> HIDE DEF q
<1>6. \A u \in Thread : ~timer[u] /\ cancel[u] # u
  BY <1>1, WaitAssumption DEF WaitInv, TimerBelongsToWait
<1>7. \A u \in Thread : status[u] = "IN_PROGRESS" /\ pc[u] = "blocked" /\ object[u] = q
                          => u \in Waiters(q)
  BY <1>4 DEF WaitInv, LinksConsistent, Waiters
<1>8. /\ wq' \in [WaitQueue -> Seq(Thread)]
      /\ \A r \in WaitQueue : IsInjective(wq'[r])
      /\ \A r \in WaitQueue, u \in Thread :
           Linked(wq'[r], u) <=> Linked(wq[r], u) /\ (signaled[t] \/ u \notin Waiters(q))
      /\ \A r \in WaitQueue : r # q => wq'[r] = wq[r]
      /\ status' = [u \in Thread |-> IF ~signaled[t] /\ u \in Waiters(q)
                                     THEN "SATISFIED" ELSE status[u]]
      /\ state' = [u \in Thread |-> IF ~signaled[t] /\ u \in Waiters(q)
                                    THEN "READY" ELSE state[u]]
  <2>1. CASE signaled[t]
    BY <1>2, <2>1 DEF WaitInv, WaitTypeOK, LinksConsistent
  <2>2. CASE ~signaled[t]
    <3>1. /\ wq' = [wq EXCEPT ![q] = << >>]
          /\ status' = [u \in Thread |-> IF u \in Waiters(q) THEN "SATISFIED"
                                                             ELSE status[u]]
          /\ state' = [u \in Thread |-> IF u \in Waiters(q) THEN "READY"
                                                            ELSE state[u]]
      BY <1>2, <2>2 DEF NotifyBlocks
    <3>2. << >> \in Seq(Thread) /\ IsInjective(<< >>) /\ \A u \in Thread : ~Linked(<< >>, u)
      BY EmptySeq DEF IsInjective, Linked
    <3>3. /\ wq' \in [WaitQueue -> Seq(Thread)]
          /\ \A r \in WaitQueue : IsInjective(wq'[r])
          /\ \A r \in WaitQueue : r # q => wq'[r] = wq[r]
          /\ wq'[q] = << >>
      BY <1>4, <3>1, <3>2 DEF WaitInv, WaitTypeOK, LinksConsistent
    <3>4. \A r \in WaitQueue, u \in Thread :
            Linked(wq'[r], u) <=> Linked(wq[r], u) /\ u \notin Waiters(q)
      BY <1>4, <3>2, <3>3 DEF WaitInv, LinksConsistent, Waiters
    <3> QED BY <2>2, <3>1, <3>3, <3>4
  <2> QED BY <2>1, <2>2
<1>9. WaitTypeOK'
  <2>1. status' \in [Thread -> BlockStatus] /\ state' \in [Thread -> ThreadState]
    BY <1>8 DEF WaitInv, WaitTypeOK, BlockStatus, ThreadState
  <2> QED BY <1>2, <1>3, <1>8, <2>1 DEF WaitInv, WaitTypeOK
<1>10. LinksConsistent'
  BY <1>2, <1>5, <1>8 DEF WaitInv, LinksConsistent
<1>11. SleeperCanWake' /\ TimerBelongsToWait'
  BY <1>1, <1>2, <1>6, <1>8 DEF WaitInv, SleeperCanWake, TimerBelongsToWait
<1>12. WokenForReason'
  BY <1>2, <1>8 DEF WaitInv, WokenForReason
<1>13. Only(ThreadQueues)'
  BY <1>2 DEF Only
<1>14. \A u \in Thread \ {t} : status'[u] = status[u] /\ state'[u] = state[u]
  BY <1>5, <1>8
<1>15. state'[t] = state[t] \/ (state'[t] = "READY" /\ pc[t] = "blocked")
  BY <1>5, <1>8
<1>16. state'[t] # "WAITING"
  <2>1. ASSUME state[t] = "WAITING" PROVE ~signaled[t] /\ t \in Waiters(q)
    <3>1. pc[t] = "blocked" /\ status[t] = "IN_PROGRESS"
      BY <2>1 DEF WaitInv, SleeperCanWake
    <3> QED BY <1>1, <1>4, <1>7, <2>1, <3>1 DEF Life
  <2> QED BY <1>8, <2>1
<1>17. Life(t)'
  <2>1. Sleeps(t)' <=> Sleeps(t)
    BY <1>2 DEF Sleeps
  <2>2. wq'[Completion(t)] = wq[Completion(t)]
    BY <1>4, <1>8, ThreadQueuesDiffer
  <2> QED BY <1>1, <1>2, <1>3, <1>4, <1>15, <1>16, <2>1, <2>2 DEF Life
<1>18. \A u \in Thread : Joined(t, u)' /\ Joined(u, t)'
  <2>1. \A u \in Thread : Joined(u, t)'
    BY <1>2, <1>4 DEF Joined
  <2>2. \A u \in Thread : u # t => Joined(t, u)'
    BY <1>1, <1>2, <1>14 DEF Joined
  <2> QED BY <2>1, <2>2
<1>19. LifeInv'
  <2>1. LifeTypes'
    BY <1>1, <1>2, <1>3 DEF LifeTypes
  <2>2. \A u \in Thread : wq'[Completion(u)] = wq[Completion(u)]
    BY <1>4, <1>8, ThreadQueuesDiffer
  <2> QED BY <1>2, <1>3, <1>14, <1>17, <1>18, <2>1, <2>2, LifeMoves
<1> QED BY <1>9, <1>10, <1>11, <1>12, <1>13, <1>19 DEF WaitInv

(* A thread that has ended leaves the processor.                           *)
LEMMA SwitchFromKeeps ==
  ASSUME WaitInv, Only(ThreadQueues), LifeInv, NEW t \in Thread, SwitchFrom(t)
  PROVE  WaitInv' /\ Only(ThreadQueues)' /\ LifeInv'
<1>1. /\ LifeTypes /\ Life(t) /\ \A u \in Thread : cancel[u] = NoEvent
      /\ \A u \in Thread : Joined(t, u) /\ Joined(u, t)
  BY LifeFacts
<1>2. /\ leaving[t] /\ leaving' = [leaving EXCEPT ![t] = FALSE]
      /\ Complete(t, state) /\ completion' = [completion EXCEPT ![t] = TRUE]
      /\ UNCHANGED << pc, prio, result, object, cancel, cancel_status, signaled,
                      timer, valid_thread, sleep_timer, endless >>
  BY DEF SwitchFrom, Complete, restVars, lifeVars
<1>3. pc[t] = "dead" /\ state[t] = "COMPLETED"
  BY <1>1, <1>2 DEF Life, WaitInv, LinksConsistent
<1>4. t \notin Waiters(Completion(t)) /\ state \in [Thread -> ThreadState]
  BY <1>3, ThreadQueuesDiffer DEF Waiters, WaitInv, WaitTypeOK, LinksConsistent
<1>5. /\ wq' \in [WaitQueue -> Seq(Thread)]
      /\ wq'[Completion(t)] = << >>
      /\ \A q \in WaitQueue : IsInjective(wq'[q])
      /\ \A q \in WaitQueue, u \in Thread :
           Linked(wq'[q], u) <=> /\ Linked(wq[q], u) /\ u # t
                                 /\ q # Completion(t)
      /\ \A q \in WaitQueue : wq[q] = << >> => wq'[q] = << >>
      /\ status' \in [Thread -> BlockStatus]
      /\ state' \in [Thread -> ThreadState]
      /\ \A u \in Thread \ {t} :
           IF u \in Waiters(Completion(t))
           THEN /\ pc[u] = "blocked" /\ object[u] = Completion(t)
                /\ status[u] = "IN_PROGRESS"
                /\ status'[u] = "SATISFIED" /\ state'[u] = "READY"
           ELSE status'[u] = status[u] /\ state'[u] = state[u]
      /\ status'[t] = RolledBack(t, status[t]) /\ state'[t] = state[t]
  BY <1>2, <1>4, CompleteEffect
<1>6. /\ leaving' \in [Thread -> BOOLEAN] /\ completion' \in [Thread -> BOOLEAN]
      /\ ~leaving'[t] /\ completion'[t]
      /\ \A u \in Thread \ {t} : leaving'[u] = leaving[u]
                                 /\ completion'[u] = completion[u]
  BY <1>1, <1>2 DEF LifeTypes
<1>7. \A u \in Thread \ {t} :
        \/ status'[u] = status[u] /\ state'[u] = state[u]
        \/ /\ pc[u] = "blocked" /\ object[u] = Completion(t)
           /\ status'[u] = "SATISFIED" /\ state'[u] = "READY"
  BY <1>5
<1>8. WaitTypeOK'
  BY <1>2, <1>5 DEF WaitInv, WaitTypeOK
<1>9. LinksConsistent'
  <2>1. ASSUME NEW u \in Thread, NEW q \in WaitQueue
        PROVE  Linked(wq'[q], u) <=> /\ object'[u] = q
                                     /\ pc'[u] = "blocked"
                                     /\ status'[u] = "IN_PROGRESS"
    <3>1. CASE u = t
      BY <1>2, <1>3, <1>5, <3>1
    <3>2. CASE u # t /\ u \in Waiters(Completion(t))
      <4>1. ~Linked(wq'[q], u)
        BY <1>5, <3>2, ZenonT(30) DEF WaitInv, LinksConsistent
      <4> QED BY <1>5, <3>2, <4>1
    <3>3. CASE u # t /\ u \notin Waiters(Completion(t))
      <4>1. Linked(wq'[q], u) <=> Linked(wq[q], u)
        BY <1>5, <3>3 DEF Waiters
      <4> QED BY <1>2, <1>5, <3>3, <4>1, SMTT(30) DEF WaitInv, LinksConsistent
    <3> QED BY <3>1, <3>2, <3>3
  <2>2. ASSUME NEW u \in Thread
        PROVE  /\ cancel_status'[u] = "IN_PROGRESS" => pc'[u] = "blocked"
               /\ state'[u] = "COMPLETED" <=> pc'[u] = "dead"
    BY <1>2, <1>5, <1>7 DEF WaitInv, LinksConsistent
  <2> QED BY <1>5, <2>1, <2>2 DEF LinksConsistent
<1>10. SleeperCanWake' /\ TimerBelongsToWait'
  <2>1. SleeperCanWake'
    BY <1>2, <1>3, <1>5, <1>7 DEF WaitInv, SleeperCanWake
  <2>2. TimerBelongsToWait'
    BY <1>2 DEF WaitInv, TimerBelongsToWait
  <2> QED BY <2>1, <2>2
<1>11. WokenForReason'
  BY <1>2, <1>3, <1>5, <1>7 DEF WaitInv, WokenForReason
<1>12. Only(ThreadQueues)'
  BY <1>2 DEF Only
<1>13. Life(t)'
  BY <1>1, <1>2, <1>3, <1>5, <1>6 DEF Life, Sleeps
<1>14. \A u \in Thread : Joined(t, u)' /\ Joined(u, t)'
  BY <1>2, <1>3, <1>6 DEF Joined
<1>15. LifeInv'
  <2>1. LifeTypes'
    BY <1>1, <1>2, <1>6 DEF LifeTypes
  <2>2. \A u \in Thread : wq[Completion(u)] = << >> => wq'[Completion(u)] = << >>
    BY <1>5, ThreadQueuesDiffer
  <2> QED BY <1>2, <1>6, <1>7, <1>13, <1>14, <2>1, <2>2, LifeMoves
<1> QED BY <1>8, <1>9, <1>10, <1>11, <1>12, <1>15 DEF WaitInv

LEMMA ThreadStepKeeps ==
  ASSUME WaitInv, Only(ThreadQueues), LifeInv, ThreadStep
  PROVE  WaitInv' /\ Only(ThreadQueues)' /\ LifeInv'
<1> DEFINE Kept == WaitInv' /\ Only(ThreadQueues)' /\ LifeInv'
<1>1. ASSUME NEW t \in Thread, NEW u \in Thread, JoinTestAndWait(t, u) PROVE Kept
  <2>1. /\ Enters(t, Completion(u)) /\ UNCHANGED threadVars /\ ~leaving[u]
        /\ Completion(u) \in WaitQueue /\ Completion(u) # TimerEvent(t)
        /\ \A v \in Thread : Completion(u) = Completion(v) => v = u
    BY <1>1, ThreadQueuesDiffer DEF JoinTestAndWait, Dispatched
  <2>2. CASE completion[u]
    <3>1. Proceed(t) /\ UNCHANGED prio
      BY <1>1, <2>2 DEF JoinTestAndWait
    <3> QED BY <2>1, <2>2, <3>1, ProceedLives
  <2>3. CASE ~completion[u]
    <3>1. Block(t)
      BY <1>1, <2>3 DEF JoinTestAndWait
    <3> QED BY <2>1, <2>3, <3>1, BlockLives
  <2> QED BY <2>2, <2>3
<1>2. ASSUME NEW t \in Thread, SleepTestAndWait(t) PROVE Kept
  <2>1. /\ Enters(t, TimerEvent(t)) /\ UNCHANGED threadVars
        /\ TimerEvent(t) \in WaitQueue
        /\ \A v \in Thread : TimerEvent(t) # Completion(v)
    BY <1>2, ThreadQueuesDiffer DEF SleepTestAndWait
  <2>2. CASE signaled[t]
    <3>1. Proceed(t) /\ UNCHANGED prio
      BY <1>2, <2>2 DEF SleepTestAndWait
    <3> QED BY <2>1, <3>1, ProceedLives
  <2>3. CASE ~signaled[t]
    <3>1. Block(t)
      BY <1>2, <2>3 DEF SleepTestAndWait
    <3> QED BY <2>1, <2>3, <3>1, BlockLives
  <2> QED BY <2>2, <2>3
<1>3. ASSUME NEW t \in Thread, Suspend(t) PROVE Kept
  BY <1>3, SuspensionKeeps DEF Suspend, Runs
<1>4. ASSUME NEW t \in Thread, Resume(t) PROVE Kept
  <2>1. pc[t] = "running"
    BY <1>4, LifeFacts DEF Resume, Life
  <2> QED BY <1>4, <2>1, SuspensionKeeps DEF Resume
<1>5. ASSUME NEW t \in Thread, Exit(t) \/ SwitchFrom(t) \/ ThreadDeinit(t) PROVE Kept
  BY <1>5, ExitKeeps, SwitchFromKeeps, ThreadDeinitKeeps
<1>6. ASSUME NEW t \in Thread, NEW p \in Prio, NEW suspended \in BOOLEAN,
             ThreadInit(t, p, suspended)
      PROVE  Kept
  BY <1>6, ThreadInitKeeps
<1>7. ASSUME NEW t \in Thread, NEW u \in Thread, Join(t, u) PROVE Kept
  BY <1>7, JoinKeeps
<1>8. ASSUME NEW t \in Thread, NEW ticks \in {"finite", "infinite"}, SleepFor(t, ticks)
      PROVE  Kept
  BY <1>8, SleepForKeeps
<1>9. ASSUME NEW t \in Thread, DelayPast(t) \/ SleepExpire(t) PROVE Kept
  BY <1>9, DelayPastKeeps, SleepExpireKeeps
<1> HIDE DEF Kept
<1>10. Kept
  BY <1>1, <1>2, <1>3, <1>4, <1>5, <1>6, <1>7, <1>8, <1>9 DEF ThreadStep
<1> QED BY <1>10 DEF Kept

LEMMA ThreadWakeupKeeps ==
  ASSUME WaitInv, Only(ThreadQueues), LifeInv, NEW t \in Thread, Wakeup(t),
         Dispatched, UNCHANGED threadVars
  PROVE  WaitInv' /\ Only(ThreadQueues)' /\ LifeInv'
<1>1. /\ LifeTypes /\ Life(t) /\ \A u \in Thread : Joined(t, u) /\ Joined(u, t)
  BY LifeFacts
<1>2. UNCHANGED << valid_thread, completion, leaving, sleep_timer, endless >>
  BY DEF threadVars
<1>3. /\ WaitInv' /\ Only(ThreadQueues)'
      /\ pc[t] = "blocked" /\ pc'[t] = "returning"
      /\ result'[t] = "OK" <=> status[t] = "SATISFIED"
      /\ \A q \in WaitQueue : wq[q] = << >> => wq'[q] = << >>
      /\ \A u \in Thread \ {t} : /\ pc'[u] = pc[u] /\ result'[u] = result[u]
                                 /\ status'[u] = status[u]
      /\ UNCHANGED << object, state, cancel, signaled >>
  BY WakeupKeeps
<1>4. /\ cancel_status'[t] # "IN_PROGRESS" /\ state[t] = "READY"
      /\ \A u \in Thread \ {t} : cancel_status'[u] = cancel_status[u]
  BY DEF Wakeup, Rollback, RolledBack, WaitInv, WaitTypeOK
<1>5. \A u \in Thread : wq[Completion(u)] = << >> => wq'[Completion(u)] = << >>
  BY <1>3, ThreadQueuesDiffer
<1>6. Life(t)'
  BY <1>1, <1>2, <1>3, <1>4, <1>5 DEF Life, Sleeps
<1>7. \A u \in Thread : Joined(t, u)' /\ Joined(u, t)'
  <2>1. \A u \in Thread : ~leaving'[u]
    BY <1>2 DEF Dispatched
  <2> QED BY <1>1, <1>2, <1>3, <2>1 DEF Joined
<1>8. LifeInv'
  <2>1. LifeTypes'
    BY <1>1, <1>2 DEF LifeTypes
  <2> QED BY <1>2, <1>3, <1>4, <1>5, <1>6, <1>7, <2>1, LifeMoves
<1> QED BY <1>3, <1>8

LEMMA ThreadReturnKeeps ==
  ASSUME WaitInv, Only(ThreadQueues), LifeInv, NEW t \in Thread, Return(t),
         ThreadReturn(t)
  PROVE  WaitInv' /\ Only(ThreadQueues)' /\ LifeInv'
<1>1. /\ LifeTypes /\ Life(t) /\ \A u \in Thread : Joined(t, u) /\ Joined(u, t)
  BY LifeFacts
<1>2. /\ sleep_timer' = [sleep_timer EXCEPT ![t] = FALSE]
      /\ endless' = endless \ {t}
      /\ UNCHANGED << valid_thread, completion, leaving >>
  BY DEF ThreadReturn
<1>3. /\ WaitInv' /\ Only(ThreadQueues)'
      /\ pc[t] = "returning" /\ pc'[t] = "running" /\ object'[t] = NoObject
      /\ \A u \in Thread \ {t} : /\ pc'[u] = pc[u] /\ result'[u] = result[u]
                                 /\ status'[u] = status[u]
                                 /\ object'[u] = object[u]
                                 /\ cancel'[u] = cancel[u]
                                 /\ cancel_status'[u] = cancel_status[u]
      /\ cancel'[t] = NoEvent /\ cancel_status'[t] = "CANCELLED"
      /\ UNCHANGED << wq, state, signaled >>
  BY ReturnKeeps
<1>4. /\ sleep_timer' \in [Thread -> BOOLEAN] /\ ~sleep_timer'[t]
      /\ \A u \in Thread \ {t} : sleep_timer'[u] = sleep_timer[u]
      /\ t \notin endless'
      /\ \A u \in Thread \ {t} : u \in endless' <=> u \in endless
  BY <1>1, <1>2 DEF LifeTypes
<1>5. Life(t)'
  BY <1>1, <1>2, <1>3, <1>4 DEF Life, Sleeps
<1>6. \A u \in Thread : Joined(t, u)' /\ Joined(u, t)'
  BY <1>1, <1>2, <1>3 DEF Joined
<1>7. LifeInv'
  <2>1. LifeTypes'
    BY <1>1, <1>2, <1>4 DEF LifeTypes
  <2> QED BY <1>2, <1>3, <1>4, <1>5, <1>6, <2>1, LifeMoves
<1> QED BY <1>3, <1>7

LEMMA ThreadKillKeeps ==
  ASSUME WaitInv, Only(ThreadQueues), LifeInv, NEW t \in Thread, Kill(t)
  PROVE  WaitInv' /\ Only(ThreadQueues)' /\ LifeInv'
<1>1. /\ LifeTypes /\ Life(t) /\ \A u \in Thread : Joined(t, u) /\ Joined(u, t)
  BY LifeFacts
<1>2. /\ sleep_timer' = [sleep_timer EXCEPT ![t] = FALSE]
      /\ endless' = endless \ {t}
      /\ completion' = [completion EXCEPT ![t] = TRUE]
      /\ leaving' = leaving \/ leaving' = [leaving EXCEPT ![t] = TRUE]
      /\ valid_thread' = valid_thread
  BY DEF Kill, EndBy, Complete
<1>3. t \notin Waiters(Completion(t))
  BY <1>1, ThreadQueuesDiffer DEF Life, Waiters, WaitInv, LinksConsistent
<1>4. /\ WaitInv' /\ Only(ThreadQueues)'
      /\ pc[t] # "dead" /\ pc'[t] = "dead"
      /\ wq'[Completion(t)] = << >>
      /\ \A q \in WaitQueue : wq[q] = << >> => wq'[q] = << >>
      /\ \A u \in Thread \ {t} :
           /\ pc'[u] = pc[u] /\ object'[u] = object[u]
           /\ result'[u] = result[u] /\ cancel'[u] = cancel[u]
           /\ cancel_status'[u] = cancel_status[u]
           /\ IF u \in Waiters(Completion(t))
              THEN /\ pc[u] = "blocked" /\ object[u] = Completion(t)
                   /\ status[u] = "IN_PROGRESS"
                   /\ status'[u] = "SATISFIED" /\ state'[u] = "READY"
              ELSE status'[u] = status[u] /\ state'[u] = state[u]
      /\ cancel'[t] = NoEvent /\ cancel_status'[t] # "IN_PROGRESS"
      /\ state'[t] = "COMPLETED"
      /\ UNCHANGED signaled
  BY <1>3, KillKeeps
<1>5. /\ sleep_timer' \in [Thread -> BOOLEAN] /\ completion' \in [Thread -> BOOLEAN]
      /\ leaving' \in [Thread -> BOOLEAN]
      /\ ~sleep_timer'[t] /\ completion'[t] /\ t \notin endless'
      /\ \A u \in Thread \ {t} : /\ sleep_timer'[u] = sleep_timer[u]
                                 /\ completion'[u] = completion[u]
                                 /\ leaving'[u] = leaving[u]
                                 /\ u \in endless' <=> u \in endless
  BY <1>1, <1>2 DEF LifeTypes
<1>6. Life(t)'
  BY <1>1, <1>2, <1>4, <1>5 DEF Life, Sleeps
<1>7. \A u \in Thread : Joined(t, u)' /\ Joined(u, t)'
  <2>1. ~completion[t]
    BY <1>1, <1>4 DEF Life
  <2> QED BY <1>1, <1>4, <1>5, <2>1 DEF Joined
<1>8. LifeInv'
  <2>1. LifeTypes'
    BY <1>1, <1>2, <1>5 DEF LifeTypes
  <2>2. \A u \in Thread : wq[Completion(u)] = << >> => wq'[Completion(u)] = << >>
    BY <1>4, ThreadQueuesDiffer
  <2>3. \A u \in Thread \ {t} :
          \/ status'[u] = status[u] /\ state'[u] = state[u]
          \/ object[u] = Completion(t) /\ state'[u] = "READY" /\ completion'[t]
    BY <1>4, <1>5
  <2> QED BY <1>2, <1>4, <1>5, <1>6, <1>7, <2>1, <2>2, <2>3, LifeMoves, ZenonT(30)
<1> QED BY <1>4, <1>8

(* No event but the threads' own ends a wait: no other is passed to one.   *)
LEMMA ThreadEventKeeps ==
  ASSUME WaitInv, Only(ThreadQueues), LifeInv, EventStep, UNCHANGED threadVars
  PROVE  WaitInv' /\ Only(ThreadQueues)' /\ LifeInv'
<1>1. LifeInv /\ LifeTypes /\ \A u \in Thread : cancel[u] = NoEvent
  BY LifeFacts
<1>2. /\ UNCHANGED << valid_thread, completion, leaving, sleep_timer, endless >>
      /\ WaitInv' /\ Only(ThreadQueues)'
      /\ UNCHANGED << pc, object, wq, status, result, cancel >>
  BY EventKeeps DEF threadVars
<1>3. \A t \in Thread : ~timer[t]
  BY <1>1, WaitAssumption DEF WaitInv, TimerBelongsToWait
<1>4. \A e \in AbortEvent : CancelWaiters(e) = {} /\ e \notin Thread
  BY <1>1, WaitAssumption DEF CancelWaiters
<1>5. \A t \in Thread : /\ state'[t] = state[t] /\ cancel_status'[t] = cancel_status[t]
                        /\ signaled'[t] = signaled[t]
  BY <1>3, <1>4 DEF EventStep, TimerExpire, AbortSet, AbortReset, AbortDeinit, EventSet,
                    NotifyCancel, WaitInv, WaitTypeOK, Event
<1>6. ASSUME NEW t \in Thread PROVE Life(t)'
  <2>1. Life(t)
    BY DEF LifeInv
  <2> QED BY <1>2, <1>5, <2>1 DEF Life, Sleeps
<1>7. ASSUME NEW t \in Thread, NEW u \in Thread PROVE Joined(t, u)'
  BY <1>1, <1>2 DEF LifeInv, Joined
<1>8. LifeTypes'
  BY <1>1, <1>2 DEF LifeTypes
<1> QED BY <1>2, <1>6, <1>7, <1>8 DEF LifeInv

LEMMA ThreadsInUseInvariant == ThreadsInUse /\ Next => ThreadsInUse'
<1> SUFFICES ASSUME ThreadsInUse, Next PROVE ThreadsInUse'
  OBVIOUS
<1> DEFINE Q == ThreadQueues
<1>1. /\ WaitInv /\ Only(Q) /\ LifeInv
      /\ RwlockIdle /\ BarrierIdle /\ PoolIdle /\ EvfIdle /\ EvIdle
      /\ RdWtbl \notin Q /\ WrWtbl \notin Q /\ Barr \notin Q /\ Pool \notin Q
      /\ Evf \notin Q /\ Ev \notin Q
  BY QueuesDiffer DEF ThreadsInUse
<1> HIDE DEF Q
<1>2. /\ RwlockIdle' /\ BarrierIdle' /\ PoolIdle' /\ EvfIdle' /\ EvIdle'
      /\ ObjectStep => ThreadStep
  BY <1>1, RwlockStaysIdle, BarrierStaysIdle, PoolStaysIdle, EvfStaysIdle,
     EvStaysIdle DEF ObjectStep
<1>3. WaitInv' /\ Only(Q)' /\ LifeInv' => ThreadsInUse'
  BY <1>2 DEF ThreadsInUse, Q
<1>4. CASE ObjectStep
  BY <1>1, <1>2, <1>3, <1>4, ThreadStepKeeps DEF Q
<1>5. ASSUME NEW t \in Thread, WakeupIn(t) PROVE ThreadsInUse'
  BY <1>1, <1>3, <1>5, ThreadWakeupKeeps DEF WakeupIn, Q
<1>6. ASSUME NEW t \in Thread, ReturnTo(t) PROVE ThreadsInUse'
  BY <1>1, <1>3, <1>6, ThreadReturnKeeps DEF ReturnTo, Q
<1>7. ASSUME NEW t \in Thread, KillIn(t) PROVE ThreadsInUse'
  BY <1>1, <1>3, <1>7, ThreadKillKeeps DEF KillIn, Q
<1>8. ASSUME EventStep, UNCHANGED threadVars PROVE ThreadsInUse'
  BY <1>1, <1>3, <1>8, ThreadEventKeeps DEF Q
<1> QED BY <1>4, <1>5, <1>6, <1>7, <1>8 DEF Next

-----------------------------------------------------------------------------
(* The invariant of all of them.                                           *)

LEMMA IInvInit == Init => IInv
<1> SUFFICES ASSUME Init PROVE IInv
  OBVIOUS
<1>1. WaitInv
  BY WaitInitInvariant DEF Init
<1>2. /\ \A q \in WaitQueue : wq[q] = << >>
      /\ \A t \in Thread : /\ object[t] = NoObject /\ pc[t] = "running"
                           /\ cancel[t] = NoEvent /\ state[t] = "READY"
                           /\ cancel_status[t] # "IN_PROGRESS"
  BY DEF Init, WaitInit
<1>3. \A Q : Only(Q)
  BY <1>2 DEF Only
<1>4. \A q \in {RdWtbl, WrWtbl, Barr, Pool, Evf, Ev} : q \in WaitQueue
  BY QueuesDiffer
<1>5. ASSUME ThreadsInit(FALSE) PROVE ThreadsIdle
  BY <1>2, <1>5 DEF ThreadsInit, ThreadsIdle
<1>6. ASSUME RwlockInit(TRUE) PROVE RwInv
  <2>1. /\ rw_owner = NoWriter /\ readers = 0 /\ kicking = {}
        /\ locked = [t \in Thread |-> "none"]
    BY <1>6 DEF RwlockInit
  <2>2. \A t \in Thread, q \in RwlockQueues, how \in {"read", "write"} :
          ~Has(t, q, how)
    BY <1>2, <2>1 DEF Has, Chosen
  <2>3. Readers = {}
    BY <2>2 DEF Readers, RwlockQueues
  <2>4. Cardinality(Readers) = 0 /\ IsFiniteSet(Readers)
    BY <2>3, FS_EmptySet
  <2>5. RwExclusion
    BY <2>1, <2>2, <2>4, RwlockAssumption DEF RwExclusion, Readers, RwlockQueues
  <2>6. RwNoIdle
    BY <1>2, <1>4, EmptySeq DEF RwNoIdle, Waiters, Linked
  <2>7. RwTypes
    BY <2>1 DEF RwTypes
  <2> QED BY <2>4, <2>5, <2>6, <2>7 DEF RwInv, RwGranted
<1>7. ASSUME BarrierInit(TRUE) PROVE BarrierInv
  <2>1. Len(wq[Barr]) = 0
    BY <1>2, <1>4
  <2> QED BY <1>7, <2>1, BarrierAssumption DEF BarrierInit, BarrierInv, BarrierExact
<1>8. ASSUME PoolInit(TRUE) PROVE PoolInv
  <2>1. Cardinality(free_blocks) = 0
    BY <1>8, FS_EmptySet DEF PoolInit
  <2>2. PoolPlaces
    BY <1>8 DEF PoolInit, PoolPlaces
  <2>3. PoolBlocks
    BY <1>8, <2>1, <2>2, PoolAssumption DEF PoolInit, PoolBlocks
  <2>4. PoolFrames
    BY <1>8 DEF PoolInit, PoolFrames
  <2>5. PoolNoIdle
    BY <1>2, <1>4 DEF PoolNoIdle
  <2> QED BY <2>3, <2>4, <2>5 DEF PoolInv
<1>9. ASSUME EvfInit(TRUE) PROVE EvfInv
  BY <1>2, <1>9 DEF EvfInit, EvfInv, EvfFrame
<1>10. EvInv
  BY <1>2, <1>4 DEF EvInv, EvNoIdle
<1>11. ASSUME ThreadsInit(TRUE) PROVE LifeInv
  <2>1. \A t \in Thread : Life(t)
    BY <1>2, <1>11, WaitAssumption DEF ThreadsInit, Life, Sleeps
  <2>2. \A t, u \in Thread : Joined(t, u)
    BY <1>2 DEF Joined
  <2>3. LifeTypes
    BY <1>11 DEF ThreadsInit, LifeTypes
  <2> QED BY <2>1, <2>2, <2>3 DEF LifeInv
<1>12. PICK o \in {"rwlock", "barrier", "pool", "flags", "event", "threads"} :
         /\ RwlockInit(o = "rwlock") /\ BarrierInit(o = "barrier")
         /\ PoolInit(o = "pool") /\ EvfInit(o = "flags")
         /\ EvInit(o = "event") /\ ThreadsInit(o = "threads")
  BY DEF Init
<1>13. /\ o # "rwlock" => RwlockIdle
       /\ o # "barrier" => BarrierIdle
       /\ o # "pool" => PoolIdle
       /\ o # "flags" => EvfIdle
       /\ o # "event" => EvIdle
       /\ o # "threads" => ThreadsIdle
  BY <1>5, <1>12
  DEF RwlockIdle, RwlockInit, BarrierIdle, BarrierInit, PoolIdle, PoolInit,
      EvfIdle, EvfInit, EvIdle, EvInit, ThreadsInit
<1>14. CASE o = "rwlock"
  <2>1. RwInv
    BY <1>6, <1>12, <1>14 DEF RwlockInit
  <2> QED BY <1>1, <1>3, <1>13, <1>14, <2>1 DEF IInv, RwlockInUse
<1>15. CASE o = "barrier"
  <2>1. BarrierInv
    BY <1>7, <1>12, <1>15 DEF BarrierInit
  <2> QED BY <1>1, <1>3, <1>13, <1>15, <2>1 DEF IInv, BarrierInUse
<1>16. CASE o = "pool"
  <2>1. PoolInv
    BY <1>8, <1>12, <1>16 DEF PoolInit
  <2> QED BY <1>1, <1>3, <1>13, <1>16, <2>1 DEF IInv, PoolInUse
<1>17. CASE o = "flags"
  <2>1. EvfInv
    BY <1>9, <1>12, <1>17 DEF EvfInit
  <2> QED BY <1>1, <1>3, <1>13, <1>17, <2>1 DEF IInv, EvfInUse
<1>18. CASE o = "event"
  BY <1>1, <1>3, <1>10, <1>13, <1>18 DEF IInv, EvInUse
<1>19. CASE o = "threads"
  <2>1. LifeInv
    BY <1>11, <1>12, <1>19 DEF ThreadsInit
  <2> QED BY <1>1, <1>3, <1>13, <1>19, <2>1 DEF IInv, ThreadsInUse
<1> QED BY <1>14, <1>15, <1>16, <1>17, <1>18, <1>19

LEMMA IInvStutters ==
  ASSUME IInv, UNCHANGED vars
  PROVE  IInv'
<1>1. UNCHANGED waitVars
  BY DEF vars
<1>2. WaitInv'
  <2>1. WaitInv
    BY DEF IInv, RwlockInUse, BarrierInUse, PoolInUse, EvfInUse, EvInUse, ThreadsInUse
  <2> QED BY <1>1, <2>1, WaitUnchanged
<1>3. \A Q : Only(Q) => Only(Q)'
  BY <1>1 DEF Only, waitVars
<1>4. /\ RwlockIdle => RwlockIdle'
      /\ RwInv => RwInv'
  BY <1>1 DEF vars, waitVars, rwlockVars, RwlockIdle, RwlockInit, RwInv, RwTypes,
              RwNoIdle, RwGranted, RwExclusion, Readers, Has, Chosen, Waiters
<1>5. /\ BarrierIdle => BarrierIdle'
      /\ BarrierInv => BarrierInv'
  BY <1>1 DEF vars, waitVars, barrierVars, BarrierIdle, BarrierInit, BarrierInv,
              BarrierExact
<1>6. /\ PoolIdle => PoolIdle'
      /\ PoolInv => PoolInv'
  BY <1>1 DEF vars, waitVars, poolVars, PoolIdle, PoolInit, PoolInv, PoolBlocks,
              PoolPlaces, PoolFrames, PoolNoIdle, HasBlock
<1>7. /\ EvfIdle => EvfIdle'
      /\ EvfInv => EvfInv'
  BY <1>1 DEF vars, waitVars, evfVars, EvfIdle, EvfInit, EvfInv, EvfFrame
<1>8. /\ EvIdle => EvIdle'
      /\ EvInv => EvInv'
  BY <1>1 DEF vars, waitVars, eventVars, EvIdle, EvInit, EvInv, EvNoIdle
<1>9. /\ ThreadsIdle => ThreadsIdle'
      /\ LifeInv => LifeInv'
  BY <1>1 DEF vars, waitVars, threadVars, ThreadsIdle, LifeInv, LifeTypes, Life,
              Joined, Sleeps
<1> QED BY <1>2, <1>3, <1>4, <1>5, <1>6, <1>7, <1>8, <1>9
        DEF IInv, RwlockInUse, BarrierInUse, PoolInUse, EvfInUse, EvInUse,
            ThreadsInUse

LEMMA IInvStep ==
  ASSUME IInv, [Next]_vars
  PROVE  IInv'
BY IInvStutters, RwInUseInvariant, BarrierInUseInvariant, PoolInUseInvariant,
   EvfInUseInvariant, EvInUseInvariant, ThreadsInUseInvariant DEF IInv

-----------------------------------------------------------------------------
(* What the invariant says of a primitive that is not in use.              *)

LEMMA RwlockIdleKeepsPromises ==
  ASSUME WaitInv, NEW Q, Only(Q), RdWtbl \notin Q, WrWtbl \notin Q, RwlockIdle
  PROVE  RwExclusion /\ RwNoIdle
<1>1. /\ rw_owner = NoWriter /\ readers = 0
      /\ locked = [t \in Thread |-> "none"]
  BY DEF RwlockIdle, RwlockInit
<1>2. /\ \A t \in Thread : object[t] # RdWtbl /\ object[t] # WrWtbl
      /\ wq[RdWtbl] = << >> /\ wq[WrWtbl] = << >>
  BY NobodyThere, QueuesDiffer
<1>3. \A t \in Thread : ~Has(t, RdWtbl, "read") /\ ~Has(t, WrWtbl, "write")
  BY <1>1, <1>2 DEF Has, Chosen
<1>4. Readers = {}
  BY <1>3 DEF Readers
<1>5. Cardinality(Readers) = 0
  BY <1>4, FS_EmptySet
<1>6. RwExclusion
  BY <1>1, <1>3, <1>5, RwlockAssumption DEF RwExclusion, Readers
<1> QED BY <1>2, <1>6, EmptySeq DEF RwNoIdle, Waiters, Linked

LEMMA BarrierIdleKeepsPromises == BarrierIdle => BarrierExact
BY DEF BarrierIdle, BarrierInit, BarrierExact

LEMMA PoolIdleKeepsPromises ==
  ASSUME WaitInv, NEW Q, Only(Q), Pool \notin Q, PoolIdle
  PROVE  PoolConserved /\ PoolNoIdle
<1>1. wq[Pool] = << >>
  BY NobodyThere, QueuesDiffer
<1>2. PoolNoIdle
  BY <1>1 DEF PoolNoIdle
<1>3. Cardinality(free_blocks) = 0
  BY FS_EmptySet DEF PoolIdle, PoolInit
<1>4. PoolPlaces
  BY DEF PoolIdle, PoolInit, PoolPlaces
<1>5. PoolBlocks
  BY <1>3, <1>4, PoolAssumption DEF PoolIdle, PoolInit, PoolBlocks
<1>6. PoolFrames
  BY DEF PoolIdle, PoolInit, PoolFrames
<1>7. PoolInv
  BY <1>2, <1>5, <1>6 DEF PoolInv
<1> QED BY <1>2, <1>7, PlacesConserve

LEMMA EvfIdleKeepsPromises ==
  ASSUME WaitInv, NEW Q, Only(Q), Evf \notin Q, EvfIdle
  PROVE  EvfStatusAgrees /\ EvfNoIdle
<1>1. \A t \in Thread : ~Linked(wq[Evf], t)
  BY NobodyThere, QueuesDiffer
<1>2. Waiters(Evf) = {}
  BY <1>1 DEF Waiters
<1>3. EvfNoIdle
  BY <1>2 DEF EvfNoIdle
<1>4. EvfStatusAgrees
  BY DEF EvfIdle, EvfInit, EvfStatusAgrees
<1> QED BY <1>3, <1>4

LEMMA EvIdleKeepsPromises == EvIdle => EvNoIdle
BY DEF EvIdle, EvInit, EvNoIdle

LEMMA ThreadsIdleKeepPromises ==
  ASSUME WaitInv, NEW Q, Only(Q), Q \cap ThreadQueues = {}, ThreadsIdle
  PROVE  JoinSeesEnd /\ SleepEnds
<1>1. \A t \in Thread : /\ \A u \in Thread : object[u] # Completion(t)
                        /\ object[t] # TimerEvent(t)
                        /\ wq[Completion(t)] = << >>
  BY NobodyThere, QueuesDiffer
<1>2. \A t \in Thread : completion[t] <=> pc[t] = "dead"
  BY DEF ThreadsIdle
<1>3. \A t \in Thread : ~leaving[t] /\ ~sleep_timer[t]
  BY DEF ThreadsIdle
<1>4. \A t \in Thread : pc[t] = "dead" =>
        /\ state[t] = "COMPLETED" /\ cancel_status[t] # "IN_PROGRESS" /\ ~timer[t]
        /\ \A q \in WaitQueue : t \notin Waiters(q)
  BY DEF WaitInv, LinksConsistent, TimerBelongsToWait, Waiters, Linked
<1>5. \A t \in Thread : state[t] = "COMPLETED" => pc[t] = "dead"
  BY DEF WaitInv, LinksConsistent
<1>6. JoinSeesEnd
  BY <1>1, <1>2, <1>3, <1>4, <1>5 DEF JoinSeesEnd
<1>7. SleepEnds
  BY <1>1, <1>3 DEF SleepEnds
<1> QED BY <1>6, <1>7

LEMMA LivesKeepPromises == WaitInv /\ LifeInv => JoinSeesEnd /\ SleepEnds
<1> SUFFICES ASSUME WaitInv, LifeInv PROVE JoinSeesEnd /\ SleepEnds
  OBVIOUS
<1>1. \A t \in Thread : Life(t)
  BY DEF LifeInv
<1>2. \A t \in Thread : pc[t] = "dead" =>
        /\ state[t] = "COMPLETED" /\ cancel_status[t] # "IN_PROGRESS" /\ ~timer[t]
        /\ \A q \in WaitQueue : t \notin Waiters(q)
  BY DEF WaitInv, LinksConsistent, TimerBelongsToWait, Waiters, Linked
<1>3. \A t \in Thread : /\ state[t] = "COMPLETED" => pc[t] = "dead"
                        /\ state[t] = "WAITING" => pc[t] = "blocked"
  BY DEF WaitInv, LinksConsistent, WaitTypeOK, SleeperCanWake
<1>4. \A t \in Thread : /\ completion[t] => pc[t] = "dead"
                        /\ pc[t] = "dead" /\ ~completion[t] => leaving[t]
                        /\ completion[t] => wq[Completion(t)] = << >>
                        /\ sleep_timer[t] => pc[t] # "dead"
  BY <1>1 DEF Life, Sleeps
<1>5. \A t, u \in Thread :
        pc[u] = "returning" /\ object[u] = Completion(t) /\ result[u] = "OK"
          => completion[t] /\ ~leaving[t]
  BY DEF LifeInv, Joined
<1>6. JoinSeesEnd
  BY <1>2, <1>3, <1>4, <1>5 DEF JoinSeesEnd
<1>7. SleepEnds
  BY <1>1, <1>3 DEF Life, Sleeps, SleepEnds
<1> QED BY <1>6, <1>7

LEMMA PromisesKept ==
  ASSUME IInv
  PROVE  /\ NobodyWaitsInVain /\ RwExclusion /\ BarrierExact /\ PoolConserved
         /\ EvfStatusAgrees /\ JoinSeesEnd /\ SleepEnds
<1> DEFINE Differ(Q) == Q \in {RwlockQueues, {Barr}, {Pool}, {Evf}, {Ev}}
<1>1. \A Q : Differ(Q) => Q \cap ThreadQueues = {}
  BY QueuesDiffer DEF RwlockQueues
<1>2. /\ Barr \notin RwlockQueues /\ Pool \notin RwlockQueues
      /\ Evf \notin RwlockQueues /\ Ev \notin RwlockQueues
  BY QueuesDiffer DEF RwlockQueues
<1>3. ASSUME WaitInv, NEW Q, Only(Q), Differ(Q), ThreadsIdle
      PROVE  JoinSeesEnd /\ SleepEnds
  BY <1>1, <1>3, ThreadsIdleKeepPromises
<1> HIDE DEF Differ
<1>4. CASE RwlockInUse
  <2>1. RwExclusion /\ RwNoIdle
    BY <1>4 DEF RwlockInUse, RwInv, RwGranted
  <2>2. PoolConserved /\ PoolNoIdle
    BY <1>2, <1>4, PoolIdleKeepsPromises DEF RwlockInUse
  <2>3. EvfStatusAgrees /\ EvfNoIdle
    BY <1>2, <1>4, EvfIdleKeepsPromises DEF RwlockInUse
  <2>4. JoinSeesEnd /\ SleepEnds
    BY <1>3, <1>4 DEF RwlockInUse, Differ
  <2> QED BY <1>4, <2>1, <2>2, <2>3, <2>4, BarrierIdleKeepsPromises,
             EvIdleKeepsPromises DEF RwlockInUse, NobodyWaitsInVain
<1>5. CASE BarrierInUse
  <2>1. RwExclusion /\ RwNoIdle
    BY <1>5, QueuesDiffer, RwlockIdleKeepsPromises DEF BarrierInUse
  <2>2. PoolConserved /\ PoolNoIdle
    BY <1>5, QueuesDiffer, PoolIdleKeepsPromises DEF BarrierInUse
  <2>3. EvfStatusAgrees /\ EvfNoIdle
    BY <1>5, QueuesDiffer, EvfIdleKeepsPromises DEF BarrierInUse
  <2>4. JoinSeesEnd /\ SleepEnds
    BY <1>3, <1>5 DEF BarrierInUse, Differ
  <2> QED BY <1>5, <2>1, <2>2, <2>3, <2>4, EvIdleKeepsPromises
          DEF BarrierInUse, BarrierInv, NobodyWaitsInVain
<1>6. CASE PoolInUse
  <2>1. RwExclusion /\ RwNoIdle
    BY <1>6, QueuesDiffer, RwlockIdleKeepsPromises DEF PoolInUse
  <2>2. PoolConserved /\ PoolNoIdle
    BY <1>6, PlacesConserve DEF PoolInUse, PoolInv
  <2>3. EvfStatusAgrees /\ EvfNoIdle
    BY <1>6, QueuesDiffer, EvfIdleKeepsPromises DEF PoolInUse
  <2>4. JoinSeesEnd /\ SleepEnds
    BY <1>3, <1>6 DEF PoolInUse, Differ
  <2> QED BY <1>6, <2>1, <2>2, <2>3, <2>4, BarrierIdleKeepsPromises,
             EvIdleKeepsPromises DEF PoolInUse, NobodyWaitsInVain
<1>7. CASE EvfInUse
  <2>1. RwExclusion /\ RwNoIdle
    BY <1>7, QueuesDiffer, RwlockIdleKeepsPromises DEF EvfInUse
  <2>2. PoolConserved /\ PoolNoIdle
    BY <1>7, QueuesDiffer, PoolIdleKeepsPromises DEF EvfInUse
  <2>3. EvfStatusAgrees /\ EvfNoIdle
    BY <1>7, FramesAgree DEF EvfInUse
  <2>4. JoinSeesEnd /\ SleepEnds
    BY <1>3, <1>7 DEF EvfInUse, Differ
  <2> QED BY <1>7, <2>1, <2>2, <2>3, <2>4, BarrierIdleKeepsPromises,
             EvIdleKeepsPromises DEF EvfInUse, NobodyWaitsInVain
<1>8. CASE EvInUse
  <2>1. RwExclusion /\ RwNoIdle
    BY <1>8, QueuesDiffer, RwlockIdleKeepsPromises DEF EvInUse
  <2>2. PoolConserved /\ PoolNoIdle
    BY <1>8, QueuesDiffer, PoolIdleKeepsPromises DEF EvInUse
  <2>3. EvfStatusAgrees /\ EvfNoIdle
    BY <1>8, QueuesDiffer, EvfIdleKeepsPromises DEF EvInUse
  <2>4. JoinSeesEnd /\ SleepEnds
    BY <1>3, <1>8 DEF EvInUse, Differ
  <2> QED BY <1>8, <2>1, <2>2, <2>3, <2>4, BarrierIdleKeepsPromises
          DEF EvInUse, EvInv, NobodyWaitsInVain
<1>9. CASE ThreadsInUse
  <2>1. RwExclusion /\ RwNoIdle
    BY <1>9, QueuesDiffer, RwlockIdleKeepsPromises DEF ThreadsInUse
  <2>2. PoolConserved /\ PoolNoIdle
    BY <1>9, QueuesDiffer, PoolIdleKeepsPromises DEF ThreadsInUse
  <2>3. EvfStatusAgrees /\ EvfNoIdle
    BY <1>9, QueuesDiffer, EvfIdleKeepsPromises DEF ThreadsInUse
  <2>4. JoinSeesEnd /\ SleepEnds
    BY <1>9, LivesKeepPromises DEF ThreadsInUse
  <2> QED BY <1>9, <2>1, <2>2, <2>3, <2>4, BarrierIdleKeepsPromises,
             EvIdleKeepsPromises DEF ThreadsInUse, NobodyWaitsInVain
<1> QED BY <1>4, <1>5, <1>6, <1>7, <1>8, <1>9 DEF IInv

-----------------------------------------------------------------------------
(* Whichever primitive is in use, its invariant and that of the wait       *)
(* framework hold after every call, time-out, abort, termination and       *)
(* event, for any number of threads.                                       *)
THEOREM InductiveInvariant == Spec => []IInv
<1>1. Init => IInv
  BY IInvInit
<1>2. IInv /\ [Next]_vars => IInv'
  BY IInvStep
<1> QED BY <1>1, <1>2, PTL DEF Spec

(* Threads end and come back, wait with time-outs for the objects and for  *)
(* each other, but every queue entry, timer and status stays with the wait *)
(* it belongs to: what FxWaitProofs shows of the framework alone is true   *)
(* also of the framework as these primitives and fx_thread_* use it.       *)
THEOREM WaitsHold == Spec => []WaitInv
<1>1. IInv => WaitInv
  BY DEF IInv, RwlockInUse, BarrierInUse, PoolInUse, EvfInUse, EvInUse, ThreadsInUse
<1> QED BY <1>1, InductiveInvariant, PTL

(* fx_rwlock_unlock, fx_block_pool_release, fx_ev_flags_set and            *)
(* fx_event_set wake whom they must: nobody waits for what is there, but   *)
(* the readers of a lock that wait because of a writer whose termination,  *)
(* alone among the ways in which a wait ends, did not let them in.         *)
THEOREM NobodyIsForgotten == Spec => []NobodyWaitsInVain
<1>1. IInv => NobodyWaitsInVain
  BY PromisesKept
<1> QED BY <1>1, InductiveInvariant, PTL

(* While no kick let readers in beside a writer, the lock has one writer,  *)
(* which is its owner, or the readers that it counts, whatever became of   *)
(* the threads that were granted it in a wait.                             *)
THEOREM LockExcludes == Spec => []RwExclusion
<1>1. IInv => RwExclusion
  BY PromisesKept
<1> QED BY <1>1, InductiveInvariant, PTL

(* The barrier counts the threads that wait at it and those that arrived   *)
(* and withdrew, and its number is never exceeded.                         *)
THEOREM BarrierCounts == Spec => []BarrierExact
<1>1. IInv => BarrierExact
  BY PromisesKept
<1> QED BY <1>1, InductiveInvariant, PTL

(* No block of a pool is lost or given to two threads, and the count of    *)
(* the free ones is right, for every number of blocks.                     *)
THEOREM BlocksConserved == Spec => []PoolConserved
<1>1. IInv => PoolConserved
  BY PromisesKept
<1> QED BY <1>1, InductiveInvariant, PTL

(* A thread has flags in its frame exactly if it was told of success, and  *)
(* they are the ones it asked for.                                         *)
THEOREM FlagsAgree == Spec => []EvfStatusAgrees
<1>1. IInv => EvfStatusAgrees
  BY PromisesKept
<1> QED BY <1>1, InductiveInvariant, PTL

(* fx_thread_join returns success only after the thread has ended and has  *)
(* left the processor, and nothing in the kernel still refers to it.  That *)
(* holds although fx_thread_terminate sets the completion event at once,   *)
(* also of a thread that is still on the processor: no thread runs before  *)
(* the dispatch that takes it from there.                                  *)
THEOREM JoinIsSafe == Spec => []JoinSeesEnd
<1>1. IInv => JoinSeesEnd
  BY PromisesKept
<1> QED BY <1>1, InductiveInvariant, PTL

(* A thread that sleeps has its timer running, and the timer runs for      *)
(* nothing else.                                                           *)
THEOREM SleepsEnd == Spec => []SleepEnds
<1>1. IInv => SleepEnds
  BY PromisesKept
<1> QED BY <1>1, InductiveInvariant, PTL
=============================================================================
