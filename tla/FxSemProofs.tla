---------------------------- MODULE FxSemProofs ----------------------------
(***************************************************************************)
(* Proofs about the semaphore, for every set of threads and abort events,  *)
(* all priorities and every limit of the counter.                          *)
(***************************************************************************)
EXTENDS FxSem, FxWaitProofs

-----------------------------------------------------------------------------
(* The inductive invariant: that of the wait framework, and that nothing   *)
(* can be taken while threads wait.                                        *)
IInv == WaitInv /\ TypeOK /\ NoIdleToken

(* The waiter that a post selects is one of the queue.                     *)
LEMMA SelectedWaits ==
  ASSUME WaitTypeOK, wq[Sem] # << >>, NEW p
  PROVE  WaitBlockGet(Sem, p) \in Waiters(Sem)
BY SelectedIsWaiter, SemAssumption

(* A post releases a waiter or counts, so it keeps the invariant.          *)
LEMMA PostInvariant ==
  ASSUME IInv, NEW p \in Policy, Post(p)
  PROVE  IInv'
<1> USE DEF IInv, Post
<1>1. CASE wq[Sem] # << >>
  <2> DEFINE t == WaitBlockGet(Sem, p)
  <2>1. /\ t \in Waiters(Sem) /\ Sem \in WaitQueue
        /\ NotifyOne(Sem, t, "SATISFIED")
        /\ prio' \in [Thread -> Prio]
    BY <1>1, SelectedWaits, SemAssumption DEF WaitInv, WaitTypeOK
  <2>2. WaitInv'
    <3> HIDE DEF t
    <3> QED BY <2>1, NotifyOneInvariant
  <2>3. semaphore = 0 /\ semaphore' = semaphore /\ valid' = valid
    BY <1>1, SemAssumption DEF NoIdleToken, TypeOK
  <2> QED BY <2>2, <2>3 DEF WaitInv, TypeOK, NoIdleToken
<1>2. CASE wq[Sem] = << >>
  <2>1. WaitInv'
    BY <1>2, WaitUnchanged
  <2>2. semaphore' \in 0 .. MaxCount /\ valid' = valid /\ wq' = wq
    BY <1>2, SemAssumption DEF TypeOK, waitVars
  <2> QED BY <1>2, <2>1, <2>2 DEF WaitInv, TypeOK, NoIdleToken
<1> QED BY <1>1, <1>2

(* A thread enters the queue only when the counter is zero.                *)
LEMMA TestAndWaitInvariant ==
  ASSUME IInv, NEW t \in Thread, TestAndWait(t)
  PROVE  IInv'
<1> USE DEF IInv, TestAndWait
<1>1. Sem \in WaitQueue /\ Enters(t, Sem) /\ valid' = valid
  BY SemAssumption
<1>2. CASE semaphore > 0
  <2>1. WaitInv'
    BY <1>1, <1>2, ProceedInvariant DEF WaitInv, WaitTypeOK
  <2>2. semaphore' \in 0 .. MaxCount /\ wq' = wq /\ wq[Sem] = << >>
    BY <1>2, SemAssumption DEF Proceed, TypeOK, NoIdleToken
  <2> QED BY <1>1, <2>1, <2>2 DEF WaitInv, TypeOK, NoIdleToken
<1>3. CASE ~(semaphore > 0)
  <2>1. WaitInv'
    BY <1>1, <1>3, BlockInvariant
  <2>2. semaphore' = semaphore
    BY <1>3
  <2> QED BY <1>1, <1>3, <2>1, <2>2 DEF WaitInv, TypeOK, NoIdleToken
<1> QED BY <1>2, <1>3

LEMMA TryWaitInvariant ==
  ASSUME IInv, NEW t \in Thread, TryWait(t)
  PROVE  IInv'
<1> USE DEF IInv, TryWait
<1>1. PICK r \in Result \ {"WAIT_INTERRUPTED"} : TryDone(t, r)
  BY DEF Result
<1>2. WaitInv'
  BY <1>1, TryDoneInvariant DEF WaitInv, WaitTypeOK
<1>3. semaphore' \in 0 .. MaxCount /\ valid' = valid /\ wq' = wq
      /\ (semaphore' > 0 => semaphore > 0)
  BY <1>1, SemAssumption DEF TryDone, TypeOK
<1> QED BY <1>2, <1>3 DEF WaitInv, TypeOK, NoIdleToken

(* The destructor releases every waiter there is: none is queued while the *)
(* counter is positive.                                                    *)
LEMMA DeinitInvariant ==
  ASSUME IInv, Deinit
  PROVE  /\ IInv'
         /\ wq'[Sem] = << >>
         /\ \A t \in Thread : state'[t] # "WAITING"
<1> USE DEF IInv, Deinit
<1>1. Sem \in WaitQueue /\ valid' = FALSE /\ semaphore' = semaphore
  BY SemAssumption
<1>2. WaitInv' /\ wq'[Sem] = << >>
  <2>1. CASE semaphore = 0
    BY <1>1, <2>1, NotifyAllInvariant DEF WaitInv, WaitTypeOK
  <2>2. CASE semaphore # 0
    <3>1. UNCHANGED waitVars /\ wq[Sem] = << >>
      BY <2>2, SemAssumption DEF TypeOK, NoIdleToken
    <3> QED BY <3>1, WaitUnchanged DEF waitVars
  <2> QED BY <2>1, <2>2
<1>3. ASSUME NEW t \in Thread PROVE state'[t] # "WAITING"
  <2>1. state'[t] = "WAITING" => Linked(wq'[Sem], t)
    <3>1. pc'[t] = "blocked" => object'[t] = Sem
      BY <1>2, SemAssumption DEF WaitInv, WaitTypeOK
    <3> QED BY <1>1, <1>2, <3>1 DEF WaitInv, SleeperCanWake, LinksConsistent
  <2> QED BY <1>2, <2>1 DEF Linked
<1> QED BY <1>1, <1>2, <1>3 DEF WaitInv, TypeOK, NoIdleToken

(* What the threads do of their own and to each other.                     *)
LEMMA OtherStepsInvariant ==
  ASSUME IInv, WaitStep, UNCHANGED << semaphore, valid >>
  PROVE  IInv'
<1> USE DEF IInv
<1>1. WaitInv'
  BY WaitStepInvariant
<1>2. wq[Sem] = << >> => wq'[Sem] = << >>
  <2>1. \A t \in Thread : Rollback(t) /\ wq[Sem] = << >> => wq'[Sem] = << >>
    BY SemAssumption, EmptySeq DEF Rollback, Unlink, Linked
  <2> QED BY <2>1
      DEF WaitStep, StayStep, EventStep, Leave, Wakeup, Return, TimerExpire, Terminate, SetPrio, AbortSet,
          AbortReset, AbortDeinit, EventSet
<1> QED BY <1>1, <1>2 DEF WaitInv, TypeOK, NoIdleToken

-----------------------------------------------------------------------------
(* Every reachable state satisfies the inductive invariant.                *)
THEOREM InductiveInvariant == Spec => []IInv
<1>1. Init => IInv
  BY WaitInitInvariant, SemAssumption
  DEF Init, WaitInit, IInv, WaitInv, TypeOK, NoIdleToken
<1>2. IInv /\ [Next]_vars => IInv'
  <2> SUFFICES ASSUME IInv, [Next]_vars PROVE IInv'
    OBVIOUS
  <2>1. ASSUME NEW t \in Thread, NEW c, Wait(t, c) PROVE IInv'
    <3>1. WaitInv'
      BY <2>1, CallInvariant, SemAssumption DEF IInv, Wait
    <3>2. UNCHANGED << semaphore, valid, wq >>
      BY <2>1 DEF Wait, Call
    <3> QED BY <3>1, <3>2 DEF IInv, WaitInv, TypeOK, NoIdleToken
  <2>2. ASSUME Reset PROVE IInv'
    <3>1. WaitInv'
      BY <2>2, WaitUnchanged DEF IInv, Reset
    <3> QED BY <2>2, <3>1, SemAssumption
        DEF Reset, IInv, WaitInv, TypeOK, NoIdleToken, waitVars
  <2>3. ASSUME NEW n \in 0 .. MaxCount, Reinit(n) PROVE IInv'
    <3>1. WaitInv'
      BY <2>3, WaitUnchanged DEF IInv, Reinit
    <3> QED BY <2>3, <3>1 DEF Reinit, IInv, WaitInv, TypeOK, NoIdleToken, waitVars
  <2>4. ASSUME UNCHANGED vars PROVE IInv'
    <3>1. WaitInv'
      BY <2>4, WaitUnchanged DEF IInv, vars
    <3> QED BY <2>4, <3>1 DEF vars, IInv, WaitInv, TypeOK, NoIdleToken, waitVars
  <2> QED BY <2>1, <2>2, <2>3, <2>4, PostInvariant, TestAndWaitInvariant,
             TryWaitInvariant, DeinitInvariant, OtherStepsInvariant
          DEF Next
<1> QED BY <1>1, <1>2, PTL DEF Spec

(* The variables keep their types; the counter stays within its limit.     *)
THEOREM TypeCorrect == Spec => []TypeOK
<1>1. IInv => TypeOK
  BY DEF IInv
<1> QED BY <1>1, InductiveInvariant, PTL

(* Queues, wait blocks and thread states agree.                            *)
THEOREM QueuesConsistent == Spec => []LinksConsistent
<1>1. IInv => LinksConsistent
  BY DEF IInv, WaitInv
<1> QED BY <1>1, InductiveInvariant, PTL

(* A suspended thread can still be woken, by all that should wake it.      *)
THEOREM NoLostWakeup == Spec => []SleeperCanWake
<1>1. IInv => SleeperCanWake
  BY DEF IInv, WaitInv
<1> QED BY <1>1, InductiveInvariant, PTL

(* A thread is woken only for a reason that its wait reports.              *)
THEOREM NoSpuriousWakeup == Spec => []WokenForReason
<1>1. IInv => WokenForReason
  BY DEF IInv, WaitInv
<1> QED BY <1>1, InductiveInvariant, PTL

(* No timer outlives the wait that set it.                                 *)
THEOREM NoStrayTimer == Spec => []TimerBelongsToWait
<1>1. IInv => TimerBelongsToWait
  BY DEF IInv, WaitInv
<1> QED BY <1>1, InductiveInvariant, PTL

(* No thread waits while the counter is positive.                          *)
THEOREM NoTokenIdle == Spec => []NoIdleToken
<1>1. IInv => NoIdleToken
  BY DEF IInv
<1> QED BY <1>1, InductiveInvariant, PTL

(* fx_sem_deinit, which looks for waiters only if the counter is zero,     *)
(* leaves none behind.                                                     *)
THEOREM DestructorReleasesAll == Spec => DeinitReleasesAll
<1>1. IInv /\ Deinit => /\ wq'[Sem] = << >>
                        /\ \A t \in Thread : state'[t] # "WAITING"
  BY DeinitInvariant
<1>2. IInv /\ [Next]_vars =>
        [Deinit => wq'[Sem] = << >> /\ \A t \in Thread : state'[t] # "WAITING"]_vars
  BY <1>1
<1> QED BY <1>2, InductiveInvariant, PTL DEF Spec, DeinitReleasesAll

-----------------------------------------------------------------------------
(* A post takes the waiter that its policy asks for.                       *)
THEOREM WaitersInOrder == Spec => GrantOrder
<1>1. ASSUME IInv, NEW p \in Policy, Post(p), wq[Sem] # << >>
      PROVE  \E k \in 1 .. Len(wq[Sem]) :
               /\ Waiters(Sem) \ Waiters(Sem)' = {wq[Sem][k]}
               /\ Released(wq[Sem][k])
               /\ p = "FIFO" => k = 1
               /\ p = "PRIO" => \A j \in 1 .. Len(wq[Sem]) :
                    \/ prio[wq[Sem][k]] < prio[wq[Sem][j]]
                    \/ prio[wq[Sem][k]] = prio[wq[Sem][j]] /\ k <= j
  <2> DEFINE t == WaitBlockGet(Sem, p)
  <2>1. /\ t \in Waiters(Sem) /\ Sem \in WaitQueue
        /\ wq' = [wq EXCEPT ![Sem] = Unlink(@, t)]
        /\ status' = [status EXCEPT ![t] = "SATISFIED"]
    BY <1>1, SelectedWaits, SemAssumption DEF IInv, WaitInv, Post, NotifyOne, NotifyBlock
  <2>2. PICK k \in 1 .. Len(wq[Sem]) :
          /\ t = wq[Sem][k]
          /\ p = "FIFO" => k = 1
          /\ p = "PRIO" => \A j \in 1 .. Len(wq[Sem]) :
               \/ prio[wq[Sem][k]] < prio[wq[Sem][j]]
               \/ prio[wq[Sem][k]] = prio[wq[Sem][j]] /\ k <= j
    <3>1. /\ wq[Sem] \in Seq(Thread) /\ Len(wq[Sem]) \in Nat
          /\ prio \in [Thread -> Prio]
      BY <1>1, <2>1, LenProperties DEF IInv, WaitInv, WaitTypeOK
    <3>2. CASE p = "PRIO"
      BY <1>1, <3>1, <3>2, FirstBestProperties DEF WaitBlockGet, Selected
    <3>3. CASE p # "PRIO"
      <4>1. Head(wq[Sem]) = wq[Sem][1] /\ 1 \in 1 .. Len(wq[Sem])
        BY <1>1, <3>1, EmptySeq
      <4> QED BY <3>3, <4>1 DEF WaitBlockGet, Selected
    <3> QED BY <3>2, <3>3
  <2> HIDE DEF t
  <2>3. \A u \in Thread : Linked(wq'[Sem], u) <=> Linked(wq[Sem], u) /\ u # t
    <3>1. t \in Thread
      BY <2>1 DEF Waiters
    <3> QED BY <1>1, <2>1, <3>1, UnlinkOne DEF IInv, WaitInv
  <2>4. Waiters(Sem) \ Waiters(Sem)' = {t}
    BY <2>1, <2>3 DEF Waiters
  <2>5. Released(t)
    BY <1>1, <2>1 DEF IInv, WaitInv, WaitTypeOK, LinksConsistent, Waiters, Released
  <2> QED BY <2>2, <2>4, <2>5
<1>2. IInv /\ [Next]_vars =>
        [\A p \in Policy : Post(p) /\ wq[Sem] # << >> =>
           \E k \in 1 .. Len(wq[Sem]) :
             /\ Waiters(Sem) \ Waiters(Sem)' = {wq[Sem][k]}
             /\ Released(wq[Sem][k])
             /\ p = "FIFO" => k = 1
             /\ p = "PRIO" => \A j \in 1 .. Len(wq[Sem]) :
                  \/ prio[wq[Sem][k]] < prio[wq[Sem][j]]
                  \/ prio[wq[Sem][k]] = prio[wq[Sem][j]] /\ k <= j]_vars
  BY <1>1
<1> QED BY <1>2, InductiveInvariant, PTL DEF Spec, GrantOrder

-----------------------------------------------------------------------------
(* The refinement of the abstract semaphore.                               *)
Phases == [t \in Thread |-> PhaseOf(t)]

(* A step that concerns one thread moves that thread alone.                *)
LEMMA OnePhaseMoves ==
  ASSUME NEW t \in Thread,
         \A u \in Thread \ {t} : /\ pc'[u] = pc[u]
                                 /\ status'[u] = status[u]
                                 /\ result'[u] = result[u]
  PROVE  Phases' = [Phases EXCEPT ![t] = PhaseOf(t)']
<1>1. \A u \in Thread \ {t} : PhaseOf(u)' = PhaseOf(u)
  BY DEF PhaseOf
<1> QED BY <1>1 DEF Phases

LEMMA NoPhaseMoves ==
  ASSUME UNCHANGED << pc, status, result >>
  PROVE  Phases' = Phases
BY DEF Phases, PhaseOf

(* The phase of a thread, by where it is.                                  *)
LEMMA PhaseByPc ==
  ASSUME NEW t \in Thread
  PROVE  /\ pc[t] \in {"running", "dead"} => PhaseOf(t) = "out"
         /\ pc[t] = "armed" => PhaseOf(t) = "waiting"
         /\ pc[t] = "blocked" /\ status[t] = "SATISFIED" => PhaseOf(t) = "acquired"
         /\ pc[t] = "blocked" /\ status[t] # "SATISFIED" => PhaseOf(t) = "waiting"
         /\ pc[t] = "returning" /\ result[t] = "OK" => PhaseOf(t) = "acquired"
         /\ pc[t] = "returning" /\ result[t] # "OK" => PhaseOf(t) = "failed"
BY DEF PhaseOf

LEMMA PhaseByPcAfter ==
  ASSUME NEW t \in Thread
  PROVE  /\ pc'[t] \in {"running", "dead"} => PhaseOf(t)' = "out"
         /\ pc'[t] = "armed" => PhaseOf(t)' = "waiting"
         /\ pc'[t] = "blocked" /\ status'[t] = "SATISFIED" => PhaseOf(t)' = "acquired"
         /\ pc'[t] = "blocked" /\ status'[t] # "SATISFIED" => PhaseOf(t)' = "waiting"
         /\ pc'[t] = "returning" /\ result'[t] = "OK" => PhaseOf(t)' = "acquired"
         /\ pc'[t] = "returning" /\ result'[t] # "OK" => PhaseOf(t)' = "failed"
BY DEF PhaseOf

(* The phases a thread may enter from where it is: the abstract step.      *)
LEMMA EnterPhase ==
  ASSUME NEW t \in Thread, NEW from, NEW to,
         PhaseOf(t) = from, PhaseOf(t)' = to,
         Phases' = [Phases EXCEPT ![t] = PhaseOf(t)']
  PROVE  /\ Abstract!Enter(t, from, to)
         /\ from = to => Phases' = Phases
<1>1. Phases[t] = from
  BY DEF Phases
<1>2. Abstract!Enter(t, from, to)
  BY <1>1 DEF Abstract!Enter, Phases
<1>3. from = to => Phases' = Phases
  BY <1>1 DEF Phases
<1> QED BY <1>2, <1>3

(* Calls and tests of the counter.                                         *)
LEMMA WaitRefines ==
  ASSUME IInv, NEW t \in Thread, NEW c, Wait(t, c)
  PROVE  Abstract!Next
<1>1. /\ pc[t] = "running" /\ pc' = [pc EXCEPT ![t] = "armed"]
      /\ UNCHANGED << status, result, semaphore, valid >> /\ valid
  BY DEF Wait, Call
<1>2. pc'[t] = "armed" /\ Phases' = [Phases EXCEPT ![t] = PhaseOf(t)']
  BY <1>1, OnePhaseMoves DEF IInv, WaitInv, WaitTypeOK
<1>3. PhaseOf(t) = "out" /\ PhaseOf(t)' = "waiting"
  BY <1>1, <1>2, PhaseByPc, PhaseByPcAfter
<1>4. Abstract!Enter(t, "out", "waiting")
  BY <1>2, <1>3, EnterPhase
<1> QED BY <1>1, <1>4 DEF Abstract!Next, Abstract!Request

LEMMA TestAndWaitRefines ==
  ASSUME IInv, NEW t \in Thread, TestAndWait(t)
  PROVE  Abstract!Next \/ UNCHANGED << semaphore, Phases, valid >>
<1>1. /\ pc[t] = "armed" /\ PhaseOf(t) = "waiting" /\ valid' = valid
      /\ WaitTypeOK /\ semaphore \in 0 .. MaxCount
  BY PhaseByPc DEF TestAndWait, Enters, IInv, WaitInv, TypeOK
<1>2. CASE semaphore > 0
  <2>1. /\ semaphore' = semaphore - 1
        /\ pc' = [pc EXCEPT ![t] = "returning"]
        /\ result' = [result EXCEPT ![t] = "OK"]
        /\ status' = status
    BY <1>2 DEF TestAndWait, Proceed, Skip
  <2>2. /\ pc'[t] = "returning" /\ result'[t] = "OK"
        /\ Phases' = [Phases EXCEPT ![t] = PhaseOf(t)']
    BY <1>1, <2>1, OnePhaseMoves DEF WaitTypeOK
  <2>3. PhaseOf(t)' = "acquired"
    BY <2>2, PhaseByPcAfter
  <2>4. Abstract!Enter(t, "waiting", "acquired")
    BY <1>1, <2>2, <2>3, EnterPhase
  <2> QED BY <1>1, <1>2, <2>1, <2>4 DEF Abstract!Next, Abstract!Acquire
<1>3. CASE ~(semaphore > 0)
  <2>1. semaphore' = semaphore /\ Block(t)
    BY <1>3 DEF TestAndWait
  <2>2. CASE cancel[t] # NoEvent /\ signaled[cancel[t]]
    <3>1. PICK v \in {"WAIT_TIMEOUT", "WAIT_CANCELLED"} :
            /\ pc' = [pc EXCEPT ![t] = "returning"]
            /\ result' = [result EXCEPT ![t] = v]
            /\ status' = status
      BY <2>1, <2>2 DEF Block
    <3>2. /\ pc'[t] = "returning" /\ result'[t] # "OK"
          /\ Phases' = [Phases EXCEPT ![t] = PhaseOf(t)']
      BY <1>1, <3>1, OnePhaseMoves DEF WaitTypeOK
    <3>3. PhaseOf(t)' = "failed"
      BY <3>2, PhaseByPcAfter
    <3>4. Abstract!Enter(t, "waiting", "failed")
      BY <1>1, <3>2, <3>3, EnterPhase
    <3> QED BY <1>1, <2>1, <3>4 DEF Abstract!Next, Abstract!Fail
  <2>3. CASE ~(cancel[t] # NoEvent /\ signaled[cancel[t]])
    <3>1. /\ pc' = [pc EXCEPT ![t] = "blocked"]
          /\ status' = [status EXCEPT ![t] = "IN_PROGRESS"]
          /\ result' = result
      BY <2>1, <2>3 DEF Block
    <3>2. /\ pc'[t] = "blocked" /\ status'[t] # "SATISFIED"
          /\ Phases' = [Phases EXCEPT ![t] = PhaseOf(t)']
      BY <1>1, <3>1, OnePhaseMoves DEF WaitTypeOK
    <3>3. PhaseOf(t)' = "waiting"
      BY <3>2, PhaseByPcAfter
    <3>4. Phases' = Phases
      BY <1>1, <3>2, <3>3, EnterPhase
    <3> QED BY <1>1, <2>1, <3>4
  <2> QED BY <2>2, <2>3
<1> QED BY <1>2, <1>3

LEMMA TryWaitRefines ==
  ASSUME IInv, NEW t \in Thread, TryWait(t)
  PROVE  Abstract!Next
<1>1. /\ pc[t] = "running" /\ valid /\ valid' = valid
      /\ WaitTypeOK /\ semaphore \in 0 .. MaxCount
  BY DEF TryWait, TryCall, IInv, WaitInv, TypeOK
<1>2. PhaseOf(t) = "out"
  BY <1>1, PhaseByPc
<1>3. ASSUME NEW r, TryDone(t, r)
      PROVE  Abstract!Enter(t, "out", IF r = "OK" THEN "acquired" ELSE "failed")
  <2>1. /\ pc' = [pc EXCEPT ![t] = "returning"]
        /\ result' = [result EXCEPT ![t] = r]
        /\ status' = status
    BY <1>3 DEF TryDone, Skip
  <2>2. /\ pc'[t] = "returning" /\ result'[t] = r
        /\ Phases' = [Phases EXCEPT ![t] = PhaseOf(t)']
    BY <1>1, <2>1, OnePhaseMoves DEF WaitTypeOK
  <2>3. PhaseOf(t)' = IF r = "OK" THEN "acquired" ELSE "failed"
    BY <2>2, PhaseByPcAfter
  <2> QED BY <1>2, <2>2, <2>3, EnterPhase
<1>4. CASE semaphore > 0
  <2>1. semaphore' = semaphore - 1 /\ Abstract!Enter(t, "out", "acquired")
    BY <1>3, <1>4 DEF TryWait
  <2> QED BY <1>1, <1>4, <2>1 DEF Abstract!Next, Abstract!Acquire
<1>5. CASE ~(semaphore > 0)
  <2>1. semaphore' = semaphore /\ Abstract!Enter(t, "out", "failed")
    BY <1>3, <1>5 DEF TryWait
  <2> QED BY <1>1, <2>1 DEF Abstract!Next, Abstract!Fail
<1> QED BY <1>4, <1>5

(* A post gives its token to the waiter it releases, or keeps it.          *)
LEMMA PostRefines ==
  ASSUME IInv, NEW p \in Policy, Post(p)
  PROVE  Abstract!Next \/ UNCHANGED << semaphore, Phases, valid >>
<1>1. WaitTypeOK /\ LinksConsistent /\ semaphore \in 0 .. MaxCount
      /\ valid /\ valid' = valid
  BY DEF IInv, WaitInv, TypeOK, Post
<1>2. CASE wq[Sem] # << >>
  <2>1. PICK t \in Waiters(Sem) : NotifyOne(Sem, t, "SATISFIED")
    BY <1>1, <1>2, SelectedWaits DEF Post
  <2>2. /\ t \in Thread /\ pc[t] = "blocked" /\ status[t] = "IN_PROGRESS"
        /\ pc'[t] = "blocked" /\ status' = [status EXCEPT ![t] = "SATISFIED"]
        /\ UNCHANGED << pc, result >>
    BY <1>1, <2>1, SemAssumption DEF Waiters, LinksConsistent, NotifyOne, NotifyBlock
  <2>3. status'[t] = "SATISFIED" /\ Phases' = [Phases EXCEPT ![t] = PhaseOf(t)']
    BY <1>1, <2>2, OnePhaseMoves DEF WaitTypeOK
  <2>4. PhaseOf(t) = "waiting" /\ PhaseOf(t)' = "acquired"
    BY <2>2, <2>3, PhaseByPc, PhaseByPcAfter
  <2>5. Abstract!Enter(t, "waiting", "acquired")
    BY <2>2, <2>3, <2>4, EnterPhase
  <2>6. semaphore = 0 /\ semaphore' = semaphore
    BY <1>1, <1>2, SemAssumption DEF IInv, NoIdleToken, Post
  <2> QED BY <1>1, <2>2, <2>5, <2>6 DEF Abstract!Next, Abstract!PostGive
<1>3. CASE wq[Sem] = << >>
  <2>1. Phases' = Phases
    BY <1>3, NoPhaseMoves DEF Post, waitVars
  <2> QED BY <1>1, <1>3, <2>1 DEF Post, Phases, Abstract!Next, Abstract!PostKeep
<1> QED BY <1>2, <1>3

(* Waiters that the destructor releases have taken nothing.                *)
LEMMA DeinitRefines ==
  ASSUME IInv, Deinit
  PROVE  Abstract!Next
<1>1. /\ WaitTypeOK /\ LinksConsistent
      /\ valid /\ valid' = FALSE /\ semaphore' = semaphore
  BY DEF IInv, WaitInv, Deinit
<1>2. ASSUME NEW t \in Thread PROVE PhaseOf(t)' = PhaseOf(t)
  <2>1. CASE UNCHANGED waitVars
    BY <2>1 DEF waitVars, PhaseOf
  <2>2. CASE NotifyAll(Sem, "DELETED")
    <3>1. /\ pc' = pc /\ result' = result
          /\ status'[t] = IF t \in Waiters(Sem) THEN "DELETED" ELSE status[t]
      BY <2>2 DEF NotifyAll, NotifyBlocks
    <3>2. CASE t \in Waiters(Sem)
      <4>1. pc[t] = "blocked" /\ status[t] # "SATISFIED"
        BY <1>1, <3>2, SemAssumption DEF Waiters, LinksConsistent
      <4>2. pc'[t] = "blocked" /\ status'[t] # "SATISFIED"
        BY <3>1, <3>2, <4>1
      <4> QED BY <4>1, <4>2, PhaseByPc, PhaseByPcAfter
    <3>3. CASE t \notin Waiters(Sem)
      BY <3>1, <3>3 DEF PhaseOf
    <3> QED BY <3>2, <3>3
  <2> QED BY <2>1, <2>2 DEF Deinit
<1>3. Phases' = Phases
  BY <1>2 DEF Phases
<1> QED BY <1>1, <1>3 DEF Phases, Abstract!Next, Abstract!Close

(* The woken thread reports what it was woken for.                         *)
LEMMA WakeupRefines ==
  ASSUME IInv, NEW t \in Thread, Wakeup(t), UNCHANGED << semaphore, valid >>
  PROVE  Abstract!Next \/ UNCHANGED << semaphore, Phases, valid >>
<1> DEFINE r == WaitStatus(t, status'[t], cancel_status'[t])
<1>1. /\ WaitTypeOK /\ LinksConsistent /\ WokenForReason
      /\ pc[t] = "blocked" /\ state[t] = "READY" /\ Rollback(t)
      /\ pc' = [pc EXCEPT ![t] = "returning"]
      /\ result' = [result EXCEPT ![t] = r]
  BY DEF IInv, WaitInv, Wakeup
<1>2. /\ status'[t] = RolledBack(t, status[t])
      /\ cancel_status'[t] = RolledBack(t, cancel_status[t])
      /\ \A u \in Thread \ {t} : status'[u] = status[u]
  BY <1>1, RollbackUnlinks
<1>3. r = "OK" <=> status[t] = "SATISFIED"
  BY <1>2 DEF WaitStatus, RolledBack
<1> HIDE DEF r
<1>4. /\ pc'[t] = "returning" /\ result'[t] = r
      /\ Phases' = [Phases EXCEPT ![t] = PhaseOf(t)']
  BY <1>1, <1>2, OnePhaseMoves DEF WaitTypeOK
<1>5. CASE status[t] = "SATISFIED"
  <2>1. PhaseOf(t) = "acquired" /\ PhaseOf(t)' = "acquired"
    BY <1>1, <1>3, <1>4, <1>5, PhaseByPc, PhaseByPcAfter
  <2> QED BY <1>4, <2>1, EnterPhase
<1>6. CASE status[t] # "SATISFIED"
  <2>1. PhaseOf(t) = "waiting" /\ PhaseOf(t)' = "failed"
    BY <1>1, <1>3, <1>4, <1>6, PhaseByPc, PhaseByPcAfter
  <2>2. Abstract!Enter(t, "waiting", "failed")
    BY <1>4, <2>1, EnterPhase
  <2> QED BY <2>2 DEF Abstract!Next, Abstract!Fail
<1> QED BY <1>5, <1>6

(* A thread that returns or is terminated leaves.                          *)
LEMMA LeaveRefines ==
  ASSUME IInv, NEW t \in Thread, Return(t) \/ Terminate(t),
         UNCHANGED << semaphore, valid >>
  PROVE  Abstract!Next
<1>1. WaitTypeOK /\ LinksConsistent
  BY DEF IInv, WaitInv
<1>2. /\ pc'[t] \in {"running", "dead"}
      /\ \A u \in Thread \ {t} : /\ pc'[u] = pc[u] /\ status'[u] = status[u]
                                  /\ result'[u] = result[u]
  <2>1. CASE Return(t)
    BY <1>1, <2>1 DEF Return, WaitTypeOK
  <2>2. CASE Terminate(t)
    <3>1. \A u \in Thread \ {t} : status'[u] = status[u]
      BY <1>1, <2>2, RollbackUnlinks DEF Terminate
    <3> QED BY <1>1, <2>2, <3>1 DEF Terminate, WaitTypeOK
  <2> QED BY <2>1, <2>2
<1>3. PhaseOf(t)' = "out"
  BY <1>2, PhaseByPcAfter
<1>4. Phases' = [Phases EXCEPT ![t] = "out"]
  BY <1>2, <1>3, OnePhaseMoves
<1> QED BY <1>4 DEF Abstract!Next, Abstract!Leave, Phases

(* No other step is seen.                                                  *)
LEMMA OtherStepsRefine ==
  ASSUME IInv, WaitStep, UNCHANGED << semaphore, valid >>
  PROVE  Abstract!Next \/ UNCHANGED << semaphore, Phases, valid >>
<1>1. \/ \E t \in Thread : Wakeup(t) \/ Return(t) \/ Terminate(t)
      \/ UNCHANGED << pc, status, result >>
  BY DEF WaitStep, StayStep, EventStep, Leave, TimerExpire, SetPrio, AbortSet, AbortReset, AbortDeinit, EventSet
<1> QED BY <1>1, WakeupRefines, LeaveRefines, NoPhaseMoves

(* The semaphore implements the abstract one: every token that is posted   *)
(* is kept, given to one waiter or lost at the limit, and a wait that      *)
(* times out, is aborted or deleted has taken none.                        *)
THEOREM ImplementsSemaphore == Spec => TokensConserved
<1>1. Init => Abstract!Init
  <2> SUFFICES ASSUME Init PROVE Abstract!Init
    OBVIOUS
  <2>1. \A t \in Thread : PhaseOf(t) = "out"
    BY PhaseByPc DEF Init, WaitInit
  <2> QED BY <2>1 DEF Init, Abstract!Init
<1>2. IInv /\ [Next]_vars => [Abstract!Next]_(Abstract!vars)
  <2> SUFFICES ASSUME IInv, [Next]_vars
               PROVE  Abstract!Next \/ UNCHANGED << semaphore, Phases, valid >>
    BY DEF Abstract!vars, Phases
  <2>1. CASE Reset
    <3>1. Phases' = Phases
      BY <2>1, NoPhaseMoves DEF Reset, waitVars
    <3> QED BY <2>1, <3>1 DEF Reset, Phases, Abstract!Next, Abstract!Reset
  <2>2. ASSUME NEW n \in 0 .. MaxCount, Reinit(n) PROVE Abstract!Next
    <3>1. Phases' = Phases
      BY <2>2, NoPhaseMoves DEF Reinit, waitVars
    <3> QED BY <2>2, <3>1 DEF Reinit, Phases, Abstract!Next, Abstract!Reopen
  <2>3. CASE UNCHANGED vars
    BY <2>3, NoPhaseMoves DEF vars, waitVars
  <2> QED BY <2>1, <2>2, <2>3, WaitRefines, TestAndWaitRefines, TryWaitRefines,
             PostRefines, DeinitRefines, OtherStepsRefine
          DEF Next
<1> QED BY <1>1, <1>2, InductiveInvariant, PTL
        DEF Spec, TokensConserved, Abstract!Spec
=============================================================================
