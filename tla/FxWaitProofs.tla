---------------------------- MODULE FxWaitProofs ----------------------------
(***************************************************************************)
(* The wait framework keeps its invariants, whatever primitive uses it.    *)
(***************************************************************************)
EXTENDS FxWait, RtlQueueProofs

(* The search of a queue by priority finds the first of the best.          *)
LEMMA FirstBestProperties ==
  ASSUME NEW s \in Seq(Thread), s # << >>, prio \in [Thread -> Prio]
  PROVE  \E k \in 1 .. Len(s) :
           /\ FirstBest(s) = s[k]
           /\ \A j \in 1 .. Len(s) : \/ prio[s[k]] < prio[s[j]]
                                     \/ prio[s[k]] = prio[s[j]] /\ k <= j
<1> DEFINE N == Len(s)
           Step(x, k) == IF prio[s[k]] < prio[x] THEN s[k] ELSE x
           Scan(n, g) == /\ g \in [1 .. n -> Thread]
                         /\ g[1] = s[1]
                         /\ \A k \in 2 .. n : g[k] = Step(g[k - 1], k)
<1>1. N \in Nat /\ N >= 1 /\ \A k \in 1 .. N : s[k] \in Thread
  BY LenProperties, ElementOfSeq, EmptySeq
<1>2. \A k \in 1 .. N : prio[s[k]] \in Int
  BY <1>1, WaitAssumption
<1> HIDE DEF N, Step, Scan
<1>3. \A n \in 1 .. N : \E g : Scan(n, g)
  <2> DEFINE Bad == {n \in 1 .. N : ~\E g : Scan(n, g)}
  <2> SUFFICES ASSUME Bad # {} PROVE FALSE
    OBVIOUS
  <2>1. PICK n \in Bad : \A m \in Bad : n <= m
    <3>1. Bad \in SUBSET Nat
      BY <1>1
    <3> HIDE DEF Bad
    <3> QED BY <3>1, LeastElement
  <2>2. n # 1
    <3>1. Scan(1, [k \in 1 .. 1 |-> s[1]])
      BY <1>1 DEF Scan
    <3> QED BY <3>1
  <2>3. n \in 2 .. N /\ n - 1 \in 1 .. N /\ n - 1 \notin Bad
    BY <2>1, <2>2, <1>1
  <2>4. PICK g : Scan(n - 1, g)
    BY <2>3
  <2> DEFINE h == [k \in 1 .. n |-> IF k = n THEN Step(g[n - 1], n) ELSE g[k]]
  <2>5. Step(g[n - 1], n) \in Thread
    BY <2>3, <2>4, <1>1 DEF Scan, Step
  <2>6. Scan(n, h)
    BY <2>3, <2>4, <2>5, <1>1 DEF Scan
  <2> QED BY <2>1, <2>6
<1>4. PICK g : Scan(N, g)
  BY <1>1, <1>3
<1> DEFINE body(f) == [k \in 1 .. N |->
                         IF k = 1 THEN s[1]
                         ELSE IF prio[s[k]] < prio[f[k - 1]] THEN s[k]
                              ELSE f[k - 1]]
           next == CHOOSE f : f = body(f)
<1>5. g = body(g)
  <2>1. \A k \in 1 .. N : g[k] = body(g)[k]
    BY <1>1, <1>4 DEF Scan, Step
  <2> QED BY <2>1, <1>4 DEF Scan
<1>6. next = body(next)
  BY <1>5
<1>7. FirstBest(s) = next[N]
  BY DEF FirstBest, N
<1> HIDE DEF next
<1>8. /\ next[1] = s[1]
      /\ \A k \in 2 .. N : next[k] = Step(next[k - 1], k)
  <2>1. \A k \in 1 .. N : body(next)[k] =
          IF k = 1 THEN s[1]
          ELSE IF prio[s[k]] < prio[next[k - 1]] THEN s[k] ELSE next[k - 1]
    OBVIOUS
  <2> HIDE DEF body
  <2>2. \A k \in 1 .. N : next[k] =
          IF k = 1 THEN s[1]
          ELSE IF prio[s[k]] < prio[next[k - 1]] THEN s[k] ELSE next[k - 1]
    BY <1>6, <2>1
  <2> QED BY <2>2, <1>1 DEF Step
<1> HIDE DEF body
<1> DEFINE First(n, k) ==
             /\ next[n] = s[k]
             /\ \A j \in 1 .. n : \/ prio[s[k]] < prio[s[j]]
                                  \/ prio[s[k]] = prio[s[j]] /\ k <= j
<1> HIDE DEF First
<1>9. \A n \in 1 .. N : \E k \in 1 .. n : First(n, k)
  <2> DEFINE Bad == {n \in 1 .. N : ~\E k \in 1 .. n : First(n, k)}
  <2> SUFFICES ASSUME Bad # {} PROVE FALSE
    OBVIOUS
  <2>1. PICK n \in Bad : \A m \in Bad : n <= m
    <3>1. Bad \in SUBSET Nat
      BY <1>1
    <3> HIDE DEF Bad
    <3> QED BY <3>1, LeastElement
  <2>2. n # 1
    <3>1. First(1, 1)
      BY <1>8 DEF First
    <3> QED BY <3>1
  <2>3. n \in 2 .. N /\ n - 1 \in 1 .. N /\ n - 1 \notin Bad
    BY <2>1, <2>2, <1>1
  <2>4. PICK i \in 1 .. n - 1 : First(n - 1, i)
    BY <2>3
  <2>5. next[n] = IF prio[s[n]] < prio[s[i]] THEN s[n] ELSE s[i]
    BY <2>3, <2>4, <1>8 DEF First, Step
  <2>6. CASE prio[s[n]] < prio[s[i]]
    <3>1. ASSUME NEW j \in 1 .. n
          PROVE  \/ prio[s[n]] < prio[s[j]]
                 \/ prio[s[n]] = prio[s[j]] /\ n <= j
      <4>1. CASE j = n
        BY <4>1, <2>3
      <4>2. CASE j # n
        <5>1. j \in 1 .. n - 1 /\ j \in 1 .. N /\ i \in 1 .. N
          BY <4>2, <2>3, <2>4, <1>1
        <5>2. prio[s[i]] <= prio[s[j]]
          BY <5>1, <2>4, <1>2 DEF First
        <5> QED BY <5>1, <5>2, <2>3, <2>6, <1>2
      <4> QED BY <4>1, <4>2
    <3>2. First(n, n)
      BY <3>1, <2>5, <2>6 DEF First
    <3> QED BY <3>2, <2>1, <2>3
  <2>7. CASE ~(prio[s[n]] < prio[s[i]])
    <3>1. ASSUME NEW j \in 1 .. n
          PROVE  \/ prio[s[i]] < prio[s[j]]
                 \/ prio[s[i]] = prio[s[j]] /\ i <= j
      <4>1. CASE j = n
        <5>1. prio[s[n]] \in Int /\ prio[s[i]] \in Int /\ i <= n
          BY <2>3, <2>4, <1>1, <1>2
        <5> QED BY <5>1, <4>1, <2>7
      <4>2. CASE j # n
        <5>1. j \in 1 .. n - 1
          BY <4>2, <2>3
        <5> QED BY <5>1, <2>4 DEF First
      <4> QED BY <4>1, <4>2
    <3>2. First(n, i)
      BY <3>1, <2>5, <2>7 DEF First
    <3> QED BY <3>2, <2>1, <2>3, <2>4
  <2> QED BY <2>6, <2>7
<1> QED BY <1>1, <1>7, <1>9 DEF First, N

-----------------------------------------------------------------------------
(* The invariant of the framework.                                         *)

WaitInv ==
  /\ WaitTypeOK
  /\ LinksConsistent
  /\ SleeperCanWake
  /\ WokenForReason
  /\ TimerBelongsToWait

(* The waiter that is selected is one of the queue.                        *)
LEMMA SelectedIsWaiter ==
  ASSUME WaitTypeOK, NEW q \in WaitQueue, wq[q] # << >>, NEW p
  PROVE  WaitBlockGet(q, p) \in Waiters(q)
<1>1. wq[q] \in Seq(Thread) /\ prio \in [Thread -> Prio]
  BY DEF WaitTypeOK
<1>2. CASE p = "PRIO"
  <2>1. PICK k \in 1 .. Len(wq[q]) : FirstBest(wq[q]) = wq[q][k]
    BY <1>1, FirstBestProperties
  <2>2. wq[q][k] \in Thread
    BY <1>1, ElementOfSeq
  <2> QED BY <1>2, <2>1, <2>2 DEF WaitBlockGet, Selected, Waiters, Linked
<1>3. CASE p # "PRIO"
  BY <1>1, <1>3, EmptyQueue DEF WaitBlockGet, Selected, Waiters
<1> QED BY <1>2, <1>3

(* What unlinking one thread from one queue does to all the queues.        *)
LEMMA UnlinkOne ==
  ASSUME WaitTypeOK, LinksConsistent, NEW q \in WaitQueue, NEW t \in Thread,
         wq' = [wq EXCEPT ![q] = Unlink(@, t)]
  PROVE  /\ wq' \in [WaitQueue -> Seq(Thread)]
         /\ \A r \in WaitQueue : IsInjective(wq'[r])
         /\ \A r \in WaitQueue, u \in Thread :
              Linked(wq'[r], u) <=> Linked(wq[r], u) /\ ~(r = q /\ u = t)
<1>1. wq \in [WaitQueue -> Seq(Thread)] /\ \A r \in WaitQueue : IsInjective(wq[r])
  BY DEF WaitTypeOK, LinksConsistent
<1>2. /\ Unlink(wq[q], t) \in Seq(Thread)
      /\ IsInjective(Unlink(wq[q], t))
      /\ \A u \in Thread : Linked(Unlink(wq[q], t), u) <=>
                             Linked(wq[q], u) /\ u # t
  BY <1>1, UnlinkProperties
<1>3. \A r \in WaitQueue : wq'[r] = IF r = q THEN Unlink(wq[q], t) ELSE wq[r]
  BY <1>1
<1>4. wq' \in [WaitQueue -> Seq(Thread)]
  BY <1>1, <1>2
<1> QED BY <1>1, <1>2, <1>3, <1>4

(* A rollback unlinks the thread's block wherever it is.                   *)
LEMMA RollbackUnlinks ==
  ASSUME WaitTypeOK, LinksConsistent, NEW t \in Thread, Rollback(t)
  PROVE  /\ wq' \in [WaitQueue -> Seq(Thread)]
         /\ \A r \in WaitQueue : IsInjective(wq'[r])
         /\ \A r \in WaitQueue, u \in Thread :
              Linked(wq'[r], u) <=> Linked(wq[r], u) /\ u # t
         /\ status' \in [Thread -> BlockStatus]
         /\ status'[t] = RolledBack(t, status[t])
         /\ status'[t] # "IN_PROGRESS"
         /\ cancel_status' \in [Thread -> BlockStatus]
         /\ cancel_status'[t] = RolledBack(t, cancel_status[t])
         /\ cancel_status'[t] # "IN_PROGRESS"
         /\ \A u \in Thread \ {t} : /\ status'[u] = status[u]
                                    /\ cancel_status'[u] = cancel_status[u]
<1>1. wq \in [WaitQueue -> Seq(Thread)] /\ \A r \in WaitQueue : IsInjective(wq[r])
  BY DEF WaitTypeOK, LinksConsistent
<1>2. \A r \in WaitQueue :
        /\ Unlink(wq[r], t) \in Seq(Thread)
        /\ IsInjective(Unlink(wq[r], t))
        /\ \A u \in Thread : Linked(Unlink(wq[r], t), u) <=>
                               Linked(wq[r], u) /\ u # t
  BY <1>1, UnlinkProperties
<1>3. wq' = [r \in WaitQueue |-> Unlink(wq[r], t)]
  BY DEF Rollback
<1>4. /\ status' \in [Thread -> BlockStatus]
      /\ status'[t] = RolledBack(t, status[t])
      /\ status'[t] # "IN_PROGRESS"
      /\ cancel_status' \in [Thread -> BlockStatus]
      /\ cancel_status'[t] = RolledBack(t, cancel_status[t])
      /\ cancel_status'[t] # "IN_PROGRESS"
      /\ \A u \in Thread \ {t} : /\ status'[u] = status[u]
                                 /\ cancel_status'[u] = cancel_status[u]
  BY DEF Rollback, RolledBack, WaitTypeOK, BlockStatus
<1> QED BY <1>2, <1>3, <1>4

(* The invariant holds at first.                                           *)
LEMMA WaitInitInvariant == WaitInit => WaitInv
<1> SUFFICES ASSUME WaitInit PROVE WaitInv
  OBVIOUS
<1>1. WaitTypeOK
  BY EmptySeq DEF WaitInit, WaitTypeOK, Phase, ThreadState, BlockStatus, Result,
                  Event
<1>2. LinksConsistent
  <2>1. IsInjective(<< >>)
    BY DEF IsInjective
  <2> QED BY <2>1 DEF WaitInit, LinksConsistent, Linked
<1> QED BY <1>1, <1>2 DEF WaitInit, WaitInv, SleeperCanWake, WokenForReason,
                          TimerBelongsToWait

LEMMA CallInvariant ==
  ASSUME WaitInv, NEW t \in Thread, NEW q \in WaitQueue, NEW c, Call(t, q, c)
  PROVE  WaitInv'
<1> USE DEF WaitInv, Call
<1>1. WaitTypeOK'
  BY DEF WaitTypeOK, Event, Phase
<1>2. LinksConsistent'
  BY DEF WaitTypeOK, LinksConsistent
<1>3. SleeperCanWake'
  <2> SUFFICES ASSUME NEW u \in Thread, state[u] = "WAITING"
               PROVE  /\ pc'[u] = "blocked"
                      /\ status[u] = "IN_PROGRESS"
                      /\ cancel'[u] # NoEvent =>
                           /\ cancel_status[u] = "IN_PROGRESS"
                           /\ ~signaled'[cancel'[u]]
                      /\ cancel'[u] = u => timer'[u]
    BY DEF SleeperCanWake
  <2>1. u # t /\ pc'[u] = pc[u] /\ cancel'[u] = cancel[u]
    BY DEF WaitTypeOK
  <2>2. cancel[u] # t
    BY <2>1, WaitAssumption DEF TimerBelongsToWait
  <2>3. signaled'[cancel[u]] = signaled[cancel[u]] \/ cancel[u] = NoEvent
    BY <2>2 DEF WaitTypeOK
  <2>4. timer'[u] = timer[u]
    BY <2>1 DEF WaitTypeOK
  <2> QED BY <2>1, <2>3, <2>4 DEF SleeperCanWake
<1>4. WokenForReason'
  BY DEF WaitTypeOK, WokenForReason
<1>5. TimerBelongsToWait'
  BY WaitAssumption DEF WaitTypeOK, Event, TimerBelongsToWait
<1> QED BY <1>1, <1>2, <1>3, <1>4, <1>5

LEMMA ProceedInvariant ==
  ASSUME WaitInv, NEW t \in Thread, NEW q \in WaitQueue, Enters(t, q), Proceed(t),
         prio' \in [Thread -> Prio]
  PROVE  WaitInv'
<1> USE DEF WaitInv, Enters, Proceed, Skip, restVars
<1>1. WaitTypeOK'
  BY DEF WaitTypeOK, Phase, Result
<1>2. LinksConsistent'
  BY DEF WaitTypeOK, LinksConsistent
<1>3. SleeperCanWake' /\ WokenForReason' /\ TimerBelongsToWait'
  BY DEF WaitTypeOK, SleeperCanWake, WokenForReason, TimerBelongsToWait
<1> QED BY <1>1, <1>2, <1>3

LEMMA TryDoneInvariant ==
  ASSUME WaitInv, NEW t \in Thread, NEW r \in Result \ {"WAIT_INTERRUPTED"},
         TryCall(t), TryDone(t, r), prio' \in [Thread -> Prio]
  PROVE  WaitInv'
<1> USE DEF WaitInv, TryCall, TryDone, Skip, restVars
<1>1. WaitTypeOK'
  BY DEF WaitTypeOK, Phase
<1>2. LinksConsistent'
  BY DEF WaitTypeOK, LinksConsistent
<1>3. SleeperCanWake' /\ WokenForReason' /\ TimerBelongsToWait'
  BY DEF WaitTypeOK, SleeperCanWake, WokenForReason, TimerBelongsToWait
<1> QED BY <1>1, <1>2, <1>3

LEMMA BlockInvariant ==
  ASSUME WaitInv, NEW t \in Thread, NEW q \in WaitQueue, Enters(t, q), Block(t)
  PROVE  WaitInv'
<1>1. WaitTypeOK /\ state[t] = "READY" /\ pc[t] = "armed" /\ object[t] = q
  BY DEF WaitInv, Enters
<1>2. CASE cancel[t] # NoEvent /\ signaled[cancel[t]]
  <2>1. /\ pc' = [pc EXCEPT ![t] = "returning"]
        /\ \E r \in {"WAIT_TIMEOUT", "WAIT_CANCELLED"} :
             result' = [result EXCEPT ![t] = r]
        /\ UNCHANGED << state, prio, wq, object, status, cancel,
                        cancel_status, signaled, timer >>
    BY <1>2 DEF Block
  <2> USE DEF WaitInv
  <2>2. WaitTypeOK'
    BY <1>1, <2>1 DEF WaitTypeOK, Phase, Result
  <2>3. LinksConsistent'
    BY <1>1, <2>1 DEF WaitTypeOK, LinksConsistent
  <2>4. SleeperCanWake' /\ WokenForReason' /\ TimerBelongsToWait'
    BY <1>1, <2>1
    DEF WaitTypeOK, SleeperCanWake, WokenForReason, TimerBelongsToWait
  <2> QED BY <2>2, <2>3, <2>4
<1>3. CASE ~(cancel[t] # NoEvent /\ signaled[cancel[t]])
  <2>1. /\ pc' = [pc EXCEPT ![t] = "blocked"]
        /\ wq' = [wq EXCEPT ![q] = Append(@, t)]
        /\ status' = [status EXCEPT ![t] = "IN_PROGRESS"]
        /\ cancel_status' = [cancel_status EXCEPT ![t] =
                               IF cancel[t] = NoEvent THEN "CANCELLED"
                                                      ELSE "IN_PROGRESS"]
        /\ state' = [state EXCEPT ![t] = "WAITING"]
        /\ UNCHANGED << prio, object, cancel, signaled, timer, result >>
    BY <1>1, <1>3 DEF Block
  <2>2. wq \in [WaitQueue -> Seq(Thread)] /\ \A r \in WaitQueue : ~Linked(wq[r], t)
    BY <1>1 DEF WaitInv, WaitTypeOK, LinksConsistent
  <2>3. /\ Append(wq[q], t) \in Seq(Thread)
        /\ IsInjective(Append(wq[q], t))
        /\ \A u \in Thread : Linked(Append(wq[q], t), u) <=>
                               Linked(wq[q], u) \/ u = t
    BY <2>2, AppendLinks DEF WaitInv, LinksConsistent
  <2>4. /\ wq' \in [WaitQueue -> Seq(Thread)]
        /\ \A r \in WaitQueue : IsInjective(wq'[r])
        /\ \A r \in WaitQueue, u \in Thread :
             Linked(wq'[r], u) <=> Linked(wq[r], u) \/ (r = q /\ u = t)
    BY <2>1, <2>2, <2>3 DEF WaitInv, LinksConsistent
  <2> USE DEF WaitInv
  <2>5. WaitTypeOK'
    BY <1>1, <2>1, <2>4 DEF WaitTypeOK, Phase, ThreadState, BlockStatus
  <2>6. LinksConsistent'
    BY <1>1, <2>1, <2>2, <2>4 DEF WaitTypeOK, LinksConsistent
  <2>7. SleeperCanWake'
    <3>1. cancel[t] # NoEvent => ~signaled[cancel[t]]
      BY <1>3
    <3>2. cancel[t] = t => timer[t]
      BY <1>1, <3>1, WaitAssumption DEF TimerBelongsToWait
    <3> QED BY <1>1, <2>1, <3>1, <3>2 DEF WaitTypeOK, SleeperCanWake
  <2>8. WokenForReason' /\ TimerBelongsToWait'
    BY <1>1, <2>1 DEF WaitTypeOK, WokenForReason, TimerBelongsToWait
  <2> QED BY <2>5, <2>6, <2>7, <2>8
<1> QED BY <1>2, <1>3

LEMMA NotifyOneInvariant ==
  ASSUME WaitInv, NEW q \in WaitQueue, NEW t \in Waiters(q),
         NEW reason \in {"SATISFIED", "DELETED"}, NotifyOne(q, t, reason),
         prio' \in [Thread -> Prio]
  PROVE  WaitInv'
<1> USE DEF WaitInv
<1>1. /\ t \in Thread /\ Linked(wq[q], t)
      /\ pc[t] = "blocked" /\ object[t] = q /\ status[t] = "IN_PROGRESS"
      /\ state[t] # "COMPLETED"
  BY DEF Waiters, LinksConsistent
<1>2. /\ wq' \in [WaitQueue -> Seq(Thread)]
      /\ \A r \in WaitQueue : IsInjective(wq'[r])
      /\ \A r \in WaitQueue, u \in Thread :
           Linked(wq'[r], u) <=> Linked(wq[r], u) /\ ~(r = q /\ u = t)
  BY <1>1, UnlinkOne DEF NotifyOne, NotifyBlock
<1>3. /\ status' = [status EXCEPT ![t] = reason]
      /\ state' = [state EXCEPT ![t] = "READY"]
      /\ UNCHANGED << pc, object, cancel, cancel_status, signaled, timer, result >>
  BY DEF NotifyOne, NotifyBlock, restVars
<1>4. WaitTypeOK'
  BY <1>1, <1>2, <1>3 DEF WaitTypeOK, ThreadState, BlockStatus
<1>5. LinksConsistent'
  BY <1>1, <1>2, <1>3 DEF WaitTypeOK, LinksConsistent
<1>6. /\ state'[t] = "READY" /\ status'[t] = reason
      /\ \A u \in Thread \ {t} : state'[u] = state[u] /\ status'[u] = status[u]
  BY <1>1, <1>3 DEF WaitTypeOK
<1>7. SleeperCanWake'
  BY <1>1, <1>3, <1>6 DEF SleeperCanWake
<1>8. WokenForReason'
  BY <1>1, <1>3, <1>6 DEF WokenForReason
<1>9. TimerBelongsToWait'
  BY <1>3 DEF TimerBelongsToWait
<1> QED BY <1>4, <1>5, <1>7, <1>8, <1>9

LEMMA NotifyAllInvariant ==
  ASSUME WaitInv, NEW q \in WaitQueue,
         NEW reason \in {"SATISFIED", "DELETED"}, NotifyAll(q, reason),
         prio' \in [Thread -> Prio]
  PROVE  WaitInv' /\ wq'[q] = << >>
<1> USE DEF WaitInv
<1>1. \A t \in Waiters(q) :
        /\ t \in Thread /\ Linked(wq[q], t)
        /\ pc[t] = "blocked" /\ object[t] = q /\ status[t] = "IN_PROGRESS"
        /\ state[t] # "COMPLETED"
  BY DEF Waiters, LinksConsistent
<1>2. /\ wq' = [wq EXCEPT ![q] = << >>]
      /\ status' = [t \in Thread |-> IF t \in Waiters(q) THEN reason
                                                         ELSE status[t]]
      /\ state' = [t \in Thread |-> IF t \in Waiters(q) THEN "READY"
                                                        ELSE state[t]]
      /\ UNCHANGED << pc, object, cancel, cancel_status, signaled, timer, result >>
  BY DEF NotifyAll, NotifyBlocks, restVars
<1>3. /\ wq' \in [WaitQueue -> Seq(Thread)]
      /\ wq'[q] = << >>
      /\ \A r \in WaitQueue : IsInjective(wq'[r])
      /\ \A r \in WaitQueue, u \in Thread :
           Linked(wq'[r], u) <=> Linked(wq[r], u) /\ r # q
  <2>1. << >> \in Seq(Thread) /\ IsInjective(<< >>)
        /\ \A u \in Thread : ~Linked(<< >>, u)
    BY EmptySeq DEF IsInjective, Linked
  <2> QED BY <1>2, <2>1 DEF WaitTypeOK, LinksConsistent
<1>4. WaitTypeOK'
  BY <1>2, <1>3 DEF WaitTypeOK, ThreadState, BlockStatus
<1>5. LinksConsistent'
  BY <1>1, <1>2, <1>3 DEF WaitTypeOK, LinksConsistent, Waiters
<1>6. SleeperCanWake' /\ WokenForReason' /\ TimerBelongsToWait'
  BY <1>1, <1>2
  DEF WaitTypeOK, SleeperCanWake, WokenForReason, TimerBelongsToWait
<1> QED BY <1>3, <1>4, <1>5, <1>6

LEMMA WakeupInvariant ==
  ASSUME WaitInv, NEW t \in Thread, Wakeup(t)
  PROVE  WaitInv'
<1> USE DEF WaitInv
<1>1. /\ state[t] = "READY" /\ pc[t] = "blocked"
      /\ pc' = [pc EXCEPT ![t] = "returning"]
      /\ result' = [result EXCEPT ![t] =
                      WaitStatus(t, status'[t], cancel_status'[t])]
      /\ UNCHANGED << state, prio, object, cancel, signaled, timer >>
  BY DEF Wakeup
<1>2. /\ wq' \in [WaitQueue -> Seq(Thread)]
      /\ \A r \in WaitQueue : IsInjective(wq'[r])
      /\ \A r \in WaitQueue, u \in Thread :
           Linked(wq'[r], u) <=> Linked(wq[r], u) /\ u # t
      /\ status' \in [Thread -> BlockStatus]
      /\ status'[t] = RolledBack(t, status[t])
      /\ status'[t] # "IN_PROGRESS"
      /\ cancel_status' \in [Thread -> BlockStatus]
      /\ cancel_status'[t] = RolledBack(t, cancel_status[t])
      /\ cancel_status'[t] # "IN_PROGRESS"
      /\ \A u \in Thread \ {t} : /\ status'[u] = status[u]
                                 /\ cancel_status'[u] = cancel_status[u]
  BY RollbackUnlinks DEF Wakeup
<1>3. {status'[t], cancel_status'[t]} \cap {"SATISFIED", "DELETED"} # {}
  BY <1>1, <1>2 DEF WokenForReason, RolledBack
<1>4. result'[t] \in Result \ {"WAIT_INTERRUPTED"} /\ result' \in [Thread -> Result]
  <2> DEFINE r == WaitStatus(t, status'[t], cancel_status'[t])
  <2>1. r \in Result \ {"WAIT_INTERRUPTED"}
    BY <1>3 DEF WaitStatus, Result
  <2> HIDE DEF r
  <2> QED BY <1>1, <2>1 DEF WaitTypeOK, r
<1>5. WaitTypeOK'
  BY <1>1, <1>2, <1>4 DEF WaitTypeOK, Phase
<1>6. LinksConsistent'
  BY <1>1, <1>2 DEF WaitTypeOK, LinksConsistent
<1>7. SleeperCanWake'
  BY <1>1, <1>2 DEF WaitTypeOK, SleeperCanWake
<1>8. WokenForReason'
  BY <1>1, <1>2, <1>4 DEF WaitTypeOK, WokenForReason
<1>9. TimerBelongsToWait'
  BY <1>1 DEF WaitTypeOK, TimerBelongsToWait
<1> QED BY <1>5, <1>6, <1>7, <1>8, <1>9

LEMMA ReturnInvariant ==
  ASSUME WaitInv, NEW t \in Thread, Return(t)
  PROVE  WaitInv'
<1> USE DEF WaitInv, Return
<1>1. WaitTypeOK'
  BY DEF WaitTypeOK, Phase, BlockStatus, Result
<1>2. LinksConsistent'
  BY DEF WaitTypeOK, LinksConsistent
<1>3. SleeperCanWake' /\ WokenForReason'
  BY DEF WaitTypeOK, SleeperCanWake, WokenForReason
<1>4. TimerBelongsToWait'
  BY DEF WaitTypeOK, TimerBelongsToWait
<1> QED BY <1>1, <1>2, <1>3, <1>4

(* Setting or destroying a cancel event wakes all that may be cancelled by *)
(* it and still wait on it.                                                *)
LEMMA NotifyCancelInvariant ==
  ASSUME WaitInv, NEW S \in SUBSET Thread, NEW reason \in {"SATISFIED", "DELETED"},
         \A u \in S : cancel_status[u] = "IN_PROGRESS",
         NotifyCancel(S, reason),
         UNCHANGED << pc, prio, wq, object, status, cancel, result >>
  PROVE  /\ cancel_status' \in [Thread -> BlockStatus]
         /\ state' \in [Thread -> ThreadState]
         /\ LinksConsistent'
         /\ WokenForReason'
         /\ \A u \in Thread : state'[u] = "WAITING" =>
              /\ u \notin S
              /\ state[u] = "WAITING"
              /\ cancel_status'[u] = cancel_status[u]
<1>1. /\ cancel_status' =
           [t \in Thread |-> IF t \in S THEN reason ELSE cancel_status[t]]
      /\ state' = [t \in Thread |-> IF t \in S THEN "READY" ELSE state[t]]
  BY DEF NotifyCancel
<1>2. \A u \in S : pc[u] = "blocked" /\ state[u] # "COMPLETED"
  BY DEF WaitInv, LinksConsistent
<1>3. LinksConsistent'
  BY <1>1, <1>2 DEF WaitInv, LinksConsistent
<1>4. WokenForReason'
  BY <1>1, <1>2 DEF WaitInv, WokenForReason
<1> QED BY <1>1, <1>3, <1>4
        DEF WaitInv, WaitTypeOK, ThreadState, BlockStatus

LEMMA EventSetInvariant ==
  ASSUME WaitInv, NEW e \in Event, EventSet(e),
         \/ UNCHANGED timer
         \/ e \in Thread /\ timer' = [timer EXCEPT ![e] = FALSE]
  PROVE  WaitInv'
<1> DEFINE S == IF signaled[e] THEN {} ELSE CancelWaiters(e)
<1>1. /\ signaled' = [signaled EXCEPT ![e] = TRUE]
      /\ NotifyCancel(S, "SATISFIED")
      /\ UNCHANGED << pc, prio, wq, object, status, cancel, result >>
  BY DEF EventSet
<1>2. /\ S \in SUBSET Thread
      /\ \A u \in S : cancel_status[u] = "IN_PROGRESS" /\ cancel[u] = e
  BY DEF CancelWaiters
<1>3. \A u \in Thread : state[u] = "WAITING" /\ cancel[u] = e => u \in S
  BY WaitAssumption DEF WaitInv, SleeperCanWake, CancelWaiters, Event
<1> HIDE DEF S
<1>4. /\ cancel_status' \in [Thread -> BlockStatus]
      /\ state' \in [Thread -> ThreadState]
      /\ LinksConsistent'
      /\ WokenForReason'
      /\ \A u \in Thread : state'[u] = "WAITING" =>
           /\ u \notin S
           /\ state[u] = "WAITING"
           /\ cancel_status'[u] = cancel_status[u]
  BY <1>1, <1>2, NotifyCancelInvariant
<1>5. timer' \in [Thread -> BOOLEAN] /\ signaled' \in [Event -> BOOLEAN]
  BY <1>1 DEF WaitInv, WaitTypeOK
<1>6. WaitTypeOK'
  BY <1>1, <1>4, <1>5 DEF WaitInv, WaitTypeOK
<1>7. SleeperCanWake'
  <2> SUFFICES ASSUME NEW u \in Thread, state'[u] = "WAITING"
               PROVE  /\ pc'[u] = "blocked"
                      /\ status'[u] = "IN_PROGRESS"
                      /\ cancel'[u] # NoEvent =>
                           /\ cancel_status'[u] = "IN_PROGRESS"
                           /\ ~signaled'[cancel'[u]]
                      /\ cancel'[u] = u => timer'[u]
    BY DEF SleeperCanWake
  <2>1. /\ state[u] = "WAITING" /\ cancel_status'[u] = cancel_status[u]
        /\ cancel[u] # e
    BY <1>3, <1>4
  <2>2. /\ pc[u] = "blocked"
        /\ status[u] = "IN_PROGRESS"
        /\ cancel[u] # NoEvent => /\ cancel_status[u] = "IN_PROGRESS"
                                  /\ ~signaled[cancel[u]]
        /\ cancel[u] = u => timer[u]
    BY <2>1 DEF WaitInv, SleeperCanWake
  <2>3. cancel[u] # NoEvent => signaled'[cancel[u]] = signaled[cancel[u]]
    BY <1>1, <2>1 DEF WaitInv, WaitTypeOK
  <2>4. cancel[u] = u => timer'[u] = timer[u]
    BY <2>1 DEF WaitInv, WaitTypeOK
  <2> QED BY <1>1, <2>1, <2>2, <2>3, <2>4
<1>8. TimerBelongsToWait'
  <2>1. \A u \in Thread : /\ signaled[u] => signaled'[u]
                          /\ timer'[u] => timer[u]
                          /\ timer[u] => timer'[u] \/ signaled'[u]
    BY <1>1 DEF WaitInv, WaitTypeOK, Event
  <2> QED BY <1>1, <2>1 DEF WaitInv, TimerBelongsToWait
<1> QED BY <1>4, <1>6, <1>7, <1>8 DEF WaitInv

LEMMA AbortResetInvariant ==
  ASSUME WaitInv, NEW e \in AbortEvent, AbortReset(e)
  PROVE  WaitInv'
<1> USE DEF WaitInv, AbortReset
<1>1. WaitTypeOK'
  BY DEF WaitTypeOK, Event
<1>2. LinksConsistent' /\ WokenForReason'
  BY DEF LinksConsistent, WokenForReason
<1>3. SleeperCanWake' /\ TimerBelongsToWait'
  BY WaitAssumption DEF WaitTypeOK, Event, SleeperCanWake, TimerBelongsToWait
<1> QED BY <1>1, <1>2, <1>3

LEMMA AbortDeinitInvariant ==
  ASSUME WaitInv, NEW e \in AbortEvent, AbortDeinit(e)
  PROVE  WaitInv'
<1> DEFINE S == CancelWaiters(e)
<1>1. /\ NotifyCancel(S, "DELETED")
      /\ UNCHANGED << pc, prio, wq, object, status, cancel, signaled, timer,
                      result >>
  BY DEF AbortDeinit
<1>2. S \in SUBSET Thread /\ \A u \in S : cancel_status[u] = "IN_PROGRESS"
  BY DEF CancelWaiters
<1> HIDE DEF S
<1>3. /\ cancel_status' \in [Thread -> BlockStatus]
      /\ state' \in [Thread -> ThreadState]
      /\ LinksConsistent'
      /\ WokenForReason'
      /\ \A u \in Thread : state'[u] = "WAITING" =>
           /\ u \notin S
           /\ state[u] = "WAITING"
           /\ cancel_status'[u] = cancel_status[u]
  BY <1>1, <1>2, NotifyCancelInvariant
<1>4. WaitTypeOK'
  BY <1>1, <1>3 DEF WaitInv, WaitTypeOK
<1>5. SleeperCanWake' /\ TimerBelongsToWait'
  BY <1>1, <1>3 DEF WaitInv, SleeperCanWake, TimerBelongsToWait
<1> QED BY <1>3, <1>4, <1>5 DEF WaitInv

LEMMA TerminateInvariant ==
  ASSUME WaitInv, NEW t \in Thread, Terminate(t)
  PROVE  WaitInv'
<1> USE DEF WaitInv
<1>1. /\ timer' = [timer EXCEPT ![t] = FALSE]
      /\ state' = [state EXCEPT ![t] = "COMPLETED"]
      /\ pc' = [pc EXCEPT ![t] = "dead"]
      /\ object' = [object EXCEPT ![t] = NoObject]
      /\ cancel' = [cancel EXCEPT ![t] = NoEvent]
      /\ result' = [result EXCEPT ![t] = "OK"]
      /\ UNCHANGED << prio, signaled >>
  BY DEF Terminate
<1>2. /\ wq' \in [WaitQueue -> Seq(Thread)]
      /\ \A r \in WaitQueue : IsInjective(wq'[r])
      /\ \A r \in WaitQueue, u \in Thread :
           Linked(wq'[r], u) <=> Linked(wq[r], u) /\ u # t
      /\ status' \in [Thread -> BlockStatus]
      /\ cancel_status' \in [Thread -> BlockStatus]
      /\ cancel_status'[t] # "IN_PROGRESS"
      /\ \A u \in Thread \ {t} : /\ status'[u] = status[u]
                                 /\ cancel_status'[u] = cancel_status[u]
  BY RollbackUnlinks DEF Terminate
<1>3. WaitTypeOK'
  BY <1>1, <1>2 DEF WaitTypeOK, Phase, ThreadState, Result
<1>4. LinksConsistent'
  BY <1>1, <1>2 DEF WaitTypeOK, LinksConsistent
<1>5. SleeperCanWake'
  BY <1>1, <1>2 DEF WaitTypeOK, SleeperCanWake
<1>6. WokenForReason'
  BY <1>1, <1>2 DEF WaitTypeOK, WokenForReason
<1>7. TimerBelongsToWait'
  BY <1>1 DEF WaitTypeOK, TimerBelongsToWait
<1> QED BY <1>3, <1>4, <1>5, <1>6, <1>7

LEMMA SetPrioInvariant ==
  ASSUME WaitInv, NEW t \in Thread, NEW p \in NewPrio, SetPrio(t, p)
  PROVE  WaitInv'
<1> USE DEF WaitInv, SetPrio
<1>1. WaitTypeOK'
  BY WaitAssumption DEF WaitTypeOK
<1>2. LinksConsistent' /\ SleeperCanWake' /\ WokenForReason' /\ TimerBelongsToWait'
  BY DEF LinksConsistent, SleeperCanWake, WokenForReason, TimerBelongsToWait
<1> QED BY <1>1, <1>2

LEMMA WaitUnchanged ==
  ASSUME WaitInv, UNCHANGED waitVars
  PROVE  WaitInv'
<1> USE DEF WaitInv, waitVars
<1>1. WaitTypeOK'
  BY DEF WaitTypeOK
<1>2. LinksConsistent' /\ SleeperCanWake' /\ WokenForReason' /\ TimerBelongsToWait'
  BY DEF LinksConsistent, SleeperCanWake, WokenForReason, TimerBelongsToWait
<1> QED BY <1>1, <1>2

LEMMA WaitStepInvariant ==
  ASSUME WaitInv, WaitStep
  PROVE  WaitInv'
<1>1. ASSUME NEW t \in Thread, TimerExpire(t) PROVE WaitInv'
  <2>1. t \in Event /\ EventSet(t) /\ timer' = [timer EXCEPT ![t] = FALSE]
    BY <1>1 DEF TimerExpire, Event
  <2> QED BY <2>1, EventSetInvariant
<1>2. ASSUME NEW e \in AbortEvent, AbortSet(e) PROVE WaitInv'
  <2>1. e \in Event /\ EventSet(e) /\ UNCHANGED timer
    BY <1>2 DEF AbortSet, Event
  <2> QED BY <2>1, EventSetInvariant
<1> QED BY <1>1, <1>2, WakeupInvariant, ReturnInvariant, TerminateInvariant,
           SetPrioInvariant, AbortResetInvariant, AbortDeinitInvariant
        DEF WaitStep, StayStep, EventStep, Leave
=============================================================================
