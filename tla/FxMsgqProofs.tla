---------------------------- MODULE FxMsgqProofs ----------------------------
(***************************************************************************)
(* Proofs about the message queue, for every set of threads and messages,  *)
(* every capacity and both policies: nobody waits for what is there, and   *)
(* the queue implements the abstract one.                                  *)
(***************************************************************************)
EXTENDS FxMsgq, FxWaitProofs, FiniteSetTheorems

(* The ring buffer, and that its indices agree with the number of items.   *)
Place == 0 .. ItemsMax - 1
Ring == [buf : [Place -> Msg \cup {NoMsg}], items : 0 .. ItemsMax,
         head : Place, tail : Place]
RingOK(q) == q \in Ring /\ q.head = (q.tail + q.items) % ItemsMax

Parcel == [msg : Msg \cup {NoMsg}, to_back : BOOLEAN]

(* The inductive invariant: that of the wait framework, and that nobody    *)
(* waits for what is there.                                                *)
IInv == WaitInv /\ TypeOK /\ NoIdleWaiters

-----------------------------------------------------------------------------
(* Indices wrap around once at most.                                       *)
LEMMA WrapsOnce ==
  ASSUME NEW n \in Nat \ {0}, NEW k \in 0 .. 2 * n - 1
  PROVE  k % n = IF k < n THEN k ELSE k - n
<1>1. CASE k < n
  BY <1>1
<1>2. CASE k >= n
  <2>1. k = (k - n) + 1 * n /\ k - n \in 0 .. n - 1
    BY <1>2
  <2> QED BY <1>2, <2>1
<1> QED BY <1>1, <1>2

(* The index behind the last item, when items are added at either end or   *)
(* taken from the front.                                                   *)
LEMMA IndicesAgree ==
  ASSUME NEW n \in Nat \ {0}, NEW tail \in 0 .. n - 1, NEW items \in 0 .. n,
         NEW head, head = (tail + items) % n
  PROVE  /\ items < n => /\ (head + 1) % n \in 0 .. n - 1
                         /\ (head + 1) % n = (tail + (items + 1)) % n
         /\ items < n => /\ (tail + (n - 1)) % n \in 0 .. n - 1
                         /\ head = (((tail + (n - 1)) % n) + (items + 1)) % n
         /\ items # 0 => /\ (tail + 1) % n \in 0 .. n - 1
                         /\ head = (((tail + 1) % n) + (items - 1)) % n
<1> DEFINE Wrap(k) == IF k < n THEN k ELSE k - n
<1>1. \A k \in 0 .. 2 * n - 1 : k % n = Wrap(k) /\ Wrap(k) \in 0 .. n - 1
  <2> SUFFICES ASSUME NEW k \in 0 .. 2 * n - 1
               PROVE  k % n = Wrap(k) /\ Wrap(k) \in 0 .. n - 1
    OBVIOUS
  <2>1. k % n = Wrap(k)
    BY WrapsOnce
  <2>2. Wrap(k) \in 0 .. n - 1
    OBVIOUS
  <2> QED BY <2>1, <2>2
<1>2. head = Wrap(tail + items) /\ head \in 0 .. n - 1
  <2>1. tail + items \in 0 .. 2 * n - 1
    OBVIOUS
  <2> HIDE DEF Wrap
  <2> QED BY <1>1, <2>1
<1>3. CASE items < n
  <2>1. head + 1 \in 0 .. 2 * n - 1 /\ tail + (items + 1) \in 0 .. 2 * n - 1
        /\ tail + (n - 1) \in 0 .. 2 * n - 1
    BY <1>2, <1>3
  <2>2. /\ (head + 1) % n = Wrap(head + 1) /\ Wrap(head + 1) \in 0 .. n - 1
        /\ (tail + (items + 1)) % n = Wrap(tail + (items + 1))
        /\ (tail + (n - 1)) % n = Wrap(tail + (n - 1))
        /\ Wrap(tail + (n - 1)) \in 0 .. n - 1
    <3> HIDE DEF Wrap
    <3> QED BY <1>1, <2>1
  <2>3. Wrap(head + 1) = Wrap(tail + (items + 1))
    BY <1>2, <1>3
  <2>4. PICK front \in 0 .. n - 1 :
          front = (tail + (n - 1)) % n /\ front = Wrap(tail + (n - 1))
    <3> HIDE DEF Wrap
    <3> QED BY <2>2
  <2>5. front + (items + 1) \in 0 .. 2 * n - 1
    BY <1>3
  <2>6. (front + (items + 1)) % n = Wrap(front + (items + 1))
    <3> HIDE DEF Wrap
    <3> QED BY <1>1, <2>5
  <2>7. head = Wrap(front + (items + 1))
    BY <1>2, <1>3, <2>4
  <2> HIDE DEF Wrap
  <2>8. head = (((tail + (n - 1)) % n) + (items + 1)) % n
    BY <2>4, <2>6, <2>7
  <2>9. (head + 1) % n \in 0 .. n - 1 /\ (head + 1) % n = (tail + (items + 1)) % n
    BY <2>2, <2>3
  <2>10. (tail + (n - 1)) % n \in 0 .. n - 1
    BY <2>2
  <2>11. items # 0 => /\ (tail + 1) % n \in 0 .. n - 1
                      /\ head = (((tail + 1) % n) + (items - 1)) % n
    <3>1. tail + 1 \in 0 .. 2 * n - 1
      OBVIOUS
    <3>2. PICK next \in 0 .. n - 1 : next = (tail + 1) % n /\ next = Wrap(tail + 1)
      BY <1>1, <3>1
    <3>3. items # 0 => next + (items - 1) \in 0 .. 2 * n - 1
      OBVIOUS
    <3>4. items # 0 => (next + (items - 1)) % n = Wrap(next + (items - 1))
      BY <1>1, <3>3
    <3>5. items # 0 => head = Wrap(next + (items - 1))
      BY <1>2, <3>2 DEF Wrap
    <3> QED BY <3>2, <3>4, <3>5
  <2> QED BY <2>8, <2>9, <2>10, <2>11
<1>4. CASE items = n
  <2>1. tail + 1 \in 0 .. 2 * n - 1
    OBVIOUS
  <2>2. PICK next \in 0 .. n - 1 : next = (tail + 1) % n /\ next = Wrap(tail + 1)
    <3> HIDE DEF Wrap
    <3> QED BY <1>1, <2>1
  <2>3. next + (items - 1) \in 0 .. 2 * n - 1
    BY <1>4
  <2>4. (next + (items - 1)) % n = Wrap(next + (items - 1))
    <3> HIDE DEF Wrap
    <3> QED BY <1>1, <2>3
  <2>5. head = Wrap(next + (items - 1))
    BY <1>2, <1>4, <2>2
  <2> HIDE DEF Wrap
  <2>6. head = (((tail + 1) % n) + (items - 1)) % n /\ (tail + 1) % n \in 0 .. n - 1
    BY <2>2, <2>4, <2>5
  <2> QED BY <1>4, <2>6
<1> QED BY <1>3, <1>4

(* The head after a message was put at the back.                           *)
LEMMA IndexAfterBack ==
  ASSUME NEW n \in Nat \ {0}, NEW tail \in 0 .. n - 1, NEW items \in 0 .. n,
         NEW head, head = (tail + items) % n, items < n
  PROVE  /\ (head + 1) % n \in 0 .. n - 1
         /\ (head + 1) % n = (tail + (items + 1)) % n
BY IndicesAgree, ZenonT(30)

(* The tail after a message was put at the front.                          *)
LEMMA IndexBeforeFront ==
  ASSUME NEW n \in Nat \ {0}, NEW tail \in 0 .. n - 1, NEW items \in 0 .. n,
         NEW head, head = (tail + items) % n, items < n
  PROVE  /\ (tail + (n - 1)) % n \in 0 .. n - 1
         /\ head = (((tail + (n - 1)) % n) + (items + 1)) % n
BY IndicesAgree

(* Storing a message keeps the ring a ring, with one item more.            *)
LEMMA PutMsgRing ==
  ASSUME NEW q, RingOK(q), q.items < ItemsMax, NEW o \in Parcel
  PROVE  RingOK(PutMsg(q, o)) /\ PutMsg(q, o).items = q.items + 1
<1> DEFINE back == (q.head + 1) % ItemsMax
           front == (q.tail + (ItemsMax - 1)) % ItemsMax
<1>1. /\ ItemsMax \in Nat \ {0} /\ q.items \in 0 .. ItemsMax
      /\ q.head \in Place /\ q.tail \in 0 .. ItemsMax - 1
      /\ q.head = (q.tail + q.items) % ItemsMax
      /\ q.buf \in [Place -> Msg \cup {NoMsg}]
      /\ o.msg \in Msg \cup {NoMsg} /\ o.to_back \in BOOLEAN
  BY MsgqAssumption DEF RingOK, Ring, Place, Parcel
<1>2. /\ back \in Place /\ back = (q.tail + (q.items + 1)) % ItemsMax
      /\ front \in Place /\ q.head = (front + (q.items + 1)) % ItemsMax
  <2> DEFINE tail == q.tail
             items == q.items
             head == q.head
  <2>1. /\ tail \in 0 .. ItemsMax - 1 /\ items \in 0 .. ItemsMax
        /\ items < ItemsMax /\ head = (tail + items) % ItemsMax
        /\ head \in 0 .. ItemsMax - 1
    BY <1>1 DEF Place
  <2> HIDE DEF tail, items, head
  <2>2. /\ (head + 1) % ItemsMax \in 0 .. ItemsMax - 1
        /\ (head + 1) % ItemsMax = (tail + (items + 1)) % ItemsMax
    BY <1>1, <2>1, IndexAfterBack, Zenon
  <2>3. /\ (tail + (ItemsMax - 1)) % ItemsMax \in 0 .. ItemsMax - 1
        /\ head = (((tail + (ItemsMax - 1)) % ItemsMax) + (items + 1)) % ItemsMax
    BY <1>1, <2>1, IndexBeforeFront, Zenon
  <2> QED BY <2>2, <2>3, SMTT(30) DEF Place, tail, items, head
<1>3. q.items + 1 \in 0 .. ItemsMax
  BY <1>1
<1>4. CASE o.to_back
  <2>1. PutMsg(q, o) = [q EXCEPT !.buf = [q.buf EXCEPT ![q.head] = o.msg],
                                 !.head = back, !.items = q.items + 1]
    BY <1>4 DEF PutMsg, RingOK, Ring
  <2> HIDE DEF back, front
  <2>2. [q.buf EXCEPT ![q.head] = o.msg] \in [Place -> Msg \cup {NoMsg}]
    BY <1>1
  <2> QED BY <1>1, <1>2, <1>3, <2>1, <2>2 DEF RingOK, Ring
<1>5. CASE ~o.to_back
  <2>1. PutMsg(q, o) = [q EXCEPT !.buf = [q.buf EXCEPT ![front] = o.msg],
                                 !.tail = front, !.items = q.items + 1]
    BY <1>5 DEF PutMsg, RingOK, Ring
  <2> HIDE DEF back, front
  <2>2. [q.buf EXCEPT ![front] = o.msg] \in [Place -> Msg \cup {NoMsg}]
    BY <1>1
  <2> QED BY <1>1, <1>2, <1>3, <2>1, <2>2 DEF RingOK, Ring
<1> QED BY <1>1, <1>4, <1>5

(* So does taking the first, with one item less.                           *)
LEMMA TakenRing ==
  ASSUME NEW q, RingOK(q), q.items # 0
  PROVE  /\ RingOK(Taken(q)) /\ Taken(q).items = q.items - 1
         /\ NextMsg(q) \in Msg \cup {NoMsg}
<1> DEFINE next == (q.tail + 1) % ItemsMax
<1>1. /\ ItemsMax \in Nat \ {0} /\ q.items \in 0 .. ItemsMax
      /\ q.head \in Place /\ q.tail \in 0 .. ItemsMax - 1
      /\ q.head = (q.tail + q.items) % ItemsMax
      /\ q.buf \in [Place -> Msg \cup {NoMsg}]
  BY MsgqAssumption DEF RingOK, Ring, Place
<1>2. next \in Place /\ q.head = (next + (q.items - 1)) % ItemsMax
  <2> DEFINE tail == q.tail
             items == q.items
             head == q.head
  <2>1. /\ tail \in 0 .. ItemsMax - 1 /\ items \in 0 .. ItemsMax
        /\ items # 0 /\ head = (tail + items) % ItemsMax
    BY <1>1
  <2> HIDE DEF tail, items, head
  <2>2. /\ (tail + 1) % ItemsMax \in 0 .. ItemsMax - 1
        /\ head = (((tail + 1) % ItemsMax) + (items - 1)) % ItemsMax
    BY <1>1, <2>1, IndicesAgree
  <2> QED BY <2>2 DEF Place, tail, items, head
<1>3. q.items - 1 \in 0 .. ItemsMax
  BY <1>1
<1>4. Taken(q) = [q EXCEPT !.tail = next, !.items = q.items - 1]
  BY DEF Taken, RingOK, Ring
<1>5. NextMsg(q) \in Msg \cup {NoMsg}
  BY <1>1 DEF NextMsg, Place
<1> HIDE DEF next
<1> QED BY <1>1, <1>2, <1>3, <1>4, <1>5 DEF RingOK, Ring, Place

-----------------------------------------------------------------------------
(* Steps of the wait framework that only this primitive takes.             *)

(* The waiter that is selected from any queue is one of it.                *)
LEMMA SelectedLinked ==
  ASSUME NEW s \in Seq(Thread), s # << >>, prio \in [Thread -> Prio], NEW p
  PROVE  Selected(s, p) \in Thread /\ Linked(s, Selected(s, p))
<1>1. CASE p = "PRIO"
  <2>1. PICK k \in 1 .. Len(s) : FirstBest(s) = s[k]
    BY FirstBestProperties
  <2>2. s[k] \in Thread
    BY ElementOfSeq
  <2> QED BY <1>1, <2>1, <2>2 DEF Selected, Linked
<1>2. CASE p # "PRIO"
  BY <1>2, EmptyQueue DEF Selected
<1> QED BY <1>1, <1>2

(* Waiters of several queues are released together.                        *)
LEMMA ReleaseInvariant ==
  ASSUME WaitInv, NEW S \in SUBSET Thread,
         NEW reason \in {"SATISFIED", "DELETED"},
         wq' \in [WaitQueue -> Seq(Thread)],
         \A q \in WaitQueue : IsInjective(wq'[q]),
         \A q \in WaitQueue, t \in Thread :
           Linked(wq'[q], t) <=> Linked(wq[q], t) /\ t \notin S,
         \A t \in S : \E q \in WaitQueue : Linked(wq[q], t),
         status' = [t \in Thread |-> IF t \in S THEN reason ELSE status[t]],
         state' = [t \in Thread |-> IF t \in S THEN "READY" ELSE state[t]],
         UNCHANGED << pc, prio, result, restVars >>
  PROVE  WaitInv'
<1> USE DEF WaitInv, restVars
<1>1. \A t \in S : /\ pc[t] = "blocked" /\ status[t] = "IN_PROGRESS"
                   /\ state[t] # "COMPLETED"
  BY DEF LinksConsistent
<1>2. WaitTypeOK'
  BY DEF WaitTypeOK, ThreadState, BlockStatus
<1>3. LinksConsistent'
  BY <1>1 DEF WaitTypeOK, LinksConsistent
<1>4. SleeperCanWake' /\ WokenForReason' /\ TimerBelongsToWait'
  BY <1>1 DEF WaitTypeOK, SleeperCanWake, WokenForReason, TimerBelongsToWait
<1> QED BY <1>2, <1>3, <1>4

(* A call that need not wait releases a waiter of another kind.            *)
LEMMA ProceedAndNotifyInvariant ==
  ASSUME WaitInv, NEW t \in Thread, NEW q \in WaitQueue, NEW u \in Waiters(q),
         state[t] = "READY", pc[t] \in {"running", "armed"},
         ProceedAndNotify(t, q, u), prio' = prio
  PROVE  WaitInv'
<1> USE DEF WaitInv
<1>1. /\ u \in Thread /\ Linked(wq[q], u) /\ u # t
      /\ pc[u] = "blocked" /\ object[u] = q /\ status[u] = "IN_PROGRESS"
      /\ state[u] # "COMPLETED"
  BY DEF Waiters, LinksConsistent
<1>2. /\ wq' \in [WaitQueue -> Seq(Thread)]
      /\ \A r \in WaitQueue : IsInjective(wq'[r])
      /\ \A r \in WaitQueue, v \in Thread :
           Linked(wq'[r], v) <=> Linked(wq[r], v) /\ ~(r = q /\ v = u)
  BY <1>1, UnlinkOne DEF ProceedAndNotify, NotifyBlock
<1>3. /\ status' = [status EXCEPT ![u] = "SATISFIED"]
      /\ state' = [state EXCEPT ![u] = "READY"]
      /\ pc' = [pc EXCEPT ![t] = "returning"]
      /\ result' = [result EXCEPT ![t] = "OK"]
      /\ UNCHANGED << prio, object, cancel, cancel_status, signaled, timer >>
  BY DEF ProceedAndNotify, Skip, NotifyBlock, restVars
<1>4. WaitTypeOK'
  BY <1>1, <1>2, <1>3 DEF WaitTypeOK, Phase, ThreadState, BlockStatus, Result
<1>5. LinksConsistent'
  BY <1>1, <1>2, <1>3 DEF WaitTypeOK, LinksConsistent
<1>6. \A v \in Thread : /\ state'[v] = IF v = u THEN "READY" ELSE state[v]
                        /\ status'[v] = IF v = u THEN "SATISFIED" ELSE status[v]
                        /\ pc'[v] = IF v = t THEN "returning" ELSE pc[v]
                        /\ result'[v] = IF v = t THEN "OK" ELSE result[v]
  BY <1>3 DEF WaitTypeOK
<1>7. SleeperCanWake'
  BY <1>1, <1>3, <1>6 DEF SleeperCanWake
<1>8. WokenForReason'
  <2>1. ASSUME NEW v \in Thread, pc'[v] = "blocked", state'[v] = "READY"
        PROVE  {status'[v], cancel_status'[v]} \cap {"SATISFIED", "DELETED"} # {}
    <3>1. CASE v = u
      BY <1>6, <3>1
    <3>2. CASE v # u
      <4>1. /\ pc[v] = "blocked" /\ state[v] = "READY"
            /\ status'[v] = status[v] /\ cancel_status'[v] = cancel_status[v]
        BY <1>3, <1>6, <2>1, <3>2
      <4> QED BY <4>1 DEF WokenForReason
    <3> QED BY <3>1, <3>2
  <2>2. \A v \in Thread : result'[v] # "WAIT_INTERRUPTED"
    BY <1>6 DEF WokenForReason
  <2> QED BY <2>1, <2>2 DEF WokenForReason
<1>9. TimerBelongsToWait'
  <2>1. timer[t] => cancel[t] = t
    BY DEF TimerBelongsToWait
  <2> QED BY <2>1, <1>3, <1>6 DEF TimerBelongsToWait
<1> QED BY <1>4, <1>5, <1>7, <1>8, <1>9

-----------------------------------------------------------------------------
(* The loop of fx_msgq_core_flush.                                         *)

(* What holds after n rounds: the senders that are left are some of those  *)
(* that waited, and there are some only if every round stored a message.   *)
RefillOK(p, n) ==
  /\ RingOK(p.q) /\ p.q.items <= n
  /\ p.waiting \in Seq(Thread) /\ IsInjective(p.waiting)
  /\ \A t \in Thread : Linked(p.waiting, t) => Linked(wq[SendQ], t)
  /\ p.waiting # << >> => p.q.items = n
  /\ wq[SendQ] = << >> => p.q.items = 0

RefillStart == [q |-> Cleared(msgq), waiting |-> wq[SendQ]]

RefillStep(p) ==
  IF p.waiting = << >> THEN p
  ELSE [q |-> PutMsg(p.q, attr[Selected(p.waiting, Policy)]),
        waiting |-> Unlink(p.waiting, Selected(p.waiting, Policy))]

(* The flush starts with an empty ring and the senders that wait.          *)
LEMMA RefillStarts ==
  ASSUME IInv
  PROVE  RefillOK(RefillStart, 0)
<1>1. RingOK(Cleared(msgq)) /\ Cleared(msgq).items = 0
  <2>1. /\ msgq.buf \in [Place -> Msg \cup {NoMsg}] /\ msgq \in Ring
        /\ 0 \in Place /\ 0 \in 0 .. ItemsMax /\ ItemsMax \in Nat \ {0}
    BY MsgqAssumption DEF IInv, TypeOK, Ring, Place
  <2>2. 0 = (0 + 0) % ItemsMax
    <3>1. 0 \in 0 .. 2 * ItemsMax - 1 /\ 0 < ItemsMax
      BY <2>1
    <3>2. 0 % ItemsMax = 0
      BY <2>1, <3>1, WrapsOnce
    <3> QED BY <3>2
  <2>3. /\ Cleared(msgq) \in Ring /\ Cleared(msgq).items = 0
        /\ Cleared(msgq).head = 0 /\ Cleared(msgq).tail = 0
    BY <2>1 DEF Cleared, Ring
  <2> QED BY <2>2, <2>3 DEF RingOK
<1>2. wq[SendQ] \in Seq(Thread) /\ IsInjective(wq[SendQ])
  BY MsgqAssumption DEF IInv, WaitInv, WaitTypeOK, LinksConsistent
<1> QED BY <1>1, <1>2 DEF RefillOK, RefillStart

(* One round of the loop takes one sender, if there is one, and one place. *)
LEMMA RefillStepOK ==
  ASSUME IInv, NEW n \in 0 .. ItemsMax - 1, NEW p, RefillOK(p, n)
  PROVE  RefillOK(RefillStep(p), n + 1)
<1>1. CASE p.waiting = << >>
  <2>1. RefillStep(p) = p
    BY <1>1 DEF RefillStep
  <2>2. p.q.items <= n + 1
    BY MsgqAssumption DEF RefillOK, RingOK, Ring
  <2> QED BY <1>1, <2>1, <2>2 DEF RefillOK
<1>2. CASE p.waiting # << >>
  <2> DEFINE s == Selected(p.waiting, Policy)
  <2>1. s \in Thread /\ Linked(p.waiting, s)
    BY <1>2, SelectedLinked DEF RefillOK, IInv, WaitInv, WaitTypeOK
  <2>2. attr[s] \in Parcel
    BY <2>1 DEF IInv, TypeOK, Parcel
  <2>3. /\ RefillStep(p).q = PutMsg(p.q, attr[s])
        /\ RefillStep(p).waiting = Unlink(p.waiting, s)
    BY <1>2 DEF RefillStep
  <2> HIDE DEF s
  <2>4. RingOK(PutMsg(p.q, attr[s])) /\ PutMsg(p.q, attr[s]).items = n + 1
    BY <1>2, <2>2, PutMsgRing, MsgqAssumption DEF RefillOK
  <2>5. /\ Unlink(p.waiting, s) \in Seq(Thread)
        /\ IsInjective(Unlink(p.waiting, s))
        /\ \A t \in Thread : Linked(Unlink(p.waiting, s), t) => Linked(p.waiting, t)
    BY <2>1, UnlinkProperties DEF RefillOK
  <2>6. wq[SendQ] # << >>
    BY <2>1, EmptySeq DEF RefillOK, Linked
  <2> QED BY <2>3, <2>4, <2>5, <2>6 DEF RefillOK
<1> QED BY <1>1, <1>2

(* The loop makes as many rounds as the ring has places, and the above     *)
(* holds after each: otherwise there were a first after which it failed.   *)
LEMMA RefillRounds ==
  ASSUME IInv
  PROVE  \E f : /\ f[0] = RefillStart
                /\ \A k \in 1 .. ItemsMax : f[k] = RefillStep(f[k - 1])
                /\ \A n \in 0 .. ItemsMax : RefillOK(f[n], n)
                /\ Refilled = f[ItemsMax]
<1> DEFINE N == ItemsMax
           Scan(n, g) == /\ g = [k \in 0 .. n |-> g[k]]
                         /\ g[0] = RefillStart
                         /\ \A k \in 1 .. n : g[k] = RefillStep(g[k - 1])
<1>1. N \in Nat \ {0}
  BY MsgqAssumption
<1> HIDE DEF N, Scan
<1>2. \A n \in 0 .. N : \E g : Scan(n, g)
  <2> DEFINE Bad == {n \in 0 .. N : ~\E g : Scan(n, g)}
  <2> SUFFICES ASSUME Bad # {} PROVE FALSE
    OBVIOUS
  <2>1. PICK n \in Bad : \A m \in Bad : n <= m
    <3>1. Bad \in SUBSET Nat
      BY <1>1
    <3> HIDE DEF Bad
    <3> QED BY <3>1, LeastElement
  <2>2. n # 0
    <3>1. Scan(0, [k \in 0 .. 0 |-> RefillStart])
      BY DEF Scan
    <3> QED BY <3>1
  <2>3. n \in 1 .. N /\ n - 1 \in 0 .. N /\ n - 1 \notin Bad
    BY <2>1, <2>2, <1>1
  <2>4. PICK g : Scan(n - 1, g)
    BY <2>3
  <2> DEFINE h == [k \in 0 .. n |-> IF k = n THEN RefillStep(g[n - 1]) ELSE g[k]]
  <2>5. Scan(n, h)
    <3>1. h[0] = RefillStart
      BY <2>3, <2>4 DEF Scan
    <3>2. ASSUME NEW k \in 1 .. n PROVE h[k] = RefillStep(h[k - 1])
      <4>1. k - 1 \in 0 .. n /\ k - 1 # n /\ k \in 0 .. n
        BY <2>3
      <4>2. h[k - 1] = g[k - 1]
        BY <4>1
      <4>3. CASE k = n
        BY <4>1, <4>2, <4>3
      <4>4. CASE k # n
        <5>1. h[k] = g[k] /\ k \in 1 .. n - 1
          BY <4>1, <4>4, <2>3
        <5> QED BY <4>2, <5>1, <2>4 DEF Scan
      <4> QED BY <4>3, <4>4
    <3>3. h = [k \in 0 .. n |-> h[k]]
      OBVIOUS
    <3> HIDE DEF h
    <3> QED BY <3>1, <3>2, <3>3 DEF Scan
  <2> QED BY <2>1, <2>5
<1>3. PICK g : Scan(N, g)
  BY <1>1, <1>2
<1> DEFINE body(f) == [n \in 0 .. N |-> IF n = 0 THEN RefillStart
                                        ELSE RefillStep(f[n - 1])]
           next == CHOOSE f : f = body(f)
<1>4. g = body(g)
  <2>1. ASSUME NEW k \in 0 .. N PROVE g[k] = body(g)[k]
    <3>1. k # 0 => k \in 1 .. N
      BY <1>1
    <3>2. body(g)[k] = IF k = 0 THEN RefillStart ELSE RefillStep(g[k - 1])
      OBVIOUS
    <3> HIDE DEF body
    <3> QED BY <3>1, <3>2, <1>3 DEF Scan
  <2> QED BY <2>1, <1>3 DEF Scan
<1>5. next = body(next)
  BY <1>4
<1>6. Refilled = next[N]
  BY DEF Refilled, N, RefillStart, RefillStep
<1> HIDE DEF next
<1>7. next[0] = RefillStart /\ \A k \in 1 .. N : next[k] = RefillStep(next[k - 1])
  <2>1. \A k \in 0 .. N : body(next)[k] = IF k = 0 THEN RefillStart
                                          ELSE RefillStep(next[k - 1])
    OBVIOUS
  <2> HIDE DEF body
  <2>2. \A k \in 0 .. N : next[k] = IF k = 0 THEN RefillStart
                                    ELSE RefillStep(next[k - 1])
    BY <1>5, <2>1
  <2> QED BY <1>1, <2>2
<1> HIDE DEF body
<1>8. \A n \in 0 .. N : RefillOK(next[n], n)
  <2> DEFINE Bad == {n \in 0 .. N : ~RefillOK(next[n], n)}
  <2> SUFFICES ASSUME Bad # {} PROVE FALSE
    OBVIOUS
  <2>1. PICK n \in Bad : \A m \in Bad : n <= m
    <3>1. Bad \in SUBSET Nat
      BY <1>1
    <3> HIDE DEF Bad
    <3> QED BY <3>1, LeastElement
  <2>2. n # 0
    BY <2>1, <1>7, RefillStarts
  <2>3. /\ n - 1 \in 0 .. ItemsMax - 1 /\ (n - 1) + 1 = n
        /\ RefillOK(next[n - 1], n - 1)
        /\ next[n] = RefillStep(next[n - 1])
    <3>1. n \in 1 .. N /\ n - 1 \in 0 .. N /\ n - 1 \notin Bad
      BY <2>1, <2>2, <1>1
    <3> QED BY <3>1, <1>1, <1>7 DEF N
  <2>4. RefillOK(RefillStep(next[n - 1]), (n - 1) + 1)
    BY <2>3, RefillStepOK
  <2> QED BY <2>1, <2>3, <2>4
<1> QED BY <1>1, <1>6, <1>7, <1>8 DEF N

(* So nobody waits in the end, or the ring is full.                        *)
LEMMA RefillLoop ==
  ASSUME IInv
  PROVE  RefillOK(Refilled, ItemsMax)
BY RefillRounds, MsgqAssumption

-----------------------------------------------------------------------------
(* One lemma per operation.                                                *)

(* What the invariant says of the queue itself.                            *)
LEMMA MsgqTypes ==
  ASSUME IInv
  PROVE  /\ SendQ \in WaitQueue /\ RecvQ \in WaitQueue /\ SendQ # RecvQ
         /\ \A q \in WaitQueue : q = SendQ \/ q = RecvQ
         /\ ItemsMax \in Nat \ {0} /\ msgq.items \in 0 .. ItemsMax
         /\ RingOK(msgq) /\ attr \in [Thread -> Parcel] /\ valid \in BOOLEAN
         /\ msgq.items # ItemsMax => wq[SendQ] = << >>
         /\ msgq.items # 0 => wq[RecvQ] = << >>
BY MsgqAssumption
DEF IInv, TypeOK, RingOK, Ring, Place, Parcel, NoIdleWaiters

(* The invariant of this module from its parts.                            *)
LEMMA Together ==
  ASSUME WaitInv', RingOK(msgq'), attr' \in [Thread -> Parcel], valid' \in BOOLEAN,
         msgq'.items # ItemsMax => wq'[SendQ] = << >>,
         msgq'.items # 0 => wq'[RecvQ] = << >>
  PROVE  IInv'
BY DEF IInv, WaitInv, TypeOK, RingOK, Ring, Place, Parcel, NoIdleWaiters

(* Calls only note what they are for.                                      *)
LEMMA CallsInvariant ==
  ASSUME IInv, NEW t \in Thread, NEW c,
         Receive(t, c) \/ \E o \in Letter : Send(t, o, c)
  PROVE  IInv'
<1>1. PICK q \in {SendQ, RecvQ} : Call(t, q, c)
  BY DEF Receive, Send
<1>2. WaitInv'
  BY <1>1, MsgqTypes, CallInvariant DEF IInv
<1>3. attr' \in [Thread -> Parcel]
  BY MsgqTypes, MsgqAssumption DEF Receive, Send, Letter, Parcel, msgqVars
<1>4. UNCHANGED << msgq, valid, wq >>
  BY <1>1 DEF Receive, Send, Call, msgqVars
<1> QED BY <1>2, <1>3, <1>4, MsgqTypes, Together

(* A sender waits only when the ring is full; otherwise its message goes   *)
(* to a receiver if one waits, and none is left when it goes to the ring.  *)
LEMMA SendInvariant ==
  ASSUME IInv, NEW t \in Thread,
         TestAndWaitSend(t) \/ \E o \in Letter : TrySend(t, o)
  PROVE  IInv'
<1>1. valid' = valid
  BY DEF TestAndWaitSend, TrySend
<1>2. ASSUME NEW o \in Parcel, state[t] = "READY", pc[t] \in {"running", "armed"},
             msgq.items < ItemsMax, Forwards,
             attr' = [attr EXCEPT ![WaitBlockGet(RecvQ, Policy)].msg = o.msg],
             ProceedAndNotify(t, RecvQ, WaitBlockGet(RecvQ, Policy)),
             UNCHANGED << msgq, prio >>
      PROVE  IInv'
  <2> DEFINE r == WaitBlockGet(RecvQ, Policy)
  <2>1. r \in Waiters(RecvQ)
    BY <1>2, MsgqTypes, SelectedIsWaiter DEF Forwards, IInv, WaitInv
  <2>2. WaitInv'
    BY <1>2, <2>1, MsgqTypes, ProceedAndNotifyInvariant DEF IInv
  <2>3. attr' \in [Thread -> Parcel]
    BY <1>2, MsgqTypes DEF Parcel
  <2>4. msgq'.items = 0 /\ wq'[SendQ] = wq[SendQ]
    BY <1>2, MsgqTypes DEF Forwards, ProceedAndNotify, NotifyBlock, IInv, WaitInv, WaitTypeOK
  <2> QED BY <1>1, <1>2, <2>2, <2>3, <2>4, MsgqTypes, Together
<1>3. ASSUME NEW o \in Parcel, WaitInv', wq' = wq,
             msgq.items < ItemsMax, ~Forwards, msgq' = PutMsg(msgq, o), attr' = attr
      PROVE  IInv'
  <2>1. RingOK(msgq') /\ msgq'.items = msgq.items + 1
    BY <1>3, MsgqTypes, PutMsgRing
  <2>2. wq'[RecvQ] = << >> /\ wq'[SendQ] = << >>
    BY <1>3, MsgqTypes DEF Forwards
  <2> QED BY <1>1, <1>3, <2>1, <2>2, MsgqTypes, Together
<1>4. CASE TestAndWaitSend(t)
  <2>1. Enters(t, SendQ) /\ state[t] = "READY" /\ pc[t] = "armed" /\ attr[t] \in Parcel
    BY <1>4, MsgqTypes DEF TestAndWaitSend, Enters
  <2>2. CASE msgq.items = ItemsMax /\ Block(t) /\ UNCHANGED << msgq, attr >>
    <3>1. WaitInv'
      BY <2>1, <2>2, MsgqTypes, BlockInvariant DEF IInv
    <3>2. wq'[RecvQ] = wq[RecvQ]
      BY <2>1, <2>2, MsgqTypes DEF Block, Enters, IInv, WaitInv, WaitTypeOK
    <3> QED BY <1>1, <2>2, <3>1, <3>2, MsgqTypes, Together
  <2>3. CASE msgq.items < ItemsMax /\ Forwards
    <3>1. /\ attr' = [attr EXCEPT ![WaitBlockGet(RecvQ, Policy)].msg = attr[t].msg]
          /\ ProceedAndNotify(t, RecvQ, WaitBlockGet(RecvQ, Policy))
          /\ UNCHANGED << msgq, prio >>
      BY <1>4, <2>3, MsgqTypes DEF TestAndWaitSend
    <3>2. msgq.items < ItemsMax /\ Forwards
      BY <2>3
    <3> QED BY <1>2, <2>1, <3>1, <3>2
  <2>4. CASE /\ msgq.items < ItemsMax /\ ~Forwards
             /\ msgq' = PutMsg(msgq, attr[t])
             /\ Proceed(t)
             /\ UNCHANGED << attr, prio >>
    <3>1. WaitInv'
      BY <2>1, <2>4, MsgqTypes, ProceedInvariant DEF IInv, WaitInv, WaitTypeOK
    <3>2. wq' = wq
      BY <2>4 DEF Proceed
    <3> QED BY <1>3, <2>1, <2>4, <3>1, <3>2
  <2> QED BY <1>4, <2>2, <2>3, <2>4, MsgqTypes DEF TestAndWaitSend
<1>5. ASSUME NEW o \in Letter, TrySend(t, o) PROVE IInv'
  <2>1. TryCall(t) /\ state[t] = "READY" /\ pc[t] = "running" /\ prio' = prio
        /\ o \in Parcel
    BY <1>5, MsgqAssumption DEF TrySend, TryCall, Letter, Parcel
  <2>2. ASSUME NEW res \in {"OK", "WAIT_TIMEOUT"}, TryDone(t, res)
        PROVE  WaitInv' /\ wq' = wq
    BY <2>1, <2>2, TryDoneInvariant DEF TryDone, Result, IInv, WaitInv, WaitTypeOK
  <2>3. CASE TryDone(t, "WAIT_TIMEOUT") /\ UNCHANGED << msgq, attr >>
    <3>1. WaitInv' /\ wq' = wq
      BY <2>2, <2>3
    <3> QED BY <1>1, <2>3, <3>1, MsgqTypes, Together
  <2>4. CASE msgq.items < ItemsMax /\ Forwards
    <3>1. /\ attr' = [attr EXCEPT ![WaitBlockGet(RecvQ, Policy)].msg = o.msg]
          /\ ProceedAndNotify(t, RecvQ, WaitBlockGet(RecvQ, Policy))
          /\ UNCHANGED << msgq, prio >>
      BY <1>5, <2>4, MsgqTypes DEF TrySend
    <3>2. msgq.items < ItemsMax /\ Forwards /\ pc[t] \in {"running", "armed"}
      BY <2>1, <2>4
    <3> QED BY <1>2, <2>1, <3>1, <3>2
  <2>5. CASE /\ msgq.items < ItemsMax /\ ~Forwards
             /\ msgq' = PutMsg(msgq, o)
             /\ TryDone(t, "OK") /\ UNCHANGED attr
    <3>1. WaitInv' /\ wq' = wq
      BY <2>2, <2>5
    <3> QED BY <1>3, <2>1, <2>5, <3>1
  <2> QED BY <1>5, <2>3, <2>4, <2>5, MsgqTypes DEF TrySend
<1> QED BY <1>4, <1>5

(* A message that is taken leaves no receiver behind, as none waited; the  *)
(* place it leaves is filled from the senders if any waits.                *)
LEMMA TakeMsgInvariant ==
  ASSUME IInv, NEW t \in Thread, TakeMsg(t), msgq.items # 0,
         state[t] = "READY", pc[t] \in {"running", "armed"},
         Proceed(t) => WaitInv',
         UNCHANGED << prio, valid >>
  PROVE  IInv'
<1>1. /\ RingOK(Taken(msgq)) /\ Taken(msgq).items = msgq.items - 1
      /\ Taken(msgq).items \in 0 .. ItemsMax - 1
      /\ attr' \in [Thread -> Parcel]
      /\ wq[RecvQ] = << >>
  <2>1. /\ RingOK(Taken(msgq)) /\ Taken(msgq).items = msgq.items - 1
        /\ NextMsg(msgq) \in Msg \cup {NoMsg}
    BY MsgqTypes, TakenRing
  <2>2. attr' \in [Thread -> Parcel]
    BY <2>1, MsgqTypes DEF TakeMsg, Parcel
  <2> QED BY <2>1, <2>2, MsgqTypes
<1>2. CASE Refills
  <2> DEFINE s == WaitBlockGet(SendQ, Policy)
  <2>1. s \in Waiters(SendQ)
    BY <1>2, MsgqTypes, SelectedIsWaiter DEF Refills, IInv, WaitInv
  <2>2. msgq' = PutMsg(Taken(msgq), attr[s]) /\ ProceedAndNotify(t, SendQ, s)
    BY <1>2 DEF TakeMsg
  <2> HIDE DEF s
  <2>3. WaitInv'
    BY <2>1, <2>2, MsgqTypes, ProceedAndNotifyInvariant DEF IInv
  <2>4. attr[s] \in Parcel
    BY <2>1, MsgqTypes DEF Waiters
  <2>5. RingOK(msgq') /\ msgq'.items = ItemsMax
    <3>1. Taken(msgq).items < ItemsMax /\ Taken(msgq).items + 1 = ItemsMax
      BY <1>1, <1>2, MsgqTypes DEF Refills
    <3> QED BY <1>1, <2>2, <2>4, <3>1, PutMsgRing
  <2>6. wq'[RecvQ] = << >>
    BY <1>1, <2>2, MsgqTypes DEF ProceedAndNotify, NotifyBlock, IInv, WaitInv, WaitTypeOK
  <2> QED BY <1>1, <2>3, <2>5, <2>6, MsgqTypes, Together
<1>3. CASE ~Refills
  <2>1. msgq' = Taken(msgq) /\ Proceed(t) /\ wq' = wq
    BY <1>3 DEF TakeMsg, Proceed
  <2>2. wq[SendQ] = << >>
    BY <1>1, <1>3, MsgqTypes DEF Refills
  <2> QED BY <1>1, <2>1, <2>2, MsgqTypes, Together
<1> QED BY <1>2, <1>3

(* A receiver waits only when the ring is empty.                           *)
LEMMA ReceiveInvariant ==
  ASSUME IInv, NEW t \in Thread, TestAndWaitRecv(t) \/ TryReceive(t)
  PROVE  IInv'
<1>1. CASE TestAndWaitRecv(t)
  <2>1. Enters(t, RecvQ) /\ state[t] = "READY" /\ pc[t] = "armed" /\ valid' = valid
    BY <1>1 DEF TestAndWaitRecv, Enters
  <2>2. CASE msgq.items = 0
    <3>1. Block(t) /\ UNCHANGED << msgq, attr >>
      BY <1>1, <2>2 DEF TestAndWaitRecv
    <3>2. WaitInv'
      BY <2>1, <3>1, MsgqTypes, BlockInvariant DEF IInv
    <3>3. wq'[SendQ] = wq[SendQ]
      BY <2>1, <3>1, MsgqTypes DEF Block, Enters, IInv, WaitInv, WaitTypeOK
    <3> QED BY <2>1, <2>2, <3>1, <3>2, <3>3, MsgqTypes, Together
  <2>3. CASE msgq.items # 0
    <3>1. TakeMsg(t) /\ UNCHANGED << prio, valid >>
      BY <1>1, <2>3 DEF TestAndWaitRecv
    <3>2. Proceed(t) => WaitInv'
      BY <2>1, <3>1, MsgqTypes, ProceedInvariant DEF IInv, WaitInv, WaitTypeOK
    <3> QED BY <2>1, <2>3, <3>1, <3>2, TakeMsgInvariant
  <2> QED BY <2>2, <2>3
<1>2. CASE TryReceive(t)
  <2>1. TryCall(t) /\ state[t] = "READY" /\ pc[t] = "running"
        /\ UNCHANGED << prio, valid >>
    BY <1>2 DEF TryReceive, TryCall
  <2>2. CASE msgq.items = 0
    <3>1. TryDone(t, "WAIT_TIMEOUT") /\ UNCHANGED << msgq, attr >>
      BY <1>2, <2>2 DEF TryReceive
    <3>2. WaitInv' /\ wq' = wq
      BY <2>1, <3>1, TryDoneInvariant DEF TryDone, Result, IInv, WaitInv, WaitTypeOK
    <3> QED BY <2>1, <3>1, <3>2, MsgqTypes, Together
  <2>3. CASE msgq.items # 0
    <3>1. TakeMsg(t)
      BY <1>2, <2>3 DEF TryReceive
    <3>2. Proceed(t) => WaitInv'
      <4>1. Proceed(t) => TryDone(t, "OK")
        BY DEF Proceed, TryDone
      <4> QED BY <2>1, <4>1, TryDoneInvariant DEF Result, IInv, WaitInv, WaitTypeOK
    <3> QED BY <2>1, <2>3, <3>1, <3>2, TakeMsgInvariant
  <2> QED BY <2>2, <2>3
<1> QED BY <1>1, <1>2

(* The senders that the flush leaves behind face a ring that is full       *)
(* again.                                                                  *)
LEMMA FlushInvariant ==
  ASSUME IInv, Flush
  PROVE  IInv'
<1> DEFINE left == Refilled.waiting
           released == Waiters(SendQ) \ ToSet(left)
<1>1. RefillOK(Refilled, ItemsMax)
  BY RefillLoop
<1>2. /\ msgq' = Refilled.q /\ wq' = [wq EXCEPT ![SendQ] = left]
      /\ status' = [t \in Thread |-> IF t \in released THEN "SATISFIED" ELSE status[t]]
      /\ state' = [t \in Thread |-> IF t \in released THEN "READY" ELSE state[t]]
      /\ UNCHANGED << pc, prio, result, restVars, attr, valid >>
  BY DEF Flush
<1>3. left \in Seq(Thread) /\ IsInjective(left)
      /\ \A t \in Thread : Linked(left, t) => Linked(wq[SendQ], t)
  BY <1>1 DEF RefillOK
<1>4. \A t \in Thread : t \in released <=> Linked(wq[SendQ], t) /\ ~Linked(left, t)
  <2>1. DOMAIN left = 1 .. Len(left)
    BY <1>3, LenProperties
  <2> HIDE DEF left
  <2>2. \A t \in Thread : t \in ToSet(left) <=> Linked(left, t)
    BY <2>1 DEF ToSet, Linked
  <2> QED BY <2>2 DEF Waiters
<1>5. released \in SUBSET Thread /\ \A t \in released : Linked(wq[SendQ], t)
  BY DEF Waiters
<1> HIDE DEF left, released
<1>6. wq' \in [WaitQueue -> Seq(Thread)] /\ \A q \in WaitQueue : IsInjective(wq'[q])
  BY <1>2, <1>3, ZenonT(30) DEF IInv, WaitInv, WaitTypeOK, LinksConsistent
<1>7. \A q \in WaitQueue, t \in Thread :
        Linked(wq'[q], t) <=> Linked(wq[q], t) /\ t \notin released
  <2> SUFFICES ASSUME NEW q \in WaitQueue, NEW t \in Thread
               PROVE  Linked(wq'[q], t) <=> Linked(wq[q], t) /\ t \notin released
    OBVIOUS
  <2>1. CASE q = SendQ
    <3>1. wq'[q] = left
      BY <1>2, <2>1 DEF IInv, WaitInv, WaitTypeOK
    <3> QED BY <1>3, <1>4, <2>1, <3>1
  <2>2. CASE q # SendQ
    <3>1. wq'[q] = wq[q]
      BY <1>2, <2>2 DEF IInv, WaitInv, WaitTypeOK
    <3>2. ~(Linked(wq[q], t) /\ Linked(wq[SendQ], t))
      BY <2>2, MsgqTypes DEF IInv, WaitInv, LinksConsistent
    <3> QED BY <1>5, <3>1, <3>2
  <2> QED BY <2>1, <2>2
<1>8. WaitInv'
  <2>1. \A t \in released : \E q \in WaitQueue : Linked(wq[q], t)
    BY <1>5, MsgqTypes
  <2> QED BY <1>2, <1>5, <1>6, <1>7, <2>1, ReleaseInvariant DEF IInv
<1>9. /\ wq'[SendQ] = left /\ wq'[RecvQ] = wq[RecvQ]
      /\ RingOK(msgq') /\ msgq'.items \in 0 .. ItemsMax
      /\ left # << >> => msgq'.items = ItemsMax
      /\ wq[SendQ] = << >> => msgq'.items = 0
  BY <1>1, <1>2, MsgqTypes DEF left, RefillOK, RingOK, Ring, IInv, WaitInv, WaitTypeOK
<1>10. msgq'.items # 0 => wq'[RecvQ] = << >>
  BY <1>9, MsgqTypes
<1> QED BY <1>2, <1>8, <1>9, <1>10, MsgqTypes, Together

(* The destructor releases senders and receivers.                          *)
LEMMA DeinitInvariant ==
  ASSUME IInv, Deinit
  PROVE  IInv'
<1> DEFINE all == Waiters(SendQ) \cup Waiters(RecvQ)
<1>1. /\ wq' = [q \in WaitQueue |-> << >>]
      /\ status' = [t \in Thread |-> IF t \in all THEN "DELETED" ELSE status[t]]
      /\ state' = [t \in Thread |-> IF t \in all THEN "READY" ELSE state[t]]
      /\ UNCHANGED << pc, prio, result, restVars, msgq, attr >>
      /\ valid' = FALSE
  BY DEF Deinit
<1>2. /\ all \in SUBSET Thread
      /\ \A t \in all : \E q \in WaitQueue : Linked(wq[q], t)
      /\ \A q \in WaitQueue, t \in Thread : Linked(wq[q], t) => t \in all
  BY MsgqTypes DEF Waiters
<1>3. << >> \in Seq(Thread) /\ IsInjective(<< >>) /\ \A t \in Thread : ~Linked(<< >>, t)
  BY EmptySeq DEF IsInjective, Linked
<1> HIDE DEF all
<1>4. WaitInv'
  <2>1. /\ wq' \in [WaitQueue -> Seq(Thread)]
        /\ \A q \in WaitQueue : IsInjective(wq'[q])
        /\ \A q \in WaitQueue, t \in Thread :
             Linked(wq'[q], t) <=> Linked(wq[q], t) /\ t \notin all
    BY <1>1, <1>2, <1>3
  <2> QED BY <1>1, <1>2, <2>1, ReleaseInvariant DEF IInv
<1>5. wq'[SendQ] = << >> /\ wq'[RecvQ] = << >>
  BY <1>1, MsgqTypes
<1> QED BY <1>1, <1>4, <1>5, MsgqTypes, Together

(* What the threads do of their own and to each other takes waiters away   *)
(* at most.                                                                *)
LEMMA OtherStepsInvariant ==
  ASSUME IInv, WaitStep, UNCHANGED << msgq, valid >>, attr' \in [Thread -> Parcel]
  PROVE  IInv'
<1>1. WaitInv'
  BY WaitStepInvariant DEF IInv
<1>2. \A q \in WaitQueue : wq[q] = << >> => wq'[q] = << >>
  <2>1. \A t \in Thread : Rollback(t) =>
          \A q \in WaitQueue : wq[q] = << >> => wq'[q] = << >>
    BY EmptySeq DEF Rollback, Unlink, Linked
  <2> QED BY <2>1
      DEF WaitStep, StayStep, EventStep, Leave, Wakeup, Return, TimerExpire,
          Terminate, SetPrio, AbortSet, AbortReset, AbortDeinit, EventSet
<1> QED BY <1>1, <1>2, MsgqTypes, Together

-----------------------------------------------------------------------------
(* Every reachable state satisfies the inductive invariant.                *)
THEOREM InductiveInvariant == Spec => []IInv
<1>1. Init => IInv
  <2> SUFFICES ASSUME Init PROVE IInv
    OBVIOUS
  <2>1. WaitInv /\ \A q \in WaitQueue : wq[q] = << >>
    BY WaitInitInvariant DEF Init, WaitInit
  <2>2. RingOK(msgq)
    <3>1. ItemsMax \in Nat \ {0} /\ 0 \in 0 .. 2 * ItemsMax - 1 /\ 0 < ItemsMax
      BY MsgqAssumption
    <3>2. 0 % ItemsMax = 0
      BY <3>1, WrapsOnce
    <3>3. 0 = (0 + 0) % ItemsMax
      BY <3>2
    <3> QED BY <3>1, <3>3 DEF Init, RingOK, Ring, Place
  <2>3. attr \in [Thread -> Parcel] /\ valid \in BOOLEAN
    BY DEF Init, NoLetter, Parcel
  <2> QED BY <2>1, <2>2, <2>3, MsgqAssumption
      DEF IInv, WaitInv, TypeOK, RingOK, Ring, Place, Parcel, NoIdleWaiters
<1>2. IInv /\ [Next]_vars => IInv'
  <2> SUFFICES ASSUME IInv, [Next]_vars PROVE IInv'
    OBVIOUS
  <2>1. ASSUME StayStep, UNCHANGED msgqVars PROVE IInv'
    BY <2>1, MsgqTypes, OtherStepsInvariant DEF WaitStep, msgqVars
  <2>2. ASSUME NEW t \in Thread, LeaveCall(t) PROVE IInv'
    <3>1. attr' \in [Thread -> Parcel]
      BY <2>2, MsgqTypes DEF LeaveCall, NoLetter, Parcel
    <3> QED BY <2>2, <3>1, OtherStepsInvariant DEF LeaveCall, WaitStep
  <2>3. ASSUME UNCHANGED vars PROVE IInv'
    <3>1. WaitInv'
      BY <2>3, WaitUnchanged DEF IInv, vars
    <3> QED BY <2>3, <3>1, MsgqTypes, Together DEF vars, waitVars, msgqVars
  <2> QED BY <2>1, <2>2, <2>3, CallsInvariant, SendInvariant, ReceiveInvariant,
             FlushInvariant, DeinitInvariant
          DEF Next
<1> QED BY <1>1, <1>2, PTL DEF Spec

(* The variables keep their types, and head, tail and the number of items  *)
(* of the ring agree.                                                      *)
THEOREM TypeCorrect == Spec => []TypeOK
<1>1. IInv => TypeOK
  BY DEF IInv
<1> QED BY <1>1, InductiveInvariant, PTL

(* Threads wait to send only to a full queue, to receive only from an      *)
(* empty one, for every capacity.                                          *)
THEOREM NobodyWaitsIdly == Spec => []NoIdleWaiters
<1>1. IInv => NoIdleWaiters
  BY DEF IInv
<1> QED BY <1>1, InductiveInvariant, PTL

(* No wake-up of a sender or receiver is lost, although each thread that   *)
(* is woken removes its blocks only later.                                 *)
THEOREM NoLostWakeup == Spec => []SleeperCanWake
<1>1. IInv => SleeperCanWake
  BY DEF IInv, WaitInv
<1> QED BY <1>1, InductiveInvariant, PTL

-----------------------------------------------------------------------------
(* The ring as a sequence.                                                 *)
Slot(q, k) == (q.tail + k - 1) % ItemsMax

Contents(q) == [k \in 1 .. q.items |-> q.buf[Slot(q, k)]]

Memory == Msg \cup {NoMsg}

(* The ring has a slot of its own for each of as many items as it can      *)
(* have.                                                                   *)
LEMMA SlotsDiffer ==
  ASSUME NEW n \in Nat \ {0}, NEW tail \in 0 .. n - 1,
         NEW j \in 1 .. n, NEW k \in 1 .. n
  PROVE  /\ (tail + j - 1) % n \in 0 .. n - 1
         /\ (tail + j - 1) % n = (tail + k - 1) % n => j = k
         /\ (tail + 1 - 1) % n = tail
<1> DEFINE a == tail + j - 1
           b == tail + k - 1
<1>1. a \in 0 .. 2 * n - 1 /\ b \in 0 .. 2 * n - 1
  OBVIOUS
<1>2. tail + 1 - 1 \in 0 .. 2 * n - 1 /\ tail + 1 - 1 = tail /\ tail < n
  OBVIOUS
<1> HIDE DEF a, b
<1>3. /\ a % n = IF a < n THEN a ELSE a - n
      /\ b % n = IF b < n THEN b ELSE b - n
      /\ (tail + 1 - 1) % n = tail
  BY <1>1, <1>2, WrapsOnce
<1>4. a % n \in 0 .. n - 1
  BY <1>1, <1>3
<1>5. a % n = b % n => j = k
  <2>1. CASE a < n /\ b < n
    BY <2>1, <1>3 DEF a, b
  <2>2. CASE a >= n /\ b >= n
    BY <2>2, <1>3 DEF a, b
  <2>3. CASE a < n /\ b >= n
    BY <2>3, <1>3 DEF a, b
  <2>4. CASE a >= n /\ b < n
    BY <2>4, <1>3 DEF a, b
  <2> QED BY <1>1, <2>1, <2>2, <2>3, <2>4
<1> QED BY <1>3, <1>4, <1>5 DEF a, b

LEMMA SlotFacts ==
  ASSUME NEW q, RingOK(q)
  PROVE  /\ q.items \in 0 .. ItemsMax
         /\ \A k \in 1 .. ItemsMax : Slot(q, k) \in Place
         /\ \A j, k \in 1 .. ItemsMax : Slot(q, j) = Slot(q, k) => j = k
         /\ Slot(q, 1) = q.tail
         /\ q.items < ItemsMax => Slot(q, q.items + 1) = q.head
<1> DEFINE tail == q.tail
           items == q.items
<1>1. /\ ItemsMax \in Nat \ {0} /\ tail \in 0 .. ItemsMax - 1
      /\ items \in 0 .. ItemsMax /\ q.head = (tail + items) % ItemsMax
  BY MsgqAssumption DEF RingOK, Ring, Place
<1> HIDE DEF tail, items
<1>2. \A j, k \in 1 .. ItemsMax :
        /\ (tail + j - 1) % ItemsMax \in 0 .. ItemsMax - 1
        /\ (tail + j - 1) % ItemsMax = (tail + k - 1) % ItemsMax => j = k
        /\ (tail + 1 - 1) % ItemsMax = tail
  BY <1>1, SlotsDiffer
<1>3. 1 \in 1 .. ItemsMax /\ tail + (items + 1) - 1 = tail + items
  BY <1>1
<1> QED BY <1>1, <1>2, <1>3 DEF Slot, Place, tail, items

(* Its contents are as many messages as the ring has items.                *)
LEMMA ContentsSeq ==
  ASSUME NEW q, RingOK(q)
  PROVE  /\ Contents(q) \in Seq(Memory) /\ Len(Contents(q)) = q.items
         /\ \A k \in 1 .. q.items : Contents(q)[k] = q.buf[Slot(q, k)]
<1>1. q.items \in 0 .. ItemsMax /\ ItemsMax \in Nat
  BY MsgqAssumption DEF RingOK, Ring
<1>2. \A k \in 1 .. q.items : q.buf[Slot(q, k)] \in Memory
  BY <1>1, SlotFacts DEF RingOK, Ring, Memory
<1>3. Contents(q) \in [1 .. q.items -> Memory]
  BY <1>2 DEF Contents
<1> QED BY <1>1, <1>3 DEF Contents

(* What is put at an end of the ring is at this end of the sequence.       *)
LEMMA PutMsgContents ==
  ASSUME NEW q, RingOK(q), q.items < ItemsMax, NEW o \in Parcel
  PROVE  Contents(PutMsg(q, o)) = Abstract!Insert(Contents(q), o)
<1> DEFINE r == PutMsg(q, o)
           c == Contents(q)
           n == q.items
<1>1. RingOK(r) /\ r.items = n + 1 /\ n \in 0 .. ItemsMax - 1 /\ ItemsMax \in Nat \ {0}
  BY PutMsgRing, MsgqAssumption DEF RingOK, Ring
<1>2. /\ q.buf \in [Place -> Memory] /\ q.head \in Place /\ q.tail \in Place
      /\ o.msg \in Memory /\ o.to_back \in BOOLEAN
  BY DEF RingOK, Ring, Parcel, Memory
<1>3. /\ c \in Seq(Memory) /\ Len(c) = n
      /\ \A k \in 1 .. n : c[k] = q.buf[Slot(q, k)]
      /\ Contents(r) \in Seq(Memory) /\ Len(Contents(r)) = n + 1
      /\ \A k \in 1 .. n + 1 : Contents(r)[k] = r.buf[Slot(r, k)]
  BY <1>1, ContentsSeq
<1>4. /\ \A k \in 1 .. ItemsMax : Slot(q, k) \in Place /\ Slot(r, k) \in Place
      /\ \A j, k \in 1 .. ItemsMax : Slot(q, j) = Slot(q, k) => j = k
      /\ \A j, k \in 1 .. ItemsMax : Slot(r, j) = Slot(r, k) => j = k
      /\ Slot(q, n + 1) = q.head /\ Slot(r, 1) = r.tail
  BY <1>1, SlotFacts
<1>5. CASE o.to_back
  <2>1. r.buf = [q.buf EXCEPT ![q.head] = o.msg] /\ r.tail = q.tail
    BY <1>5 DEF PutMsg, RingOK, Ring
  <2>2. \A k \in 1 .. n + 1 : Slot(r, k) = Slot(q, k)
    BY <2>1 DEF Slot
  <2>3. \A k \in 1 .. n : Slot(q, k) # q.head
    BY <1>1, <1>4
  <2> HIDE DEF r, c, n
  <2>4. Contents(r)[n + 1] = o.msg /\ \A k \in 1 .. n : Contents(r)[k] = c[k]
    BY <1>1, <1>2, <1>3, <1>4, <2>1, <2>2, <2>3
  <2>5. /\ Append(c, o.msg) \in Seq(Memory) /\ Len(Append(c, o.msg)) = n + 1
        /\ \A k \in 1 .. n : Append(c, o.msg)[k] = c[k]
        /\ Append(c, o.msg)[n + 1] = o.msg
    BY <1>2, <1>3, AppendProperties
  <2>6. \A k \in 1 .. n + 1 : Contents(r)[k] = Append(c, o.msg)[k]
    BY <1>1, <2>4, <2>5
  <2>7. Contents(r) = Append(c, o.msg)
    BY <1>3, <2>5, <2>6, SeqEqual
  <2> QED BY <1>5, <2>7 DEF Abstract!Insert, r, c
<1>6. CASE ~o.to_back
  <2> DEFINE front == (q.tail + (ItemsMax - 1)) % ItemsMax
  <2>1. r.buf = [q.buf EXCEPT ![front] = o.msg] /\ r.tail = front
    BY <1>6 DEF PutMsg, RingOK, Ring
  <2>2. front \in Place
    BY <1>1, <2>1 DEF RingOK, Ring
  <2>3. ASSUME NEW k \in 1 .. n PROVE Slot(r, k + 1) = Slot(q, k)
    <3> DEFINE tail == q.tail
               a == tail + (ItemsMax - 1)
               b == tail + k - 1
    <3>1. tail \in 0 .. ItemsMax - 1
      BY <1>2 DEF Place
    <3> HIDE DEF tail, n
    <3>2. a \in 0 .. 2 * ItemsMax - 1 /\ b \in 0 .. 2 * ItemsMax - 1
      BY <1>1, <3>1
    <3>3. /\ a % ItemsMax = IF a < ItemsMax THEN a ELSE a - ItemsMax
          /\ b % ItemsMax = IF b < ItemsMax THEN b ELSE b - ItemsMax
      <4> HIDE DEF a, b
      <4> QED BY <1>1, <3>2, WrapsOnce
    <3>4. PICK f \in 0 .. ItemsMax - 1 :
            f = a % ItemsMax /\ f = IF a < ItemsMax THEN a ELSE a - ItemsMax
      <4>1. (IF a < ItemsMax THEN a ELSE a - ItemsMax) \in 0 .. ItemsMax - 1
        BY <1>1, <3>1
      <4> QED BY <3>3, <4>1
    <3> DEFINE e == f + k
    <3>5. e \in 0 .. 2 * ItemsMax - 1
      BY <1>1
    <3>6. e % ItemsMax = IF e < ItemsMax THEN e ELSE e - ItemsMax
      <4> HIDE DEF e
      <4> QED BY <1>1, <3>5, WrapsOnce
    <3>7. e % ItemsMax = b % ItemsMax
      BY <1>1, <3>1, <3>3, <3>4, <3>6
    <3>8. r.tail = f
      BY <2>1, <3>4 DEF tail
    <3>9. f + (k + 1) - 1 = f + k
      BY <3>4, <1>1
    <3> QED BY <3>7, <3>8, <3>9 DEF Slot, tail
  <2>4. Slot(r, 1) = front /\ \A k \in 1 .. n : Slot(q, k) # front
    <3>1. Slot(r, 1) = front
      BY <1>4, <2>1
    <3>2. ASSUME NEW k \in 1 .. n, Slot(q, k) = front PROVE FALSE
      <4>1. 1 \in 1 .. ItemsMax /\ k + 1 \in 1 .. ItemsMax /\ k + 1 # 1
        BY <1>1
      <4> QED BY <1>4, <2>3, <3>1, <3>2, <4>1
    <3> QED BY <3>1, <3>2
  <2> DEFINE d == << o.msg >> \o c
  <2>5. /\ d \in Seq(Memory) /\ Len(d) = n + 1
        /\ d[1] = o.msg /\ \A k \in 1 .. n : d[k + 1] = c[k]
    <3>1. << o.msg >> \in Seq(Memory) /\ Len(<< o.msg >>) = 1 /\ << o.msg >>[1] = o.msg
      BY <1>2
    <3>2. /\ d \in Seq(Memory) /\ Len(d) = 1 + n
          /\ \A i \in 1 .. 1 + n : d[i] = IF i <= 1 THEN << o.msg >>[i] ELSE c[i - 1]
      BY <1>3, <3>1, ConcatProperties
    <3> HIDE DEF d, n
    <3> QED BY <1>1, <3>1, <3>2
  <2> HIDE DEF r, c, n, d, front
  <2>6. Contents(r)[1] = o.msg /\ \A k \in 1 .. n : Contents(r)[k + 1] = c[k]
    <3>1. Contents(r)[1] = o.msg
      BY <1>1, <1>2, <1>3, <2>1, <2>2, <2>4
    <3>2. ASSUME NEW k \in 1 .. n PROVE Contents(r)[k + 1] = c[k]
      <4>1. k + 1 \in 1 .. n + 1 /\ k \in 1 .. ItemsMax
        BY <1>1
      <4>2. Contents(r)[k + 1] = r.buf[Slot(q, k)]
        BY <1>3, <2>3, <4>1
      <4> QED BY <1>2, <1>3, <1>4, <2>1, <2>4, <4>1, <4>2
    <3> QED BY <3>1, <3>2
  <2>7. \A k \in 1 .. n + 1 : Contents(r)[k] = d[k]
    <3> SUFFICES ASSUME NEW k \in 1 .. n + 1 PROVE Contents(r)[k] = d[k]
      OBVIOUS
    <3>1. CASE k = 1
      BY <2>5, <2>6, <3>1
    <3>2. CASE k # 1
      <4>1. k - 1 \in 1 .. n /\ (k - 1) + 1 = k
        BY <1>1, <3>2
      <4> QED BY <2>5, <2>6, <4>1
    <3> QED BY <3>1, <3>2
  <2>8. Contents(r) = d
    BY <1>3, <2>5, <2>7, SeqEqual
  <2> QED BY <1>6, <2>8 DEF Abstract!Insert, r, c, d
<1> QED BY <1>2, <1>5, <1>6

(* What is taken is the first, and the rest stays in its order.            *)
LEMMA TakenContents ==
  ASSUME NEW q, RingOK(q), q.items # 0
  PROVE  /\ Contents(q) # << >> /\ Head(Contents(q)) = NextMsg(q)
         /\ Contents(Taken(q)) = Tail(Contents(q))
<1> DEFINE r == Taken(q)
           c == Contents(q)
           n == q.items
<1>1. RingOK(r) /\ r.items = n - 1 /\ n \in 1 .. ItemsMax /\ ItemsMax \in Nat \ {0}
  BY TakenRing, MsgqAssumption DEF RingOK, Ring
<1>2. /\ c \in Seq(Memory) /\ Len(c) = n
      /\ \A k \in 1 .. n : c[k] = q.buf[Slot(q, k)]
      /\ Contents(r) \in Seq(Memory) /\ Len(Contents(r)) = n - 1
      /\ \A k \in 1 .. n - 1 : Contents(r)[k] = r.buf[Slot(r, k)]
  BY <1>1, ContentsSeq
<1>3. r.buf = q.buf /\ r.tail = (q.tail + 1) % ItemsMax /\ q.tail \in 0 .. ItemsMax - 1
  BY DEF Taken, RingOK, Ring, Place
<1>4. ASSUME NEW k \in 1 .. n - 1 PROVE Slot(r, k) = Slot(q, k + 1)
  <2> DEFINE tail == q.tail
             a == tail + 1
             b == tail + k
  <2>1. tail \in 0 .. ItemsMax - 1
    BY <1>3
  <2> HIDE DEF tail, n
  <2>2. a \in 0 .. 2 * ItemsMax - 1 /\ b \in 0 .. 2 * ItemsMax - 1
    BY <1>1, <2>1
  <2>3. /\ a % ItemsMax = IF a < ItemsMax THEN a ELSE a - ItemsMax
        /\ b % ItemsMax = IF b < ItemsMax THEN b ELSE b - ItemsMax
    <3> HIDE DEF a, b
    <3> QED BY <1>1, <2>2, WrapsOnce
  <2>4. PICK f \in 0 .. ItemsMax - 1 :
          f = a % ItemsMax /\ f = IF a < ItemsMax THEN a ELSE a - ItemsMax
    <3>1. (IF a < ItemsMax THEN a ELSE a - ItemsMax) \in 0 .. ItemsMax - 1
      BY <1>1, <2>1
    <3> QED BY <2>3, <3>1
  <2> DEFINE e == f + k - 1
  <2>5. e \in 0 .. 2 * ItemsMax - 1
    BY <1>1
  <2>6. e % ItemsMax = IF e < ItemsMax THEN e ELSE e - ItemsMax
    <3> HIDE DEF e
    <3> QED BY <1>1, <2>5, WrapsOnce
  <2>7. e % ItemsMax = b % ItemsMax
    BY <1>1, <2>1, <2>3, <2>4, <2>6
  <2>8. r.tail = f /\ tail + (k + 1) - 1 = tail + k
    BY <1>1, <1>3, <2>1, <2>4 DEF tail
  <2> QED BY <2>7, <2>8 DEF Slot, tail
<1>5. Head(c) = NextMsg(q) /\ c # << >>
  <2>1. c # << >> /\ Head(c) = c[1] /\ 1 \in 1 .. n
    <3> HIDE DEF c, n
    <3> QED BY <1>1, <1>2, EmptySeq
  <2>2. Slot(q, 1) = q.tail
    BY SlotFacts
  <2> QED BY <1>2, <2>1, <2>2 DEF NextMsg
<1>6. /\ Tail(c) \in Seq(Memory) /\ Len(Tail(c)) = n - 1
      /\ \A k \in 1 .. n - 1 : Tail(c)[k] = c[k + 1]
  <2> HIDE DEF c, n
  <2> QED BY <1>2, <1>5, HeadTailProperties
<1> HIDE DEF r, c, n
<1>7. ASSUME NEW k \in 1 .. n - 1 PROVE Contents(r)[k] = Tail(c)[k]
  <2>1. k + 1 \in 1 .. n
    BY <1>1
  <2> QED BY <1>2, <1>3, <1>4, <1>6, <1>7, <2>1
<1>8. Contents(r) = Tail(c)
  BY <1>2, <1>6, <1>7, SeqEqual
<1> QED BY <1>5, <1>8 DEF c, r

(* The flush stores the messages of the senders that it releases as if     *)
(* they were sent to an empty queue, one after the other.                  *)
LEMMA FlushOrder ==
  ASSUME IInv
  PROVE  \E s \in Seq(Thread) :
           /\ Len(s) <= ItemsMax /\ IsInjective(s)
           /\ \A t \in Thread : Linked(s, t) <=> /\ Linked(wq[SendQ], t)
                                                 /\ ~Linked(Refilled.waiting, t)
           /\ Contents(Refilled.q) = Abstract!Sent(s)
<1> DEFINE N == ItemsMax
<1>1. PICK f : /\ f[0] = RefillStart
               /\ \A k \in 1 .. N : f[k] = RefillStep(f[k - 1])
               /\ \A n \in 0 .. N : RefillOK(f[n], n)
               /\ Refilled = f[N]
  BY RefillRounds
<1>2. N \in Nat \ {0}
  BY MsgqAssumption
<1> HIDE DEF N
<1> DEFINE Done == {n \in 0 .. N : f[n].waiting = << >> \/ n = N}
<1>3. PICK k \in Done : \A n \in Done : k <= n
  <2>1. Done \in SUBSET Nat /\ N \in Done
    BY <1>2
  <2> HIDE DEF Done
  <2> QED BY <2>1, LeastElement
<1>4. k \in 0 .. N /\ \A n \in 0 .. N : n < k => f[n].waiting # << >>
  BY <1>2, <1>3
<1>5. Refilled = f[k]
  <2> DEFINE Bad == {n \in k .. N : f[n] # f[k]}
  <2>1. CASE k = N
    BY <1>1, <2>1
  <2>2. CASE k # N
    <3>1. f[k].waiting = << >>
      BY <1>3, <2>2
    <3>2. Bad = {}
      <4> SUFFICES ASSUME Bad # {} PROVE FALSE
        OBVIOUS
      <4>1. PICK n \in Bad : \A m \in Bad : n <= m
        <5>1. Bad \in SUBSET Nat
          BY <1>2, <1>4
        <5> HIDE DEF Bad
        <5> QED BY <5>1, LeastElement
      <4>2. n \in 1 .. N /\ n - 1 \in k .. N /\ n - 1 \notin Bad
        BY <1>2, <1>4, <4>1
      <4>3. f[n] = RefillStep(f[k])
        BY <1>1, <4>2
      <4>4. RefillStep(f[k]) = f[k]
        BY <3>1 DEF RefillStep
      <4> QED BY <4>1, <4>3, <4>4
    <3>3. N \in k .. N
      BY <1>2, <1>4
    <3> QED BY <1>1, <3>2, <3>3
  <2> QED BY <2>1, <2>2
<1> DEFINE who(n) == Selected(f[n - 1].waiting, Policy)
           s == [n \in 1 .. k |-> who(n)]
<1>6. ASSUME NEW n \in 1 .. k
      PROVE  /\ n - 1 \in 0 .. N /\ n \in 1 .. N /\ RefillOK(f[n - 1], n - 1)
             /\ f[n - 1].waiting # << >>
             /\ who(n) \in Thread /\ Linked(f[n - 1].waiting, who(n))
             /\ attr[who(n)] \in Parcel
             /\ f[n].q = PutMsg(f[n - 1].q, attr[who(n)])
             /\ f[n].waiting = Unlink(f[n - 1].waiting, who(n))
  <2>1. n - 1 \in 0 .. N /\ n \in 1 .. N /\ n - 1 < k
    BY <1>2, <1>4
  <2>2. RefillOK(f[n - 1], n - 1) /\ f[n - 1].waiting # << >>
    BY <1>1, <1>4, <2>1
  <2>3. who(n) \in Thread /\ Linked(f[n - 1].waiting, who(n))
    BY <2>2, SelectedLinked DEF RefillOK, IInv, WaitInv, WaitTypeOK
  <2>4. f[n] = RefillStep(f[n - 1])
    BY <1>1, <2>1
  <2>5. /\ f[n].q = PutMsg(f[n - 1].q, attr[who(n)])
        /\ f[n].waiting = Unlink(f[n - 1].waiting, who(n))
    BY <2>2, <2>4 DEF RefillStep
  <2> QED BY <2>1, <2>2, <2>3, <2>5, MsgqTypes
<1> HIDE DEF who
<1>7. s \in Seq(Thread) /\ Len(s) = k /\ \A n \in 1 .. k : s[n] = who(n)
  BY <1>4, <1>6
<1> HIDE DEF s
<1>8. \A n \in 0 .. k : \A t \in Thread :
        Linked(f[n].waiting, t) <=> Linked(wq[SendQ], t) /\ \A j \in 1 .. n : s[j] # t
  <2> DEFINE Left(n) == \A t \in Thread :
               Linked(f[n].waiting, t) <=>
                 Linked(wq[SendQ], t) /\ \A j \in 1 .. n : s[j] # t
             Bad == {n \in 0 .. k : ~Left(n)}
  <2> SUFFICES ASSUME Bad # {} PROVE FALSE
    OBVIOUS
  <2>1. PICK n \in Bad : \A m \in Bad : n <= m
    <3>1. Bad \in SUBSET Nat
      BY <1>4
    <3> HIDE DEF Bad
    <3> QED BY <3>1, LeastElement
  <2>2. n # 0
    <3>1. Left(0)
      BY <1>1 DEF RefillStart
    <3> HIDE DEF Left
    <3> QED BY <2>1, <3>1
  <2>3. n \in 1 .. k /\ n - 1 \in 0 .. k
    BY <1>4, <2>1, <2>2
  <2>4. Left(n - 1)
    <3> HIDE DEF Left
    <3>1. n - 1 \notin Bad
      BY <2>1, <2>3
    <3> QED BY <2>3, <3>1
  <2>5. \A t \in Thread : Linked(f[n].waiting, t) <=>
          Linked(f[n - 1].waiting, t) /\ t # s[n]
    BY <1>6, <1>7, <2>3, UnlinkProperties DEF RefillOK
  <2>6. \A t : (\A j \in 1 .. n : s[j] # t) <=>
               (\A j \in 1 .. n - 1 : s[j] # t) /\ s[n] # t
    BY <2>3
  <2>7. Left(n)
    BY <2>4, <2>5, <2>6
  <2> HIDE DEF Left
  <2> QED BY <2>1, <2>7
<1>9. IsInjective(s)
  <2>1. ASSUME NEW i \in 1 .. k, NEW j \in 1 .. k, i < j PROVE s[i] # s[j]
    <3>1. i \in 1 .. j - 1 /\ j - 1 \in 0 .. k
      BY <1>4, <2>1
    <3> QED BY <1>6, <1>7, <1>8, <3>1
  <2>2. \A i, j \in 1 .. k : s[i] = s[j] => i = j
    <3>1. \A i, j \in 1 .. k : i < j \/ j < i \/ i = j
      BY <1>4
    <3> QED BY <2>1, <3>1
  <2>3. DOMAIN s = 1 .. k
    BY <1>7, LenProperties
  <2> QED BY <2>2, <2>3 DEF IsInjective
<1>10. Contents(f[k].q) = Abstract!Sent(s)
  <2> DEFINE body(c) == [n \in 0 .. Len(s) |->
                           IF n = 0 THEN << >>
                           ELSE Abstract!Insert(c[n - 1], attr[s[n]])]
             c == CHOOSE c : c = body(c)
             g == [n \in 0 .. k |-> Contents(f[n].q)]
  <2>1. Contents(f[0].q) = << >>
    <3>1. RingOK(f[0].q) /\ f[0].q.items = 0
      BY <1>1, <1>2, RefillStarts DEF RefillOK, RefillStart, Cleared, RingOK, Ring
    <3>2. Contents(f[0].q) \in Seq(Memory) /\ Len(Contents(f[0].q)) = 0
      BY <3>1, ContentsSeq
    <3> QED BY <3>2, EmptySeq
  <2>2. ASSUME NEW n \in 1 .. k
        PROVE  Contents(f[n].q) = Abstract!Insert(Contents(f[n - 1].q), attr[s[n]])
    <3>1. RingOK(f[n - 1].q) /\ f[n - 1].q.items < ItemsMax
      <4>1. RefillOK(f[n - 1], n - 1) /\ f[n - 1].waiting # << >>
        BY <1>6
      <4>2. RingOK(f[n - 1].q) /\ f[n - 1].q.items = n - 1
        BY <4>1 DEF RefillOK
      <4>3. n - 1 < N
        BY <1>2, <1>4
      <4> QED BY <4>2, <4>3 DEF N
    <3> QED BY <1>6, <1>7, <3>1, PutMsgContents
  <2>3. g = body(g)
    <3>1. ASSUME NEW n \in 0 .. k PROVE g[n] = body(g)[n]
      <4>1. n # 0 => n \in 1 .. k /\ n - 1 \in 0 .. k
        BY <1>4
      <4> QED BY <1>7, <2>1, <2>2, <4>1
    <3> QED BY <1>7, <3>1
  <2>4. c = body(c)
    BY <2>3
  <2>5. Abstract!Sent(s) = c[k]
    BY <1>7 DEF Abstract!Sent
  <2> HIDE DEF c
  <2>6. \A n \in 0 .. k : c[n] = IF n = 0 THEN << >>
                                 ELSE Abstract!Insert(c[n - 1], attr[s[n]])
    <3>1. \A n \in 0 .. k : body(c)[n] = IF n = 0 THEN << >>
                                         ELSE Abstract!Insert(c[n - 1], attr[s[n]])
      BY <1>7
    <3> HIDE DEF body
    <3> QED BY <2>4, <3>1
  <2> HIDE DEF body, g
  <2> DEFINE Bad == {n \in 0 .. k : c[n] # Contents(f[n].q)}
  <2>7. Bad = {}
    <3> SUFFICES ASSUME Bad # {} PROVE FALSE
      OBVIOUS
    <3>1. PICK n \in Bad : \A m \in Bad : n <= m
      <4>1. Bad \in SUBSET Nat
        BY <1>4
      <4> HIDE DEF Bad
      <4> QED BY <4>1, LeastElement
    <3>2. n \in 1 .. k /\ n - 1 \in 0 .. k /\ n - 1 \notin Bad
      BY <1>4, <2>1, <2>6, <3>1
    <3>3. c[n - 1] = Contents(f[n - 1].q)
      BY <3>2
    <3>4. c[n] = Contents(f[n].q)
      BY <2>2, <2>6, <3>2, <3>3
    <3> QED BY <3>1, <3>4
  <2>8. k \in 0 .. k
    BY <1>4
  <2> QED BY <2>5, <2>7, <2>8
<1>11. \A t \in Thread : Linked(s, t) <=> /\ Linked(wq[SendQ], t)
                                           /\ ~Linked(Refilled.waiting, t)
  <2>1. k \in 0 .. k
    BY <1>4
  <2>2. \A n \in 1 .. k : Linked(wq[SendQ], s[n])
    BY <1>6, <1>7 DEF RefillOK
  <2>3. \A t \in Thread : Linked(s, t) <=> \E n \in 1 .. k : s[n] = t
    BY <1>7 DEF Linked
  <2>4. \A t \in Thread : Linked(Refilled.waiting, t) <=>
          Linked(wq[SendQ], t) /\ \A j \in 1 .. k : s[j] # t
    BY <1>5, <1>8, <2>1
  <2> QED BY <2>2, <2>3, <2>4
<1> QED BY <1>4, <1>5, <1>7, <1>9, <1>10, <1>11 DEF N

(* Any order of some of the elements of a set is one of those that         *)
(* SetToAllKPermutations has.                                              *)
LEMMA OrderOfSome ==
  ASSUME NEW Item, NEW s \in Seq(Item), IsInjective(s), NEW S,
         \A k \in 1 .. Len(s) : s[k] \in S
  PROVE  s \in SetToAllKPermutations(S)
<1> DEFINE n == Len(s)
           R == {s[k] : k \in 1 .. n}
<1>1. n \in Nat /\ DOMAIN s = 1 .. n /\ s \in [1 .. n -> Item]
  BY LenProperties
<1> HIDE DEF n
<1>2. s \in [1 .. n -> R] /\ R \in SUBSET S /\ s = [k \in 1 .. n |-> s[k]]
  BY <1>1 DEF n
<1>3. \A i, j \in 1 .. n : s[i] = s[j] => i = j
  BY <1>1 DEF IsInjective
<1>4. s \in Bijection(1 .. n, R)
  BY <1>2, <1>3 DEF Bijection, Injection, Surjection, IsInjective
<1>5. IsFiniteSet(1 .. n) /\ Cardinality(1 .. n) = n
  BY <1>1, FS_Interval
<1>6. ExistsBijection(1 .. n, R)
  BY <1>4 DEF ExistsBijection
<1>7. Cardinality(R) = n
  BY <1>5, <1>6, FS_Bijection
<1> HIDE DEF R
<1>8. s \in SetToSeqs(R)
  BY <1>2, <1>3, <1>7 DEF SetToSeqs
<1> QED BY <1>2, <1>8 DEF SetToAllKPermutations

-----------------------------------------------------------------------------
(* The refinement of the abstract queue.                                   *)
Phases == [t \in Thread |-> PhaseOf(t)]

During(t) == IF object[t] = SendQ THEN "sending" ELSE "receiving"

LEMMA ContentIs == Content = Contents(msgq) /\ Content' = Contents(msgq')
BY DEF Content, Contents, Slot

LEMMA PhaseByPc ==
  ASSUME NEW t \in Thread
  PROVE  /\ Phases[t] = PhaseOf(t)
         /\ pc[t] \in {"running", "dead"} => PhaseOf(t) = "out"
         /\ pc[t] = "armed" => PhaseOf(t) = During(t)
         /\ pc[t] = "blocked" /\ status[t] = "SATISFIED" => PhaseOf(t) = "done"
         /\ pc[t] = "blocked" /\ status[t] # "SATISFIED" => PhaseOf(t) = During(t)
         /\ pc[t] = "returning" /\ result[t] = "OK" => PhaseOf(t) = "done"
         /\ pc[t] = "returning" /\ result[t] # "OK" => PhaseOf(t) = "failed"
BY DEF PhaseOf, Phases, During

LEMMA PhaseByPcAfter ==
  ASSUME NEW t \in Thread
  PROVE  /\ pc'[t] \in {"running", "dead"} => PhaseOf(t)' = "out"
         /\ pc'[t] = "armed" => PhaseOf(t)' = During(t)'
         /\ pc'[t] = "blocked" /\ status'[t] = "SATISFIED" => PhaseOf(t)' = "done"
         /\ pc'[t] = "blocked" /\ status'[t] # "SATISFIED" => PhaseOf(t)' = During(t)'
         /\ pc'[t] = "returning" /\ result'[t] = "OK" => PhaseOf(t)' = "done"
         /\ pc'[t] = "returning" /\ result'[t] # "OK" => PhaseOf(t)' = "failed"
BY DEF PhaseOf, During

(* What the phase of a thread depends on.                                  *)
Same(t) == /\ pc'[t] = pc[t] /\ status'[t] = status[t]
           /\ result'[t] = result[t] /\ object'[t] = object[t]

LEMMA OnePhaseMoves ==
  ASSUME NEW t \in Thread, \A u \in Thread \ {t} : Same(u)
  PROVE  Phases' = [Phases EXCEPT ![t] = PhaseOf(t)']
<1>1. \A u \in Thread \ {t} : PhaseOf(u)' = PhaseOf(u)
  BY DEF PhaseOf, Same
<1> QED BY <1>1 DEF Phases

LEMMA TwoPhasesMove ==
  ASSUME NEW t \in Thread, NEW u \in Thread \ {t},
         \A v \in Thread \ {t, u} : Same(v)
  PROVE  Phases' = [Phases EXCEPT ![t] = PhaseOf(t)', ![u] = PhaseOf(u)']
<1>1. \A v \in Thread \ {t, u} : PhaseOf(v)' = PhaseOf(v)
  BY DEF PhaseOf, Same
<1> QED BY <1>1 DEF Phases

LEMMA NoPhaseMoves ==
  ASSUME UNCHANGED << pc, status, result, object >>
  PROVE  Phases' = Phases
BY DEF Phases, PhaseOf

(* A thread that is in a call of send has the message that it sends.       *)
HasLetter(t) ==
  pc[t] \in {"armed", "blocked"} /\ object[t] = SendQ => attr[t] \in Abstract!Letter

LettersKept == \A t \in Thread : HasLetter(t)

LEMMA LettersStay ==
  ASSUME LettersKept, NEW t \in Thread,
         pc'[t] \in {"armed", "blocked"} /\ object'[t] = SendQ =>
           /\ pc[t] \in {"armed", "blocked"} /\ object[t] = SendQ
           /\ attr'[t] = attr[t]
  PROVE  HasLetter(t)'
BY DEF LettersKept, HasLetter

(* A call asks before it is served.                                        *)
LEMMA CallRefines ==
  ASSUME IInv, LettersKept, NEW t \in Thread, NEW c,
         Receive(t, c) \/ \E o \in Letter : Send(t, o, c)
  PROVE  Abstract!Next /\ LettersKept'
<1>1. PICK q \in {SendQ, RecvQ} :
        /\ Call(t, q, c) /\ valid /\ UNCHANGED << msgq, valid >>
        /\ \/ q = RecvQ /\ attr' = attr
           \/ q = SendQ /\ \E o \in Letter : attr' = [attr EXCEPT ![t] = o]
  BY DEF Receive, Send, msgqVars
<1>2. /\ pc[t] = "running" /\ pc' = [pc EXCEPT ![t] = "armed"]
      /\ object' = [object EXCEPT ![t] = q] /\ UNCHANGED << status, result >>
      /\ WaitTypeOK /\ SendQ # RecvQ
  BY <1>1, MsgqTypes DEF Call, IInv, WaitInv
<1>3. /\ pc'[t] = "armed" /\ object'[t] = q
      /\ \A u \in Thread \ {t} : Same(u)
  BY <1>2 DEF WaitTypeOK, Same
<1>4. Phases' = [Phases EXCEPT ![t] = PhaseOf(t)']
  BY <1>3, OnePhaseMoves
<1>5. /\ Phases[t] = "out"
      /\ PhaseOf(t)' = IF q = SendQ THEN "sending" ELSE "receiving"
  BY <1>2, <1>3, PhaseByPc, PhaseByPcAfter DEF During
<1>6. Letter \in SUBSET Abstract!Letter
  BY MsgqAssumption DEF Letter, Abstract!Letter
<1>7. Content' = Content
  BY <1>1, ContentIs
<1>8. Abstract!Request(t)
  BY <1>1, <1>2, <1>4, <1>5, <1>6, <1>7 DEF Abstract!Request, Phases
<1>9. ASSUME NEW u \in Thread PROVE HasLetter(u)'
  <2>1. CASE u = t
    BY <1>1, <1>2, <1>3, <1>6, <2>1, MsgqTypes DEF HasLetter
  <2>2. CASE u # t
    <3>1. attr'[u] = attr[u]
      BY <1>1, <2>2, MsgqTypes
    <3> QED BY <1>3, <2>2, <3>1, LettersStay DEF Same
  <2> QED BY <2>1, <2>2
<1> QED BY <1>8, <1>9 DEF Abstract!Next, LettersKept

(* A call that is over at once, before anything was queued for it.         *)
LEMMA SkipMoves ==
  ASSUME IInv, NEW t \in Thread, pc[t] \in {"running", "armed"}, NEW r, Skip(t, r),
         UNCHANGED << status, object >>
  PROVE  /\ Phases' = [Phases EXCEPT ![t] = PhaseOf(t)']
         /\ PhaseOf(t)' = IF r = "OK" THEN "done" ELSE "failed"
         /\ pc'[t] = "returning" /\ \A u \in Thread \ {t} : Same(u)
<1>1. /\ pc' = [pc EXCEPT ![t] = "returning"]
      /\ result' = [result EXCEPT ![t] = r] /\ WaitTypeOK
  BY DEF Skip, IInv, WaitInv
<1>2. /\ pc'[t] = "returning" /\ result'[t] = r
      /\ \A u \in Thread \ {t} : Same(u)
  BY <1>1 DEF WaitTypeOK, Same
<1>3. PhaseOf(t)' = IF r = "OK" THEN "done" ELSE "failed"
  BY <1>2, PhaseByPcAfter
<1> QED BY <1>2, <1>3, OnePhaseMoves

(* Letters stay where they are when a call is over.                        *)
LEMMA SkipKeepsLetters ==
  ASSUME LettersKept, NEW t \in Thread, pc'[t] = "returning",
         \A u \in Thread \ {t} :
           /\ pc'[u] = pc[u] /\ object'[u] = object[u]
           /\ attr'[u] = attr[u] \/ object[u] # SendQ
  PROVE  LettersKept'
<1>1. ASSUME NEW u \in Thread PROVE HasLetter(u)'
  BY LettersStay
<1> QED BY <1>1 DEF LettersKept

(* A call that fails has done nothing.                                     *)
LEMMA FailRefines ==
  ASSUME IInv, LettersKept, NEW t \in Thread, pc[t] \in {"running", "armed"},
         NEW r, Skip(t, r), r # "OK",
         UNCHANGED << msgq, status, object, attr, valid >>,
         \E what \in {"sending", "receiving"} : Abstract!Asks(t, what)
  PROVE  Abstract!Next /\ LettersKept'
<1>1. /\ Phases' = [Phases EXCEPT ![t] = "failed"]
      /\ pc'[t] = "returning" /\ \A u \in Thread \ {t} : Same(u)
  BY SkipMoves
<1>2. Content' = Content
  BY ContentIs
<1>3. Abstract!Fail(t)
  BY <1>1, <1>2 DEF Abstract!Fail, Phases
<1> QED BY <1>1, <1>3, SkipKeepsLetters DEF Abstract!Next, Same

(* A message that is stored.                                               *)
LEMMA StoreRefines ==
  ASSUME IInv, LettersKept, NEW t \in Thread, pc[t] \in {"running", "armed"},
         NEW o \in Abstract!Letter, Abstract!Sends(t, o),
         msgq.items < ItemsMax, msgq' = PutMsg(msgq, o), Proceed(t),
         UNCHANGED << attr, valid >>
  PROVE  Abstract!Next /\ LettersKept'
<1>1. Skip(t, "OK") /\ UNCHANGED << status, object >>
  BY DEF Proceed, restVars
<1>2. /\ Phases' = [Phases EXCEPT ![t] = "done"]
      /\ pc'[t] = "returning" /\ \A u \in Thread \ {t} : Same(u)
  BY <1>1, SkipMoves
<1>3. o \in Parcel
  BY DEF Abstract!Letter, Parcel
<1>4. Content' = Abstract!Insert(Content, o) /\ Len(Content) < ItemsMax
  BY <1>3, MsgqTypes, PutMsgContents, ContentsSeq, ContentIs
<1>5. Abstract!Send(t, o)
  BY <1>2, <1>4 DEF Abstract!Send, Phases
<1> QED BY <1>2, <1>5, SkipKeepsLetters DEF Abstract!Next, Same

(* What is known of a thread that is in a queue.                           *)
LEMMA WaiterFacts ==
  ASSUME IInv, NEW q \in WaitQueue, NEW u \in Waiters(q)
  PROVE  /\ u \in Thread /\ pc[u] = "blocked" /\ object[u] = q
         /\ status[u] = "IN_PROGRESS" /\ PhaseOf(u) = During(u)
<1>1. u \in Thread /\ Linked(wq[q], u)
  BY DEF Waiters
<1>2. pc[u] = "blocked" /\ object[u] = q /\ status[u] = "IN_PROGRESS"
  BY <1>1 DEF IInv, WaitInv, LinksConsistent
<1> QED BY <1>1, <1>2, PhaseByPc

(* A call that is over and has released a waiter.                          *)
LEMMA SkipAndNotifyMoves ==
  ASSUME IInv, NEW t \in Thread, pc[t] \in {"running", "armed"},
         NEW q \in WaitQueue, NEW u \in Waiters(q), ProceedAndNotify(t, q, u)
  PROVE  /\ u \in Thread \ {t}
         /\ Phases' = [Phases EXCEPT ![t] = "done", ![u] = "done"]
         /\ pc'[t] = "returning" /\ object' = object
         /\ \A v \in Thread \ {t} : pc'[v] = pc[v]
<1>1. /\ pc' = [pc EXCEPT ![t] = "returning"] /\ result' = [result EXCEPT ![t] = "OK"]
      /\ status' = [status EXCEPT ![u] = "SATISFIED"] /\ object' = object
      /\ WaitTypeOK
  BY DEF ProceedAndNotify, Skip, NotifyBlock, restVars, IInv, WaitInv
<1>2. u \in Thread \ {t} /\ pc[u] = "blocked"
  BY WaiterFacts
<1>3. /\ pc'[t] = "returning" /\ result'[t] = "OK"
      /\ pc'[u] = "blocked" /\ status'[u] = "SATISFIED"
      /\ \A v \in Thread \ {t} : pc'[v] = pc[v]
      /\ \A v \in Thread \ {t, u} : Same(v)
  BY <1>1, <1>2 DEF WaitTypeOK, Same
<1>4. PhaseOf(t)' = "done" /\ PhaseOf(u)' = "done"
  BY <1>2, <1>3, PhaseByPcAfter
<1> QED BY <1>1, <1>2, <1>3, <1>4, TwoPhasesMove

(* A message that goes to a receiver that waits.                           *)
LEMMA PassRefines ==
  ASSUME IInv, LettersKept, NEW t \in Thread, pc[t] \in {"running", "armed"},
         NEW o \in Abstract!Letter, Abstract!Sends(t, o), Forwards,
         NEW r, r = WaitBlockGet(RecvQ, Policy),
         attr' = [attr EXCEPT ![r].msg = o.msg], ProceedAndNotify(t, RecvQ, r),
         UNCHANGED << msgq, valid >>
  PROVE  Abstract!Next /\ LettersKept'
<1>1. r \in Waiters(RecvQ) /\ RecvQ \in WaitQueue /\ RecvQ # SendQ
  BY MsgqTypes, SelectedIsWaiter DEF Forwards, IInv, WaitInv
<1>2. /\ r \in Thread \ {t}
      /\ Phases' = [Phases EXCEPT ![t] = "done", ![r] = "done"]
      /\ pc'[t] = "returning" /\ object' = object
      /\ \A v \in Thread \ {t} : pc'[v] = pc[v]
  BY <1>1, SkipAndNotifyMoves
<1>3. Phases[r] = "receiving" /\ object[r] # SendQ
  BY <1>1, WaiterFacts, PhaseByPc DEF During
<1>4. Content = << >> /\ Content' = Content
  <2>1. Contents(msgq) \in Seq(Memory) /\ Len(Contents(msgq)) = 0
    BY MsgqTypes, ContentsSeq DEF Forwards
  <2> QED BY <2>1, ContentIs, EmptySeq
<1>5. Abstract!Receives(r, o.msg)
  BY <1>3 DEF Abstract!Receives, Abstract!Asks, Phases
<1>6. Abstract!Pass(t, o, r)
  BY <1>2, <1>3, <1>4, <1>5 DEF Abstract!Pass, Phases
<1>7. \A v \in Thread \ {t} : attr'[v] = attr[v] \/ object[v] # SendQ
  BY <1>2, <1>3, MsgqTypes
<1> QED BY <1>2, <1>6, <1>7, SkipKeepsLetters DEF Abstract!Next

(* A message that is taken, and one that takes its place.                  *)
LEMMA TakeRefines ==
  ASSUME IInv, LettersKept, NEW t \in Thread, pc[t] \in {"running", "armed"},
         Abstract!Asks(t, "receiving"), msgq.items # 0, TakeMsg(t),
         UNCHANGED valid
  PROVE  Abstract!Next /\ LettersKept'
<1>1. /\ Content # << >> /\ Head(Content) = NextMsg(msgq)
      /\ Contents(Taken(msgq)) = Tail(Content)
      /\ Len(Content) = msgq.items
      /\ RingOK(Taken(msgq)) /\ Taken(msgq).items = msgq.items - 1
  BY MsgqTypes, TakenContents, TakenRing, ContentsSeq, ContentIs
<1>2. attr' = [attr EXCEPT ![t].msg = NextMsg(msgq)]
  BY DEF TakeMsg
<1>3. Abstract!Receives(t, Head(Content))
  BY <1>1, <1>2 DEF Abstract!Receives
<1>4. \A v \in Thread \ {t} : attr'[v] = attr[v]
  BY <1>2, MsgqTypes
<1>5. CASE Refills
  <2>1. PICK s : /\ s = WaitBlockGet(SendQ, Policy)
                 /\ msgq' = PutMsg(Taken(msgq), attr[s])
                 /\ ProceedAndNotify(t, SendQ, s)
    BY <1>5 DEF TakeMsg
  <2>2. s \in Waiters(SendQ) /\ SendQ \in WaitQueue
    BY <1>5, <2>1, MsgqTypes, SelectedIsWaiter DEF Refills, IInv, WaitInv
  <2>3. /\ s \in Thread \ {t}
        /\ Phases' = [Phases EXCEPT ![t] = "done", ![s] = "done"]
        /\ pc'[t] = "returning" /\ object' = object
        /\ \A v \in Thread \ {t} : pc'[v] = pc[v]
    BY <2>1, <2>2, SkipAndNotifyMoves
  <2>4. Phases[s] = "sending" /\ attr[s] \in Parcel
    BY <2>2, WaiterFacts, PhaseByPc, MsgqTypes DEF During
  <2>5. Taken(msgq).items < ItemsMax /\ Len(Content) = ItemsMax
    BY <1>1, <1>5, MsgqTypes DEF Refills
  <2>6. Content' = Abstract!Insert(Tail(Content), attr[s])
    BY <1>1, <2>1, <2>4, <2>5, PutMsgContents, ContentIs
  <2>7. Phases' = [Phases EXCEPT ![s] = "done", ![t] = "done"]
    BY <2>3
  <2>8. Abstract!Refill(t, s)
    BY <1>3, <2>4, <2>5, <2>6, <2>7 DEF Abstract!Refill, Phases
  <2> QED BY <1>4, <2>3, <2>8, SkipKeepsLetters DEF Abstract!Next
<1>6. CASE ~Refills
  <2>1. msgq' = Taken(msgq) /\ Skip(t, "OK") /\ UNCHANGED << status, object >>
    BY <1>6 DEF TakeMsg, Proceed, restVars
  <2>2. /\ Phases' = [Phases EXCEPT ![t] = "done"]
        /\ pc'[t] = "returning" /\ \A u \in Thread \ {t} : Same(u)
    BY <2>1, SkipMoves
  <2>3. Content' = Tail(Content)
    BY <1>1, <2>1, ContentIs
  <2>4. Abstract!Receive(t)
    BY <1>1, <1>3, <2>2, <2>3 DEF Abstract!Receive, Phases
  <2> QED BY <1>4, <2>2, <2>4, SkipKeepsLetters DEF Abstract!Next, Same
<1> QED BY <1>5, <1>6

Stutters == UNCHANGED << Content, Phases, attr, valid >>

(* A call that waits goes on asking, unless its wait was cancelled already. *)
LEMMA BlockRefines ==
  ASSUME IInv, LettersKept, NEW t \in Thread, pc[t] = "armed", Block(t),
         UNCHANGED << msgq, attr, valid >>
  PROVE  (Abstract!Next \/ Stutters) /\ LettersKept'
<1>1. /\ Phases[t] = During(t) /\ WaitTypeOK
      /\ During(t) \in {"sending", "receiving"}
  BY PhaseByPc DEF During, IInv, WaitInv
<1>2. \E what \in {"sending", "receiving"} : Abstract!Asks(t, what)
  BY <1>1 DEF Abstract!Asks, Phases
<1>3. CASE cancel[t] # NoEvent /\ signaled[cancel[t]]
  <2>1. PICK r \in {"WAIT_TIMEOUT", "WAIT_CANCELLED"} : Skip(t, r)
    BY <1>3 DEF Block, Skip
  <2>2. UNCHANGED << status, object >>
    BY <1>3 DEF Block
  <2> QED BY <1>2, <2>1, <2>2, FailRefines
<1>4. CASE ~(cancel[t] # NoEvent /\ signaled[cancel[t]])
  <2>1. /\ pc' = [pc EXCEPT ![t] = "blocked"]
        /\ status' = [status EXCEPT ![t] = "IN_PROGRESS"]
        /\ result' = result /\ object' = object
    BY <1>4 DEF Block
  <2>2. /\ pc'[t] = "blocked" /\ status'[t] # "SATISFIED"
        /\ \A u \in Thread \ {t} : Same(u)
    BY <1>1, <2>1 DEF WaitTypeOK, Same
  <2>3. PhaseOf(t)' = Phases[t]
    BY <1>1, <2>1, <2>2, PhaseByPcAfter DEF During
  <2>4. Phases' = Phases
    BY <2>2, <2>3, OnePhaseMoves DEF Phases
  <2>5. ASSUME NEW u \in Thread PROVE HasLetter(u)'
    BY <2>1, <2>2, LettersStay DEF Same
  <2> QED BY <2>4, <2>5, ContentIs DEF Stutters, LettersKept
<1> QED BY <1>3, <1>4

(* A call of send finds the queue full, a receiver, or a place.            *)
LEMMA SendRefines ==
  ASSUME IInv, LettersKept, NEW t \in Thread,
         TestAndWaitSend(t) \/ \E o \in Letter : TrySend(t, o)
  PROVE  (Abstract!Next \/ Stutters) /\ LettersKept'
<1>1. valid' = valid
  BY DEF TestAndWaitSend, TrySend
<1>2. CASE TestAndWaitSend(t)
  <2>1. pc[t] = "armed" /\ object[t] = SendQ
    BY <1>2 DEF TestAndWaitSend, Enters
  <2>2. attr[t] \in Abstract!Letter
    BY <2>1 DEF LettersKept, HasLetter
  <2>3. Abstract!Sends(t, attr[t])
    BY <2>1, PhaseByPc DEF During, Phases, Abstract!Sends, Abstract!Asks
  <2>4. CASE msgq.items = ItemsMax /\ Block(t) /\ UNCHANGED << msgq, attr >>
    BY <1>1, <2>1, <2>4, BlockRefines
  <2>5. CASE msgq.items < ItemsMax /\ Forwards
    <3>1. PICK r : /\ r = WaitBlockGet(RecvQ, Policy)
                   /\ attr' = [attr EXCEPT ![r].msg = attr[t].msg]
                   /\ ProceedAndNotify(t, RecvQ, r) /\ UNCHANGED msgq
      BY <1>2, <2>5, MsgqTypes DEF TestAndWaitSend
    <3>2. pc[t] \in {"running", "armed"} /\ Forwards
      BY <2>1, <2>5
    <3> QED BY <1>1, <2>2, <2>3, <3>1, <3>2, PassRefines
  <2>6. CASE /\ msgq.items < ItemsMax /\ ~Forwards
             /\ msgq' = PutMsg(msgq, attr[t])
             /\ Proceed(t)
             /\ UNCHANGED << attr, prio >>
    BY <1>1, <2>1, <2>2, <2>3, <2>6, StoreRefines
  <2> QED BY <1>2, <2>4, <2>5, <2>6, MsgqTypes DEF TestAndWaitSend
<1>3. ASSUME NEW o \in Letter, TrySend(t, o)
      PROVE  (Abstract!Next \/ Stutters) /\ LettersKept'
  <2>1. pc[t] = "running" /\ valid
    BY <1>3 DEF TrySend, TryCall
  <2>2. o \in Abstract!Letter
    BY MsgqAssumption DEF Letter, Abstract!Letter
  <2>3. Abstract!Asks(t, "sending") /\ Abstract!Sends(t, o)
    BY <2>1, PhaseByPc DEF Phases, Abstract!Sends, Abstract!Asks
  <2>4. CASE TryDone(t, "WAIT_TIMEOUT") /\ UNCHANGED << msgq, attr >>
    <3>1. Skip(t, "WAIT_TIMEOUT") /\ UNCHANGED << status, object >>
      BY <2>4 DEF TryDone, restVars
    <3> QED BY <1>1, <2>1, <2>3, <2>4, <3>1, FailRefines
  <2>5. CASE msgq.items < ItemsMax /\ Forwards
    <3>1. PICK r : /\ r = WaitBlockGet(RecvQ, Policy)
                   /\ attr' = [attr EXCEPT ![r].msg = o.msg]
                   /\ ProceedAndNotify(t, RecvQ, r) /\ UNCHANGED msgq
      BY <1>3, <2>5, MsgqTypes DEF TrySend
    <3>2. pc[t] \in {"running", "armed"} /\ Forwards
      BY <2>1, <2>5
    <3> QED BY <1>1, <2>2, <2>3, <3>1, <3>2, PassRefines
  <2>6. CASE /\ msgq.items < ItemsMax /\ ~Forwards
             /\ msgq' = PutMsg(msgq, o)
             /\ TryDone(t, "OK") /\ UNCHANGED attr
    <3>1. Proceed(t)
      BY <2>6 DEF TryDone, Proceed
    <3> QED BY <1>1, <2>1, <2>2, <2>3, <2>6, <3>1, StoreRefines
  <2> QED BY <1>3, <2>4, <2>5, <2>6, MsgqTypes DEF TrySend
<1> QED BY <1>2, <1>3

(* A call of receive finds the queue empty, or takes the first message.    *)
LEMMA ReceiveRefines ==
  ASSUME IInv, LettersKept, NEW t \in Thread, TestAndWaitRecv(t) \/ TryReceive(t)
  PROVE  (Abstract!Next \/ Stutters) /\ LettersKept'
<1>1. valid' = valid
  BY DEF TestAndWaitRecv, TryReceive
<1>2. CASE TestAndWaitRecv(t)
  <2>1. pc[t] = "armed" /\ object[t] = RecvQ /\ RecvQ # SendQ
    BY <1>2, MsgqTypes DEF TestAndWaitRecv, Enters
  <2>2. Abstract!Asks(t, "receiving")
    BY <2>1, PhaseByPc DEF During, Phases, Abstract!Asks
  <2>3. CASE msgq.items = 0
    <3>1. Block(t) /\ UNCHANGED << msgq, attr >>
      BY <1>2, <2>3 DEF TestAndWaitRecv
    <3> QED BY <1>1, <2>1, <3>1, BlockRefines
  <2>4. CASE msgq.items # 0
    <3>1. TakeMsg(t)
      BY <1>2, <2>4 DEF TestAndWaitRecv
    <3> QED BY <1>1, <2>1, <2>2, <2>4, <3>1, TakeRefines
  <2> QED BY <2>3, <2>4
<1>3. CASE TryReceive(t)
  <2>1. pc[t] = "running" /\ valid
    BY <1>3 DEF TryReceive, TryCall
  <2>2. Abstract!Asks(t, "receiving")
    BY <2>1, PhaseByPc DEF Phases, Abstract!Asks
  <2>3. CASE msgq.items = 0
    <3>1. TryDone(t, "WAIT_TIMEOUT") /\ UNCHANGED << msgq, attr >>
      BY <1>3, <2>3 DEF TryReceive
    <3>2. Skip(t, "WAIT_TIMEOUT") /\ UNCHANGED << status, object >>
      BY <3>1 DEF TryDone, restVars
    <3> QED BY <1>1, <2>1, <2>2, <3>1, <3>2, FailRefines
  <2>4. CASE msgq.items # 0
    <3>1. TakeMsg(t)
      BY <1>3, <2>4 DEF TryReceive
    <3> QED BY <1>1, <2>1, <2>2, <2>4, <3>1, TakeRefines
  <2> QED BY <2>3, <2>4
<1> QED BY <1>2, <1>3

(* The senders that the flush releases have sent.                          *)
LEMMA FlushRefines ==
  ASSUME IInv, LettersKept, Flush
  PROVE  Abstract!Next /\ LettersKept'
<1> DEFINE released == Waiters(SendQ) \ ToSet(Refilled.waiting)
<1>1. /\ valid /\ msgq' = Refilled.q
      /\ status' = [t \in Thread |-> IF t \in released THEN "SATISFIED" ELSE status[t]]
      /\ UNCHANGED << pc, result, object, attr, valid >>
  BY DEF Flush, restVars
<1>2. PICK s \in Seq(Thread) :
        /\ Len(s) <= ItemsMax /\ IsInjective(s)
        /\ \A t \in Thread : Linked(s, t) <=> /\ Linked(wq[SendQ], t)
                                              /\ ~Linked(Refilled.waiting, t)
        /\ Contents(Refilled.q) = Abstract!Sent(s)
  BY FlushOrder
<1>3. \A t \in Thread : t \in ToSet(s) <=> Linked(s, t)
  BY <1>2, LenProperties DEF ToSet, Linked
<1>4. \A t \in Thread : t \in ToSet(Refilled.waiting) <=> Linked(Refilled.waiting, t)
  <2>1. Refilled.waiting \in Seq(Thread)
    BY RefillLoop DEF RefillOK
  <2>2. DOMAIN Refilled.waiting = 1 .. Len(Refilled.waiting)
    BY <2>1, LenProperties
  <2> QED BY <2>2 DEF ToSet, Linked
<1>5. \A t \in Thread : t \in ToSet(s) <=> t \in released
  BY <1>2, <1>3, <1>4 DEF Waiters
<1> HIDE DEF released
<1>6. ASSUME NEW t \in Thread
      PROVE  PhaseOf(t)' = IF t \in ToSet(s) THEN "done" ELSE PhaseOf(t)
  <2>1. CASE t \in ToSet(s)
    <3>1. t \in Waiters(SendQ) /\ SendQ \in WaitQueue
      BY <1>5, <2>1, MsgqTypes DEF released
    <3>2. pc[t] = "blocked"
      BY <3>1, WaiterFacts
    <3>3. pc'[t] = "blocked" /\ status'[t] = "SATISFIED"
      BY <1>1, <1>5, <2>1, <3>2
    <3> QED BY <2>1, <3>3, PhaseByPcAfter
  <2>2. CASE t \notin ToSet(s)
    <3>1. Same(t)
      BY <1>1, <1>5, <2>2 DEF Same
    <3>2. PhaseOf(t)' = PhaseOf(t)
      BY <3>1 DEF Same, PhaseOf
    <3> QED BY <2>2, <3>2
  <2> QED BY <2>1, <2>2
<1>7. Phases' = [t \in Thread |-> IF t \in ToSet(s) THEN "done" ELSE Phases[t]]
  BY <1>6 DEF Phases
<1>8. s \in SetToAllKPermutations({t \in Thread : Phases[t] = "sending"})
  <2>1. ASSUME NEW k \in 1 .. Len(s)
        PROVE  s[k] \in {t \in Thread : Phases[t] = "sending"}
    <3>1. s[k] \in Thread /\ Linked(wq[SendQ], s[k])
      BY <1>2, ElementOfSeq DEF Linked
    <3>2. s[k] \in Waiters(SendQ) /\ SendQ \in WaitQueue
      BY <3>1, MsgqTypes DEF Waiters
    <3> QED BY <3>1, <3>2, WaiterFacts, PhaseByPc DEF During
  <2> QED BY <1>2, <2>1, OrderOfSome
<1>9. Content' = Abstract!Sent(s)
  BY <1>1, <1>2, ContentIs
<1>10. Abstract!Flush(s)
  <2>1. ToSet(s) = Abstract!ToSet(s)
    BY DEF ToSet, Abstract!ToSet
  <2> QED BY <1>1, <1>2, <1>7, <1>9, <2>1 DEF Abstract!Flush, Phases
<1>11. LettersKept'
  BY <1>1 DEF LettersKept, HasLetter
<1>12. \A S : SetToAllKPermutations(S) = Abstract!SetToAllKPermutations(S)
  <2>1. \A S : Cardinality(S) = Abstract!Cardinality(S)
    BY DEF Cardinality, IsFiniteSet, Abstract!Cardinality, Abstract!IsFiniteSet
  <2>2. \A S : SetToSeqs(S) = Abstract!SetToSeqs(S)
    BY <2>1 DEF SetToSeqs, Abstract!SetToSeqs
  <2> QED BY <2>2 DEF SetToAllKPermutations, Abstract!SetToAllKPermutations
<1> QED BY <1>8, <1>10, <1>11, <1>12 DEF Abstract!Next, Phases

(* Those that the destructor releases have sent and received nothing.      *)
LEMMA DeinitRefines ==
  ASSUME IInv, LettersKept, Deinit
  PROVE  Abstract!Next /\ LettersKept'
<1> DEFINE all == Waiters(SendQ) \cup Waiters(RecvQ)
<1>1. /\ status' = [t \in Thread |-> IF t \in all THEN "DELETED" ELSE status[t]]
      /\ UNCHANGED << pc, result, object, msgq, attr >>
      /\ valid /\ valid' = FALSE
  BY DEF Deinit, restVars
<1>2. ASSUME NEW t \in Thread PROVE PhaseOf(t)' = PhaseOf(t)
  <2>1. CASE t \in all
    <3>1. pc[t] = "blocked" /\ status[t] = "IN_PROGRESS"
      BY <2>1, MsgqTypes, WaiterFacts
    <3>2. pc'[t] = "blocked" /\ status'[t] = "DELETED" /\ object'[t] = object[t]
      BY <1>1, <2>1, <3>1
    <3> QED BY <3>1, <3>2, PhaseByPc, PhaseByPcAfter DEF During
  <2>2. CASE t \notin all
    BY <1>1, <2>2 DEF PhaseOf
  <2> QED BY <2>1, <2>2
<1>3. Phases' = Phases
  BY <1>2 DEF Phases
<1>4. Abstract!Close
  BY <1>1, <1>3, ContentIs DEF Abstract!Close, Phases
<1>5. LettersKept'
  BY <1>1 DEF LettersKept, HasLetter
<1> QED BY <1>4, <1>5 DEF Abstract!Next

(* The woken thread reports what it was woken for.                         *)
LEMMA WakeupRefines ==
  ASSUME IInv, LettersKept, NEW t \in Thread, Wakeup(t),
         UNCHANGED << msgq, attr, valid >>
  PROVE  (Abstract!Next \/ Stutters) /\ LettersKept'
<1> DEFINE r == WaitStatus(t, status'[t], cancel_status'[t])
<1>1. /\ WaitTypeOK /\ LinksConsistent
      /\ pc[t] = "blocked" /\ Rollback(t) /\ object' = object
      /\ pc' = [pc EXCEPT ![t] = "returning"]
      /\ result' = [result EXCEPT ![t] = r]
  BY DEF IInv, WaitInv, Wakeup
<1>2. /\ status'[t] = RolledBack(t, status[t])
      /\ cancel_status'[t] = RolledBack(t, cancel_status[t])
      /\ \A u \in Thread \ {t} : status'[u] = status[u]
  BY <1>1, RollbackUnlinks
<1>3. r = "OK" <=> status[t] = "SATISFIED"
  BY <1>2 DEF WaitStatus, RolledBack
<1> HIDE DEF r
<1>4. /\ pc'[t] = "returning" /\ result'[t] = r
      /\ \A u \in Thread \ {t} : Same(u)
  BY <1>1, <1>2 DEF WaitTypeOK, Same
<1>5. Phases' = [Phases EXCEPT ![t] = PhaseOf(t)']
  BY <1>4, OnePhaseMoves
<1>6. LettersKept'
  BY <1>4, SkipKeepsLetters DEF Same
<1>7. CASE status[t] = "SATISFIED"
  <2>1. Phases[t] = "done" /\ PhaseOf(t)' = "done"
    BY <1>1, <1>3, <1>4, <1>7, PhaseByPc, PhaseByPcAfter
  <2>2. Phases' = Phases
    BY <1>5, <2>1 DEF Phases
  <2> QED BY <1>6, <2>2, ContentIs DEF Stutters
<1>8. CASE status[t] # "SATISFIED"
  <2>1. /\ Phases[t] \in {"sending", "receiving"} /\ PhaseOf(t)' = "failed"
    BY <1>1, <1>3, <1>4, <1>8, PhaseByPc, PhaseByPcAfter DEF During
  <2>2. Abstract!Fail(t)
    BY <1>5, <2>1, ContentIs DEF Abstract!Fail, Abstract!Asks, Phases
  <2> QED BY <1>6, <2>2 DEF Abstract!Next
<1> QED BY <1>7, <1>8

(* A thread that returns or is terminated leaves.                          *)
LEMMA LeaveRefines ==
  ASSUME IInv, LettersKept, NEW t \in Thread, LeaveCall(t)
  PROVE  Abstract!Next /\ LettersKept'
<1>1. /\ WaitTypeOK /\ LinksConsistent
      /\ attr' = [attr EXCEPT ![t] = NoLetter] /\ UNCHANGED << msgq, valid >>
  BY DEF IInv, WaitInv, LeaveCall
<1>2. pc'[t] \in {"running", "dead"} /\ \A u \in Thread \ {t} : Same(u)
  <2>1. CASE Return(t)
    BY <1>1, <2>1 DEF Return, WaitTypeOK, Same
  <2>2. CASE Terminate(t)
    <3>1. \A u \in Thread \ {t} : status'[u] = status[u]
      BY <1>1, <2>2, RollbackUnlinks DEF Terminate
    <3> QED BY <1>1, <2>2, <3>1 DEF Terminate, WaitTypeOK, Same
  <2> QED BY <2>1, <2>2 DEF LeaveCall, Leave
<1>3. PhaseOf(t)' = "out"
  BY <1>2, PhaseByPcAfter
<1>4. Phases' = [Phases EXCEPT ![t] = "out"]
  BY <1>2, <1>3, OnePhaseMoves
<1>5. NoLetter = Abstract!EmptyBox
  BY DEF NoLetter, Abstract!EmptyBox
<1>6. Abstract!Leave(t)
  BY <1>1, <1>4, <1>5, ContentIs DEF Abstract!Leave, Phases
<1>7. ASSUME NEW u \in Thread PROVE HasLetter(u)'
  <2>1. u # t => attr'[u] = attr[u]
    BY <1>1, MsgqTypes
  <2> QED BY <1>2, <2>1, LettersStay DEF Same
<1> QED BY <1>6, <1>7 DEF Abstract!Next, LettersKept

(* No other step is seen.                                                  *)
LEMMA OtherStepsRefine ==
  ASSUME IInv, LettersKept, StayStep, UNCHANGED << msgq, attr, valid >>
  PROVE  (Abstract!Next \/ Stutters) /\ LettersKept'
<1>1. \/ \E t \in Thread : Wakeup(t)
      \/ UNCHANGED << pc, status, result, object >>
  BY DEF StayStep, EventStep, TimerExpire, SetPrio, AbortSet, AbortReset, AbortDeinit,
         EventSet
<1>2. CASE UNCHANGED << pc, status, result, object >>
  BY <1>2, NoPhaseMoves, ContentIs DEF Stutters, LettersKept, HasLetter
<1> QED BY <1>1, <1>2, WakeupRefines

(* The queue implements the abstract one: the ring, the direct hand-over   *)
(* to a receiver that waits, the refill from senders that wait and the     *)
(* flush are one bounded sequence, from which no message is lost, made     *)
(* twice or overtaken, for every capacity.                                 *)
THEOREM ImplementsQueue == Spec => MessagesConserved
<1>1. Init => Abstract!Init /\ LettersKept
  <2> SUFFICES ASSUME Init PROVE Abstract!Init /\ LettersKept
    OBVIOUS
  <2>1. \A t \in Thread : pc[t] = "running" /\ PhaseOf(t) = "out"
    BY PhaseByPc DEF Init, WaitInit
  <2>2. Content = << >>
    <3>1. msgq.items = 0
      BY DEF Init
    <3> QED BY <3>1 DEF Content
  <2>3. LettersKept
    BY <2>1 DEF LettersKept, HasLetter
  <2>4. Abstract!Init
    BY <2>1, <2>2 DEF Init, NoLetter, Abstract!Init, Abstract!EmptyBox
  <2> QED BY <2>3, <2>4
<1>2. IInv /\ LettersKept /\ [Next]_vars
        => [Abstract!Next]_(Abstract!vars) /\ LettersKept'
  <2> SUFFICES ASSUME IInv, LettersKept, [Next]_vars
               PROVE  (Abstract!Next \/ Stutters) /\ LettersKept'
    BY DEF Abstract!vars, Phases, Stutters
  <2>1. CASE UNCHANGED vars
    BY <2>1, NoPhaseMoves, ContentIs
    DEF vars, waitVars, msgqVars, Stutters, LettersKept, HasLetter
  <2>2. CASE StayStep /\ UNCHANGED msgqVars
    BY <2>2, OtherStepsRefine DEF msgqVars
  <2> QED BY <2>1, <2>2, CallRefines, SendRefines, ReceiveRefines, FlushRefines,
             DeinitRefines, LeaveRefines
          DEF Next
<1> QED BY <1>1, <1>2, InductiveInvariant, PTL
        DEF Spec, MessagesConserved, Abstract!Spec
=============================================================================
