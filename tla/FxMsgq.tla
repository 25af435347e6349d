------------------------------- MODULE FxMsgq -------------------------------
(***************************************************************************)
(* The message queue, sync_objects/fx_msgq_core.c and fx_msgq.c: a ring    *)
(* buffer and two waitables, one for senders and one for receivers.        *)
(***************************************************************************)
EXTENDS FxWait

CONSTANTS
  SendQ, RecvQ, \* send_wtbl, recv_wtbl
  Msg,
  NoMsg,        \* the contents of memory no message was stored in
  ToBack,       \* the ends that messages are sent to, TRUE for the back
  ItemsMax,     \* msgq->items_max
  Policy        \* msgq->policy

ASSUME MsgqAssumption ==
  /\ WaitQueue = {SendQ, RecvQ} /\ SendQ # RecvQ
  /\ NoMsg \notin Msg
  /\ ToBack \subseteq BOOLEAN
  /\ ItemsMax \in Nat \ {0}
  /\ Policy \in {"FIFO", "PRIO"}

Letter == [msg : Msg, to_back : ToBack]
NoLetter == [msg |-> NoMsg, to_back |-> TRUE]

VARIABLES
  msgq,         \* the fields buf, items, head and tail
  attr,         \* what the attribute of each thread's wait block points to:
                \* the message to send, or the place for one to receive
  valid

msgqVars == << msgq, attr, valid >>
vars == << waitVars, msgqVars >>

Cleared(q) == [q EXCEPT !.items = 0, !.head = 0, !.tail = 0]

Init ==
  /\ WaitInit
  /\ msgq = [buf |-> [k \in 0 .. ItemsMax - 1 |-> NoMsg],
             items |-> 0, head |-> 0, tail |-> 0]
  /\ attr = [t \in Thread |-> NoLetter]
  /\ valid = TRUE

(* MUTANT: the place in front of the tail is used without wrapping.        *)
PutMsg_NoWrap(q, o) ==
  LET front == IF q.tail = 0 THEN 0 ELSE q.tail - 1
  IN  IF o.to_back
      THEN [q EXCEPT !.buf[q.head] = o.msg,
                     !.head = (@ + 1) % ItemsMax, !.items = @ + 1]
      ELSE [q EXCEPT !.buf[front] = o.msg,
                     !.tail = front, !.items = @ + 1]

(* _fx_msgq_put_msg and the count that every caller adds.                  *)
PutMsg(q, o) ==
  LET front == (q.tail + (ItemsMax - 1)) % ItemsMax
  IN  IF o.to_back
      THEN [q EXCEPT !.buf[q.head] = o.msg,
                     !.head = (@ + 1) % ItemsMax, !.items = @ + 1]
      ELSE [q EXCEPT !.buf[front] = o.msg,
                     !.tail = front, !.items = @ + 1]

NextMsg(q) == q.buf[q.tail]
Taken(q) == [q EXCEPT !.tail = (@ + 1) % ItemsMax, !.items = @ - 1]

(* fx_msgq_back_send, fx_msgq_front_send, fx_msgq_receive and their timed  *)
(* variants, up to the critical section.                                   *)
Send(t, o, c) ==
  /\ valid /\ Call(t, SendQ, c)
  /\ attr' = [attr EXCEPT ![t] = o]
  /\ UNCHANGED << msgq, valid >>

Receive(t, c) == valid /\ Call(t, RecvQ, c) /\ UNCHANGED msgqVars

(* A message goes straight to a receiver that waits.                       *)
Forwards == msgq.items = 0 /\ wq[RecvQ] # << >>

(* fx_msgq_test_and_wait_send, for a thread that is about to wait.         *)
TestAndWaitSend(t) ==
  /\ Enters(t, SendQ)
  /\ \/ msgq.items = ItemsMax /\ Block(t) /\ UNCHANGED << msgq, attr >>
     \/ /\ msgq.items < ItemsMax /\ Forwards
        /\ LET r == WaitBlockGet(RecvQ, Policy)
           IN  /\ attr' = [attr EXCEPT ![r].msg = attr[t].msg]
               /\ ProceedAndNotify(t, RecvQ, r)
        /\ UNCHANGED << msgq, prio >>
     \/ /\ msgq.items < ItemsMax /\ ~Forwards
        /\ msgq' = PutMsg(msgq, attr[t])
        /\ Proceed(t)
        /\ UNCHANGED << attr, prio >>
  /\ UNCHANGED valid

(* The same with a zero timeout.                                           *)
TrySend(t, o) ==
  /\ valid /\ TryCall(t)
  /\ \/ /\ msgq.items = ItemsMax
        /\ TryDone(t, "WAIT_TIMEOUT") /\ UNCHANGED << msgq, attr >>
     \/ /\ msgq.items < ItemsMax /\ Forwards
        /\ LET r == WaitBlockGet(RecvQ, Policy)
           IN  /\ attr' = [attr EXCEPT ![r].msg = o.msg]
               /\ ProceedAndNotify(t, RecvQ, r)
        /\ UNCHANGED msgq
     \/ /\ msgq.items < ItemsMax /\ ~Forwards
        /\ msgq' = PutMsg(msgq, o)
        /\ TryDone(t, "OK") /\ UNCHANGED attr
  /\ UNCHANGED << prio, valid >>

(* The place that a receive makes goes to a sender that waits.             *)
Refills == Taken(msgq).items = ItemsMax - 1 /\ wq[SendQ] # << >>

(* The caller takes the first message; a sender may follow up.             *)
TakeMsg(t) ==
  /\ attr' = [attr EXCEPT ![t].msg = NextMsg(msgq)]
  /\ IF Refills
     THEN LET s == WaitBlockGet(SendQ, Policy)
          IN  /\ msgq' = PutMsg(Taken(msgq), attr[s])
              /\ ProceedAndNotify(t, SendQ, s)
     ELSE msgq' = Taken(msgq) /\ Proceed(t)

(* fx_msgq_test_and_wait_recv.                                             *)
TestAndWaitRecv(t) ==
  /\ Enters(t, RecvQ)
  /\ IF msgq.items = 0
     THEN Block(t) /\ UNCHANGED << msgq, attr >>
     ELSE TakeMsg(t) /\ UNCHANGED prio
  /\ UNCHANGED valid

TryReceive(t) ==
  /\ valid /\ TryCall(t)
  /\ IF msgq.items = 0
     THEN TryDone(t, "WAIT_TIMEOUT") /\ UNCHANGED << msgq, attr >>
     ELSE TakeMsg(t)
  /\ UNCHANGED << prio, valid >>

(* The loop of fx_msgq_core_flush: a waiting sender after the other is     *)
(* selected, and its message stored.                                       *)
Refilled ==
  LET next[n \in 0 .. ItemsMax] ==
        IF n = 0 THEN [q |-> Cleared(msgq), waiting |-> wq[SendQ]]
        ELSE LET p == next[n - 1]
                 s == Selected(p.waiting, Policy)
             IN  IF p.waiting = << >> THEN p
                 ELSE [q |-> PutMsg(p.q, attr[s]),
                       waiting |-> Unlink(p.waiting, s)]
  IN  next[ItemsMax]

(* MUTANT: senders stay in the queue.                                      *)
Flush_NoRefill ==
  /\ valid
  /\ msgq' = Cleared(msgq)
  /\ UNCHANGED << waitVars, attr, valid >>

(* fx_msgq_core_flush.                                                     *)
Flush ==
  /\ valid
  /\ msgq' = Refilled.q
  /\ LET released == Waiters(SendQ) \ ToSet(Refilled.waiting)
     IN  /\ wq' = [wq EXCEPT ![SendQ] = Refilled.waiting]
         /\ status' = [t \in Thread |->
                         IF t \in released THEN "SATISFIED" ELSE status[t]]
         /\ state' = [t \in Thread |->
                         IF t \in released THEN "READY" ELSE state[t]]
  /\ UNCHANGED << pc, prio, result, restVars, attr, valid >>

(* fx_msgq_core_deinit, when no call is about to enter its critical        *)
(* section.                                                                *)
Deinit ==
  /\ valid
  /\ \A t \in Thread : ~Enters(t, SendQ) /\ ~Enters(t, RecvQ)
  /\ valid' = FALSE
  /\ LET all == Waiters(SendQ) \cup Waiters(RecvQ)
     IN  /\ wq' = [q \in WaitQueue |-> << >>]
         /\ status' = [t \in Thread |->
                         IF t \in all THEN "DELETED" ELSE status[t]]
         /\ state' = [t \in Thread |-> IF t \in all THEN "READY" ELSE state[t]]
  /\ UNCHANGED << pc, prio, result, restVars, msgq, attr >>

(* The attribute is in the frame of the call.                              *)
LeaveCall(t) ==
  /\ Leave(t)
  /\ attr' = [attr EXCEPT ![t] = NoLetter]
  /\ UNCHANGED << msgq, valid >>

Next ==
  \/ \E t \in Thread :
       \/ \E c \in {t, NoEvent} \cup AbortEvent :
            Receive(t, c) \/ \E o \in Letter : Send(t, o, c)
       \/ TestAndWaitSend(t)
       \/ TestAndWaitRecv(t)
       \/ \E o \in Letter : TrySend(t, o)
       \/ TryReceive(t)
  \/ Flush
  \/ Deinit
  \/ StayStep /\ UNCHANGED msgqVars
  \/ \E t \in Thread : LeaveCall(t)

Spec == Init /\ [][Next]_vars

-----------------------------------------------------------------------------
(* The indices of the ring agree with the number of items.                 *)
TypeOK ==
  /\ WaitTypeOK
  /\ msgq \in [buf : [0 .. ItemsMax - 1 -> Msg \cup {NoMsg}], items : 0 .. ItemsMax,
               head : 0 .. ItemsMax - 1, tail : 0 .. ItemsMax - 1]
  /\ attr \in [Thread -> [msg : Msg \cup {NoMsg}, to_back : BOOLEAN]]
  /\ valid \in BOOLEAN
  /\ msgq.head = (msgq.tail + msgq.items) % ItemsMax

(* Threads wait to send only to a full queue and to receive only from an   *)
(* empty one, although each critical section looks at one of the two       *)
(* waitables, at most once, and flush empties the ring under the senders.  *)
NoIdleWaiters ==
  /\ wq[SendQ] # << >> => msgq.items = ItemsMax
  /\ wq[RecvQ] # << >> => msgq.items = 0

(* What the abstract queue sees.                                           *)
Content == [k \in 1 .. msgq.items |->
              msgq.buf[(msgq.tail + k - 1) % ItemsMax]]

PhaseOf(t) ==
  LET during == IF object[t] = SendQ THEN "sending" ELSE "receiving"
  IN  CASE pc[t] \in {"running", "dead"} -> "out"
        [] pc[t] = "armed" -> during
        [] pc[t] = "blocked" -> IF status[t] = "SATISFIED" THEN "done"
                                                           ELSE during
        [] pc[t] = "returning" -> IF result[t] = "OK" THEN "done"
                                                      ELSE "failed"

Abstract == INSTANCE AbstractMsgq
              WITH Capacity <- ItemsMax,
                   content <- Content,
                   open <- valid,
                   box <- attr,
                   phase <- [t \in Thread |-> PhaseOf(t)]

(* No message is lost, made twice or overtaken: the ring, the direct hand- *)
(* over to a receiver that waits and the refill from senders that wait     *)
(* together are one bounded sequence, and a call that was told that its    *)
(* message was sent or received is right.                                  *)
MessagesConserved == Abstract!Spec
=============================================================================
