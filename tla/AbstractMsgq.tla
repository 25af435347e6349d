---------------------------- MODULE AbstractMsgq ----------------------------
(***************************************************************************)
(* What a message queue promises: a bounded sequence of messages, taken    *)
(* from its front.  A send that succeeds put its message in exactly once,  *)
(* a receive that succeeds took exactly one message out, and those that    *)
(* fail did neither.                                                       *)
(***************************************************************************)
EXTENDS Integers, SequencesExt

CONSTANTS Thread, Msg, NoMsg, Capacity

VARIABLES
  content,
  phase,    \* of each thread: "out", "sending", "receiving", "done",
            \* "failed"
  box,      \* what each thread sends and to which end, or has received
  open      \* the queue may be used

vars == << content, phase, box, open >>

Letter == [msg : Msg, to_back : BOOLEAN]
EmptyBox == [msg |-> NoMsg, to_back |-> TRUE]

Insert(c, o) == IF o.to_back THEN Append(c, o.msg) ELSE << o.msg >> \o c

Init ==
  /\ content = << >>
  /\ phase = [t \in Thread |-> "out"]
  /\ box = [t \in Thread |-> EmptyBox]
  /\ open = TRUE

(* A call asks first and is served later, or is served at once.            *)
Request(t) ==
  /\ open /\ phase[t] = "out"
  /\ \/ /\ phase' = [phase EXCEPT ![t] = "sending"]
        /\ \E o \in Letter : box' = [box EXCEPT ![t] = o]
     \/ phase' = [phase EXCEPT ![t] = "receiving"] /\ UNCHANGED box
  /\ UNCHANGED << content, open >>

Asks(t, what) == phase[t] = what \/ (phase[t] = "out" /\ open)

Sends(t, o) == Asks(t, "sending") /\ (phase[t] = "sending" => o = box[t])

Receives(t, m) ==
  Asks(t, "receiving") /\ box' = [box EXCEPT ![t].msg = m]

Send(t, o) ==
  /\ Len(content) < Capacity
  /\ Sends(t, o)
  /\ content' = Insert(content, o)
  /\ phase' = [phase EXCEPT ![t] = "done"]
  /\ UNCHANGED << box, open >>

Receive(t) ==
  /\ content # << >>
  /\ Receives(t, Head(content))
  /\ content' = Tail(content)
  /\ phase' = [phase EXCEPT ![t] = "done"]
  /\ UNCHANGED open

(* A message goes through an empty queue to a thread that waits for one.   *)
Pass(s, o, r) ==
  /\ content = << >>
  /\ phase[r] = "receiving"
  /\ Sends(s, o) /\ Receives(r, o.msg)
  /\ phase' = [phase EXCEPT ![s] = "done", ![r] = "done"]
  /\ UNCHANGED << content, open >>

(* The place that a receiver makes in a full queue is taken at once.       *)
Refill(r, s) ==
  /\ Len(content) = Capacity
  /\ phase[s] = "sending"
  /\ Receives(r, Head(content))
  /\ content' = Insert(Tail(content), box[s])
  /\ phase' = [phase EXCEPT ![s] = "done", ![r] = "done"]
  /\ UNCHANGED open

Fail(t) ==
  /\ \E what \in {"sending", "receiving"} : Asks(t, what)
  /\ phase' = [phase EXCEPT ![t] = "failed"]
  /\ UNCHANGED << content, box, open >>

(* Also the end of a thread, wherever it is.                               *)
Leave(t) ==
  /\ phase' = [phase EXCEPT ![t] = "out"]
  /\ box' = [box EXCEPT ![t] = EmptyBox]
  /\ UNCHANGED << content, open >>

(* What the threads in s send, in this order, to an empty queue.           *)
Sent(s) ==
  LET c[n \in 0 .. Len(s)] ==
        IF n = 0 THEN << >> ELSE Insert(c[n - 1], box[s[n]])
  IN  c[Len(s)]

(* All messages are dropped; senders that waited take the places.          *)
Flush(s) ==
  /\ open /\ Len(s) <= Capacity
  /\ content' = Sent(s)
  /\ phase' = [t \in Thread |-> IF t \in ToSet(s) THEN "done" ELSE phase[t]]
  /\ UNCHANGED << box, open >>

Close == open /\ open' = FALSE /\ UNCHANGED << content, phase, box >>

Next ==
  \/ \E t \in Thread :
       \/ Request(t) \/ Receive(t) \/ Fail(t) \/ Leave(t)
       \/ \E o \in Letter : Send(t, o)
       \/ \E o \in Letter, r \in Thread \ {t} : Pass(t, o, r)
       \/ \E r \in Thread \ {t} : Refill(r, t)
  \/ \E s \in SetToAllKPermutations({t \in Thread : phase[t] = "sending"}) :
       Flush(s)
  \/ Close

Spec == Init /\ [][Next]_vars
=============================================================================
