---------------------------- MODULE AbstractSem ----------------------------
(***************************************************************************)
(* What a counting semaphore promises: a post is worth one token, which is *)
(* kept, given to one waiting thread, or lost because the counter is at    *)
(* its limit; a wait that succeeds took one token, a wait that fails for   *)
(* whatever reason took none.                                              *)
(***************************************************************************)
EXTENDS Integers

CONSTANTS Thread, MaxCount

VARIABLES
  count,
  phase,        \* of each thread: "out", "waiting", "acquired", "failed"
  open          \* the semaphore may be used

vars == << count, phase, open >>

Enter(t, from, to) == phase[t] = from /\ phase' = [phase EXCEPT ![t] = to]

Init ==
  /\ count \in 0 .. MaxCount
  /\ phase = [t \in Thread |-> "out"]
  /\ open = TRUE

Request(t) == open /\ Enter(t, "out", "waiting") /\ UNCHANGED << count, open >>

(* Whoever asked while the semaphore was open may get its token later.     *)
Acquire(t) ==
  /\ count > 0
  /\ count' = count - 1
  /\ Enter(t, "waiting", "acquired") \/ (open /\ Enter(t, "out", "acquired"))
  /\ UNCHANGED open

Fail(t) ==
  /\ Enter(t, "waiting", "failed") \/ (open /\ Enter(t, "out", "failed"))
  /\ UNCHANGED << count, open >>

(* Also the end of a thread, wherever it is: it takes what it had with it. *)
Leave(t) ==
  /\ phase' = [phase EXCEPT ![t] = "out"]
  /\ UNCHANGED << count, open >>

PostKeep ==
  /\ open
  /\ count' = IF count < MaxCount THEN count + 1 ELSE count
  /\ UNCHANGED << phase, open >>

PostGive(t) ==
  /\ open /\ count = 0
  /\ Enter(t, "waiting", "acquired")
  /\ UNCHANGED << count, open >>

Reset == open /\ count' = 0 /\ UNCHANGED << phase, open >>

Close == open /\ open' = FALSE /\ UNCHANGED << count, phase >>

Reopen ==
  /\ ~open
  /\ open' = TRUE
  /\ count' \in 0 .. MaxCount
  /\ UNCHANGED phase

Next ==
  \/ \E t \in Thread :
       Request(t) \/ Acquire(t) \/ Fail(t) \/ Leave(t) \/ PostGive(t)
  \/ PostKeep
  \/ Reset
  \/ Close
  \/ Reopen

Spec == Init /\ [][Next]_vars
=============================================================================
