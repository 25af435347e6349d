---------------------------- MODULE AbstractTimer ----------------------------
(***************************************************************************)
(* What the software timers promise, without a tick counter that wraps and *)
(* without a list: every armed timer has a number of ticks left, counted   *)
(* from the call that asked for it.  A tick ends only when no timer is     *)
(* due, and the timer that has been due for longest is called first.       *)
(***************************************************************************)
EXTENDS Integers

CONSTANTS
  Timer,
  NoTimer,
  NotArmed,  \* the ticks left of a timer that is not armed
  NoRequest,
  Delay,     \* the ticks a relative call may ask for
  SlowDelay, \* those of calls that take more than a tick
  Offset,    \* the times, relative to now, an absolute call may ask for
  Period

VARIABLES
  left,      \* of each timer, the ticks until it is due
  period,
  request,   \* a call that is not yet in effect: its ticks left and period
  running    \* the timer whose callback runs, or NoTimer

vars == << left, period, request, running >>

Init ==
  /\ left = [t \in Timer |-> NotArmed]
  /\ period = [t \in Timer |-> 0]
  /\ request = [t \in Timer |-> NoRequest]
  /\ running = NoTimer

Due(l) == {t \in Timer : l[t] # NotArmed /\ l[t] <= 0}

Arm(t, n, p) ==
  /\ left' = [left EXCEPT ![t] = n]
  /\ period' = [period EXCEPT ![t] = p]

Set(t, n, p) == Arm(t, n, p) /\ UNCHANGED << request, running >>

Ask(t, n, p) ==
  /\ running = NoTimer /\ request[t] = NoRequest
  /\ request' = [request EXCEPT ![t] = [left |-> n, period |-> p]]
  /\ UNCHANGED << left, period, running >>

TakeEffect(t) ==
  /\ running = NoTimer /\ request[t] # NoRequest
  /\ Arm(t, request[t].left, request[t].period)
  /\ request' = [request EXCEPT ![t] = NoRequest]
  /\ UNCHANGED running

(* The timer that has been due for longest is called; a periodic one is    *)
(* armed again, counted from when it was due.                              *)
Call(l, t) ==
  /\ t \in Due(l) /\ \A u \in Due(l) : l[t] <= l[u]
  /\ left' = [l EXCEPT ![t] = IF period[t] = 0 THEN NotArmed
                              ELSE @ + period[t]]
  /\ running' = t

End(l) == Due(l) = {} /\ left' = l /\ running' = NoTimer

CallOrEnd(l) ==
  /\ End(l) \/ \E t \in Timer : Call(l, t)
  /\ period' = [t \in Timer |-> IF left'[t] = NotArmed THEN 0 ELSE period[t]]

Tick ==
  /\ running = NoTimer
  /\ CallOrEnd([t \in Timer |-> IF left[t] = NotArmed THEN NotArmed
                                ELSE left[t] - 1])
  /\ request' = [t \in Timer |-> IF request[t] = NoRequest THEN NoRequest
                                 ELSE [request[t] EXCEPT !.left = @ - 1]]

CallbackReturns ==
  running # NoTimer /\ CallOrEnd(left) /\ UNCHANGED request

Next ==
  \/ Tick
  \/ CallbackReturns
  \/ \E t \in Timer :
       \/ \E n \in Delay \cup Offset, p \in Period : Set(t, n, p)
       \/ \E n \in SlowDelay, p \in Period : Ask(t, n, p)
       \/ TakeEffect(t)
       \/ Set(t, NotArmed, 0)

Spec == Init /\ [][Next]_vars
=============================================================================
