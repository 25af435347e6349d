------------------------------- MODULE FxTimer -------------------------------
(***************************************************************************)
(* The software timers, timer/lw/fx_timer_internal.c: a list of timers in  *)
(* order of their timeouts, which are values of a tick counter that wraps. *)
(*                                                                         *)
(* Each action is one critical section.  The tick handler leaves its       *)
(* critical section to call a callback; from then until the callback       *)
(* returns only interrupt handlers and the callback itself run.            *)
(***************************************************************************)
EXTENDS RtlQueue

CONSTANTS
  Timer,
  NoTimer,
  NoRequest,
  TickMod,   \* 2^32 in the code
  Delay,     \* the delays that fx_timer_internal_set_rel is called with
  SlowDelay, \* those of calls that ticks may interrupt
  Offset,    \* the times that fx_timer_internal_set_abs is called with,
             \* relative to the current tick
  Period,    \* 0 for a timer that is called once
  MaxLate    \* bound: ticks that come while a call is under way

Half == TickMod \div 2

(* The code compares timeouts by the sign of their difference.  That is    *)
(* right as long as all of them lie within half the range of the counter.  *)
ASSUME TimerAssumption ==
  /\ NoTimer \notin Timer \cup Int
  /\ NoRequest \notin [at : Int, period : Int] \cup [left : Int, period : Int]
  /\ TickMod \in Nat \ {0} /\ TickMod = 2 * Half
  /\ Delay \cup SlowDelay \cup Period \subseteq Nat /\ Offset \subseteq Int
  /\ MaxLate \in Nat /\ MaxLate + 1 < Half
  /\ \A d \in Delay \cup SlowDelay \cup Offset \cup Period :
       0 - MaxLate <= d /\ d + MaxLate + 1 < Half

VARIABLES
  ticks,     \* fx_timer_internal_ticks
  timers,    \* fx_timer_internal_timers
  timeout,   \* of each timer; set to 0 when it leaves the list, where the
  period,    \* code keeps a value that is written before it is read again
  request,   \* a call of set_rel that has read the counter: the timeout it
             \* is about to set, and the period
  running    \* the timer whose callback the tick handler has called

timerVars == << ticks, timers, timeout, period, request, running >>

Wrap(n) == n % TickMod
Signed(n) == IF n >= Half THEN n - TickMod ELSE n
TimeAfter(a, b) == Signed(Wrap(b - a)) < 0
TimeAfterOrEq(a, b) == Signed(Wrap(b - a)) <= 0

Armed(t) == Linked(timers, t)

(* _fx_timer_insert: in front of the first timer with a later timeout.     *)
InsertTimer(list, at, t) ==
  LET Later(u) == TimeAfter(at[u], at[t])
      k == SelectInSeq(list, Later)
  IN  IF k = 0 THEN Append(list, t) ELSE InsertAt(list, k, t)

TimerInit ==
  /\ ticks = 0
  /\ timers = << >>
  /\ timeout = [t \in Timer |-> 0]
  /\ period = [t \in Timer |-> 0]
  /\ request = [t \in Timer |-> NoRequest]
  /\ running = NoTimer

(* fx_timer_internal_set_abs, without what the caller does with request.   *)
SetAbs(t, at, p) ==
  /\ timeout' = [timeout EXCEPT ![t] = at]
  /\ period' = [period EXCEPT ![t] = p]
  /\ timers' = InsertTimer(Unlink(timers, t), timeout', t)
  /\ UNCHANGED << ticks, running >>

SetAbsolute(t, d, p) ==
  SetAbs(t, Wrap(ticks + d), p) /\ UNCHANGED request

(* fx_timer_internal_set_rel of an interrupt handler, of a callback, or of *)
(* a thread that no tick interrupts.                                       *)
SetRel(t, d, p) ==
  SetAbs(t, Wrap(ticks + d), p) /\ UNCHANGED request

(* fx_timer_internal_set_rel of a thread: the counter is read in one       *)
(* critical section and the timer inserted in another.                     *)
ReadTicks(t, d, p) ==
  /\ running = NoTimer /\ request[t] = NoRequest
  /\ request' = [request EXCEPT ![t] = [at |-> Wrap(ticks + d), period |-> p]]
  /\ UNCHANGED << ticks, timers, timeout, period, running >>

FinishSetRel(t) ==
  /\ running = NoTimer /\ request[t] # NoRequest
  /\ SetAbs(t, request[t].at, request[t].period)
  /\ request' = [request EXCEPT ![t] = NoRequest]

(* fx_timer_internal_cancel.                                               *)
Cancel(t) ==
  /\ timers' = Unlink(timers, t)
  /\ timeout' = [timeout EXCEPT ![t] = 0]
  /\ period' = [period EXCEPT ![t] = 0]
  /\ UNCHANGED << ticks, request, running >>

(* MUTANT: the next time of a periodic timer is counted from now.          *)
Expire_Drift(t) ==
  /\ running' = t
  /\ IF period[t] = 0
     THEN /\ timeout' = [timeout EXCEPT ![t] = 0]
          /\ timers' = Tail(timers)
     ELSE /\ timeout' = [timeout EXCEPT ![t] = Wrap(ticks + period[t])]
          /\ timers' = InsertTimer(Tail(timers), timeout', t)
  /\ UNCHANGED period

(* MUTANT: a periodic timer returns to the list with its old timeout.      *)
Expire_Again(t) ==
  /\ running' = t
  /\ IF period[t] = 0
     THEN /\ timeout' = [timeout EXCEPT ![t] = 0]
          /\ timers' = Tail(timers)
     ELSE UNCHANGED << timeout, timers >>
  /\ UNCHANGED period

(* The head of the list expires: it leaves the list, or returns to it if   *)
(* it is periodic, and its callback is called.                             *)
Expire(t) ==
  /\ running' = t
  /\ IF period[t] = 0
     THEN /\ timeout' = [timeout EXCEPT ![t] = 0]
          /\ timers' = Tail(timers)
     ELSE /\ timeout' = [timeout EXCEPT ![t] = Wrap(@ + period[t])]
          /\ timers' = InsertTimer(Tail(timers), timeout', t)
  /\ UNCHANGED period

(* One turn of the loop of fx_tick_handler, up to the callback.            *)
Scan(now) ==
  IF timers # << >> /\ TimeAfterOrEq(now, timeout[Head(timers)])
  THEN Expire(Head(timers))
  ELSE running' = NoTimer /\ UNCHANGED << timers, timeout, period >>

(* fx_tick_handler up to the first callback.  No more than MaxLate ticks   *)
(* come before a call that has read the counter inserts its timer.         *)
Tick ==
  /\ running = NoTimer
  /\ \A t \in Timer : request[t] # NoRequest
       => Signed(Wrap(request[t].at - ticks)) > 0 - MaxLate
  /\ ticks' = Wrap(ticks + 1)
  /\ Scan(ticks')
  /\ UNCHANGED request

CallbackReturns ==
  running # NoTimer /\ Scan(ticks) /\ UNCHANGED << ticks, request >>

TimerNext ==
  \/ Tick
  \/ CallbackReturns
  \/ \E t \in Timer :
       \/ \E d \in Delay, p \in Period : SetRel(t, d, p)
       \/ \E d \in Offset, p \in Period : SetAbsolute(t, d, p)
       \/ \E d \in SlowDelay, p \in Period : ReadTicks(t, d, p)
       \/ FinishSetRel(t)
       \/ Cancel(t)

TimerSpec == TimerInit /\ [][TimerNext]_timerVars
TimerFairSpec == TimerSpec /\ WF_timerVars(CallbackReturns)

-----------------------------------------------------------------------------
Left(at) == Signed(Wrap(at - ticks))

OnTime == INSTANCE AbstractTimer WITH
  NotArmed <- NoTimer,
  left <- [t \in Timer |-> IF Armed(t) THEN Left(timeout[t]) ELSE NoTimer],
  request <- [t \in Timer |->
    IF request[t] = NoRequest THEN NoRequest
    ELSE [left |-> Left(request[t].at), period |-> request[t].period]]

(* Although the counter wraps, a timer is called on the tick it was set    *)
(* for and not before, counted from the call that set it; no tick ends     *)
(* before all timers that are due were called, the earliest first; and a   *)
(* periodic timer keeps to its period, however late its callback came.     *)
TimersOnTime == OnTime!Spec

(* A callback sets a timer for a time that has come already.              *)
CallbackSetsDue ==
  /\ running # NoTimer
  /\ \E t \in Timer, p \in Period :
       \/ \E d \in Delay : d = 0 /\ SetRel(t, d, p)
       \/ \E d \in Offset : d <= 0 /\ SetAbsolute(t, d, p)

(* The tick handler comes to an end if every callback does, although       *)
(* callbacks arm timers, their own too, and late periodic timers expire    *)
(* more than once in a tick: unless callbacks set timers again and again   *)
(* that are due at once.                                                   *)
TickEnds ==
  <>[][~CallbackSetsDue]_timerVars => (running # NoTimer ~> running = NoTimer)
=============================================================================
