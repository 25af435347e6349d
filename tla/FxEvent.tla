------------------------------ MODULE FxEvent ------------------------------
(***************************************************************************)
(* An event of the user, sync_objects/fx_event.c, on the wait framework.   *)
(* The events that abort waits are part of the framework, those of threads *)
(* are in FxThread.                                                        *)
(***************************************************************************)
EXTENDS FxWait

CONSTANT Ev     \* its waitable

ASSUME EventAssumption == Ev \in WaitQueue

VARIABLES
  ev_valid,
  ev_state      \* event->state: it is set

eventVars == << ev_valid, ev_state >>

(* fx_event_init, with either state.                                       *)
EvInit(up) == ev_valid = up /\ ev_state \in {FALSE, up}

(* fx_event_wait and fx_event_timedwait, which are fx_thread_wait_event    *)
(* and fx_thread_timedwait_event, up to their critical section.            *)
EvWait(t, c) == ev_valid /\ Call(t, Ev, c) /\ UNCHANGED eventVars

(* fx_event_test_and_wait.                                                 *)
EvTestAndWait(t) ==
  /\ Enters(t, Ev)
  /\ \/ ev_state /\ Proceed(t) /\ UNCHANGED prio
     \/ ~ev_state /\ Block(t)
  /\ UNCHANGED eventVars

(* A timed wait with a zero timeout.                                       *)
EvTry(t) ==
  /\ ev_valid /\ TryCall(t)
  /\ TryDone(t, IF ev_state THEN "OK" ELSE "WAIT_TIMEOUT")
  /\ UNCHANGED << prio, eventVars >>

(* fx_event_set: an event that is set already releases nobody.             *)
EvSet ==
  /\ ev_valid
  /\ ev_state' = TRUE
  /\ \/ ~ev_state /\ NotifyAll(Ev, "SATISFIED")
     \/ ev_state /\ UNCHANGED << pc, state, wq, status, result, restVars >>
  /\ UNCHANGED << prio, ev_valid >>

(* fx_event_reset.                                                         *)
EvReset ==
  /\ ev_valid
  /\ ev_state' = FALSE
  /\ UNCHANGED << waitVars, ev_valid >>

(* fx_event_deinit, when no call is about to enter its critical section.   *)
EvDeinit ==
  /\ ev_valid
  /\ \A t \in Thread : ~Enters(t, Ev)
  /\ ev_valid' = FALSE
  /\ NotifyAll(Ev, "DELETED")
  /\ UNCHANGED << prio, ev_state >>

EvStep ==
  \/ \E t \in Thread :
       \/ \E c \in Canceller(t) : EvWait(t, c)
       \/ EvTestAndWait(t)
       \/ EvTry(t)
  \/ EvSet
  \/ EvReset
  \/ EvDeinit

-----------------------------------------------------------------------------
(* fx_event_set releases waiters only when the state changes, so nobody    *)
(* may wait for an event that is set.                                      *)
EvNoIdle == ev_state => wq[Ev] = << >>
=============================================================================
