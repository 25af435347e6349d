------------------------------ MODULE FxEvFlags ------------------------------
(***************************************************************************)
(* The group of event flags, sync_objects/fx_ev_flags.c, on the wait       *)
(* framework.  Waiters ask for all or any of some flags, and may consume   *)
(* them.                                                                   *)
(***************************************************************************)
EXTENDS FxWait

CONSTANTS
  Evf,          \* its waitable
  Flag,         \* the bits of evf->flags
  Request,      \* what waits ask for: attr->flags and the bits of attr->type
  NoRequest,    \* of a thread that asks for nothing
  MaxAsking     \* a bound of the model: calls at a time

ASSUME EvFlagsAssumption ==
  /\ Evf \in WaitQueue
  /\ Request \subseteq [flags : (SUBSET Flag) \ {{}}, all : BOOLEAN,
                        clear : BOOLEAN]
  /\ NoRequest \notin Request
  /\ MaxAsking \in Nat

VARIABLES
  evf_valid,
  flags,        \* evf->flags, a set of bits
  attr,         \* in the frame of a call: the request
  prev          \* in the frame of a call: attr.prev, {} is zero

evfVars == << evf_valid, flags, attr, prev >>

(* fx_ev_flags_init.                                                       *)
EvfInit(up) ==
  /\ evf_valid = up
  /\ flags = {}
  /\ attr = [t \in Thread |-> NoRequest]
  /\ prev = [t \in Thread |-> {}]

Satisfied(r, f) ==
  IF r.all THEN r.flags \subseteq f ELSE r.flags \cap f # {}

Consumed(r) == IF r.clear THEN r.flags ELSE {}

MayAskFor == Cardinality({t \in Thread : attr[t] # NoRequest}) < MaxAsking

(* fx_ev_flags_wait and fx_ev_flags_timedwait, up to their critical        *)
(* section.                                                                *)
EvfWait(t, r, c) ==
  /\ evf_valid /\ MayAskFor
  /\ Call(t, Evf, c)
  /\ attr' = [attr EXCEPT ![t] = r]
  /\ prev' = [prev EXCEPT ![t] = {}]
  /\ UNCHANGED << evf_valid, flags >>

(* The flags satisfy the wait of t, which consumes some of them.           *)
Take(t, r) ==
  /\ prev' = [prev EXCEPT ![t] = flags]
  /\ flags' = flags \ Consumed(r)

(* fx_evf_test_and_wait.                                                   *)
EvfTestAndWait(t) ==
  /\ Enters(t, Evf)
  /\ IF Satisfied(attr[t], flags)
     THEN Take(t, attr[t]) /\ Proceed(t) /\ UNCHANGED prio
     ELSE Block(t) /\ UNCHANGED << flags, prev >>
  /\ UNCHANGED << evf_valid, attr >>

(* fx_ev_flags_timedwait with a zero timeout.                              *)
EvfTry(t, r) ==
  /\ evf_valid /\ MayAskFor /\ TryCall(t)
  /\ attr' = [attr EXCEPT ![t] = r]
  /\ IF Satisfied(r, flags)
     THEN Take(t, r) /\ TryDone(t, "OK")
     ELSE /\ TryDone(t, "WAIT_TIMEOUT")
          /\ prev' = [prev EXCEPT ![t] = {}]
          /\ UNCHANGED flags
  /\ UNCHANGED << prio, evf_valid >>

(* MUTANT: the flags are given to the waiter after they were cleared.      *)
ReleaseWaiters_ClearedFirst(S, now) ==
  /\ flags' = now \ UNION {Consumed(attr[t]) : t \in S}
  /\ prev' = [t \in Thread |-> IF t \in S THEN flags' ELSE prev[t]]
  /\ wq' = [wq EXCEPT ![Evf] = UnlinkAll(@, S)]
  /\ status' = [t \in Thread |-> IF t \in S THEN "SATISFIED" ELSE status[t]]
  /\ state' = [t \in Thread |-> IF t \in S THEN "READY" ELSE state[t]]
  /\ UNCHANGED << pc, prio, result, restVars, evf_valid, attr >>

(* The waiters in S are released by the flags, which are cleared after     *)
(* all of them were given the flags as they are now.                       *)
ReleaseWaiters(S, now) ==
  /\ flags' = now \ UNION {Consumed(attr[t]) : t \in S}
  /\ prev' = [t \in Thread |-> IF t \in S THEN now ELSE prev[t]]
  /\ wq' = [wq EXCEPT ![Evf] = UnlinkAll(@, S)]
  /\ status' = [t \in Thread |-> IF t \in S THEN "SATISFIED" ELSE status[t]]
  /\ state' = [t \in Thread |-> IF t \in S THEN "READY" ELSE state[t]]
  /\ UNCHANGED << pc, prio, result, restVars, evf_valid, attr >>

(* fx_ev_flags_set, to set flags: all waiters are examined against the     *)
(* same flags, then what they consume is cleared, then they are notified.  *)
SetFlags(f) ==
  /\ evf_valid
  /\ LET now == flags \cup f
         S == {t \in Waiters(Evf) : Satisfied(attr[t], now)}
     IN  ReleaseWaiters(S, now)

(* fx_ev_flags_set, to clear flags.                                        *)
ClearFlags(f) ==
  /\ evf_valid
  /\ flags' = flags \ f
  /\ UNCHANGED << waitVars, evf_valid, attr, prev >>

(* fx_ev_flags_deinit, when no call is about to enter its critical         *)
(* section.                                                                *)
EvfDeinit ==
  /\ evf_valid
  /\ \A t \in Thread : ~Enters(t, Evf)
  /\ evf_valid' = FALSE
  /\ NotifyAll(Evf, "DELETED")
  /\ UNCHANGED << prio, flags, attr, prev >>

EvfStep ==
  \/ \E t \in Thread :
       \/ \E r \in Request, c \in Canceller(t) :
            EvfWait(t, r, c)
       \/ EvfTestAndWait(t)
       \/ \E r \in Request : EvfTry(t, r)
  \/ \E f \in (SUBSET Flag) \ {{}} : SetFlags(f) \/ ClearFlags(f)
  \/ EvfDeinit

(* The call returns, and its frame is gone.                                *)
EvfReturn(t) ==
  /\ attr' = [attr EXCEPT ![t] = NoRequest]
  /\ prev' = [prev EXCEPT ![t] = {}]
  /\ UNCHANGED << evf_valid, flags >>

-----------------------------------------------------------------------------
(* No thread waits for flags that are set, although those that are         *)
(* released consume flags that others wait for too.                        *)
EvfNoIdle ==
  \A t \in Waiters(Evf) : ~Satisfied(attr[t], flags)

(* The callers trust attr.prev, not the result of the wait.  On one        *)
(* processor the two agree: the flags that a call consumes are never lost  *)
(* on a thread whose wait failed, it is never told of success without      *)
(* them, and they are flags it asked for.                                  *)
EvfStatusAgrees ==
  \A t \in Thread : attr[t] # NoRequest =>
    /\ prev[t] # {} => Satisfied(attr[t], prev[t])
    /\ pc[t] = "blocked" => (prev[t] # {} <=> status[t] = "SATISFIED")
    /\ pc[t] = "returning" => (prev[t] # {} <=> result[t] = "OK")
=============================================================================
