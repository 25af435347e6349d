------------------------------- MODULE FxEsr -------------------------------
(***************************************************************************)
(* Event service routines, esr/sw/fx_esr.c, and the message queue they     *)
(* listen to, sync_objects/fx_msgq_esr.c.  Routines run on one stack: one  *)
(* preempts another by a frame on top of its frame, and returns by having  *)
(* the dispatcher go back to the frame below.                              *)
(*                                                                         *)
(* Routines call these functions at SPL_LOW, interrupts call those marked  *)
(* so at any time.  A dispatch that was requested comes before the next    *)
(* step of a routine, but interrupts may come before it.                   *)
(***************************************************************************)
EXTENDS FxSchedBitmap, RtlQueue

CONSTANTS
  Esr,
  IdleEsr,      \* idle_esr, for which nothing is modelled but its frame
  NoEsr,        \* NULL as a current routine
  Epl,          \* of each routine, and FX_SCHED_ALG_PRIO_IDLE of IdleEsr
  Msg,          \* what is sent to the queue, nothing twice while it is about
  Order,        \* what fx_esr_activate is called with
  NoMsg,        \* a message that is 0
  ItemsMax      \* msgq->items_max

ASSUME EsrAssumption ==
  /\ IdleEsr \notin Esr /\ NoEsr \notin Esr \cup {IdleEsr}
  /\ Epl \in [Esr \cup {IdleEsr} -> Nat]
  /\ \A e, f \in Esr \cup {IdleEsr} : Epl[e] = Epl[f] => e = f
  /\ \A e \in Esr : Epl[e] < Epl[IdleEsr]
  /\ Msg \cap Order = {} /\ NoMsg \notin Msg \cup Order
  /\ ItemsMax \in Nat \ {0}

AnyEsr == Esr \cup {IdleEsr}
Level == {Epl[e] : e \in AnyEsr}

VARIABLES
  current_esr, virtual_frame,                   \* of fx_esr_context_t
  container, resched_pending, sched_active,     \* of fx_sched_context_t
  suspended,    \* suspend_count of each routine, which is 0 or 1
  epl, active, intr_context, msg,               \* of fx_esr_t
  swi,          \* a dispatch is requested
  stack,        \* whose frames are on the stack, the running one last; a
                \* frame is named by its position, 0 is NULL
  stub,         \* the routines that have not got past fx_esr_stub
  recv_wtbl,    \* the routines that listen to the queue
  queue,        \* the messages in it
  valid,        \* the objects that are initialised: routines, and the queue
  inflight      \* messages accepted by the queue and handed to no routine yet

schedVars == << container, resched_pending, sched_active, suspended, swi >>
frameVars == << current_esr, virtual_frame, active, intr_context, stack, stub >>
msgqVars == << recv_wtbl, queue, inflight >>
vars == << schedVars, frameVars, msgqVars, epl, msg, valid >>

TheQueue == "msgq"

(* fx_thread_ctor, fx_esr_init of all routines and fx_msgq_init.           *)
Init ==
  /\ current_esr = IdleEsr /\ virtual_frame = 0
  /\ container = ContainerAdd(EmptyContainer(Level, NoEsr), IdleEsr, Epl[IdleEsr])
  /\ resched_pending = FALSE /\ sched_active = IdleEsr
  /\ suspended = [e \in AnyEsr |-> e # IdleEsr]
  /\ epl = Epl
  /\ active = [e \in AnyEsr |-> e = IdleEsr]
  /\ intr_context = [e \in AnyEsr |-> 0]
  /\ msg = [e \in AnyEsr |-> NoMsg]
  /\ swi = FALSE
  /\ stack = << IdleEsr >> /\ stub = {}
  /\ recv_wtbl = << >> /\ queue = << >> /\ inflight = {}
  /\ valid = Esr \cup {TheQueue}

Running == stack[Len(stack)]

(* The function of e executes, and calls something.                        *)
Calls(e) == ~swi /\ e = Running /\ e = current_esr /\ e \notin stub

(* fx_sched_item_resume of the routines in E.                              *)
Resume(E) ==
  LET woken == {e \in E : suspended[e]}
  IN  /\ suspended' = [e \in AnyEsr |-> suspended[e] /\ e \notin woken]
      /\ container' = ContainerAddAll(container, Epl, woken)
      /\ IF \E e \in woken : Epl[e] <= Epl[sched_active]
         THEN resched_pending' = TRUE /\ swi' = TRUE
         ELSE UNCHANGED << resched_pending, swi >>
      /\ UNCHANGED sched_active

(* fx_sched_item_suspend of the caller.                                    *)
SuspendSelf(e) ==
  /\ suspended' = [suspended EXCEPT ![e] = TRUE]
  /\ container' = ContainerRemove(container, Epl[e], NoEsr)
  /\ resched_pending' = TRUE /\ swi' = TRUE
  /\ UNCHANGED sched_active

(* The same and a fx_sched_item_resume after it.                           *)
SuspendAndResume(e) ==
  /\ resched_pending' = TRUE /\ swi' = TRUE
  /\ UNCHANGED << container, suspended, sched_active >>

(* fx_esr_activate, by anybody.                                            *)
Activate(e, o) ==
  /\ e \in valid
  /\ IF o = NoMsg \/ msg[e] = NoMsg
     THEN /\ msg' = [msg EXCEPT ![e] = IF o = NoMsg THEN @ ELSE o]
          /\ Resume({e})
     ELSE UNCHANGED << msg, schedVars >>
  /\ UNCHANGED << frameVars, msgqVars, epl, valid >>

(* What a routine that ends leaves behind for the dispatcher: the frame    *)
(* that it interrupted.                                                    *)
LeaveFrame(e) ==
  /\ virtual_frame' = intr_context[e]
  /\ active' = [active EXCEPT ![e] = FALSE]
  /\ current_esr' = NoEsr
  /\ UNCHANGED << intr_context, stack, stub >>

(* fx_esr_exit, which a function calls or returns to, at its own level.    *)
Exit(e) ==
  /\ e \in Esr /\ Calls(e) /\ epl[e] = Epl[e]
  /\ LeaveFrame(e)
  /\ SuspendSelf(e)
  /\ msg' = [msg EXCEPT ![e] = NoMsg]
  /\ UNCHANGED << msgqVars, epl, valid >>

(* fx_esr_raise_pl.                                                        *)
RaisePl(e, p) ==
  /\ e \in Esr /\ Calls(e) /\ p < epl[e]
  /\ epl' = [epl EXCEPT ![e] = p]
  /\ UNCHANGED << schedVars, frameVars, msgqVars, msg, valid >>

(* MUTANT: nobody looks for routines that the old level kept from running. *)
LowerPl_NoResched(e, p) ==
  /\ e \in Esr /\ Calls(e) /\ epl[e] < p /\ p <= Epl[e]
  /\ epl' = [epl EXCEPT ![e] = p]
  /\ UNCHANGED << schedVars, frameVars, msgqVars, msg, valid >>

(* fx_esr_lower_pl.                                                        *)
LowerPl(e, p) ==
  /\ e \in Esr /\ Calls(e) /\ epl[e] < p /\ p <= Epl[e]
  /\ epl' = [epl EXCEPT ![e] = p]
  /\ resched_pending' = TRUE /\ swi' = TRUE
  /\ UNCHANGED << container, sched_active, suspended, frameVars, msgqVars,
                  msg, valid >>

(* MUTANT: the new frame goes on top of whatever is on the stack, the      *)
(* frame of a routine that has ended included.                             *)
Base_Top == Len(stack)

(* The frame that the dispatcher starts from.                              *)
Base == IF virtual_frame = 0 THEN Len(stack) ELSE virtual_frame

(* The dispatcher goes to the frame of the routine e, a new one if it is   *)
(* not active.                                                             *)
SwitchTo(e) ==
  /\ current_esr' = e
  /\ active' = [active EXCEPT ![e] = TRUE]
  /\ IF active[e]
     THEN /\ stack' = SubSeq(stack, 1, Base)
          /\ UNCHANGED << intr_context, stub >>
     ELSE /\ stack' = Append(SubSeq(stack, 1, Base), e)
          /\ intr_context' = [intr_context EXCEPT ![e] = Base]
          /\ stub' = stub \cup {e}

(* fx_dispatch_handler, with fx_sched_get_next.                            *)
Dispatch ==
  LET next == ContainerGet(container)
  IN  /\ swi /\ swi' = FALSE
      /\ virtual_frame' = 0
      /\ resched_pending' = FALSE
      /\ sched_active' = IF resched_pending THEN next ELSE sched_active
      /\ IF resched_pending /\ (current_esr = NoEsr \/ epl[next] < epl[current_esr])
         THEN SwitchTo(next)
         ELSE UNCHANGED << current_esr, active, intr_context, stack, stub >>
      /\ UNCHANGED << container, suspended, msgqVars, epl, msg, valid >>

(* MUTANT: a routine that was activated while it listens stays in the      *)
(* queue of the port.                                                      *)
Start_StaysLinked(e) ==
  /\ ~swi /\ e = Running /\ e \in stub
  /\ stub' = stub \ {e}
  /\ inflight' = inflight \ {msg[e]}
  /\ UNCHANGED << schedVars, current_esr, virtual_frame, active, intr_context,
                  stack, recv_wtbl, queue, epl, msg, valid >>

(* fx_esr_stub, up to the call of the function with the message.           *)
Start(e) ==
  /\ ~swi /\ e = Running /\ e \in stub
  /\ stub' = stub \ {e}
  /\ recv_wtbl' = Unlink(recv_wtbl, e)
  /\ inflight' = inflight \ {msg[e]}
  /\ UNCHANGED << schedVars, current_esr, virtual_frame, active, intr_context,
                  stack, queue, epl, msg, valid >>

(* fx_msgq_listen without waiting.                                         *)
Poll(e) ==
  /\ e \in Esr /\ Calls(e) /\ TheQueue \in valid /\ queue # << >>
  /\ msg' = [msg EXCEPT ![e] = Head(queue)]
  /\ queue' = Tail(queue)
  /\ inflight' = inflight \ {Head(queue)}
  /\ UNCHANGED << schedVars, frameVars, recv_wtbl, epl, valid >>

(* fx_msgq_listen, waiting: the frame is left, and the function starts     *)
(* again with the next message.                                            *)
Listen(e) ==
  /\ e \in Esr /\ Calls(e) /\ epl[e] = Epl[e] /\ TheQueue \in valid
  /\ LeaveFrame(e)
  /\ \/ /\ queue # << >>
        /\ msg' = [msg EXCEPT ![e] = Head(queue)]
        /\ queue' = Tail(queue)
        /\ SuspendAndResume(e) /\ UNCHANGED recv_wtbl
     \/ /\ queue = << >>
        /\ recv_wtbl' = Append(recv_wtbl, e)
        /\ SuspendSelf(e)
        /\ UNCHANGED << msg, queue >>
  /\ UNCHANGED << inflight, epl, valid >>

(* fx_msgq_send, by anybody, that does not find the queue full.            *)
Send(m) ==
  /\ TheQueue \in valid /\ Len(queue) < ItemsMax
  /\ m \notin inflight /\ \A e \in Esr : msg[e] # m
  /\ inflight' = inflight \cup {m}
  /\ IF queue = << >> /\ recv_wtbl # << >>
     THEN LET r == Head(recv_wtbl)
          IN  /\ msg' = [msg EXCEPT ![r] = m]
              /\ recv_wtbl' = Tail(recv_wtbl)
              /\ Resume({r})
              /\ UNCHANGED queue
     ELSE /\ queue' = Append(queue, m)
          /\ UNCHANGED << msg, recv_wtbl, schedVars >>
  /\ UNCHANGED << frameVars, epl, valid >>

(* fx_msgq_flush: nobody can be waiting to send.                           *)
Flush ==
  /\ TheQueue \in valid /\ queue # << >>
  /\ queue' = << >>
  /\ inflight' = inflight \ ToSet(queue)
  /\ UNCHANGED << schedVars, frameVars, recv_wtbl, epl, msg, valid >>

(* fx_msgq_deinit starts those who listen with the message they had.       *)
MsgqDeinit ==
  /\ TheQueue \in valid
  /\ valid' = valid \ {TheQueue}
  /\ queue' = << >> /\ recv_wtbl' = << >>
  /\ inflight' = inflight \ ToSet(queue)
  /\ Resume(ToSet(recv_wtbl))
  /\ UNCHANGED << frameVars, epl, msg >>

(* fx_esr_deinit of a routine that is neither active nor listening.        *)
Deinit(e) ==
  /\ e \in valid /\ ~active[e] /\ ~Linked(recv_wtbl, e)
  /\ valid' = valid \ {e}
  /\ IF suspended[e]
     THEN UNCHANGED schedVars
     ELSE /\ container' = ContainerRemove(container, Epl[e], NoEsr)
          /\ suspended' = [suspended EXCEPT ![e] = TRUE]
          /\ IF sched_active = e
             THEN resched_pending' = TRUE /\ swi' = TRUE
             ELSE UNCHANGED << resched_pending, swi >>
          /\ UNCHANGED sched_active
  /\ inflight' = inflight \ {msg[e]}
  /\ msg' = [msg EXCEPT ![e] = NoMsg]
  /\ UNCHANGED << frameVars, recv_wtbl, queue, epl >>

Next ==
  \/ Dispatch
  \/ \E e \in Esr :
       \/ \E o \in Order \cup {NoMsg} : Activate(e, o)
       \/ Start(e) \/ Exit(e) \/ Poll(e) \/ Listen(e) \/ Deinit(e)
       \/ \E p \in Level : RaisePl(e, p) \/ LowerPl(e, p)
  \/ \E m \in Msg : Send(m)
  \/ Flush
  \/ MsgqDeinit

Spec == Init /\ [][Next]_vars

-----------------------------------------------------------------------------
TypeOK ==
  /\ current_esr \in AnyEsr \cup {NoEsr}
  /\ virtual_frame \in Nat
  /\ container \in [items_map : SUBSET Level,
                    items : [Level -> AnyEsr \cup {NoEsr}]]
  /\ resched_pending \in BOOLEAN /\ swi \in BOOLEAN
  /\ sched_active \in AnyEsr
  /\ suspended \in [AnyEsr -> BOOLEAN] /\ active \in [AnyEsr -> BOOLEAN]
  /\ epl \in [AnyEsr -> Level]
  /\ intr_context \in [AnyEsr -> Nat]
  /\ msg \in [AnyEsr -> Msg \cup Order \cup {NoMsg}]
  /\ stack \in Seq(AnyEsr) /\ stub \subseteq Esr
  /\ recv_wtbl \in Seq(Esr) /\ queue \in Seq(Msg)
  /\ valid \subseteq Esr \cup {TheQueue} /\ inflight \subseteq Msg

(* Whenever a routine executes it is the one the module believes to be     *)
(* current; below it are exactly the routines that it interrupted, each    *)
(* once, in the order in which they were, and each remembers the frame it  *)
(* has to return to.                                                       *)
FramesNest ==
  ~swi =>
    /\ current_esr = Running
    /\ {e \in AnyEsr : active[e]} = ToSet(stack)
    /\ \A k \in 2 .. Len(stack) :
         /\ intr_context[stack[k]] = k - 1
         /\ Epl[stack[k]] < Epl[stack[k - 1]]

(* No routine that was activated waits for one at a level that it is       *)
(* above.                                                                  *)
NoLostPreemption ==
  ~swi => \A e \in Esr :
    ~suspended[e] /\ ~active[e] => epl[current_esr] <= Epl[e]

(* A message that the queue accepted is in it, or with one routine that    *)
(* will be started with it.                                                *)
Pending(e) == ~suspended[e] /\ (~active[e] \/ e \in stub)

MessagesKept ==
  \A m \in inflight :
    Cardinality({k \in DOMAIN queue : queue[k] = m})
      + Cardinality({e \in Esr : msg[e] = m /\ Pending(e)}) = 1
=============================================================================
