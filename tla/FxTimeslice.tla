----------------------------- MODULE FxTimeslice -----------------------------
(***************************************************************************)
(* Time slices: the dispatch software interrupt of thread/kthread/         *)
(* fx_thread_sys.c with thread/roundrobin/enabled/fx_thread_timeslice.h,   *)
(* over the scheduler, whose active item is also g_current_thread.  One    *)
(* system timer serves the thread on the processor, if it has a time slice *)
(* and peers that wait for the processor; when it expires the thread that  *)
(* is current yields.  The tick interrupt goes on to other callbacks, and  *)
(* other interrupts may come, before the software interrupt is taken.      *)
(***************************************************************************)
EXTENDS FxSched

CONSTANT Timeslice      \* the values that a time slice is set to: TRUE if not
                        \* zero

ASSUME TimesliceAssumption == Timeslice \subseteq BOOLEAN

VARIABLES
  timeslice,    \* of each thread: its time slice is not zero
  timer_armed,  \* timeslicing_context.timer_armed
  slice_timer,  \* timeslicing_context.timer is in the list of timers
  alive,        \* threads whose state is not FX_THREAD_STATE_COMPLETED
  slice_owner,  \* history: the thread that the armed timer was set for
  sliced,       \* history: the active thread was dispatched with a slice
  revived       \* history: threads that were queued again after their end

tickVars == << timer_armed, slice_timer, slice_owner, sliced >>
lifeVars == << alive, revived >>
sliceVars == << timeslice, tickVars, lifeVars >>
allVars == << vars, sliceVars >>

(* fx_thread_ctor, fx_thread_timeslice_ctor.                               *)
SliceInit ==
  /\ Init
  /\ timeslice = [i \in Item |-> FALSE]
  /\ timer_armed = FALSE
  /\ slice_timer = FALSE
  /\ alive = {}
  /\ slice_owner = Idle
  /\ sliced = FALSE
  /\ revived = {}

Queue(i) == g_domain.priority_queues[prio[i]]

(* fx_sched_params_is_unique: no other item is in its queue.               *)
IsUnique(i) == Head(Queue(i)) = Queue(i)[Len(Queue(i))]

(* MUTANT: the timer is left alone when another thread is dispatched.      *)
TimesliceReset_SameForAll(next, prev) ==
  LET should == timeslice[next] /\ ~IsUnique(next)
      cancel == ~should /\ timer_armed
      armed  == timer_armed /\ ~cancel
      set    == should /\ ~armed
  IN  /\ timer_armed' = (armed \/ should)
      /\ slice_timer' = ((slice_timer /\ ~cancel) \/ set)
      /\ slice_owner' = IF set THEN next ELSE IF armed THEN slice_owner ELSE Idle

(* fx_thread_timeslice_reset, of the item that is picked next.  It relies  *)
(* on timer_armed to know whether the timer runs.                          *)
TimesliceReset(next, prev) ==
  LET should == timeslice[next] /\ ~IsUnique(next)
      cancel == (next # prev \/ ~should) /\ timer_armed
      armed  == timer_armed /\ ~cancel
      set    == should /\ ~armed
  IN  /\ timer_armed' = (armed \/ should)
      /\ slice_timer' = ((slice_timer /\ ~cancel) \/ set)
      /\ slice_owner' = IF set THEN next ELSE IF armed THEN slice_owner ELSE Idle

(* fx_dispatch_handler.                                                    *)
Dispatch ==
  /\ GetNext
  /\ TimesliceReset(active', active)
  /\ sliced' = timeslice[active']
  /\ UNCHANGED << timeslice, lifeVars >>

(* fx_sched_yield of an item that was removed.  rtl_queue_remove follows   *)
(* its null links, which is undefined: here the two writes to address zero *)
(* hit nothing that matters, and the rest of the call queues the item.     *)
YieldRemoved(i) ==
  /\ ~Ready(i) /\ suspend_count[i] = 0
  /\ g_domain' = ContainerAdd(ContainerRemove(g_domain, i, prio[i]),
                              i, prio[i])
  /\ changed' = TRUE
  /\ resched_pending' = TRUE
  /\ UNCHANGED << saved_params, active, suspend_count, prio >>

(* fx_thread_quanta_expired makes whatever thread is current yield.  One   *)
(* that has suspended itself and is still on the processor does not; one   *)
(* that has ended does.                                                    *)
QuantaExpired ==
  /\ slice_timer
  /\ slice_timer' = FALSE
  /\ \/ Yield(active) /\ UNCHANGED revived
     \/ suspend_count[active] > 0 /\ UNCHANGED << vars, revived >>
     \/ YieldRemoved(active) /\ revived' = revived \cup {active}
  /\ UNCHANGED << timeslice, timer_armed, slice_owner, sliced, alive >>

(* fx_thread_init_ex: threads begin without a time slice.                  *)
ThreadInit(i, p) ==
  /\ i \notin alive
  /\ ItemInit(i, p)
  /\ timeslice' = [timeslice EXCEPT ![i] = FALSE]
  /\ alive' = alive \cup {i}
  /\ revived' = revived \ {i}
  /\ UNCHANGED tickVars

(* fx_thread_set_params of a time slice: it counts from the next dispatch. *)
SetTimeslice(i, b) ==
  /\ i \in alive
  /\ timeslice' = [timeslice EXCEPT ![i] = b]
  /\ UNCHANGED << vars, tickVars, lifeVars >>

(* MUTANT: a thread is resumed whatever its state.                         *)
WakeUp_StateUnchecked(i) == ItemResume(i) /\ UNCHANGED sliceVars

(* fx_thread_resume, and what the callbacks of timers and interrupt        *)
(* handlers do to threads that wait; a thread that was terminated while it *)
(* was suspended is resumed by nobody.  The scheduler's own                *)
(* fx_sched_mark_resched_needed is not a service of threads.               *)
WakeUp(i) == i \in alive /\ ItemResume(i) /\ UNCHANGED sliceVars

(* fx_thread_set_params of a priority.                                     *)
SetPriority(i, p) == SetParams(i, p) /\ UNCHANGED sliceVars

(* fx_thread_exit_sync, of a thread that exits or is terminated, perhaps   *)
(* while it is suspended.                                                  *)
ExitSync(i) ==
  /\ \/ ItemRemove(i)
     \/ i \in alive /\ suspend_count[i] > 0 /\ UNCHANGED vars
  /\ alive' = alive \ {i}
  /\ revived' = revived \ {i}
  /\ UNCHANGED << timeslice, tickVars >>

(* fx_thread_suspend, and the waits of a thread.                           *)
Suspend(i) == ItemSuspend(i) /\ UNCHANGED sliceVars

(* fx_thread_yield.                                                        *)
ThreadYield(i) == Yield(i) /\ UNCHANGED sliceVars

SliceNext ==
  \/ Dispatch
  \/ QuantaExpired
  \/ \E i \in Item :
       \/ \E p \in UserPrio : ThreadInit(i, p) \/ SetPriority(i, p)
       \/ WakeUp(i) \/ ExitSync(i) \/ Suspend(i) \/ ThreadYield(i)
       \/ \E b \in Timeslice : SetTimeslice(i, b)

SliceSpec == SliceInit /\ [][SliceNext]_allVars

(* The software interrupt is taken when interrupts are enabled; ticks      *)
(* come, so a timer that stays in the list expires.                        *)
FairSlices == SliceSpec /\ WF_allVars(Dispatch) /\ WF_allVars(QuantaExpired)

-----------------------------------------------------------------------------
(* The variables of this module have their types, and IDLE, which must     *)
(* never yield, never has a time slice.                                    *)
SliceTypeOK ==
  /\ timeslice \in [Item -> BOOLEAN] /\ ~timeslice[Idle]
  /\ timer_armed \in BOOLEAN
  /\ slice_timer \in BOOLEAN
  /\ alive \subseteq Item \ {Idle}
  /\ slice_owner \in Item
  /\ sliced \in BOOLEAN
  /\ revived \subseteq Item \ {Idle}

(* The timer that runs was set for the thread that is on the processor:    *)
(* the callback makes whatever thread is current yield, and no thread may  *)
(* lose the processor, least of all IDLE, because of another one's slice.  *)
SliceOfActive ==
  slice_timer => timer_armed /\ slice_owner = active /\ active # Idle

(* "Timer should be set in case when next scheduled item has nonzero       *)
(* timeslice and there are pending ready threads at same priority level"   *)
(* (fx_thread_timeslice.h:92).  The code does not keep this: timer_armed   *)
(* may be stale.                                                           *)
DispatchSetsTimer ==
  [][Dispatch => slice_timer' = (timeslice[active'] /\ ~IsUnique(active'))]_allVars

(* The slice of the active thread has ended, and no other thread has been  *)
(* dispatched since.                                                       *)
SliceOver == timer_armed /\ ~slice_timer /\ slice_owner = active

(* What the code does keep: a thread that was dispatched with a time slice *)
(* and has peers has its timer running, wherever the peers came from and   *)
(* whatever boosts came and went without a reschedule.  The one exception  *)
(* is a thread that was picked again after its slice has ended.            *)
PeersShare ==
  ~resched_pending /\ sliced /\ ~IsUnique(active) => slice_timer \/ SliceOver

(* The exception has happened: the thread goes on without a timer although *)
(* it has a slice and peers.                                               *)
SliceMissed ==
  ~resched_pending /\ SliceOver /\ timeslice[active] /\ ~IsUnique(active)

(* A thread that has ended is in no queue of the scheduler, so that its    *)
(* memory may be used again, and no resume brings it back.  The exception  *)
(* is one whose slice timer expired between its end and its last dispatch. *)
EndedStaysOut ==
  \A i \in Item \ {Idle} : Ready(i) => i \in alive \cup revived

(* Round robin by time slices alone: if every thread gets a time slice     *)
(* before it is made ready, a thread that stays among the best gets the    *)
(* processor again and again, even if no thread ever yields or sleeps,     *)
(* unless slices are missed over and over.                                 *)
SlicedRoundRobin ==
  /\ [](\A i \in Item \ {Idle} : Ready(i) => timeslice[i])
  /\ <>[]~SliceMissed
  => \A i \in Item \ {Idle} :
       (/\ <>[]Best(i)
        /\ <>[][~\E p \in UserPrio : SetParams(i, p)]_allVars)
       => []<>(active = i)
=============================================================================
