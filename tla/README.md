# FX-RTOS lite: a TLA+ project

FX-RTOS lite is a small real-time kernel in C for microcontrollers with one
processor. Its sources are modular: a configuration under `src/cores/` picks
one implementation of each component under `src/components/`. This project
models the standard core (threads, priority queues, limited asynchronous calls,
unified interrupt levels) with all its synchronization primitives, the core of event
service routines, and the allocator, and checks them with TLC. Every safety property that
the passing runs check, the refinements included, is also proved with TLAPS, one of them
(`CeilingExact`) under a condition; liveness is left to TLC.

Paths below are relative to `src/components/nanokernel/` unless they start with
`src/`.

## 1. The system

### How execution works

Kernel code runs with interrupts disabled (`spl/unified/fx_spl.h`), so on one
processor **a critical section is atomic**, and an action of a model is one
critical section. What makes the kernel hard is what happens *between* critical
sections:

- a thread that calls a wait function has set its timer but has not entered the
  critical section that blocks it; a thread that was woken is ready but has not
  run, and its second wait block is still queued somewhere;
- timer ticks, callbacks of timers, interrupt handlers and all other threads act
  in between; services may be called from interrupt handlers (`fx_spl.h:10`);
- the dispatch software interrupt that changes the thread is requested in one
  critical section and taken when interrupts are enabled again; another interrupt
  may come first.

Ready threads may be preempted at every such point by any other, so the models
of waits let any ready thread take the next step; the models of the scheduler
say which one the kernel picks.

### Components

| component | state | operations | interacts with | correct if |
|---|---|---|---|---|
| Scheduler, `sched/up/fx_sched.c` | active item, reschedule flag, changes counter, per item: parameters, suspend count, timestamp and saved parameters of a boost | item init, remove, suspend, resume, set_params, yield, mark, get_next | container below, dispatch interrupt above | the active item is a best ready one unless a reschedule is pending; equals take turns |
| Container, `sched/sched_alg/mpq` | a queue per priority, two bitmap levels | add, remove, get | scheduler; `rtl/queue` | queues and both bitmap levels agree |
| Container, `sched/sched_alg/bitmap` | one item per priority, a bitmap | the same | scheduler of the asynchronous core | the same |
| Wait framework, `sync_fwk/up/fx_sync.c` | a queue of wait blocks per waitable, status of each block | wait start, notify one or all by policy, rollback | every synchronization object; threads | a block is queued exactly while its wait is in progress |
| Thread waits, `thread/kthread/fx_thread_wait.c` | two wait blocks per call, timer and its event | wait, timed wait, status of a wait | framework, timers, events | no wake-up is lost; the result says what happened |
| Thread life cycle, `fx_thread_api.c`, `fx_thread_sys.c` | thread state, completion event | init, exit, terminate, join, suspend, resume, sleep, delay, set and get parameters | all of the above | a thread that ended is nowhere queued; joiners are released once its stack is free |
| Time slices, `thread/roundrobin/enabled` | one timer, a flag that it is armed, a slice per thread | reset at a dispatch, expiry | scheduler, timers | the timer that runs is the running thread's; it runs if the thread has a slice and peers |
| Asynchronous calls, `thread/apc/limited` | termination request | post, mask | termination | the handler runs once, not while masked |
| Timers, `timer/lw` and `timer/ktimer` | tick counter, ordered list, timeout and period of each timer | set relative and absolute, cancel, tick | callbacks; waits and slices | a timer is called on its tick, the earliest first, over the wrap of the counter |
| Semaphore, `sync_objects/fx_sem.c` | counter | wait, timed wait, post by policy, reset, init, deinit | wait framework | tokens are conserved; nobody waits while there is one |
| Mutex, `fx_mutex.c` | owner, recursion count, saved priority, ceiling | acquire, timed, release by policy, deinit | framework, scheduler | one owner, who knows; the ceiling is applied and undone |
| Message queue, `fx_msgq_core.c`, `fx_msgq.c` | ring buffer, waitables of senders and receivers | front and back send, receive, timed, flush, deinit | framework | messages are conserved and keep their order |
| Condition variable, `fx_cond.c` | a waitable | wait, timed wait, signal by policy, broadcast, init, deinit | mutex, framework | no signal between the release of the mutex and the wait; the mutex is back after every outcome |
| Read-write lock, `fx_rwlock.c` | owner, number of readers, waitables of readers and writers | read and write lock, timed, unlock by policy, init, deinit | framework | writers exclude everybody; nobody waits who could have it |
| Barrier, `fx_barrier.c` | number of blocked threads | wait, timed wait, init, deinit | framework | opens for the arrivals of a round, all of them |
| Block pool, `fx_block_pool.c` | memory not yet cut, list of released blocks, count | alloc, timed, release, init, deinit | framework; frames of waiters | each block has one place |
| Event flags, `fx_ev_flags.c` | flags | wait for all or any, with or without consuming, timed, set, clear, init, deinit | framework; frames of waiters | nobody waits for flags that are set; the answer and the status agree |
| Event, `fx_event.c` | a state | set, reset, wait, init, deinit | framework, timers, threads | a waiter of a set event does not wait |
| Memory pool, `mem/fx_mem_pool.c` over `src/components/rtl/mem_pool` | lists of free blocks by two indices, bitmaps, headers in the memory | init, add memory, alloc, free | a lock | blocks neither overlap nor leak; free neighbours are merged |
| Event service routines, `esr/sw/fx_esr.c` | frames on one stack, the current and the active routine, level and message of each | init, deinit, activate, exit, raise and lower the level, dispatch | scheduler with the bitmap container, dispatch interrupt | frames nest; no ready routine waits for a lower one |
| Message queue of routines, `sync_objects/fx_msgq_esr.c` | ring of messages, the routines that listen | send, listen, flush, init, deinit | routines | a message that was accepted reaches one routine |
| Interrupt levels, debugging, traces, process and cleanup stubs, HAL, processor support, builds | | | | not kernel logic; see section 7 |

`PROJECT.json` lists all of them with their files, and the hazards of each at
the line where it bites. The hazards are what the properties are for.

## 2. Modules

| module | models | state and actions |
|---|---|---|
| `RtlQueue` | `rtl/queue` | a queue as a sequence; `Linked`, `Unlink` |
| `FxSchedAlg` | `sched_alg/mpq` | the container as a record of queues and bitmap levels; a word is the set of its bits |
| `FxSched` | `fx_sched.c` | one action per operation of an item, `GetNext` for the dispatch |
| `PrioritySched` | | what a preemptive priority scheduler promises |
| `FxTimeslice` | dispatch and time slices | extends `FxSched`; a dispatch is `GetNext` and the reset of the timer in one step |
| `FxWait` | `fx_sync.c`, `fx_thread_wait.c`, termination | the life of a wait; operators that objects build their handlers from |
| `FxSem`, `AbstractSem` | `fx_sem.c` | extends `FxWait`; refines the abstract counting semaphore |
| `FxMutex` | `fx_mutex.c` | extends `FxWait`; any number of mutexes |
| `FxCond` | `fx_cond.c` | extends `FxMutex`: a wait releases a mutex and acquires it again |
| `FxMsgq`, `AbstractMsgq` | `fx_msgq*.c` | extends `FxWait` with two waitables; refines a bounded sequence |
| `FxTimer`, `AbstractTimer` | `timer/lw` | the list, the counter and the tick handler; refines timers that count down without a counter that wraps |
| `FxRwlock`, `FxBarrier`, `FxBlockPool`, `FxEvFlags`, `FxEvent` | the source of that name | extend `FxWait`, each with its own variables |
| `FxThread` | `fx_thread_api.c`, `fx_thread_sys.c`, `fx_thread_apc.c` | extends `FxWait`: the end of a thread and who waits for it, suspension, sleep |
| `FxObjects` | | composes the six above: they share threads, their waits and their ends |
| `FxSchedBitmap` | `sched_alg/bitmap` | the container with one item per priority |
| `FxEsr` | `fx_esr.c`, `fx_msgq_esr.c` | the stack of frames, the dispatcher, the scheduler's calls for routines, and the queue that they listen to |
| `RtlMemPool` | `rtl_mem_pool.c` | one action per operation, built from one operator per function |
| `RtlQueueProofs`, `FxSchedProofs`, `FxWaitProofs`, `FxSemProofs`, `FxCondProofs`, `FxMsgqProofs`, `FxEsrProofs`, `FxObjectsProofs` | | theorems, section 5 |
| `MC*` | | instances for TLC |

Operators named `X_Something` under a comment that starts with MUTANT are
plausible bugs of the definition `X`: `PROJECT.json` pairs each property with one
that must break it. No specification uses them.

### From code to model

- **Scheduler.** `changes_counter` is compared only with the timestamp that the
  last boost took, so the pair is the Boolean `changed`. A counter that comes
  round to the same value, after exactly 2^32 changes within one boost, is
  outside the model. A thread's own critical section starts with no reschedule
  pending, one of an interrupt handler may not: `SetParams` has the first as its
  guard for a boost. A boost by a handler is in section 4.
- **Wait framework.** `pc` follows a thread through a wait: `running`, `armed`
  (in the call, before the critical section), `blocked` (from the critical section
  until it runs again, so a woken thread is `blocked` and `READY`), `returning`
  (the timer is not yet cancelled), `dead`. Wait blocks live in the frame of the
  call: `status` and `cancel_status` are the two of them. The event of a timed
  wait is named by its thread. Timed, abortable and plain waits differ in `cancel`.
- **Objects** compose `Call`, `Enters`, `Proceed`, `Block`, `NotifyOne`,
  `WaitBlockGet`, `NotifyAll` in the order the code calls the functions they stand
  for; `Wakeup`, `TimerExpire`, `Terminate` and the abort events come with the
  framework and are interleaved with everything.
- **Mutex and condition variable.** `held` and `own` are history variables: what each
  thread was told, and the priority it was given last. `Heir` is the waiter a release
  will choose; `GiveUp` is the release without its notification, so that `fx_cond_wait`
  can do both and block in the one critical section it has. `mutex`, `retaking` and
  `depth` are the frame of that call.
- **Read-write lock.** `locked` is what each thread was told. `kicking` are the writers
  between the wait that failed and the critical section that lets readers in
  (`KickReaders`); `intruded` remembers that this let readers in beside a writer (finding 1),
  so that `RwExclusion` can say what holds otherwise. `stranded` are the readers that the
  termination of the last writer in their way has left waiting (section 4): each by name,
  from that step until it waits anew, and `RwNoIdle` says of all others that a writer is in
  their way.
- **Barrier.** `withdrawn` counts the arrivals that wait no more.
- **Block pool, event flags.** `ptr` and `attr`, `prev` are in the frame of the call, which
  others write before the thread runs.
- **Threads.** `completion` and the sleep's event are waitables like any other. `leaving`
  is a thread that has ended and whose dispatch has not come: its stack is in use. A
  termination (`Kill`) is of a thread anywhere, also of the one on the processor, by itself or
  by a handler that has interrupted it: then the completion event is set and the thread is
  `leaving` at once. Until the dispatch, interrupts act, and no thread (`Dispatched`).
- **Service routines.** `stack` lists whose frames there are, the running one last; a frame
  is named by its position. An action is what runs between two points where an
  interrupt may come; `swi` is the pending dispatch. A routine that ends or listens has
  left its frame when the dispatcher starts, `virtual_frame` says where it goes on.
- **Allocator.** An address counts words. `header` maps the addresses of the blocks to what
  their headers say, and `prev_phys_block` is only read where the code may read it. `asked`
  is a history variable: the blocks given out, with the words asked for. An index past the
  arrays sets `outside`, and the operation does nothing else: what the code does there is
  undefined, and no property speaks of it but `IndexesInRange`. A chunk has no word in
  common with another; its owner would have to pass memory twice for that. The two macros that find the last bit set are external operators.
- **Timers.** `Tick` and `CallbackReturns` are the parts of `fx_tick_handler` between
  two callbacks; while `running` names a timer the handler is in its callback, and
  every service may be called. `ReadTicks` and `FinishSetRel` are the two critical
  sections of a relative set that ticks interrupt. `timeout` of a timer outside the
  list is reset, because the code writes it before it reads it.
- **Time slices.** The timer of the slice is one Boolean: that timers expire on time
  is what `FxTimer` shows. Between the end of a slice (`QuantaExpired`) and the dispatch
  everything may happen that callbacks of the same tick and interrupt handlers do. The
  thread that the callback makes yield may have suspended itself or have ended since: the
  second follows null links (`YieldRemoved`, section 4). `slice_owner` is the thread that the
  timer was set for, `sliced` whether the active thread had a slice when it was dispatched,
  `alive` are the threads that have not ended, `revived` those that were queued again after
  their end. `WakeUp` asks for `alive`, as `fx_thread_resume` asks for the state.

## 3. Runs

With two workers `semaphore` and `timeslice` take two to three minutes, `objects` two and
`mutex` one; the others take less.

| run | instance | shows |
|---|---|---|
| `scheduler` | 3 threads and IDLE, 4 priorities, words of 2 bits | `QueuesConsistent`, `NoLostResched`, refinement of `PrioritySched` (`PriorityScheduling`), and `RoundRobin` under fairness |
| `semaphore` | 2 threads, 2 priorities that change, one abort event, limit 1, both policies | the framework's `LinksConsistent`, `SleeperCanWake`, `WokenForReason`; `NoIdleToken`, `GrantOrder`; refinement of `AbstractSem` (`TokensConserved`); under fairness `TimedWaitReturns` and `NoStarvation` |
| `mutex` | 2 threads, 3 priorities, one mutex with the middle one as its ceiling and one without, or the first and a condition variable; recursion | `CeilingExact`, `OwnershipKnown`, `NoIdleMutex`; `NoSignalTooEarly`, `CondRestoresMutex` |
| `message_queue` | 2 threads, 2 messages, ring of 2, both ends | `NoIdleWaiters`; refinement of `AbstractMsgq` (`MessagesConserved`) |
| `objects` | 3 threads; a read-write lock, a barrier of 2, a pool of 2 blocks, a group of 2 flags, an event, or one another | `RwExclusion`, `BarrierExact`, `PoolConserved`, `EvfStatusAgrees`, `JoinSeesEnd`, `SleepEnds`, and of all of them `NobodyWaitsInVain` |
| `timers_slow_calls` | 2 timers, counter modulo 10, calls that ticks interrupt | refinement of `AbstractTimer` (`TimersOnTime`), and `TickEnds` |
| `timeslice` | 3 threads and IDLE, 2 priorities of theirs, slices that are set | `SliceOfActive`, `PeersShare`, `EndedStaysOut`, and `SlicedRoundRobin` under fairness |
| `esr` | 3 routines, the idle one, a queue of 1 | `FramesNest`, `NoLostPreemption`, `MessagesKept` |
| `heap` | 2 chunks of memory that are neighbours, 6 sizes | `HeapWellFormed`, `AllocationsDisjoint`, `GoodFit` |
| `rwlock_kick` | as `objects` | finding 1: `KickSparesOwner` fails |
| `heap_large` | as `heap`, a request near the largest size | finding 2: `IndexesInRange` fails |
| `slice_missed` | as `timeslice`, slices set and set to zero | finding 3: `DispatchSetsTimer` fails |

### Bounds and why they are enough

- *Scheduler*: with 2-bit words four priorities fill two words, so both levels of
  the bitmap are set, cleared and searched. Three user priorities are what a boost
  needs: the one before, the one after, and one between. Three threads are the
  active one and two equals, or one better and one worse.
- *Wait framework*: two threads are enough for two blocks in one queue and for a
  notification that races the timeout, abort or termination of the same wait,
  because posts, ticks, aborts and terminations come from outside the two. The
  proofs of section 5 cover any number.
- *Semaphore*: the limit 1 is reached, and a post at the limit lost, in every
  behaviour of interest; the proofs cover every limit.
- *Mutex and condition variable*: an owner and a waiter, a recursion depth of 1, so a wait
  may give back one of two locks only. `InUse` says which objects a behaviour uses;
  there is one mutex with a ceiling (section 4 says why). Abort events are left to the
  semaphore's runs: to these objects they are what a timeout is.
- *Message queue*: two places, so that head and tail wrap at different moments; two
  waiting senders occur and are released by a flush. Two messages tell order apart.
- *Objects*: one object is in use in a behaviour, since the primitives meet only in the
  waits of their threads. Three threads are a writer that owns, one that gives up and
  a reader behind both; a barrier of two with a third that withdraws; two blocks and a
  thread that waits; a consumer, a thread that asks for all flags, and one that sets
  them; one that joins, one that ends, one that kills it. `MaxReaders` leaves room for
  the count to go wrong by one more than there are threads; `MaxAsking` = 2 calls on the
  flags at a time, by any two threads. Priorities are equal: selection by priority is
  checked by `semaphore`.
- *Timers*: modulo 10 the counter wraps many times within a run; `TimerAssumption`
  keeps all timeouts within half its range, as the signed comparison needs.
  `MaxLate` = 1 bounds the ticks that pass while a call is interrupted. Two timers are
  enough for a list in which one is inserted before or behind another, and for callbacks
  that set and cancel their own and the other; longer lists are left to the proof of the
  same refinement (`ImplementsTimers`), which is for any number of timers.
- *Time slices*: a thread, a peer and a third that is better, worse or another peer. Threads
  begin without a slice and get one; that a slice is set to zero again is in `slice_missed`
  and in the proofs, which hold for both (`TimesliceAssumption`), but not in `timeslice`,
  whose liveness property assumes slices.
- *Service routines*: three routines of three levels nest three frames above the idle
  one; one queued message makes the queue full. Messages are told apart while they are
  about: `Msg` comes by the queue, `Order` by `fx_esr_activate`.
- *Allocator*: four classes per power of two and blocks of up to 32 words, so that both
  indices take several values and a split may leave a block of another class. The two
  chunks are as far apart as two blocks may be without being neighbours. The sizes are
  the smallest, several that split a chunk and meet again, and one that is refused.
- *Names*: `MaxCount`, `ItemsMax`, `PRIO_NUM`, `Barrier`, `BlkNum`, `FL_INDEX_MAX` and
  `TickMod` stand for constants of the code; `MaxLocks`, `MaxReaders`, `MaxAsking`,
  `InUse`, `MaxLate`, `Chunk` and `Request` bound the model.

A thread's priority does not change by `fx_thread_set_params` in `FxMutex` while it
owns a mutex with a ceiling: the code would lift the ceiling and the release would
undo the call, and no document says which should win.

### Fairness

Only liveness properties use it.

- `WF(GetNext)`, `WF(Dispatch)`: the software interrupt is taken once interrupts are
  enabled, and critical sections are finite.
- `WF(QuantaExpired)`, `WF(Tick)`: the tick is periodic, so a timer that stays in
  the list expires.
- `WF(CallbackReturns)`: callbacks are finite. `TickEnds` adds that they do not go
  on setting timers that are due at once: a callback that does keeps the handler,
  and the processor, for ever.
- `WF(ThreadStep)`: a ready thread gets the processor. That is the scheduler's
  `RoundRobin` for equals; for a worse thread it assumes that better ones block.
- `NoStarvation` has `WF(Post("FIFO"))` as its premise: somebody goes on posting.
- `RoundRobin` and `SlicedRoundRobin` are about an item that stays among the best and
  whose parameters are not set over and over. The second assumes that threads have
  slices while they are ready, and that slices are not missed for ever (`SliceMissed`,
  finding 3): a thread that has missed its slice goes on until something else reschedules
  it. It uses no yield of a thread's own.

## 4. Findings and divergences

Found by a run:

1. **A writer that gives up lets readers in beside the owner** (`rwlock_kick`,
   `fx_rwlock.c:329`). The comment of `fx_rwlock_kick_readers` says that readers are
   unlocked if the lock is not blocked by a writer; the code looks only whether writers
   wait. The reader's unlock then finds an owner and is not counted, so the count of
   readers stays positive and no writer gets the lock again. `RwExclusion` states what
   holds as long as this has not happened.
2. **A size that is accepted is looked for outside the lists** (`heap_large`,
   `src/components/rtl/mem_pool/rtl_mem_pool.c:293`). A request that rounds up to the
   largest size has a first index of `FL_INDEX_COUNT`, one past the end of both arrays.
3. **A slice timer that expires and is not set again** (`slice_missed`,
   `thread/roundrobin/enabled/fx_thread_timeslice.h:139`). The comment at line 92 says that
   the timer is set if the thread that is scheduled has a slice and peers; the expiry does
   not clear `timer_armed`, by which the code decides. If other callbacks of the tick or
   interrupts change the queues before the software interrupt, so that the thread whose slice
   has ended is picked again, it goes on without a timer. `PeersShare` states what holds:
   this is the only way to go on without a timer beside peers.

Part of the models; the properties name them as exceptions:

- **Readers that a terminated writer leaves behind** (`fx_rwlock.c:367`). Readers queue
  behind a writer that waits. Its own call lets them in if the wait fails
  (`fx_rwlock.c:313`), but `fx_thread_terminate` only rolls the wait back
  (`thread/kthread/fx_thread_sys.c:135`). If that was the last writer in their way, they sleep
  although readers alone have the lock, or nobody, until another writer unlocks it or gives
  up.
  `RwNoIdle` excepts exactly these readers (`stranded`).
- **The completion event of a thread on the processor** (`thread/apc/limited/fx_thread_apc.c:90`).
  The comment in `fx_dispatch_handler` (`thread/kthread/fx_thread_sys.c:247`) says that the
  event is set only when the thread is no longer used by anyone, by the scheduler. A
  termination sets it by hand, and if the thread is on the processor, before the dispatch
  that takes it away. On one processor no harm comes of it: the threads that join run after
  that dispatch. `JoinSeesEnd` therefore asks of whoever was told by a join, not of the event
  alone, that the thread is gone.
- **A slice timer that outlives its thread** (`thread/kthread/fx_thread_sys.c:93`). A thread
  ends while its slice runs; a tick before the dispatch makes the removed item yield, and
  removing it from a queue it is not in follows null links. What that does is undefined;
  `YieldRemoved` takes the outcome of a processor on which the two writes hit nothing that
  matters: the rest of the call queues the thread, and it runs after its end.
  `EndedStaysOut` excepts exactly these threads (`revived`).

Met while modelling; the models keep out of them by a guard or a bound, and none of
the properties above is claimed for them:

- **A boost from an interrupt handler loses a reschedule** (`sched/up/fx_sched.c:182`).
  `fx_sched_item_set_params` records the state of the container when it boosts the
  active item, without asking whether a reschedule is pending. If a handler resumes a
  better thread and then boosts the one it interrupted above it, the return to the old
  priority finds an unchanged counter and requests nothing.
- **Releasing mutexes out of order loses a ceiling** (`fx_mutex.c:351`). The release
  restores what was saved when *this* mutex was taken, while another with a ceiling is
  still owned; `fx_mutex.c:124` promises the ceiling while the mutex is acquired.
- **The end of a thread that has ended** (`thread/kthread/fx_thread_api.c:182`). The
  termination of a thread that ended by itself removes its item from the scheduler again, and
  `fx_thread_set_params` of a priority (`thread/kthread/fx_thread_api.c:379`) of one that has
  ended takes it from a queue that it is not in: both follow null links.
- **The count of a barrier** (`fx_barrier.c:54`) is not taken back by an arrival that
  withdraws: the barrier opens early. `BarrierExact` says by how much. A wait with a
  timeout that fails leaves the caller's key as it was.
- **The policy of a block pool** is not set by `fx_block_pool_init`; the waiter that a
  release selects is the one the memory says.
- **Routines.** A level that was raised is not kept when a routine that preempted it ends
  (`esr/sw/fx_esr.c:274` and `:392`). A message left from an earlier activation makes
  `fx_esr_activate` of a listening routine fail, or start it with the old message. `FxEsr`
  models both; `NoLostPreemption` therefore speaks of routines that have no frame yet,
  since one that was interrupted at a raised level may wait below a worse one. A routine
  that ends at a level that it raised keeps the level, and `fx_esr_deinit` of a routine
  that listens leaves its wait block in the queue: `FxEsr` has routines end and listen at
  their own level, and destroys those that do neither.
- **Slices under a better thread** (`fx_thread_timeslice.h:104`). A slice starts anew at
  every dispatch, so a better thread that runs often enough keeps equals apart for ever.
  `SlicedRoundRobin` assumes that it stops.

## 5. Proofs

Eight modules hold theorems; every obligation is checked. They hold for all
constants that satisfy the assumptions named in the modules (`AlgAssumption`,
`IdleAssumption`, `TimesliceAssumption`, `TimerAssumption`, `WaitAssumption`, `SemAssumption`,
`MutexAssumption`, `CondAssumption`, `MsgqAssumption`, `EsrAssumption`, `RwlockAssumption`,
`BarrierAssumption`, `PoolAssumption`, `EvFlagsAssumption`, `EventAssumption`,
`ThreadAssumption`, `ObjectsAssumption`, `MemPoolAssumption`): any set of threads,
routines, mutexes and ceilings, any number of priorities, width of a word, limit of the
counter, depth of recursion, length of a queue, number of blocks or set of flags, any chunks
of memory, requests and numbers of lists. What the
assumptions ask beyond the types is that `NoObject`, which a thread that waits for nothing
waits for, is no wait queue, that priorities and levels are numbers within the container, and
that timers are set less than half the range of the counter ahead (`TimerAssumption`), beyond
which the code's comparison of timeouts is wrong, and that chunks share no word and there are
two lists at least per power of two (`MemPoolAssumption`): with `SL_INDEX_COUNT_LOG2` = 0
the smallest block, of 3 words, is in a class that starts at 2, so that 2 is reported as
available, raised to 3 and looked for in the class after it. The code's default is 4.

- `RtlQueueProofs`: appending to and unlinking from a queue without duplicates; the
  facts everything else cites; and `LeastElement`, which stands in for induction in the proofs
  about searches and loops.
- `FxSchedProofs` speaks of the parts that no thread waits in: the scheduler with slices, the
  timers, and the allocator.
  `AddProperties`, `RemoveProperties` and `GetProperties` say what the
  container does to queues and bitmap, arithmetic of the two levels included.
  The inductive invariant `IInv` is the conjunction of `TypeOK`, `QueuesConsistent`,
  `BitmapConsistent`, `NoLostResched` and `BoostWindowEmpty`. `NoLostResched` is
  not inductive alone: an un-boost skips the reschedule, and that is right only
  because nothing ready lies in the window of the boost, which holds only while the
  counter is unchanged. Theorems: `TypeCorrect`, `ContainerConsistent`,
  `ReschedNotLost`, and `ImplementsPriorityScheduling`, the refinement. For slices three
  invariants are added. `SliceInv`: a timer that is marked armed was set for the active
  thread, which is not IDLE, since only a dispatch changes either. `TimedInv`: an active
  thread that was dispatched with a slice is marked armed or alone in its queue, unless a
  reschedule is pending; and the same of the queue that it returns to when a boost is undone
  without a reschedule, which is why it needs `IInv`. With these, `EndedStaysOut` is
  inductive (`EndedInv`). Theorems: `SliceHasOwner`, `PeersAreTimed`,
  `EndedThreadsStayOut`. For timers, `Ahead` is the signed distance of two values of the
  counter; its lemmas (`AheadOfSet`, `AheadOfTick`, `Compares`) say that it adds up, and that
  the code's comparison is right for values less than half the range apart. The inductive
  invariant (`TimerIInv`) is that the list is in the order of the ticks left and that its
  timers are that near (`Near`): a tick, which finds them `MaxLate` late, makes them later by
  one until its callbacks have returned, and a periodic timer that is late returns to the
  list as late as it was plus its period. `InsertKeepsOrder` is the loop of
  `_fx_timer_insert`, `ScanKeepsTime` a turn of the handler's. Theorem: `ImplementsTimers`,
  the refinement.

  For the allocator the inductive invariant is `PoolInv`: `WellFormed` of the headers and the
  lists, and that the used blocks are those that were given out, each as large as was asked
  for. `WellFormed` says of the headers (`Shape`) that blocks follow one another within a
  chunk up to one of size 0 and that nothing lies inside a block, (`Flags`) that what each says of the
  one before is true, and (`NoTwoFree`) that no neighbours are both free; and of the lists
  (`BlocksListed`, `BitsAgree`) that each free block is in that of its class and the bits show
  it. `HeapWellFormed` and `AllocationsDisjoint` are not inductive alone: that no two blocks
  overlap after a merge or a split needs the order of the headers, which neither states, and
  where `prev_phys_block` leads needs `Flags`. An operation goes through states in which
  this is not so, so `WellFormed` has a parameter: the blocks that are free, in no list yet,
  and may have free neighbours. Each function of the code has one lemma about the headers
  alone (`HeapAbsorb`, `HeapSplit`, `HeapExtend`, `HeapMarkFree`, `HeapMarkUsed`), one that its
  writes, in their order, amount to that (`AbsorbProperties`, `TrimmedProperties`,
  `GrownProperties`, ...), and one that says which blocks it adds to the parameter or takes from
  it (`MergePrevKeeps`, `MergeNextKeeps`, `TrimFreeKeeps`, ...); `AddMemKeeps`, `AllocKeeps` and
  `FreeKeeps` put them together. What the indices of the lists mean is arithmetic of powers
  of two: `Pow2Def` shows that the recursion has a solution, `ClassBounds` that
  `mapping_insert` names the interval of sizes (`Low`, `Width`) that a size lies in,
  `ClassesOrdered` that the intervals follow one another, `SearchBounds` that
  `mapping_search` names the first one with nothing too small in it, and `SearchFinds` that
  the two bitmaps lead to the first list from there on that has a block. Theorems:
  `PoolInvariant`, `AllocationsStayDisjoint`, `HeapStaysWellFormed`, `FitStaysGood`, and
  `SizesStayInRange`, which delimits finding 2: sizes that `SizesInRange` describes
  never lead past the arrays.
- `FxWaitProofs`: `WaitInv`, the conjunction of the framework's invariants, is kept
  by each operator that objects use (`Call`, `Proceed`, `Block`, `NotifyOne`,
  `NotifyAll`, `TryDone`) and by every step of the framework itself. Objects cite
  these lemmas; none repeats them. The parts need each other: a sleeper is
  linked only if links follow the status, and its timer runs only if no other wait
  could have cancelled it.
- `FxSemProofs`: with `NoIdleToken` added the invariant is inductive for the
  semaphore. Theorems: `TypeCorrect`, `QueuesConsistent`, `NoLostWakeup`,
  `NoSpuriousWakeup`, `NoStrayTimer`, `NoTokenIdle`, `DestructorReleasesAll`,
  `WaitersInOrder` and `ImplementsSemaphore`, the refinement.
- `FxCondProofs`: the mutexes and the condition variable. The inductive invariant is
  `WaitInv`, the types, `FreeIsIdle` (a free mutex is not locked and has no waiters) and, for
  each thread that is alive, `Sound`: where it can be in a call of `fx_cond_wait` (`InCall`),
  how often it has the mutex there (`DepthKnown`) and of each mutex that it was told what it
  has (`Knows`). The mutex is restored because the second acquisition is by a wait that
  nothing can cancel, whose wait block can only end satisfied or, with the mutex, destroyed;
  so the parts need `WokenForReason`. A release is first shown to be `GiveUp` with its heir
  and the notification of it (`ReleaseGivesUp`), so that the three places that release share
  one lemma. Theorems: `TypeCorrect`, `NobodyWaitsForFree`, `OwnersKnow`,
  `SignalsNotTooEarly`, `MutexRestored`. For ceilings, `CeilingsHold` proves
  `CeilingExact` of the behaviours in which no thread is given two mutexes with ceilings at once
  (`OneCeilingEach`). The condition cannot be left out: a release restores what was saved when
  that mutex was taken (section 4). `OneCeilingHolds` shows that it is met when at most
  one mutex has a ceiling.
- `FxMsgqProofs`: the inductive invariant is `WaitInv`, the types with the ring's arithmetic
  (`TypeOK`: head, tail and number of items agree) and `NoIdleWaiters`. `IndicesAgree`,
  `PutMsgRing` and `TakenRing` are the arithmetic, for every capacity. `ReleaseInvariant` is
  what a hand-over does to the waits. The loop of the flush is a function on rounds;
  `RefillLoop` shows by a smallest counterexample that afterwards nobody waits or the ring is
  full. The refinement reads the ring as a sequence (`ContentsSeq`, `PutMsgContents`,
  `TakenContents`), and the flush as sends of the senders it releases in the order in which
  the rounds release them (`FlushOrder`), which is the order that the abstract queue is free
  to choose. It needs `LettersKept`: a thread in a call of send has a message in its
  frame. Theorems: `TypeCorrect`, `NobodyWaitsIdly`, `NoLostWakeup`, `ImplementsQueue`, the
  refinement.
- `FxEsrProofs`: `FramesNest` speaks of moments without a pending dispatch; the inductive
  invariant also covers the others. `FramesOK` says that the frames up to the one that the
  dispatcher starts from (`Base`) are those of the active routines, in the order of their
  levels, all ready, each with the position it returns to; `SchedOK` that the container has
  the ready routines and the scheduler's active one is the best of them unless a dispatch is
  pending; `LevelsOK` that levels are only raised, by routines with a frame. If the best
  routine has a frame it is therefore the last (`BestOnTop`), so that going back to it cuts
  the stack at `Base`. For messages, `MsgInv` says that a message is in one place only
  (`InNoTwoPlaces`: the queue or one routine), that an accepted one is in the queue or with a
  routine that will be started with it (`InSomePlace`), and that a routine which listens has
  none that a send could overwrite, and has left its frame (`ListenersReady`). One lemma per action keeps it. Theorems: `FramesAlwaysNest`,
  `NoPreemptionLost`, `MessagesAreKept`.
- `FxObjectsProofs`: a behaviour of `FxObjects` uses one primitive and the others stay as
  they were. The inductive invariant is one of six, chosen by the primitive in use: `WaitInv`,
  threads wait for nothing but its waitables (`Only`), the others are idle, and what the
  primitive needs. That is, for the lock, who counts as a reader or as the owner, and what a
  frame between a failed wait and the kick may be; for the pool, the one place that each
  block has (free, with a user, or in the frame of a receiver that has been chosen and has not
  run); for the flags, what a frame holds while its status says that it was released; for
  threads, that one that has ended waits for nothing and nothing refers to it, before and
  after its dispatch, that one without its event is on its way there, and that no join
  returns in between (`Joined`). Steps of the framework keep each part because they only end waits.
  Theorems: `InductiveInvariant`, `WaitsHold`, `NobodyIsForgotten`, `LockExcludes`,
  `BarrierCounts`, `BlocksConserved`, `FlagsAgree`, `JoinIsSafe`, `SleepsEnd`.

**Only model-checked**: liveness (`RoundRobin`, `SlicedRoundRobin`, `TimedWaitReturns`,
`NoStarvation`, `TickEnds`), which is beyond the prover, and the three properties that the code
does not have (section 4). One of them is `IndexesInRange`, which `SizesStayInRange` proves
of the sizes that it names, as `CeilingsHold` proves `CeilingExact` under its condition.

## 6. Checking it

In this directory, for the module and the configuration of a run:

    tlc -workers 2 -config MCFxSem.cfg MCFxSem
    tlapm FxSemProofs.tla

## 7. Not modelled

- **HAL, processor support**: assembly and register frames. The models take their contract:
  interrupts are disabled in critical sections, and the dispatch interrupt comes
  after other pending ones. `hw_cpu_ctz` is an operator.
- **Interrupt levels, debugging, traces, process and cleanup stubs**: macros without state in
  this configuration. Object validity is a flag where users of an object read it.
- **Exceptions of service routines**: not implemented in the source.
- **Uninitialised memory**: `fx_timer_internal_init`, `fx_sync_waiter_init` and
  `fx_rwlock_init` leave fields as they were in memory; the models start from objects whose
  memory was zero.
- `fx_timer_set_tick_count`, which moves the counter under armed timers, and
  `fx_timer_deinit` of an armed timer: nothing says what should happen.
- **The keys of a barrier**: data of its callers.
- **Builds**: makefiles and linker maps that select components.

What would extend the project next: `fx_timer_set_tick_count`, once somebody says what it
promises to timers that are set, and boosts by interrupt handlers (section 4).
