------------------------------ MODULE FxRwlock ------------------------------
(***************************************************************************)
(* The read-write lock, sync_objects/fx_rwlock.c, on the wait framework.   *)
(* Readers and writers wait in queues of their own; a waiting writer keeps *)
(* new readers out.                                                        *)
(***************************************************************************)
EXTENDS FxWait

CONSTANTS
  RdWtbl, WrWtbl,   \* its two waitables
  NoWriter,         \* no thread
  RwPolicy,         \* passed to fx_rwlock_unlock_with_policy
  MaxReaders        \* a bound of the model, on the count of readers

ASSUME RwlockAssumption ==
  /\ {RdWtbl, WrWtbl} \subseteq WaitQueue
  /\ RdWtbl # WrWtbl
  /\ NoWriter \notin Thread
  /\ RwPolicy \subseteq {"FIFO", "PRIO"}
  /\ MaxReaders \in Nat

VARIABLES
  rw_valid,     \* initialised and not yet destroyed
  rw_owner,     \* the writer that has the lock
  readers,      \* the number of readers that have it
  kicking,      \* threads in a call of a writer whose wait has failed
  locked,       \* what each thread was told that it has
  intruded,     \* readers were let in while a writer had the lock
  stranded      \* history: readers that the termination of the last
                \* writer in their way has left waiting

rwlockVars == << rw_valid, rw_owner, readers, kicking, locked, intruded,
                 stranded >>

(* fx_rwlock_init; it leaves the owner and the count as they are in memory *)
(* that must be zero.                                                      *)
RwlockInit(up) ==
  /\ rw_valid = up
  /\ rw_owner = NoWriter
  /\ readers = 0
  /\ kicking = {}
  /\ locked = [t \in Thread |-> "none"]
  /\ intruded = FALSE
  /\ stranded = {}

Told(t, how) == locked' = [locked EXCEPT ![t] = how]

(* The thread runs, is in no call, and does not have the lock.             *)
MayAsk(t) == rw_valid /\ locked[t] = "none" /\ t \notin kicking

(* Readers that were let in while a writer had the lock are not counted    *)
(* out again.                                                              *)
Bounded == readers + Cardinality(Thread) <= MaxReaders \/ ~intruded

(* fx_rwlock_rd_lock, fx_rwlock_rd_timedlock, fx_rwlock_wr_lock and        *)
(* fx_rwlock_wr_timedlock, up to their critical section.  A thread that    *)
(* has the lock does not ask for it again: neither kind is recursive.      *)
RwLock(t, q, c) ==
  /\ MayAsk(t)
  /\ q \in {RdWtbl, WrWtbl}
  /\ Bounded
  /\ Call(t, q, c)
  /\ UNCHANGED rwlockVars

MayRead == rw_owner = NoWriter /\ wq[WrWtbl] = << >>
MayWrite == rw_owner = NoWriter /\ readers = 0

TakeRead(t) ==
  Told(t, "read") /\ readers' = readers + 1 /\ UNCHANGED rw_owner

TakeWrite(t) ==
  Told(t, "write") /\ rw_owner' = t /\ UNCHANGED readers

(* The wait of a writer has failed if it is over with another result.      *)
KickIfFailed(t) ==
  kicking' = IF result'[t] # "OK" THEN kicking \cup {t} ELSE kicking

(* fx_rwlock_test_and_wait_reader and fx_rwlock_test_and_wait_writer.      *)
RdTestAndWait(t) ==
  /\ Enters(t, RdWtbl)
  /\ IF MayRead
     THEN TakeRead(t) /\ Proceed(t) /\ UNCHANGED prio
     ELSE Block(t) /\ UNCHANGED << locked, readers, rw_owner >>
  /\ stranded' = stranded \ {t}
  /\ UNCHANGED << rw_valid, kicking, intruded >>

WrTestAndWait(t) ==
  /\ Enters(t, WrWtbl)
  /\ IF MayWrite
     THEN TakeWrite(t) /\ Proceed(t) /\ UNCHANGED prio
     ELSE Block(t) /\ UNCHANGED << locked, readers, rw_owner >>
  /\ KickIfFailed(t)
  /\ UNCHANGED << rw_valid, intruded, stranded >>

(* The timed calls with a zero timeout.                                    *)
TryRead(t) ==
  /\ MayAsk(t) /\ Bounded /\ TryCall(t)
  /\ IF MayRead
     THEN TakeRead(t) /\ TryDone(t, "OK")
     ELSE TryDone(t, "WAIT_TIMEOUT") /\ UNCHANGED << locked, readers, rw_owner >>
  /\ UNCHANGED << prio, rw_valid, kicking, intruded, stranded >>

TryWrite(t) ==
  /\ MayAsk(t) /\ Bounded /\ TryCall(t)
  /\ IF MayWrite
     THEN TakeWrite(t) /\ TryDone(t, "OK")
     ELSE TryDone(t, "WAIT_TIMEOUT") /\ UNCHANGED << locked, readers, rw_owner >>
  /\ KickIfFailed(t)
  /\ UNCHANGED << prio, rw_valid, intruded, stranded >>

(* The writer w has the lock before it is notified.                        *)
HandToWriter(policy) ==
  LET w == WaitBlockGet(WrWtbl, policy)
  IN  /\ rw_owner' = w
      /\ NotifyOne(WrWtbl, w, "SATISFIED")

(* All queued readers get the lock: no writer can begin to wait meanwhile. *)
LetReadersIn ==
  /\ readers' = readers + Len(wq[RdWtbl])
  /\ NotifyAll(RdWtbl, "SATISFIED")

NotifyNone == UNCHANGED << pc, state, wq, status, result, restVars >>

UnlockByWriter(t, policy) ==
  /\ rw_owner = t
  /\ \/ /\ wq[WrWtbl] # << >>
        /\ HandToWriter(policy)
        /\ UNCHANGED readers
     \/ /\ wq[WrWtbl] = << >>
        /\ rw_owner' = NoWriter
        /\ LetReadersIn

(* MUTANT: every reader that leaves hands the lock to a writer.            *)
UnlockByReader_NotLast(t, policy) ==
  /\ rw_owner # t
  /\ IF rw_owner = NoWriter /\ readers > 0
     THEN /\ readers' = readers - 1
          /\ IF wq[WrWtbl] # << >>
             THEN HandToWriter(policy)
             ELSE NotifyNone /\ UNCHANGED rw_owner
     ELSE NotifyNone /\ UNCHANGED << readers, rw_owner >>

(* The last reader hands the lock to a writer.                             *)
UnlockByReader(t, policy) ==
  /\ rw_owner # t
  /\ IF rw_owner = NoWriter /\ readers > 0
     THEN /\ readers' = readers - 1
          /\ IF readers' = 0 /\ wq[WrWtbl] # << >>
             THEN HandToWriter(policy)
             ELSE NotifyNone /\ UNCHANGED rw_owner
     ELSE NotifyNone /\ UNCHANGED << readers, rw_owner >>

(* fx_rwlock_unlock and fx_rwlock_unlock_with_policy, by a thread that has *)
(* the lock.                                                               *)
RwUnlock(t, policy) ==
  /\ rw_valid /\ locked[t] # "none"
  /\ pc[t] = "running" /\ state[t] = "READY"
  /\ UnlockByWriter(t, policy) \/ UnlockByReader(t, policy)
  /\ Told(t, "none")
  /\ UNCHANGED << prio, rw_valid, kicking, intruded, stranded >>

(* MUTANT: a writer that gives up lets nobody in.                          *)
KickReaders_Never(t) ==
  /\ t \in kicking /\ pc[t] = "running" /\ state[t] = "READY"
  /\ kicking' = kicking \ {t}
  /\ UNCHANGED << waitVars, readers, rw_valid, rw_owner, locked, intruded,
                  stranded >>

(* fx_rwlock_kick_readers, the last critical section of a writer's call    *)
(* that has failed.  It does not look whether a writer has the lock.       *)
KickReaders(t) ==
  /\ t \in kicking /\ pc[t] = "running" /\ state[t] = "READY"
  /\ kicking' = kicking \ {t}
  /\ IF wq[RdWtbl] # << >> /\ wq[WrWtbl] = << >>
     THEN LetReadersIn /\ intruded' = (intruded \/ rw_owner # NoWriter)
     ELSE NotifyNone /\ UNCHANGED << readers, intruded >>
  /\ UNCHANGED << prio, rw_valid, rw_owner, locked, stranded >>

(* fx_rwlock_deinit, when no call is about to enter its critical section.  *)
RwDeinit ==
  /\ rw_valid
  /\ \A t \in Thread : ~Enters(t, RdWtbl) /\ ~Enters(t, WrWtbl)
  /\ rw_valid' = FALSE
  /\ LET S == Waiters(RdWtbl) \cup Waiters(WrWtbl)
     IN  /\ wq' = [wq EXCEPT ![RdWtbl] = << >>, ![WrWtbl] = << >>]
         /\ status' = [t \in Thread |-> IF t \in S THEN "DELETED"
                                                   ELSE status[t]]
         /\ state' = [t \in Thread |-> IF t \in S THEN "READY" ELSE state[t]]
  /\ UNCHANGED << pc, prio, result, restVars, readers, rw_owner, kicking,
                  locked, intruded, stranded >>

RwStep ==
  \/ \E t \in Thread :
       \/ \E q \in {RdWtbl, WrWtbl}, c \in Canceller(t) :
            RwLock(t, q, c)
       \/ RdTestAndWait(t) \/ WrTestAndWait(t)
       \/ TryRead(t) \/ TryWrite(t)
       \/ \E policy \in RwPolicy : RwUnlock(t, policy)
       \/ KickReaders(t)
  \/ RwDeinit

-----------------------------------------------------------------------------
(* What a step of the wait framework means to the lock.                    *)

Chosen(t, q) ==
  pc[t] = "blocked" /\ object[t] = q /\ status[t] = "SATISFIED"

ToldAsChosen(t) ==
  locked' = IF Chosen(t, RdWtbl) THEN [locked EXCEPT ![t] = "read"]
            ELSE IF Chosen(t, WrWtbl) THEN [locked EXCEPT ![t] = "write"]
            ELSE locked

(* The woken thread learns the result of its wait.                         *)
RwWakeup(t) ==
  /\ ToldAsChosen(t)
  /\ IF object[t] = WrWtbl THEN KickIfFailed(t) ELSE UNCHANGED kicking
  /\ UNCHANGED << rw_valid, rw_owner, readers, intruded, stranded >>

(* A thread that is killed keeps what it had or was about to be told of.   *)
(* A writer that waits, or has given up, does not let the readers in that  *)
(* wait because of it.                                                     *)
RwKill(t) ==
  /\ ToldAsChosen(t)
  /\ kicking' = kicking \ {t}
  /\ stranded' = IF rw_owner = NoWriter /\ kicking \cup Waiters(WrWtbl) = {t}
                 THEN stranded \cup Waiters(RdWtbl) ELSE stranded
  /\ UNCHANGED << rw_valid, rw_owner, readers, intruded >>

-----------------------------------------------------------------------------
Has(t, q, how) == locked[t] = how \/ Chosen(t, q)

(* Unless a writer that gave up has let readers in, the lock belongs to    *)
(* those who were told so, or have been chosen and not run yet, and to no  *)
(* one else: one writer or some readers.  fx_rwlock_unlock relies on it to *)
(* tell what kind of lock the caller has.                                  *)
RwExclusion ==
  ~intruded =>
    /\ \A t \in Thread : Has(t, WrWtbl, "write") <=> rw_owner = t
    /\ readers = Cardinality({t \in Thread : Has(t, RdWtbl, "read")})
    /\ rw_owner # NoWriter => readers = 0

(* No one waits for a lock that would be granted: a waiting reader has a   *)
(* writer in its way, one that has the lock, waits, or has given up and is *)
(* about to let it in; a waiting writer, someone that has the lock.  The   *)
(* exception is a reader that waits because of a writer that waited, or    *)
(* had given up, and was then terminated, the last in the reader's way:    *)
(* terminations let nobody in, and it sleeps on although nobody writes.    *)
RwNoIdle ==
  /\ wq[WrWtbl] # << >> => rw_owner # NoWriter \/ readers > 0
  /\ \A t \in Waiters(RdWtbl) \ stranded :
       rw_owner # NoWriter \/ wq[WrWtbl] # << >> \/ kicking # {}

(* "blocked readers should be unlocked if rwlock is not blocked by writer" *)
(* (fx_rwlock.c:317): a writer that gives up lets no reader in while       *)
(* another writer has the lock.                                            *)
KickSparesOwner ==
  [][\A t \in Thread : KickReaders(t) /\ rw_owner # NoWriter
                         => UNCHANGED readers]_<< waitVars, rwlockVars >>
=============================================================================
