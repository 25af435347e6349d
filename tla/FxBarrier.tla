----------------------------- MODULE FxBarrier -----------------------------
(***************************************************************************)
(* The barrier, sync_objects/fx_barrier.c, on the wait framework.  The key *)
(* that tells who opened it is data of its callers and is not modelled.    *)
(***************************************************************************)
EXTENDS FxWait

CONSTANTS
  Barr,         \* its waitable
  Barrier       \* barr->barrier, the number of threads that open it

ASSUME BarrierAssumption == Barr \in WaitQueue /\ Barrier \in Nat \ {0}

VARIABLES
  barr_valid,
  blocked,      \* barr->blocked
  withdrawn     \* arrivals since the barrier was open that wait no more

barrierVars == << barr_valid, blocked, withdrawn >>

(* fx_barrier_init.                                                        *)
BarrierInit(up) == barr_valid = up /\ blocked = 0 /\ withdrawn = 0

(* fx_barrier_wait and fx_barrier_timedwait, up to their critical section. *)
BarrierWait(t, c) == barr_valid /\ Call(t, Barr, c) /\ UNCHANGED barrierVars

IsLast == blocked + 1 = Barrier

(* MUTANT: the count of the next round begins with the thread that opened. *)
Open_CountKept(t) ==
  /\ blocked' = 1
  /\ withdrawn' = 0
  /\ Skip(t, "OK")
  /\ NotifyBlocks(Barr, "SATISFIED")
  /\ UNCHANGED << prio, restVars >>

Open(t) ==
  /\ blocked' = 0
  /\ withdrawn' = 0
  /\ Skip(t, "OK")
  /\ NotifyBlocks(Barr, "SATISFIED")
  /\ UNCHANGED << prio, restVars >>

(* fx_barrier_test_and_wait: the arrival counts, whatever becomes of the   *)
(* wait.                                                                   *)
BarrierTestAndWait(t) ==
  /\ Enters(t, Barr)
  /\ IF IsLast
     THEN Open(t)
     ELSE /\ Block(t)
          /\ blocked' = blocked + 1
          /\ withdrawn' = IF pc'[t] = "blocked" THEN withdrawn
                                                ELSE withdrawn + 1
  /\ UNCHANGED barr_valid

(* fx_barrier_timedwait with a zero timeout arrives and does not wait.     *)
BarrierTry(t) ==
  /\ barr_valid /\ TryCall(t)
  /\ IF IsLast
     THEN Open(t)
     ELSE /\ TryDone(t, "WAIT_TIMEOUT")
          /\ blocked' = blocked + 1
          /\ withdrawn' = withdrawn + 1
          /\ UNCHANGED prio
  /\ UNCHANGED barr_valid

(* fx_barrier_deinit, when no call is about to enter its critical section. *)
BarrierDeinit ==
  /\ barr_valid
  /\ \A t \in Thread : ~Enters(t, Barr)
  /\ barr_valid' = FALSE
  /\ NotifyAll(Barr, "DELETED")
  /\ UNCHANGED << prio, blocked, withdrawn >>

BarrierStep ==
  \/ \E t \in Thread :
       \/ \E c \in Canceller(t) : BarrierWait(t, c)
       \/ BarrierTestAndWait(t)
       \/ BarrierTry(t)
  \/ BarrierDeinit

(* A waiter leaves the queue: its wait timed out or was aborted and it     *)
(* runs again, or it is killed.                                            *)
BarrierWithdraw(t) ==
  /\ withdrawn' = IF Linked(wq[Barr], t) THEN withdrawn + 1 ELSE withdrawn
  /\ UNCHANGED << barr_valid, blocked >>

-----------------------------------------------------------------------------
(* The count is that of the arrivals since the barrier was open last: all  *)
(* of them still wait, but for those that withdrew, which the code does    *)
(* not take back.  So the barrier opens as soon as, and only if, the       *)
(* thread that completes the number arrives, and if no one withdrew then   *)
(* all the others wait at that moment and all of them are released.        *)
BarrierExact ==
  barr_valid =>
    /\ blocked = Len(wq[Barr]) + withdrawn
    /\ blocked < Barrier
=============================================================================
