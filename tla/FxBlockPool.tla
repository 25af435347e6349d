---------------------------- MODULE FxBlockPool ----------------------------
(***************************************************************************)
(* The pool of blocks of equal size, sync_objects/fx_block_pool.c, on the  *)
(* wait framework.  Blocks are numbered in the order in which they are cut *)
(* from the memory of the pool.                                            *)
(***************************************************************************)
EXTENDS FxWait

CONSTANTS
  Pool,         \* its waitable
  BlkNum        \* number of blocks in the memory: sz / block_full_sz

ASSUME PoolAssumption == Pool \in WaitQueue /\ BlkNum \in Nat \ {0}

VARIABLES
  pool_valid,
  cut,              \* blocks that were cut off so far: 1 .. cut
  free_blocks,      \* the list of blocks that were released, as a set
  free_blocks_num,
  ptr,              \* in the frame of a call: where its block is put, or 0
  allocated         \* the blocks that each thread got and has not released

poolVars == << pool_valid, cut, free_blocks, free_blocks_num, ptr, allocated >>

(* fx_block_pool_init.                                                     *)
PoolInit(up) ==
  /\ pool_valid = up
  /\ cut = 0
  /\ free_blocks = {}
  /\ free_blocks_num = BlkNum
  /\ ptr = [t \in Thread |-> 0]
  /\ allocated = [t \in Thread |-> {}]

(* fx_block_pool_alloc and fx_block_pool_timedalloc, up to their critical  *)
(* section.                                                                *)
PoolAlloc(t, c) == pool_valid /\ Call(t, Pool, c) /\ UNCHANGED poolVars

HasBlock == free_blocks # {} \/ cut < BlkNum

(* A block that was released comes before one that was never used.         *)
TakeBlock(t) ==
  /\ IF free_blocks # {}
     THEN \E b \in free_blocks :
            /\ free_blocks' = free_blocks \ {b}
            /\ ptr' = [ptr EXCEPT ![t] = b]
            /\ UNCHANGED cut
     ELSE /\ cut' = cut + 1
          /\ ptr' = [ptr EXCEPT ![t] = cut + 1]
          /\ UNCHANGED free_blocks
  /\ free_blocks_num' = free_blocks_num - 1
  /\ UNCHANGED << pool_valid, allocated >>

(* fx_block_pool_test.                                                     *)
PoolTestAndWait(t) ==
  /\ Enters(t, Pool)
  /\ IF HasBlock
     THEN TakeBlock(t) /\ Proceed(t) /\ UNCHANGED prio
     ELSE Block(t) /\ UNCHANGED poolVars

(* fx_block_pool_timedalloc with a zero timeout.                           *)
PoolTry(t) ==
  /\ pool_valid /\ TryCall(t)
  /\ IF HasBlock
     THEN TakeBlock(t) /\ TryDone(t, "OK")
     ELSE TryDone(t, "WAIT_TIMEOUT") /\ UNCHANGED poolVars
  /\ UNCHANGED prio

(* fx_block_pool_release and fx_block_pool_release_internal of a block     *)
(* that t was given, by t or on its behalf.  The first passes on           *)
(* bp->policy, which fx_block_pool_init does not set: any policy.          *)
PoolRelease(t, b, policy) ==
  /\ pool_valid /\ b \in allocated[t]
  /\ allocated' = [allocated EXCEPT ![t] = @ \ {b}]
  /\ IF wq[Pool] # << >>
     THEN LET w == WaitBlockGet(Pool, policy)
          IN  /\ ptr' = [ptr EXCEPT ![w] = b]
              /\ NotifyOne(Pool, w, "SATISFIED")
              /\ UNCHANGED << prio, free_blocks, free_blocks_num >>
     ELSE /\ free_blocks' = free_blocks \cup {b}
          /\ free_blocks_num' = free_blocks_num + 1
          /\ UNCHANGED << waitVars, ptr >>
  /\ UNCHANGED << pool_valid, cut >>

(* fx_block_pool_deinit, when no call is about to enter its critical       *)
(* section.                                                                *)
PoolDeinit ==
  /\ pool_valid
  /\ \A t \in Thread : ~Enters(t, Pool)
  /\ pool_valid' = FALSE
  /\ NotifyAll(Pool, "DELETED")
  /\ UNCHANGED << prio, cut, free_blocks, free_blocks_num, ptr, allocated >>

PoolStep ==
  \/ \E t \in Thread :
       \/ \E c \in Canceller(t) : PoolAlloc(t, c)
       \/ PoolTestAndWait(t)
       \/ PoolTry(t)
       \/ \E b \in 1 .. BlkNum, policy \in {"FIFO", "PRIO"} :
            PoolRelease(t, b, policy)
  \/ PoolDeinit

(* MUTANT: a timed call whose timer ran out meanwhile drops the block.     *)
PoolReturn_Dropped(t) ==
  /\ ptr' = [ptr EXCEPT ![t] = 0]
  /\ allocated' = IF result[t] = "OK" /\ ptr[t] # 0
                     /\ (cancel[t] = t => timer[t])
                  THEN [allocated EXCEPT ![t] = @ \cup {ptr[t]}]
                  ELSE allocated
  /\ UNCHANGED << pool_valid, cut, free_blocks, free_blocks_num >>

(* The call returns: only if the wait was satisfied does the caller get    *)
(* what is in the frame, which is gone then.                               *)
PoolReturn(t) ==
  /\ ptr' = [ptr EXCEPT ![t] = 0]
  /\ allocated' = IF result[t] = "OK" /\ ptr[t] # 0
                  THEN [allocated EXCEPT ![t] = @ \cup {ptr[t]}]
                  ELSE allocated
  /\ UNCHANGED << pool_valid, cut, free_blocks, free_blocks_num >>

-----------------------------------------------------------------------------
Places(b) ==
  {"list" : x \in {b} \cap free_blocks}
    \cup {<< "caller", t >> : t \in {u \in Thread : b \in allocated[u]}}
    \cup {<< "frame", t >> : t \in {u \in Thread : ptr[u] = b}}

(* Every block that was cut is in one place: in the list, with a thread,   *)
(* or in the frame of a call that will report success, or did not get to   *)
(* because its thread was killed.  No timeout that comes after the release *)
(* loses a block, and the count that fx_block_pool_avail_blocks returns is *)
(* exact.                                                                  *)
PoolConserved ==
  /\ \A b \in 1 .. BlkNum :
       Cardinality(Places(b)) = IF b <= cut THEN 1 ELSE 0
  /\ free_blocks_num = Cardinality(free_blocks) + BlkNum - cut
  /\ \A t \in Thread : ptr[t] # 0 =>
       \/ pc[t] = "blocked" /\ status[t] = "SATISFIED"
       \/ pc[t] = "returning" /\ result[t] = "OK"
       \/ pc[t] = "dead"

(* No thread waits for a block while there is one.                         *)
PoolNoIdle == wq[Pool] # << >> => ~HasBlock
=============================================================================
