---------------------------- MODULE RtlMemPool ----------------------------
(***************************************************************************)
(* The two-level segregated fit allocator, rtl/mem_pool/rtl_mem_pool.c,    *)
(* behind fx_mem_pool.c, whose lock makes every operation one step.        *)
(*                                                                         *)
(* Addresses and the sizes of blocks count words of ALIGN_SIZE bytes, on a *)
(* processor whose pointers are as wide as that.  A block is named by the  *)
(* address of its header, whose first word, prev_phys_block, is the last   *)
(* word of the block before it.  The list of free blocks of one class is a *)
(* sequence.                                                               *)
(***************************************************************************)
EXTENDS RtlQueue

CONSTANTS
  SL_INDEX_COUNT_LOG2,
  FL_INDEX_MAX,
  Chunk,        \* the memory that may be added: its base, and its bytes
  Request       \* numbers of bytes that are asked for

(* 1 << n.                                                                 *)
Pow2[n \in Nat] == IF n = 0 THEN 1 ELSE 2 * Pow2[n - 1]

ALIGN_SIZE_LOG2 == 2
ALIGN_SIZE == Pow2[ALIGN_SIZE_LOG2]
FL_INDEX_SHIFT == SL_INDEX_COUNT_LOG2 + ALIGN_SIZE_LOG2
SL_INDEX_COUNT == Pow2[SL_INDEX_COUNT_LOG2]
FL_INDEX_COUNT == FL_INDEX_MAX - FL_INDEX_SHIFT + 1
SMALL_BLOCK_SIZE == SL_INDEX_COUNT
BLK_SIZE_MIN == 3
BLK_SIZE_MAX == Pow2[FL_INDEX_MAX - ALIGN_SIZE_LOG2]
HEADER_SIZE == 4
BLK_HEADER_OVERHEAD == 1
POOL_OVERHEAD == 2 * BLK_HEADER_OVERHEAD
NULL == -1

(* A header is written where there was none.                               *)
Put(f, a, v) == [x \in DOMAIN f \cup {a} |-> IF x = a THEN v ELSE f[x]]

(* The words of a chunk.  Its owner adds no word twice.                    *)
ChunkWords(c) == c.base .. c.base + c.bytes \div ALIGN_SIZE - 1

ASSUME MemPoolAssumption ==
  /\ SL_INDEX_COUNT_LOG2 \in Nat \ {0} /\ FL_INDEX_MAX \in Nat
  /\ FL_INDEX_SHIFT <= FL_INDEX_MAX
  /\ Chunk \subseteq [base : Nat \ {0}, bytes : Nat]
  /\ \A c, d \in Chunk : c = d \/ ChunkWords(c) \cap ChunkWords(d) = {}
  /\ Request \subseteq Nat \ {0}

VARIABLES
  header,       \* of every block there is: size, whether it is free, whether
                \* the one before it is, and prev_phys_block
  blocks,       \* the lists of free blocks, by both indices
  fl_bitmap, sl_bitmap,         \* the positions of their bits
  added,        \* the chunks that were added
  asked,        \* the blocks that were given out, with the words asked for
  outside       \* an index past the ends of the arrays was used

poolVars == << header, blocks, fl_bitmap, sl_bitmap, added, asked, outside >>

(* The part of the state that the functions of the allocator change.       *)
Pool == [header |-> header, blocks |-> blocks, fl_bitmap |-> fl_bitmap,
         sl_bitmap |-> sl_bitmap]

Becomes(p) ==
  /\ header' = p.header /\ blocks' = p.blocks
  /\ fl_bitmap' = p.fl_bitmap /\ sl_bitmap' = p.sl_bitmap

FlIndex == 0 .. FL_INDEX_COUNT - 1
SlIndex == 0 .. SL_INDEX_COUNT - 1

(* rtl_mem_pool_init.                                                      *)
PoolInit ==
  /\ header = << >>
  /\ blocks = [fl \in FlIndex |-> [sl \in SlIndex |-> << >>]]
  /\ fl_bitmap = {} /\ sl_bitmap = [fl \in FlIndex |-> {}]
  /\ added = {} /\ asked = << >> /\ outside = FALSE

(* tlsf_fls of a size in words.                                            *)
Fls(w) == CHOOSE k \in 0 .. FL_INDEX_MAX + 1 : Pow2[k] <= w /\ w < Pow2[k + 1]

(* mapping_insert.                                                         *)
MappingInsert(w) ==
  IF w < SMALL_BLOCK_SIZE
  THEN [fl |-> 0, sl |-> w]
  ELSE [fl |-> Fls(w) - SL_INDEX_COUNT_LOG2 + 1,
        sl |-> w \div Pow2[Fls(w) - SL_INDEX_COUNT_LOG2] - SL_INDEX_COUNT]

(* MUTANT: the class of the size itself, where smaller blocks are too.     *)
MappingSearch_NotRounded(w) == MappingInsert(w)

(* mapping_search: the first class all of whose blocks are large enough.   *)
(* The size is rounded up in bytes, which adds less than a word more.      *)
MappingSearch(w) ==
  MappingInsert(IF w < SMALL_BLOCK_SIZE
                THEN w
                ELSE w + Pow2[Fls(w) - SL_INDEX_COUNT_LOG2] - 1)

(* The first class from i on that has a block, or NULL:                    *)
(* search_suitable_block.                                                  *)
SearchSuitable(p, i) ==
  LET sl_map == {sl \in p.sl_bitmap[i.fl] : sl >= i.sl}
      fl_map == {fl \in p.fl_bitmap : fl > i.fl}
  IN  IF sl_map # {} THEN << [fl |-> i.fl, sl |-> Min(sl_map)] >>
      ELSE IF fl_map # {}
           THEN << [fl |-> Min(fl_map), sl |-> Min(p.sl_bitmap[Min(fl_map)])] >>
           ELSE << >>

(* remove_free_block.                                                      *)
RemoveFreeBlock(p, b, i) ==
  LET list == Unlink(p.blocks[i.fl][i.sl], b)
      sl_map == IF list = << >> THEN p.sl_bitmap[i.fl] \ {i.sl}
                                ELSE p.sl_bitmap[i.fl]
  IN  [p EXCEPT !.blocks[i.fl][i.sl] = list,
                !.sl_bitmap[i.fl] = sl_map,
                !.fl_bitmap = IF sl_map = {} THEN @ \ {i.fl} ELSE @]

(* insert_free_block.                                                      *)
InsertFreeBlock(p, b, i) ==
  [p EXCEPT !.blocks[i.fl][i.sl] = << b >> \o @,
            !.sl_bitmap[i.fl] = @ \cup {i.sl},
            !.fl_bitmap = @ \cup {i.fl}]

BlockRemove(p, b) == RemoveFreeBlock(p, b, MappingInsert(p.header[b].size))
BlockInsert(p, b) == InsertFreeBlock(p, b, MappingInsert(p.header[b].size))

BlockNext(p, b) == b + p.header[b].size + BLK_HEADER_OVERHEAD

(* block_link_next.                                                        *)
LinkNext(p, b) == [p EXCEPT !.header[BlockNext(p, b)].prev_phys = b]

(* block_mark_as_free.                                                     *)
MarkAsFree(p, b) ==
  [LinkNext(p, b) EXCEPT !.header[BlockNext(p, b)].prev_free = TRUE,
                         !.header[b].free = TRUE]

(* block_mark_as_used.  The link in the last word of the block now belongs *)
(* to the user.                                                            *)
MarkAsUsed(p, b) ==
  [p EXCEPT !.header[BlockNext(p, b)].prev_free = FALSE,
            !.header[BlockNext(p, b)].prev_phys = NULL,
            !.header[b].free = FALSE]

CanSplit(p, b, w) == p.header[b].size >= HEADER_SIZE + w

(* block_split: b keeps w words, and the rest becomes a block.             *)
Split(p, b, w) ==
  LET rest == b + w + BLK_HEADER_OVERHEAD
      new  == [size |-> p.header[b].size - (w + BLK_HEADER_OVERHEAD),
               free |-> FALSE, prev_free |-> FALSE, prev_phys |-> NULL]
  IN  [p EXCEPT !.header = Put([@ EXCEPT ![b].size = w], rest, new)]

(* block_trim_free.                                                        *)
TrimFree(p, b, w) ==
  IF ~CanSplit(p, b, w)
  THEN p
  ELSE LET rest  == b + w + BLK_HEADER_OVERHEAD
           split == LinkNext(MarkAsFree(Split(p, b, w), rest), b)
       IN  BlockInsert([split EXCEPT !.header[rest].prev_free = TRUE], rest)

(* block_absorb: the block after b becomes part of it.                     *)
Absorb(p, b, next) ==
  LET size == p.header[b].size + p.header[next].size + BLK_HEADER_OVERHEAD
  IN  LinkNext([p EXCEPT !.header = [a \in DOMAIN @ \ {next} |->
                                       IF a = b THEN [@[a] EXCEPT !.size = size]
                                                ELSE @[a]]], b)

(* block_merge_prev, with the block that results.                          *)
MergePrev(p, b) ==
  LET prev == p.header[b].prev_phys
  IN  IF p.header[b].prev_free
      THEN << Absorb(BlockRemove(p, prev), prev, b), prev >>
      ELSE << p, b >>

(* MUTANT: the merged block stays in its list.                             *)
MergeNext_StaysListed(p, b) ==
  IF p.header[BlockNext(p, b)].free THEN Absorb(p, b, BlockNext(p, b)) ELSE p

(* block_merge_next.                                                       *)
MergeNext(p, b) ==
  LET next == BlockNext(p, b)
  IN  IF p.header[next].free THEN Absorb(BlockRemove(p, next), b, next) ELSE p

(* rtl_mem_pool_add_mem of a chunk in which w words are left for the user. *)
WithMem(p, c, w) ==
  LET b    == c.base - 1
      free == [size |-> w, free |-> TRUE, prev_free |-> FALSE, prev_phys |-> NULL]
      last == [size |-> 0, free |-> FALSE, prev_free |-> TRUE, prev_phys |-> b]
  IN  BlockInsert(
        [p EXCEPT !.header =
           Put(Put(@, b + w + BLK_HEADER_OVERHEAD, last), b, free)], b)

(* fx_mem_pool_add_mem of memory whose size the allocator accepts.         *)
AddMem(c) ==
  LET w == c.bytes \div ALIGN_SIZE - POOL_OVERHEAD
  IN  /\ c \notin added
      /\ BLK_SIZE_MIN <= w /\ w <= BLK_SIZE_MAX
      /\ added' = added \cup {c}
      /\ IF MappingInsert(w).fl \in FlIndex
         THEN Becomes(WithMem(Pool, c, w)) /\ UNCHANGED outside
         ELSE outside' = TRUE /\ UNCHANGED << header, blocks, fl_bitmap, sl_bitmap >>
      /\ UNCHANGED asked

(* adjust_request_size: 0 for what is too large.                           *)
Adjust(bytes) ==
  LET w == (bytes + ALIGN_SIZE - 1) \div ALIGN_SIZE
  IN  IF w < BLK_SIZE_MAX THEN Max({w, BLK_SIZE_MIN}) ELSE 0

(* block_locate_free: the class that a block of w words is taken from.     *)
Located(p, w) ==
  IF w = 0 THEN << >> ELSE SearchSuitable(p, MappingSearch(w))

(* block_prepare_used: w words of b, taken out of its list, are given out. *)
PrepareUsed(p, b, w) == MarkAsUsed(TrimFree(p, b, w), b)

(* fx_mem_pool_alloc, with what is left when memory is found, and without  *)
(* an effect when it is not.                                               *)
Alloc(bytes) ==
  LET w == Adjust(bytes)
  IN  IF w # 0 /\ MappingSearch(w).fl \notin FlIndex
      THEN outside' = TRUE
           /\ UNCHANGED << header, blocks, fl_bitmap, sl_bitmap, added, asked >>
      ELSE /\ Located(Pool, w) # << >>
           /\ LET i == Located(Pool, w)[1]
                  b == Head(blocks[i.fl][i.sl])
              IN  /\ Becomes(PrepareUsed(RemoveFreeBlock(Pool, b, i), b, w))
                  /\ asked' = Put(asked, b, w)
           /\ UNCHANGED << added, outside >>

(* rtl_mem_pool_free.                                                      *)
Freed(p, b) ==
  LET merged == MergePrev(MarkAsFree(p, b), b)
  IN  BlockInsert(MergeNext(merged[1], merged[2]), merged[2])

(* fx_mem_pool_free of memory that was given out.                          *)
Free(b) ==
  /\ b \in DOMAIN asked
  /\ Becomes(Freed(Pool, b))
  /\ asked' = [a \in DOMAIN asked \ {b} |-> asked[a]]
  /\ UNCHANGED << added, outside >>

(* MUTANT: the upper end of the class, not the lower one.                  *)
MaxBlk_UpperEnd ==
  LET fl == Max(fl_bitmap)
      sl == Max(sl_bitmap[fl])
  IN  IF fl_bitmap = {} THEN 0
      ELSE IF fl = 0 THEN sl
           ELSE Pow2[fl + SL_INDEX_COUNT_LOG2 - 1] + Pow2[fl - 1] * (sl + 1) - 1

(* rtl_mem_pool_get_max_blk, in words.                                     *)
MaxBlk ==
  LET fl == Max(fl_bitmap)
      sl == Max(sl_bitmap[fl])
  IN  IF fl_bitmap = {} THEN 0
      ELSE IF fl = 0 THEN sl
           ELSE Pow2[fl + SL_INDEX_COUNT_LOG2 - 1] + Pow2[fl - 1] * sl

PoolNext ==
  \/ \E c \in Chunk : AddMem(c)
  \/ \E bytes \in Request : Alloc(bytes)
  \/ \E b \in DOMAIN asked : Free(b)

PoolSpec == PoolInit /\ [][PoolNext]_poolVars

-----------------------------------------------------------------------------
Header == [size : Nat, free : BOOLEAN, prev_free : BOOLEAN, prev_phys : Nat \cup {NULL}]

PoolTypeOK ==
  /\ DOMAIN header \subseteq Nat /\ header \in [DOMAIN header -> Header]
  /\ DOMAIN asked \subseteq DOMAIN header
  /\ blocks \in [FlIndex -> [SlIndex -> Seq(DOMAIN header)]]
  /\ fl_bitmap \subseteq FlIndex /\ sl_bitmap \in [FlIndex -> SUBSET SlIndex]
  /\ added \subseteq Chunk /\ outside \in BOOLEAN

(* The words that a user may write.                                        *)
Words(b) == b + 2 .. b + 1 + header[b].size

(* Memory that was given out is large enough, lies in memory that was      *)
(* added, and shares no word with other memory that was given out or with  *)
(* the header of any block.                                                *)
AllocationsDisjoint ==
  \A b \in DOMAIN asked :
    /\ header[b].size >= asked[b]
    /\ \E c \in added : Words(b) \subseteq ChunkWords(c)
    /\ \A a \in DOMAIN header \ {b} :
         /\ a + 1 \notin Words(b)
         /\ a \in DOMAIN asked => Words(a) \cap Words(b) = {}

(* What a block says of the one before it is true, and no two blocks that  *)
(* follow one another are free.                                            *)
NeighboursAgree ==
  \A b \in DOMAIN header : header[b].size > 0 =>
    LET next == b + header[b].size + BLK_HEADER_OVERHEAD
    IN  /\ next \in DOMAIN header
        /\ header[next].prev_free = header[b].free
        /\ header[b].free =>
             header[next].prev_phys = b /\ ~header[next].free
        /\ header[b].free <=> b \notin DOMAIN asked

(* A free block is in one list, that of its class, and the bits say which  *)
(* lists have blocks.                                                      *)
FreeBlocksListed ==
  /\ \A fl \in FlIndex, sl \in SlIndex :
       LET list == blocks[fl][sl]
       IN  /\ IsInjective(list)
           /\ \A b \in DOMAIN header : Linked(list, b) <=>
                header[b].free /\ MappingInsert(header[b].size) = [fl |-> fl, sl |-> sl]
           /\ sl \in sl_bitmap[fl] <=> list # << >>
  /\ \A fl \in FlIndex : fl \in fl_bitmap <=> sl_bitmap[fl] # {}

(* Whatever was split, merged and given back in whatever order, no free    *)
(* block is lost or found by mistake, and everything that can be merged    *)
(* is.                                                                     *)
HeapWellFormed == PoolTypeOK /\ NeighboursAgree /\ FreeBlocksListed

(* An allocation is refused only if no free block has the size of its      *)
(* class, and what fx_mem_pool_get_max_free_chunk reports can be had.      *)
Found(w) == Located(Pool, w) # << >>

GoodFit ==
  /\ MaxBlk > 0 => Found(Adjust(MaxBlk * ALIGN_SIZE))
  /\ \A bytes \in Request, b \in DOMAIN header :
       LET w == Adjust(bytes)
       IN  /\ w # 0 /\ MappingSearch(w).fl \in FlIndex
           /\ header[b].free /\ header[b].size >= w + w \div SL_INDEX_COUNT
           => Found(w)

(* What the comment on the sizes that are supported implies: no request    *)
(* and no chunk that is accepted leads past the ends of the arrays.        *)
IndexesInRange == ~outside
=============================================================================
