------------------------------ MODULE MemoryPool ------------------------------
(***************************************************************************)
(* memory/source/pool.c: blocks of one size in one region, a bit for each. *)
(* A pointer is the number of the block it points into and whether it      *)
(* points to the block's start; used is counted in blocks.  A region whose *)
(* size is no multiple of the block size has a tail that starts where one  *)
(* more block would.                                                       *)
(*                                                                         *)
(* The users of the pool are part of the model: held is what each was      *)
(* given and has not given back, dirty the blocks they wrote to.  They may *)
(* free anything but a block another user holds, which no pool could tell  *)
(* from the real thing, and they use the pool only after init succeeded or *)
(* destroy zeroed it.                                                      *)
(***************************************************************************)
EXTENDS Integers, FiniteSets

CONSTANTS NumBlocks,  \* size / block_size
          HasTail,    \* whether size % block_size is not zero
          Holders     \* the users

ASSUME PoolAssumption == NumBlocks \in Nat /\ HasTail \in BOOLEAN

VARIABLES
  life,    \* of the pool structure
  bitmap,  \* numbers of the bits that are set
  used,    \* pool->used, in blocks
  held, dirty,
  answer   \* what the last memory_pool_alloc returned: {b}, or {} for NULL

vars == <<life, bitmap, used, held, dirty, answer>>

Blocks == 0..(NumBlocks - 1)
Nobody == [h \in Holders |-> {}]

\* Bits in the bitmap, the padding of its last byte included.
BitmapBits == 8 * ((NumBlocks + 7) \div 8)

Init ==
  /\ life = "raw"
  /\ bitmap = {} /\ used = 0
  /\ held = Nobody /\ dirty = {} /\ answer = {}

\* A bitmap of no bytes cannot be allocated.
memory_pool_init ==
  /\ life # "ready"
  /\ NumBlocks > 0
  /\ life' = "ready"
  /\ bitmap' = {} /\ used' = 0
  /\ UNCHANGED <<held, dirty, answer>>

\* No memory for the region, or for the bitmap: pool->memory is then left
\* pointing to a region that was freed.
init_fails ==
  /\ life # "ready"
  /\ life' = "failed"
  /\ used' = 0
  /\ UNCHANGED <<bitmap, held, dirty, answer>>

memory_pool_destroy ==
  /\ life = "ready"
  /\ life' = "zeroed"
  /\ bitmap' = {} /\ used' = 0
  /\ held' = Nobody /\ dirty' = {} /\ answer' = {}

\* used >= total_size, in blocks.
Exhausted == IF HasTail THEN used > NumBlocks ELSE used >= NumBlocks

\* Variant: the search begins behind the last block that was taken.
takes_next_block(b) == b = used /\ b \in Blocks

FirstFree(b) == /\ b \in Blocks \ bitmap
                /\ \A c \in Blocks \ bitmap : b <= c

memory_pool_alloc(h) ==
  /\ life = "ready" /\ ~Exhausted
  /\ \E b \in Blocks :
       /\ FirstFree(b)
       /\ bitmap' = bitmap \cup {b}
       /\ held' = [held EXCEPT ![h] = @ \cup {b}]
       /\ answer' = {b}
  /\ used' = used + 1
  /\ UNCHANGED <<life, dirty>>

alloc_returns_null ==
  /\ \/ life = "zeroed"
     \/ life = "ready" /\ (Exhausted \/ Blocks \subseteq bitmap)
  /\ answer' = {}
  /\ UNCHANGED <<life, bitmap, used, held, dirty>>

Write(h) ==
  /\ \E b \in held[h] : dirty' = dirty \cup {b}
  /\ UNCHANGED <<life, bitmap, used, held, answer>>

\* ptr lies in the region, if only in its tail.
InRegion(i) == i < NumBlocks \/ (HasTail /\ i = NumBlocks)

\* The bit of block i; behind the bitmap it is whatever the heap holds there.
BitAt(i) == IF i < BitmapBits THEN {i \in bitmap} ELSE BOOLEAN

\* Variants: freeing a free block is not noticed; the data stays; a pointer
\* into a block frees it.
frees_without_look(h, i, aligned) ==
  /\ life = "ready" /\ \A g \in Holders \ {h} : i \notin held[g]
  /\ InRegion(i) /\ aligned
  /\ bitmap' = bitmap \ {i} /\ used' = used - 1 /\ dirty' = dirty \ {i}
  /\ held' = [held EXCEPT ![h] = @ \ {i}]
  /\ UNCHANGED <<life, answer>>

frees_without_zeroing(h, i, aligned) ==
  /\ life = "ready" /\ i \in held[h] /\ aligned
  /\ bitmap' = bitmap \ {i} /\ used' = used - 1
  /\ held' = [held EXCEPT ![h] = @ \ {i}]
  /\ UNCHANGED <<life, dirty, answer>>

\* A pointer outside the region, inside a block or to a block that is free
\* already changes nothing.
memory_pool_free(h, i, aligned) ==
  /\ life = "ready"
  /\ \A g \in Holders \ {h} : i \notin held[g]
  /\ \E set \in BitAt(i) :
       IF InRegion(i) /\ aligned /\ set
       THEN /\ bitmap' = bitmap \ {i}
            /\ used' = used - 1
            /\ dirty' = dirty \ {i}
            /\ held' = [held EXCEPT ![h] = @ \ {i}]
       ELSE UNCHANGED <<bitmap, used, dirty, held>>
  /\ UNCHANGED <<life, answer>>

\* Variant: the counter is forgotten.
reset_keeps_count ==
  /\ life = "ready"
  /\ bitmap' = {} /\ dirty' = {} /\ held' = Nobody
  /\ UNCHANGED <<life, used, answer>>

\* Whoever resets the pool has told its users.
memory_pool_reset ==
  /\ life = "ready"
  /\ bitmap' = {} /\ dirty' = {} /\ used' = 0
  /\ held' = Nobody
  /\ UNCHANGED <<life, answer>>

Next ==
  \/ memory_pool_init \/ init_fails \/ memory_pool_destroy
  \/ alloc_returns_null \/ memory_pool_reset
  \/ \E h \in Holders :
       \/ memory_pool_alloc(h)
       \/ Write(h)
       \/ \E i \in 0..(NumBlocks + 1), aligned \in BOOLEAN : memory_pool_free(h, i, aligned)

Spec == Init /\ [][Next]_vars

===============================================================================
