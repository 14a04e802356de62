--------------------------- MODULE MemoryPoolProofs ---------------------------
(***************************************************************************)
(* For pools of every size and any users.  One shape is left out: a region *)
(* with a tail and a multiple of eight blocks, where memory_pool_free, given *)
(* a pointer to the tail, looks behind the bitmap (pool.c:64-68).          *)
(***************************************************************************)
EXTENDS MemoryPoolProperties, FiniteSetTheorems, TLAPS

TailCovered == ~HasTail \/ NumBlocks % 8 # 0

-------------------------------------------------------------------------------
(* Counting *)

\* There are NumBlocks blocks, and finitely many.
LEMMA BlocksCounted == IsFiniteSet(Blocks) /\ Cardinality(Blocks) = NumBlocks
<1>1. NumBlocks \in Nat /\ 0 \in Int /\ NumBlocks - 1 \in Int
  BY PoolAssumption
<1>2. /\ IsFiniteSet(0..(NumBlocks - 1))
      /\ Cardinality(0..(NumBlocks - 1)) =
           IF 0 > NumBlocks - 1 THEN 0 ELSE NumBlocks - 1 - 0 + 1
  BY <1>1, FS_Interval
<1> QED
  BY <1>1, <1>2 DEF Blocks

\* What a set of blocks can count to.
LEMMA BitmapCounted ==
  ASSUME NEW S \in SUBSET Blocks
  PROVE  /\ IsFiniteSet(S)
         /\ Cardinality(S) \in 0..NumBlocks
         /\ Cardinality(S) = NumBlocks => S = Blocks
<1>1. /\ IsFiniteSet(S) /\ Cardinality(S) <= Cardinality(Blocks)
      /\ Cardinality(Blocks) = Cardinality(S) => Blocks = S
  BY BlocksCounted, FS_Subset
<1>2. Cardinality(S) \in Nat
  BY <1>1, FS_CardinalityType
<1> QED
  BY <1>1, <1>2, BlocksCounted, PoolAssumption

\* The tail has no bit of its own that is set.
LEMMA TailBit ==
  ASSUME TailCovered, bitmap \in SUBSET Blocks, NEW i \in Nat, InRegion(i),
         NEW set \in BitAt(i), set
  PROVE  i \in bitmap
<1>1. NumBlocks \in Nat
  BY PoolAssumption
<1>2. i < BitmapBits
  <2>1. CASE i < NumBlocks
    BY <1>1, <2>1 DEF BitmapBits
  <2>2. CASE i = NumBlocks /\ HasTail
    BY <1>1, <2>2 DEF BitmapBits, TailCovered
  <2> QED
    BY <2>1, <2>2 DEF InRegion
<1> QED
  BY <1>2 DEF BitAt

-------------------------------------------------------------------------------
(* The inductive invariant *)

PoolInv ==
  /\ TypeOK
  /\ UsedCountsBlocks
  /\ BlocksBelongToOneHolder
  /\ FreeBlocksHoldNoData

\* Granting a free block.
LEMMA AllocStep ==
  ASSUME PoolInv, NEW h \in Holders, memory_pool_alloc(h) PROVE PoolInv'
<1>1. PICK b \in Blocks \ bitmap :
        /\ bitmap' = bitmap \cup {b}
        /\ held' = [held EXCEPT ![h] = @ \cup {b}]
        /\ answer' = {b}
  BY DEF memory_pool_alloc, FirstFree
<1>2. used' = used + 1 /\ UNCHANGED <<life, dirty>>
  BY DEF memory_pool_alloc
<1>3. bitmap \in SUBSET Blocks /\ held \in [Holders -> SUBSET Blocks]
  BY DEF PoolInv, TypeOK
<1>4. bitmap' \in SUBSET Blocks
  BY <1>1, <1>3
<1>5. Cardinality(bitmap') = Cardinality(bitmap) + 1
  <2>1. IsFiniteSet(bitmap)
    BY <1>3, BitmapCounted
  <2> QED
    BY <1>1, <2>1, FS_AddElement
<1>6. used' = Cardinality(bitmap')
  BY <1>2, <1>5 DEF PoolInv, UsedCountsBlocks
<1>7. TypeOK'
  <2>1. used' \in 0..NumBlocks
    BY <1>4, <1>6, BitmapCounted
  <2>2. held' \in [Holders -> SUBSET Blocks]
    BY <1>1, <1>3
  <2> QED
    BY <1>1, <1>2, <1>4, <2>1, <2>2 DEF PoolInv, TypeOK
<1>8. BlocksBelongToOneHolder'
  <2>1. \A g \in Holders : held'[g] = IF g = h THEN held[g] \cup {b} ELSE held[g]
    BY <1>1, <1>3
  <2>2. \A g \in Holders : b \notin held[g]
    BY <1>1 DEF PoolInv, BlocksBelongToOneHolder
  <2>3. bitmap' = UNION {held'[g] : g \in Holders}
    <3>1. bitmap = UNION {held[g] : g \in Holders}
      BY DEF PoolInv, BlocksBelongToOneHolder
    <3>2. ASSUME NEW x \in bitmap' PROVE x \in UNION {held'[g] : g \in Holders}
      BY <1>1, <2>1, <3>1
    <3>3. ASSUME NEW g \in Holders, NEW x \in held'[g] PROVE x \in bitmap'
      BY <1>1, <2>1, <3>1
    <3> QED
      BY <3>2, <3>3
  <2>4. ASSUME NEW f \in Holders, NEW g \in Holders, f # g
        PROVE  held'[f] \cap held'[g] = {}
    <3>1. held[f] \cap held[g] = {}
      BY <2>4 DEF PoolInv, BlocksBelongToOneHolder
    <3> QED
      BY <2>1, <2>2, <2>4, <3>1
  <2> QED
    BY <2>3, <2>4 DEF BlocksBelongToOneHolder
<1>9. FreeBlocksHoldNoData'
  BY <1>1, <1>2 DEF PoolInv, FreeBlocksHoldNoData
<1> QED
  BY <1>6, <1>7, <1>8, <1>9 DEF PoolInv, UsedCountsBlocks

\* What memory_pool_free does to pools with a covered tail: nothing, or it takes
\* back a block of the caller's.
LEMMA FreeFacts ==
  ASSUME TailCovered, PoolInv, NEW h \in Holders, NEW i \in 0..(NumBlocks + 1),
         NEW aligned, memory_pool_free(h, i, aligned)
  PROVE  \/ UNCHANGED vars
         \/ /\ life = "ready" /\ i \in held[h] /\ i \in bitmap
            /\ bitmap' = bitmap \ {i}
            /\ used' = used - 1
            /\ dirty' = dirty \ {i}
            /\ held' = [held EXCEPT ![h] = @ \ {i}]
            /\ UNCHANGED <<life, answer>>
<1>1. PICK set \in BitAt(i) :
        IF InRegion(i) /\ aligned /\ set
        THEN /\ bitmap' = bitmap \ {i}
             /\ used' = used - 1
             /\ dirty' = dirty \ {i}
             /\ held' = [held EXCEPT ![h] = @ \ {i}]
        ELSE UNCHANGED <<bitmap, used, dirty, held>>
  BY DEF memory_pool_free
<1>2. life = "ready" /\ UNCHANGED <<life, answer>> /\ \A g \in Holders \ {h} : i \notin held[g]
  BY DEF memory_pool_free
<1>3. CASE InRegion(i) /\ aligned /\ set
  <2>1. i \in bitmap
    <3>1. i \in Nat /\ bitmap \in SUBSET Blocks
      BY DEF PoolInv, TypeOK
    <3> QED
      BY <1>3, <3>1, TailBit
  <2>2. i \in held[h]
    BY <1>2, <2>1 DEF PoolInv, BlocksBelongToOneHolder
  <2> QED
    BY <1>1, <1>2, <1>3, <2>1, <2>2
<1>4. CASE ~(InRegion(i) /\ aligned /\ set)
  BY <1>1, <1>2, <1>4 DEF vars
<1> QED
  BY <1>3, <1>4

\* Taking a block back.
LEMMA FreeStep ==
  ASSUME TailCovered, PoolInv, NEW h \in Holders, NEW i \in 0..(NumBlocks + 1),
         NEW aligned, memory_pool_free(h, i, aligned)
  PROVE  PoolInv'
<1>1. CASE UNCHANGED vars
  BY <1>1 DEF vars, PoolInv, TypeOK, UsedCountsBlocks, BlocksBelongToOneHolder,
              FreeBlocksHoldNoData
<1>2. CASE ~UNCHANGED vars
  <2>1. /\ i \in held[h] /\ i \in bitmap
        /\ bitmap' = bitmap \ {i} /\ used' = used - 1 /\ dirty' = dirty \ {i}
        /\ held' = [held EXCEPT ![h] = @ \ {i}]
        /\ UNCHANGED <<life, answer>>
    BY <1>2, FreeFacts
  <2>2. bitmap \in SUBSET Blocks /\ held \in [Holders -> SUBSET Blocks]
    BY DEF PoolInv, TypeOK
  <2>3. bitmap' \in SUBSET Blocks
    BY <2>1, <2>2
  <2>4. Cardinality(bitmap') = Cardinality(bitmap) - 1
    <3>1. IsFiniteSet(bitmap)
      BY <2>2, BitmapCounted
    <3> QED
      BY <2>1, <3>1, FS_RemoveElement
  <2>5. used' = Cardinality(bitmap')
    BY <2>1, <2>4 DEF PoolInv, UsedCountsBlocks
  <2>6. TypeOK'
    <3>1. used' \in 0..NumBlocks
      BY <2>3, <2>5, BitmapCounted
    <3>2. held' \in [Holders -> SUBSET Blocks]
      BY <2>1, <2>2
    <3> QED
      BY <2>1, <2>3, <3>1, <3>2 DEF PoolInv, TypeOK
  <2>7. BlocksBelongToOneHolder'
    <3>1. \A g \in Holders : held'[g] = IF g = h THEN held[g] \ {i} ELSE held[g]
      BY <2>1, <2>2
    <3>2. \A g \in Holders \ {h} : i \notin held[g]
      BY <2>1 DEF PoolInv, BlocksBelongToOneHolder
    <3>3. bitmap' = UNION {held'[g] : g \in Holders}
      BY <2>1, <3>1, <3>2 DEF PoolInv, BlocksBelongToOneHolder
    <3>4. \A f, g \in Holders : f # g => held'[f] \cap held'[g] = {}
      BY <3>1 DEF PoolInv, BlocksBelongToOneHolder
    <3> QED
      BY <3>3, <3>4 DEF BlocksBelongToOneHolder
  <2>8. FreeBlocksHoldNoData'
    BY <2>1 DEF PoolInv, FreeBlocksHoldNoData
  <2> QED
    BY <2>5, <2>6, <2>7, <2>8 DEF PoolInv, UsedCountsBlocks
<1> QED
  BY <1>1, <1>2

\* A pool that holds nothing.
LEMMA EmptyPool ==
  ASSUME bitmap' = {}, used' = 0, held' = Nobody, dirty' = {},
         answer' \in SUBSET Blocks, life' \in {"raw", "ready", "failed", "zeroed"}
  PROVE  PoolInv'
<1>1. Cardinality({}) = 0
  BY FS_EmptySet
<1>2. UsedCountsBlocks'
  BY <1>1 DEF UsedCountsBlocks
<1>3. TypeOK'
  BY PoolAssumption DEF TypeOK, Nobody
<1>4. BlocksBelongToOneHolder'
  BY DEF BlocksBelongToOneHolder, Nobody
<1>5. FreeBlocksHoldNoData'
  BY DEF FreeBlocksHoldNoData
<1> QED
  BY <1>2, <1>3, <1>4, <1>5 DEF PoolInv

\* Outside a live pool nothing is held; init relies on it.
Idle == life # "ready" => bitmap = {} /\ held = Nobody /\ dirty = {}

\* A step that only answers keeps the invariant.
LEMMA OnlyAnswers ==
  ASSUME PoolInv, UNCHANGED <<life, bitmap, used, held, dirty>>, answer' \in SUBSET Blocks
  PROVE  PoolInv'
<1>1. TypeOK'
  BY DEF PoolInv, TypeOK
<1>2. UsedCountsBlocks'
  BY DEF PoolInv, UsedCountsBlocks
<1>3. BlocksBelongToOneHolder'
  BY DEF PoolInv, BlocksBelongToOneHolder
<1>4. FreeBlocksHoldNoData'
  BY DEF PoolInv, FreeBlocksHoldNoData
<1> QED
  BY <1>1, <1>2, <1>3, <1>4 DEF PoolInv

\* Every step keeps the invariant.
LEMMA PoolStep ==
  TailCovered /\ PoolInv /\ Idle /\ [Next]_vars => PoolInv' /\ Idle'
<1> SUFFICES ASSUME TailCovered, PoolInv, Idle, [Next]_vars PROVE PoolInv' /\ Idle'
  OBVIOUS
<1>1. CASE UNCHANGED vars
  <2>1. PoolInv'
    BY <1>1, OnlyAnswers DEF vars, PoolInv, TypeOK
  <2> QED
    BY <1>1, <2>1 DEF vars, Idle
<1>2. CASE memory_pool_init \/ init_fails
  <2>1. /\ bitmap' = {} /\ used' = 0 /\ held' = Nobody /\ dirty' = {}
        /\ answer' = answer /\ life' \in {"ready", "failed"}
    BY <1>2 DEF memory_pool_init, init_fails, Idle
  <2>2. answer' \in SUBSET Blocks
    BY <2>1 DEF PoolInv, TypeOK
  <2>3. PoolInv'
    BY <2>1, <2>2, EmptyPool
  <2> QED
    BY <2>1, <2>3 DEF Idle
<1>3. CASE memory_pool_destroy \/ memory_pool_reset
  <2>1. /\ bitmap' = {} /\ used' = 0 /\ held' = Nobody /\ dirty' = {}
        /\ answer' \in {answer, {}} /\ life' \in {"ready", "zeroed"}
    BY <1>3 DEF memory_pool_destroy, memory_pool_reset
  <2>2. answer' \in SUBSET Blocks
    BY <2>1 DEF PoolInv, TypeOK
  <2>3. PoolInv'
    BY <2>1, <2>2, EmptyPool
  <2> QED
    BY <2>1, <2>3 DEF Idle
<1>4. CASE alloc_returns_null
  <2>1. PoolInv'
    BY <1>4, OnlyAnswers DEF alloc_returns_null
  <2> QED
    BY <1>4, <2>1 DEF alloc_returns_null, Idle
<1>5. ASSUME NEW h \in Holders, memory_pool_alloc(h) PROVE PoolInv' /\ Idle'
  BY <1>5, AllocStep DEF memory_pool_alloc, Idle
<1>6. ASSUME NEW h \in Holders, Write(h) PROVE PoolInv' /\ Idle'
  <2>1. PICK b \in held[h] : dirty' = dirty \cup {b}
    BY <1>6 DEF Write
  <2>2. b \in bitmap /\ b \in Blocks
    BY DEF PoolInv, TypeOK, BlocksBelongToOneHolder
  <2>3. UNCHANGED <<life, bitmap, used, held, answer>> /\ life = "ready"
    BY <1>6, <2>2 DEF Write, Idle
  <2> QED
    BY <2>1, <2>2, <2>3 DEF PoolInv, TypeOK, UsedCountsBlocks,
       BlocksBelongToOneHolder, FreeBlocksHoldNoData, Idle
<1>7. ASSUME NEW h \in Holders, NEW i \in 0..(NumBlocks + 1), NEW aligned \in BOOLEAN,
             memory_pool_free(h, i, aligned)
      PROVE  PoolInv' /\ Idle'
  BY <1>7, FreeStep DEF memory_pool_free, Idle
<1> QED
  BY <1>1, <1>2, <1>3, <1>4, <1>5, <1>6, <1>7 DEF Next

\* The invariant of every pool whose tail the bitmap covers.
LEMMA PoolInvariance == ASSUME TailCovered PROVE Spec => [](PoolInv /\ Idle)
<1>1. Init => PoolInv /\ Idle
  <2> SUFFICES ASSUME Init PROVE PoolInv /\ Idle
    OBVIOUS
  <2>1. Cardinality({}) = 0
    BY FS_EmptySet
  <2>2. UsedCountsBlocks /\ FreeBlocksHoldNoData /\ Idle
    BY <2>1 DEF Init, UsedCountsBlocks, FreeBlocksHoldNoData, Idle
  <2>3. TypeOK
    BY PoolAssumption DEF Init, TypeOK, Nobody
  <2>4. BlocksBelongToOneHolder
    BY DEF Init, BlocksBelongToOneHolder, Nobody
  <2> QED
    BY <2>2, <2>3, <2>4 DEF PoolInv
<1>2. PoolInv /\ Idle /\ [Next]_vars => (PoolInv /\ Idle)'
  BY PoolStep
<1> QED
  BY <1>1, <1>2, PTL DEF Spec

\* The shape of every variable; the counter stays within the pool.
THEOREM PoolTypeCorrect == ASSUME TailCovered PROVE Spec => []TypeOK
<1>1. PoolInv => TypeOK
  BY DEF PoolInv
<1> QED
  BY <1>1, PoolInvariance, PTL

\* memory_pool_used divided by the block size is the number of blocks that are
\* taken, after any sequence of allocations, resets and frees, also of foreign
\* or stale pointers (pool.c:48-49, 68-70, 77-79).
THEOREM CounterIsExact == ASSUME TailCovered PROVE Spec => []UsedCountsBlocks
<1>1. PoolInv => UsedCountsBlocks
  BY DEF PoolInv
<1> QED
  BY <1>1, PoolInvariance, PTL

\* No block is handed out twice and none is lost (pool.c:44-51, 68-72).
THEOREM BlocksAreExclusive == ASSUME TailCovered PROVE Spec => []BlocksBelongToOneHolder
<1>1. PoolInv => BlocksBelongToOneHolder
  BY DEF PoolInv
<1> QED
  BY <1>1, PoolInvariance, PTL

\* What a user wrote is gone before the block is free (pool.c:71, 78).
THEOREM FreedBlocksAreClean == ASSUME TailCovered PROVE Spec => []FreeBlocksHoldNoData
<1>1. PoolInv => FreeBlocksHoldNoData
  BY DEF PoolInv
<1> QED
  BY <1>1, PoolInvariance, PTL

-------------------------------------------------------------------------------
(* The pool is an allocator *)

\* memory_pool_alloc turns a request down only when every block is held.
LEMMA NullMeansFull ==
  ASSUME PoolInv, alloc_returns_null
  PROVE  life # "ready" \/ Allocator!Taken = Blocks
<1>1. Allocator!Taken = bitmap
  BY DEF Allocator!Taken, PoolInv, BlocksBelongToOneHolder
<1>2. bitmap \in SUBSET Blocks /\ used = Cardinality(bitmap) /\ used \in 0..NumBlocks
  BY DEF PoolInv, TypeOK, UsedCountsBlocks
<1>3. CASE Exhausted
  <2>1. Cardinality(bitmap) = NumBlocks
    BY <1>2, <1>3, PoolAssumption DEF Exhausted
  <2> QED
    BY <1>1, <1>2, <2>1, BitmapCounted
<1>4. CASE Blocks \subseteq bitmap
  BY <1>1, <1>2, <1>4
<1> QED
  BY <1>3, <1>4 DEF alloc_returns_null

\* Every step of the pool is one of the allocator, or none.
LEMMA AllocatorStep ==
  ASSUME TailCovered, PoolInv, Idle, [Next]_vars
  PROVE  [Allocator!Next]_(Allocator!vars)
<1>1. CASE UNCHANGED vars
  BY <1>1 DEF vars, Allocator!vars
<1>2. CASE memory_pool_init
  BY <1>2 DEF memory_pool_init, Allocator!Next, Allocator!Open
<1>3. CASE init_fails \/ \E h \in Holders : Write(h)
  <2>1. UNCHANGED <<held, answer>> /\ (life' = "ready") = (life = "ready")
    BY <1>3 DEF init_fails, Write
  <2> QED
    BY <2>1 DEF Allocator!vars
<1>4. CASE memory_pool_destroy
  BY <1>4 DEF memory_pool_destroy, Allocator!Next, Allocator!Close, Nobody, Allocator!Nobody
<1>5. CASE memory_pool_reset
  BY <1>5 DEF memory_pool_reset, Allocator!Next, Allocator!Clear, Nobody, Allocator!Nobody
<1>6. CASE alloc_returns_null
  <2>1. Allocator!Deny
    BY <1>6, NullMeansFull DEF alloc_returns_null, Allocator!Deny
  <2> QED
    BY <2>1 DEF Allocator!Next
<1>7. ASSUME NEW h \in Holders, memory_pool_alloc(h) PROVE Allocator!Grant(h)
  <2>1. Allocator!Taken = bitmap
    BY DEF Allocator!Taken, PoolInv, BlocksBelongToOneHolder
  <2>2. PICK b \in Blocks : /\ FirstFree(b)
                           /\ held' = [held EXCEPT ![h] = @ \cup {b}]
                           /\ answer' = {b}
    BY <1>7 DEF memory_pool_alloc
  <2>3. b \in Blocks \ Allocator!Taken
    BY <2>1, <2>2 DEF FirstFree
  <2>4. life = "ready" /\ life' = life
    BY <1>7 DEF memory_pool_alloc
  <2> QED
    BY <2>2, <2>3, <2>4 DEF Allocator!Grant
<1>8. ASSUME NEW h \in Holders, NEW i \in 0..(NumBlocks + 1), NEW aligned \in BOOLEAN,
             memory_pool_free(h, i, aligned)
      PROVE  UNCHANGED vars \/ Allocator!GiveBack(h)
  BY <1>8, FreeFacts DEF Allocator!GiveBack
<1>9. CASE \E h \in Holders : memory_pool_alloc(h)
  BY <1>7, <1>9 DEF Allocator!Next
<1>10. CASE \E h \in Holders, i \in 0..(NumBlocks + 1), aligned \in BOOLEAN :
              memory_pool_free(h, i, aligned)
  BY <1>1, <1>8, <1>10 DEF Allocator!Next
<1> QED
  BY <1>1, <1>2, <1>3, <1>4, <1>5, <1>6, <1>9, <1>10 DEF Next

\* The pool keeps the promise of BlockAllocator, whatever is freed and however
\* the sizes divide.
THEOREM PoolIsAllocator == ASSUME TailCovered PROVE Spec => ImplementsAllocator
<1>1. Init => Allocator!Init
  BY DEF Init, Allocator!Init, Nobody, Allocator!Nobody
<1>2. PoolInv /\ Idle /\ [Next]_vars => [Allocator!Next]_(Allocator!vars)
  BY AllocatorStep
<1> QED
  BY <1>1, <1>2, PoolInvariance, PTL DEF Spec, Allocator!Spec, ImplementsAllocator

===============================================================================
