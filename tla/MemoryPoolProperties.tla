------------------------- MODULE MemoryPoolProperties -------------------------
(***************************************************************************)
(* What the bitmap and the counter of pool.c give the users of a pool.     *)
(***************************************************************************)
EXTENDS MemoryPool

\* The shape of every variable.
TypeOK ==
  /\ life \in {"raw", "ready", "failed", "zeroed"}
  /\ bitmap \in SUBSET Blocks
  /\ used \in 0..NumBlocks
  /\ held \in [Holders -> SUBSET Blocks]
  /\ dirty \in SUBSET Blocks
  /\ answer \in SUBSET Blocks

\* The counter and the bitmap, which init, alloc, free and reset change one
\* after the other (pool.c:48-49, 68-70, 77-79), never part, whatever pointers
\* are freed and however often.
UsedCountsBlocks == used = Cardinality(bitmap)

\* A block is held by one user at most, and a bit is set exactly for the blocks
\* that are held: none is lost, none is handed out under its holder.
BlocksBelongToOneHolder ==
  /\ bitmap = UNION {held[h] : h \in Holders}
  /\ \A g, h \in Holders : g # h => held[g] \cap held[h] = {}

\* The next user of a block never sees what the last one wrote, by whichever
\* way the block came free (pool.c:71, 78).
FreeBlocksHoldNoData == dirty \subseteq bitmap

\* The pool is the allocator its users rely on: in particular NULL means that
\* every block is held, also when the region has a tail.
Allocator == INSTANCE BlockAllocator WITH open <- life = "ready"

ImplementsAllocator == Allocator!Spec

===============================================================================
