-------------------------- MODULE SecureMemoryProofs --------------------------
(***************************************************************************)
(* The secure allocator on a heap of any size, with pages of any size and  *)
(* any holders.                                                            *)
(***************************************************************************)
EXTENDS SecureMemoryProperties, TLAPS

\* No two holders share a byte.
Apart ==
  \A g, h \in Holders : g # h => BytesOf(pointer[g]) \cap BytesOf(pointer[h]) = {}

MemoryInv == TypeOK /\ Apart /\ FreeBytesHoldNoSecret /\ LocksExplained

-------------------------------------------------------------------------------
(* Blocks *)

LEMMA BlockBytes ==
  ASSUME NEW b \in Blocks \cup {NULL}
  PROVE  /\ BytesOf(b) \subseteq Address /\ PagesOf(b) \subseteq Pages
         /\ b.size \in Nat /\ b.at \in Nat
         /\ \A i \in 1..b.size : b.at + i - 1 \in BytesOf(b)
         /\ \A a \in BytesOf(b) : a - b.at \in 0..(b.size - 1)
<1>1. NumBytes \in Nat
  BY SecureAssumption
<1>2. b.at \in Nat /\ b.at >= 1 /\ b.size \in Nat /\ (b.size # 0 => b.at + b.size - 1 <= NumBytes)
  <2>1. CASE b \in Blocks
    BY <1>1, <2>1, SecureAssumption DEF Blocks, Address, Sizes
  <2>2. CASE b = NULL
    BY <2>2 DEF NULL
  <2> QED
    BY <2>1, <2>2
<1>3. BytesOf(b) \subseteq Address
  BY <1>1, <1>2 DEF BytesOf, Address
<1>4. PagesOf(b) \subseteq Pages
  BY <1>3 DEF PagesOf, Pages
<1>5. \A i \in 1..b.size : b.at + i - 1 \in BytesOf(b)
  BY <1>2 DEF BytesOf
<1>6. \A a \in BytesOf(b) : a - b.at \in 0..(b.size - 1)
  BY <1>2 DEF BytesOf
<1> QED
  BY <1>2, <1>3, <1>4, <1>5, <1>6

LEMMA NothingOfNull == BytesOf(NULL) = {} /\ PagesOf(NULL) = {} /\ NULL.size = 0
<1>1. BytesOf(NULL) = {} /\ NULL.size = 0
  BY DEF BytesOf, NULL
<1> QED
  BY <1>1 DEF PagesOf

LEMMA InUseOrFree ==
  ASSUME TypeOK
  PROVE  \A a \in Address : a \in Free <=> \A h \in Holders : a \notin BytesOf(pointer[h])
  BY DEF Free, InUse

-------------------------------------------------------------------------------
(* Steps.  A new heap and new pointers are enough for the three invariants   *)
(* about contents.                                                           *)

\* One holder gets a block of free bytes and gives its own up, if it has one:
\* allocation, release and a move between blocks.
LEMMA BlockExchanged ==
  ASSUME MemoryInv, NEW h \in Holders, NEW b \in Blocks \cup {NULL},
         BytesOf(b) \subseteq Free,
         pointer' = [pointer EXCEPT ![h] = b],
         heap' \in [Address -> Secret \cup {Junk}],
         \A a \in BytesOf(pointer[h]) : heap'[a] # 1,
         \A a \in Address : a \notin BytesOf(b) \cup BytesOf(pointer[h]) => heap'[a] = heap[a]
  PROVE  /\ pointer' \in [Holders -> Blocks \cup {NULL}]
         /\ Apart' /\ FreeBytesHoldNoSecret'
<1>1. pointer \in [Holders -> Blocks \cup {NULL}]
  BY DEF MemoryInv, TypeOK
<1>2. \A g \in Holders : pointer'[g] = IF g = h THEN b ELSE pointer[g]
  BY <1>1
<1>3. \A g \in Holders : BytesOf(pointer[g]) \cap BytesOf(b) = {}
  BY DEF Free, InUse
<1>4. Apart'
  <2>1. ASSUME NEW f \in Holders, NEW g \in Holders, f # g
        PROVE  BytesOf(pointer'[f]) \cap BytesOf(pointer'[g]) = {}
    <3>1. BytesOf(pointer[f]) \cap BytesOf(pointer[g]) = {}
      BY <2>1 DEF MemoryInv, Apart
    <3> QED
      BY <1>2, <1>3, <2>1, <3>1
  <2> QED
    BY <2>1 DEF Apart, BytesOf
<1>5. FreeBytesHoldNoSecret'
  <2>1. ASSUME NEW a \in Address, \A g \in Holders : a \notin BytesOf(pointer'[g])
        PROVE  heap'[a] # 1
    <3>1. a \notin BytesOf(b) /\ \A g \in Holders \ {h} : a \notin BytesOf(pointer[g])
      BY <1>2, <2>1
    <3>2. CASE a \in BytesOf(pointer[h])
      BY <3>2
    <3>3. CASE a \notin BytesOf(pointer[h])
      <4>1. a \in Free /\ heap'[a] = heap[a]
        BY <3>1, <3>3 DEF Free, InUse
      <4> QED
        BY <4>1 DEF MemoryInv, FreeBytesHoldNoSecret
    <3> QED
      BY <3>2, <3>3
  <2> QED
    BY <2>1 DEF FreeBytesHoldNoSecret, Free, InUse, BytesOf
<1> QED
  BY <1>1, <1>4, <1>5

\* A block keeps its pages unless they are unlocked under it.
LEMMA LocksKept ==
  ASSUME MemoryInv, NEW h \in Holders, NEW b \in Blocks \cup {NULL}, NEW freed, NEW own,
         pointer' = [pointer EXCEPT ![h] = b],
         locked \ freed \subseteq locked',
         refused \ {h} \subseteq refused',
         (robbed \ {h}) \cup Sharing(h, freed) \subseteq robbed',
         PagesOf(b) \subseteq locked' \/ h \in refused' \cup robbed'
  PROVE  LocksExplained'
<1>1. pointer \in [Holders -> Blocks \cup {NULL}]
  BY DEF MemoryInv, TypeOK
<1>2. \A g \in Holders : pointer'[g] = IF g = h THEN b ELSE pointer[g]
  BY <1>1
<1>3. ASSUME NEW g \in Holders
      PROVE  PagesOf(pointer'[g]) \subseteq locked' \/ g \in refused' \cup robbed'
  <2>1. CASE g = h
    BY <1>2, <2>1
  <2>2. CASE g # h
    <3>1. PagesOf(pointer[g]) \subseteq locked \/ g \in refused \cup robbed
      BY DEF MemoryInv, LocksExplained
    <3>2. pointer'[g] = pointer[g]
      BY <1>2, <2>2
    <3>3. CASE PagesOf(pointer[g]) \cap freed = {}
      BY <2>2, <3>1, <3>2, <3>3
    <3>4. CASE PagesOf(pointer[g]) \cap freed # {}
      <4>1. g \in Sharing(h, freed)
        BY <2>2, <3>4 DEF Sharing, PagesOf
      <4> QED
        BY <4>1
    <3> QED
      BY <3>3, <3>4
  <2> QED
    BY <2>1, <2>2
<1> QED
  BY <1>3 DEF LocksExplained, PagesOf, BytesOf, PageOf

\* What malloc answers with.
LEMMA MallocAnswers ==
  ASSUME NEW size, NEW b \in malloc(size)
  PROVE  b \in Blocks /\ b.size = size /\ BytesOf(b) \subseteq Free
  BY DEF malloc

LEMMA ZeroedHeap ==
  ASSUME TypeOK, NEW bytes
  PROVE  /\ Zeroed(bytes) \in [Address -> Secret \cup {Junk}]
         /\ \A a \in Address : Zeroed(bytes)[a] = IF a \in bytes THEN 0 ELSE heap[a]
  BY DEF TypeOK, Zeroed, Secret

LEMMA AllocStep ==
  ASSUME MemoryInv, NEW h \in Holders, NEW size \in Sizes, secure_alloc(h, size)
  PROVE  MemoryInv'
<1>1. PICK b \in malloc(size) :
        pointer' = [pointer EXCEPT ![h] = b] /\ heap' = Zeroed(BytesOf(b)) /\ mlock(h, b)
  BY DEF secure_alloc
<1>2. pointer[h] = NULL /\ robbed' = robbed \ {h}
  BY DEF secure_alloc
<1>3. b \in Blocks /\ BytesOf(b) \subseteq Free
  BY MallocAnswers
<1>4. TypeOK /\ PagesOf(b) \subseteq Pages
  BY <1>3, BlockBytes DEF MemoryInv
<1>5. /\ heap' \in [Address -> Secret \cup {Junk}]
      /\ \A a \in Address : heap'[a] = IF a \in BytesOf(b) THEN 0 ELSE heap[a]
  BY <1>1, <1>4, ZeroedHeap
<1>6. BytesOf(pointer[h]) = {}
  BY <1>2, NothingOfNull
<1>7. /\ pointer' \in [Holders -> Blocks \cup {NULL}]
      /\ Apart' /\ FreeBytesHoldNoSecret'
  BY <1>1, <1>3, <1>5, <1>6, BlockExchanged
<1>8. locked' \subseteq Pages /\ refused' \subseteq Holders /\ robbed' \subseteq Holders
  BY <1>1, <1>2, <1>4 DEF mlock, LockedFor, TypeOK
<1>9. LocksExplained'
  <2>1. locked \ {} \subseteq locked' /\ refused \ {h} \subseteq refused'
        /\ (PagesOf(b) \subseteq locked' \/ h \in refused')
    BY <1>1 DEF mlock, LockedFor
  <2>2. (robbed \ {h}) \cup Sharing(h, {}) \subseteq robbed'
    BY <1>2 DEF Sharing
  <2> QED
    BY <1>1, <1>3, <2>1, <2>2, LocksKept
<1> QED
  BY <1>5, <1>7, <1>8, <1>9 DEF MemoryInv, TypeOK

LEMMA FreeStep ==
  ASSUME MemoryInv, NEW h \in Holders, secure_free(h) PROVE MemoryInv'
<1> DEFINE old == pointer[h]
<1>1. /\ pointer' = [pointer EXCEPT ![h] = NULL] /\ heap' = Zeroed(BytesOf(old))
      /\ locked' = locked \ PagesOf(old) /\ refused' = refused \ {h}
      /\ robbed' = (robbed \cup Sharing(h, PagesOf(old))) \ {h}
  BY DEF secure_free
<1>2. TypeOK
  BY DEF MemoryInv
<1>3. /\ heap' \in [Address -> Secret \cup {Junk}]
      /\ \A a \in Address : heap'[a] = IF a \in BytesOf(old) THEN 0 ELSE heap[a]
  BY <1>1, <1>2, ZeroedHeap
<1>4. BytesOf(old) \subseteq Address
  BY <1>2, BlockBytes DEF TypeOK
<1>5. /\ pointer' \in [Holders -> Blocks \cup {NULL}]
      /\ Apart' /\ FreeBytesHoldNoSecret'
  <2>1. BytesOf(NULL) \subseteq Free
    BY NothingOfNull
  <2>2. \A a \in BytesOf(old) : heap'[a] # 1
    BY <1>3, <1>4
  <2>3. \A a \in Address : a \notin BytesOf(NULL) \cup BytesOf(old) => heap'[a] = heap[a]
    BY <1>3
  <2> QED
    BY <1>1, <1>3, <2>1, <2>2, <2>3, BlockExchanged
<1>6. locked' \subseteq Pages /\ refused' \subseteq Holders /\ robbed' \subseteq Holders
  BY <1>1, <1>2 DEF TypeOK, Sharing
<1>7. LocksExplained'
  <2>1. (robbed \ {h}) \cup Sharing(h, PagesOf(old)) \subseteq robbed'
    BY <1>1 DEF Sharing
  <2>2. PagesOf(NULL) \subseteq locked'
    BY NothingOfNull
  <2> QED
    BY <1>1, <2>1, <2>2, LocksKept
<1> QED
  BY <1>3, <1>5, <1>6, <1>7 DEF MemoryInv, TypeOK

LEMMA ReallocStep ==
  ASSUME MemoryInv, NEW h \in Holders, NEW size \in Sizes, secure_realloc(h, size)
  PROVE  MemoryInv'
<1> DEFINE old == pointer[h]
<1>1. PICK b \in malloc(size), granted \in BOOLEAN :
        LET took == IF granted THEN locked \cup LockedFor(b) ELSE locked
        IN  /\ heap' = Moved(old, b)
            /\ pointer' = [pointer EXCEPT ![h] = b]
            /\ locked' = took \ PagesOf(old)
            /\ refused' = IF granted THEN refused \ {h} ELSE refused \cup {h}
            /\ robbed' = (robbed \ {h}) \cup Sharing(h, PagesOf(old))
                           \cup {g \in {h} : PagesOf(b) \cap PagesOf(old) # {}}
  BY DEF secure_realloc
<1>2. TypeOK /\ old \in Blocks \cup {NULL}
  BY DEF MemoryInv, TypeOK
<1>3. b \in Blocks /\ BytesOf(b) \subseteq Free
  BY MallocAnswers
<1>4. PagesOf(b) \subseteq Pages /\ BytesOf(b) \subseteq Address /\ BytesOf(old) \subseteq Address
  BY <1>2, <1>3, BlockBytes
<1>5. BytesOf(b) \cap BytesOf(old) = {}
  BY <1>3 DEF Free, InUse
<1>6. \A a \in Address :
        heap'[a] = IF a \in BytesOf(b)
                   THEN IF a - b.at < old.size THEN heap[old.at + (a - b.at)] ELSE 0
                   ELSE IF a \in BytesOf(old) THEN 0 ELSE heap[a]
  BY <1>1 DEF Moved
<1>7. heap' \in [Address -> Secret \cup {Junk}]
  <2>1. ASSUME NEW a \in Address PROVE heap'[a] \in Secret \cup {Junk}
    <3>1. heap \in [Address -> Secret \cup {Junk}] /\ 0 \in Secret
      BY <1>2 DEF TypeOK, Secret
    <3>2. CASE a \in BytesOf(b) /\ a - b.at < old.size
      <4>1. a - b.at \in Nat /\ b.at \in Nat /\ a \in Nat
        BY <1>3, <3>2, BlockBytes, SecureAssumption DEF Address
      <4>2. old.at + (a - b.at) \in BytesOf(old)
        <5>1. (a - b.at) + 1 \in 1..old.size /\ old.at \in Nat
          BY <1>2, <3>2, <4>1, BlockBytes
        <5>2. old.at + ((a - b.at) + 1) - 1 \in BytesOf(old)
          BY <1>2, <5>1, BlockBytes
        <5>3. old.at + ((a - b.at) + 1) - 1 = old.at + (a - b.at)
          BY <4>1, <5>1
        <5> QED
          BY <5>2, <5>3
      <4>3. old.at + (a - b.at) \in Address
        BY <1>4, <4>2
      <4> QED
        BY <1>6, <3>1, <3>2, <4>3
    <3> QED
      BY <1>6, <3>1, <3>2
  <2>2. heap' = [a \in Address |-> heap'[a]]
    BY <1>1 DEF Moved
  <2> QED
    BY <2>1, <2>2
<1>8. /\ pointer' \in [Holders -> Blocks \cup {NULL}]
      /\ Apart' /\ FreeBytesHoldNoSecret'
  <2>1. \A a \in BytesOf(old) : heap'[a] # 1
    BY <1>4, <1>5, <1>6
  <2>2. \A a \in Address : a \notin BytesOf(b) \cup BytesOf(old) => heap'[a] = heap[a]
    BY <1>6
  <2> QED
    BY <1>1, <1>3, <1>7, <2>1, <2>2, BlockExchanged
<1>9. locked' \subseteq Pages /\ refused' \subseteq Holders /\ robbed' \subseteq Holders
  BY <1>1, <1>2, <1>4 DEF TypeOK, Sharing, LockedFor
<1>10. LocksExplained'
  <2>1. locked \ PagesOf(old) \subseteq locked' /\ refused \ {h} \subseteq refused'
        /\ (robbed \ {h}) \cup Sharing(h, PagesOf(old)) \subseteq robbed'
    BY <1>1
  <2>2. PagesOf(b) \subseteq locked' \/ h \in refused' \cup robbed'
    BY <1>1 DEF LockedFor
  <2> QED
    BY <1>1, <1>3, <2>1, <2>2, LocksKept
<1> QED
  BY <1>7, <1>8, <1>9, <1>10 DEF MemoryInv, TypeOK

\* Steps that write to the heap and leave blocks and locks alone.
LEMMA HeapWritten ==
  ASSUME MemoryInv, UNCHANGED <<pointer, locked, refused, robbed>>,
         heap' \in [Address -> Secret \cup {Junk}],
         \A a \in Free : heap'[a] # 1
  PROVE  MemoryInv'
<1>1. TypeOK' /\ Apart' /\ LocksExplained'
  BY DEF MemoryInv, TypeOK, Apart, LocksExplained, BytesOf, PagesOf, PageOf
<1>2. Free' = Free
  BY DEF Free, InUse, BytesOf
<1>3. FreeBytesHoldNoSecret'
  BY <1>2 DEF FreeBytesHoldNoSecret
<1> QED
  BY <1>1, <1>3 DEF MemoryInv

LEMMA UseStep ==
  ASSUME MemoryInv, NEW h \in Holders, secure_zero(h) \/ Write(h) PROVE MemoryInv'
<1>1. TypeOK /\ \A a \in Free : a \in Address /\ a \notin BytesOf(pointer[h]) /\ heap[a] # 1
  BY DEF MemoryInv, FreeBytesHoldNoSecret, Free, InUse
<1>2. CASE secure_zero(h)
  BY <1>1, <1>2, ZeroedHeap, HeapWritten DEF secure_zero
<1>3. CASE Write(h)
  <2>1. PICK a \in BytesOf(pointer[h]), v \in Secret : heap' = [heap EXCEPT ![a] = v]
    BY <1>3 DEF Write
  <2>2. heap' \in [Address -> Secret \cup {Junk}]
    BY <1>1, <2>1 DEF TypeOK
  <2>3. \A c \in Free : heap'[c] # 1
    BY <1>1, <2>1 DEF TypeOK
  <2> QED
    BY <1>3, <2>2, <2>3, HeapWritten DEF Write
<1> QED
  BY <1>2, <1>3

LEMMA OthersStep == ASSUME MemoryInv, OthersWrite PROVE MemoryInv'
<1>1. PICK a \in Free : heap' = [heap EXCEPT ![a] = Junk]
  BY DEF OthersWrite
<1>2. heap' \in [Address -> Secret \cup {Junk}] /\ \A c \in Free : heap'[c] # 1
  BY <1>1 DEF MemoryInv, TypeOK, FreeBytesHoldNoSecret, Free, Junk
<1> QED
  BY <1>2, HeapWritten DEF OthersWrite

LEMMA MemoryInductive == MemoryInv /\ [Next]_vars => MemoryInv'
<1> SUFFICES ASSUME MemoryInv, [Next]_vars PROVE MemoryInv'
  OBVIOUS
<1>1. CASE UNCHANGED vars
  BY <1>1 DEF vars, MemoryInv, TypeOK, Apart, FreeBytesHoldNoSecret, LocksExplained,
              Free, InUse, BytesOf, PagesOf, PageOf
<1> QED
  BY <1>1, AllocStep, FreeStep, ReallocStep, UseStep, OthersStep DEF Next

LEMMA MemoryStarts == Init => MemoryInv
<1> SUFFICES ASSUME Init PROVE MemoryInv
  OBVIOUS
<1>1. \A h \in Holders : pointer[h] = NULL
  BY DEF Init
<1>2. TypeOK
  BY DEF Init, TypeOK, Secret, Junk
<1>3. \A a \in Address : heap[a] # 1
  BY DEF Init, Junk
<1> QED
  BY <1>1, <1>2, <1>3, NothingOfNull
     DEF MemoryInv, Apart, FreeBytesHoldNoSecret, LocksExplained, Free

\* FreeBytesHoldNoSecret, on every heap.
THEOREM SecretsAreWiped == Spec => []FreeBytesHoldNoSecret
<1>1. MemoryInv => FreeBytesHoldNoSecret
  BY DEF MemoryInv
<1> QED
  BY <1>1, MemoryStarts, MemoryInductive, PTL DEF Spec

\* LocksExplained, on every heap and for pages of every size.
THEOREM LostLocksHaveACause == Spec => []LocksExplained
<1>1. MemoryInv => LocksExplained
  BY DEF MemoryInv
<1> QED
  BY <1>1, MemoryStarts, MemoryInductive, PTL DEF Spec

-------------------------------------------------------------------------------
(* Buffers *)

\* The buffers of all but h are what they were.
LEMMA OthersKeepTheirs ==
  ASSUME MemoryInv, NEW h \in Holders,
         \A g \in Holders \ {h} :
            /\ pointer'[g] = pointer[g]
            /\ \A a \in BytesOf(pointer[g]) : heap'[a] = heap[a]
  PROVE  Contents' = [Contents EXCEPT ![h] = Contents'[h]]
<1>1. ASSUME NEW g \in Holders, g # h PROVE Contents'[g] = Contents[g]
  <2>1. pointer'[g] = pointer[g] /\ \A a \in BytesOf(pointer[g]) : heap'[a] = heap[a]
    BY <1>1
  <2>2. pointer[g] \in Blocks \cup {NULL}
    BY DEF MemoryInv, TypeOK
  <2>3. \A i \in 1..pointer[g].size :
          heap'[pointer[g].at + i - 1] = heap[pointer[g].at + i - 1]
    BY <2>1, <2>2, BlockBytes
  <2> QED
    BY <2>1, <2>3 DEF Contents
<1> QED
  BY <1>1 DEF Contents

LEMMA BytesOfOthers ==
  ASSUME MemoryInv, NEW h \in Holders, NEW g \in Holders, g # h,
         NEW a \in BytesOf(pointer[g])
  PROVE  a \in Address /\ a \notin Free /\ a \notin BytesOf(pointer[h])
<1>1. pointer[g] \in Blocks \cup {NULL}
  BY DEF MemoryInv, TypeOK
<1>2. a \in Address
  BY <1>1, BlockBytes
<1>3. BytesOf(pointer[g]) \cap BytesOf(pointer[h]) = {}
  BY DEF MemoryInv, Apart
<1> QED
  BY <1>2, <1>3 DEF Free, InUse

LEMMA AllocIsObtain ==
  ASSUME MemoryInv, NEW h \in Holders, NEW size \in Sizes, secure_alloc(h, size)
  PROVE  Buffers!Obtain(h)
<1>1. PICK b \in malloc(size) :
        pointer' = [pointer EXCEPT ![h] = b] /\ heap' = Zeroed(BytesOf(b))
  BY DEF secure_alloc
<1>2. pointer \in [Holders -> Blocks \cup {NULL}] /\ TypeOK /\ pointer[h] = NULL
  BY DEF MemoryInv, TypeOK, secure_alloc
<1>3. b \in Blocks /\ b.size = size /\ BytesOf(b) \subseteq Free /\ BytesOf(b) \subseteq Address
  BY MallocAnswers, BlockBytes
<1>4. \A a \in Address : heap'[a] = IF a \in BytesOf(b) THEN 0 ELSE heap[a]
  BY <1>1, <1>2, ZeroedHeap
<1>5. Contents' = [Contents EXCEPT ![h] = Contents'[h]]
  BY <1>1, <1>2, <1>3, <1>4, BytesOfOthers, OthersKeepTheirs
<1>6. Contents'[h] = Buffers!Blank(size)
  <2>1. pointer'[h] = b
    BY <1>1, <1>2
  <2>2. \A i \in 1..size : heap'[b.at + i - 1] = 0
    BY <1>3, <1>4, BlockBytes
  <2> QED
    BY <1>3, <2>1, <2>2 DEF Contents, Buffers!Blank
<1>7. Contents[h] = <<>>
  BY <1>2, NothingOfNull DEF Contents
<1> QED
  BY <1>5, <1>6, <1>7 DEF Buffers!Obtain, Sizes

LEMMA FreeIsGiveBack ==
  ASSUME MemoryInv, NEW h \in Holders, secure_free(h) PROVE Buffers!GiveBack(h)
<1>1. pointer' = [pointer EXCEPT ![h] = NULL] /\ heap' = Zeroed(BytesOf(pointer[h]))
  BY DEF secure_free
<1>2. pointer \in [Holders -> Blocks \cup {NULL}] /\ TypeOK
  BY DEF MemoryInv, TypeOK
<1>3. \A a \in Address : heap'[a] = IF a \in BytesOf(pointer[h]) THEN 0 ELSE heap[a]
  BY <1>1, <1>2, ZeroedHeap
<1>4. Contents' = [Contents EXCEPT ![h] = Contents'[h]]
  BY <1>1, <1>2, <1>3, BytesOfOthers, OthersKeepTheirs
<1>5. Contents'[h] = <<>>
  BY <1>1, <1>2, NothingOfNull DEF Contents
<1> QED
  BY <1>4, <1>5 DEF Buffers!GiveBack

LEMMA ZeroIsWipe ==
  ASSUME MemoryInv, NEW h \in Holders, secure_zero(h) PROVE Buffers!Wipe(h)
<1>1. pointer' = pointer /\ heap' = Zeroed(BytesOf(pointer[h])) /\ TypeOK
      /\ pointer[h] \in Blocks \cup {NULL}
  BY DEF secure_zero, MemoryInv, TypeOK
<1>2. \A a \in Address : heap'[a] = IF a \in BytesOf(pointer[h]) THEN 0 ELSE heap[a]
  BY <1>1, ZeroedHeap
<1>3. Contents' = [Contents EXCEPT ![h] = Contents'[h]]
  BY <1>1, <1>2, BytesOfOthers, OthersKeepTheirs
<1>4. Contents'[h] = Buffers!Blank(Len(Contents[h]))
  <2>1. pointer[h].size \in Nat /\ Contents[h] = [i \in 1..pointer[h].size |-> heap[pointer[h].at + i - 1]]
    BY <1>1, BlockBytes DEF Contents
  <2>2. Len(Contents[h]) = pointer[h].size
    BY <2>1
  <2>3. \A i \in 1..pointer[h].size : heap'[pointer[h].at + i - 1] = 0
    BY <1>1, <1>2, BlockBytes
  <2> QED
    BY <1>1, <2>2, <2>3 DEF Contents, Buffers!Blank
<1> QED
  BY <1>3, <1>4 DEF Buffers!Wipe

LEMMA WriteIsWrite ==
  ASSUME MemoryInv, NEW h \in Holders, Write(h) PROVE Buffers!Write(h)
<1>1. PICK a \in BytesOf(pointer[h]), v \in Secret :
        heap' = [heap EXCEPT ![a] = v] /\ pointer' = pointer
  BY DEF Write
<1>2. heap \in [Address -> Secret \cup {Junk}] /\ pointer[h] \in Blocks \cup {NULL}
  BY DEF MemoryInv, TypeOK
<1> DEFINE at == pointer[h].at
           size == pointer[h].size
           i == a - at + 1
<1>3. at \in Nat /\ size \in Nat /\ a \in Address /\ a - at \in 0..(size - 1)
  BY <1>1, <1>2, BlockBytes
<1>4. a \in Int /\ i \in 1..size
  BY <1>3, SecureAssumption DEF Address
<1>5. Contents' = [Contents EXCEPT ![h] = Contents'[h]]
  BY <1>1, <1>2, BytesOfOthers, OthersKeepTheirs
<1>6. Contents[h] = [j \in 1..size |-> heap[at + j - 1]] /\ Len(Contents[h]) = size
  BY <1>3 DEF Contents
<1>7. Contents'[h] = [Contents[h] EXCEPT ![i] = v]
  <2>1. Contents'[h] = [j \in 1..size |-> heap'[at + j - 1]]
    BY <1>1 DEF Contents
  <2>2. ASSUME NEW j \in 1..size
        PROVE  heap'[at + j - 1] = IF j = i THEN v ELSE heap[at + j - 1]
    <3>1. at + j - 1 \in Address
      BY <1>2, <2>2, BlockBytes
    <3>2. at + j - 1 = a <=> j = i
      BY <1>3, <1>4, <2>2
    <3> QED
      BY <1>1, <1>2, <3>1, <3>2
  <2> HIDE DEF at, size, i
  <2>3. Contents'[h] = [j \in 1..size |-> IF j = i THEN v ELSE heap[at + j - 1]]
    BY <2>1, <2>2
  <2>4. [Contents[h] EXCEPT ![i] = v] = [j \in 1..size |-> IF j = i THEN v ELSE heap[at + j - 1]]
    BY <1>6
  <2> QED
    BY <2>3, <2>4
<1>8. Contents' = [Contents EXCEPT ![h] = [Contents[h] EXCEPT ![i] = v]]
  BY <1>5, <1>7
<1> HIDE DEF i
<1>9. Contents' = [Contents EXCEPT ![h][i] = v]
  BY <1>8
<1> QED
  BY <1>1, <1>4, <1>6, <1>9 DEF Buffers!Write

LEMMA ReallocIsResize ==
  ASSUME MemoryInv, NEW h \in Holders, NEW size \in Sizes, secure_realloc(h, size)
  PROVE  Buffers!Resize(h)
<1> DEFINE old == pointer[h]
<1>1. PICK b \in malloc(size) :
        heap' = Moved(old, b) /\ pointer' = [pointer EXCEPT ![h] = b]
  BY DEF secure_realloc
<1>2. pointer \in [Holders -> Blocks \cup {NULL}] /\ old \in Blocks \cup {NULL}
  BY DEF MemoryInv, TypeOK
<1>3. b \in Blocks /\ b.size = size /\ BytesOf(b) \subseteq Free /\ BytesOf(b) \subseteq Address
  BY MallocAnswers, BlockBytes
<1>4. \A a \in Address :
        heap'[a] = IF a \in BytesOf(b)
                   THEN IF a - b.at < old.size THEN heap[old.at + (a - b.at)] ELSE 0
                   ELSE IF a \in BytesOf(old) THEN 0 ELSE heap[a]
  BY <1>1 DEF Moved
<1>5. Contents' = [Contents EXCEPT ![h] = Contents'[h]]
  BY <1>1, <1>2, <1>3, <1>4, BytesOfOthers, OthersKeepTheirs
<1>6. old.size \in Nat /\ old.at \in Nat /\ b.at \in Nat /\ size \in Nat
  BY <1>2, <1>3, BlockBytes, SecureAssumption DEF Sizes
<1>7. Contents[h] = [i \in 1..old.size |-> heap[old.at + i - 1]] /\ Len(Contents[h]) = old.size
  BY <1>6 DEF Contents
<1>8. Contents'[h] = [i \in 1..size |-> IF i <= Len(Contents[h]) THEN Contents[h][i] ELSE 0]
  <2>1. Contents'[h] = [i \in 1..size |-> heap'[b.at + i - 1]]
    BY <1>1, <1>2, <1>3 DEF Contents
  <2>2. ASSUME NEW i \in 1..size
        PROVE  heap'[b.at + i - 1] = IF i <= old.size THEN heap[old.at + i - 1] ELSE 0
    <3>1. b.at + i - 1 \in BytesOf(b) /\ b.at + i - 1 \in Address
      BY <1>3, <2>2, BlockBytes
    <3>2. (b.at + i - 1) - b.at = i - 1 /\ (i - 1 < old.size <=> i <= old.size)
          /\ old.at + (i - 1) = old.at + i - 1
      BY <1>6, <2>2
    <3> QED
      BY <1>4, <3>1, <3>2
  <2>3. ASSUME NEW i \in 1..size, i <= old.size PROVE Contents[h][i] = heap[old.at + i - 1]
    BY <1>6, <1>7, <2>3
  <2>4. \A i \in 1..size :
          heap'[b.at + i - 1] = IF i <= Len(Contents[h]) THEN Contents[h][i] ELSE 0
    BY <1>7, <2>2, <2>3
  <2> HIDE DEF old
  <2> QED
    BY <2>1, <2>4
<1> QED
  BY <1>5, <1>8 DEF Buffers!Resize, Sizes

LEMMA OthersWriteStutters ==
  ASSUME MemoryInv, OthersWrite PROVE UNCHANGED Contents
<1>1. PICK c \in Free : heap' = [heap EXCEPT ![c] = Junk] /\ pointer' = pointer
  BY DEF OthersWrite
<1>2. ASSUME NEW g \in Holders PROVE Contents'[g] = Contents[g]
  <2>1. pointer[g] \in Blocks \cup {NULL} /\ heap \in [Address -> Secret \cup {Junk}]
    BY DEF MemoryInv, TypeOK
  <2>2. c \notin BytesOf(pointer[g])
    BY DEF Free, InUse
  <2>3. \A i \in 1..pointer[g].size :
          heap'[pointer[g].at + i - 1] = heap[pointer[g].at + i - 1]
    BY <1>1, <2>1, <2>2, BlockBytes
  <2> QED
    BY <1>1, <2>3 DEF Contents
<1> QED
  BY <1>2 DEF Contents

(***************************************************************************)
(* ImplementsBuffers, on every heap: alloc, free, zero and realloc are     *)
(* what their users take them for, wherever malloc puts their blocks.      *)
(***************************************************************************)
THEOREM ImplementsSecretBuffers == Spec => ImplementsBuffers
<1>1. Init => Buffers!Init
  <2> SUFFICES ASSUME Init PROVE Buffers!Init
    OBVIOUS
  <2>1. \A h \in Holders : pointer[h] = NULL
    BY DEF Init
  <2>2. \A h \in Holders : Contents[h] = <<>>
    BY <2>1, NothingOfNull DEF Contents
  <2> QED
    BY <2>2 DEF Buffers!Init, Contents
<1>2. MemoryInv /\ [Next]_vars => [Buffers!Next]_Contents
  <2> SUFFICES ASSUME MemoryInv, [Next]_vars PROVE [Buffers!Next]_Contents
    OBVIOUS
  <2>1. CASE UNCHANGED vars
    BY <2>1 DEF vars, Contents
  <2>2. CASE OthersWrite
    BY <2>2, OthersWriteStutters
  <2>3. ASSUME NEW h \in Holders,
               \/ \E size \in Sizes : secure_alloc(h, size) \/ secure_realloc(h, size)
               \/ secure_free(h) \/ secure_zero(h) \/ Write(h)
        PROVE  Buffers!Next
    BY <2>3, AllocIsObtain, ReallocIsResize, FreeIsGiveBack, ZeroIsWipe, WriteIsWrite
       DEF Buffers!Next
  <2> QED
    BY <2>1, <2>2, <2>3 DEF Next
<1> QED
  BY <1>1, <1>2, MemoryStarts, MemoryInductive, PTL
     DEF Spec, ImplementsBuffers, Buffers!Spec

===============================================================================
