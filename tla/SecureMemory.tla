----------------------------- MODULE SecureMemory -----------------------------
(***************************************************************************)
(* memory/source/secure.c on a heap of bytes and pages.  malloc puts a     *)
(* block anywhere among the bytes that are free, the rest of the program   *)
(* writes to those too, and both malloc and mlock may fail.  A lock is on  *)
(* a whole page and does not count how often it was asked for (mlock(2)).  *)
(***************************************************************************)
EXTENDS Integers, FiniteSets, Sequences

CONSTANTS
  Holders,    \* the places in the program that keep a pointer
  NumBytes,   \* bytes of the heap
  PageSize,   \* bytes of a page
  MaxSize     \* bound on the size asked for

ASSUME SecureAssumption ==
  /\ NumBytes \in Nat /\ PageSize \in Nat \ {0} /\ MaxSize \in Nat \ {0}
  /\ MaxSize <= NumBytes

Secret == {0, 1}     \* what holders write
Junk   == 2          \* what the rest of the program leaves in the heap

Address == 1..NumBytes
Sizes   == 1..MaxSize
PageOf(a) == (a - 1) \div PageSize
Pages   == {PageOf(a) : a \in Address}

NULL == [at |-> 1, size |-> 0]
Blocks == {b \in [at : Address, size : Sizes] : b.at + b.size - 1 <= NumBytes}

BytesOf(b) == b.at..(b.at + b.size - 1)

PagesOf(b) == {PageOf(a) : a \in BytesOf(b)}

\* The pages mlock(b.at, b.size) locks: those with a byte of b.
only_first_page(b)  == {PageOf(b.at)}                       \* variant
LockedFor(b) == PagesOf(b)

VARIABLES
  heap,      \* what each byte holds
  pointer,   \* the block of each holder, or NULL
  locked,    \* pages that are locked
  refused,   \* history: holders whose mlock failed
  robbed     \* history: holders a page of whose block was unlocked by a free

vars == <<heap, pointer, locked, refused, robbed>>

InUse == UNION {BytesOf(pointer[h]) : h \in Holders}
Free  == Address \ InUse

\* The blocks malloc may answer with.
malloc(size) == {b \in Blocks : b.size = size /\ BytesOf(b) \subseteq Free}

Zeroed(bytes) == [a \in Address |-> IF a \in bytes THEN 0 ELSE heap[a]]

\* Holders other than the given one that have a byte on one of these pages.
Sharing(h, pages) ==
  {g \in Holders \ {h} : \E a \in BytesOf(pointer[g]) : PageOf(a) \in pages}

-------------------------------------------------------------------------------

Init ==
  /\ heap \in {[a \in Address |-> v] : v \in {0, Junk}}
  /\ pointer = [h \in Holders |-> NULL]
  /\ locked = {} /\ refused = {} /\ robbed = {}

\* mlock(b), whose answer is not looked at (line 11).
mlock(h, b) ==
  \/ locked' = locked \cup LockedFor(b) /\ refused' = refused \ {h}
  \/ locked' = locked /\ refused' = refused \cup {h}

\* Lines 6-14.  A request for no bytes or one that malloc refuses answers NULL
\* and changes nothing.
secure_alloc(h, size) ==
  /\ pointer[h] = NULL
  /\ \E b \in malloc(size) :
       /\ pointer' = [pointer EXCEPT ![h] = b]
       /\ heap' = Zeroed(BytesOf(b))
       /\ mlock(h, b)
  /\ robbed' = robbed \ {h}

\* Lines 16-25.
secure_free(h) ==
  /\ pointer[h] # NULL
  /\ locked' = locked \ PagesOf(pointer[h])
  /\ robbed' = (robbed \cup Sharing(h, PagesOf(pointer[h]))) \ {h}
  /\ refused' = refused \ {h}
  /\ heap' = Zeroed(BytesOf(pointer[h]))
  /\ pointer' = [pointer EXCEPT ![h] = NULL]

\* Lines 27-34, for the whole of a block.
secure_zero(h) ==
  /\ pointer[h] # NULL
  /\ heap' = Zeroed(BytesOf(pointer[h]))
  /\ UNCHANGED <<pointer, locked, refused, robbed>>

\* The heap after the copy into b and the wipe of old (lines 43-46).  b was
\* zeroed by secure_alloc.
copies_new_size(old, b) ==        \* variant: only what fits in b is wiped
  [a \in Address |->
     IF a \in BytesOf(b)
     THEN IF a - b.at < old.size THEN heap[old.at + (a - b.at)] ELSE 0
     ELSE IF a \in BytesOf(old) /\ a - old.at < b.size THEN 0 ELSE heap[a]]

all_of_old_is_new(old, b) ==      \* variant: the new part is not zeroed
  [a \in Address |->
     IF a \in BytesOf(b) /\ a - b.at < old.size THEN heap[old.at + (a - b.at)]
     ELSE IF a \in BytesOf(old) THEN 0 ELSE heap[a]]

Moved(old, b) ==
  [a \in Address |->
     IF a \in BytesOf(b)
     THEN IF a - b.at < old.size THEN heap[old.at + (a - b.at)] ELSE 0
     ELSE IF a \in BytesOf(old) THEN 0 ELSE heap[a]]

\* Lines 42-48: the new block is locked before the old one is unlocked, and
\* the pages of the old one may be its pages too.  When malloc fails the old
\* block stays as it is.  A realloc of NULL is secure_alloc, one to no bytes
\* secure_free (lines 37-40).
secure_realloc(h, size) ==
  /\ pointer[h] # NULL
  /\ \E b \in malloc(size), granted \in BOOLEAN :
       LET old  == pointer[h]
           took == IF granted THEN locked \cup LockedFor(b) ELSE locked
       IN  /\ heap' = Moved(old, b)
           /\ pointer' = [pointer EXCEPT ![h] = b]
           /\ locked' = took \ PagesOf(old)
           /\ refused' = IF granted THEN refused \ {h} ELSE refused \cup {h}
           /\ robbed' = (robbed \ {h}) \cup Sharing(h, PagesOf(old))
                          \cup {g \in {h} : PagesOf(b) \cap PagesOf(old) # {}}

\* A holder uses its block.
Write(h) ==
  /\ \E a \in BytesOf(pointer[h]), v \in Secret : heap' = [heap EXCEPT ![a] = v]
  /\ UNCHANGED <<pointer, locked, refused, robbed>>

\* The rest of the program has used a byte of the heap and released it.
OthersWrite ==
  /\ \E a \in Free : heap' = [heap EXCEPT ![a] = Junk]
  /\ UNCHANGED <<pointer, locked, refused, robbed>>

Next ==
  \/ \E h \in Holders :
       \/ \E size \in Sizes : secure_alloc(h, size) \/ secure_realloc(h, size)
       \/ secure_free(h) \/ secure_zero(h) \/ Write(h)
  \/ OthersWrite

Spec == Init /\ [][Next]_vars

===============================================================================
