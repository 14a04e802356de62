----------------------------- MODULE SecretBuffers -----------------------------
(***************************************************************************)
(* What the users of the secure allocator see: buffers of their own, blank *)
(* when they are new, holding what was written to them until they are      *)
(* given back.  A holder without a buffer has the empty one.               *)
(***************************************************************************)
EXTENDS Integers, Sequences

CONSTANTS
  Holders,   \* the places in the program that keep a pointer
  Byte,      \* contents of a byte
  MaxSize    \* bound on the size of a buffer

VARIABLE buffer

Blank(n) == [i \in 1..n |-> 0]

Init == buffer = [h \in Holders |-> <<>>]

\* A request that memory does not allow leaves the holder without a buffer.
Obtain(h) ==
  \E n \in 1..MaxSize :
    buffer[h] = <<>> /\ buffer' = [buffer EXCEPT ![h] = Blank(n)]

GiveBack(h) == buffer' = [buffer EXCEPT ![h] = <<>>]

Write(h) ==
  \E i \in 1..Len(buffer[h]), v \in Byte : buffer' = [buffer EXCEPT ![h][i] = v]

Wipe(h) == buffer' = [buffer EXCEPT ![h] = Blank(Len(buffer[h]))]

\* The first bytes stay, what is new is blank.
Resize(h) ==
  \E n \in 1..MaxSize :
    buffer' = [buffer EXCEPT ![h] = [i \in 1..n |-> IF i <= Len(@) THEN @[i] ELSE 0]]

Next == \E h \in Holders : Obtain(h) \/ GiveBack(h) \/ Write(h) \/ Wipe(h) \/ Resize(h)

Spec == Init /\ [][Next]_buffer

===============================================================================
