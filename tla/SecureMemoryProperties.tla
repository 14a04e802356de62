------------------------ MODULE SecureMemoryProperties ------------------------
(***************************************************************************)
(* What secure.c promises about contents, and what it can promise about    *)
(* locks.                                                                  *)
(***************************************************************************)
EXTENDS SecureMemory

\* Every variable has its shape.
TypeOK ==
  /\ heap \in [Address -> Secret \cup {Junk}]
  /\ pointer \in [Holders -> Blocks \cup {NULL}]
  /\ locked \subseteq Pages
  /\ refused \subseteq Holders /\ robbed \subseteq Holders

(***************************************************************************)
(* No byte that is free holds anything a holder wrote: neither a free nor  *)
(* a move to another block leaves part of a secret behind (secure.c:19-22, *)
(* 43-46; README.md:293 "All sensitive data is zeroed before free").       *)
(***************************************************************************)
FreeBytesHoldNoSecret == \A a \in Free : heap[a] # 1

(***************************************************************************)
(* A page with a byte of a live block on it is unlocked only when its mlock *)
(* was refused, or when a block on the same page was freed after the lock  *)
(* was taken - the block's own predecessor in a secure_realloc among them  *)
(* (secure.c:11, 18, 42-46).                                               *)
(***************************************************************************)
LocksExplained ==
  \A h \in Holders : PagesOf(pointer[h]) \subseteq locked \/ h \in refused \cup robbed

(***************************************************************************)
(* To its users the heap is a set of buffers: a new one is blank whatever  *)
(* lay there before, a resized one keeps its beginning, and nobody's       *)
(* buffer changes but by its holder (secure.c:10, 42-48).                  *)
(***************************************************************************)
Contents == [h \in Holders |-> [i \in 1..pointer[h].size |-> heap[pointer[h].at + i - 1]]]

Buffers == INSTANCE SecretBuffers WITH buffer <- Contents, Byte <- Secret

ImplementsBuffers == Buffers!Spec

===============================================================================
