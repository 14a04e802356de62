---------------------------- MODULE BlockAllocator ----------------------------
(***************************************************************************)
(* What the users of a pool of equal blocks rely on: a block belongs to    *)
(* one of them at a time, and a request is turned down only when there is  *)
(* no pool or no block left.                                               *)
(***************************************************************************)
CONSTANTS Blocks, Holders

VARIABLES open,    \* whether there is a pool
          held,    \* the blocks each user holds
          answer   \* the block the last request was granted, {} if it was denied

vars == <<open, held, answer>>

Nobody == [h \in Holders |-> {}]
Taken  == UNION {held[h] : h \in Holders}

Init == open = FALSE /\ held = Nobody /\ answer = {}

Open  == open = FALSE /\ open' \in BOOLEAN /\ UNCHANGED <<held, answer>>
Close == open' = FALSE /\ held' = Nobody /\ answer' = {}

Grant(h) == /\ open
            /\ \E b \in Blocks \ Taken :
                 held' = [held EXCEPT ![h] = @ \cup {b}] /\ answer' = {b}
            /\ UNCHANGED open

Deny == /\ ~open \/ Taken = Blocks
        /\ answer' = {}
        /\ UNCHANGED <<open, held>>

GiveBack(h) == /\ open
               /\ \E b \in held[h] : held' = [held EXCEPT ![h] = @ \ {b}]
               /\ UNCHANGED <<open, answer>>

Clear == open /\ held' = Nobody /\ UNCHANGED <<open, answer>>

Next == \/ Open \/ Close \/ Deny \/ Clear
        \/ \E h \in Holders : Grant(h) \/ GiveBack(h)

Spec == Init /\ [][Next]_vars

===============================================================================
