----------------------------- MODULE BlockStore -----------------------------
(***************************************************************************)
(* What the buffer cache promises: one copy of every block, used by one    *)
(* process at a time; a block that is taken holds what was last stored in  *)
(* it.                                                                     *)
(***************************************************************************)
CONSTANTS Proc, Block, Data, Free

VARIABLES
    store,   \* contents of each block
    holder   \* the process that has it, or Free

Init ==
    /\ store \in [Block -> Data]
    /\ holder = [b \in Block |-> Free]

Take(p, b) ==
    /\ holder[b] = Free
    /\ holder' = [holder EXCEPT ![b] = p]
    /\ UNCHANGED store

Modify(p, b, v) ==
    /\ holder[b] = p
    /\ store' = [store EXCEPT ![b] = v]
    /\ UNCHANGED holder

Give(p, b) ==
    /\ holder[b] = p
    /\ holder' = [holder EXCEPT ![b] = Free]
    /\ UNCHANGED store

Next == \E p \in Proc, b \in Block :
            Take(p, b) \/ Give(p, b) \/ \E v \in Data : Modify(p, b, v)

Spec == Init /\ [][Next]_<<store, holder>>
=============================================================================
