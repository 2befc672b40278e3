----------------------------- MODULE AtomicDisk -----------------------------
(***************************************************************************)
(* What the log layer (kernel/log.c) promises its callers.  The file       *)
(* system sees the blocks mem; dur is what a reboot would find.  File      *)
(* system calls run between Begin and End and change mem only.  A commit   *)
(* makes everything written so far durable in one step, and only while no  *)
(* call is active; a crash brings mem back to dur.  So dur never holds a   *)
(* part of a call's writes.                                                *)
(***************************************************************************)
CONSTANTS Proc, Block, Data

VARIABLES
    mem,      \* the blocks as file system calls read them
    dur,      \* the blocks as the next recovery would leave them
    active    \* the processes between begin_op and end_op

vars == <<mem, dur, active>>

Init ==
    /\ mem \in [Block -> Data]
    /\ dur = mem
    /\ active = {}

Begin(p) ==
    /\ p \notin active
    /\ active' = active \cup {p}
    /\ UNCHANGED <<mem, dur>>

Write(p, b, v) ==
    /\ p \in active
    /\ mem' = [mem EXCEPT ![b] = v]
    /\ UNCHANGED <<dur, active>>

End(p) ==
    /\ p \in active
    /\ active' = active \ {p}
    /\ UNCHANGED <<mem, dur>>

Commit ==
    /\ active = {}
    /\ dur' = mem
    /\ UNCHANGED <<mem, active>>

Crash ==
    /\ mem' = dur
    /\ active' = {}
    /\ UNCHANGED dur

Next ==
    \/ \E p \in Proc : Begin(p)
    \/ \E p \in Proc, b \in Block, v \in Data : Write(p, b, v)
    \/ \E p \in Proc : End(p)
    \/ Commit
    \/ Crash

Spec == Init /\ [][Next]_vars
=============================================================================
