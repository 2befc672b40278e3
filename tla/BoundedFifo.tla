---------------------------- MODULE BoundedFifo ----------------------------
(***************************************************************************)
(* What a pipe promises: at most SIZE bytes on their way from writers to   *)
(* readers, taken out in the order in which they were put in, each once.   *)
(* An end that is closed stays closed; nothing is put in once an end is    *)
(* closed, and what is left can still be taken out.                        *)
(***************************************************************************)
EXTENDS Naturals, Sequences

CONSTANTS SIZE, Byte

VARIABLES q, ropen, wopen

Init == q = << >> /\ ropen = 1 /\ wopen = 1

Put(b) ==
    /\ ropen = 1 /\ wopen = 1
    /\ Len(q) < SIZE
    /\ q' = Append(q, b)
    /\ UNCHANGED <<ropen, wopen>>

Get ==
    /\ ropen = 1
    /\ q # << >>
    /\ q' = Tail(q)
    /\ UNCHANGED <<ropen, wopen>>

CloseRead  == ropen = 1 /\ ropen' = 0 /\ UNCHANGED <<q, wopen>>
CloseWrite == wopen = 1 /\ wopen' = 0 /\ UNCHANGED <<q, ropen>>

Next == (\E b \in Byte : Put(b)) \/ Get \/ CloseRead \/ CloseWrite

Spec == Init /\ [][Next]_<<q, ropen, wopen>>
=============================================================================
