------------------------------ MODULE Terminal ------------------------------
(***************************************************************************)
(* What the console input promises: a queue of characters that readers may *)
(* take, which ends where the line that is being typed begins.  Only the   *)
(* line being typed can be edited, and it joins the queue whole: at the    *)
(* end of a line or of the file, or when there is no more room.            *)
(***************************************************************************)
EXTENDS Naturals, Sequences

CONSTANTS Char, NL, EOF, Room

VARIABLES ready, typing

vars == <<ready, typing>>

Init == ready = <<>> /\ typing = <<>>

Type(c) ==
    LET line == Append(typing, c)
    IN  /\ Len(ready) + Len(typing) < Room
        /\ IF c \in {NL, EOF} \/ Len(ready) + Len(line) = Room
           THEN ready' = ready \o line /\ typing' = <<>>
           ELSE typing' = line /\ UNCHANGED ready

Erase ==
    /\ typing # <<>>
    /\ typing' = SubSeq(typing, 1, Len(typing) - 1)
    /\ UNCHANGED ready

Take ==
    /\ ready # <<>>
    /\ ready' = Tail(ready)
    /\ UNCHANGED typing

Next == (\E c \in Char : Type(c)) \/ Erase \/ Take

Spec == Init /\ [][Next]_vars
=============================================================================
