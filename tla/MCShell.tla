------------------------------ MODULE MCShell -------------------------------
(* Model checking the shell: its parser on all short lines, and the         *)
(* processes it starts on a few scripts.                                   *)
EXTENDS Shell

\* e x|c|c
Pipeline == <<"e", " ", "x", "|", "c", "|", "c">>
\* (e x;e)|c
Block == <<"(", "e", " ", "x", ";", "e", ")", "|", "c">>
\* c<f>g>h
Redirected == <<"c", "<", "f", ">", "g", ">", "h">>
\* (e x&)|c
Detached == <<"(", "e", " ", "x", "&", ")", "|", "c">>
\* e x&
Back == <<"e", " ", "x", "&">>
\* n; (a program that does not exist, and an empty command)
Missing == <<"n", ";">>
\* cd x
ChangeDir == <<"c", "d", " ", "x">>

MCScripts == {<<Pipeline, EOF>>, <<Block, ChangeDir>>, <<Redirected, <<")">>, EOF>>,
              <<Detached, Back, EOF>>, <<Back, Pipeline>>, <<Block, Detached>>,
              <<Missing, EOF, Missing>>,
              <<<<"p">>>>, <<Back, <<"p">>>>, <<Back, <<"g">>>>}

\* Every line of up to five characters.
Alphabet == {"x", Blank} \cup Symbols
MCLines == UNION {[1 .. n -> Alphabet] : n \in 0 .. 5}
AllParsed == \A line \in MCLines : ParsesLine(line)

\* Whatever short line is typed at the prompt, the parser accepts it exactly if it is in the
\* grammar, the command has the line's words in their places, and the NULs that
\* nulterminate() writes cut no word (user/sh.c, lines 266 to 494).
ParsesEveryLine == Prompting # {} => AllParsed
=============================================================================
