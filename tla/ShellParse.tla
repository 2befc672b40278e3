----------------------------- MODULE ShellParse -----------------------------
(***************************************************************************)
(* The shell's parser (user/sh.c): gettoken(), peek() and the recursive-   *)
(* descent functions, from a line to a command tree, and nulterminate().   *)
(*                                                                         *)
(* A line is a sequence of characters: a letter, a blank and the seven     *)
(* symbols.  Positions count from 1; es is the position of the final NUL.  *)
(* A parsing function takes the position *ps and returns a result: where   *)
(* it stopped, the command, and why it panicked ("" if it did not).        *)
(***************************************************************************)
EXTENDS Naturals, Sequences, FiniteSets, SequencesExt

CONSTANTS MAXARGS

Blank == " "
Symbols == {"<", "|", ">", "&", ";", "(", ")"}

\* *s; reading at es gives the NUL.
At(line, s) == IF s <= Len(line) THEN line[s] ELSE "NUL"

RECURSIVE SkipBlanks(_, _)
SkipBlanks(line, s) == IF At(line, s) = Blank THEN SkipBlanks(line, s + 1) ELSE s

RECURSIVE WordEnd(_, _)
WordEnd(line, s) ==
    IF At(line, s) \in Symbols \cup {Blank, "NUL"} THEN s ELSE WordEnd(line, s + 1)

\* Body(v), with v computed once.
With(v, Body(_)) == Body(v)

\* The token at q: its kind and the position after it.
TokenAt(line, q) ==
    LET c == At(line, q)
        append == c = ">" /\ At(line, q + 1) = ">"
    IN  CASE c = "NUL" -> <<c, q>>
          [] append -> <<"+", q + 2>>
          [] c \in Symbols /\ ~append -> <<c, q + 1>>
          [] OTHER -> <<"a", WordEnd(line, q)>>

\* The token at ps: its kind, where it starts and ends, and where the next one starts.
gettoken(line, ps) ==
    With(SkipBlanks(line, ps), LAMBDA q :
        With(TokenAt(line, q), LAMBDA t :
            [tok |-> t[1], q |-> q, eq |-> t[2], ps |-> SkipBlanks(line, t[2])]))

peek(line, ps, toks) == At(line, SkipBlanks(line, ps)) \in toks

-----------------------------------------------------------------------------
(* Commands.  A word is <<q, eq>>.                                         *)

execcmd(argv) == [type |-> "EXEC", argv |-> argv]
redircmd(cmd, file, tok) ==
    [type |-> "REDIR", cmd |-> cmd, file |-> file, trunc |-> tok = ">",
     fd |-> IF tok = "<" THEN 0 ELSE 1]
pipecmd(left, right) == [type |-> "PIPE", left |-> left, right |-> right]
listcmd(left, right) == [type |-> "LIST", left |-> left, right |-> right]
backcmd(cmd) == [type |-> "BACK", cmd |-> cmd]

Result(ps, cmd) == [ps |-> ps, cmd |-> cmd, err |-> ""]
Panic(why) == [ps |-> 0, cmd |-> <<>>, err |-> why]

\* Seeded fault: one redirection instead of all.
parseredirs_once(line, ps, cmd) ==
    IF ~peek(line, ps, {"<", ">"}) THEN Result(ps, cmd)
    ELSE With(gettoken(line, ps), LAMBDA t : With(gettoken(line, t.ps), LAMBDA f :
             IF f.tok # "a" THEN Panic("missing file for redirection")
             ELSE Result(f.ps, redircmd(cmd, <<f.q, f.eq>>, t.tok))))

RECURSIVE parseredirs(_, _, _)
parseredirs(line, ps, cmd) ==
    IF ~peek(line, ps, {"<", ">"}) THEN Result(ps, cmd)
    ELSE With(gettoken(line, ps), LAMBDA t : With(gettoken(line, t.ps), LAMBDA f :
             IF f.tok # "a" THEN Panic("missing file for redirection")
             ELSE parseredirs(line, f.ps, redircmd(cmd, <<f.q, f.eq>>, t.tok))))

\* The redirections wrap the exec command, whose argv still grows: Fill puts it in.
RECURSIVE Fill(_, _)
Fill(cmd, argv) ==
    IF cmd.type = "EXEC" THEN execcmd(argv) ELSE [cmd EXCEPT !.cmd = Fill(@, argv)]

\* A function that goes on where res ended, unless that panicked.
Then(res, Body(_)) == IF res.err # "" THEN res ELSE Body(res)

\* The loop of parseexec() over the words.
RECURSIVE parseargs(_, _, _, _)
parseargs(line, ps, ret, argv) ==
    With(gettoken(line, ps), LAMBDA t :
        IF peek(line, ps, {"|", ")", "&", ";"}) \/ t.tok = "NUL" THEN Result(ps, Fill(ret, argv))
        ELSE IF t.tok # "a" THEN Panic("syntax")
        ELSE IF Len(argv) + 1 >= MAXARGS THEN Panic("too many args")
        ELSE Then(parseredirs(line, t.ps, ret), LAMBDA redirs :
                 parseargs(line, redirs.ps, redirs.cmd, Append(argv, <<t.q, t.eq>>))))

\* The functions call each other; parse(f, ...) is the call of f.
RECURSIVE parse(_, _, _)

parseblock(line, ps) ==
    Then(parse("line", line, gettoken(line, ps).ps), LAMBDA body :
        IF ~peek(line, body.ps, {")"}) THEN Panic("syntax - missing )")
        ELSE parseredirs(line, gettoken(line, body.ps).ps, body.cmd))

parseexec(line, ps) ==
    IF peek(line, ps, {"("}) THEN parseblock(line, ps)
    ELSE Then(parseredirs(line, ps, execcmd(<<>>)), LAMBDA redirs :
             parseargs(line, redirs.ps, redirs.cmd, <<>>))

parsepipe(line, ps) ==
    Then(parseexec(line, ps), LAMBDA left :
        IF ~peek(line, left.ps, {"|"}) THEN left
        ELSE Then(parse("pipe", line, gettoken(line, left.ps).ps), LAMBDA right :
                 Result(right.ps, pipecmd(left.cmd, right.cmd))))

\* The loop of parseline() over the ampersands.
RECURSIVE parseback(_, _)
parseback(line, res) ==
    IF peek(line, res.ps, {"&"})
    THEN parseback(line, Result(gettoken(line, res.ps).ps, backcmd(res.cmd)))
    ELSE res

parseline(line, ps) ==
    Then(parsepipe(line, ps), LAMBDA cmd : With(parseback(line, cmd), LAMBDA left :
        IF ~peek(line, left.ps, {";"}) THEN left
        ELSE Then(parse("line", line, gettoken(line, left.ps).ps), LAMBDA right :
                 Result(right.ps, listcmd(left.cmd, right.cmd)))))

parse(f, line, ps) == IF f = "pipe" THEN parsepipe(line, ps) ELSE parseline(line, ps)

parsecmd(line) ==
    Then(parseline(line, 1), LAMBDA res :
        IF SkipBlanks(line, res.ps) # Len(line) + 1 THEN Panic("syntax") ELSE res)

\* The positions nulterminate() overwrites.
RECURSIVE nulterminate(_)
nulterminate(cmd) ==
    CASE cmd.type = "EXEC" -> {cmd.argv[k][2] : k \in DOMAIN cmd.argv}
      [] cmd.type = "REDIR" -> nulterminate(cmd.cmd) \cup {cmd.file[2]}
      [] cmd.type = "BACK" -> nulterminate(cmd.cmd)
      [] OTHER -> nulterminate(cmd.left) \cup nulterminate(cmd.right)

-----------------------------------------------------------------------------
(* The grammar, for comparison.                                            *)

\* The tokens of a line: every symbol, ">>" as one, and the maximal runs of letters.
Letter(line, i) == line[i] \notin Symbols \cup {Blank}
RunBefore(line, i) == {j \in 1 .. i - 1 : \A h \in j .. i - 1 : line[h] = line[i]}
Starts(line) ==
    {i \in DOMAIN line : CASE line[i] = Blank -> FALSE
                           [] line[i] = ">" -> Cardinality(RunBefore(line, i)) % 2 = 0
                           [] Letter(line, i) -> i = 1 \/ ~Letter(line, i - 1)
                           [] OTHER -> TRUE}
Tokens(line) ==
    LET is == SetToSortSeq(Starts(line), <)
        end(i) == CHOOSE j \in i + 1 .. Len(line) + 1 :
                      /\ \A h \in i .. j - 1 : Letter(line, h)
                      /\ j > Len(line) \/ ~Letter(line, j)
        double(i) == line[i] = ">" /\ i < Len(line) /\ line[i + 1] = ">"
    IN  [n \in DOMAIN is |->
            LET i == is[n] IN
            IF Letter(line, i) THEN [tok |-> "a", q |-> i, eq |-> end(i)]
            ELSE [tok |-> IF double(i) THEN "+" ELSE line[i], q |-> i, eq |-> 0]]

Kinds(ts) == [k \in DOMAIN ts |-> ts[k].tok]
Arrow == {"<", ">", "+"}

IsRedirs(k) == \A i \in DOMAIN k : k[i] = (IF i % 2 = 0 THEN "a" ELSE k[i])
                                   /\ (i % 2 = 1 => k[i] \in Arrow /\ i < Len(k))

\* Words and redirections in any order.
ArgsOf(k) == {i \in DOMAIN k : k[i] = "a" /\ (i = 1 \/ k[i - 1] \notin Arrow)}
IsSimple(k) ==
    /\ \A i \in DOMAIN k : k[i] = "a" \/ (k[i] \in Arrow /\ i < Len(k) /\ k[i + 1] = "a")
    /\ Cardinality(ArgsOf(k)) < MAXARGS

RECURSIVE IsLine(_)

IsExec(k) ==
    \/ IsSimple(k)
    \/ \E i \in 2 .. Len(k) : /\ k[1] = "(" /\ k[i] = ")"
                              /\ IsLine(SubSeq(k, 2, i - 1))
                              /\ IsRedirs(SubSeq(k, i + 1, Len(k)))

RECURSIVE IsPipe(_)
IsPipe(k) ==
    \/ IsExec(k)
    \/ \E i \in DOMAIN k : /\ k[i] = "|"
                           /\ IsExec(SubSeq(k, 1, i - 1)) /\ IsPipe(SubSeq(k, i + 1, Len(k)))

IsBack(k) == \E i \in 0 .. Len(k) : /\ \A j \in i + 1 .. Len(k) : k[j] = "&"
                                    /\ IsPipe(SubSeq(k, 1, i))

IsLine(k) ==
    \/ IsBack(k)
    \/ \E i \in DOMAIN k : /\ k[i] = ";"
                           /\ IsBack(SubSeq(k, 1, i - 1)) /\ IsLine(SubSeq(k, i + 1, Len(k)))

-----------------------------------------------------------------------------

\* The words of a command, from left to right, and the words that name files.
RECURSIVE Argv(_)
Argv(cmd) == CASE cmd.type = "EXEC" -> cmd.argv
               [] cmd.type \in {"REDIR", "BACK"} -> Argv(cmd.cmd)
               [] OTHER -> Argv(cmd.left) \o Argv(cmd.right)

RECURSIVE Targets(_)
Targets(cmd) == CASE cmd.type = "EXEC" -> <<>>
                  [] cmd.type = "REDIR" -> Append(Targets(cmd.cmd), cmd.file)
                  [] cmd.type = "BACK" -> Targets(cmd.cmd)
                  [] OTHER -> Targets(cmd.left) \o Targets(cmd.right)

Words(ts, S) == LET is == SetToSortSeq(S, <)
                IN  [n \in DOMAIN is |-> <<ts[is[n]].q, ts[is[n]].eq>>]

\* The parser accepts exactly the lines of the grammar; the command it returns has the
\* line's words, in order, as arguments and as files of redirections; and the NULs that
\* end the words fall inside no word.
ParsesLine(line) ==
    LET res == parsecmd(line)
        ts == Tokens(line)
        k == Kinds(ts)
        words == {i \in DOMAIN k : k[i] = "a"}
        files == {i \in words : i > 1 /\ k[i - 1] \in Arrow}
    IN  /\ (res.err = "") = IsLine(k)
        /\ res.err = "" =>
              /\ Argv(res.cmd) = Words(ts, words \ files)
              /\ Targets(res.cmd) = Words(ts, files)
              /\ \A i \in words : \A z \in nulterminate(res.cmd) : z \notin ts[i].q .. ts[i].eq - 1
              /\ \A i \in words : ts[i].eq \in nulterminate(res.cmd)
=============================================================================
