------------------------------- MODULE Shell --------------------------------
(***************************************************************************)
(* init (user/init.c) and the shell (user/sh.c) with the programs it       *)
(* starts.  main() reads a line, forks a process that parses and runs it,  *)
(* and waits; runcmd() forks, connects and waits for the processes of the  *)
(* command.  What is typed is a script of lines; the line <<"^D">> is the  *)
(* end of file.                                                            *)
(*                                                                         *)
(* A step is one system call, together with the closes and dups of the     *)
(* process's own descriptors that follow it.                               *)
(***************************************************************************)
EXTENDS ShellParse, Labs

CONSTANTS Scripts

VARIABLES
    script,     \* the lines typed
    next        \* the line the shell reads next

vars == <<proc, pipes, fails, broken, out, script, next>>

EOF == <<"^D">>
Parsed == [line \in UNION {Range(s) : s \in Scripts} |-> parsecmd(line)]
Console == [fd \in Fd |-> IF fd <= 2 THEN Tty ELSE NoFile]
Rest == UNCHANGED <<script, next>>

\* init has opened the console three times.
Init ==
    /\ proc = [p \in Slot |->
                  IF p = 1 THEN [Unused EXCEPT !.pc = "init", !.ofile = Console] ELSE Unused]
    /\ pipes = [i \in 1 .. NPIPE |-> <<>>]
    /\ fails = MaxFail
    /\ out = <<>>
    /\ script \in Scripts /\ next = 1
    /\ broken = FALSE

-----------------------------------------------------------------------------
(* init                                                                    *)

\* fork, and exec("sh") in the child; main() of sh finds three descriptors open.
init_fork(p) ==
    /\ proc[p].pc = "init"
    /\ \/ fork(p, [proc[p] EXCEPT !.pc = "init_wait",
                                  !.x[1] = Least({q \in Slot : proc[q].pc = "unused"})],
                  [proc[p] EXCEPT !.pc = "getcmd"])
       \/ fork_fails /\ proc' = Goto(p, "exit")
    /\ UNCHANGED out /\ Rest

\* The shell is started anew when it is the one that exited.
init_wait(p) ==
    /\ proc[p].pc = "init_wait"
    /\ wait(p, [q \in 0 .. NPROC |->
                CASE q = 0 -> [proc[p] EXCEPT !.pc = "exit"]
                  [] q = proc[p].x[1] -> [proc[p] EXCEPT !.pc = "init", !.x[1] = 0]
                  [] OTHER -> proc[p]])
    /\ UNCHANGED out /\ Rest

-----------------------------------------------------------------------------
(* main()                                                                  *)

IsCd(line) == Len(line) > 2 /\ SubSeq(line, 1, 3) = <<"c", "d", Blank>>

\* The prompt: the next line, or the end of file.  cd changes only the current directory.
getcmd(p) ==
    /\ proc[p].pc = "getcmd" /\ next <= Len(script)
    /\ next' = next + 1
    /\ out' = <<>>
    /\ proc' = CASE script[next] = EOF -> Goto(p, "exit")
                 [] IsCd(script[next]) -> proc
                 [] OTHER -> [proc EXCEPT ![p].pc = "fork1", ![p].line = next]
    /\ UNCHANGED <<pipes, fails, broken, script>>

\* fork1() in a process of the shell: the parent goes on at pc; if fork() fails, panic()
\* ends the process.
fork1(p, pc, child) ==
    /\ \/ fork(p, [proc[p] EXCEPT !.pc = pc], child)
       \/ fork_fails /\ proc' = Goto(p, "exit")
    /\ UNCHANGED out /\ Rest

\* A process about to run cmd.
Runs(pr, cmd) == [pr EXCEPT !.pc = "runcmd", !.cmd = cmd]

main_fork(p) ==
    LET res == Parsed[script[proc[p].line]]
        child == IF res.err # "" THEN [proc[p] EXCEPT !.pc = "exit"] ELSE Runs(proc[p], res.cmd)
    IN  /\ proc[p].pc = "fork1"
        /\ fork1(p, "main_wait", child)

main_wait(p) ==
    /\ proc[p].pc = "main_wait"
    /\ wait(p, [q \in 0 .. NPROC |-> [proc[p] EXCEPT !.pc = "getcmd", !.line = 0]])
    /\ UNCHANGED out /\ Rest

-----------------------------------------------------------------------------
(* runcmd()                                                                *)

Running(p, type) == proc[p].pc = "runcmd" /\ proc[p].cmd.type = type
Quiet == UNCHANGED <<pipes, fails, broken, out>>

\* The program a word names; no other exists.
Programs == [e |-> "echo", c |-> "cat", p |-> "primes", g |-> "pingpong"]

\* cmd keeps only where argv[0] is, for the properties.
run_exec(p) ==
    LET argv == proc[p].cmd.argv
        name == script[proc[p].line][argv[1][1]]
    IN  /\ Running(p, "EXEC")
        /\ proc' = IF argv = <<>> \/ (argv # <<>> /\ name \notin DOMAIN Programs)
                   THEN Goto(p, "exit")
                   ELSE [proc EXCEPT ![p].pc = Programs[name], ![p].cmd = execcmd(<<argv[1]>>),
                                     ![p].x[1] = IF name = "e" THEN 2 * (Len(argv) - 1) ELSE 0]
        /\ Quiet /\ Rest

\* Files are named by the word's place.  open() may fail: there is no such file to read, or
\* none can be made.
run_redir(p) ==
    LET cmd == proc[p].cmd
        closed == close(proc[p].ofile, cmd.fd)
    IN  /\ Running(p, "REDIR")
        /\ \/ proc' = [proc EXCEPT ![p] = Runs([@ EXCEPT !.ofile = install(closed, File(cmd.file[1]))],
                                               cmd.cmd)]
           \/ proc' = [proc EXCEPT ![p].pc = "exit", ![p].ofile = closed]
        /\ Quiet /\ Rest

run_list(p) ==
    /\ Running(p, "LIST")
    /\ fork1(p, "list_wait", Runs(proc[p], proc[p].cmd.left))

list_wait(p) ==
    /\ proc[p].pc = "list_wait"
    /\ wait(p, [q \in 0 .. NPROC |-> Runs(proc[p], proc[p].cmd.right)])
    /\ UNCHANGED out /\ Rest

run_back(p) ==
    /\ Running(p, "BACK")
    /\ fork1(p, "exit", [Runs(proc[p], proc[p].cmd.cmd) EXCEPT !.bg = TRUE])

\* pipe(p), or panic("pipe").
run_pipe(p) ==
    /\ Running(p, "PIPE")
    /\ \/ /\ FreePipes # {}
          /\ proc' = [proc EXCEPT ![p] = PipeCall(p, "pipe_left", LAMBDA r, w : <<r, w, 0, 0, 0>>)]
          /\ UNCHANGED <<fails, broken>>
       \/ /\ fails > 0
          /\ fails' = fails - 1 /\ broken' = TRUE
          /\ proc' = Goto(p, "exit")
    /\ UNCHANGED <<pipes, out, script, next>>

\* Descriptor fd becomes the pipe's end p[k]; both originals are closed.
\* Seeded fault: the write end stays open.
connect_read_only(pr, fd, k) ==
    LET joined == dup(close(pr.ofile, fd), pr.x[k])
    IN  [pr EXCEPT !.ofile = close(joined, pr.x[1]), !.x = <<0, 0, 0, 0, 0>>]

connect(pr, fd, k) ==
    LET joined == dup(close(pr.ofile, fd), pr.x[k])
    IN  [pr EXCEPT !.ofile = close(close(joined, pr.x[1]), pr.x[2]), !.x = <<0, 0, 0, 0, 0>>]

pipe_left(p) ==
    /\ proc[p].pc = "pipe_left"
    /\ fork1(p, "pipe_right", [proc[p] EXCEPT !.pc = "left"])

pipe_right(p) ==
    /\ proc[p].pc = "pipe_right"
    /\ fork1(p, "pipe_close", [proc[p] EXCEPT !.pc = "right"])

\* The children's first steps.
pipe_child(p) ==
    LET pr == proc[p]
    IN  /\ pr.pc \in {"left", "right"}
        /\ proc' = [proc EXCEPT ![p] =
               IF pr.pc = "left" THEN Runs(connect(pr, 1, 2), pr.cmd.left)
               ELSE Runs(connect(pr, 0, 1), pr.cmd.right)]
        /\ Quiet /\ Rest

\* Seeded fault: the parent keeps the write end open while it waits.
pipe_close_read(p) ==
    LET pr == proc[p]
    IN  /\ pr.pc = "pipe_close"
        /\ proc' = [proc EXCEPT ![p].pc = "pipe_wait", ![p].cmd = NoCommand,
                                ![p].ofile = close(@, pr.x[1])]
        /\ pipes' = Emptied(proc')
        /\ Stay /\ Rest

pipe_close(p) ==
    LET pr == proc[p]
    IN  /\ pr.pc = "pipe_close"
        /\ proc' = [proc EXCEPT ![p].pc = "pipe_wait", ![p].cmd = NoCommand,
                                ![p].ofile = close(close(@, pr.x[1]), pr.x[2])]
        /\ pipes' = Emptied(proc')
        /\ Stay /\ Rest

\* Seeded fault: one wait() for two children.
pipe_wait_once(p) == waits(p, "pipe_wait", "exit") /\ Rest

pipe_wait(p) == waits(p, "pipe_wait", "pipe_wait2") /\ Rest
pipe_wait2(p) == waits(p, "pipe_wait2", "exit") /\ Rest

-----------------------------------------------------------------------------

Step(p) ==
    \/ init_fork(p) \/ init_wait(p)
    \/ getcmd(p) \/ main_fork(p) \/ main_wait(p)
    \/ run_exec(p) \/ run_redir(p) \/ run_list(p) \/ list_wait(p) \/ run_back(p)
    \/ run_pipe(p) \/ pipe_left(p) \/ pipe_right(p) \/ pipe_child(p) \/ pipe_close(p)
    \/ pipe_wait(p) \/ pipe_wait2(p)
    \/ Program(p) /\ Rest

Next == \E p \in Slot : Step(p)

Spec == Init /\ [][Next]_vars

\* The scheduler runs some process whenever one can run.  No fairness among processes is
\* needed: each program ends, so none can keep the others waiting for ever.
LiveSpec == Spec /\ WF_vars(Next)

-----------------------------------------------------------------------------
(* What runcmd() should achieve.                                           *)

\* The programs of a command, by the place of their name, with the kinds of their standard
\* input and output.
RECURSIVE Expected(_, _, _)
Expected(cmd, in, o) ==
    CASE cmd.type = "EXEC" -> IF cmd.argv = <<>> THEN {} ELSE {<<cmd.argv[1], in, o>>}
      [] cmd.type = "REDIR" -> IF cmd.fd = 0 THEN Expected(cmd.cmd, File(cmd.file[1]), o)
                               ELSE Expected(cmd.cmd, in, File(cmd.file[1]))
      [] cmd.type = "BACK" -> Expected(cmd.cmd, in, o)
      [] cmd.type = "LIST" -> Expected(cmd.left, in, o) \cup Expected(cmd.right, in, o)
      [] cmd.type = "PIPE" -> Expected(cmd.left, in, End("w", 0)) \cup Expected(cmd.right, End("r", 0), o)

Kind(f) == IF f.kind \in {"r", "w"} THEN End(f.kind, 0) ELSE f

Prompting == {p \in Slot : proc[p].pc = "getcmd"}

\* A program starts with descriptors 0, 1 and 2 and no others, and its standard input and
\* output are what the command says: the pipe's ends, the file of the innermost
\* redirection (the first on the line), or the shell's own (runcmd, lines 75 to 118).
ExecEnvironment ==
    \A p \in Slot :
        LET pr == proc[p]
        IN  pr.pc \in {"echo", "cat", "primes", "pingpong"} =>
              /\ {fd \in Fd : pr.ofile[fd] # NoFile} = {0, 1, 2}
              /\ <<pr.cmd.argv[1], Kind(pr.ofile[0]), Kind(pr.ofile[1])>>
                    \in Expected(Parsed[script[pr.line]].cmd, Tty, Tty)

\* When the shell prompts, every process of the commands before has exited, except those
\* started with & (the waits of main and runcmd), as long as no fork or pipe failed.
PromptAfterForeground ==
    (Prompting # {} /\ ~broken) =>
        \A p \in Slot : Live(p) => p = 1 \/ p \in Prompting \/ proc[p].bg

\* primes prints the primes, each once and in order: a prefix while it runs, all of them
\* when the shell prompts again (primes.c:22, and the sieve of lines 24 to 33).
Primes == {n \in 2 .. MaxNumber : \A d \in 2 .. n - 1 : n % d # 0}
PrimesInOrder ==
    LET sieve == SetToSortSeq(Primes, <)
        ran == next > 1 /\ script[next - 1] = <<"p">>
    IN  /\ IsPrefix(out, sieve)
        /\ (Prompting # {} /\ ran /\ ~broken) => out = sieve

\* pingpong's parent has read its own byte back, and its child reads what nobody writes.
SelfRead == \E p \in Slot : proc[p].pc = "g_wait" /\ \E q \in Children(p) : proc[q].pc = "g_child"

\* The shell always comes back to its prompt: the readers of a pipe see its end because
\* every other holder closes it, a shell that exits is restarted by init, and no process
\* waits for one that waits for it.  Only init's own exit and a pingpong whose parent took
\* the byte meant for the child (pingpong.c:29) stand in the way.
PromptReturns == []<>(Prompting # {} \/ SelfRead \/ ~Live(1))
=============================================================================
