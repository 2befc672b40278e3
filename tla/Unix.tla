-------------------------------- MODULE Unix --------------------------------
(***************************************************************************)
(* The system calls the user programs are written with, as a program sees  *)
(* them: fork, exit, wait, pipe, dup, close, open, read and write.  How    *)
(* the kernel implements them is the subject of Proc, File and Pipe; here  *)
(* each is one step.                                                       *)
(*                                                                         *)
(* A process is a program counter, what its program keeps in memory (the   *)
(* command sh runs, the numbers of primes), and its descriptors.  Who      *)
(* holds a pipe open is read off the descriptors.                          *)
(***************************************************************************)
EXTENDS Naturals, FiniteSets, Sequences

CONSTANTS
    NPROC,      \* processes; slot 1 is init
    NOFILE,     \* descriptors of a process
    NPIPE,      \* pipes
    PIPESIZE,   \* what a pipe holds, in writes
    MaxFail     \* calls that may fail for lack of memory

VARIABLES
    proc,       \* the processes
    pipes,      \* what each pipe holds
    fails,      \* calls that may still fail
    broken      \* a fork() or pipe() has failed

Slot == 1 .. NPROC
Fd == 0 .. NOFILE - 1
NoFile == [kind |-> "none", n |-> 0]
Tty == [kind |-> "tty", n |-> 0]
File(n) == [kind |-> "file", n |-> n]
End(side, i) == [kind |-> side, n |-> i]

NoFiles == [fd \in Fd |-> NoFile]
NoCommand == [type |-> "EXEC", argv |-> <<>>]
Unused == [pc |-> "unused", line |-> 0, cmd |-> NoCommand, x |-> <<0, 0, 0, 0, 0>>, ofile |-> NoFiles,
           parent |-> 0, bg |-> FALSE]

Least(S) == CHOOSE n \in S : \A m \in S : n <= m
Live(p) == proc[p].pc \notin {"unused", "zombie"}
Children(p) == {q \in Slot : proc[q].pc # "unused" /\ proc[q].parent = p}
Holds(p, f) == \E fd \in Fd : proc[p].ofile[fd] = f
Open(f) == \E p \in Slot : Holds(p, f)

-----------------------------------------------------------------------------

\* Two results of one fork(): the parent goes on as `parent', the child as `child'.
fork(p, parent, child) ==
    /\ \E q \in Slot : proc[q].pc = "unused"
    /\ LET q == Least({s \in Slot : proc[s].pc = "unused"})
       IN  proc' = [proc EXCEPT ![p] = parent, ![q] = [child EXCEPT !.parent = p]]
    /\ UNCHANGED <<pipes, fails, broken>>

\* fork() returns -1: no slot, or no memory.
fork_fails ==
    /\ \/ (\A q \in Slot : proc[q].pc # "unused") /\ UNCHANGED fails
       \/ fails > 0 /\ fails' = fails - 1
    /\ broken' = TRUE
    /\ UNCHANGED pipes

\* exit() closes the descriptors, frees the pipes nobody holds any more, and gives the children to init.
Exited(ps, p) ==
    [q \in Slot |->
        IF q = p THEN [Unused EXCEPT !.pc = "zombie", !.parent = ps[p].parent, !.bg = ps[p].bg]
        ELSE IF ps[q].pc # "unused" /\ ps[q].parent = p THEN [ps[q] EXCEPT !.parent = 1]
        ELSE ps[q]]

Emptied(ps) ==
    [i \in 1 .. NPIPE |->
        IF \E p \in Slot : \E fd \in Fd : ps[p].ofile[fd] \in {End("r", i), End("w", i)}
        THEN pipes[i] ELSE <<>>]

exit(p) ==
    /\ proc' = Exited(proc, p)
    /\ pipes' = Emptied(proc')

\* wait() returns a child that has exited, whose slot is freed, or 0 (-1 in the code)
\* if there is no child.  next[q] is the caller after it.
wait(p, next) ==
    /\ \/ /\ Children(p) = {}
          /\ proc' = [proc EXCEPT ![p] = next[0]]
       \/ \E q \in Children(p) : /\ proc[q].pc = "zombie"
                                 /\ proc' = [proc EXCEPT ![p] = next[q], ![q] = Unused]
    /\ UNCHANGED <<pipes, fails, broken>>

FreeFds(of) == {fd \in Fd : of[fd] = NoFile}
close(of, fd) == [of EXCEPT ![fd] = NoFile]
install(of, f) == [of EXCEPT ![Least(FreeFds(of))] = f]
dup(of, fd) == install(of, of[fd])

\* The pipe that pipe() allocates, and the table with its two ends in it.  A pipe closed
\* with data in it is used again once the process that closed it has exited.
FreePipes == {i \in 1 .. NPIPE : ~Open(End("r", i)) /\ ~Open(End("w", i)) /\ pipes[i] = <<>>}
pipe(of) == LET i == Least(FreePipes) IN install(install(of, End("r", i)), End("w", i))

\* read() from f: v is what it read, 0 the end of file.
read(f, v) ==
    \/ /\ f.kind = "r" /\ pipes[f.n] # <<>>
       /\ v = Head(pipes[f.n])
       /\ pipes' = [pipes EXCEPT ![f.n] = Tail(@)]
    \/ /\ f.kind = "r" /\ pipes[f.n] = <<>> /\ ~Open(End("w", f.n))
       /\ v = 0
       /\ UNCHANGED pipes
    \/ /\ f.kind = "file"
       /\ v = 0
       /\ UNCHANGED pipes

\* write() of v to f; ok is FALSE when nobody can read the pipe any more.
write(f, v, ok) ==
    \/ /\ f.kind = "w" /\ Open(End("r", f.n)) /\ Len(pipes[f.n]) < PIPESIZE
       /\ pipes' = [pipes EXCEPT ![f.n] = Append(@, v)]
       /\ ok
    \/ /\ f.kind = "w" /\ ~Open(End("r", f.n))
       /\ UNCHANGED pipes
       /\ ~ok
    \/ /\ f.kind \in {"tty", "file"}
       /\ UNCHANGED pipes
       /\ ok
=============================================================================
