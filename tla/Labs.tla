-------------------------------- MODULE Labs --------------------------------
(***************************************************************************)
(* Programs of user/ that live from their pipes: echo, cat, pingpong and   *)
(* primes, from their first call to exit().                                *)
(*                                                                         *)
(* A step is one system call together with the closes of the process's own *)
(* descriptors that follow it.  The results of pipe() and fork() are used  *)
(* unchecked by primes and pingpong: a fork() that fails takes the         *)
(* parent's branch.  Their pipe() does not fail here (they would go on     *)
(* with uninitialised descriptors).  Their printf() goes to the console.   *)
(***************************************************************************)
EXTENDS Unix

CONSTANTS
    MaxNumber   \* primes sieves 2 .. MaxNumber (35 in the code)

VARIABLES
    out         \* what primes has printed since the last prompt

Goto(p, pc) == [proc EXCEPT ![p].pc = pc]
Stay == UNCHANGED <<fails, broken, out>>

\* The process ends; pc "exit" stands for the call.
exits(p) ==
    /\ proc[p].pc = "exit"
    /\ exit(p)
    /\ Stay

\* wait(0), whatever it returns.
waits(p, pc, next) ==
    /\ proc[p].pc = pc
    /\ wait(p, [q \in 0 .. NPROC |-> [proc[p] EXCEPT !.pc = next]])
    /\ UNCHANGED out

-----------------------------------------------------------------------------
(* echo.c and cat.c                                                        *)

\* x[1] writes are left: for each argument the word and the blank or newline after it.
echo(p) ==
    /\ proc[p].pc = "echo"
    /\ IF proc[p].x[1] = 0 THEN proc' = Goto(p, "exit") /\ UNCHANGED pipes
       ELSE /\ \E ok \in BOOLEAN : write(proc[p].ofile[1], 1, ok)
            /\ proc' = [proc EXCEPT ![p].x[1] = @ - 1]
    /\ Stay

cat(p) ==
    /\ proc[p].pc = "cat"
    /\ \E v \in 0 .. MaxNumber : /\ read(proc[p].ofile[0], v)
                                 /\ proc' = Goto(p, IF v = 0 THEN "exit" ELSE "cat_write")
    /\ Stay

cat_write(p) ==
    /\ proc[p].pc = "cat_write"
    /\ \E ok \in BOOLEAN : /\ write(proc[p].ofile[1], 1, ok)
                           /\ proc' = Goto(p, IF ok THEN "cat" ELSE "exit")
    /\ Stay

-----------------------------------------------------------------------------
(* pingpong.c: one pipe for both directions.  x = <<pip[0], pip[1], ...>>.  *)

PipeCall(p, next, x(_, _)) ==
    LET of == pipe(proc[p].ofile)
        i == Least(FreePipes)
        fds == <<CHOOSE fd \in Fd : of[fd] = End("r", i), CHOOSE fd \in Fd : of[fd] = End("w", i)>>
    IN  [proc[p] EXCEPT !.pc = next, !.ofile = of, !.x = x(fds[1], fds[2])]

pingpong(p) ==
    /\ proc[p].pc = "pingpong" /\ FreePipes # {}
    /\ proc' = [proc EXCEPT ![p] = PipeCall(p, "g_fork", LAMBDA r, w : <<r, w, 0, 0, 0>>)]
    /\ UNCHANGED pipes /\ Stay

g_fork(p) ==
    /\ proc[p].pc = "g_fork"
    /\ \/ fork(p, [proc[p] EXCEPT !.pc = "g_send"], [proc[p] EXCEPT !.pc = "g_child"])
       \/ fork_fails /\ proc' = Goto(p, "g_send")
    /\ UNCHANGED out

\* The child reads the ping, then writes the pong.
g_child(p) ==
    /\ proc[p].pc = "g_child"
    /\ \E v \in 0 .. 1 : read(proc[p].ofile[proc[p].x[1]], v)
    /\ proc' = Goto(p, "g_reply")
    /\ Stay

g_reply(p) ==
    /\ proc[p].pc = "g_reply"
    /\ \E ok \in BOOLEAN : write(proc[p].ofile[proc[p].x[2]], 1, ok)
    /\ proc' = Goto(p, "exit")
    /\ Stay

\* The parent writes the ping, then reads from the same pipe.
g_send(p) ==
    /\ proc[p].pc = "g_send"
    /\ \E ok \in BOOLEAN : write(proc[p].ofile[proc[p].x[2]], 1, ok)
    /\ proc' = Goto(p, "g_recv")
    /\ Stay

g_recv(p) ==
    /\ proc[p].pc = "g_recv"
    /\ \E v \in 0 .. 1 : read(proc[p].ofile[proc[p].x[1]], v)
    /\ proc' = Goto(p, "g_wait")
    /\ Stay

g_wait(p) == waits(p, "g_wait", "exit")

-----------------------------------------------------------------------------
(* primes.c.  x = <<pip[0], prime, pip1[0], pip1[1], n>>; in main() the     *)
(* third and fourth are pip.                                               *)

primes_main(p) ==
    /\ proc[p].pc = "primes" /\ FreePipes # {}
    /\ proc' = [proc EXCEPT ![p] = PipeCall(p, "p_fork", LAMBDA r, w : <<0, 0, r, w, 2>>)]
    /\ UNCHANGED pipes /\ Stay

\* The child's entry into primes(pip1): close(pip[1]) of the pipe it is to read.
Stage(pr) == [pr EXCEPT !.pc = "p_stage", !.ofile = close(@, pr.x[4]), !.x = <<pr.x[3], 0, 0, 0, 0>>]

p_fork(p) ==
    LET pr == proc[p]
        feeder == [pr EXCEPT !.pc = "p_feed", !.ofile = close(@, pr.x[3])]
    IN  /\ pr.pc = "p_fork"
        /\ \/ fork(p, feeder, Stage(pr))
           \/ fork_fails /\ proc' = [proc EXCEPT ![p] = feeder]
        /\ UNCHANGED out

p_feed(p) ==
    LET pr == proc[p]
        last == pr.x[5] = MaxNumber
    IN  /\ pr.pc = "p_feed"
        /\ \E ok \in BOOLEAN : write(pr.ofile[pr.x[4]], pr.x[5], ok)
        /\ proc' = [proc EXCEPT ![p] =
               IF last THEN [pr EXCEPT !.pc = "p_wait", !.ofile = close(@, pr.x[4])]
               ELSE [pr EXCEPT !.x[5] = @ + 1]]
        /\ Stay

p_wait(p) == waits(p, "p_wait", "exit")

\* primes(): the first number read is the stage's prime; pipe(pip1), which no other process
\* can see yet, is part of the step.
p_stage(p) ==
    LET pr == proc[p]
    IN  /\ pr.pc = "p_stage" /\ FreePipes # {}
        /\ \E v \in 0 .. MaxNumber :
              /\ read(pr.ofile[pr.x[1]], v)
              /\ proc' = [proc EXCEPT ![p] =
                     IF v = 0 THEN [pr EXCEPT !.pc = "exit", !.ofile = close(@, pr.x[1])]
                     ELSE PipeCall(p, "p_fork2", LAMBDA r, w : <<pr.x[1], v, r, w, 0>>)]
        /\ Stay

p_fork2(p) ==
    LET pr == proc[p]
        parent == [pr EXCEPT !.pc = "p_print"]
        child == Stage([pr EXCEPT !.ofile = close(@, pr.x[1])])
    IN  /\ pr.pc = "p_fork2"
        /\ \/ fork(p, parent, child)
           \/ fork_fails /\ proc' = [proc EXCEPT ![p] = parent]
        /\ UNCHANGED out

p_print(p) ==
    /\ proc[p].pc = "p_print"
    /\ out' = Append(out, proc[p].x[2])
    /\ proc' = Goto(p, "p_filter")
    /\ UNCHANGED <<pipes, fails, broken>>

\* Seeded fault: every number is passed on.
p_filter_all(p) ==
    LET pr == proc[p]
        done == close(close(close(pr.ofile, pr.x[1]), pr.x[3]), pr.x[4])
    IN  /\ pr.pc = "p_filter"
        /\ \E v \in 0 .. MaxNumber :
              /\ read(pr.ofile[pr.x[1]], v)
              /\ proc' = [proc EXCEPT ![p] =
                     IF v = 0 THEN [pr EXCEPT !.pc = "p_wait", !.ofile = done]
                     ELSE [pr EXCEPT !.pc = "p_pass", !.x[5] = v]]
        /\ Stay

p_filter(p) ==
    LET pr == proc[p]
        done == close(close(close(pr.ofile, pr.x[1]), pr.x[3]), pr.x[4])
    IN  /\ pr.pc = "p_filter"
        /\ \E v \in 0 .. MaxNumber :
              /\ read(pr.ofile[pr.x[1]], v)
              /\ proc' = [proc EXCEPT ![p] =
                     IF v = 0 THEN [pr EXCEPT !.pc = "p_wait", !.ofile = done]
                     ELSE IF v % pr.x[2] # 0 THEN [pr EXCEPT !.pc = "p_pass", !.x[5] = v]
                     ELSE pr]
        /\ Stay

p_pass(p) ==
    LET pr == proc[p]
    IN  /\ pr.pc = "p_pass"
        /\ \E ok \in BOOLEAN : write(pr.ofile[pr.x[4]], pr.x[5], ok)
        /\ proc' = [proc EXCEPT ![p].pc = "p_filter", ![p].x[5] = 0]
        /\ Stay

Program(p) ==
    \/ exits(p)
    \/ echo(p) \/ cat(p) \/ cat_write(p)
    \/ pingpong(p) \/ g_fork(p) \/ g_child(p) \/ g_reply(p) \/ g_send(p) \/ g_recv(p) \/ g_wait(p)
    \/ primes_main(p) \/ p_fork(p) \/ p_feed(p) \/ p_wait(p) \/ p_stage(p) \/ p_fork2(p)
    \/ p_print(p) \/ p_filter(p) \/ p_pass(p)
=============================================================================
