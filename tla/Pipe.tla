-------------------------------- MODULE Pipe --------------------------------
(***************************************************************************)
(* One pipe (kernel/pipe.c) and the processes that share its two ends: a   *)
(* ring of PIPESIZE bytes with a read and a write counter that wrap around *)
(* like the code's unsigned integers, filled and emptied byte by byte      *)
(* under pi->lock.                                                         *)
(*                                                                         *)
(* sleep() gives up pi->lock and puts the caller to sleep in one step;     *)
(* Proc.tla shows why no wakeup gets lost in between.  kill() needs no     *)
(* pi->lock: it may come between any two bytes, and between killed() and   *)
(* sleep(), where it wakes nobody.  An end is closed by the last of its    *)
(* holders (f->ref in kernel/file.c): it first drops its reference and     *)
(* then calls pipeclose().                                                 *)
(***************************************************************************)
EXTENDS Naturals, Sequences

CONSTANTS
    Proc, Byte,
    Free,       \* "nobody holds pi->lock"
    PIPESIZE,
    Modulus,    \* 2^w, for the width w of the counters
    MaxN,       \* bound on the number of bytes of a read or a write
    MayKill     \* processes that can be killed

ASSUME PipeAssumption ==
    /\ PIPESIZE \in Nat \ {0} /\ Modulus \in Nat /\ PIPESIZE < Modulus
    /\ Modulus % PIPESIZE = 0
    /\ MaxN \in Nat
    /\ Free \notin Proc /\ MayKill \subseteq Proc

VARIABLES
    data, nread, nwrite, readopen, writeopen, lock,   \* struct pipe
    freed,            \* its page was given back
    readers, writers, \* the processes that hold each end
    silent,           \* history: an aborted write left bytes, nobody was woken
    killed,
    pc, i, n          \* each process: location, bytes done, bytes wanted

pipe == <<data, nread, nwrite>>
ends == <<readopen, writeopen, freed, readers, writers>>
vars == <<data, nread, nwrite, readopen, writeopen, lock, freed, readers,
          writers, silent, killed, pc, i, n>>

\* pipealloc(): its caller holds both ends.  The page is not cleared.
Init ==
    /\ data \in [0 .. PIPESIZE - 1 -> Byte]
    /\ nread = 0 /\ nwrite = 0
    /\ readopen = 1 /\ writeopen = 1 /\ freed = 0
    /\ lock = Free
    /\ \E p \in Proc : readers = {p} /\ writers = {p}
    /\ silent = 0
    /\ killed = [p \in Proc |-> 0]
    /\ pc = [p \in Proc |-> "user"]
    /\ i = [p \in Proc |-> 0]
    /\ n = [p \in Proc |-> 0]

-----------------------------------------------------------------------------
Goto(p, l) == pc' = [pc EXCEPT ![p] = l]

\* p gets on, woken up by wakeup() or kill().
Awake(l) == CASE l = "sleep_nread" -> "read_wake"
              [] l = "sleep_nwrite" -> "write_wake"
              [] OTHER -> l

\* wakeup(chan), while p itself goes to l.
WakeupThenGoto(chan, p, l) ==
    /\ pc' = [r \in Proc |-> IF r = p THEN l
                             ELSE IF pc[r] = chan THEN Awake(chan) ELSE pc[r]]
    /\ silent' = IF chan = "sleep_nread" THEN 0 ELSE silent

\* release(&pi->lock) and return to user space.
Return(p) ==
    /\ lock' = Free
    /\ i' = [i EXCEPT ![p] = 0]
    /\ n' = [n EXCEPT ![p] = 0]

\* Seeded fault: the counters are compared as if they never wrapped.
Full_no_wrap == nwrite = nread + PIPESIZE

Full  == nwrite = (nread + PIPESIZE) % Modulus
Empty == nread = nwrite

-----------------------------------------------------------------------------
(* pipewrite().                                                            *)

pipewrite(p, k) ==
    /\ pc[p] = "user" /\ killed[p] = 0
    /\ p \in writers
    /\ lock = Free /\ lock' = p
    /\ n' = [n EXCEPT ![p] = k]
    /\ Goto(p, "write")
    /\ UNCHANGED <<silent, pipe, ends, killed, i>>

\* Reader gone or killed: return -1, without wakeup().
write_abort(p) ==
    /\ pc[p] = "write" /\ i[p] < n[p]
    /\ readopen = 0 \/ killed[p] = 1
    /\ Return(p)
    /\ Goto(p, "user")
    /\ silent' = IF i[p] > 0 THEN 1 ELSE silent
    /\ UNCHANGED <<pipe, ends, killed>>

\* The loop's tests are passed: one more byte can go on.  killed() gives p->lock up
\* again, so kill() can come before what follows.
write_test(p) ==
    /\ pc[p] = "write" /\ i[p] < n[p]
    /\ readopen = 1 /\ killed[p] = 0
    /\ Goto(p, "put")
    /\ UNCHANGED <<silent, pipe, ends, lock, killed, i, n>>

write_sleep(p) ==
    /\ pc[p] = "put" /\ Full
    /\ lock' = Free
    /\ WakeupThenGoto("sleep_nread", p, "sleep_nwrite")
    /\ UNCHANGED <<pipe, ends, killed, i, n>>

write_byte(p, b) ==
    /\ pc[p] = "put" /\ ~Full
    /\ data' = [data EXCEPT ![nwrite % PIPESIZE] = b]
    /\ nwrite' = (nwrite + 1) % Modulus
    /\ i' = [i EXCEPT ![p] = @ + 1]
    /\ Goto(p, "write")
    /\ UNCHANGED <<silent, nread, ends, lock, killed, n>>

\* All written, or copyin() failed.
write_done(p) ==
    /\ \/ pc[p] = "write" /\ i[p] = n[p]
       \/ pc[p] = "put" /\ ~Full
    /\ Return(p)
    /\ WakeupThenGoto("sleep_nread", p, "user")
    /\ UNCHANGED <<pipe, ends, killed>>

-----------------------------------------------------------------------------
(* piperead().                                                             *)

piperead(p, k) ==
    /\ pc[p] = "user" /\ killed[p] = 0
    /\ p \in readers
    /\ lock = Free /\ lock' = p
    /\ n' = [n EXCEPT ![p] = k]
    /\ Goto(p, "read")
    /\ UNCHANGED <<silent, pipe, ends, killed, i>>

read_abort(p) ==
    /\ pc[p] = "read" /\ Empty /\ writeopen = 1
    /\ killed[p] = 1
    /\ Return(p)
    /\ Goto(p, "user")
    /\ UNCHANGED <<silent, pipe, ends, killed>>

\* Not killed: as in pipewrite(), kill() can come between the test and sleep().
read_test(p) ==
    /\ pc[p] = "read" /\ Empty /\ writeopen = 1
    /\ killed[p] = 0
    /\ Goto(p, "wait")
    /\ UNCHANGED <<silent, pipe, ends, lock, killed, i, n>>

read_sleep(p) ==
    /\ pc[p] = "wait"
    /\ lock' = Free
    /\ Goto(p, "sleep_nread")
    /\ UNCHANGED <<silent, pipe, ends, killed, i, n>>

read_ready(p) ==
    /\ pc[p] = "read"
    /\ ~Empty \/ writeopen = 0
    /\ Goto(p, "copy")
    /\ UNCHANGED <<silent, pipe, ends, lock, killed, i, n>>

\* A byte is taken out, then copied out; copyout() may fail.
read_byte(p) ==
    /\ pc[p] = "copy" /\ i[p] < n[p] /\ ~Empty
    /\ nread' = (nread + 1) % Modulus
    /\ i' = [i EXCEPT ![p] = @ + 1]
    /\ UNCHANGED <<silent, data, nwrite, ends, lock, killed, pc, n>>

read_badaddr(p) ==
    /\ pc[p] = "copy" /\ i[p] < n[p] /\ ~Empty
    /\ nread' = (nread + 1) % Modulus
    /\ Return(p)
    /\ WakeupThenGoto("sleep_nwrite", p, "user")
    /\ UNCHANGED <<data, nwrite, ends, killed>>

read_done(p) ==
    /\ pc[p] = "copy"
    /\ i[p] = n[p] \/ Empty
    /\ Return(p)
    /\ WakeupThenGoto("sleep_nwrite", p, "user")
    /\ UNCHANGED <<pipe, ends, killed>>

\* sleep() takes pi->lock again before it returns to either loop.
relock(p) ==
    /\ lock = Free /\ lock' = p
    /\ \/ pc[p] = "write_wake" /\ Goto(p, "write")
       \/ pc[p] = "read_wake" /\ Goto(p, "read")
    /\ UNCHANGED <<silent, pipe, ends, killed, i, n>>

-----------------------------------------------------------------------------
(* Closing the ends, sharing them by fork(), and kill().                   *)

\* fileclose(): the last holder goes on to pipeclose().
close_read(p) ==
    /\ pc[p] = "user" /\ p \in readers
    /\ readers' = readers \ {p}
    /\ Goto(p, IF readers = {p} THEN "close_read" ELSE "user")
    /\ UNCHANGED <<silent, pipe, readopen, writeopen, freed, lock, writers, killed, i, n>>

close_write(p) ==
    /\ pc[p] = "user" /\ p \in writers
    /\ writers' = writers \ {p}
    /\ Goto(p, IF writers = {p} THEN "close_write" ELSE "user")
    /\ UNCHANGED <<silent, pipe, readopen, writeopen, freed, lock, readers, killed, i, n>>

\* Seeded fault: the page is freed as soon as one end is closed.
pipeclose_early(p) ==
    /\ lock = Free
    /\ \/ /\ pc[p] = "close_write" /\ writeopen' = 0 /\ UNCHANGED readopen
          /\ WakeupThenGoto("sleep_nread", p, "user")
       \/ /\ pc[p] = "close_read" /\ readopen' = 0 /\ UNCHANGED writeopen
          /\ WakeupThenGoto("sleep_nwrite", p, "user")
    /\ freed' = 1
    /\ UNCHANGED <<pipe, lock, readers, writers, killed, i, n>>

\* Seeded fault: readers asleep are not told that the last writer is gone.
pipeclose_silent(p) ==
    /\ lock = Free
    /\ \/ /\ pc[p] = "close_write" /\ writeopen' = 0 /\ UNCHANGED readopen
          /\ Goto(p, "user") /\ UNCHANGED silent
       \/ /\ pc[p] = "close_read" /\ readopen' = 0 /\ UNCHANGED writeopen
          /\ WakeupThenGoto("sleep_nwrite", p, "user")
    /\ freed' = IF readopen' = 0 /\ writeopen' = 0 THEN 1 ELSE freed
    /\ UNCHANGED <<pipe, lock, readers, writers, killed, i, n>>

pipeclose(p) ==
    /\ lock = Free
    /\ \/ /\ pc[p] = "close_write" /\ writeopen' = 0 /\ UNCHANGED readopen
          /\ WakeupThenGoto("sleep_nread", p, "user")
       \/ /\ pc[p] = "close_read" /\ readopen' = 0 /\ UNCHANGED writeopen
          /\ WakeupThenGoto("sleep_nwrite", p, "user")
    /\ freed' = IF readopen' = 0 /\ writeopen' = 0 THEN 1 ELSE freed
    /\ UNCHANGED <<pipe, lock, readers, writers, killed, i, n>>

\* p forks q, a process without the pipe so far.
fork(p, q) ==
    /\ pc[p] = "user" /\ killed[p] = 0 /\ p \in readers \cup writers
    /\ pc[q] = "user" /\ q \notin readers \cup writers
    /\ readers' = IF p \in readers THEN readers \cup {q} ELSE readers
    /\ writers' = IF p \in writers THEN writers \cup {q} ELSE writers
    /\ killed' = [killed EXCEPT ![q] = 0]
    /\ UNCHANGED <<silent, pipe, readopen, writeopen, freed, lock, pc, i, n>>

\* kill(): the mark, and a wakeup if p sleeps.
kill(p) ==
    /\ p \in MayKill /\ killed[p] = 0
    /\ p \in readers \cup writers
    /\ killed' = [killed EXCEPT ![p] = 1]
    /\ Goto(p, Awake(pc[p]))
    /\ UNCHANGED <<silent, pipe, ends, lock, i, n>>

-----------------------------------------------------------------------------
Write(p) == \/ write_abort(p) \/ write_test(p) \/ write_sleep(p) \/ write_done(p)
            \/ \E b \in Byte : write_byte(p, b)
Read(p) == \/ read_abort(p) \/ read_test(p) \/ read_sleep(p) \/ read_ready(p)
           \/ read_byte(p) \/ read_badaddr(p) \/ read_done(p)

\* Steps by which p gets on with its system call.
Kernel(p) == Write(p) \/ Read(p) \/ relock(p) \/ pipeclose(p)

User(p) == \/ \E k \in 0 .. MaxN : pipewrite(p, k) \/ piperead(p, k)
           \/ close_read(p) \/ close_write(p)
           \/ \E q \in Proc : fork(p, q)

Next == \E p \in Proc : Kernel(p) \/ User(p) \/ kill(p)

Spec == Init /\ [][Next]_vars

-----------------------------------------------------------------------------
(* Safety.                                                                 *)

count == (nwrite + Modulus - nread) % Modulus

\* The ring, in the order in which it will be read.
content == [k \in 1 .. count |-> data[(nread + k - 1) % PIPESIZE]]

Fifo == INSTANCE BoundedFifo WITH
            SIZE <- PIPESIZE, q <- content, ropen <- readopen, wopen <- writeopen

\* The ring buffer implements a bounded FIFO queue of bytes, also when the
\* counters wrap around, when writers are killed half-way and when the ends are
\* closed under the feet of sleeping readers and writers.
RefinesFifo == Fifo!Spec

\* Whoever sleeps has a reason.  A writer in pipewrite(): the pipe is full and there is a
\* reader left.  A reader in piperead(): there is a writer left and the pipe is empty,
\* unless the bytes in it come from a write that was aborted, which wakes no reader.
\* piperead(), pipewrite() and pipeclose() wake them when that changes.
SleepsForAReason ==
    lock = Free =>
        \A p \in Proc : /\ pc[p] = "sleep_nwrite" => Full /\ readopen = 1
                       /\ pc[p] = "sleep_nread" => writeopen = 1 /\ (Empty \/ silent = 1)

\* pipeclose() frees the page when nobody can be in the pipe any more: no
\* process holds an end, sleeps in it or is about to take its lock.
FreedMeansUnused ==
    freed = 1 =>
        /\ readers = {} /\ writers = {} /\ lock = Free
        /\ \A p \in Proc : pc[p] = "user"

=============================================================================
