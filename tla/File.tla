-------------------------------- MODULE File --------------------------------
(***************************************************************************)
(* Open files: the file table (kernel/file.c), descriptors and the system  *)
(* calls on them (kernel/sysfile.c), pipealloc() and the descriptors that  *)
(* fork() copies and exit() closes.                                        *)
(*                                                                         *)
(* A struct file refers to an end of a pipe, to the inode or to the        *)
(* device; processes share it after fork().  What is done under            *)
(* ftable.lock is one step, as is what only the process itself can see.    *)
(* Contents are left to modules Pipe and Blocks: here writei() and readi() *)
(* move r cells at an offset, r as they like (a full disk, the end of the  *)
(* file).                                                                  *)
(***************************************************************************)
EXTENDS Naturals, Integers, Sequences, FiniteSets, SequencesExt

CONSTANTS
    Proc,       \* process slots; slot 1 is the first process
    Calls,      \* the calls each process makes
    NFILE, NOFILE, NPIPE,
    MaxOff      \* bound on file offsets; a chunk of filewrite() is one cell

ASSUME FileAssumption ==
    /\ NFILE \in Nat \ {0} /\ NOFILE \in Nat \ {0} /\ NPIPE \in Nat /\ MaxOff \in Nat
    /\ 1 \in Proc /\ 0 \notin Proc

Fid == 1 .. NFILE
Fd == 0 .. NOFILE - 1
Pipe == 1 .. NPIPE

VARIABLES
    file,       \* ftable.file: ref, type, pipe, readable, writable, off
    pipe,       \* struct pipe: the page, and the two ends
    iref,       \* references to the inode that files and calls hold
    lock,       \* holder of the inode's lock, or 0
    live,       \* processes that exist
    ofile,      \* p->ofile: 0 is no file
    job,        \* the call each process is in
    seen,       \* history: the cells read or written through a file
    panicked

vars == <<file, pipe, iref, lock, live, ofile, job, seen, panicked>>

FD_NONE == [ref |-> 0, type |-> "none", pipe |-> 0, readable |-> FALSE, writable |-> FALSE, off |-> 0]
\* f, g: files the call holds or uses; n: cells left of a write; r: the result of
\* readi() or writei(); np: fork's child; todo: what is still to be closed.
Idle == [pc |-> "user", op |-> "none", f |-> 0, g |-> 0, n |-> 0, r |-> 0, np |-> 0,
         fd |-> 0, todo |-> <<>>]

Init ==
    /\ file = [f \in Fid |-> FD_NONE]
    /\ pipe = [i \in Pipe |-> [page |-> FALSE, readopen |-> FALSE, writeopen |-> FALSE]]
    /\ iref = 0 /\ lock = 0
    /\ live = {1} /\ ofile = [p \in Proc |-> [fd \in Fd |-> 0]]
    /\ job = [p \in Proc |-> Idle]
    /\ seen = [f \in Fid |-> {}]
    /\ panicked = FALSE

Least(S) == CHOOSE x \in S : \A y \in S : x <= y
FreeFiles == {f \in Fid : file[f].ref = 0}
FreeFds(p) == {fd \in Fd : ofile[p][fd] = 0}

In(p, l) == p \in live /\ job[p].pc = l
Goto(p, l) == job' = [job EXCEPT ![p].pc = l]
\* The call is over but for closing these.
CloseAll(p, todo) == job' = [job EXCEPT ![p] = [Idle EXCEPT !.pc = "close", !.todo = todo]]

-----------------------------------------------------------------------------
(* Closing.                                                                *)

\* fileclose() under ftable.lock: the last reference copies the file and frees the slot.
\* (The code leaves the fields other than ref and type behind; open() and pipealloc()
\* set all that the new type uses, so a free slot is blank here.)
fileclose(p) ==
    LET item == Head(job[p].todo)
        f == file[item[2]]
        rest == Tail(job[p].todo)
        object == CASE f.type = "pipe" -> <<<<"pipe", f.pipe, f.writable>>>>
                    [] f.type \in {"inode", "device"} -> <<<<"iput", 0, FALSE>>>>
                    [] OTHER -> <<>>
    IN  /\ In(p, "close") /\ job[p].todo # <<>> /\ item[1] = "file"
        /\ panicked' = (panicked \/ f.ref < 1)
        /\ IF f.ref > 1
           THEN /\ file' = [file EXCEPT ![item[2]].ref = @ - 1]
                /\ job' = [job EXCEPT ![p].todo = rest]
           ELSE /\ file' = [file EXCEPT ![item[2]] = FD_NONE]
                /\ job' = [job EXCEPT ![p].todo = object \o rest]
        /\ seen' = IF f.ref > 1 THEN seen ELSE [seen EXCEPT ![item[2]] = {}]
        /\ UNCHANGED <<pipe, iref, lock, live, ofile>>

\* The rest of fileclose() for a pipe: pipeclose().
pipeclose(p) ==
    LET item == Head(job[p].todo)
        pi == [pipe[item[2]] EXCEPT !.readopen = @ /\ item[3], !.writeopen = @ /\ ~item[3]]
    IN  /\ In(p, "close") /\ job[p].todo # <<>> /\ item[1] = "pipe"
        /\ pipe' = [pipe EXCEPT ![item[2]] = [pi EXCEPT !.page = pi.readopen \/ pi.writeopen]]
        /\ job' = [job EXCEPT ![p].todo = Tail(@)]
        /\ UNCHANGED <<file, iref, lock, live, ofile, seen, panicked>>

\* The rest of fileclose() for an inode or a device, and the end of a failed open().
iput(p) ==
    /\ In(p, "close") /\ job[p].todo # <<>> /\ Head(job[p].todo)[1] = "iput"
    /\ iref' = iref - 1
    /\ lock' = IF lock = p THEN 0 ELSE lock
    /\ job' = [job EXCEPT ![p].todo = Tail(@)]
    /\ UNCHANGED <<file, pipe, live, ofile, seen, panicked>>

closed(p) ==
    /\ In(p, "close") /\ job[p].op # "exit" /\ job[p].todo = <<>>
    /\ job' = [job EXCEPT ![p] = Idle]
    /\ UNCHANGED <<file, pipe, iref, lock, live, ofile, seen, panicked>>

sys_close(p, fd) ==
    /\ In(p, "user") /\ ofile[p][fd] # 0
    /\ ofile' = [ofile EXCEPT ![p][fd] = 0]
    /\ CloseAll(p, <<<<"file", ofile[p][fd], FALSE>>>>)
    /\ UNCHANGED <<file, pipe, iref, lock, live, seen, panicked>>

-----------------------------------------------------------------------------
(* dup(), fork(), exit().                                                  *)

filedup(f) ==
    /\ file' = [file EXCEPT ![f].ref = @ + 1]
    /\ panicked' = (panicked \/ file[f].ref < 1)

sys_dup(p, fd) ==
    /\ In(p, "user") /\ ofile[p][fd] # 0
    /\ FreeFds(p) # {}
    /\ ofile' = [ofile EXCEPT ![p][Least(FreeFds(p))] = ofile[p][fd]]
    /\ filedup(ofile[p][fd])
    /\ UNCHANGED <<pipe, iref, lock, live, job, seen>>

fork(p, np) ==
    /\ In(p, "user")
    /\ np \notin live /\ \A q \in live : job[q].np # np
    /\ job' = [job EXCEPT ![p] = [Idle EXCEPT !.pc = "fork", !.np = np]]
    /\ UNCHANGED <<file, pipe, iref, lock, live, ofile, seen, panicked>>

\* One round of the loop over the parent's descriptors.
fork_dup(p) ==
    LET j == job[p]
        f == ofile[p][j.fd]
    IN  /\ In(p, "fork") /\ j.fd < NOFILE
        /\ job' = [job EXCEPT ![p].fd = @ + 1]
        /\ IF f = 0 THEN UNCHANGED <<file, ofile, panicked>>
           ELSE filedup(f) /\ ofile' = [ofile EXCEPT ![j.np][j.fd] = f]
        /\ UNCHANGED <<pipe, iref, lock, live, seen>>

fork_return(p) ==
    /\ In(p, "fork") /\ job[p].fd = NOFILE
    /\ live' = live \cup {job[p].np}
    /\ job' = [job EXCEPT ![p] = Idle]
    /\ UNCHANGED <<file, pipe, iref, lock, ofile, seen, panicked>>

\* exit() closes the descriptors in order; the slot is free when all is closed.
exit(p) ==
    /\ In(p, "user") /\ p # 1
    /\ LET fds == SetToSortSeq({fd \in Fd : ofile[p][fd] # 0}, <)
       IN  job' = [job EXCEPT ![p] = [Idle EXCEPT !.pc = "close", !.op = "exit",
                      !.todo = [k \in DOMAIN fds |-> <<"file", ofile[p][fds[k]], FALSE>>]]]
    /\ ofile' = [ofile EXCEPT ![p] = [fd \in Fd |-> 0]]
    /\ UNCHANGED <<file, pipe, iref, lock, live, seen, panicked>>

exited(p) ==
    /\ In(p, "close") /\ job[p].op = "exit" /\ job[p].todo = <<>>
    /\ live' = live \ {p}
    /\ job' = [job EXCEPT ![p] = Idle]
    /\ UNCHANGED <<file, pipe, iref, lock, ofile, seen, panicked>>

-----------------------------------------------------------------------------
(* open(): namei() or create() returns the inode with a reference, and it  *)
(* is locked until the call returns (module Fs).                           *)

sys_open(p, type) ==
    /\ In(p, "user") /\ lock = 0
    /\ lock' = p /\ iref' = iref + 1
    /\ job' = [job EXCEPT ![p] = [Idle EXCEPT !.pc = "open", !.op = type]]
    /\ UNCHANGED <<file, pipe, live, ofile, seen, panicked>>

\* The file is opened O_RDWR.
open_install(p) ==
    LET f == Least(FreeFiles)
    IN  /\ In(p, "open") /\ FreeFiles # {} /\ FreeFds(p) # {}
        /\ file' = [file EXCEPT ![f] = [@ EXCEPT !.ref = 1, !.type = job[p].op,
                        !.off = 0,
                        !.readable = TRUE, !.writable = TRUE]]
        /\ ofile' = [ofile EXCEPT ![p][Least(FreeFds(p))] = f]
        /\ lock' = 0
        /\ job' = [job EXCEPT ![p] = Idle]
        /\ UNCHANGED <<pipe, iref, live, seen, panicked>>

\* filealloc() found a file and fdalloc() no descriptor ...
open_no_fd(p) ==
    LET f == Least(FreeFiles)
    IN  /\ In(p, "open") /\ FreeFiles # {} /\ FreeFds(p) = {}
        /\ file' = [file EXCEPT ![f].ref = 1]
        /\ CloseAll(p, <<<<"file", f, FALSE>>, <<"iput", 0, FALSE>>>>)
        /\ UNCHANGED <<pipe, iref, lock, live, ofile, seen, panicked>>

\* ... or filealloc() failed.
open_no_file(p) ==
    /\ In(p, "open") /\ FreeFiles = {}
    /\ CloseAll(p, <<<<"iput", 0, FALSE>>>>)
    /\ UNCHANGED <<file, pipe, iref, lock, live, ofile, seen, panicked>>

-----------------------------------------------------------------------------
(* pipe() and pipealloc().                                                 *)

sys_pipe(p) ==
    /\ In(p, "user") /\ FreeFiles # {}
    /\ file' = [file EXCEPT ![Least(FreeFiles)].ref = 1]
    /\ job' = [job EXCEPT ![p] = [Idle EXCEPT !.pc = "pipe", !.f = Least(FreeFiles)]]
    /\ UNCHANGED <<pipe, iref, lock, live, ofile, seen, panicked>>

pipe_second(p) ==
    /\ In(p, "pipe") /\ FreeFiles # {}
    /\ file' = [file EXCEPT ![Least(FreeFiles)].ref = 1]
    /\ job' = [job EXCEPT ![p].pc = "kalloc", ![p].g = Least(FreeFiles)]
    /\ UNCHANGED <<pipe, iref, lock, live, ofile, seen, panicked>>

pipe_no_second(p) ==
    /\ In(p, "pipe") /\ FreeFiles = {}
    /\ CloseAll(p, <<<<"file", job[p].f, FALSE>>>>)
    /\ UNCHANGED <<file, pipe, iref, lock, live, ofile, seen, panicked>>

pipe_no_memory(p) ==
    /\ In(p, "kalloc")
    /\ CloseAll(p, <<<<"file", job[p].f, FALSE>>, <<"file", job[p].g, FALSE>>>>)
    /\ UNCHANGED <<file, pipe, iref, lock, live, ofile, seen, panicked>>

pipe_alloc(p) ==
    LET j == job[p]
        pi == Least({x \in Pipe : ~pipe[x].page})
        end == [FD_NONE EXCEPT !.ref = 1, !.type = "pipe", !.pipe = pi]
    IN  /\ In(p, "kalloc") /\ \E x \in Pipe : ~pipe[x].page
        /\ pipe' = [pipe EXCEPT ![pi] = [page |-> TRUE, readopen |-> TRUE, writeopen |-> TRUE]]
        /\ file' = [file EXCEPT ![j.f] = [end EXCEPT !.readable = TRUE],
                                ![j.g] = [end EXCEPT !.writable = TRUE]]
        /\ Goto(p, "fds")
        /\ UNCHANGED <<iref, lock, live, ofile, seen, panicked>>

pipe_return(p) ==
    LET fds == FreeFds(p)
        fd0 == Least(fds)
        fd1 == Least(fds \ {fd0})
    IN  /\ In(p, "fds") /\ Cardinality(fds) >= 2
        /\ ofile' = [ofile EXCEPT ![p][fd0] = job[p].f, ![p][fd1] = job[p].g]
        /\ job' = [job EXCEPT ![p] = Idle]
        /\ UNCHANGED <<file, pipe, iref, lock, live, seen, panicked>>

\* Seeded fault: only the read end is closed again.
pipe_undo_half(p) ==
    /\ In(p, "fds")
    /\ CloseAll(p, <<<<"file", job[p].f, FALSE>>>>)
    /\ UNCHANGED <<file, pipe, iref, lock, live, ofile, seen, panicked>>

\* Too few descriptors, or copyout() of their numbers fails: both are taken back.
pipe_undo(p) ==
    /\ In(p, "fds")
    /\ CloseAll(p, <<<<"file", job[p].f, FALSE>>, <<"file", job[p].g, FALSE>>>>)
    /\ UNCHANGED <<file, pipe, iref, lock, live, ofile, seen, panicked>>

-----------------------------------------------------------------------------
(* fileread(), filewrite() and filestat() on an inode: the offset of the   *)
(* file is read and advanced under the lock of the inode.                  *)

access(p, op, fd, n) ==
    LET f == ofile[p][fd]
    IN  /\ In(p, "user") /\ f # 0
        /\ file[f].type = "inode"
        /\ op = "read" => file[f].readable
        /\ op = "write" => file[f].writable
        /\ job' = [job EXCEPT ![p] = [Idle EXCEPT !.pc = "ilock", !.op = op, !.f = f, !.n = n]]
        /\ UNCHANGED <<file, pipe, iref, lock, live, ofile, seen, panicked>>

\* Seeded fault: the offset is used without the lock.
ilock_not_waiting(p) ==
    /\ In(p, "ilock")
    /\ Goto(p, IF job[p].op = "stat" THEN "advance" ELSE "rw")
    /\ UNCHANGED <<file, pipe, iref, lock, live, ofile, seen, panicked>>

ilock(p) ==
    /\ In(p, "ilock") /\ lock = 0
    /\ lock' = p
    /\ Goto(p, IF job[p].op = "stat" THEN "advance" ELSE "rw")
    /\ UNCHANGED <<file, pipe, iref, live, ofile, seen, panicked>>

\* The cells a read asks for in one go, a write in one transaction.
Chunk(j) == IF j.op = "write" THEN 1 ELSE j.n

\* readi() or writei() at f->off: r cells, or an error.
rw(p) ==
    LET j == job[p]
        off == file[j.f].off
    IN  /\ In(p, "rw")
        /\ \E r \in -1 .. Chunk(j) :
              /\ off + r <= MaxOff
              /\ seen' = [seen EXCEPT ![j.f] = @ \cup {off + k : k \in 0 .. r - 1}]
              /\ job' = [job EXCEPT ![p].pc = "advance", ![p].r = r]
        /\ UNCHANGED <<file, pipe, iref, lock, live, ofile, panicked>>

\* f->off += r, iunlock(); a write that is not over and met no error goes on.
advance(p) ==
    LET j == job[p]
        more == j.op = "write" /\ j.r = Chunk(j) /\ j.n > Chunk(j)
    IN  /\ In(p, "advance")
        /\ lock' = 0
        /\ file' = [file EXCEPT ![j.f].off = IF j.r > 0 THEN @ + j.r ELSE @]
        /\ job' = [job EXCEPT ![p] = IF more
                      THEN [Idle EXCEPT !.pc = "ilock", !.op = j.op, !.f = j.f, !.n = j.n - j.r]
                      ELSE Idle]
        /\ UNCHANGED <<pipe, iref, live, ofile, seen, panicked>>

Call(p) ==
    \/ \E fd \in Fd : \/ "close" \in Calls[p] /\ sys_close(p, fd)
                      \/ "dup" \in Calls[p] /\ sys_dup(p, fd)
                      \/ \E op \in {"read", "write", "stat"} \cap Calls[p] : access(p, op, fd, 2)
    \/ \E np \in Proc : "fork" \in Calls[p] /\ fork(p, np)
    \/ "exit" \in Calls[p] /\ exit(p)
    \/ \E type \in {"inode", "device"} \cap Calls[p] : sys_open(p, type)
    \/ "pipe" \in Calls[p] /\ sys_pipe(p)

Continue(p) ==
    \/ fileclose(p) \/ pipeclose(p) \/ iput(p) \/ closed(p) \/ exited(p)
    \/ fork_dup(p) \/ fork_return(p)
    \/ open_install(p)
    \/ open_no_fd(p) \/ open_no_file(p)
    \/ pipe_second(p) \/ pipe_no_second(p) \/ pipe_no_memory(p)
    \/ pipe_alloc(p) \/ pipe_return(p) \/ pipe_undo(p)
    \/ ilock(p) \/ rw(p) \/ advance(p)

Next == ~panicked /\ \E p \in Proc : Call(p) \/ Continue(p)

Spec == Init /\ [][Next]_vars

-----------------------------------------------------------------------------

Pending(item) ==
    {<<p, "todo", k>> : <<p, k>> \in {d \in Proc \X (1 .. NOFILE + 1) :
                            d[2] \in DOMAIN job[d[1]].todo /\ job[d[1]].todo[d[2]] = item}}

\* What refers to file f: descriptors, and the hands of a call that is about to
\* store it or to close it.
RefsTo(f) ==
    {<<p, "fd", fd>> : <<p, fd>> \in {d \in Proc \X Fd : ofile[d[1]][d[2]] = f}}
    \cup {<<p, "new", 0>> : p \in {q \in Proc : job[q].pc \in {"pipe", "kalloc", "fds"}
                                                /\ f \in {job[q].f, job[q].g}}}
    \cup Pending(<<"file", f, FALSE>>)

\* An end of pipe i is in use: by a file, or by a fileclose() not yet at pipeclose().
EndInUse(i, writable) ==
    \/ \E f \in Fid : file[f].type = "pipe" /\ file[f].pipe = i /\ file[f].writable = writable
    \/ Pending(<<"pipe", i, writable>>) # {}

\* The reference count of a file is the number of descriptors that refer to it, with
\* those a call has in hand; the inode's, the number of its open files; an end of a
\* pipe is open, and its page allocated, exactly while a file refers to it: nothing
\* leaks when a table is full, nothing is freed while somebody can use it, and the
\* assertions of filedup() and fileclose() hold.
CountsExact ==
    /\ \A f \in Fid : file[f].ref = Cardinality(RefsTo(f))
    /\ iref = Cardinality({f \in Fid : file[f].type \in {"inode", "device"}})
              + Cardinality({p \in Proc : job[p].pc = "open"})
              + Cardinality(Pending(<<"iput", 0, FALSE>>))
    /\ \A i \in Pipe : /\ pipe[i].readopen = EndInUse(i, FALSE)
                       /\ pipe[i].writeopen = EndInUse(i, TRUE)
                       /\ pipe[i].page = (pipe[i].readopen \/ pipe[i].writeopen)
    /\ ~panicked

\* Processes that share a file after dup() or fork() share its offset, and no two of
\* their reads and writes get the same cell: the offset is as far as the cells that
\* were read or written through the file, each once.
EachCellOnce ==
    \A f \in Fid :
       file[f].type = "inode" /\ (\A p \in Proc : ~(job[p].pc = "advance" /\ job[p].f = f))
       => file[f].off = Cardinality(seen[f])
=============================================================================
