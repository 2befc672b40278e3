-------------------------------- MODULE Log ---------------------------------
(***************************************************************************)
(* The redo log of kernel/log.c: file system calls bracketed by begin_op   *)
(* and end_op, group commit by the last of them, crashes at any step and   *)
(* recovery at boot.                                                       *)
(*                                                                         *)
(* A step is a critical section under log.lock, or the handling of one     *)
(* block by the committing (or recovering) process, which holds no         *)
(* spinlock but excludes every other call through log.committing.  bwrite  *)
(* is synchronous.  A crash in the middle of a data block's bwrite may     *)
(* leave the block Torn (a block is two 512 byte sectors); the header's    *)
(* 124 bytes lie in its first sector, so the header is written whole.      *)
(*                                                                         *)
(* The buffer cache appears as the contents it holds for home blocks: a    *)
(* buffer nobody pinned can be recycled by bget at any time, and its       *)
(* contents are then what a later bread finds on disk.  Buffers of the log *)
(* area are only ever written through and are not kept apart from disk.    *)
(***************************************************************************)
EXTENDS Naturals, Sequences, FiniteSets

CONSTANTS
    Proc,         \* processes that make file system calls
    Block,        \* numbers of home (non-log) blocks
    Data,         \* contents of a block
    Zero,         \* contents of a block mkfs only zeroed
    Torn,         \* contents of a block whose write a crash interrupted
    NoBuf,        \* "not in the buffer cache"
    MAXOPBLOCKS,  \* blocks begin_op reserves for one call
    LOGSIZE,      \* entries in the header's array
    nlog,         \* blocks in the log area, the header included
    OpBlocks      \* most distinct blocks one call logs

ASSUME LogAssumption ==
    /\ MAXOPBLOCKS \in Nat \ {0}
    /\ LOGSIZE \in Nat /\ LOGSIZE >= MAXOPBLOCKS
    /\ nlog \in Nat \ {0}
    /\ OpBlocks \in Nat
    /\ IsFiniteSet(Proc)
    /\ Zero \in Data
    /\ Torn \notin Data
    /\ NoBuf \notin Data
    /\ NoBuf # Torn

VARIABLES
    disk,         \* home blocks on disk
    dlog,         \* log blocks on disk, after the header
    dhead,        \* header block on disk: the block numbers it lists
    cache,        \* contents of cached home blocks
    pins,         \* references bpin took on a block's buffer
    lh,           \* log.lh: block numbers logged in memory
    outstanding,  \* log.outstanding
    committing,   \* log.committing
    pc, tail,     \* where each process is, and its loop index
    wrote,        \* blocks logged by the process's current call
    panicked      \* the message of a panic, or "no"

diskVars == <<disk, dlog, dhead>>
logVars  == <<lh, outstanding, committing>>
vars == <<disk, dlog, dhead, cache, pins, lh, outstanding, committing,
          pc, tail, wrote, panicked>>

\* "unborn": recovery is not over, so no process has reached user space.
PCs == {"unborn", "recover", "rinstall", "rclear",
        "idle", "asleep", "begin", "op",
        "write_log", "write_head", "install", "clear", "finish"}

LogBlock == 1 .. nlog - 1
Content  == Data \cup {Torn}

TypeOK ==
    /\ disk \in [Block -> Content]
    /\ dlog \in [LogBlock -> Content]
    /\ dhead \in Seq(Block)
    /\ cache \in [Block -> Content \cup {NoBuf}]
    /\ pins \in [Block -> Nat]
    /\ lh \in Seq(Block)
    /\ outstanding \in Nat
    /\ committing \in {0, 1}
    /\ pc \in [Proc -> PCs]
    /\ tail \in [Proc -> Nat]
    /\ wrote \in [Proc -> SUBSET Block]
    /\ panicked \in {"no", "too big a transaction",
                     "log_write outside of trans", "log.committing"}

-----------------------------------------------------------------------------
(* Boot: the first process runs fsinit -> initlog -> recover_from_log      *)
(* before any other exists (forkret).                                      *)

Booting(q) == [p \in Proc |-> IF p = q THEN "recover" ELSE "unborn"]

\* A freshly made file system: mkfs writes an empty log.
Init ==
    /\ disk \in [Block -> Data]
    /\ dlog = [i \in LogBlock |-> Zero]
    /\ dhead = <<>>
    /\ cache = [b \in Block |-> NoBuf]
    /\ pins = [b \in Block |-> 0]
    /\ lh = <<>>
    /\ outstanding = 0
    /\ committing = 0
    /\ pc \in {Booting(q) : q \in Proc}
    /\ tail = [p \in Proc |-> 0]
    /\ wrote = [p \in Proc |-> {}]
    /\ panicked = "no"

-----------------------------------------------------------------------------
(* Helpers: the buffer cache as log.c uses it.                             *)

Logged(b) == \E i \in 1 .. Len(lh) : lh[i] = b

\* bread(b)->data: the cached contents, or else what is on disk.
BufData(b) == IF cache[b] = NoBuf THEN disk[b] ELSE cache[b]

\* Seeded fault: the pin is never given back.
bunpin_missing(b) == UNCHANGED pins

bpin(b)   == pins' = [pins EXCEPT ![b] = @ + 1]
bunpin(b) == pins' = [pins EXCEPT ![b] = @ - 1]

At(p, l) == panicked = "no" /\ pc[p] = l
Goto(p, l) == pc' = [pc EXCEPT ![p] = l]

\* Seeded fault: a wakeup that wakes nobody.
WakeupThenGoto_lost(p, l) == Goto(p, l)

\* wakeup(&log), by p which itself continues at l: sleepers re-run the loop
\* of begin_op.
WakeupThenGoto(p, l) ==
    pc' = [q \in Proc |-> IF q = p THEN l
                          ELSE IF pc[q] = "asleep" THEN "begin" ELSE pc[q]]

Panic(msg) ==
    /\ panicked' = msg
    /\ UNCHANGED <<diskVars, cache, pins, logVars, pc, tail, wrote>>

-----------------------------------------------------------------------------
(* File system calls.                                                      *)

\* Seeded faults: the new call itself is not counted; a running commit is
\* not waited for.
NoRoom_off_by_one == Len(lh) + outstanding * MAXOPBLOCKS > LOGSIZE
MustWait_commit_ignored == Len(lh) + (outstanding + 1) * MAXOPBLOCKS > LOGSIZE

\* The two conditions on which begin_op goes to sleep.
NoRoom == Len(lh) + (outstanding + 1) * MAXOPBLOCKS > LOGSIZE
MustWait == committing = 1 \/ NoRoom

begin_op_sleep(p) ==
    /\ At(p, "idle") \/ At(p, "begin")
    /\ MustWait
    /\ Goto(p, "asleep")
    /\ UNCHANGED <<diskVars, cache, pins, logVars, tail, wrote, panicked>>

begin_op_admit(p) ==
    /\ At(p, "idle") \/ At(p, "begin")
    /\ ~MustWait
    /\ outstanding' = outstanding + 1
    /\ wrote' = [wrote EXCEPT ![p] = {}]
    /\ Goto(p, "op")
    /\ UNCHANGED <<diskVars, cache, pins, lh, committing, tail, panicked>>

\* log_write's checks; the first counts the header block, which begin_op's
\* reservation does not.
log_write_check ==
    IF Len(lh) >= LOGSIZE \/ Len(lh) >= nlog - 1 THEN "too big a transaction"
    ELSE IF outstanding < 1 THEN "log_write outside of trans"
    ELSE "no"

\* A call modifies a buffer it holds locked and logs it.
log_write(p, b, v) ==
    /\ At(p, "op")
    /\ Cardinality(wrote[p] \cup {b}) <= OpBlocks
    /\ IF log_write_check # "no"
       THEN Panic(log_write_check)
       ELSE /\ cache' = [cache EXCEPT ![b] = v]
            /\ IF Logged(b) THEN UNCHANGED <<lh, pins>>
                            ELSE lh' = Append(lh, b) /\ bpin(b)
            /\ wrote' = [wrote EXCEPT ![p] = @ \cup {b}]
            /\ UNCHANGED <<diskVars, outstanding, committing, pc, tail, panicked>>

\* The last call out commits (commit() does nothing when lh is empty).
end_op(p) ==
    /\ At(p, "op")
    /\ IF committing = 1
       THEN Panic("log.committing")
       ELSE /\ outstanding' = outstanding - 1
            /\ IF outstanding = 1
               THEN /\ committing' = 1
                    /\ Goto(p, IF lh = <<>> THEN "finish" ELSE "write_log")
               ELSE /\ WakeupThenGoto(p, "idle")
                    /\ UNCHANGED committing
            /\ UNCHANGED <<diskVars, cache, pins, lh, tail, wrote, panicked>>

-----------------------------------------------------------------------------
(* commit(), run by the process that set log.committing.                   *)

\* Advance a loop over lh, leaving it for l after the last entry.
LoopOver(p, l) ==
    IF tail[p] + 1 = Len(lh)
    THEN Goto(p, l) /\ tail' = [tail EXCEPT ![p] = 0]
    ELSE tail' = [tail EXCEPT ![p] = @ + 1] /\ UNCHANGED pc

write_log(p) ==
    /\ At(p, "write_log")
    /\ LET b == lh[tail[p] + 1] IN
       /\ dlog' = [dlog EXCEPT ![tail[p] + 1] = BufData(b)]
       /\ cache' = [cache EXCEPT ![b] = BufData(b)]
    /\ LoopOver(p, "write_head")
    /\ UNCHANGED <<disk, dhead, pins, logVars, wrote, panicked>>

\* "the true point at which the current transaction commits"
write_head(p) ==
    /\ At(p, "write_head")
    /\ dhead' = lh
    /\ Goto(p, "install")
    /\ UNCHANGED <<disk, dlog, cache, pins, logVars, tail, wrote, panicked>>

\* One turn of install_trans's loop, without the bunpin.
InstallBlock(p) ==
    LET b == lh[tail[p] + 1]
        v == dlog[tail[p] + 1]
    IN  /\ disk' = [disk EXCEPT ![b] = v]
        /\ cache' = [cache EXCEPT ![b] = v]

install_trans(p) ==
    /\ At(p, "install")
    /\ InstallBlock(p)
    /\ bunpin(lh[tail[p] + 1])
    /\ LoopOver(p, "clear")
    /\ UNCHANGED <<dlog, dhead, logVars, wrote, panicked>>

\* log.lh.n = 0; write_head()
clear(p) ==
    /\ At(p, "clear")
    /\ lh' = <<>>
    /\ dhead' = <<>>
    /\ Goto(p, "finish")
    /\ UNCHANGED <<disk, dlog, cache, pins, outstanding, committing, tail,
                   wrote, panicked>>

\* The end of end_op, after commit() returned.
finish(p) ==
    /\ At(p, "finish")
    /\ committing' = 0
    /\ WakeupThenGoto(p, "idle")
    /\ UNCHANGED <<diskVars, cache, pins, lh, outstanding, tail, wrote, panicked>>

-----------------------------------------------------------------------------
(* recover_from_log(), run at boot.                                        *)

\* Seeded fault: recovery erases a committed transaction.
read_head_no_install(p) ==
    /\ At(p, "recover")
    /\ lh' = dhead
    /\ Goto(p, "rclear")
    /\ UNCHANGED <<diskVars, cache, pins, outstanding, committing, tail,
                   wrote, panicked>>

read_head(p) ==
    /\ At(p, "recover")
    /\ lh' = dhead
    /\ Goto(p, IF dhead = <<>> THEN "rclear" ELSE "rinstall")
    /\ UNCHANGED <<diskVars, cache, pins, outstanding, committing, tail,
                   wrote, panicked>>

install_trans_recovering(p) ==
    /\ At(p, "rinstall")
    /\ InstallBlock(p)
    /\ LoopOver(p, "rclear")
    /\ UNCHANGED <<dlog, dhead, pins, logVars, wrote, panicked>>

\* The last step of recovery; afterwards processes can run.
recover_clear(p) ==
    /\ At(p, "rclear")
    /\ lh' = <<>>
    /\ dhead' = <<>>
    /\ pc' = [q \in Proc |-> "idle"]
    /\ UNCHANGED <<disk, dlog, cache, pins, outstanding, committing, tail,
                   wrote, panicked>>

-----------------------------------------------------------------------------
(* The environment.                                                        *)

Recovering == \E p \in Proc : pc[p] \in {"recover", "rinstall", "rclear"}

\* bread of an uncached block by any process, in a call or just reading.
bread(b) ==
    /\ panicked = "no" /\ ~Recovering
    /\ cache[b] = NoBuf
    /\ cache' = [cache EXCEPT ![b] = disk[b]]
    /\ UNCHANGED <<diskVars, pins, logVars, pc, tail, wrote, panicked>>

\* bget recycles a buffer whose refcnt is zero.
bget_recycle(b) ==
    /\ panicked = "no"
    /\ cache[b] # NoBuf
    /\ pins[b] = 0
    /\ cache' = [cache EXCEPT ![b] = NoBuf]
    /\ UNCHANGED <<diskVars, pins, logVars, pc, tail, wrote, panicked>>

\* What a power failure leaves on disk: everything written, except that the
\* data block whose bwrite was under way may be half old and half new.
DiskAfterCrash ==
    \/ UNCHANGED diskVars
    \/ \E p \in Proc :
        /\ pc[p] = "write_log"
        /\ dlog' = [dlog EXCEPT ![tail[p] + 1] = Torn]
        /\ UNCHANGED <<disk, dhead>>
    \/ \E p \in Proc :
        /\ pc[p] \in {"install", "rinstall"}
        /\ disk' = [disk EXCEPT ![lh[tail[p] + 1]] = Torn]
        /\ UNCHANGED <<dlog, dhead>>

\* Power failure (also the way out of a panic), then reboot: memory is lost.
Crash ==
    /\ DiskAfterCrash
    /\ cache' = [b \in Block |-> NoBuf]
    /\ pins' = [b \in Block |-> 0]
    /\ lh' = <<>>
    /\ outstanding' = 0
    /\ committing' = 0
    /\ \E q \in Proc : pc' = Booting(q)
    /\ tail' = [p \in Proc |-> 0]
    /\ wrote' = [p \in Proc |-> {}]
    /\ panicked' = "no"

-----------------------------------------------------------------------------
Call(p) ==
    \/ begin_op_sleep(p) \/ begin_op_admit(p)
    \/ \E b \in Block, v \in Data : log_write(p, b, v)
    \/ end_op(p)

Commit(p) ==
    write_log(p) \/ write_head(p) \/ install_trans(p) \/ clear(p) \/ finish(p)

Recover(p) == read_head(p) \/ install_trans_recovering(p) \/ recover_clear(p)

Cache == \E b \in Block : bread(b) \/ bget_recycle(b)

Next ==
    \/ \E p \in Proc : Call(p)
    \/ \E p \in Proc : Commit(p)
    \/ \E p \in Proc : Recover(p)
    \/ Cache
    \/ Crash

Spec == Init /\ [][Next]_vars

-----------------------------------------------------------------------------
(* Refinement: the log implements AtomicDisk.                              *)

\* What recovery makes of a header h, log blocks l and home blocks d: a block
\* the header lists gets its (last) copy in the log, any other stays.
AfterRecovery(h, l, d) ==
    [b \in Block |->
        IF \E i \in 1 .. Len(h) : h[i] = b
        THEN l[CHOOSE i \in 1 .. Len(h) :
                 h[i] = b /\ \A j \in i + 1 .. Len(h) : h[j] # b]
        ELSE d[b]]

durable == AfterRecovery(dhead, dlog, disk)

\* The blocks as a bread would return them; nobody reads during recovery.
visible == IF Recovering THEN durable ELSE [b \in Block |-> BufData(b)]

InCall == {p \in Proc : pc[p] = "op"}

AD == INSTANCE AtomicDisk WITH mem <- visible, dur <- durable, active <- InCall

\* Crash safety, the purpose of log.c ("there is never any reasoning required
\* about whether a commit might write an uncommitted system call's updates to
\* disk"): whatever steps calls, commits, cache recycling, crashes and
\* recoveries interleave in, the durable contents change only as a whole, to
\* what all finished calls wrote, while no call is active.
RefinesAtomicDisk == AD!Spec

-----------------------------------------------------------------------------
(* Safety.                                                                 *)

\* Once the last call out has returned from end_op (no call outstanding, no
\* commit under way), every write of every call so far is durable: group
\* commit leaves nothing behind that only the cache knows of.
QuiescentIsDurable ==
    (outstanding = 0 /\ committing = 0) => durable = visible

\* No lost wakeup: a process asleep in begin_op always has somebody who will
\* call wakeup(&log), a call still outstanding or a commit under way.
SleeperHasWaker ==
    \A p \in Proc : pc[p] = "asleep" => outstanding > 0 \/ committing = 1

\* While blocks are copied to the log or installed, no call can be changing
\* them, and only one process does it: the lock-free part of commit() has the
\* log to itself.
CommitterIsAlone ==
    \A p \in Proc :
        pc[p] \in {"write_log", "write_head", "install", "clear", "finish"} =>
            \A q \in Proc \ {p} : pc[q] \in {"idle", "begin", "asleep"}

\* The reservation made by begin_op is enough: no call, however the calls
\* overlap, runs into one of the panics of log_write and end_op.
NoPanic == panicked = "no"

\* b is logged and install_trans has not yet written it home.
Pending(b) ==
    /\ ~Recovering
    /\ \E i \in 1 .. Len(lh) :
        /\ lh[i] = b
        /\ \A p \in Proc : /\ pc[p] = "install" => i > tail[p]
                           /\ pc[p] # "clear"

\* A buffer is pinned exactly from the first log_write of its block until
\* install_trans has written it home (no pin leaks, none is dropped early).
PinnedWhileLogged ==
    \A b \in Block : pins[b] = IF Pending(b) THEN 1 ELSE 0

-----------------------------------------------------------------------------
(* Liveness.                                                               *)

\* Processes get the CPU, disk writes complete, and a call ends (no xv6 call
\* waits for anything but locks and the disk between begin_op and end_op).
Fairness ==
    /\ \A p \in Proc : WF_vars(end_op(p))
    /\ \A p \in Proc : WF_vars(Commit(p))
    /\ \A p \in Proc : WF_vars(Recover(p))

LiveSpec == Spec /\ Fairness

\* A process that sleeps in begin_op is woken to try again.
SleeperWakes == \A p \in Proc : pc[p] = "asleep" ~> pc[p] # "asleep"

=============================================================================
