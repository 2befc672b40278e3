------------------------------- MODULE Bcache -------------------------------
(***************************************************************************)
(* The buffer cache (kernel/bio.c) with the sleep-locks of its buffers     *)
(* (kernel/sleeplock.c): NBUF buffers, kept in a list in order of use,     *)
(* are handed out locked and recycled when nobody refers to them.          *)
(*                                                                         *)
(* A section under bcache.lock, or under a sleep-lock's spinlock, is one   *)
(* step.  The caller's side (fs.c and log.c) is modelled by its            *)
(* discipline: a process uses one buffer at a time, and a changed buffer   *)
(* is written, or pinned for the log, before it is released; the log       *)
(* unpins a buffer it holds after writing it home.  Blocks are read and     *)
(* written through the driver of VirtioDisk.                                *)
(***************************************************************************)
EXTENDS VirtioDisk

CONSTANT MaxPins    \* blocks the log pins at a time

ASSUME BcacheAssumption ==
    /\ Free \notin Proc /\ Free \notin Block
    /\ IsFiniteSet(Buf) /\ MaxPins \in Nat

VARIABLES
    lru,                      \* the list from head.next on
    blockno, valid, refcnt,   \* struct buf
    locked,                   \* its sleep-lock: the holder
    pins,                     \* blocks pinned by log_write
    panicked

bufs == <<lru, blockno, valid, refcnt>>
vars == <<ioVars, lru, blockno, valid, refcnt, locked, pins, pc, cur, panicked>>

\* binit(): buffers that hold no block yet.
Init ==
    /\ VirtioInit
    /\ lru \in {s \in [1 .. Cardinality(Buf) -> Buf] : Entries(s) = Buf}
    /\ blockno = [x \in Buf |-> Free]
    /\ valid = [x \in Buf |-> 0]
    /\ refcnt = [x \in Buf |-> 0]
    /\ locked = [x \in Buf |-> Free]
    /\ pins = {}
    /\ pc = [p \in Proc |-> "idle"]
    /\ cur = [p \in Proc |-> Free]
    /\ panicked = 0

-----------------------------------------------------------------------------
At(p, l) == panicked = 0 /\ pc[p] = l
Goto(p, l) == pc' = [pc EXCEPT ![p] = l]

\* x becomes the most recently used.
MoveToFront(s, x) == <<x>> \o SelectSeq(s, LAMBDA y : y # x)

Cached(b) == {x \in Buf : blockno[x] = b}

\* Seeded fault: the new reference to a cached block is not counted.
bget_hit_uncounted(p, b) ==
    /\ At(p, "idle")
    /\ \E x \in Cached(b) : cur' = [cur EXCEPT ![p] = x]
    /\ Goto(p, "lock")
    /\ UNCHANGED <<bufs, ioVars, locked, pins, panicked>>

\* The block is already cached.
bget_hit(p, b) ==
    /\ At(p, "idle")
    /\ \E x \in Cached(b) :
        /\ refcnt' = [refcnt EXCEPT ![x] = @ + 1]
        /\ cur' = [cur EXCEPT ![p] = x]
    /\ Goto(p, "lock")
    /\ UNCHANGED <<lru, blockno, valid, ioVars, locked, pins, panicked>>

\* The last buffer of the list with refcnt 0.
Victim(x) ==
    /\ refcnt[x] = 0
    /\ \A k \in 1 .. Len(lru) : refcnt[lru[k]] = 0 =>
          \E m \in 1 .. Len(lru) : m >= k /\ lru[m] = x

\* Seeded fault: the recycled buffer still counts as read.
bget_recycle_valid(p, b) ==
    /\ At(p, "idle") /\ Cached(b) = {}
    /\ \E x \in Buf :
        /\ Victim(x)
        /\ blockno' = [blockno EXCEPT ![x] = b]
        /\ refcnt' = [refcnt EXCEPT ![x] = 1]
        /\ cur' = [cur EXCEPT ![p] = x]
    /\ Goto(p, "lock")
    /\ UNCHANGED <<lru, valid, ioVars, locked, pins, panicked>>

bget_recycle(p, b) ==
    /\ At(p, "idle") /\ Cached(b) = {}
    /\ \E x \in Buf :
        /\ Victim(x)
        /\ blockno' = [blockno EXCEPT ![x] = b]
        /\ valid' = [valid EXCEPT ![x] = 0]
        /\ refcnt' = [refcnt EXCEPT ![x] = 1]
        /\ cur' = [cur EXCEPT ![p] = x]
    /\ Goto(p, "lock")
    /\ UNCHANGED <<ioVars, lru, locked, pins, panicked>>

bget_panic(p, b) ==
    /\ At(p, "idle") /\ Cached(b) = {}
    /\ \A x \in Buf : refcnt[x] > 0
    /\ panicked' = 1
    /\ UNCHANGED <<ioVars, bufs, locked, pins, pc, cur>>

-----------------------------------------------------------------------------
(* acquiresleep() and releasesleep().                                      *)

acquiresleep(p) ==
    /\ At(p, "lock")
    /\ IF locked[cur[p]] = Free
       THEN locked' = [locked EXCEPT ![cur[p]] = p] /\ Goto(p, "fill")
       ELSE UNCHANGED locked /\ Goto(p, "asleep")
    /\ UNCHANGED <<ioVars, bufs, pins, cur, panicked>>

\* Seeded fault: the lock's sleepers are not found.
LockSleepers_none(x) == {}

\* The processes that sleep on the lock of x.
LockSleepers(x) == {r \in Proc : pc[r] = "asleep" /\ cur[r] = x}

-----------------------------------------------------------------------------
(* bread(), bwrite(), brelse(), bpin() and bunpin().                       *)

\* bread(): read the block unless the buffer is valid.
bread(p) ==
    /\ At(p, "fill")
    /\ Goto(p, IF valid[cur[p]] = 1 THEN "held" ELSE "read")
    /\ UNCHANGED <<ioVars, bufs, locked, pins, cur, panicked>>

\* virtio_disk_rw() for the buffer; a buffer that was read is now valid.
rw(p) ==
    /\ panicked = 0
    /\ \/ /\ alloc3_fails(p) \/ submit(p, blockno[cur[p]]) \/ wait_again(p)
          /\ UNCHANGED valid
       \/ finish(p) /\ valid' = [valid EXCEPT ![cur[p]] = 1]
    /\ UNCHANGED <<lru, blockno, refcnt, locked, pins, panicked>>

\* The caller changes the contents.
modify(p, v) ==
    /\ At(p, "held")
    /\ data' = [data EXCEPT ![cur[p]] = v]
    /\ UNCHANGED <<driver, avail, used, busy, intr, isr, inflight, disk>>
    /\ UNCHANGED <<bufs, locked, pins, pc, cur, panicked>>

bwrite(p) ==
    /\ At(p, "held")
    /\ Goto(p, "write")
    /\ UNCHANGED <<ioVars, bufs, locked, pins, cur, panicked>>

bpin(p) ==
    /\ At(p, "held")
    /\ blockno[cur[p]] \notin pins /\ Cardinality(pins) < MaxPins
    /\ pins' = pins \cup {blockno[cur[p]]}
    /\ refcnt' = [refcnt EXCEPT ![cur[p]] = @ + 1]
    /\ UNCHANGED <<lru, blockno, valid, ioVars, locked, pc, cur, panicked>>

Clean(x) == data[x] = disk[blockno[x]]

bunpin(p) ==
    /\ At(p, "held")
    /\ blockno[cur[p]] \in pins /\ Clean(cur[p])
    /\ pins' = pins \ {blockno[cur[p]]}
    /\ refcnt' = [refcnt EXCEPT ![cur[p]] = @ - 1]
    /\ UNCHANGED <<lru, blockno, valid, ioVars, locked, pc, cur, panicked>>

\* brelse(): releasesleep(), then the reference is dropped under bcache.lock.
releasesleep(p) ==
    /\ At(p, "held")
    /\ Clean(cur[p]) \/ blockno[cur[p]] \in pins
    /\ locked' = [locked EXCEPT ![cur[p]] = Free]
    /\ WakeAndGoto(LockSleepers(cur[p]), p, "release")
    /\ UNCHANGED <<ioVars, bufs, pins, cur, panicked>>

brelse(p) ==
    /\ At(p, "release")
    /\ refcnt' = [refcnt EXCEPT ![cur[p]] = @ - 1]
    /\ lru' = IF refcnt[cur[p]] = 1 THEN MoveToFront(lru, cur[p]) ELSE lru
    /\ cur' = [cur EXCEPT ![p] = Free]
    /\ Goto(p, "idle")
    /\ UNCHANGED <<blockno, valid, ioVars, locked, pins, panicked>>

-----------------------------------------------------------------------------
bget(p, b) == bget_hit(p, b) \/ bget_recycle(p, b) \/ bget_panic(p, b)

Next ==
    \/ \E p \in Proc :
        \/ \E b \in Block : bget(p, b)
        \/ acquiresleep(p) \/ bread(p) \/ rw(p)
        \/ \E v \in Data : modify(p, v)
        \/ bwrite(p) \/ bpin(p) \/ bunpin(p) \/ releasesleep(p) \/ brelse(p)
    \/ /\ panicked = 0
       /\ Device \/ Interrupt \/ \E p \in Proc : kill(p)
       /\ UNCHANGED <<bufs, locked, pins, panicked>>

Spec == Init /\ [][Next]_vars

-----------------------------------------------------------------------------
(* Safety.                                                                 *)

\* The contents of block b as the next holder will see them.
store == [b \in Block |->
    IF \E x \in Cached(b) : valid[x] = 1
    THEN data[CHOOSE x \in Cached(b) : valid[x] = 1] ELSE disk[b]]

\* A process has the block once it has locked the buffer and the buffer is valid.
holder == [b \in Block |->
    IF \E x \in Cached(b) : valid[x] = 1
    THEN locked[CHOOSE x \in Cached(b) : valid[x] = 1] ELSE Free]

BS == INSTANCE BlockStore

\* The cache behaves like one copy of every block, used by one process at a
\* time, whatever is evicted and read again in between.
RefinesBlockStore == BS!Spec

\* refcnt counts the processes that use the buffer or wait for it, and the pin.
RefcntExact ==
    \A x \in Buf :
        refcnt[x] = Cardinality({p \in Proc : cur[p] = x})
                      + IF blockno[x] \in pins THEN 1 ELSE 0

\* Nobody sleeps for ever: who waits for a buffer's lock waits for a holder, who
\* waits for the disk has a request under way, and who waits for descriptors
\* waits for a request, or for a process that is about to make one.
SleeperHasWaker ==
    \A p \in Proc :
        /\ pc[p] = "asleep" => locked[cur[p]] \notin {Free, p}
        /\ pc[p] = "io" => RequestUnderWay(p)
        /\ p \in FreeSleepers => Pending # {} \/ \E q \in Proc : pc[q] \in Starting

\* When virtio_disk_rw() returns, the buffer and the block on the disk agree,
\* although the caller may have been woken up early by kill().
IoTakesEffect ==
    [][\A p \in Proc : pc[p] = "io_woken" /\ pc'[p] = "held" =>
           data'[cur[p]] = disk'[blockno[cur[p]]]]_vars
=============================================================================
