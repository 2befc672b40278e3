------------------------------- MODULE Blocks -------------------------------
(***************************************************************************)
(* File contents: the block allocator, bmap(), readi(), writei() and       *)
(* itrunc() (kernel/fs.c), on the image that mkfs made (module Mkfs).      *)
(*                                                                         *)
(* Processes read, write and truncate inodes concurrently.  An operation   *)
(* holds the inode's lock; every block it allocates, zeroes, copies or     *)
(* frees is a step.  The contents of a block are those of its buffer       *)
(* (buf), which reach the disk when the transaction that logged the buffer *)
(* commits, and only then: a buffer that was changed and not logged loses  *)
(* the change when the cache recycles it.                                  *)
(***************************************************************************)
EXTENDS Mkfs, FiniteSets

CONSTANTS
    Proc,        \* processes, numbered from 1: each writes its own number
    FileIno,     \* the inodes that are written and truncated
    WriteArgs, ReadArgs,  \* pairs <<off, n>>
    UINT,        \* 2^32 in the code
    MaxCalls     \* operations each process starts

VARIABLES
    bitmap,      \* blocks marked in use
    buf, disk,   \* contents of each block: in the cache, and on the disk with the log
    logged,      \* blocks of the current transaction
    inode, dino, \* in-memory inodes, and inodes as iupdate() last saved them
    lock,        \* the process that holds each inode's lock, or 0
    job, calls,
    panicked,
    may          \* history: what each cell of each file may hold

vars == <<bitmap, buf, disk, logged, inode, dino, lock, job, calls, panicked, may>>

MAXSIZE == MAXFILE * BSIZE
Idle == [pc |-> "idle", op |-> "none", i |-> ROOTINO, off |-> 0, n |-> 0, tot |-> 0,
         b |-> 0, got |-> <<>>]

\* The address of the bn'th block of inode ip, 0 if it has none.
AddrOf(ip, contents, bn) ==
    IF bn < NDIRECT THEN ip.addrs[bn]
    ELSE IF ip.addrs[NDIRECT] = 0 \/ bn >= MAXFILE THEN 0
    ELSE contents[ip.addrs[NDIRECT]][bn - NDIRECT]

Cell(i, k) == buf[AddrOf(inode[i], buf, k \div BSIZE)][k % BSIZE]

Init ==
    /\ bitmap = image.used /\ buf = image.sect /\ disk = image.sect /\ logged = {}
    /\ inode = image.din /\ dino = image.din
    /\ lock = [i \in Inum |-> 0]
    /\ job = [p \in Proc |-> Idle] /\ calls = [p \in Proc |-> 0]
    /\ panicked = image.fails
    /\ may = [i \in Inum |-> [k \in 0 .. MAXSIZE - 1 |->
                 IF k < image.din[i].size /\ AddrOf(image.din[i], image.sect, k \div BSIZE) # 0
                 THEN {image.sect[AddrOf(image.din[i], image.sect, k \div BSIZE)][k % BSIZE]}
                 ELSE {}]]

-----------------------------------------------------------------------------
(* Transactions, as module Log provides them: writei() and itrunc() run    *)
(* between begin_op() and end_op(), readi() need not.                      *)

InTransaction(p) == job[p].op \in {"write", "trunc"}

\* log_write() of the buffers bs, after the caller's own assertion.
log_write(bs, assertion) ==
    /\ logged' = logged \cup bs
    /\ panicked' = (panicked \/ ~assertion \/ \A p \in Proc : ~InTransaction(p))

\* iunlock() and end_op(): the last call of the transaction commits it.
Return(p) ==
    /\ lock' = [lock EXCEPT ![job[p].i] = 0]
    /\ job' = [job EXCEPT ![p] = Idle]
    /\ IF InTransaction(p) /\ \A q \in Proc \ {p} : ~InTransaction(q)
       THEN disk' = [b \in Sector |-> IF b \in logged THEN buf[b] ELSE disk[b]] /\ logged' = {}
       ELSE UNCHANGED <<disk, logged>>

\* bget() reuses a buffer that no transaction pins, and bread() reads it again later.
bget_recycle(b) ==
    /\ b \notin logged /\ buf[b] # disk[b]
    /\ buf' = [buf EXCEPT ![b] = disk[b]]
    /\ UNCHANGED <<bitmap, disk, logged, inode, dino, lock, job, calls, panicked, may>>

-----------------------------------------------------------------------------

start(p, op, i, arg) ==
    /\ job[p].pc = "idle" /\ calls[p] < MaxCalls
    /\ job' = [job EXCEPT ![p] = [Idle EXCEPT !.pc = "ilock", !.op = op, !.i = i,
                                              !.off = arg[1], !.n = arg[2]]]
    /\ calls' = [calls EXCEPT ![p] = @ + 1]
    /\ UNCHANGED <<bitmap, buf, disk, logged, inode, dino, lock, panicked, may>>

\* Seeded fault: the lock is taken from its holder.
ilock_not_waiting(p) ==
    /\ job[p].pc = "ilock"
    /\ lock' = [lock EXCEPT ![job[p].i] = p]
    /\ job' = [job EXCEPT ![p].pc = job[p].op]
    /\ UNCHANGED <<bitmap, buf, disk, logged, inode, dino, calls, panicked, may>>

ilock(p) ==
    /\ job[p].pc = "ilock" /\ lock[job[p].i] = 0
    /\ lock' = [lock EXCEPT ![job[p].i] = p]
    /\ job' = [job EXCEPT ![p].pc = job[p].op]
    /\ UNCHANGED <<bitmap, buf, disk, logged, inode, dino, calls, panicked, may>>

\* readi()'s checks, in the code's unsigned arithmetic; n is cut to the size.
readi(p) ==
    LET j == job[p]
        sz == inode[j.i].size
        end == (j.off + j.n) % UINT
    IN  /\ j.pc = "read"
        /\ IF j.off > sz \/ end < j.off
           THEN job' = [job EXCEPT ![p].pc = "done", ![p].n = 0]
           ELSE job' = [job EXCEPT ![p].pc = "loop", ![p].n = IF end > sz THEN sz - j.off ELSE @]
        /\ UNCHANGED <<bitmap, buf, disk, logged, inode, dino, lock, calls, panicked, may>>

\* writei()'s checks: -1, nothing changed, or the loop.
writei(p) ==
    LET j == job[p]
        end == (j.off + j.n) % UINT
    IN  /\ j.pc = "write"
        /\ IF j.off > inode[j.i].size \/ end < j.off \/ end > MAXSIZE
           THEN Return(p)
           ELSE job' = [job EXCEPT ![p].pc = "loop"] /\ UNCHANGED <<disk, logged, lock>>
        /\ UNCHANGED <<bitmap, buf, inode, dino, calls, panicked, may>>

InLoop(p) == job[p].pc = "loop" /\ job[p].tot < job[p].n

\* bmap(): the block of the current offset has no address yet ...
Missing(p) == AddrOf(inode[job[p].i], buf, job[p].off \div BSIZE) = 0

\* ... and the slot that comes first on the way to it is empty: one of addrs, or
\* (NDIRECT + 1) the entry of the indirect block.
MissingSlot(p) ==
    LET bn == job[p].off \div BSIZE
    IN  IF bn < NDIRECT THEN bn
        ELSE IF inode[job[p].i].addrs[NDIRECT] = 0 THEN NDIRECT
        ELSE NDIRECT + 1

\* bmap() calls balloc(), which marks the first free block, under the lock of the
\* bitmap's buffer.
balloc_mark(p) ==
    LET free == Sector \ bitmap
        b == CHOOSE x \in free : \A y \in free : x <= y
    IN  /\ InLoop(p) /\ Missing(p) /\ free # {}
        /\ bitmap' = bitmap \cup {b}
        /\ job' = [job EXCEPT ![p].pc = "bzero", ![p].b = b]
        /\ log_write({}, job[p].off \div BSIZE < MAXFILE)
        /\ UNCHANGED <<buf, disk, inode, dino, lock, calls, may>>

\* "balloc: out of blocks": bmap() returns 0 and the loop ends.
balloc_fails(p) ==
    /\ InLoop(p) /\ Missing(p) /\ Sector \subseteq bitmap
    /\ job' = [job EXCEPT ![p].pc = "done"]
    /\ UNCHANGED <<bitmap, buf, disk, logged, inode, dino, lock, calls, panicked, may>>

\* bzero() of the new block, and bmap() storing its address.
bzero(p) ==
    LET j == job[p]
        slot == MissingSlot(p)
        ind == inode[j.i].addrs[NDIRECT]
        bn == j.off \div BSIZE
    IN  /\ j.pc = "bzero"
        /\ IF slot <= NDIRECT
           THEN /\ inode' = [inode EXCEPT ![j.i].addrs[slot] = j.b]
                /\ buf' = [buf EXCEPT ![j.b] = zeroes]
                /\ log_write({j.b}, TRUE)
           ELSE /\ buf' = [buf EXCEPT ![j.b] = zeroes, ![ind][bn - NDIRECT] = j.b]
                /\ log_write({j.b, ind}, TRUE)
                /\ UNCHANGED inode
        /\ job' = [job EXCEPT ![p].pc = "loop", ![p].b = 0]
        /\ UNCHANGED <<bitmap, disk, dino, lock, calls, may>>

\* How much of the request lies in the block of the current offset.
Chunk(j) ==
    LET rest == j.n - j.tot
        room == BSIZE - (j.off % BSIZE)
    IN  IF rest < room THEN rest ELSE room

InBlock(p) == InLoop(p) /\ ~Missing(p)

\* One round of readi()'s loop.
readi_copy(p) ==
    LET j == job[p]
        m == Chunk(j)
        a == AddrOf(inode[j.i], buf, j.off \div BSIZE)
    IN  /\ InBlock(p) /\ j.op = "read"
        /\ job' = [job EXCEPT ![p].off = @ + m, ![p].tot = @ + m,
                              ![p].got = @ \o [k \in 1 .. m |-> buf[a][(j.off % BSIZE) + k - 1]]]
        /\ UNCHANGED <<bitmap, buf, disk, logged, inode, dino, lock, calls, panicked, may>>

\* either_copyout() fails: readi() returns -1, however much it copied before.
readi_bad_address(p) ==
    /\ InBlock(p) /\ job[p].op = "read"
    /\ job' = [job EXCEPT ![p].pc = "done", ![p].n = 0, ![p].got = <<>>]
    /\ UNCHANGED <<bitmap, buf, disk, logged, inode, dino, lock, calls, panicked, may>>

\* either_copyin() of k cells into the buffer of the current block.
CopyIn(p, k) ==
    LET j == job[p]
        a == AddrOf(inode[j.i], buf, j.off \div BSIZE)
        o == j.off % BSIZE
    IN  buf' = [buf EXCEPT ![a] = [x \in DOMAIN @ |-> IF x \in o .. o + k - 1 THEN p ELSE @[x]]]

\* One round of writei()'s loop.
writei_copy(p) ==
    LET j == job[p]
        m == Chunk(j)
    IN  /\ InBlock(p) /\ j.op = "write"
        /\ CopyIn(p, m)
        /\ log_write({AddrOf(inode[j.i], buf, j.off \div BSIZE)}, TRUE)
        /\ job' = [job EXCEPT ![p].off = @ + m, ![p].tot = @ + m]
        /\ may' = [may EXCEPT ![j.i] = [k \in DOMAIN @ |->
                       IF k \in j.off .. j.off + m - 1 THEN {p} ELSE @[k]]]
        /\ UNCHANGED <<bitmap, disk, inode, dino, lock, calls>>

\* either_copyin() fails, perhaps after some cells: they stay in the buffer, which
\* is not logged, and the loop ends.
writei_bad_address(p) ==
    LET j == job[p]
    IN  /\ InBlock(p) /\ j.op = "write"
        /\ \E k \in 0 .. Chunk(j) - 1 :
              /\ CopyIn(p, k)
              /\ may' = [may EXCEPT ![j.i] = [x \in DOMAIN @ |->
                             IF x \in j.off .. j.off + k - 1 /\ x < inode[j.i].size
                             THEN @[x] \cup {p} ELSE @[x]]]
        /\ job' = [job EXCEPT ![p].pc = "done"]
        /\ UNCHANGED <<bitmap, disk, logged, inode, dino, lock, calls, panicked>>

readi_return(p) ==
    /\ job[p].op = "read"
    /\ job[p].pc = "done" \/ (job[p].pc = "loop" /\ ~InLoop(p))
    /\ Return(p)
    /\ UNCHANGED <<bitmap, buf, inode, dino, calls, panicked, may>>

\* The end of writei(): the size, and iupdate() whatever happened.
writei_return(p) ==
    LET j == job[p]
        ip == [inode[j.i] EXCEPT !.size = IF j.off > @ THEN j.off ELSE @]
    IN  /\ j.op = "write"
        /\ j.pc = "done" \/ (j.pc = "loop" /\ ~InLoop(p))
        /\ inode' = [inode EXCEPT ![j.i] = ip]
        /\ dino' = [dino EXCEPT ![j.i] = ip]
        /\ Return(p)
        /\ UNCHANGED <<bitmap, buf, calls, panicked, may>>

-----------------------------------------------------------------------------
(* itrunc(), one bfree() a step.                                           *)

bfree(b) ==
    /\ bitmap' = bitmap \ {b}
    /\ panicked' = (panicked \/ b \notin bitmap)

DirectLeft(ip) == {k \in 0 .. NDIRECT - 1 : ip.addrs[k] # 0}

itrunc_direct(p) ==
    LET j == job[p]
    IN  /\ j.pc = "trunc"
        /\ \E k \in DirectLeft(inode[j.i]) :
              /\ \A l \in DirectLeft(inode[j.i]) : k <= l
              /\ bfree(inode[j.i].addrs[k])
              /\ inode' = [inode EXCEPT ![j.i].addrs[k] = 0]
        /\ UNCHANGED <<buf, disk, logged, dino, lock, job, calls, may>>

\* Seeded fault: the last entry of the indirect block is kept.
EntriesLeft_off_by_one(j) ==
    LET ind == inode[j.i].addrs[NDIRECT]
    IN  IF ind = 0 THEN {} ELSE {k \in j.tot .. NINDIRECT - 2 : buf[ind][k] # 0}

\* The entries of the indirect block from the tot'th on that hold an address.
EntriesLeft(j) ==
    LET ind == inode[j.i].addrs[NDIRECT]
    IN  IF ind = 0 THEN {} ELSE {k \in j.tot .. NINDIRECT - 1 : buf[ind][k] # 0}

itrunc_indirect(p) ==
    LET j == job[p]
    IN  /\ j.pc = "trunc" /\ DirectLeft(inode[j.i]) = {}
        /\ \E k \in EntriesLeft(j) :
              /\ \A l \in EntriesLeft(j) : k <= l
              /\ bfree(buf[inode[j.i].addrs[NDIRECT]][k])
              /\ job' = [job EXCEPT ![p].tot = k + 1]
        /\ UNCHANGED <<buf, disk, logged, inode, dino, lock, calls, may>>

itrunc_table(p) ==
    LET j == job[p]
    IN  /\ j.pc = "trunc" /\ DirectLeft(inode[j.i]) = {} /\ EntriesLeft(j) = {}
        /\ inode[j.i].addrs[NDIRECT] # 0
        /\ bfree(inode[j.i].addrs[NDIRECT])
        /\ inode' = [inode EXCEPT ![j.i].addrs[NDIRECT] = 0]
        /\ UNCHANGED <<buf, disk, logged, dino, lock, job, calls, may>>

itrunc_return(p) ==
    LET j == job[p]
        ip == [inode[j.i] EXCEPT !.size = 0]
    IN  /\ j.pc = "trunc" /\ \A k \in 0 .. NDIRECT : inode[j.i].addrs[k] = 0
        /\ inode' = [inode EXCEPT ![j.i] = ip]
        /\ dino' = [dino EXCEPT ![j.i] = ip]
        /\ may' = [may EXCEPT ![j.i] = [k \in DOMAIN @ |-> {}]]
        /\ Return(p)
        /\ UNCHANGED <<bitmap, buf, calls, panicked>>

Step(p) ==
    \/ \E i \in FileIno, a \in WriteArgs : start(p, "write", i, a)
    \/ \E i \in FileIno \cup {ROOTINO}, a \in ReadArgs : start(p, "read", i, a)
    \/ \E i \in FileIno : start(p, "trunc", i, <<0, 0>>)
    \/ ilock(p) \/ readi(p) \/ writei(p)
    \/ balloc_mark(p) \/ balloc_fails(p) \/ bzero(p)
    \/ readi_copy(p) \/ readi_bad_address(p) \/ readi_return(p)
    \/ writei_copy(p) \/ writei_bad_address(p) \/ writei_return(p)
    \/ itrunc_direct(p) \/ itrunc_indirect(p) \/ itrunc_table(p) \/ itrunc_return(p)

Next ==
    \/ ~panicked /\ \E p \in Proc : Step(p)
    \/ ~panicked /\ \E b \in Sector : bget_recycle(b)

Spec == Init /\ [][Next]_vars

-----------------------------------------------------------------------------

\* The blocks an inode holds, by the slot that holds them.  While itrunc() is at the
\* indirect block, the entries before the tot'th are freed already.
Truncating(i, k) == \E p \in Proc : job[p].pc = "trunc" /\ job[p].i = i /\ k < job[p].tot

Held(i) ==
    LET ip == inode[i]
        ind == ip.addrs[NDIRECT]
    IN  {<<i, "addrs", k, ip.addrs[k]>> : k \in {x \in 0 .. NDIRECT : ip.addrs[x] # 0}}
        \cup IF ind = 0 THEN {}
             ELSE {<<i, "a", k, buf[ind][k]>> :
                      k \in {x \in 0 .. NINDIRECT - 1 : buf[ind][x] # 0 /\ ~Truncating(i, x)}}

\* The bitmap marks the blocks mkfs reserved, the blocks that inodes hold and those
\* on their way from balloc() to bmap(), no block has two holders, and nothing else
\* is marked: no block is lost, shared or handed out while in use.  The same holds of
\* what is on the disk, for an inode that nobody has locked is there as in memory: every
\* path out of writei() and itrunc() goes through iupdate().
BlocksAccounted ==
    LET held == UNION {Held(i) : i \in Inum}
        blocks == {h[4] : h \in held}
        moving == {p \in Proc : job[p].pc = "bzero"}
        taken == {job[p].b : p \in moving}
    IN  /\ bitmap = (0 .. nmeta - 1) \cup blocks \cup taken
        /\ Cardinality(held) = Cardinality(blocks) /\ Cardinality(moving) = Cardinality(taken)
        /\ blocks \cap taken = {} /\ (blocks \cup taken) \cap (0 .. nmeta - 1) = {}
        /\ \A i \in Inum : lock[i] = 0 => dino[i] = inode[i]

\* A cell of a file holds what writei() last put there, or one of the cells that a
\* later writei() copied before its source address turned out bad: never what is in
\* another file, in a freed block or in a block not yet zeroed.  And what readi() returns
\* is the part of the request that the file has, as it is at one moment, however many
\* blocks it spans and whoever writes meanwhile.
ContentAsWritten ==
    /\ \A i \in Inum : \A k \in 0 .. inode[i].size - 1 :
          (\A p \in Proc : ~(lock[i] = p /\ job[p].op = "trunc")) => Cell(i, k) \in may[i][k]
    /\ \A p \in Proc : LET j == job[p] IN
          j.op = "read" /\ j.pc \in {"loop", "done"} =>
             /\ Len(j.got) = j.tot \/ j.n = 0
             /\ \A k \in 1 .. Len(j.got) : j.got[k] \in may[j.i][j.off - j.tot + k - 1]

\* Neither mkfs's assertions fail nor the panics of bfree(), bmap() and log_write().
NoPanic == ~panicked
=============================================================================
