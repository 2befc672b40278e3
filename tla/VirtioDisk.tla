----------------------------- MODULE VirtioDisk -----------------------------
(***************************************************************************)
(* The disk driver (kernel/virtio_disk.c) and the device it talks to:      *)
(* chains of three descriptors, the avail ring from driver to device, the  *)
(* used ring back, and the interrupt that announces finished requests.     *)
(*                                                                         *)
(* What virtio_disk_rw() does between acquire(&vdisk_lock) and sleep() is  *)
(* one step, and so is what it does after the last sleep().  The device    *)
(* works at any time, also while virtio_disk_intr() holds the lock, whose  *)
(* loop therefore takes one step per entry.  The device may finish         *)
(* requests in any order and reads a request's descriptors and buffer      *)
(* when it finishes it.  A ring and its two indices are the sequence of    *)
(* the entries between the indices: NUM descriptors make at most NUM \div 3 *)
(* requests, so a ring of NUM entries never overflows.  The device never   *)
(* fails: the test of info[].status in virtio_disk_intr(), and the panic   *)
(* it leads to, are left out.                                              *)
(***************************************************************************)
EXTENDS Naturals, FiniteSets, Sequences

CONSTANTS
    Proc, Block, Data, Buf,
    Free,     \* nobody, nothing, no block
    NUM       \* descriptors

ASSUME VirtioAssumption ==
    /\ NUM \in Nat /\ NUM >= 3
    /\ Free \notin Nat /\ Free \notin Buf
    /\ IsFiniteSet(Proc)

VARIABLES
    free,              \* free[]: the descriptors that are free
    next,              \* desc[].next, Free without VRING_DESC_F_NEXT
    addr,              \* desc[].addr of a data descriptor: the buffer
    ops,               \* ops[]: direction and block
    info,              \* info[].b
    avail,             \* avail ring: from where the device has read it to avail->idx
    used,              \* used ring: from used_idx to used->idx
    busy,              \* b->disk
    intr,              \* virtio_disk_intr() holds vdisk_lock
    isr,               \* the device's interrupt is pending
    inflight,          \* device: the requests it works on
    disk,              \* device: the blocks
    data,              \* b->data
    pc, cur,           \* each process, and the buffer it uses
    head               \* idx[0] of its request

driver == <<free, next, addr, ops, info, head>>
ioVars == <<free, next, addr, ops, info, head, avail, used, busy, intr, isr, inflight,
            disk, data>>

Desc == 0 .. NUM - 1
Op == [write : {0, 1}, block : Block]

\* virtio_disk_init().
VirtioInit ==
    /\ free = Desc
    /\ next = [d \in Desc |-> Free]
    /\ addr = [d \in Desc |-> Free]
    /\ ops = [d \in Desc |-> Free]
    /\ info = [d \in Desc |-> Free]
    /\ avail = <<>> /\ used = <<>>
    /\ busy = [x \in Buf |-> 0]
    /\ intr = 0 /\ isr = 0 /\ inflight = {}
    /\ disk \in [Block -> Data]
    /\ \E v \in Data : data = [x \in Buf |-> v]
    /\ head = [p \in Proc |-> Free]

\* Where a sleeping process goes on when it is made runnable.
Woken(l) ==
    CASE l = "read_free" -> "read"
      [] l = "write_free" -> "write"
      [] l = "io" -> "io_woken"
      [] l = "asleep" -> "lock"
      [] OTHER -> l

\* wakeup(): the processes in S sleep on its channel; p itself goes to l.
WakeAndGoto(S, p, l) ==
    pc' = [r \in Proc |-> IF r = p THEN l ELSE IF r \in S THEN Woken(pc[r]) ELSE pc[r]]

\* The processes that sleep on &disk.free[0], and on b.
FreeSleepers == {r \in Proc : pc[r] \in {"read_free", "write_free"}}
BufSleepers(b) == {r \in Proc : pc[r] = "io" /\ cur[r] = b}

\* kill() makes a sleeping process runnable, whatever it waits for.
kill(p) ==
    /\ pc[p] # Woken(pc[p])
    /\ pc' = [pc EXCEPT ![p] = Woken(pc[p])]
    /\ UNCHANGED <<ioVars, cur>>

-----------------------------------------------------------------------------
(* virtio_disk_rw(), at "read" or "write".                                 *)

Starting == {"read", "write"}

\* alloc3_desc() fails.  If it had got some, free_desc() wakes the others that
\* wait for descriptors.
alloc3_fails(p) ==
    /\ pc[p] \in Starting /\ intr = 0
    /\ Cardinality(free) < 3
    /\ WakeAndGoto(IF free = {} THEN {} ELSE FreeSleepers, p,
                   IF pc[p] = "read" THEN "read_free" ELSE "write_free")
    /\ UNCHANGED <<ioVars, cur>>

\* Three descriptors, the lowest that are free; the request is handed to the
\* device, and the caller sleeps on b.
submit(p, block) ==
    /\ pc[p] \in Starting /\ intr = 0
    /\ \E i0, i1, i2 \in free :
           /\ i0 < i1 /\ i1 < i2 /\ \A d \in free : d \in {i0, i1} \/ d >= i2
           /\ free' = free \ {i0, i1, i2}
           /\ next' = [next EXCEPT ![i0] = i1, ![i1] = i2, ![i2] = Free]
           /\ addr' = [addr EXCEPT ![i1] = cur[p]]
           /\ ops' = [ops EXCEPT ![i0] =
                        [write |-> IF pc[p] = "write" THEN 1 ELSE 0, block |-> block]]
           /\ info' = [info EXCEPT ![i0] = cur[p]]
           /\ avail' = Append(avail, i0)
           /\ head' = [head EXCEPT ![p] = i0]
    /\ busy' = [busy EXCEPT ![cur[p]] = 1]
    /\ pc' = [pc EXCEPT ![p] = "io"]
    /\ UNCHANGED <<used, intr, isr, inflight, disk, data, cur>>

\* Seeded fault: only the first descriptor of the chain is freed.
Chain_first(d) == {d}

\* free_chain(): the descriptors it frees.
Chain(d) ==
    LET e == next[d] IN
    IF e = Free THEN {d} ELSE IF next[e] = Free THEN {d, e} ELSE {d, e, next[e]}

\* Woken up before the request is done, and asleep again.
wait_again(p) ==
    /\ pc[p] = "io_woken" /\ intr = 0
    /\ busy[cur[p]] = 1
    /\ pc' = [pc EXCEPT ![p] = "io"]
    /\ UNCHANGED <<ioVars, cur>>

\* Seeded fault: free_desc() does not wake those who wait for descriptors.
Return_silent(p) ==
    /\ info' = [info EXCEPT ![head[p]] = Free]
    /\ ops' = [ops EXCEPT ![head[p]] = Free]
    /\ free' = free \cup Chain(head[p])
    /\ next' = [d \in Desc |-> IF d \in Chain(head[p]) THEN Free ELSE next[d]]
    /\ addr' = [d \in Desc |-> IF d \in Chain(head[p]) THEN Free ELSE addr[d]]
    /\ head' = [head EXCEPT ![p] = Free]
    /\ pc' = [pc EXCEPT ![p] = "held"]
    /\ UNCHANGED <<avail, used, busy, intr, isr, inflight, disk, data, cur>>

\* free_chain(), and virtio_disk_rw() returns.  The code leaves ops[] as it is;
\* nothing reads it before the next request writes it.
Return(p) ==
    /\ info' = [info EXCEPT ![head[p]] = Free]
    /\ ops' = [ops EXCEPT ![head[p]] = Free]
    /\ free' = free \cup Chain(head[p])
    /\ next' = [d \in Desc |-> IF d \in Chain(head[p]) THEN Free ELSE next[d]]
    /\ addr' = [d \in Desc |-> IF d \in Chain(head[p]) THEN Free ELSE addr[d]]
    /\ head' = [head EXCEPT ![p] = Free]
    /\ WakeAndGoto(FreeSleepers, p, "held")
    /\ UNCHANGED <<avail, used, busy, intr, isr, inflight, disk, data, cur>>

\* Seeded fault: whoever is woken up takes the request for done.
finish_no_loop(p) == pc[p] = "io_woken" /\ intr = 0 /\ Return(p)

finish(p) == pc[p] = "io_woken" /\ intr = 0 /\ busy[cur[p]] = 0 /\ Return(p)

-----------------------------------------------------------------------------
(* virtio_disk_intr().                                                     *)

intr_begin ==
    /\ isr = 1 /\ isr' = 0
    /\ intr = 0 /\ intr' = 1
    /\ UNCHANGED <<driver, avail, used, busy, inflight, disk, data, pc, cur>>

intr_next ==
    /\ intr = 1 /\ used # <<>>
    /\ LET b == info[Head(used)] IN
        /\ busy' = [busy EXCEPT ![b] = 0]
        /\ pc' = [r \in Proc |-> IF r \in BufSleepers(b) THEN Woken(pc[r]) ELSE pc[r]]
    /\ used' = Tail(used)
    /\ UNCHANGED <<driver, avail, intr, isr, inflight, disk, data, cur>>

intr_end ==
    /\ intr = 1 /\ used = <<>>
    /\ intr' = 0
    /\ UNCHANGED <<driver, avail, used, isr, busy, inflight, disk, data, pc, cur>>

-----------------------------------------------------------------------------
(* The device.                                                             *)

dev_take ==
    /\ avail # <<>>
    /\ inflight' = inflight \cup {Head(avail)}
    /\ avail' = Tail(avail)
    /\ UNCHANGED <<driver, used, busy, intr, isr, disk, data, pc, cur>>

dev_finish(d) ==
    /\ d \in inflight /\ inflight' = inflight \ {d}
    /\ LET x == addr[next[d]]
           b == ops[d].block
       IN  IF ops[d].write = 1
           THEN disk' = [disk EXCEPT ![b] = data[x]] /\ UNCHANGED data
           ELSE data' = [data EXCEPT ![x] = disk[b]] /\ UNCHANGED disk
    /\ used' = Append(used, d)
    /\ isr' = 1
    /\ UNCHANGED <<driver, avail, busy, intr, pc, cur>>

Device == dev_take \/ \E d \in Desc : dev_finish(d)
Interrupt == intr_begin \/ intr_next \/ intr_end

-----------------------------------------------------------------------------
\* Requests that the driver has submitted and not yet taken back.
Pending == {p \in Proc : pc[p] \in {"io", "io_woken"}}

\* Every descriptor is free or belongs to exactly one request, so that the
\* device never follows a chain that was freed or reused (virtio_disk.c:156).
DescriptorsAccounted ==
    /\ \A p \in Pending : Cardinality(Chain(head[p])) = 3 /\ Chain(head[p]) \cap free = {}
    /\ \A p, q \in Pending : p # q => Chain(head[p]) \cap Chain(head[q]) = {}
    /\ Cardinality(free) + 3 * Cardinality(Pending) = NUM

\* What is on a ring, or on a list.
Entries(ring) == {ring[k] : k \in 1 .. Len(ring)}

\* The device has not finished p's request, or it has and the handler, which
\* clears b->disk, is running or will run.
RequestUnderWay(p) ==
    \/ head[p] \in Entries(avail)
    \/ head[p] \in inflight
    \/ head[p] \in Entries(used) /\ (isr = 1 \/ intr = 1)
=============================================================================
