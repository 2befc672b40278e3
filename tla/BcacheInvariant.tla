-------------------------- MODULE BcacheInvariant ---------------------------
(***************************************************************************)
(* The inductive invariant IInv of the buffer cache and the disk driver,   *)
(* for every number of processes, buffers, blocks and descriptors, and the *)
(* proof that the steps of the driver, of the device, of the interrupt     *)
(* handler and of the cache preserve it.  What is counted (references and  *)
(* descriptors) and the results are in BcacheProof.                        *)
(***************************************************************************)
EXTENDS Bcache, TLAPS

-----------------------------------------------------------------------------
(* The inductive invariant.                                                *)

\* Where a process holds its buffer's sleep-lock.
Holding == {"fill", "held", "read", "write", "read_free", "write_free", "io", "io_woken"}
Location == Holding \cup {"idle", "lock", "asleep", "release"}

DriverTypes ==
    /\ free \in SUBSET Desc /\ next \in [Desc -> Desc \cup {Free}]
    /\ addr \in [Desc -> Buf \cup {Free}] /\ info \in [Desc -> Buf \cup {Free}]
    /\ ops \in [Desc -> Op \cup {Free}] /\ head \in [Proc -> Desc \cup {Free}]
RingTypes ==
    /\ avail \in Seq(Desc) /\ used \in Seq(Desc) /\ inflight \in SUBSET Desc
    /\ busy \in [Buf -> {0, 1}]
BlockTypes == disk \in [Block -> Data] /\ data \in [Buf -> Data]
CacheTypes ==
    /\ blockno \in [Buf -> Block \cup {Free}] /\ valid \in [Buf -> {0, 1}]
    /\ locked \in [Buf -> Proc \cup {Free}]
ProcTypes == pc \in [Proc -> Location] /\ cur \in [Proc -> Buf \cup {Free}]

\* A process outside has no buffer; any other has one, which caches a block.
Users ==
    \A p \in Proc : /\ pc[p] = "idle" => cur[p] = Free
                    /\ pc[p] # "idle" => cur[p] \in Buf /\ blockno[cur[p]] \in Block

\* The sleep-lock of a buffer is held by the one process that is past
\* acquiresleep() with it, and nobody sleeps on a free one.
Locks ==
    /\ \A p \in Proc : pc[p] \in Holding => locked[cur[p]] = p
    /\ \A x \in Buf : locked[x] # Free => cur[locked[x]] = x /\ pc[locked[x]] \in Holding
    /\ \A p \in Proc : pc[p] = "asleep" => locked[cur[p]] # Free

\* A block is in one buffer at most, and a pinned one is in one.
OneBuffer ==
    /\ \A x, y \in Buf : blockno[x] = blockno[y] /\ blockno[x] # Free => x = y
    /\ \A b \in pins : \E x \in Buf : blockno[x] = b

\* Who has read its buffer or writes it has a valid one, who reads it has not.
Valid ==
    \A p \in Proc : /\ pc[p] \in {"held", "write", "write_free"} => valid[cur[p]] = 1
                    /\ pc[p] \in {"read", "read_free"} => valid[cur[p]] = 0

\* What the disk does not have yet is in a buffer that is locked or pinned.
Backed ==
    \A x \in Buf : valid[x] = 1 /\ locked[x] = Free /\ blockno[x] \notin pins => Clean(x)

\* The descriptors of p's request.
Parts(p) == {head[p], next[head[p]], next[next[head[p]]]}

\* p's request is a chain of three descriptors that describes p's buffer: a
\* write if the buffer is valid, a read if not.
Request(p) ==
    /\ Parts(p) \subseteq Desc /\ Parts(p) \cap free = {}
    /\ head[p] # next[head[p]] /\ next[head[p]] # next[next[head[p]]]
    /\ head[p] # next[next[head[p]]]
    /\ info[head[p]] = cur[p] /\ addr[next[head[p]]] = cur[p]
    /\ ops[head[p]] \in Op /\ ops[head[p]].block = blockno[cur[p]]
    /\ ops[head[p]].write = 1 <=> valid[cur[p]] = 1

\* No descriptor is in two requests.
Requests ==
    /\ \A p \in Pending : Request(p)
    /\ \A p, q \in Pending : p # q => Parts(p) \cap Parts(q) = {}

\* No request is twice in the rings and the device.
Distinct(s) == \A j, k \in 1 .. Len(s) : s[j] = s[k] => j = k

Rings ==
    /\ Distinct(avail) /\ Distinct(used)
    /\ inflight \cap Entries(avail) = {} /\ inflight \cap Entries(used) = {}
    /\ Entries(avail) \cap Entries(used) = {}

\* They hold exactly the requests whose b->disk is set.
Handed == inflight \cup Entries(avail) \cup Entries(used)

Busy ==
    /\ \A d \in Handed : \E p \in Pending : head[p] = d /\ busy[cur[p]] = 1
    /\ \A p \in Pending : busy[cur[p]] = 1 => head[p] \in Handed
    /\ \A p \in Proc : pc[p] = "io" => busy[cur[p]] = 1

\* Once the device is done with a request, buffer and disk agree.
Done == \A p \in Pending : busy[cur[p]] = 0 \/ head[p] \in Entries(used) => Clean(cur[p])

\* A finished request has an interrupt to come, or the handler is at work.
Announced == used # <<>> => isr = 1 \/ intr = 1

IInv ==
    /\ DriverTypes /\ RingTypes /\ BlockTypes /\ CacheTypes /\ ProcTypes
    /\ Users /\ Locks /\ OneBuffer /\ Valid /\ Backed
    /\ Requests /\ Rings /\ Busy /\ Done /\ Announced

-----------------------------------------------------------------------------
(* Facts about the operators.                                              *)

\* Free is none of the things it stands for the absence of.
LEMMA FreeFacts == Free \notin Proc /\ Free \notin Block /\ Free \notin Buf /\ Free \notin Desc
BY VirtioAssumption, BcacheAssumption DEF Desc

\* An entry is put at the end of a ring.
LEMMA RingAppend ==
  ASSUME NEW S, NEW s \in Seq(S), NEW d \in S, Distinct(s), d \notin Entries(s)
  PROVE  /\ Append(s, d) \in Seq(S) /\ Distinct(Append(s, d))
         /\ Entries(Append(s, d)) = Entries(s) \cup {d} /\ Append(s, d) # <<>>
<1>1. \A i \in 1 .. Len(s) + 1 : Append(s, d)[i] = IF i = Len(s) + 1 THEN d ELSE s[i]
  OBVIOUS
<1>2. /\ Append(s, d) \in Seq(S) /\ Len(Append(s, d)) = Len(s) + 1 /\ Len(s) \in Nat
  OBVIOUS
<1>3. Distinct(Append(s, d))
  BY <1>1, <1>2 DEF Distinct, Entries
<1>4. Entries(Append(s, d)) = Entries(s) \cup {d}
  BY <1>1, <1>2 DEF Entries
<1> QED
  BY <1>2, <1>3, <1>4

\* The first entry is taken off a ring.
LEMMA RingTail ==
  ASSUME NEW S, NEW s \in Seq(S), Distinct(s), s # <<>>
  PROVE  /\ Tail(s) \in Seq(S) /\ Distinct(Tail(s)) /\ Head(s) \in S
         /\ Head(s) \in Entries(s) /\ Entries(Tail(s)) = Entries(s) \ {Head(s)}
<1>1. /\ Tail(s) \in Seq(S) /\ Len(Tail(s)) = Len(s) - 1 /\ Len(s) \in Nat \ {0} /\ s[1] \in S
      /\ Head(s) = s[1] /\ \A i \in 1 .. Len(s) - 1 : Tail(s)[i] = s[i + 1]
  OBVIOUS
<1>2. Distinct(Tail(s))
  BY <1>1 DEF Distinct
<1>3. Entries(Tail(s)) \subseteq Entries(s) \ {Head(s)}
  BY <1>1 DEF Distinct, Entries
<1>4. ASSUME NEW i \in 1 .. Len(s), s[i] # s[1]
      PROVE  s[i] \in Entries(Tail(s))
  <2>1. i - 1 \in 1 .. Len(s) - 1 /\ Tail(s)[i - 1] = s[i]
    BY <1>1, <1>4
  <2> QED
    BY <1>1, <2>1, Zenon DEF Entries
<1>5. Head(s) \in Entries(s) /\ Entries(s) \ {Head(s)} \subseteq Entries(Tail(s))
  BY <1>1, <1>4 DEF Entries
<1> QED
  BY <1>1, <1>2, <1>3, <1>5, Zenon

-----------------------------------------------------------------------------
(* What is kept by a step that leaves it alone.                            *)

USE DEF IInv

rings == <<avail, used, inflight, busy>>
cache == <<blockno, valid, locked, pins>>

\* A step that does not touch a group of variables keeps their types.
LEMMA Kept ==
  ASSUME IInv
  PROVE  /\ UNCHANGED driver => DriverTypes'
         /\ UNCHANGED rings => RingTypes'
         /\ UNCHANGED <<disk, data>> => BlockTypes'
         /\ UNCHANGED cache => CacheTypes'
         /\ UNCHANGED <<blockno, pins>> => OneBuffer'
         /\ UNCHANGED <<used, intr, isr>> => Announced'
<1>1. UNCHANGED driver => DriverTypes'
  BY Zenon DEF driver, DriverTypes
<1>2. UNCHANGED rings => RingTypes'
  BY Zenon DEF rings, RingTypes
<1>3. UNCHANGED <<disk, data>> => BlockTypes'
  BY Zenon DEF BlockTypes
<1>4. UNCHANGED cache => CacheTypes'
  BY Zenon DEF cache, CacheTypes
<1>5. UNCHANGED <<blockno, pins>> => OneBuffer'
  BY Zenon DEF OneBuffer
<1>6. UNCHANGED <<used, intr, isr>> => Announced'
  BY Zenon DEF Announced
<1> QED
  BY <1>1, <1>2, <1>3, <1>4, <1>5, <1>6, Zenon

\* No block, lock, pin or reference changes, and nobody enters or leaves the
\* sections in which they are used.
CacheFrame ==
    /\ UNCHANGED <<blockno, locked, pins, cur>> /\ pc' \in [Proc -> Location]
    /\ \A q \in Proc : /\ pc[q] = "idle" <=> pc'[q] = "idle"
                       /\ pc[q] \in Holding <=> pc'[q] \in Holding
                       /\ pc'[q] = "asleep" => pc[q] = "asleep"

\* Such a step keeps what the invariant says about them.
LEMMA CacheFrameStep ==
  ASSUME IInv, CacheFrame
  PROVE  ProcTypes' /\ Users' /\ Locks' /\ OneBuffer'
<1>1. ProcTypes' /\ Users'
  BY Zenon DEF CacheFrame, Users, ProcTypes
<1>2. Locks'
  BY DEF CacheFrame, Locks, CacheTypes
<1>3. UNCHANGED <<blockno, pins>>
  BY Zenon DEF CacheFrame
<1> QED
  BY <1>1, <1>2, <1>3, Kept, Zenon

\* The descriptors of a request.
LEMMA RequestFacts ==
  ASSUME NEW q, Request(q)
  PROVE  /\ Parts(q) \subseteq Desc /\ Parts(q) \cap free = {}
         /\ head[q] \in Parts(q) /\ head[q] \in Desc
<1>1. head[q] \in Parts(q)
  BY Zenon DEF Parts
<1> QED
  BY <1>1, Zenon DEF Request

\* A request is kept if its process, its buffer and its descriptors are.
LEMMA RequestKept ==
  ASSUME NEW q, Request(q), head'[q] = head[q], cur'[q] = cur[q],
         blockno'[cur[q]] = blockno[cur[q]], valid'[cur[q]] = valid[cur[q]],
         \A d \in Parts(q) : /\ next'[d] = next[d] /\ addr'[d] = addr[d]
                             /\ info'[d] = info[d] /\ ops'[d] = ops[d],
         Parts(q) \cap free' = {}
  PROVE  Request(q)' /\ Parts(q)' = Parts(q)
<1>1. head[q] \in Parts(q) /\ next[head[q]] \in Parts(q)
  BY Zenon DEF Parts
<1>2. Parts(q)' = Parts(q)
  BY <1>1, Zenon DEF Parts
<1> QED
  BY <1>1, <1>2 DEF Request

\* Nothing of the driver and the device changes, and nothing of the processes
\* that have a request and of their buffers.
RequestFrame ==
    /\ UNCHANGED driver /\ UNCHANGED rings /\ UNCHANGED disk /\ Pending' = Pending
    /\ \A q \in Pending : /\ cur'[q] = cur[q] /\ blockno'[cur[q]] = blockno[cur[q]]
                          /\ valid'[cur[q]] = valid[cur[q]] /\ data'[cur[q]] = data[cur[q]]
    /\ \A q \in Proc : pc'[q] = "io" => busy[cur'[q]] = 1

\* Such a step keeps all that the invariant says about requests.
LEMMA RequestFrameStep ==
  ASSUME IInv, RequestFrame
  PROVE  Requests' /\ Rings' /\ Busy' /\ Done'
<1>1. \A q \in Pending : Request(q)' /\ Parts(q)' = Parts(q)
  <2> SUFFICES ASSUME NEW q \in Pending PROVE Request(q)' /\ Parts(q)' = Parts(q)
    BY Zenon
  <2>1. Request(q) /\ Parts(q) \cap free = {}
    BY Zenon DEF Requests, Request
  <2>2. UNCHANGED <<free, next, addr, ops, info, head>>
    BY Zenon DEF RequestFrame, driver
  <2>3. /\ cur'[q] = cur[q] /\ blockno'[cur[q]] = blockno[cur[q]]
        /\ valid'[cur[q]] = valid[cur[q]]
    BY Zenon DEF RequestFrame
  <2> QED
    BY <2>1, <2>2, <2>3, RequestKept, Zenon
<1>2. Requests'
  BY <1>1, Zenon DEF Requests, RequestFrame
<1>3. UNCHANGED <<avail, used, inflight, busy, head>>
  BY Zenon DEF RequestFrame, rings, driver
<1>4. Rings' /\ Handed' = Handed
  BY <1>3, Zenon DEF Rings, Handed
<1>5. Busy'
  BY <1>3, <1>4 DEF Busy, RequestFrame
<1>6. Done'
  BY <1>3 DEF Done, Clean, RequestFrame
<1> QED
  BY <1>2, <1>4, <1>5, <1>6, Zenon

-----------------------------------------------------------------------------
(* A request is set up, and taken back.                                    *)

\* Processes that hold locks hold different buffers, which cache different blocks.
LEMMA Apart ==
  ASSUME IInv, NEW p \in Proc, pc[p] \in Holding
  PROVE  /\ cur[p] \in Buf /\ blockno[cur[p]] \in Block /\ locked[cur[p]] = p
         /\ \A q \in Pending : q # p => cur[q] \in Buf /\ cur[q] # cur[p]
         /\ \A x \in Buf : x # cur[p] => blockno[x] # blockno[cur[p]]
<1>1. cur[p] \in Buf /\ blockno[cur[p]] \in Block /\ locked[cur[p]] = p
  BY Zenon DEF Users, Locks, Holding
<1>2. \A q \in Pending : cur[q] \in Buf /\ locked[cur[q]] = q
  BY Zenon DEF Users, Locks, Holding, Pending
<1>3. \A x \in Buf : x # cur[p] => blockno[x] # blockno[cur[p]]
  BY <1>1, FreeFacts, Zenon DEF OneBuffer
<1> QED
  BY <1>1, <1>2, <1>3, Zenon

\* A request is set up and handed to the device.
LEMMA submitStep ==
  ASSUME IInv, NEW p \in Proc, submit(p, blockno[cur[p]]),
         UNCHANGED <<valid, lru, blockno, refcnt, locked, pins>>
  PROVE  IInv'
<1>1. /\ pc[p] \in {"read", "write"} /\ pc' = [pc EXCEPT ![p] = "io"] /\ cur' = cur
      /\ busy' = [busy EXCEPT ![cur[p]] = 1]
      /\ UNCHANGED cache /\ UNCHANGED <<disk, data>> /\ UNCHANGED <<used, intr, isr>>
      /\ UNCHANGED inflight
  BY Zenon DEF submit, Starting, cache
<1>2. PICK i0 \in free, i1 \in free, i2 \in free :
        /\ i0 < i1 /\ i1 < i2 /\ \A d \in free : d \in {i0, i1} \/ d >= i2
        /\ free' = free \ {i0, i1, i2}
        /\ next' = [next EXCEPT ![i0] = i1, ![i1] = i2, ![i2] = Free]
        /\ addr' = [addr EXCEPT ![i1] = cur[p]]
        /\ ops' = [ops EXCEPT ![i0] =
                     [write |-> IF pc[p] = "write" THEN 1 ELSE 0, block |-> blockno[cur[p]]]]
        /\ info' = [info EXCEPT ![i0] = cur[p]]
        /\ avail' = Append(avail, i0)
        /\ head' = [head EXCEPT ![p] = i0]
  BY Zenon DEF submit
<1>3. i0 \in Desc /\ i1 \in Desc /\ i2 \in Desc /\ i0 # i1 /\ i1 # i2 /\ i0 # i2
  <2>1. i0 \in Desc /\ i1 \in Desc /\ i2 \in Desc /\ i0 < i1 /\ i1 < i2
    BY <1>2, Zenon DEF DriverTypes
  <2> QED
    BY <2>1 DEF Desc
<1>4. /\ cur[p] \in Buf /\ blockno[cur[p]] \in Block
      /\ \A q \in Pending : q # p => cur[q] \in Buf /\ cur[q] # cur[p]
  BY <1>1, Apart, Zenon DEF Holding
<1>5. Pending' = Pending \cup {p} /\ p \notin Pending
  BY <1>1, Zenon DEF Pending, ProcTypes
<1>6. /\ head'[p] = i0 /\ next'[i0] = i1 /\ next'[i1] = i2 /\ free' = free \ {i0, i1, i2}
      /\ info'[i0] = cur[p] /\ addr'[i1] = cur[p]
  BY <1>2, <1>3, Zenon DEF DriverTypes
<1>7. /\ ops'[i0] = [write |-> IF pc[p] = "write" THEN 1 ELSE 0, block |-> blockno[cur[p]]]
      /\ avail' = Append(avail, i0)
  BY <1>2, <1>3, Zenon DEF DriverTypes
<1>8. /\ \A q \in Proc : q # p => head'[q] = head[q]
      /\ \A d \in Desc \ {i0, i1, i2} : /\ next'[d] = next[d] /\ addr'[d] = addr[d]
                                        /\ info'[d] = info[d] /\ ops'[d] = ops[d]
  BY <1>2, <1>3, Zenon DEF DriverTypes
<1>9. DriverTypes'
  <2>1. ops'[i0] \in Op
    BY <1>4, <1>7 DEF Op
  <2>2. ops' \in [Desc -> Op \cup {Free}]
    BY <1>2, <1>7, <2>1, Zenon DEF DriverTypes
  <2> QED
    BY <1>2, <1>3, <1>4, <2>2, Zenon DEF DriverTypes
<1>10. Request(p)' /\ Parts(p)' = {i0, i1, i2}
  <2>1. Parts(p)' = {i0, i1, i2}
    BY <1>6, Zenon DEF Parts
  <2>2. /\ ops'[i0] \in Op /\ ops'[i0].block = blockno[cur[p]]
        /\ ops'[i0].write = 1 <=> valid[cur[p]] = 1
    BY <1>1, <1>4, <1>7 DEF Op, Valid
  <2>3. cur'[p] = cur[p] /\ blockno' = blockno /\ valid' = valid
    BY <1>1, Zenon
  <2> QED
    BY <1>3, <1>6, <2>1, <2>2, <2>3, Zenon DEF Request
<1>11. \A q \in Pending : /\ Request(q)' /\ Parts(q)' = Parts(q) /\ q # p /\ q \in Proc
                          /\ head'[q] = head[q] /\ Parts(q) \cap free = {} /\ head[q] \in Parts(q)
  <2> SUFFICES ASSUME NEW q \in Pending
               PROVE  /\ Request(q)' /\ Parts(q)' = Parts(q) /\ q # p /\ q \in Proc
                      /\ head'[q] = head[q] /\ Parts(q) \cap free = {} /\ head[q] \in Parts(q)
    BY Zenon
  <2>1. q # p /\ q \in Proc
    BY <1>5, Zenon DEF Pending
  <2>2. Request(q) /\ Parts(q) \subseteq Desc /\ Parts(q) \cap free = {} /\ head[q] \in Parts(q)
    BY RequestFacts, Zenon DEF Requests
  <2>3. head'[q] = head[q] /\ Parts(q) \cap free' = {}
    BY <1>6, <1>8, <2>1, <2>2, Zenon
  <2>4. \A d \in Parts(q) : /\ next'[d] = next[d] /\ addr'[d] = addr[d]
                            /\ info'[d] = info[d] /\ ops'[d] = ops[d]
    BY <1>8, <2>2, Zenon
  <2>5. cur'[q] = cur[q] /\ blockno'[cur[q]] = blockno[cur[q]] /\ valid'[cur[q]] = valid[cur[q]]
    BY <1>1, Zenon
  <2> QED
    BY <2>1, <2>2, <2>3, <2>4, <2>5, RequestKept, Zenon
<1>12. Requests'
  <2>1. \A q \in Pending : Parts(q) \cap {i0, i1, i2} = {}
    BY <1>11, Zenon
  <2>2. \A q, r \in Pending' : q # r => Parts(q)' \cap Parts(r)' = {}
    BY <1>5, <1>10, <1>11, <2>1 DEF Requests
  <2> QED
    BY <1>5, <1>10, <1>11, <2>2, Zenon DEF Requests
<1>13. i0 \notin Handed
  BY <1>11, Zenon DEF Busy
<1>14. /\ avail' \in Seq(Desc) /\ Entries(avail)' = Entries(avail) \cup {i0} /\ Distinct(avail)'
  BY <1>3, <1>7, <1>13, RingAppend DEF RingTypes, Rings, Handed
<1>15. Rings' /\ Handed' = Handed \cup {i0}
  <2>1. UNCHANGED <<inflight, used>>
    BY <1>1, Zenon
  <2> QED
    BY <1>13, <1>14, <2>1, Zenon DEF Rings, Handed
<1>16. RingTypes' /\ busy'[cur[p]] = 1 /\ \A q \in Pending : busy'[cur[q]] = busy[cur[q]]
  BY <1>1, <1>4, <1>5, <1>14, Zenon DEF RingTypes
<1>17. Busy'
  <2>1. \A d \in Handed' : \E q \in Pending' : head'[q] = d /\ busy'[cur[q]] = 1
    BY <1>5, <1>6, <1>11, <1>15, <1>16 DEF Busy
  <2>2. \A q \in Pending' : busy'[cur[q]] = 1 => head'[q] \in Handed'
    BY <1>5, <1>6, <1>11, <1>15, <1>16, Zenon DEF Busy
  <2>3. \A q \in Proc : pc'[q] = "io" => q \in Pending' /\ (q # p => busy[cur[q]] = 1)
    BY <1>1, Zenon DEF Busy, Pending, ProcTypes
  <2>4. \A q \in Proc : pc'[q] = "io" => busy'[cur[q]] = 1
    BY <1>5, <1>16, <2>3, Zenon
  <2> QED
    BY <1>1, <2>1, <2>2, <2>4 DEF Busy
<1>18. Done'
  <2>1. \A q \in Pending' : q # p => /\ q \in Pending /\ head'[q] = head[q]
                                     /\ busy'[cur[q]] = busy[cur[q]]
    BY <1>5, <1>11, <1>16, Zenon
  <2>2. busy'[cur[p]] # 0 /\ head'[p] \notin Entries(used)
    BY <1>6, <1>13, <1>16 DEF Handed
  <2>3. cur' = cur /\ UNCHANGED <<disk, data, blockno, used>>
    BY <1>1, Zenon DEF cache
  <2> QED
    BY <2>1, <2>2, <2>3 DEF Done, Clean
<1>19. CacheFrame
  BY <1>1, Zenon DEF CacheFrame, ProcTypes, Location, Holding, cache
<1>20. Valid' /\ Backed'
  <2>1. Valid'
    BY <1>1, Zenon DEF Valid, ProcTypes, cache
  <2>2. Backed'
    BY <1>1, Zenon DEF Backed, Clean, cache
  <2> QED
    BY <2>1, <2>2, Zenon
<1> QED
  BY <1>1, <1>9, <1>12, <1>15, <1>16, <1>17, <1>18, <1>19, <1>20, Kept, CacheFrameStep, Zenon

\* The request is done: its descriptors are free again.
LEMMA finishStep ==
  ASSUME IInv, NEW p \in Proc, finish(p), valid' = [valid EXCEPT ![cur[p]] = 1],
         UNCHANGED <<lru, blockno, refcnt, locked, pins>>
  PROVE  IInv'
<1>1. /\ pc[p] = "io_woken" /\ UNCHANGED rings /\ UNCHANGED <<disk, data>>
      /\ UNCHANGED <<used, intr, isr>> /\ UNCHANGED cur
  BY Zenon DEF finish, Return, rings
<1>2. /\ pc'[p] = "held" /\ pc' = [q \in Proc |-> pc'[q]]
      /\ \A q \in Proc : q # p => \/ pc'[q] = pc[q]
                                  \/ pc[q] = "read_free" /\ pc'[q] = "read"
                                  \/ pc[q] = "write_free" /\ pc'[q] = "write"
  BY Zenon DEF finish, Return, WakeAndGoto, FreeSleepers, Woken
<1>3. p \in Pending /\ Pending' = Pending \ {p} /\ \A q \in Pending : q \in Proc
  BY <1>1, <1>2, Zenon DEF Pending
<1>4. /\ cur[p] \in Buf /\ locked[cur[p]] = p
      /\ \A q \in Pending : q # p => cur[q] # cur[p]
  BY <1>1, Apart, Zenon DEF Holding
<1>5. Request(p) /\ Parts(p) \subseteq Desc /\ head[p] \in Parts(p)
  BY <1>3, RequestFacts, Zenon DEF Requests
<1>6. Chain(head[p]) = Parts(p)
  <2>1. next[head[p]] # Free /\ next[next[head[p]]] # Free
    BY <1>5, FreeFacts, Zenon DEF Parts
  <2> QED
    BY <2>1, Zenon DEF Chain, Parts
<1>7. /\ free' = free \cup Parts(p)
      /\ next' = [d \in Desc |-> IF d \in Parts(p) THEN Free ELSE next[d]]
      /\ addr' = [d \in Desc |-> IF d \in Parts(p) THEN Free ELSE addr[d]]
      /\ info' = [info EXCEPT ![head[p]] = Free] /\ ops' = [ops EXCEPT ![head[p]] = Free]
      /\ head' = [head EXCEPT ![p] = Free]
  BY <1>6, Zenon DEF finish, Return
<1>8. DriverTypes'
  BY <1>5, <1>7, Zenon DEF DriverTypes
<1>9. /\ \A d \in Desc \ Parts(p) : /\ next'[d] = next[d] /\ addr'[d] = addr[d]
                                    /\ info'[d] = info[d] /\ ops'[d] = ops[d]
      /\ \A q \in Proc : q # p => head'[q] = head[q]
  BY <1>5, <1>7, Zenon DEF DriverTypes
<1>10. CacheTypes' /\ valid'[cur[p]] = 1 /\ \A x \in Buf : x # cur[p] => valid'[x] = valid[x]
  BY <1>4, Zenon DEF CacheTypes
<1>11. \A q \in Pending' : /\ Request(q)' /\ Parts(q)' = Parts(q) /\ q \in Pending /\ q # p
                           /\ head'[q] = head[q]
  <2> SUFFICES ASSUME NEW q \in Pending, q # p
               PROVE  Request(q)' /\ Parts(q)' = Parts(q) /\ head'[q] = head[q]
    BY <1>3, Zenon
  <2>1. Request(q) /\ Parts(q) \subseteq Desc /\ Parts(q) \cap free = {}
    BY RequestFacts, Zenon DEF Requests
  <2>2. Parts(q) \cap Parts(p) = {}
    BY <1>3, Zenon DEF Requests
  <2>3. head'[q] = head[q] /\ Parts(q) \cap free' = {}
    BY <1>3, <1>7, <1>9, <2>1, <2>2, Zenon
  <2>4. \A d \in Parts(q) : /\ next'[d] = next[d] /\ addr'[d] = addr[d]
                            /\ info'[d] = info[d] /\ ops'[d] = ops[d]
    BY <1>9, <2>1, <2>2, Zenon
  <2>5. cur'[q] = cur[q] /\ blockno'[cur[q]] = blockno[cur[q]] /\ valid'[cur[q]] = valid[cur[q]]
    <3>1. cur[q] \in Buf /\ cur[q] # cur[p]
      BY <1>1, Apart, Zenon DEF Holding
    <3> QED
      BY <1>1, <1>10, <3>1, Zenon
  <2> QED
    BY <2>1, <2>3, <2>4, <2>5, RequestKept, Zenon
<1>12. Requests'
  <2>1. \A q, r \in Pending' : q # r => Parts(q)' \cap Parts(r)' = {}
    BY <1>11, Zenon DEF Requests
  <2> QED
    BY <1>11, <2>1, Zenon DEF Requests
<1>13. UNCHANGED <<avail, used, inflight, busy>> /\ busy[cur[p]] = 0
  BY <1>1, Zenon DEF rings, finish
<1>14. Rings' /\ Handed' = Handed
  BY <1>13, Zenon DEF Rings, Handed
<1>15. Busy'
  <2>1. \A d \in Handed : \E q \in Pending' : head'[q] = d /\ busy[cur[q]] = 1
    <3> SUFFICES ASSUME NEW d \in Handed PROVE \E q \in Pending' : head'[q] = d /\ busy[cur[q]] = 1
      BY Zenon
    <3>1. PICK q \in Pending : head[q] = d /\ busy[cur[q]] = 1
      BY Zenon DEF Busy
    <3>2. q \in Pending'
      BY <1>3, <1>13, <3>1
    <3> QED
      BY <1>11, <3>1, <3>2, Zenon
  <2>2. \A q \in Pending' : busy[cur[q]] = 1 => head'[q] \in Handed
    BY <1>11, Zenon DEF Busy
  <2>3. \A q \in Proc : pc'[q] = "io" => busy[cur[q]] = 1
    BY <1>2, Zenon DEF Busy
  <2> QED
    BY <1>1, <1>13, <1>14, <2>1, <2>2, <2>3, Zenon DEF Busy
<1>16. Done'
  BY <1>1, <1>11, <1>13, Zenon DEF Done, Clean
<1>17. CacheFrame
  <2>1. \A q \in Proc : pc'[q] \in Location
    BY <1>2, Zenon DEF ProcTypes, Location, Holding
  <2>2. \A q \in Proc : /\ pc[q] = "idle" <=> pc'[q] = "idle"
                        /\ pc[q] \in Holding <=> pc'[q] \in Holding
                        /\ pc'[q] = "asleep" => pc[q] = "asleep"
    BY <1>1, <1>2, Zenon DEF Holding
  <2> QED
    BY <1>1, <1>2, <2>1, <2>2, Zenon DEF CacheFrame
<1>18. Valid'
  <2>1. \A q \in Proc : q # p /\ pc[q] \in Holding => valid'[cur[q]] = valid[cur[q]]
    BY <1>4, <1>10, Zenon DEF Locks, Users, Holding
  <2> QED
    BY <1>1, <1>2, <1>10, <2>1 DEF Valid, Holding
<1>19. Backed'
  <2>1. \A x \in Buf : locked[x] = Free => valid'[x] = valid[x]
    BY <1>4, <1>10, FreeFacts, Zenon
  <2> QED
    BY <1>1, <2>1, Zenon DEF Backed, Clean
<1> QED
  BY <1>1, <1>8, <1>10, <1>12, <1>14, <1>15, <1>16, <1>17, <1>18, <1>19, Kept,
     CacheFrameStep, Zenon

-----------------------------------------------------------------------------
(* The device and the interrupt handler.                                   *)

\* A request in the rings or in the device belongs to one process, whose buffer
\* and block it describes.
LEMMA Owner ==
  ASSUME IInv, NEW d \in Handed
  PROVE  \E p \in Pending :
            /\ head[p] = d /\ p \in Proc /\ pc[p] \in Holding /\ Request(p) /\ d \in Desc
            /\ \A q \in Pending : head[q] = d => q = p
<1>1. PICK p \in Pending : head[p] = d
  BY Zenon DEF Busy
<1>2. p \in Proc /\ pc[p] \in Holding
  BY Zenon DEF Pending, Holding
<1>3. \A q \in Pending : head[q] \in Parts(q)
  BY Zenon DEF Parts
<1>4. \A q \in Pending : head[q] = d => q = p
  BY <1>1, <1>3, Zenon DEF Requests
<1>5. Request(p) /\ d \in Desc
  BY <1>1, RequestFacts, Zenon DEF Requests
<1> QED
  BY <1>1, <1>2, <1>4, <1>5, Zenon

\* The device has done a request: buffer and block agree.
LEMMA dev_finishStep ==
  ASSUME IInv, NEW d \in Desc, dev_finish(d), UNCHANGED <<bufs, locked, pins>>
  PROVE  IInv'
<1>1. /\ UNCHANGED driver /\ UNCHANGED cache /\ UNCHANGED <<avail, busy, pc, cur>>
      /\ d \in inflight /\ inflight' = inflight \ {d} /\ used' = Append(used, d) /\ isr' = 1
  BY Zenon DEF dev_finish, bufs, cache
<1>2. UNCHANGED <<free, next, addr, ops, info, head, blockno, valid, locked, pins>>
  BY <1>1, Zenon DEF driver, cache
<1>3. PICK p \in Pending :
        /\ head[p] = d /\ p \in Proc /\ pc[p] \in Holding /\ Request(p)
        /\ \A q \in Pending : head[q] = d => q = p
  BY <1>1, Owner DEF Handed
<1>4. addr[next[d]] = cur[p] /\ ops[d].block = blockno[cur[p]]
  BY <1>3, Zenon DEF Request
<1>5. /\ cur[p] \in Buf /\ blockno[cur[p]] \in Block /\ locked[cur[p]] = p
      /\ \A q \in Pending : q # p => cur[q] \in Buf /\ cur[q] # cur[p]
      /\ \A x \in Buf : x # cur[p] => blockno[x] # blockno[cur[p]]
  BY <1>3, Apart, Zenon
<1>6. /\ BlockTypes' /\ data'[cur[p]] = disk'[blockno[cur[p]]]
      /\ \A x \in Buf : x # cur[p] => data'[x] = data[x] /\ disk'[blockno[x]] = disk[blockno[x]]
  <2>1. CASE /\ UNCHANGED data
             /\ disk' = [disk EXCEPT ![blockno[cur[p]]] = data[cur[p]]]
    BY <1>5, <2>1 DEF BlockTypes
  <2>2. CASE /\ UNCHANGED disk
             /\ data' = [data EXCEPT ![cur[p]] = disk[blockno[cur[p]]]]
    BY <1>5, <2>2, Zenon DEF BlockTypes
  <2> QED
    BY <1>4, <2>1, <2>2, Zenon DEF dev_finish
<1>7. /\ used' \in Seq(Desc) /\ Distinct(used)' /\ Entries(used)' = Entries(used) \cup {d}
  BY <1>1, RingAppend DEF RingTypes, Rings
<1>8. RingTypes'
  BY <1>1, <1>7, Zenon DEF RingTypes
<1>9. Pending' = Pending /\ CacheFrame
  BY <1>1, <1>2, Zenon DEF Pending, CacheFrame, ProcTypes
<1>10. Valid'
  BY <1>1, <1>2, Zenon DEF Valid
<1>11. Backed'
  BY <1>2, <1>3, <1>5, <1>6, FreeFacts DEF Backed, Clean
<1>12. Requests'
  <2>1. \A q \in Pending : Request(q)' /\ Parts(q)' = Parts(q)
    BY <1>1, <1>2, Zenon DEF Requests, Request, Parts
  <2> QED
    BY <1>9, <2>1, Zenon DEF Requests
<1>13. Rings' /\ Handed' = Handed
  BY <1>1, <1>7, Zenon DEF Rings, Handed
<1>14. Busy'
  BY <1>1, <1>2, <1>9, <1>13, Zenon DEF Busy
<1>15. Done'
  <2>1. ASSUME NEW q \in Pending, q # p, busy[cur[q]] = 0 \/ head[q] \in Entries(used)'
        PROVE  data'[cur[q]] = disk'[blockno[cur[q]]]
    <3>1. busy[cur[q]] = 0 \/ head[q] \in Entries(used)
      BY <1>3, <1>7, <2>1, Zenon
    <3>2. data[cur[q]] = disk[blockno[cur[q]]]
      BY <3>1, Zenon DEF Done, Clean
    <3> QED
      BY <1>5, <1>6, <2>1, <3>2, Zenon
  <2> QED
    BY <1>1, <1>2, <1>6, <1>9, <2>1, Zenon DEF Done, Clean
<1>16. Announced'
  BY <1>1, Zenon DEF Announced
<1> QED
  BY <1>1, <1>6, <1>8, <1>9, <1>10, <1>11, <1>12, <1>13, <1>14, <1>15, <1>16, Kept,
     CacheFrameStep, Zenon

\* The handler takes an entry off the used ring and wakes who waits for it.
LEMMA intr_nextStep ==
  ASSUME IInv, intr_next, UNCHANGED <<bufs, locked, pins>>
  PROVE  IInv'
<1>1. /\ UNCHANGED driver /\ UNCHANGED cache /\ UNCHANGED <<disk, data>>
      /\ UNCHANGED <<avail, inflight, cur>>
      /\ intr' = intr /\ intr = 1 /\ used # <<>> /\ used' = Tail(used)
  BY Zenon DEF intr_next, bufs, cache
<1>2. UNCHANGED <<free, next, addr, ops, info, head, blockno, valid, locked, pins>>
  BY <1>1, Zenon DEF driver, cache
<1>3. /\ used' \in Seq(Desc) /\ Distinct(used)' /\ Head(used) \in Desc
      /\ Head(used) \in Entries(used) /\ Entries(used)' = Entries(used) \ {Head(used)}
  BY <1>1, RingTail, Zenon DEF RingTypes, Rings
<1>4. PICK p \in Pending :
        /\ head[p] = Head(used) /\ p \in Proc /\ pc[p] \in Holding /\ Request(p)
        /\ \A q \in Pending : head[q] = Head(used) => q = p
  BY <1>3, Owner, Zenon DEF Handed
<1>5. /\ cur[p] \in Buf /\ pc[p] \in {"io", "io_woken"}
      /\ \A q \in Pending : q # p => cur[q] \in Buf /\ cur[q] # cur[p]
  BY <1>4, Apart, Zenon DEF Pending
<1>6. busy' = [busy EXCEPT ![cur[p]] = 0] /\ pc' = [pc EXCEPT ![p] = "io_woken"]
  <2>1. info[Head(used)] = cur[p]
    BY <1>4, Zenon DEF Request
  <2>2. /\ busy' = [busy EXCEPT ![cur[p]] = 0]
        /\ pc' = [r \in Proc |-> IF r \in BufSleepers(cur[p]) THEN Woken(pc[r]) ELSE pc[r]]
    BY <2>1, Zenon DEF intr_next
  <2>3. \A r \in Proc : r \in BufSleepers(cur[p]) => r = p /\ Woken(pc[r]) = "io_woken"
    BY <1>5, Zenon DEF BufSleepers, Woken, Pending
  <2>4. p \notin BufSleepers(cur[p]) => pc[p] = "io_woken"
    BY <1>4, <1>5, Zenon DEF BufSleepers
  <2> QED
    BY <1>4, <2>2, <2>3, <2>4, Zenon DEF ProcTypes
<1>7. RingTypes' /\ busy'[cur[p]] = 0 /\ \A q \in Pending : q # p => busy'[cur[q]] = busy[cur[q]]
  BY <1>1, <1>3, <1>5, <1>6, Zenon DEF RingTypes
<1>8. Pending' = Pending
  BY <1>5, <1>6, Zenon DEF Pending, ProcTypes
<1>9. CacheFrame
  BY <1>1, <1>2, <1>5, <1>6, Zenon DEF CacheFrame, ProcTypes, Location, Holding
<1>10. Valid'
  BY <1>1, <1>2, <1>5, <1>6, Zenon DEF Valid, ProcTypes
<1>11. Backed'
  BY <1>1, <1>2, Zenon DEF Backed, Clean
<1>12. Requests'
  <2>1. \A q \in Pending : Request(q)' /\ Parts(q)' = Parts(q)
    BY <1>1, <1>2, Zenon DEF Requests, Request, Parts
  <2> QED
    BY <1>8, <2>1, Zenon DEF Requests
<1>13. Rings' /\ Handed' = Handed \ {Head(used)}
  BY <1>1, <1>3, Zenon DEF Rings, Handed
<1>14. Busy'
  <2>1. \A e \in Handed' : \E q \in Pending : head[q] = e /\ busy'[cur[q]] = 1
    BY <1>4, <1>7, <1>13 DEF Busy
  <2>2. \A q \in Pending : busy'[cur[q]] = 1 => head[q] \in Handed'
    BY <1>4, <1>7, <1>13 DEF Busy
  <2>3. \A q \in Proc : pc'[q] = "io" => q \in Pending /\ q # p /\ busy[cur[q]] = 1
    BY <1>6, Zenon DEF ProcTypes, Busy, Pending
  <2> QED
    BY <1>1, <1>2, <1>7, <1>8, <2>1, <2>2, <2>3 DEF Busy
<1>15. Done'
  <2>1. \A q \in Pending : busy'[cur[q]] = 0 \/ head[q] \in Entries(used)' => Clean(cur[q])
    BY <1>3, <1>4, <1>7, Zenon DEF Done
  <2> QED
    BY <1>1, <1>2, <1>8, <2>1, Zenon DEF Done, Clean
<1>16. Announced'
  BY <1>1, Zenon DEF Announced
<1> QED
  BY <1>1, <1>7, <1>9, <1>10, <1>11, <1>12, <1>13, <1>14, <1>15, <1>16, Kept,
     CacheFrameStep, Zenon

\* The device takes a request.
LEMMA dev_takeStep ==
  ASSUME IInv, dev_take, UNCHANGED <<bufs, locked, pins>>
  PROVE  IInv'
<1>1. /\ UNCHANGED driver /\ UNCHANGED cache /\ UNCHANGED <<disk, data>>
      /\ UNCHANGED <<used, intr, isr>> /\ UNCHANGED <<busy, pc, cur>>
      /\ avail # <<>> /\ inflight' = inflight \cup {Head(avail)} /\ avail' = Tail(avail)
  BY Zenon DEF dev_take, bufs, cache
<1>2. UNCHANGED <<free, next, addr, ops, info, head, blockno, valid, locked, pins>>
  BY <1>1, Zenon DEF driver, cache
<1>3. /\ avail' \in Seq(Desc) /\ Distinct(avail)' /\ Head(avail) \in Desc
      /\ Head(avail) \in Entries(avail) /\ Entries(avail)' = Entries(avail) \ {Head(avail)}
  BY <1>1, RingTail, Zenon DEF RingTypes, Rings
<1>4. RingTypes'
  BY <1>1, <1>3, Zenon DEF RingTypes
<1>5. Pending' = Pending /\ CacheFrame
  BY <1>1, <1>2, Zenon DEF Pending, CacheFrame, ProcTypes
<1>6. Valid' /\ Backed'
  BY <1>1, <1>2, Zenon DEF Valid, Backed, Clean
<1>7. Requests'
  <2>1. \A q \in Pending : Request(q)' /\ Parts(q)' = Parts(q)
    BY <1>1, <1>2, Zenon DEF Requests, Request, Parts
  <2> QED
    BY <1>5, <2>1, Zenon DEF Requests
<1>8. Rings' /\ Handed' = Handed
  BY <1>1, <1>3, Zenon DEF Rings, Handed
<1>9. Busy'
  BY <1>1, <1>2, <1>5, <1>8, Zenon DEF Busy
<1>10. Done'
  BY <1>1, <1>2, <1>5, Zenon DEF Done, Clean
<1> QED
  BY <1>1, <1>4, <1>5, <1>6, <1>7, <1>8, <1>9, <1>10, Kept, CacheFrameStep, Zenon

-----------------------------------------------------------------------------
(* Steps that only put processes to sleep or wake them up.                 *)

\* Everything but the locations of processes and the handler's lock is kept.
Still ==
    /\ UNCHANGED driver /\ UNCHANGED rings /\ UNCHANGED <<disk, data>>
    /\ UNCHANGED cache /\ UNCHANGED cur

\* Such a step preserves the invariant if the locations agree with the locks and
\* the requests, and the interrupt with the used ring.
LEMMA StillStep ==
  ASSUME IInv, Still, CacheFrame, Pending' = Pending,
         \A q \in Proc : pc'[q] = "io" => busy[cur[q]] = 1, Valid', Announced'
  PROVE  IInv'
<1>1. RequestFrame
  <2>1. /\ UNCHANGED driver /\ UNCHANGED rings /\ UNCHANGED <<disk, data>>
        /\ UNCHANGED <<blockno, valid, locked, pins>> /\ UNCHANGED cur
    BY Zenon DEF Still, cache
  <2> QED
    BY <2>1, Zenon DEF RequestFrame
<1>2. Backed'
  BY Zenon DEF Still, cache, Backed, Clean
<1> QED
  BY <1>1, <1>2, Kept, CacheFrameStep, RequestFrameStep, Zenon DEF Still

\* kill() wakes a process up before its time.
LEMMA killStep ==
  ASSUME IInv, NEW p \in Proc, kill(p), UNCHANGED <<bufs, locked, pins>>
  PROVE  IInv'
<1>1. Still /\ UNCHANGED <<used, intr, isr>>
  BY Zenon DEF kill, ioVars, bufs, Still, driver, rings, cache
<1>2. \/ pc[p] = "read_free" /\ pc' = [pc EXCEPT ![p] = "read"]
      \/ pc[p] = "write_free" /\ pc' = [pc EXCEPT ![p] = "write"]
      \/ pc[p] = "io" /\ pc' = [pc EXCEPT ![p] = "io_woken"]
      \/ pc[p] = "asleep" /\ pc' = [pc EXCEPT ![p] = "lock"]
  BY Zenon DEF kill, Woken
<1>3. CacheFrame
  <2>1. pc' \in [Proc -> Location]
    BY <1>2, Zenon DEF ProcTypes, Location, Holding
  <2>2. \A q \in Proc : /\ pc[q] = "idle" <=> pc'[q] = "idle"
                        /\ pc[q] \in Holding <=> pc'[q] \in Holding
                        /\ pc'[q] = "asleep" => pc[q] = "asleep"
    BY <1>2, Zenon DEF ProcTypes, Holding
  <2> QED
    BY <1>1, <2>1, <2>2, Zenon DEF CacheFrame, Still, cache
<1>4. Pending' = Pending /\ \A q \in Proc : pc'[q] = "io" => busy[cur[q]] = 1
  BY <1>2 DEF ProcTypes, Pending, Busy
<1>5. Valid'
  BY <1>1, <1>2, Zenon DEF ProcTypes, Valid, Still, cache
<1> QED
  BY <1>1, <1>3, <1>4, <1>5, Kept, StillStep, Zenon

\* alloc3_desc() fails.
LEMMA alloc3_failsStep ==
  ASSUME IInv, NEW p \in Proc, alloc3_fails(p), UNCHANGED <<bufs, locked, pins>>
  PROVE  IInv'
<1>1. Still /\ UNCHANGED <<used, intr, isr>>
  BY Zenon DEF alloc3_fails, ioVars, bufs, Still, driver, rings, cache
<1>2. /\ \/ pc[p] = "read" /\ pc'[p] = "read_free"
         \/ pc[p] = "write" /\ pc'[p] = "write_free"
      /\ \A q \in Proc : q # p => \/ pc'[q] = pc[q]
                                  \/ pc[q] = "read_free" /\ pc'[q] = "read"
                                  \/ pc[q] = "write_free" /\ pc'[q] = "write"
      /\ pc' = [q \in Proc |-> pc'[q]]
  BY Zenon DEF alloc3_fails, WakeAndGoto, FreeSleepers, Woken, Starting
<1>3. CacheFrame
  <2>1. \A q \in Proc : pc'[q] \in Location
    BY <1>2, Zenon DEF ProcTypes, Location, Holding
  <2>2. \A q \in Proc : /\ pc[q] = "idle" <=> pc'[q] = "idle"
                        /\ pc[q] \in Holding <=> pc'[q] \in Holding
                        /\ pc'[q] = "asleep" => pc[q] = "asleep"
    BY <1>2, Zenon DEF Holding
  <2> QED
    BY <1>1, <1>2, <2>1, <2>2, Zenon DEF CacheFrame, Still, cache
<1>4. Pending' = Pending /\ \A q \in Proc : pc'[q] = "io" => busy[cur[q]] = 1
  BY <1>2, Zenon DEF Pending, Busy
<1>5. Valid'
  BY <1>1, <1>2, Zenon DEF Valid, Still, cache
<1> QED
  BY <1>1, <1>3, <1>4, <1>5, Kept, StillStep, Zenon

\* Woken too early, and asleep again.
LEMMA wait_againStep ==
  ASSUME IInv, NEW p \in Proc, wait_again(p), UNCHANGED <<bufs, locked, pins>>
  PROVE  IInv'
<1>1. Still /\ UNCHANGED <<used, intr, isr>>
  BY Zenon DEF wait_again, ioVars, bufs, Still, driver, rings, cache
<1>2. pc[p] = "io_woken" /\ busy[cur[p]] = 1 /\ pc' = [pc EXCEPT ![p] = "io"]
  BY Zenon DEF wait_again
<1>3. CacheFrame
  BY <1>1, <1>2, Zenon DEF ProcTypes, CacheFrame, Location, Holding, Still, cache
<1>4. Pending' = Pending /\ \A q \in Proc : pc'[q] = "io" => busy[cur[q]] = 1
  BY <1>2, Zenon DEF ProcTypes, Pending, Busy
<1>5. Valid'
  BY <1>1, <1>2, Zenon DEF ProcTypes, Valid, Still, cache
<1> QED
  BY <1>1, <1>3, <1>4, <1>5, Kept, StillStep, Zenon

\* No process moves, and the interrupt is still announced.
LEMMA UnmovedStep ==
  ASSUME IInv, Still, UNCHANGED pc, Announced'
  PROVE  IInv'
<1>1. CacheFrame
  BY Zenon DEF CacheFrame, ProcTypes, Still, cache
<1>2. Pending' = Pending /\ \A q \in Proc : pc'[q] = "io" => busy[cur[q]] = 1
  BY Zenon DEF Pending, Busy
<1>3. Valid'
  BY Zenon DEF Valid, Still, cache
<1> QED
  BY <1>1, <1>2, <1>3, StillStep, Zenon

\* The handler starts.
LEMMA intr_beginStep ==
  ASSUME IInv, intr_begin, UNCHANGED <<bufs, locked, pins>>
  PROVE  IInv'
<1>1. Still /\ UNCHANGED pc
  BY Zenon DEF intr_begin, bufs, Still, rings, cache
<1>2. Announced'
  BY Zenon DEF intr_begin, Announced
<1> QED
  BY <1>1, <1>2, UnmovedStep, Zenon

\* The handler has emptied the used ring.
LEMMA intr_endStep ==
  ASSUME IInv, intr_end, UNCHANGED <<bufs, locked, pins>>
  PROVE  IInv'
<1>1. Still /\ UNCHANGED pc
  BY Zenon DEF intr_end, bufs, Still, rings, cache
<1>2. Announced'
  BY Zenon DEF intr_end, Announced
<1> QED
  BY <1>1, <1>2, UnmovedStep, Zenon

\* Only the panic flag, or nothing, changes.
LEMMA StutterStep ==
  ASSUME IInv, UNCHANGED <<ioVars, bufs, locked, pins, pc, cur>>
  PROVE  IInv'
<1>1. Still /\ UNCHANGED pc /\ UNCHANGED <<used, intr, isr>>
  BY Zenon DEF ioVars, bufs, Still, driver, rings, cache
<1> QED
  BY <1>1, Kept, UnmovedStep, Zenon

-----------------------------------------------------------------------------
(* The steps of bio.c leave the requests alone.                            *)

\* bread() finds the buffer valid or not.
LEMMA breadStep ==
  ASSUME IInv, NEW p \in Proc, bread(p)
  PROVE  IInv'
<1>1. Still /\ UNCHANGED <<used, intr, isr>>
  BY Zenon DEF bread, ioVars, bufs, Still, driver, rings, cache
<1>2. /\ pc[p] = "fill" /\ cur[p] \in Buf
      /\ pc' = [pc EXCEPT ![p] = IF valid[cur[p]] = 1 THEN "held" ELSE "read"]
  BY Zenon DEF bread, At, Goto, Users
<1>3. CacheFrame
  BY <1>1, <1>2, Zenon DEF ProcTypes, CacheFrame, Location, Holding, Still, cache
<1>4. Pending' = Pending /\ \A q \in Proc : pc'[q] = "io" => busy[cur[q]] = 1
  BY <1>2, Zenon DEF ProcTypes, Pending, Busy
<1>5. Valid'
  BY <1>1, <1>2, Zenon DEF ProcTypes, CacheTypes, Valid, Still, cache
<1> QED
  BY <1>1, <1>3, <1>4, <1>5, Kept, StillStep, Zenon

\* bwrite() goes to the driver.
LEMMA bwriteStep ==
  ASSUME IInv, NEW p \in Proc, bwrite(p)
  PROVE  IInv'
<1>1. Still /\ UNCHANGED <<used, intr, isr>>
  BY Zenon DEF bwrite, ioVars, bufs, Still, driver, rings, cache
<1>2. pc[p] = "held" /\ pc' = [pc EXCEPT ![p] = "write"]
  BY Zenon DEF bwrite, At, Goto
<1>3. CacheFrame
  BY <1>1, <1>2, Zenon DEF ProcTypes, CacheFrame, Location, Holding, Still, cache
<1>4. Pending' = Pending /\ \A q \in Proc : pc'[q] = "io" => busy[cur[q]] = 1
  BY <1>2, Zenon DEF ProcTypes, Pending, Busy
<1>5. Valid'
  BY <1>1, <1>2, Zenon DEF ProcTypes, Valid, Still, cache
<1> QED
  BY <1>1, <1>3, <1>4, <1>5, Kept, StillStep, Zenon

\* The caller changes the contents.
LEMMA modifyStep ==
  ASSUME IInv, NEW p \in Proc, NEW v \in Data, modify(p, v)
  PROVE  IInv'
<1>1. /\ UNCHANGED driver /\ UNCHANGED rings /\ UNCHANGED disk /\ UNCHANGED cache
      /\ UNCHANGED <<used, intr, isr>> /\ UNCHANGED <<pc, cur>> /\ pc[p] = "held"
      /\ data' = [data EXCEPT ![cur[p]] = v]
  BY Zenon DEF modify, At, bufs, rings, cache
<1>2. UNCHANGED <<blockno, valid, locked, pins>>
  BY <1>1, Zenon DEF cache
<1>3. /\ cur[p] \in Buf /\ locked[cur[p]] = p
      /\ \A q \in Pending : q # p => cur[q] \in Buf /\ cur[q] # cur[p]
  BY <1>1, Apart, Zenon DEF Holding
<1>4. BlockTypes' /\ \A x \in Buf : x # cur[p] => data'[x] = data[x]
  BY <1>1, <1>3, Zenon DEF BlockTypes
<1>5. CacheFrame
  BY <1>1, <1>2, Zenon DEF CacheFrame, ProcTypes
<1>6. Valid'
  BY <1>1, <1>2, Zenon DEF Valid
<1>7. Backed'
  BY <1>1, <1>2, <1>3, <1>4, FreeFacts DEF Backed, Clean
<1>8. p \notin Pending /\ Pending' = Pending
  BY <1>1, Zenon DEF Pending
<1>9. RequestFrame
  BY <1>1, <1>2, <1>3, <1>4, <1>8, Zenon DEF RequestFrame, Busy
<1> QED
  BY <1>1, <1>4, <1>5, <1>6, <1>7, <1>9, Kept, CacheFrameStep, RequestFrameStep, Zenon

\* acquiresleep() takes the lock or sleeps.
LEMMA acquiresleepStep ==
  ASSUME IInv, NEW p \in Proc, acquiresleep(p)
  PROVE  IInv'
<1>1. /\ UNCHANGED driver /\ UNCHANGED rings /\ UNCHANGED <<disk, data>>
      /\ UNCHANGED <<used, intr, isr>> /\ UNCHANGED <<blockno, pins>>
      /\ UNCHANGED <<valid, cur>> /\ pc[p] = "lock"
  BY Zenon DEF acquiresleep, At, ioVars, bufs, driver, rings
<1>2. cur[p] \in Buf
  BY <1>1, Zenon DEF Users
<1>3. \/ /\ locked[cur[p]] = Free /\ locked' = [locked EXCEPT ![cur[p]] = p]
         /\ pc' = [pc EXCEPT ![p] = "fill"]
      \/ locked[cur[p]] # Free /\ locked' = locked /\ pc' = [pc EXCEPT ![p] = "asleep"]
  BY Zenon DEF acquiresleep, Goto
<1>4. CacheTypes' /\ ProcTypes'
  BY <1>1, <1>2, <1>3, Zenon DEF CacheTypes, ProcTypes, Location, Holding
<1>5. /\ pc'[p] \in {"fill", "asleep"} /\ \A q \in Proc : q # p => pc'[q] = pc[q]
  BY <1>3, Zenon DEF ProcTypes
<1>6. Users'
  BY <1>1, <1>5, Zenon DEF Users
<1>7. Locks'
  <2>1. CASE locked' = locked /\ pc' = [pc EXCEPT ![p] = "asleep"] /\ locked[cur[p]] # Free
    <3>1. pc'[p] = "asleep" /\ \A q \in Proc : pc'[q] \in Holding <=> pc[q] \in Holding
      BY <1>1, <1>5, <2>1, Zenon DEF ProcTypes, Holding
    <3> QED
      BY <1>1, <1>5, <2>1, <3>1 DEF Locks, CacheTypes
  <2>2. CASE /\ locked[cur[p]] = Free /\ locked' = [locked EXCEPT ![cur[p]] = p]
             /\ pc' = [pc EXCEPT ![p] = "fill"]
    <3>1. locked'[cur[p]] = p /\ \A x \in Buf : x # cur[p] => locked'[x] = locked[x]
      BY <1>2, <2>2, Zenon DEF CacheTypes
    <3>2. pc'[p] = "fill" /\ pc'[p] \in Holding
      BY <2>2, Zenon DEF ProcTypes, Holding
    <3>3. \A q \in Proc : q # p /\ pc[q] \in Holding \cup {"asleep"} =>
            cur[q] \in Buf /\ cur[q] # cur[p]
      BY <2>2, FreeFacts DEF Locks, Users, Holding
    <3>4. \A q \in Proc : pc'[q] \in Holding => locked'[cur[q]] = q
      BY <1>5, <3>1, <3>3, Zenon DEF Locks
    <3>5. \A x \in Buf : locked'[x] # Free => cur[locked'[x]] = x /\ pc'[locked'[x]] \in Holding
      BY <1>5, <3>1, <3>2 DEF Locks, CacheTypes
    <3>6. \A q \in Proc : pc'[q] = "asleep" => locked'[cur[q]] # Free
      BY <1>5, <3>1, <3>2, <3>3 DEF Locks
    <3> QED
      BY <1>1, <3>4, <3>5, <3>6, Zenon DEF Locks
  <2> QED
    BY <1>3, <2>1, <2>2, Zenon
<1>8. Valid'
  BY <1>1, <1>5, Zenon DEF Valid
<1>9. Backed'
  BY <1>1, <1>2, <1>3, Zenon DEF Backed, Clean, CacheTypes
<1>10. Pending' = Pending
  BY <1>1, <1>5, Zenon DEF Pending
<1>11. RequestFrame
  BY <1>1, <1>5, <1>10, Zenon DEF RequestFrame, Busy
<1> QED
  BY <1>1, <1>4, <1>6, <1>7, <1>8, <1>9, <1>11, Kept, RequestFrameStep, Zenon

\* releasesleep() wakes all who wait for the lock.
LEMMA releasesleepStep ==
  ASSUME IInv, NEW p \in Proc, releasesleep(p)
  PROVE  IInv'
<1>1. /\ UNCHANGED driver /\ UNCHANGED rings /\ UNCHANGED <<disk, data>>
      /\ UNCHANGED <<used, intr, isr>> /\ UNCHANGED <<blockno, pins>>
      /\ UNCHANGED <<valid, cur>> /\ pc[p] = "held" /\ locked' = [locked EXCEPT ![cur[p]] = Free]
      /\ Clean(cur[p]) \/ blockno[cur[p]] \in pins
  BY Zenon DEF releasesleep, At, ioVars, bufs, driver, rings
<1>2. cur[p] \in Buf /\ locked[cur[p]] = p
  BY <1>1, Apart, Zenon DEF Holding
<1>3. /\ pc'[p] = "release" /\ pc' = [q \in Proc |-> pc'[q]]
      /\ \A q \in Proc : q # p => \/ pc'[q] = pc[q]
                                  \/ pc[q] = "asleep" /\ pc'[q] = "lock"
      /\ \A q \in Proc : pc'[q] = "asleep" => pc[q] = "asleep" /\ cur[q] # cur[p]
  BY Zenon DEF releasesleep, WakeAndGoto, LockSleepers, Woken
<1>4. ProcTypes'
  <2>1. \A q \in Proc : pc'[q] \in Location
    BY <1>3, Zenon DEF ProcTypes, Location
  <2> QED
    BY <1>1, <1>3, <2>1, Zenon DEF ProcTypes
<1>5. /\ CacheTypes' /\ locked'[cur[p]] = Free
      /\ \A x \in Buf : x # cur[p] => locked'[x] = locked[x]
  BY <1>1, <1>2, Zenon DEF CacheTypes
<1>6. Users'
  BY <1>1, <1>3, Zenon DEF Users
<1>7. Locks'
  <2>1. \A q \in Proc : pc'[q] \in Holding <=> pc[q] \in Holding /\ q # p
    BY <1>3, Zenon DEF Holding
  <2>2. \A q \in Proc : q # p /\ pc[q] \in Holding => cur[q] \in Buf /\ cur[q] # cur[p]
    BY <1>2, Zenon DEF Users, Locks, Holding
  <2>3. \A q \in Proc : pc'[q] \in Holding => locked'[cur[q]] = q
    BY <1>5, <2>1, <2>2, Zenon DEF Locks
  <2>4. \A x \in Buf : locked'[x] # Free => cur[locked'[x]] = x /\ pc'[locked'[x]] \in Holding
    BY <1>2, <1>5, <2>1 DEF Locks, CacheTypes
  <2>5. \A q \in Proc : pc'[q] = "asleep" => locked'[cur[q]] # Free
    BY <1>3, <1>5 DEF Locks, Users
  <2> QED
    BY <1>1, <2>3, <2>4, <2>5, Zenon DEF Locks
<1>8. Valid'
  BY <1>1, <1>3, Zenon DEF Valid
<1>9. Backed'
  BY <1>1, <1>2, <1>5, Zenon DEF Backed, Clean
<1>10. Pending' = Pending
  BY <1>1, <1>3, Zenon DEF Pending
<1>11. RequestFrame
  BY <1>1, <1>3, <1>10, Zenon DEF RequestFrame, Busy
<1> QED
  BY <1>1, <1>4, <1>5, <1>6, <1>7, <1>8, <1>9, <1>11, Kept, RequestFrameStep, Zenon

\* bpin() and bunpin() change the set of pinned blocks by p's own.
LEMMA PinStep ==
  ASSUME IInv, NEW p \in Proc, pc[p] = "held", UNCHANGED ioVars,
         UNCHANGED <<blockno, valid, locked, pc, cur>>,
         pins' \subseteq pins \cup {blockno[cur[p]]}, pins \subseteq pins' \cup {blockno[cur[p]]}
  PROVE  IInv'
<1>1. /\ UNCHANGED driver /\ UNCHANGED rings /\ UNCHANGED <<disk, data>>
      /\ UNCHANGED <<used, intr, isr>>
  BY Zenon DEF ioVars, driver, rings
<1>2. /\ cur[p] \in Buf /\ locked[cur[p]] = p
      /\ \A x \in Buf : x # cur[p] => blockno[x] # blockno[cur[p]]
  BY Apart, Zenon DEF Holding
<1>3. CacheTypes' /\ ProcTypes' /\ Users' /\ Locks' /\ Valid'
  BY Zenon DEF CacheTypes, ProcTypes, Users, Locks, Valid
<1>4. OneBuffer'
  BY <1>2, Zenon DEF OneBuffer
<1>5. Backed'
  BY <1>1, <1>2, FreeFacts, Zenon DEF Backed, Clean
<1>6. RequestFrame
  BY <1>1, Zenon DEF RequestFrame, Busy, Pending
<1> QED
  BY <1>1, <1>3, <1>4, <1>5, <1>6, Kept, RequestFrameStep, Zenon

\* bpin() and bunpin().
LEMMA bpinStep ==
  ASSUME IInv, NEW p \in Proc, bpin(p) \/ bunpin(p)
  PROVE  IInv'
<1>1. /\ pc[p] = "held" /\ UNCHANGED ioVars /\ UNCHANGED <<blockno, valid, locked, pc, cur>>
      /\ pins' \subseteq pins \cup {blockno[cur[p]]} /\ pins \subseteq pins' \cup {blockno[cur[p]]}
  BY Zenon DEF bpin, bunpin, At
<1> QED
  BY <1>1, PinStep, Zenon

\* Who takes or drops a reference, p, has no lock and no request: what follows is
\* what such a step has to show.
LEMMA RefStep ==
  ASSUME IInv, NEW p \in Proc, UNCHANGED ioVars, UNCHANGED <<locked, pins>>,
         pc[p] \in {"idle", "release"}, pc'[p] \in {"idle", "lock"},
         \A q \in Proc : q # p => /\ pc'[q] = pc[q] /\ cur'[q] = cur[q]
                                  /\ blockno'[cur[q]] = blockno[cur[q]]
                                  /\ valid'[cur[q]] = valid[cur[q]],
         ProcTypes', CacheTypes', Users', OneBuffer', Backed'
  PROVE  IInv'
<1>1. /\ UNCHANGED driver /\ UNCHANGED rings /\ UNCHANGED <<disk, data>>
      /\ UNCHANGED <<used, intr, isr>>
  BY Zenon DEF ioVars, driver, rings
<1>2. pc[p] \notin Holding /\ pc'[p] \notin Holding /\ pc'[p] # "asleep"
  BY Zenon DEF Holding
<1>3. Locks'
  <2>1. \A q \in Proc : pc'[q] \in Holding \/ pc'[q] = "asleep" =>
          pc'[q] = pc[q] /\ cur'[q] = cur[q]
    BY <1>2, Zenon
  <2>2. \A x \in Buf : locked[x] # Free => locked[x] # p /\ locked[x] \in Proc
    BY <1>2 DEF Locks, CacheTypes
  <2> QED
    BY <2>1, <2>2 DEF Locks
<1>4. Valid'
  <2>1. \A q \in Proc : pc'[q] \in {"held", "write", "write_free", "read", "read_free"} => q # p
    BY Zenon
  <2> QED
    BY <2>1, Zenon DEF Valid
<1>5. Pending' = Pending /\ p \notin Pending
  BY Zenon DEF Pending
<1>6. RequestFrame
  <2>1. \A q \in Pending : q \in Proc /\ q # p
    BY <1>5, Zenon DEF Pending
  <2>2. \A q \in Proc : pc'[q] = "io" => busy[cur'[q]] = 1
    BY Zenon DEF Busy
  <2> QED
    BY <1>1, <1>5, <2>1, <2>2, Zenon DEF RequestFrame
<1> QED
  BY <1>1, <1>3, <1>4, <1>6, Kept, RequestFrameStep, Zenon

\* brelse() drops the reference.
LEMMA brelseStep ==
  ASSUME IInv, NEW p \in Proc, brelse(p)
  PROVE  IInv'
<1>1. /\ pc[p] = "release" /\ UNCHANGED ioVars /\ UNCHANGED <<locked, pins>>
      /\ UNCHANGED <<blockno, valid>>
      /\ cur' = [cur EXCEPT ![p] = Free] /\ pc' = [pc EXCEPT ![p] = "idle"]
  BY Zenon DEF brelse, At, Goto
<1>2. /\ pc'[p] = "idle" /\ cur'[p] = Free
      /\ \A q \in Proc : q # p => pc'[q] = pc[q] /\ cur'[q] = cur[q]
  BY <1>1, Zenon DEF ProcTypes
<1>3. ProcTypes'
  BY <1>1, Zenon DEF ProcTypes, Location
<1>4. Users'
  BY <1>1, <1>2, Zenon DEF Users
<1>5. CacheTypes' /\ OneBuffer'
  BY <1>1, Zenon DEF CacheTypes, OneBuffer
<1>6. Backed'
  BY <1>1, Zenon DEF Backed, Clean, ioVars
<1> QED
  BY <1>1, <1>2, <1>3, <1>4, <1>5, <1>6, RefStep, Zenon

\* bget() finds the block.
LEMMA bget_hitStep ==
  ASSUME IInv, NEW p \in Proc, NEW b \in Block, bget_hit(p, b)
  PROVE  IInv'
<1>1. PICK x \in Buf : /\ blockno[x] = b /\ cur' = [cur EXCEPT ![p] = x]
                       /\ pc[p] = "idle" /\ pc' = [pc EXCEPT ![p] = "lock"]
                       /\ UNCHANGED ioVars /\ UNCHANGED <<locked, pins>>
                       /\ UNCHANGED <<blockno, valid>>
  BY Zenon DEF bget_hit, At, Goto, Cached
<1>2. /\ pc'[p] = "lock" /\ cur'[p] = x
      /\ \A q \in Proc : q # p => pc'[q] = pc[q] /\ cur'[q] = cur[q]
  BY <1>1, Zenon DEF ProcTypes
<1>3. ProcTypes'
  BY <1>1, Zenon DEF ProcTypes, Location
<1>4. Users'
  BY <1>1, <1>2, Zenon DEF Users
<1>5. CacheTypes' /\ OneBuffer'
  BY <1>1, Zenon DEF CacheTypes, OneBuffer
<1>6. Backed'
  BY <1>1, Zenon DEF Backed, Clean, ioVars
<1> QED
  BY <1>1, <1>2, <1>3, <1>4, <1>5, <1>6, RefStep, Zenon

\* bget() takes a buffer that nobody refers to.
LEMMA bget_recycleStep ==
  ASSUME IInv, NEW p \in Proc, NEW b \in Block, bget_recycle(p, b),
         \A x \in Buf : refcnt[x] = 0 => blockno[x] \notin pins /\ \A q \in Proc : cur[q] # x
  PROVE  IInv'
<1>1. PICK x \in Buf :
        /\ blockno' = [blockno EXCEPT ![x] = b] /\ valid' = [valid EXCEPT ![x] = 0]
        /\ cur' = [cur EXCEPT ![p] = x] /\ blockno[x] \notin pins /\ \A q \in Proc : cur[q] # x
  BY Zenon DEF bget_recycle, Victim
<1>2. /\ pc[p] = "idle" /\ pc' = [pc EXCEPT ![p] = "lock"] /\ UNCHANGED ioVars
      /\ UNCHANGED <<locked, pins>> /\ \A y \in Buf : blockno[y] # b
  BY Zenon DEF bget_recycle, At, Goto, Cached
<1>3. /\ blockno'[x] = b /\ valid'[x] = 0 /\ CacheTypes'
      /\ \A y \in Buf : y # x => blockno'[y] = blockno[y] /\ valid'[y] = valid[y]
  BY <1>1, <1>2, Zenon DEF CacheTypes
<1>4. /\ pc'[p] = "lock" /\ cur'[p] = x
      /\ \A q \in Proc : q # p => pc'[q] = pc[q] /\ cur'[q] = cur[q]
  BY <1>1, <1>2, Zenon DEF ProcTypes
<1>5. ProcTypes'
  BY <1>1, <1>2, Zenon DEF ProcTypes, Location
<1>6. \A q \in Proc : q # p => blockno'[cur[q]] = blockno[cur[q]] /\ valid'[cur[q]] = valid[cur[q]]
  BY <1>1 DEF CacheTypes
<1>7. Users'
  BY <1>3, <1>4, <1>6 DEF Users
<1>8. OneBuffer'
  <2>1. \A c \in pins : \E y \in Buf \ {x} : blockno[y] = c
    BY <1>1, Zenon DEF OneBuffer
  <2> QED
    BY <1>2, <1>3, <2>1 DEF OneBuffer
<1>9. Backed'
  BY <1>2, <1>3 DEF Backed, Clean, ioVars
<1> QED
  BY <1>2, <1>3, <1>4, <1>5, <1>6, <1>7, <1>8, <1>9, RefStep, Zenon

=============================================================================
