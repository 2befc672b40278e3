---------------------------- MODULE BcacheProof -----------------------------
(***************************************************************************)
(* Proofs about the buffer cache and the disk driver, for every number of  *)
(* processes, buffers, blocks and descriptors: every step keeps the        *)
(* invariant of BcacheInvariant and the counts of references and of        *)
(* descriptors, the safety properties follow, and the cache implements     *)
(* BlockStore.                                                             *)
(***************************************************************************)
EXTENDS BcacheInvariant, FiniteSetTheorems

USE DEF IInv

-----------------------------------------------------------------------------
(* The references to a buffer are counted.                                 *)

\* How many processes use x, and how often it is pinned.
Refs(x) == Cardinality({p \in Proc : cur[p] = x})
Pinned(x) == IF blockno[x] \in pins THEN 1 ELSE 0

\* refcnt is a number, and the right one.
Counted == refcnt \in [Buf -> Nat] /\ \A x \in Buf : refcnt[x] = Refs(x) + Pinned(x)

\* The processes that use x are finitely many.
LEMMA UsersFinite == \A x : Refs(x) \in Nat /\ IsFiniteSet({p \in Proc : cur[p] = x})
BY VirtioAssumption, FS_Subset, FS_CardinalityType, Zenon DEF Refs

\* A buffer whose count is 0 is neither used nor pinned.
LEMMA Unused ==
  ASSUME Counted, NEW x \in Buf, refcnt[x] = 0
  PROVE  blockno[x] \notin pins /\ Refs(x) = 0 /\ \A p \in Proc : cur[p] # x
<1>1. Refs(x) \in Nat /\ IsFiniteSet({p \in Proc : cur[p] = x})
  BY UsersFinite, Zenon
<1>2. Refs(x) = 0 /\ blockno[x] \notin pins
  BY <1>1 DEF Counted, Pinned
<1>3. {p \in Proc : cur[p] = x} = {}
  BY <1>1, <1>2, FS_EmptySet, Zenon DEF Refs
<1> QED
  BY <1>2, <1>3, Zenon

\* A buffer that is used has a count above 0.
LEMMA InUse ==
  ASSUME Counted, NEW p \in Proc, cur[p] \in Buf
  PROVE  refcnt[cur[p]] \in Nat /\ refcnt[cur[p]] - 1 \in Nat
<1>1. refcnt[cur[p]] \in Nat
  BY Zenon DEF Counted
<1>2. refcnt[cur[p]] # 0
  BY Unused, Zenon
<1> QED
  BY <1>1, <1>2

\* A process takes a reference to x.
LEMMA TakeRef ==
  ASSUME NEW p \in Proc, NEW x \in Buf, ProcTypes, cur[p] = Free,
         cur' = [cur EXCEPT ![p] = x]
  PROVE  Refs(x)' = Refs(x) + 1 /\ \A y \in Buf \ {x} : Refs(y)' = Refs(y)
<1> DEFINE U == {q \in Proc : cur[q] = x}
<1>1. IsFiniteSet(U) /\ p \notin U
  BY UsersFinite, FreeFacts, Zenon
<1>2. Cardinality(U \cup {p}) = Cardinality(U) + 1
  BY <1>1, FS_AddElement, Zenon
<1>3. {q \in Proc : cur'[q] = x} = U \cup {p}
  BY Zenon DEF ProcTypes
<1>4. \A y \in Buf \ {x} : {q \in Proc : cur'[q] = y} = {q \in Proc : cur[q] = y}
  BY FreeFacts, Zenon DEF ProcTypes
<1> QED
  BY <1>2, <1>3, <1>4, Zenon DEF Refs

\* A process drops its reference.
LEMMA DropRef ==
  ASSUME NEW p \in Proc, NEW x \in Buf, ProcTypes, cur[p] = x,
         cur' = [cur EXCEPT ![p] = Free]
  PROVE  Refs(x)' = Refs(x) - 1 /\ \A y \in Buf \ {x} : Refs(y)' = Refs(y)
<1> DEFINE U == {q \in Proc : cur[q] = x}
<1>1. IsFiniteSet(U) /\ p \in U
  BY UsersFinite, Zenon
<1>2. Cardinality(U \ {p}) = Cardinality(U) - 1
  BY <1>1, FS_RemoveElement, Zenon
<1>3. {q \in Proc : cur'[q] = x} = U \ {p}
  BY FreeFacts, Zenon DEF ProcTypes
<1>4. \A y \in Buf \ {x} : {q \in Proc : cur'[q] = y} = {q \in Proc : cur[q] = y}
  BY FreeFacts, Zenon DEF ProcTypes
<1> QED
  BY <1>2, <1>3, <1>4, Zenon DEF Refs

\* A step that changes no reference.
LEMMA SameRefs ==
  ASSUME Counted, UNCHANGED <<cur, refcnt, blockno, pins>>
  PROVE  Counted'
BY Zenon DEF Counted, Refs, Pinned

\* Only the count of x changes, by as much as the references to it do.
LEMMA OneCount ==
  ASSUME Counted, NEW x \in Buf, NEW n \in Nat, refcnt' = [refcnt EXCEPT ![x] = n],
         n = Refs(x)' + Pinned(x)',
         \A y \in Buf \ {x} : Refs(y)' = Refs(y) /\ Pinned(y)' = Pinned(y)
  PROVE  Counted'
<1>1. refcnt' \in [Buf -> Nat]
  BY Zenon DEF Counted
<1>2. \A y \in Buf : refcnt'[y] = IF y = x THEN n ELSE refcnt[y]
  BY Zenon DEF Counted
<1>3. ASSUME NEW y \in Buf PROVE refcnt'[y] = Refs(y)' + Pinned(y)'
  BY <1>2, Zenon DEF Counted
<1> QED
  BY <1>1, <1>3, Zenon DEF Counted

\* bget() counts the process it hands the buffer to.
LEMMA bgetCounted ==
  ASSUME IInv, Counted, NEW p \in Proc, NEW b \in Block, bget_hit(p, b) \/ bget_recycle(p, b)
  PROVE  Counted'
<1>1. pc[p] = "idle" /\ cur[p] = Free /\ UNCHANGED pins
  <2>1. pc[p] = "idle" /\ UNCHANGED pins
    BY Zenon DEF bget_hit, bget_recycle, At
  <2> QED
    BY <2>1, Zenon DEF Users
<1>2. CASE bget_hit(p, b)
  <2>1. PICK x \in Buf : /\ refcnt' = [refcnt EXCEPT ![x] = refcnt[x] + 1]
                         /\ cur' = [cur EXCEPT ![p] = x] /\ UNCHANGED blockno
    BY <1>2, Zenon DEF bget_hit, Cached
  <2>2. Refs(x)' = Refs(x) + 1 /\ \A y \in Buf \ {x} : Refs(y)' = Refs(y)
    BY <1>1, <2>1, TakeRef, Zenon
  <2>3. \A y \in Buf : Pinned(y)' = Pinned(y) /\ Pinned(y) \in {0, 1} /\ Refs(y) \in Nat
    BY <1>1, <2>1, UsersFinite, Zenon DEF Pinned
  <2>4. refcnt[x] + 1 \in Nat /\ refcnt[x] + 1 = Refs(x)' + Pinned(x)'
    BY <2>2, <2>3 DEF Counted
  <2> QED
    BY <2>1, <2>2, <2>3, <2>4, OneCount, Zenon
<1>3. CASE bget_recycle(p, b)
  <2>1. PICK x \in Buf : /\ refcnt[x] = 0 /\ refcnt' = [refcnt EXCEPT ![x] = 1]
                         /\ cur' = [cur EXCEPT ![p] = x] /\ blockno' = [blockno EXCEPT ![x] = b]
    BY <1>3, Zenon DEF bget_recycle, Victim
  <2>2. Refs(x)' = Refs(x) + 1 /\ \A y \in Buf \ {x} : Refs(y)' = Refs(y)
    BY <1>1, <2>1, TakeRef, Zenon
  <2>3. Refs(x) = 0
    BY <2>1, Unused, Zenon
  <2>4. blockno'[x] = b /\ \A y \in Buf \ {x} : blockno'[y] = blockno[y]
    BY <2>1, Zenon DEF CacheTypes
  <2>5. b \notin pins
    BY <1>3, Zenon DEF bget_recycle, Cached, OneBuffer
  <2>6. Pinned(x)' = 0 /\ \A y \in Buf \ {x} : Pinned(y)' = Pinned(y)
    BY <1>1, <2>4, <2>5, Zenon DEF Pinned
  <2>7. 1 \in Nat /\ 1 = Refs(x)' + Pinned(x)'
    BY <2>2, <2>3, <2>6
  <2> QED
    BY <2>1, <2>2, <2>6, <2>7, OneCount, Zenon
<1> QED
  BY <1>2, <1>3, Zenon

\* bpin() and bunpin() count the pin.
LEMMA pinCounted ==
  ASSUME IInv, Counted, NEW p \in Proc, bpin(p) \/ bunpin(p)
  PROVE  Counted'
<1>1. pc[p] = "held" /\ UNCHANGED <<blockno, cur>>
  BY Zenon DEF bpin, bunpin, At
<1>2. PICK x \in Buf : x = cur[p] /\ \A y \in Buf \ {x} : blockno[y] # blockno[x]
  BY <1>1, Apart DEF Holding
<1>3. refcnt[x] \in Nat /\ refcnt[x] - 1 \in Nat
  BY <1>2, InUse, Zenon
<1>4. \A y \in Buf : Refs(y)' = Refs(y) /\ Refs(y) \in Nat
  BY <1>1, UsersFinite, Zenon DEF Refs
<1>5. CASE bpin(p)
  <2>1. /\ blockno[x] \notin pins /\ pins' = pins \cup {blockno[x]}
        /\ refcnt' = [refcnt EXCEPT ![x] = refcnt[x] + 1]
    BY <1>2, <1>5, Zenon DEF bpin
  <2>2. Pinned(x) = 0 /\ Pinned(x)' = 1 /\ \A y \in Buf \ {x} : Pinned(y)' = Pinned(y)
    BY <1>1, <1>2, <2>1, Zenon DEF Pinned
  <2>3. refcnt[x] + 1 \in Nat /\ refcnt[x] + 1 = Refs(x)' + Pinned(x)'
    BY <1>3, <1>4, <2>2 DEF Counted
  <2> QED
    BY <1>4, <2>1, <2>2, <2>3, OneCount, Zenon
<1>6. CASE bunpin(p)
  <2>1. /\ blockno[x] \in pins /\ pins' = pins \ {blockno[x]}
        /\ refcnt' = [refcnt EXCEPT ![x] = refcnt[x] - 1]
    BY <1>2, <1>6, Zenon DEF bunpin
  <2>2. Pinned(x) = 1 /\ Pinned(x)' = 0 /\ \A y \in Buf \ {x} : Pinned(y)' = Pinned(y)
    BY <1>1, <1>2, <2>1, Zenon DEF Pinned
  <2>3. refcnt[x] - 1 = Refs(x)' + Pinned(x)'
    BY <1>3, <1>4, <2>2 DEF Counted
  <2> QED
    BY <1>3, <1>4, <2>1, <2>2, <2>3, OneCount, Zenon
<1> QED
  BY <1>5, <1>6, Zenon

\* brelse() does not count the process any more.
LEMMA brelseCounted ==
  ASSUME IInv, Counted, NEW p \in Proc, brelse(p)
  PROVE  Counted'
<1>1. /\ pc[p] = "release" /\ UNCHANGED <<blockno, pins>> /\ cur' = [cur EXCEPT ![p] = Free]
      /\ refcnt' = [refcnt EXCEPT ![cur[p]] = refcnt[cur[p]] - 1]
  BY Zenon DEF brelse, At
<1>2. PICK x \in Buf : x = cur[p]
  BY <1>1, Zenon DEF Users
<1>3. refcnt[x] \in Nat /\ refcnt[x] - 1 \in Nat
  BY <1>2, InUse, Zenon
<1>4. Refs(x)' = Refs(x) - 1 /\ \A y \in Buf \ {x} : Refs(y)' = Refs(y)
  BY <1>1, <1>2, DropRef, Zenon
<1>5. \A y \in Buf : Pinned(y)' = Pinned(y) /\ Pinned(y) \in {0, 1} /\ Refs(y) \in Nat
  BY <1>1, UsersFinite, Zenon DEF Pinned
<1>6. refcnt[x] - 1 = Refs(x)' + Pinned(x)'
  BY <1>3, <1>4, <1>5 DEF Counted
<1> QED
  BY <1>1, <1>2, <1>3, <1>4, <1>5, <1>6, OneCount, Zenon

-----------------------------------------------------------------------------
(* The descriptors are counted, and who waits for some has a waker.        *)

\* Three descriptors per request, the others are free.
DescriptorCount == Cardinality(free) + 3 * Cardinality(Pending) = NUM

\* Who waits for descriptors waits for a request, or for one about to be made.
FreeWakers == FreeSleepers = {} \/ Pending # {} \/ \E q \in Proc : pc[q] \in Starting

\* There are NUM descriptors.
LEMMA DescFacts == Desc \subseteq Nat /\ IsFiniteSet(Desc) /\ Cardinality(Desc) = NUM
<1>1. IsFiniteSet(0 .. NUM - 1) /\ Cardinality(0 .. NUM - 1) = NUM
  BY VirtioAssumption, FS_Interval
<1> QED
  BY <1>1 DEF Desc

\* Free descriptors and requests are finitely many.
LEMMA PendingFinite ==
  ASSUME DriverTypes
  PROVE  /\ IsFiniteSet(Pending) /\ Cardinality(Pending) \in Nat
         /\ IsFiniteSet(free) /\ Cardinality(free) \in Nat
<1>1. Pending \subseteq Proc /\ free \subseteq Desc
  BY Zenon DEF DriverTypes, Pending
<1> QED
  BY <1>1, VirtioAssumption, DescFacts, FS_Subset, FS_CardinalityType, Zenon

\* Three different things.
LEMMA ThreeElements ==
  ASSUME NEW a, NEW b, NEW c, a # b, b # c, a # c
  PROVE  IsFiniteSet({a, b, c}) /\ Cardinality({a, b, c}) = 3
<1>1. IsFiniteSet({a}) /\ Cardinality({a}) = 1
  BY FS_Singleton, Zenon
<1>2. IsFiniteSet({a} \cup {b}) /\ Cardinality({a} \cup {b}) = 2
  BY <1>1, FS_AddElement
<1>3. IsFiniteSet(({a} \cup {b}) \cup {c}) /\ Cardinality(({a} \cup {b}) \cup {c}) = 3
  BY <1>2, FS_AddElement
<1>4. ({a} \cup {b}) \cup {c} = {a, b, c}
  BY Zenon
<1> QED
  BY <1>3, <1>4, Zenon

\* Three of them fewer, or more.
LEMMA ThreeApart ==
  ASSUME NEW S, NEW T, IsFiniteSet(S), IsFiniteSet(T), Cardinality(T) = 3, S \cap T = {}
  PROVE  Cardinality(S \cup T) = Cardinality(S) + 3
<1>1. Cardinality({}) = 0 /\ Cardinality(S) \in Nat
  BY FS_EmptySet, FS_CardinalityType, Zenon
<1> QED
  BY <1>1, FS_Union

\* A step of the driver that begins and ends no request and sends nobody to
\* sleep for descriptors.
Quiet ==
    /\ free' = free /\ Pending' = Pending /\ FreeSleepers' \subseteq FreeSleepers
    /\ \A q \in Proc : pc[q] \in Starting => pc'[q] \in Starting

\* It keeps both.
LEMMA QuietStep ==
  ASSUME DescriptorCount, FreeWakers, Quiet
  PROVE  DescriptorCount' /\ FreeWakers'
BY Zenon DEF DescriptorCount, FreeWakers, Quiet

\* Only p moves, neither to sleep for descriptors nor out of the driver.
LEMMA QuietMove ==
  ASSUME ProcTypes, NEW p \in Proc, NEW l, free' = free, pc' = [pc EXCEPT ![p] = l],
         pc[p] \notin Starting \/ l \in Starting, l \notin {"read_free", "write_free"},
         pc[p] \in {"io", "io_woken"} <=> l \in {"io", "io_woken"}
  PROVE  Quiet
<1>1. pc'[p] = l /\ \A q \in Proc : q # p => pc'[q] = pc[q]
  BY Zenon DEF ProcTypes
<1> QED
  BY <1>1, Zenon DEF Quiet, Pending, FreeSleepers

\* A request begins.
LEMMA submitCount ==
  ASSUME IInv, DescriptorCount, NEW p \in Proc, submit(p, blockno[cur[p]])
  PROVE  DescriptorCount' /\ FreeWakers'
<1>1. PICK i0, i1, i2 \in free : i0 < i1 /\ i1 < i2 /\ free' = free \ {i0, i1, i2}
  BY Zenon DEF submit
<1>2. free \subseteq Desc /\ {i0, i1, i2} \subseteq Desc
  BY Zenon DEF DriverTypes
<1>3. IsFiniteSet({i0, i1, i2}) /\ Cardinality({i0, i1, i2}) = 3
  <2>1. i0 \in Nat /\ i1 \in Nat /\ i2 \in Nat
    BY <1>2, DescFacts, Zenon
  <2>2. i0 # i1 /\ i1 # i2 /\ i0 # i2
    BY <1>1, <2>1
  <2> QED
    BY <2>2, ThreeElements, Zenon
<1>4. IsFiniteSet(free') /\ free' \cap {i0, i1, i2} = {} /\ free = free' \cup {i0, i1, i2}
  BY <1>1, PendingFinite, FS_Subset, Zenon
<1>5. Cardinality(free) = Cardinality(free') + 3 /\ Cardinality(free') \in Nat
  BY <1>3, <1>4, ThreeApart, FS_CardinalityType, Zenon
<1>6. pc[p] \in Starting /\ pc'[p] = "io" /\ \A q \in Proc : q # p => pc'[q] = pc[q]
  BY Zenon DEF submit, ProcTypes
<1>7. Pending' = Pending \cup {p} /\ p \notin Pending
  BY <1>6, Zenon DEF Pending, Starting
<1>8. Cardinality(Pending') = Cardinality(Pending) + 1 /\ Cardinality(Pending) \in Nat
  BY <1>7, PendingFinite, FS_AddElement, Zenon
<1>9. DescriptorCount'
  BY <1>5, <1>8 DEF DescriptorCount
<1> QED
  BY <1>7, <1>9, Zenon DEF FreeWakers

\* What free_chain() frees are the three descriptors of the request.
LEMMA ChainParts ==
  ASSUME NEW p, Request(p)
  PROVE  /\ Chain(head[p]) = Parts(p) /\ Parts(p) \cap free = {}
         /\ IsFiniteSet(Parts(p)) /\ Cardinality(Parts(p)) = 3
<1>1. /\ head[p] # next[head[p]] /\ next[head[p]] # next[next[head[p]]]
      /\ head[p] # next[next[head[p]]] /\ next[head[p]] # Free /\ next[next[head[p]]] # Free
      /\ Parts(p) \cap free = {}
  BY FreeFacts, Zenon DEF Request, Parts
<1>2. IsFiniteSet(Parts(p)) /\ Cardinality(Parts(p)) = 3
  BY <1>1, ThreeElements, Zenon DEF Parts
<1> QED
  BY <1>1, <1>2, Zenon DEF Chain, Parts

\* A request ends.
LEMMA finishCount ==
  ASSUME IInv, DescriptorCount, NEW p \in Proc, finish(p)
  PROVE  DescriptorCount' /\ FreeWakers'
<1>1. /\ pc[p] = "io_woken" /\ free' = free \cup Chain(head[p])
      /\ pc' = [r \in Proc |-> IF r = p THEN "held"
                               ELSE IF r \in FreeSleepers THEN Woken(pc[r]) ELSE pc[r]]
  BY Zenon DEF finish, Return, WakeAndGoto
<1>2. p \in Pending /\ Request(p)
  BY <1>1, Zenon DEF Pending, Requests
<1>3. Cardinality(free') = Cardinality(free) + 3
  BY <1>1, <1>2, ChainParts, PendingFinite, ThreeApart, Zenon
<1>4. /\ pc'[p] = "held"
      /\ \A r \in Proc : r # p /\ r \notin FreeSleepers => pc'[r] = pc[r]
      /\ \A r \in FreeSleepers : pc'[r] \in Starting
  BY <1>1, Zenon DEF FreeSleepers, Woken, Starting
<1>5. Pending' = Pending \ {p} /\ FreeSleepers' = {}
  BY <1>4, Zenon DEF Pending, FreeSleepers, Starting
<1>6. Cardinality(Pending') = Cardinality(Pending) - 1
  BY <1>2, <1>5, PendingFinite, FS_RemoveElement, Zenon
<1>7. DescriptorCount'
  BY <1>3, <1>6, PendingFinite DEF DescriptorCount
<1> QED
  BY <1>5, <1>7, Zenon DEF FreeWakers

\* Who finds fewer than three descriptors finds a request that has the others.
LEMMA alloc3_failsCount ==
  ASSUME IInv, DescriptorCount, NEW p \in Proc, alloc3_fails(p)
  PROVE  DescriptorCount' /\ FreeWakers'
<1>1. free' = free /\ Cardinality(free) < 3 /\ pc[p] \in Starting
  BY Zenon DEF alloc3_fails, ioVars
<1>2. Cardinality(Pending) # 0
  BY <1>1, PendingFinite, VirtioAssumption DEF DescriptorCount
<1>3. Pending # {}
  BY <1>2, FS_EmptySet, Zenon
<1>4. /\ pc'[p] \in {"read_free", "write_free"}
      /\ \A q \in Proc : q # p => \/ pc'[q] = pc[q]
                                  \/ pc[q] = "read_free" /\ pc'[q] = "read"
                                  \/ pc[q] = "write_free" /\ pc'[q] = "write"
  BY Zenon DEF alloc3_fails, WakeAndGoto, FreeSleepers, Woken
<1>5. Pending' = Pending
  BY <1>1, <1>4, Zenon DEF Pending, Starting
<1> QED
  BY <1>1, <1>3, <1>5, Zenon DEF DescriptorCount, FreeWakers

-----------------------------------------------------------------------------
(* The invariant, and what follows from it.                                *)

\* The whole invariant: what it says of each process, buffer and request, and
\* the three things that are counted.
FullInv == IInv /\ Counted /\ DescriptorCount /\ FreeWakers

\* The initial states satisfy it.
LEMMA InitFullInv == Init => FullInv
<1> SUFFICES ASSUME Init PROVE FullInv
  BY Zenon
<1> USE DEF Init, VirtioInit
<1>1. DriverTypes /\ RingTypes /\ BlockTypes /\ CacheTypes /\ ProcTypes
  BY DEF DriverTypes, RingTypes, BlockTypes, CacheTypes, ProcTypes, Location
<1>2. Pending = {} /\ FreeSleepers = {}
  BY Zenon DEF Pending, FreeSleepers
<1>3. Users /\ Locks /\ OneBuffer /\ Valid /\ Backed
  BY DEF Users, Locks, OneBuffer, Valid, Backed, Holding
<1>4. Entries(avail) = {} /\ Entries(used) = {} /\ Distinct(avail) /\ Distinct(used)
  BY DEF Entries, Distinct
<1>5. Rings /\ Busy /\ Requests /\ Done /\ Announced
  BY <1>2, <1>4, Zenon DEF Rings, Busy, Handed, Requests, Done, Announced
<1>6. Counted
  <2>1. \A x \in Buf : {p \in Proc : cur[p] = x} = {}
    BY FreeFacts, Zenon
  <2>2. \A x \in Buf : Refs(x) = 0
    BY <2>1, FS_EmptySet, Zenon DEF Refs
  <2> QED
    BY <2>2 DEF Counted, Pinned
<1>7. DescriptorCount
  BY <1>2, DescFacts, FS_EmptySet, VirtioAssumption DEF DescriptorCount
<1> HIDE DEF Init, VirtioInit
<1> QED
  BY <1>1, <1>2, <1>3, <1>5, <1>6, <1>7, Zenon DEF FullInv, FreeWakers

\* Whatever happens to the requests, every step preserves IInv.
LEMMA NextIInv ==
  ASSUME IInv, Counted, [Next]_vars
  PROVE  IInv'
<1> HIDE DEF IInv
<1>1. CASE UNCHANGED vars
  BY <1>1, StutterStep, Zenon DEF vars, bufs
<1>2. ASSUME NEW p \in Proc, NEW b \in Block, bget(p, b) PROVE IInv'
  <2>1. CASE bget_recycle(p, b)
    BY <2>1, Unused, bget_recycleStep, Zenon
  <2>2. CASE bget_hit(p, b) \/ bget_panic(p, b)
    BY <2>2, bget_hitStep, StutterStep, Zenon DEF bget_panic
  <2> QED
    BY <1>2, <2>1, <2>2, Zenon DEF bget
<1>3. ASSUME NEW p \in Proc, rw(p) PROVE IInv'
  <2>1. UNCHANGED <<lru, blockno, refcnt, locked, pins>>
    BY <1>3, Zenon DEF rw
  <2>2. CASE UNCHANGED valid /\ (alloc3_fails(p) \/ wait_again(p))
    BY <2>1, <2>2, alloc3_failsStep, wait_againStep, Zenon DEF bufs
  <2>3. CASE UNCHANGED valid /\ submit(p, blockno[cur[p]])
    BY <2>1, <2>3, submitStep, Zenon
  <2>4. CASE finish(p) /\ valid' = [valid EXCEPT ![cur[p]] = 1]
    BY <2>1, <2>4, finishStep, Zenon
  <2> QED
    BY <1>3, <2>2, <2>3, <2>4, Zenon DEF rw
<1>4. ASSUME NEW p \in Proc, acquiresleep(p) \/ bread(p) \/ bwrite(p) \/ bpin(p) \/ bunpin(p)
                              \/ releasesleep(p) \/ brelse(p)
      PROVE  IInv'
  BY <1>4, acquiresleepStep, breadStep, bwriteStep, bpinStep, releasesleepStep, brelseStep, Zenon
<1>5. ASSUME NEW p \in Proc, NEW v \in Data, modify(p, v) PROVE IInv'
  BY <1>5, modifyStep, Zenon
<1>6. CASE /\ Device \/ Interrupt \/ \E p \in Proc : kill(p)
           /\ UNCHANGED <<bufs, locked, pins, panicked>>
  <2>1. UNCHANGED <<bufs, locked, pins>>
    BY <1>6, Zenon
  <2> QED
    BY <1>6, <2>1, dev_takeStep, dev_finishStep, intr_beginStep, intr_nextStep, intr_endStep,
       killStep, Zenon DEF Device, Interrupt
<1> QED
  BY <1>1, <1>2, <1>3, <1>4, <1>5, <1>6, Zenon DEF Next

\* Every step counts the references it changes.
LEMMA NextCounted ==
  ASSUME IInv, Counted, [Next]_vars
  PROVE  Counted'
<1> HIDE DEF IInv
<1>1. CASE UNCHANGED vars
  BY <1>1, SameRefs, Zenon DEF vars
<1>2. ASSUME NEW p \in Proc, NEW b \in Block, bget(p, b) PROVE Counted'
  BY <1>2, bgetCounted, SameRefs, Zenon DEF bget, bget_panic, bufs
<1>3. ASSUME NEW p \in Proc, rw(p) PROVE Counted'
  <2>1. UNCHANGED <<refcnt, blockno, pins>> /\ UNCHANGED cur
    BY <1>3, Zenon DEF rw, alloc3_fails, submit, wait_again, finish, Return
  <2> QED
    BY <2>1, SameRefs, Zenon
<1>4. ASSUME NEW p \in Proc, bpin(p) \/ bunpin(p) \/ brelse(p)
      PROVE  Counted'
  BY <1>4, pinCounted, brelseCounted, Zenon
<1>5. ASSUME NEW p \in Proc, acquiresleep(p) \/ bread(p) \/ bwrite(p) \/ releasesleep(p)
                              \/ \E v \in Data : modify(p, v)
      PROVE  Counted'
  <2>1. UNCHANGED <<bufs, pins, cur>>
    BY <1>5, Zenon DEF acquiresleep, bread, bwrite, releasesleep, modify
  <2> QED
    BY <2>1, SameRefs, Zenon DEF bufs
<1>6. CASE /\ Device \/ Interrupt \/ \E p \in Proc : kill(p)
           /\ UNCHANGED <<bufs, locked, pins, panicked>>
  <2>1. UNCHANGED cur
    BY <1>6, Zenon
       DEF Device, dev_take, dev_finish, Interrupt, intr_begin, intr_next, intr_end, kill
  <2> QED
    BY <1>6, <2>1, SameRefs, Zenon DEF bufs
<1> QED
  BY <1>1, <1>2, <1>3, <1>4, <1>5, <1>6, Zenon DEF Next

\* Every step counts the descriptors, and leaves no sleeper without a waker.
LEMMA NextDescriptors ==
  ASSUME IInv, DescriptorCount, FreeWakers, [Next]_vars
  PROVE  DescriptorCount' /\ FreeWakers'
<1>1. ProcTypes
  BY Zenon
<1>2. ASSUME UNCHANGED free, UNCHANGED pc PROVE Quiet
  BY <1>2, Zenon DEF Quiet, Pending, FreeSleepers
<1> HIDE DEF IInv
<1>3. CASE UNCHANGED vars
  BY <1>2, <1>3, QuietStep, Zenon DEF vars, ioVars
<1>4. ASSUME NEW p \in Proc, NEW b \in Block, bget(p, b) PROVE Quiet
  <2>1. CASE bget_panic(p, b)
    BY <1>2, <2>1, Zenon DEF bget_panic, ioVars
  <2>2. CASE bget_hit(p, b) \/ bget_recycle(p, b)
    <3>1. pc[p] = "idle" /\ pc' = [pc EXCEPT ![p] = "lock"] /\ free' = free
      BY <2>2, Zenon DEF bget_hit, bget_recycle, At, Goto, ioVars
    <3> QED
      BY <1>1, <3>1, QuietMove, Zenon DEF Starting
  <2> QED
    BY <1>4, <2>1, <2>2, Zenon DEF bget
<1>5. ASSUME NEW p \in Proc, rw(p) PROVE DescriptorCount' /\ FreeWakers'
  <2>1. CASE wait_again(p)
    <3>1. pc[p] = "io_woken" /\ pc' = [pc EXCEPT ![p] = "io"] /\ free' = free
      BY <2>1, Zenon DEF wait_again, ioVars
    <3>2. Quiet
      BY <1>1, <3>1, QuietMove, Zenon DEF Starting
    <3> QED
      BY <3>2, QuietStep, Zenon
  <2> QED
    BY <1>5, <2>1, submitCount, finishCount, alloc3_failsCount, Zenon DEF rw
<1>6. ASSUME NEW p \in Proc, acquiresleep(p) \/ bread(p) \/ bwrite(p) \/ brelse(p) PROVE Quiet
  <2>1. free' = free
    BY <1>6, Zenon DEF acquiresleep, bread, bwrite, brelse, ioVars
  <2>2. PICK l \in {"fill", "asleep", "held", "read", "write", "idle"} :
          pc' = [pc EXCEPT ![p] = l] /\ pc[p] \in {"lock", "fill", "held", "release"}
    BY <1>6, Zenon DEF acquiresleep, bread, bwrite, brelse, At, Goto
  <2> QED
    BY <1>1, <2>1, <2>2, QuietMove, Zenon DEF Starting
<1>7. ASSUME NEW p \in Proc, releasesleep(p) PROVE Quiet
  <2>1. /\ pc[p] = "held" /\ free' = free
        /\ pc' = [r \in Proc |-> IF r = p THEN "release"
                                 ELSE IF r \in LockSleepers(cur[p]) THEN Woken(pc[r]) ELSE pc[r]]
    BY <1>7, Zenon DEF releasesleep, WakeAndGoto, At, ioVars
  <2>2. \A r \in Proc : \/ pc'[r] = pc[r]
                        \/ pc[r] = "asleep" /\ pc'[r] = "lock"
                        \/ pc[r] = "held" /\ pc'[r] = "release"
    BY <2>1, Zenon DEF LockSleepers, Woken
  <2> QED
    BY <2>1, <2>2, Zenon DEF Quiet, Pending, FreeSleepers, Starting
<1>8. ASSUME NEW p \in Proc, bpin(p) \/ bunpin(p) \/ \E v \in Data : modify(p, v) PROVE Quiet
  <2>1. UNCHANGED free /\ UNCHANGED pc
    BY <1>8, Zenon DEF bpin, bunpin, modify, ioVars, driver
  <2> QED
    BY <1>2, <2>1, Zenon
<1>9. CASE Device \/ Interrupt \/ \E p \in Proc : kill(p)
  <2>1. free' = free
    BY <1>9, Zenon DEF Device, dev_take, dev_finish, Interrupt, intr_begin, intr_next, intr_end,
       kill, driver, ioVars
  <2>2. \A r \in Proc : \/ pc'[r] = pc[r]
                        \/ pc[r] = "asleep" /\ pc'[r] = "lock"
                        \/ pc[r] = "io" /\ pc'[r] = "io_woken"
                        \/ pc[r] = "read_free" /\ pc'[r] = "read"
                        \/ pc[r] = "write_free" /\ pc'[r] = "write"
    <3>1. CASE Device \/ intr_begin \/ intr_end
      <4>1. UNCHANGED pc
        BY <3>1, Zenon DEF Device, dev_take, dev_finish, intr_begin, intr_end
      <4> QED
        BY <4>1, Zenon
    <3>2. CASE intr_next
      <4>1. \A r \in Proc : pc'[r] = pc[r] \/ (pc[r] = "io" /\ pc'[r] = Woken(pc[r]))
        BY <3>2, Zenon DEF intr_next, BufSleepers
      <4>2. Woken("io") = "io_woken"
        BY Zenon DEF Woken
      <4> QED
        BY <4>1, <4>2, Zenon
    <3>3. ASSUME NEW p \in Proc, kill(p)
          PROVE  \A r \in Proc : \/ pc'[r] = pc[r]
                                 \/ pc[r] = "asleep" /\ pc'[r] = "lock"
                                 \/ pc[r] = "io" /\ pc'[r] = "io_woken"
                                 \/ pc[r] = "read_free" /\ pc'[r] = "read"
                                 \/ pc[r] = "write_free" /\ pc'[r] = "write"
      <4>1. \/ pc[p] = "read_free" /\ pc' = [pc EXCEPT ![p] = "read"]
            \/ pc[p] = "write_free" /\ pc' = [pc EXCEPT ![p] = "write"]
            \/ pc[p] = "io" /\ pc' = [pc EXCEPT ![p] = "io_woken"]
            \/ pc[p] = "asleep" /\ pc' = [pc EXCEPT ![p] = "lock"]
        BY <3>3, Zenon DEF kill, Woken
      <4> QED
        BY <1>1, <4>1, Zenon DEF ProcTypes
    <3> QED
      BY <1>9, <3>1, <3>2, <3>3, Zenon DEF Interrupt
  <2>3. Quiet
    BY <2>1, <2>2, Zenon DEF Quiet, Pending, FreeSleepers, Starting
  <2> QED
    BY <2>3, QuietStep, Zenon
<1> QED
  BY <1>3, <1>4, <1>5, <1>6, <1>7, <1>8, <1>9, QuietStep, Zenon DEF Next

\* The inductive invariant holds.
THEOREM Invariance == Spec => []FullInv
<1>1. FullInv /\ [Next]_vars => FullInv'
  BY NextIInv, NextCounted, NextDescriptors, Zenon DEF FullInv
<1> QED
  BY <1>1, InitFullInv, PTL DEF Spec

\* refcnt is the number of processes that have or await the buffer, plus the pin,
\* so that bget() recycles no buffer in use (bio.c:58).
THEOREM RefcntExactHolds == Spec => []RefcntExact
<1>1. FullInv => RefcntExact
  BY Zenon DEF FullInv, Counted, Refs, Pinned, RefcntExact
<1> QED
  BY <1>1, Invariance, PTL

\* No descriptor is lost or in two requests (virtio_disk.c:156).
THEOREM DescriptorsAccountedHolds == Spec => []DescriptorsAccounted
<1>1. FullInv => DescriptorsAccounted
  <2> SUFFICES ASSUME FullInv PROVE DescriptorsAccounted
    BY Zenon
  <2>1. ASSUME NEW p \in Pending
        PROVE  /\ Chain(head[p]) = Parts(p) /\ Parts(p) \cap free = {}
               /\ Cardinality(Parts(p)) = 3
    <3>1. Request(p)
      BY Zenon DEF FullInv, Requests
    <3> QED
      BY <3>1, ChainParts, Zenon
  <2>2. \A p, q \in Pending : p # q => Chain(head[p]) \cap Chain(head[q]) = {}
    BY <2>1, Zenon DEF FullInv, Requests
  <2> QED
    BY <2>1, <2>2, Zenon DEF FullInv, DescriptorCount, DescriptorsAccounted
<1> QED
  BY <1>1, Invariance, PTL

\* Whoever sleeps for a buffer, for the disk or for descriptors has somebody who
\* will wake it (sleeplock.c:25, virtio_disk.c:230, 284).
THEOREM SleeperHasWakerHolds == Spec => []SleeperHasWaker
<1>1. FullInv => SleeperHasWaker
  <2> SUFFICES ASSUME FullInv, NEW p \in Proc
               PROVE  /\ pc[p] = "asleep" => locked[cur[p]] \notin {Free, p}
                      /\ pc[p] = "io" => RequestUnderWay(p)
                      /\ p \in FreeSleepers => Pending # {} \/ \E q \in Proc : pc[q] \in Starting
    BY Zenon DEF SleeperHasWaker
  <2>1. ASSUME pc[p] = "asleep" PROVE locked[cur[p]] \notin {Free, p}
    <3>1. cur[p] \in Buf /\ locked[cur[p]] # Free
      BY <2>1, Zenon DEF FullInv, Users, Locks
    <3>2. locked[cur[p]] = p => pc[p] \in Holding
      BY <3>1, Zenon DEF FullInv, Locks
    <3> QED
      BY <2>1, <3>1, <3>2, Zenon DEF Holding
  <2>2. ASSUME pc[p] = "io" PROVE RequestUnderWay(p)
    <3>1. head[p] \in Handed
      BY <2>1, <2>2, Zenon DEF FullInv, Busy, Pending
    <3>2. head[p] \in Entries(used) => used # <<>>
      BY DEF Entries
    <3> QED
      BY <3>1, <3>2, Zenon DEF FullInv, Announced, Handed, RequestUnderWay
  <2> QED
    BY <2>1, <2>2, Zenon DEF FullInv, FreeWakers
<1> QED
  BY <1>1, Invariance, PTL

\* A process leaves virtio_disk_rw() only when the disk and the buffer agree
\* (virtio_disk.c:283).
LEMMA ReturnClean ==
  ASSUME IInv, [Next]_vars, NEW p \in Proc, pc[p] = "io_woken", pc'[p] = "held"
  PROVE  data'[cur[p]] = disk'[blockno[cur[p]]]
<1>1. finish(p)
  <2>1. ASSUME NEW q \in Proc, NEW l, pc' = [pc EXCEPT ![q] = l], l # "held" \/ pc[q] # "io_woken"
        PROVE  FALSE
    BY <2>1, Zenon DEF ProcTypes
  <2>2. ASSUME UNCHANGED pc PROVE FALSE
    BY <2>2, Zenon
  <2> HIDE DEF IInv
  <2>3. ~UNCHANGED vars
    BY <2>2, Zenon DEF vars
  <2>4. ASSUME NEW q \in Proc, NEW b \in Block, bget(q, b) PROVE FALSE
    BY <2>1, <2>2, <2>4, Zenon DEF bget, bget_hit, bget_recycle, bget_panic, Goto
  <2>5. ASSUME NEW q \in Proc, acquiresleep(q) \/ bwrite(q) \/ brelse(q) PROVE FALSE
    BY <2>1, <2>5, Zenon DEF acquiresleep, bwrite, brelse, Goto
  <2>6. ASSUME NEW q \in Proc, bread(q) PROVE FALSE
    BY <2>1, <2>6, Zenon DEF bread, Goto, At
  <2>7. ASSUME NEW q \in Proc, bpin(q) \/ bunpin(q) \/ \E v \in Data : modify(q, v) PROVE FALSE
    BY <2>2, <2>7, Zenon DEF bpin, bunpin, modify
  <2>8. ASSUME NEW q \in Proc, releasesleep(q) PROVE FALSE
    BY <2>8, Zenon DEF releasesleep, WakeAndGoto, LockSleepers
  <2>9. ~(Device \/ Interrupt)
    <3>1. ~(Device \/ intr_begin \/ intr_end)
      BY <2>2, Zenon DEF Device, dev_take, dev_finish, intr_begin, intr_end
    <3>2. ~intr_next
      BY Zenon DEF intr_next, BufSleepers
    <3> QED
      BY <3>1, <3>2, Zenon DEF Interrupt
  <2>10. ASSUME NEW q \in Proc, kill(q) PROVE FALSE
    <3>1. Woken(pc[q]) # "held" \/ pc[q] = "held"
      BY Zenon DEF Woken
    <3> QED
      BY <2>1, <2>10, <3>1, Zenon DEF kill
  <2>11. ASSUME NEW q \in Proc, rw(q) PROVE finish(p)
    <3>1. ~(submit(q, blockno[cur[q]]) \/ wait_again(q))
      BY <2>1, Zenon DEF submit, wait_again
    <3>2. ~alloc3_fails(q)
      BY Zenon DEF alloc3_fails, WakeAndGoto, FreeSleepers
    <3>3. finish(q)
      BY <2>11, <3>1, <3>2, Zenon DEF rw
    <3>4. q = p
      BY <3>3, Zenon DEF finish, Return, WakeAndGoto, FreeSleepers
    <3> QED
      BY <3>3, <3>4, Zenon
  <2> QED
    BY <2>3, <2>4, <2>5, <2>6, <2>7, <2>8, <2>9, <2>10, <2>11, Zenon DEF Next
<1>2. busy[cur[p]] = 0 /\ UNCHANGED <<data, disk>>
  BY <1>1, Zenon DEF finish, Return
<1>3. Clean(cur[p])
  BY <1>2, Zenon DEF Done, Pending
<1> QED
  BY <1>2, <1>3, Zenon DEF Clean

\* The same as an action property of every behaviour.
THEOREM IoTakesEffectHolds == Spec => IoTakesEffect
<1>1. FullInv /\ [Next]_vars =>
        [\A p \in Proc : pc[p] = "io_woken" /\ pc'[p] = "held" =>
            data'[cur[p]] = disk'[blockno[cur[p]]]]_vars
  <2> HIDE DEF IInv
  <2> QED
    BY ReturnClean, Zenon DEF FullInv
<1> QED
  BY <1>1, Invariance, PTL DEF Spec, IoTakesEffect

-----------------------------------------------------------------------------
(* The cache implements BlockStore.                                        *)

\* What store and holder are: those of the valid buffer, or the disk's.
Mapped ==
    \A b \in Block :
        /\ \A x \in Buf : blockno[x] = b /\ valid[x] = 1 =>
              store[b] = data[x] /\ holder[b] = locked[x]
        /\ (\A x \in Buf : blockno[x] = b => valid[x] # 1) =>
              store[b] = disk[b] /\ holder[b] = Free

\* At most one buffer has the block, so that CHOOSE has no choice.
LEMMA MappedHolds == IInv => Mapped
<1> SUFFICES ASSUME IInv, NEW b \in Block
             PROVE  /\ \A x \in Buf : blockno[x] = b /\ valid[x] = 1 =>
                          store[b] = data[x] /\ holder[b] = locked[x]
                    /\ (\A x \in Buf : blockno[x] = b => valid[x] # 1) =>
                          store[b] = disk[b] /\ holder[b] = Free
  BY Zenon DEF Mapped
<1>1. ASSUME NEW x \in Buf, blockno[x] = b, valid[x] = 1
      PROVE  store[b] = data[x] /\ holder[b] = locked[x]
  <2>1. \A y \in Buf : blockno[y] = b => y = x
    BY <1>1, FreeFacts, Zenon DEF OneBuffer
  <2>2. x \in Cached(b) /\ (CHOOSE y \in Cached(b) : valid[y] = 1) = x
    BY <1>1, <2>1, Zenon DEF Cached
  <2> QED
    BY <1>1, <2>2, Zenon DEF store, holder
<1>2. ASSUME \A x \in Buf : blockno[x] = b => valid[x] # 1
      PROVE  store[b] = disk[b] /\ holder[b] = Free
  <2>1. ~ \E x \in Cached(b) : valid[x] = 1
    BY <1>2, Zenon DEF Cached
  <2> QED
    BY <2>1, Zenon DEF store, holder
<1> QED
  BY <1>1, <1>2, Zenon

\* The mapping is the same before and after a step.
LEMMA MappedNext == FullInv /\ [Next]_vars => Mapped /\ Mapped'
<1>1. IInv => Mapped
  BY MappedHolds, Zenon
<1>2. IInv' => Mapped'
  BY MappedHolds, PTL
<1>3. FullInv /\ [Next]_vars => IInv /\ IInv'
  BY NextIInv, Zenon DEF FullInv
<1> QED
  BY <1>1, <1>2, <1>3, Zenon

\* store and holder are functions on Block.
LEMMA StoreIsFunction == store = [b \in Block |-> store[b]] /\ holder = [b \in Block |-> holder[b]]
BY Zenon DEF store, holder

\* The same of the next state.
LEMMA StoreIsFunctionNext ==
  store' = [b \in Block |-> store'[b]] /\ holder' = [b \in Block |-> holder'[b]]
BY Zenon DEF store, holder

\* Initially every block is as on the disk, and nobody's.
LEMMA InitRefines == Init => BS!Init
<1> SUFFICES ASSUME Init PROVE BS!Init
  BY Zenon
<1>1. Mapped
  BY InitFullInv, MappedHolds, Zenon DEF FullInv
<1>2. \A b \in Block : store[b] = disk[b] /\ holder[b] = Free
  BY <1>1 DEF Init, Mapped
<1>3. disk \in [Block -> Data]
  BY Zenon DEF Init, VirtioInit
<1> QED
  BY <1>2, <1>3, StoreIsFunction, Zenon DEF BS!Init

\* A step that leaves the valid buffers and what they shadow as they are.
LEMMA StepStutters ==
  ASSUME Mapped, Mapped',
         \A b \in Block : store'[b] = store[b] /\ holder'[b] = holder[b]
  PROVE  UNCHANGED <<store, holder>>
BY StoreIsFunction, StoreIsFunctionNext, Zenon

\* Nothing the mapping reads changes.
LEMMA SameStore ==
  ASSUME UNCHANGED <<blockno, valid, data, disk, locked>>
  PROVE  UNCHANGED <<store, holder>>
BY Zenon DEF store, holder, Cached

\* A recycled buffer was clean, and the block it is to hold is still on the disk.
LEMMA RecycleRefines ==
  ASSUME FullInv, Mapped, Mapped', NEW p \in Proc, NEW b \in Block, bget_recycle(p, b)
  PROVE  UNCHANGED <<store, holder>>
<1>1. PICK x \in Buf :
        /\ blockno' = [blockno EXCEPT ![x] = b] /\ valid' = [valid EXCEPT ![x] = 0]
        /\ UNCHANGED <<data, disk, locked>> /\ locked[x] = Free /\ blockno[x] \notin pins
        /\ \A y \in Buf : blockno[y] # b
  <2>1. PICK x \in Buf : /\ blockno' = [blockno EXCEPT ![x] = b] /\ valid' = [valid EXCEPT ![x] = 0]
                         /\ refcnt[x] = 0
    BY Zenon DEF bget_recycle, Victim
  <2>2. blockno[x] \notin pins /\ \A q \in Proc : cur[q] # x
    BY <2>1, Unused, Zenon DEF FullInv
  <2>3. locked[x] = Free
    BY <2>2 DEF FullInv, Locks, CacheTypes
  <2>4. UNCHANGED <<data, disk, locked>> /\ \A y \in Buf : blockno[y] # b
    BY Zenon DEF bget_recycle, Cached, ioVars
  <2> QED
    BY <2>1, <2>2, <2>3, <2>4, Zenon
<1>2. /\ blockno'[x] = b /\ valid'[x] = 0
      /\ \A y \in Buf : y # x => blockno'[y] = blockno[y] /\ valid'[y] = valid[y]
  BY <1>1, Zenon DEF FullInv, CacheTypes
<1>3. ASSUME NEW c \in Block PROVE store'[c] = store[c] /\ holder'[c] = holder[c]
  <2>1. CASE \E y \in Buf \ {x} : blockno[y] = c /\ valid[y] = 1
    BY <1>1, <1>2, <2>1 DEF Mapped
  <2>2. CASE \A y \in Buf \ {x} : blockno[y] = c => valid[y] # 1
    <3>1. store'[c] = disk[c] /\ holder'[c] = Free
      BY <1>1, <1>2, <2>2 DEF Mapped
    <3>2. CASE blockno[x] = c /\ valid[x] = 1
      BY <1>1, <3>1, <3>2 DEF FullInv, Mapped, Backed, Clean
    <3>3. CASE ~(blockno[x] = c /\ valid[x] = 1)
      BY <1>1, <2>2, <3>1, <3>3 DEF Mapped
    <3> QED
      BY <3>2, <3>3, Zenon
  <2> QED
    BY <2>1, <2>2, Zenon
<1> QED
  BY <1>3, StepStutters, Zenon

\* A lock on a valid buffer is the block; one on an invalid buffer is not yet.
LEMMA AcquireRefines ==
  ASSUME IInv, Mapped, Mapped', NEW p \in Proc, acquiresleep(p)
  PROVE  BS!Next \/ UNCHANGED <<store, holder>>
<1>1. PICK x \in Buf : /\ x = cur[p] /\ blockno[x] \in Block
                       /\ UNCHANGED <<blockno, valid, data, disk>>
  BY Zenon DEF acquiresleep, At, Users, bufs, ioVars
<1>2. CASE locked' = locked
  BY <1>1, <1>2, SameStore, Zenon
<1>3. CASE locked[x] = Free /\ locked' = [locked EXCEPT ![x] = p]
  <2>1. locked'[x] = p /\ \A y \in Buf : y # x => locked'[y] = locked[y]
    BY <1>3, Zenon DEF CacheTypes
  <2>2. ASSUME NEW c \in Block, c # blockno[x] \/ valid[x] # 1
        PROVE  store'[c] = store[c] /\ holder'[c] = holder[c]
    BY <1>1, <2>1, <2>2 DEF Mapped
  <2>3. CASE valid[x] = 1
    <3> DEFINE b == blockno[x]
    <3>1. /\ b \in Block /\ holder[b] = Free /\ holder'[b] = p /\ store'[b] = store[b]
          /\ \A c \in Block : c # b => store'[c] = store[c] /\ holder'[c] = holder[c]
      BY <1>1, <1>3, <2>1, <2>2, <2>3 DEF Mapped
    <3> HIDE DEF b
    <3>2. BS!Take(p, b)
      BY <3>1, StoreIsFunction, StoreIsFunctionNext, Zenon DEF BS!Take
    <3> QED
      BY <3>1, <3>2, Zenon DEF BS!Next
  <2>4. CASE valid[x] # 1
    BY <2>2, <2>4, StepStutters, Zenon
  <2> QED
    BY <2>3, <2>4, Zenon
<1> QED
  BY <1>1, <1>2, <1>3, Zenon DEF acquiresleep

\* The block is given back.
LEMMA ReleaseRefines ==
  ASSUME IInv, Mapped, Mapped', NEW p \in Proc, releasesleep(p)
  PROVE  BS!Next
<1>1. PICK x \in Buf :
        /\ x = cur[p] /\ blockno[x] \in Block /\ UNCHANGED <<blockno, valid, data, disk>>
        /\ valid[x] = 1 /\ locked[x] = p /\ locked' = [locked EXCEPT ![x] = Free]
  <2>1. pc[p] = "held" /\ UNCHANGED <<blockno, valid, data, disk>>
    BY Zenon DEF releasesleep, At, bufs, ioVars
  <2>2. cur[p] \in Buf /\ blockno[cur[p]] \in Block
    BY <2>1, Apart, Zenon DEF Holding
  <2>3. valid[cur[p]] = 1 /\ locked[cur[p]] = p
    BY <2>1, Zenon DEF Valid, Locks, Holding
  <2> QED
    BY <2>1, <2>2, <2>3, Zenon DEF releasesleep
<1>2. locked'[x] = Free /\ \A y \in Buf : y # x => locked'[y] = locked[y]
  BY <1>1, Zenon DEF CacheTypes
<1> DEFINE b == blockno[x]
<1>3. /\ b \in Block /\ holder[b] = p /\ holder'[b] = Free /\ store'[b] = store[b]
      /\ \A c \in Block : c # b => store'[c] = store[c] /\ holder'[c] = holder[c]
  BY <1>1, <1>2 DEF Mapped
<1> HIDE DEF b
<1>4. BS!Give(p, b)
  BY <1>3, StoreIsFunction, StoreIsFunctionNext, Zenon DEF BS!Give
<1> QED
  BY <1>3, <1>4, Zenon DEF BS!Next

\* The holder stores a new value.
LEMMA ModifyRefines ==
  ASSUME IInv, Mapped, Mapped', NEW p \in Proc, NEW v \in Data, modify(p, v)
  PROVE  BS!Next
<1>1. PICK x \in Buf :
        /\ x = cur[p] /\ blockno[x] \in Block /\ UNCHANGED <<blockno, valid, locked, disk>>
        /\ valid[x] = 1 /\ locked[x] = p /\ data' = [data EXCEPT ![x] = v]
  <2>1. pc[p] = "held" /\ UNCHANGED <<blockno, valid, locked, disk>>
    BY Zenon DEF modify, At, bufs
  <2>2. cur[p] \in Buf /\ blockno[cur[p]] \in Block
    BY <2>1, Apart, Zenon DEF Holding
  <2>3. valid[cur[p]] = 1 /\ locked[cur[p]] = p
    BY <2>1, Zenon DEF Valid, Locks, Holding
  <2> QED
    BY <2>1, <2>2, <2>3, Zenon DEF modify
<1>2. data'[x] = v /\ \A y \in Buf : y # x => data'[y] = data[y]
  BY <1>1, Zenon DEF BlockTypes
<1> DEFINE b == blockno[x]
<1>3. /\ b \in Block /\ holder[b] = p /\ holder'[b] = p /\ store'[b] = v
      /\ \A c \in Block : c # b => store'[c] = store[c] /\ holder'[c] = holder[c]
  BY <1>1, <1>2 DEF Mapped
<1> HIDE DEF b
<1>4. BS!Modify(p, b, v)
  BY <1>3, StoreIsFunction, StoreIsFunctionNext, Zenon DEF BS!Modify
<1> QED
  BY <1>3, <1>4, Zenon DEF BS!Next

\* A buffer that has been read holds what the disk has: its reader has the block.
LEMMA FinishRefines ==
  ASSUME IInv, Mapped, Mapped', NEW p \in Proc, finish(p),
         valid' = [valid EXCEPT ![cur[p]] = 1], UNCHANGED <<lru, blockno, refcnt, locked, pins>>
  PROVE  BS!Next \/ UNCHANGED <<store, holder>>
<1>1. PICK x \in Buf :
        /\ x = cur[p] /\ blockno[x] \in Block /\ UNCHANGED <<data, disk, blockno, locked>>
        /\ locked[x] = p /\ data[x] = disk[blockno[x]]
        /\ valid' = [valid EXCEPT ![x] = 1]
  <2>1. pc[p] = "io_woken" /\ busy[cur[p]] = 0 /\ UNCHANGED <<data, disk>>
    BY Zenon DEF finish, Return
  <2>2. cur[p] \in Buf /\ blockno[cur[p]] \in Block
    BY <2>1, Apart, Zenon DEF Holding
  <2>3. locked[cur[p]] = p /\ data[cur[p]] = disk[blockno[cur[p]]]
    BY <2>1, Zenon DEF Locks, Done, Clean, Pending, Holding
  <2> QED
    BY <2>1, <2>2, <2>3, Zenon
<1>2. valid'[x] = 1 /\ valid[x] \in {0, 1} /\ \A y \in Buf : y # x => valid'[y] = valid[y]
  BY <1>1, Zenon DEF CacheTypes
<1>3. CASE valid[x] = 1
  BY <1>1, <1>2, <1>3, SameStore DEF CacheTypes
<1>4. CASE valid[x] # 1
  <2> DEFINE b == blockno[x]
  <2>1. \A y \in Buf : blockno[y] = b => y = x
    BY <1>1, FreeFacts, Zenon DEF OneBuffer
  <2>2. /\ b \in Block /\ holder[b] = Free /\ holder'[b] = p /\ store'[b] = store[b]
    BY <1>1, <1>2, <1>4, <2>1 DEF Mapped
  <2>3. \A c \in Block : c # b => store'[c] = store[c] /\ holder'[c] = holder[c]
    BY <1>1, <1>2 DEF Mapped
  <2> HIDE DEF b
  <2>4. BS!Take(p, b)
    BY <2>2, <2>3, StoreIsFunction, StoreIsFunctionNext, Zenon DEF BS!Take
  <2> QED
    BY <2>2, <2>4, Zenon DEF BS!Next
<1> QED
  BY <1>3, <1>4, Zenon

\* The device changes a buffer that is not valid yet, or the disk below a valid one.
LEMMA DeviceRefines ==
  ASSUME IInv, Mapped, Mapped', NEW d \in Desc, dev_finish(d), UNCHANGED <<bufs, locked, pins>>
  PROVE  UNCHANGED <<store, holder>>
<1>1. PICK p \in Pending : head[p] = d /\ p \in Proc /\ pc[p] \in Holding /\ Request(p)
  BY Owner, Zenon DEF dev_finish, Handed
<1>2. /\ cur[p] \in Buf /\ blockno[cur[p]] \in Block
      /\ addr[next[d]] = cur[p] /\ ops[d].block = blockno[cur[p]]
      /\ ops[d].write = 1 <=> valid[cur[p]] = 1
      /\ UNCHANGED <<blockno, valid, locked>>
  BY <1>1, Apart, Zenon DEF Request, bufs
<1>3. CASE /\ valid[cur[p]] = 1 /\ UNCHANGED data
           /\ disk' = [disk EXCEPT ![blockno[cur[p]]] = data[cur[p]]]
  <2>1. \A c \in Block : c # blockno[cur[p]] => disk'[c] = disk[c]
    BY <1>2, <1>3, Zenon DEF BlockTypes
  <2>2. ASSUME NEW c \in Block PROVE store'[c] = store[c] /\ holder'[c] = holder[c]
    BY <1>2, <1>3, <2>1 DEF Mapped
  <2> QED
    BY <2>2, StepStutters, Zenon
<1>4. CASE /\ valid[cur[p]] # 1 /\ UNCHANGED disk
           /\ data' = [data EXCEPT ![cur[p]] = disk[blockno[cur[p]]]]
  <2>1. \A x \in Buf : x # cur[p] => data'[x] = data[x]
    BY <1>2, <1>4, Zenon DEF BlockTypes
  <2>2. ASSUME NEW c \in Block PROVE store'[c] = store[c] /\ holder'[c] = holder[c]
    BY <1>2, <1>4, <2>1 DEF Mapped
  <2> QED
    BY <2>2, StepStutters, Zenon
<1> QED
  BY <1>1, <1>2, <1>3, <1>4, Zenon DEF dev_finish

\* Every step is a step of BlockStore, or leaves its variables alone.
LEMMA NextRefines == FullInv /\ [Next]_vars => [BS!Next]_<<store, holder>>
<1> SUFFICES ASSUME FullInv, [Next]_vars PROVE BS!Next \/ UNCHANGED <<store, holder>>
  BY Zenon
<1>1. Mapped /\ Mapped' /\ IInv
  BY MappedNext, Zenon DEF FullInv
<1> HIDE DEF IInv
<1>2. CASE UNCHANGED vars
  BY <1>2, SameStore, Zenon DEF vars, ioVars
<1>3. ASSUME NEW p \in Proc, NEW b \in Block, bget(p, b) PROVE UNCHANGED <<store, holder>>
  BY <1>1, <1>3, RecycleRefines, SameStore, Zenon DEF bget, bget_hit, bget_panic, ioVars, bufs
<1>4. ASSUME NEW p \in Proc, rw(p) PROVE BS!Next \/ UNCHANGED <<store, holder>>
  <2>1. CASE (alloc3_fails(p) \/ submit(p, blockno[cur[p]]) \/ wait_again(p)) /\ UNCHANGED valid
    BY <1>4, <2>1, SameStore, Zenon DEF rw, alloc3_fails, submit, wait_again, ioVars
  <2>2. CASE finish(p) /\ valid' = [valid EXCEPT ![cur[p]] = 1]
    BY <1>1, <1>4, <2>2, FinishRefines, Zenon DEF rw
  <2> QED
    BY <1>4, <2>1, <2>2, Zenon DEF rw
<1>5. ASSUME NEW p \in Proc, bread(p) \/ bwrite(p) \/ bpin(p) \/ bunpin(p) \/ brelse(p)
      PROVE  UNCHANGED <<store, holder>>
  BY <1>5, SameStore, Zenon DEF bread, bwrite, bpin, bunpin, brelse, ioVars, bufs
<1>6. CASE /\ Device \/ Interrupt \/ \E p \in Proc : kill(p)
           /\ UNCHANGED <<bufs, locked, pins, panicked>>
  <2>1. ASSUME NEW d \in Desc, dev_finish(d) PROVE UNCHANGED <<store, holder>>
    BY <1>1, <1>6, <2>1, DeviceRefines, Zenon
  <2>2. CASE dev_take \/ Interrupt \/ \E p \in Proc : kill(p)
    BY <1>6, <2>2, SameStore, Zenon
       DEF dev_take, Interrupt, intr_begin, intr_next, intr_end, kill, ioVars, bufs
  <2> QED
    BY <1>6, <2>1, <2>2, Zenon DEF Device
<1> QED
  BY <1>1, <1>2, <1>3, <1>4, <1>5, <1>6, AcquireRefines, ReleaseRefines, ModifyRefines, Zenon
     DEF Next

\* The cache behaves like one copy of every block, used by one process at a time,
\* whatever is evicted and read again in between.
THEOREM Refinement == Spec => RefinesBlockStore
BY Invariance, InitRefines, NextRefines, PTL DEF Spec, RefinesBlockStore, BS!Spec

=============================================================================
