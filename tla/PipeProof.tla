----------------------------- MODULE PipeProof ------------------------------
(***************************************************************************)
(* Proofs about Pipe, for every set of processes and bytes and every ring  *)
(* size: nobody sleeps without a reason, the page is freed only when no    *)
(* process can be in the pipe, and the ring buffer implements BoundedFifo, *)
(* for every width of the counters that the size divides.                  *)
(***************************************************************************)
EXTENDS Integers, Pipe, SequenceTheorems, TLAPS

Locked == {"write", "put", "read", "wait", "copy"}
Writing == {"write", "put", "sleep_nwrite", "write_wake"}
Reading == {"read", "wait", "copy", "sleep_nread", "read_wake"}
Location == {"user", "close_read", "close_write"} \cup Writing \cup Reading

\* Every variable has its type.
TypeOK ==
    /\ data \in [0 .. PIPESIZE - 1 -> Byte]
    /\ nread \in 0 .. Modulus - 1 /\ nwrite \in 0 .. Modulus - 1
    /\ readopen \in {0, 1} /\ writeopen \in {0, 1} /\ freed \in {0, 1} /\ silent \in {0, 1}
    /\ lock \in Proc \cup {Free}
    /\ readers \subseteq Proc /\ writers \subseteq Proc
    /\ killed \in [Proc -> {0, 1}] /\ pc \in [Proc -> Location]
    /\ i \in [Proc -> Nat] /\ n \in [Proc -> Nat]

\* pi->lock is held exactly by the process inside one of the loops.
Exclusion == \A p \in Proc : lock = p <=> pc[p] \in Locked

\* Who is in the pipe holds an end of it; an end with a holder is open; the last
\* holder of an end closes it, alone.
Holders ==
    /\ \A p \in Proc : /\ pc[p] \in Writing => p \in writers
                       /\ pc[p] \in Reading => p \in readers
    /\ readers # {} => readopen = 1
    /\ writers # {} => writeopen = 1
    /\ \A p \in Proc : pc[p] = "close_read" =>
          readers = {} /\ readopen = 1 /\ \A q \in Proc : pc[q] = "close_read" => q = p
    /\ \A p \in Proc : pc[p] = "close_write" =>
          writers = {} /\ writeopen = 1 /\ \A q \in Proc : pc[q] = "close_write" => q = p
    /\ freed = 1 => readopen = 0 /\ writeopen = 0

\* A sleeper has a reason, or the holder of the lock is going to wake it; and what the
\* holder of the lock found in its tests stays true until it sleeps.
Sleepers ==
    \A p \in Proc :
       /\ pc[p] = "sleep_nwrite" =>
             readopen = 1 /\ (Full \/ \E r \in Proc : pc[r] = "copy")
       /\ pc[p] = "sleep_nread" =>
             /\ writeopen = 1
             /\ \/ Empty \/ silent = 1
                \/ \E w \in Proc : pc[w] \in {"write", "put"} /\ i[w] > 0
       /\ pc[p] = "put" => readopen = 1
       /\ pc[p] = "wait" => Empty /\ writeopen = 1

IInv == TypeOK /\ Exclusion /\ Holders /\ Sleepers

\* A new pipe, as pipealloc() leaves it, satisfies the invariant.
LEMMA InitInv == Init => IInv
<1> USE PipeAssumption DEF Init, IInv
<1>1. Init => TypeOK
  BY DEF TypeOK, Location, Writing, Reading
<1>2. Init => Exclusion /\ Holders /\ Sleepers
  BY Zenon DEF Exclusion, Holders, Sleepers, Locked, Writing, Reading
<1> QED  BY <1>1, <1>2

\* pipewrite() preserves the invariant.
LEMMA Step_pipewrite == ASSUME IInv, NEW p \in Proc, NEW k \in 0 .. MaxN, pipewrite(p, k)
                        PROVE  IInv'
<1> USE PipeAssumption DEF IInv, pipewrite, Goto, pipe, ends
<1>1. TypeOK'
  BY DEF TypeOK, Location, Writing, Reading
<1>2. Exclusion'
  BY Zenon DEF TypeOK, Exclusion, Locked
<1>3. Holders'
  BY Zenon DEF TypeOK, Exclusion, Holders, Locked, Writing, Reading
<1>4. Sleepers'
  BY Zenon DEF TypeOK, Exclusion, Holders, Sleepers, Locked, Writing, Reading, Full, Empty
<1> QED  BY <1>1, <1>2, <1>3, <1>4

\* write_abort() preserves the invariant.
LEMMA Step_write_abort == ASSUME IInv, NEW p \in Proc, write_abort(p) PROVE IInv'
<1> USE PipeAssumption DEF IInv, write_abort, Return, Goto, pipe, ends
<1>1. TypeOK'
  BY Zenon DEF TypeOK, Location, Writing, Reading
<1>2. Exclusion'
  BY Zenon DEF TypeOK, Exclusion, Locked
<1>3. Holders'
  BY DEF TypeOK, Exclusion, Holders, Locked, Writing, Reading
<1>4. Sleepers'
  BY Zenon DEF TypeOK, Exclusion, Holders, Sleepers, Locked, Writing, Reading, Full, Empty
<1> QED  BY <1>1, <1>2, <1>3, <1>4

\* write_test() preserves the invariant.
LEMMA Step_write_test == ASSUME IInv, NEW p \in Proc, write_test(p) PROVE IInv'
<1> USE PipeAssumption DEF IInv, write_test, Goto, pipe, ends
<1>1. TypeOK'
  BY Zenon DEF TypeOK, Location, Writing, Reading
<1>2. Exclusion'
  BY Zenon DEF TypeOK, Exclusion, Locked
<1>3. Holders'
  BY Zenon DEF TypeOK, Exclusion, Holders, Locked, Writing, Reading
<1>4. Sleepers'
  BY Zenon DEF TypeOK, Exclusion, Holders, Sleepers, Locked, Writing, Reading, Full, Empty
<1> QED  BY <1>1, <1>2, <1>3, <1>4

\* write_sleep() preserves the invariant.
LEMMA Step_write_sleep == ASSUME IInv, NEW p \in Proc, write_sleep(p) PROVE IInv'
<1> USE PipeAssumption DEF IInv, write_sleep, WakeupThenGoto, Awake, Goto,
                           pipe, ends
<1>1. TypeOK'
  BY Zenon DEF TypeOK, Location, Writing, Reading
<1>2. Exclusion'
  BY Zenon DEF TypeOK, Exclusion, Locked
<1>3. Holders'
  BY Zenon DEF TypeOK, Exclusion, Holders, Locked, Writing, Reading
<1>4. Sleepers'
  BY Zenon DEF TypeOK, Exclusion, Holders, Sleepers, Locked, Writing, Reading, Full, Empty
<1> QED  BY <1>1, <1>2, <1>3, <1>4

\* write_byte() preserves the invariant.
LEMMA Step_write_byte == ASSUME IInv, NEW p \in Proc, NEW b \in Byte, write_byte(p, b) PROVE IInv'
<1> USE PipeAssumption DEF IInv, write_byte, Goto, pipe, ends
<1>1. TypeOK'
  BY DEF TypeOK, Location, Writing, Reading
<1>2. Exclusion'
  BY Zenon DEF TypeOK, Exclusion, Locked
<1>3. Holders'
  BY Zenon DEF TypeOK, Exclusion, Holders, Locked, Writing, Reading
<1>4. Sleepers'
  BY DEF TypeOK, Exclusion, Holders, Sleepers, Locked, Writing, Reading, Full, Empty
<1> QED  BY <1>1, <1>2, <1>3, <1>4

\* write_done() preserves the invariant.
LEMMA Step_write_done == ASSUME IInv, NEW p \in Proc, write_done(p) PROVE IInv'
<1> USE PipeAssumption DEF IInv, write_done, Return, WakeupThenGoto, Awake, Goto,
                           pipe, ends
<1>1. TypeOK'
  BY Zenon DEF TypeOK, Location, Writing, Reading
<1>2. Exclusion'
  BY Zenon DEF TypeOK, Exclusion, Locked
<1>3. Holders'
  BY Zenon DEF TypeOK, Exclusion, Holders, Locked, Writing, Reading
<1>4. Sleepers'
  BY Zenon DEF TypeOK, Exclusion, Holders, Sleepers, Locked, Writing, Reading, Full, Empty
<1> QED  BY <1>1, <1>2, <1>3, <1>4

\* piperead() preserves the invariant.
LEMMA Step_piperead == ASSUME IInv, NEW p \in Proc, NEW k \in 0 .. MaxN, piperead(p, k) PROVE IInv'
<1> USE PipeAssumption DEF IInv, piperead, Goto, pipe, ends
<1>1. TypeOK'
  BY DEF TypeOK, Location, Writing, Reading
<1>2. Exclusion'
  BY Zenon DEF TypeOK, Exclusion, Locked
<1>3. Holders'
  BY Zenon DEF TypeOK, Exclusion, Holders, Locked, Writing, Reading
<1>4. Sleepers'
  BY Zenon DEF TypeOK, Exclusion, Holders, Sleepers, Locked, Writing, Reading, Full, Empty
<1> QED  BY <1>1, <1>2, <1>3, <1>4

\* read_abort() preserves the invariant.
LEMMA Step_read_abort == ASSUME IInv, NEW p \in Proc, read_abort(p) PROVE IInv'
<1> USE PipeAssumption DEF IInv, read_abort, Return, Goto, pipe, ends
<1>1. TypeOK'
  BY Zenon DEF TypeOK, Location, Writing, Reading
<1>2. Exclusion'
  BY Zenon DEF TypeOK, Exclusion, Locked
<1>3. Holders'
  BY Zenon DEF TypeOK, Exclusion, Holders, Locked, Writing, Reading
<1>4. Sleepers'
  BY Zenon DEF TypeOK, Exclusion, Holders, Sleepers, Locked, Writing, Reading, Full, Empty
<1> QED  BY <1>1, <1>2, <1>3, <1>4

\* read_test() preserves the invariant.
LEMMA Step_read_test == ASSUME IInv, NEW p \in Proc, read_test(p) PROVE IInv'
<1> USE PipeAssumption DEF IInv, read_test, Goto, pipe, ends
<1>1. TypeOK'
  BY Zenon DEF TypeOK, Location, Writing, Reading
<1>2. Exclusion'
  BY Zenon DEF TypeOK, Exclusion, Locked
<1>3. Holders'
  BY Zenon DEF TypeOK, Exclusion, Holders, Locked, Writing, Reading
<1>4. Sleepers'
  BY Zenon DEF TypeOK, Exclusion, Holders, Sleepers, Locked, Writing, Reading, Full, Empty
<1> QED  BY <1>1, <1>2, <1>3, <1>4

\* read_sleep() preserves the invariant.
LEMMA Step_read_sleep == ASSUME IInv, NEW p \in Proc, read_sleep(p) PROVE IInv'
<1> USE PipeAssumption DEF IInv, read_sleep, Goto, pipe, ends
<1>1. TypeOK'
  BY Zenon DEF TypeOK, Location, Writing, Reading
<1>2. Exclusion'
  BY Zenon DEF TypeOK, Exclusion, Locked
<1>3. Holders'
  BY Zenon DEF TypeOK, Exclusion, Holders, Locked, Writing, Reading
<1>4. Sleepers'
  BY Zenon DEF TypeOK, Exclusion, Holders, Sleepers, Locked, Writing, Reading, Full, Empty
<1> QED  BY <1>1, <1>2, <1>3, <1>4

\* read_ready() preserves the invariant.
LEMMA Step_read_ready == ASSUME IInv, NEW p \in Proc, read_ready(p) PROVE IInv'
<1> USE PipeAssumption DEF IInv, read_ready, Goto, pipe, ends
<1>1. TypeOK'
  BY Zenon DEF TypeOK, Location, Writing, Reading
<1>2. Exclusion'
  BY Zenon DEF TypeOK, Exclusion, Locked
<1>3. Holders'
  BY Zenon DEF TypeOK, Exclusion, Holders, Locked, Writing, Reading
<1>4. Sleepers'
  BY Zenon DEF TypeOK, Exclusion, Holders, Sleepers, Locked, Writing, Reading, Full, Empty
<1> QED  BY <1>1, <1>2, <1>3, <1>4

\* read_byte() preserves the invariant.
LEMMA Step_read_byte == ASSUME IInv, NEW p \in Proc, read_byte(p) PROVE IInv'
<1> USE PipeAssumption DEF IInv, read_byte, Goto, pipe, ends
<1>1. TypeOK'
  BY DEF TypeOK, Location, Writing, Reading
<1>2. Exclusion'
  BY Zenon DEF TypeOK, Exclusion, Locked
<1>3. Holders'
  BY Zenon DEF TypeOK, Exclusion, Holders, Locked, Writing, Reading
<1>4. Sleepers'
  BY Zenon DEF TypeOK, Exclusion, Holders, Sleepers, Locked, Writing, Reading, Full, Empty
<1> QED  BY <1>1, <1>2, <1>3, <1>4

\* read_badaddr() preserves the invariant.
LEMMA Step_read_badaddr == ASSUME IInv, NEW p \in Proc, read_badaddr(p) PROVE IInv'
<1> USE PipeAssumption DEF IInv, read_badaddr, Return, WakeupThenGoto, Awake, Goto,
                           pipe, ends
<1>1. TypeOK'
  BY DEF TypeOK, Location, Writing, Reading
<1>2. Exclusion'
  BY Zenon DEF TypeOK, Exclusion, Locked
<1>3. Holders'
  BY Zenon DEF TypeOK, Exclusion, Holders, Locked, Writing, Reading
<1>4. Sleepers'
  BY Zenon DEF TypeOK, Exclusion, Holders, Sleepers, Locked, Writing, Reading, Full, Empty
<1> QED  BY <1>1, <1>2, <1>3, <1>4

\* read_done() preserves the invariant.
LEMMA Step_read_done == ASSUME IInv, NEW p \in Proc, read_done(p) PROVE IInv'
<1> USE PipeAssumption DEF IInv, read_done, Return, WakeupThenGoto, Awake, Goto,
                           pipe, ends
<1>1. TypeOK'
  BY Zenon DEF TypeOK, Location, Writing, Reading
<1>2. Exclusion'
  BY Zenon DEF TypeOK, Exclusion, Locked
<1>3. Holders'
  BY Zenon DEF TypeOK, Exclusion, Holders, Locked, Writing, Reading
<1>4. Sleepers'
  BY Zenon DEF TypeOK, Exclusion, Holders, Sleepers, Locked, Writing, Reading, Full, Empty
<1> QED  BY <1>1, <1>2, <1>3, <1>4

\* relock() preserves the invariant.
LEMMA Step_relock == ASSUME IInv, NEW p \in Proc, relock(p) PROVE IInv'
<1> USE PipeAssumption DEF IInv, relock, Goto, pipe, ends
<1>1. TypeOK'
  BY Zenon DEF TypeOK, Location, Writing, Reading
<1>2. Exclusion'
  BY Zenon DEF TypeOK, Exclusion, Locked
<1>3. Holders'
  <2>1. \A q \in Proc : /\ pc'[q] \in Writing <=> pc[q] \in Writing
                        /\ pc'[q] \in Reading <=> pc[q] \in Reading
    BY Zenon DEF TypeOK, Writing, Reading
  <2>2. \A q \in Proc : /\ pc'[q] = "close_read" <=> pc[q] = "close_read"
                        /\ pc'[q] = "close_write" <=> pc[q] = "close_write"
    BY Zenon DEF TypeOK
  <2>3. UNCHANGED ends
    BY Zenon DEF relock
  <2> HIDE DEF relock
  <2> QED  BY <2>1, <2>2, <2>3 DEF Holders
<1>4. Sleepers'
  BY DEF TypeOK, Exclusion, Holders, Sleepers, Locked, Writing, Reading, Full, Empty
<1> QED  BY <1>1, <1>2, <1>3, <1>4

\* close_read() preserves the invariant.
LEMMA Step_close_read == ASSUME IInv, NEW p \in Proc, close_read(p) PROVE IInv'
<1> USE PipeAssumption DEF IInv, close_read, Goto, pipe, ends
<1>1. TypeOK'
  BY Zenon DEF TypeOK, Location, Writing, Reading
<1>2. Exclusion'
  BY Zenon DEF TypeOK, Exclusion, Locked
<1>3. Holders'
  BY DEF TypeOK, Exclusion, Holders, Locked, Writing, Reading
<1>4. Sleepers'
  BY Zenon DEF TypeOK, Exclusion, Holders, Sleepers, Locked, Writing, Reading, Full, Empty
<1> QED  BY <1>1, <1>2, <1>3, <1>4

\* close_write() preserves the invariant.
LEMMA Step_close_write == ASSUME IInv, NEW p \in Proc, close_write(p) PROVE IInv'
<1> USE PipeAssumption DEF IInv, close_write, Goto, pipe, ends
<1>1. TypeOK'
  BY Zenon DEF TypeOK, Location, Writing, Reading
<1>2. Exclusion'
  BY Zenon DEF TypeOK, Exclusion, Locked
<1>3. Holders'
  BY DEF TypeOK, Exclusion, Holders, Locked, Writing, Reading
<1>4. Sleepers'
  BY Zenon DEF TypeOK, Exclusion, Holders, Sleepers, Locked, Writing, Reading, Full, Empty
<1> QED  BY <1>1, <1>2, <1>3, <1>4

\* pipeclose() preserves the invariant.
LEMMA Step_pipeclose == ASSUME IInv, NEW p \in Proc, pipeclose(p) PROVE IInv'
<1> USE PipeAssumption DEF IInv, pipeclose, WakeupThenGoto, Awake, Goto,
                           pipe, ends
<1>1. TypeOK'
  BY DEF TypeOK, Location, Writing, Reading
<1>2. Exclusion'
  BY Zenon DEF TypeOK, Exclusion, Locked
<1>3. Holders'
  <2>1. CASE pc[p] = "close_write"
    <3>1. /\ writeopen' = 0 /\ readopen' = readopen
          /\ UNCHANGED <<readers, writers, nread, nwrite, i>>
          /\ freed' = 1 => readopen = 0
      BY <2>1, Zenon DEF TypeOK, Holders
    <3>2. pc' = [r \in Proc |-> IF r = p THEN "user"
                              ELSE IF pc[r] = "sleep_nread" THEN "read_wake" ELSE pc[r]]
      BY <2>1, Zenon
    <3>3. silent = 1 => silent' = 1 \/ "sleep_nread" = "sleep_nread"
      BY <2>1, Zenon
    <3> HIDE DEF pipeclose
    <3> QED  BY <2>1, <3>1, <3>2, <3>3 DEF TypeOK, Exclusion, Holders, Locked, Writing, Reading
  <2>2. CASE pc[p] = "close_read"
    <3>1. /\ readopen' = 0 /\ writeopen' = writeopen
          /\ UNCHANGED <<readers, writers, nread, nwrite, i>>
          /\ freed' = 1 => writeopen = 0
      BY <2>2, Zenon DEF TypeOK, Holders
    <3>2. pc' = [r \in Proc |-> IF r = p THEN "user"
                              ELSE IF pc[r] = "sleep_nwrite" THEN "write_wake" ELSE pc[r]]
      BY <2>2, Zenon
    <3>3. silent = 1 => silent' = 1 \/ "sleep_nwrite" = "sleep_nread"
      BY <2>2, Zenon
    <3> HIDE DEF pipeclose
    <3> QED  BY <2>2, <3>1, <3>2, <3>3 DEF TypeOK, Exclusion, Holders, Locked, Writing, Reading
  <2> QED  BY <2>1, <2>2
<1>4. Sleepers'
  <2>1. CASE pc[p] = "close_write"
    <3>1. /\ writeopen' = 0 /\ readopen' = readopen
          /\ UNCHANGED <<readers, writers, nread, nwrite, i>>
          /\ freed' = 1 => readopen = 0
      BY <2>1, Zenon DEF TypeOK, Holders
    <3>2. pc' = [r \in Proc |-> IF r = p THEN "user"
                              ELSE IF pc[r] = "sleep_nread" THEN "read_wake" ELSE pc[r]]
      BY <2>1, Zenon
    <3>3. silent = 1 => silent' = 1 \/ "sleep_nread" = "sleep_nread"
      BY <2>1, Zenon
    <3>4. \A r \in Proc : pc[r] \notin Locked
      BY Zenon DEF Exclusion
    <3> HIDE DEF pipeclose
    <3> QED  BY <2>1, <3>1, <3>2, <3>3, <3>4
             DEF TypeOK, Exclusion, Holders, Sleepers, Locked, Writing, Reading, Full, Empty
  <2>2. CASE pc[p] = "close_read"
    <3>1. /\ readopen' = 0 /\ writeopen' = writeopen
          /\ UNCHANGED <<readers, writers, nread, nwrite, i>>
          /\ freed' = 1 => writeopen = 0
      BY <2>2, Zenon DEF TypeOK, Holders
    <3>2. pc' = [r \in Proc |-> IF r = p THEN "user"
                              ELSE IF pc[r] = "sleep_nwrite" THEN "write_wake" ELSE pc[r]]
      BY <2>2, Zenon
    <3>3. silent = 1 => silent' = 1 \/ "sleep_nwrite" = "sleep_nread"
      BY <2>2, Zenon
    <3>4. \A r \in Proc : pc[r] \notin Locked
      BY Zenon DEF Exclusion
    <3> HIDE DEF pipeclose
    <3> QED  BY <2>2, <3>1, <3>2, <3>3, <3>4
             DEF TypeOK, Exclusion, Holders, Sleepers, Locked, Writing, Reading, Full, Empty
  <2> QED  BY <2>1, <2>2
<1> QED  BY <1>1, <1>2, <1>3, <1>4

\* fork() preserves the invariant.
LEMMA Step_fork == ASSUME IInv, NEW p \in Proc, NEW q \in Proc, fork(p, q) PROVE IInv'
<1> USE PipeAssumption DEF IInv, fork, Goto, pipe, ends
<1>1. TypeOK'
  BY Zenon DEF TypeOK, Location, Writing, Reading
<1>2. Exclusion'
  BY Zenon DEF TypeOK, Exclusion, Locked
<1>3. Holders'
  BY Zenon DEF TypeOK, Exclusion, Holders, Locked, Writing, Reading
<1>4. Sleepers'
  BY Zenon DEF TypeOK, Exclusion, Holders, Sleepers, Locked, Writing, Reading, Full, Empty
<1> QED  BY <1>1, <1>2, <1>3, <1>4

\* kill() preserves the invariant.
LEMMA Step_kill == ASSUME IInv, NEW p \in Proc, kill(p) PROVE IInv'
<1> USE PipeAssumption DEF IInv, kill, Awake, Goto, pipe, ends
<1>1. TypeOK'
  BY Zenon DEF TypeOK, Location, Writing, Reading
<1>2. Exclusion'
  BY Zenon DEF TypeOK, Exclusion, Locked
<1>3. Holders'
  BY Zenon DEF TypeOK, Exclusion, Holders, Locked, Writing, Reading
<1>4. Sleepers'
  BY Zenon DEF TypeOK, Exclusion, Holders, Sleepers, Locked, Writing, Reading, Full, Empty
<1> QED  BY <1>1, <1>2, <1>3, <1>4

\* A step that changes nothing preserves the invariant.
LEMMA Stutter == ASSUME IInv, UNCHANGED vars PROVE IInv'
BY Zenon DEF IInv, vars, TypeOK, Exclusion, Holders, Sleepers, Full, Empty

\* Every step of the system preserves the invariant.
LEMMA NextInv == IInv /\ [Next]_vars => IInv'
<1> SUFFICES ASSUME IInv, Next PROVE IInv'
  BY Stutter, Zenon
<1> PICK p \in Proc : Kernel(p) \/ User(p) \/ kill(p)
  BY Zenon DEF Next
<1>1. CASE Write(p)
  BY <1>1, Step_write_abort, Step_write_test, Step_write_sleep, Step_write_done,
     Step_write_byte, Zenon DEF Write
<1>2. CASE Read(p)
  BY <1>2, Step_read_abort, Step_read_test, Step_read_sleep, Step_read_ready, Step_read_byte,
     Step_read_badaddr, Step_read_done DEF Read
<1>3. CASE User(p)
  BY <1>3, Step_pipewrite, Step_piperead, Step_close_read, Step_close_write, Step_fork, Zenon
     DEF User
<1> QED
  BY <1>1, <1>2, <1>3, Step_relock, Step_pipeclose, Step_kill, Zenon DEF Kernel

\* The invariant holds in every reachable state.
LEMMA Invariance == Spec => []IInv
BY InitInv, NextInv, PTL DEF Spec

\* Whoever sleeps in pipewrite() or piperead() has a reason to, whenever pi->lock is free:
\* piperead(), pipewrite() and pipeclose() wake the others before they let go of it.
THEOREM SleepersHaveReason == Spec => []SleepsForAReason
<1>1. IInv => SleepsForAReason
  BY PipeAssumption, Zenon DEF IInv, Exclusion, Sleepers, SleepsForAReason, Locked
<1> QED  BY <1>1, Invariance, PTL

\* pipeclose() gives the page back only when no process holds an end, is inside
\* piperead() or pipewrite(), or is about to take the lock.
THEOREM FreedPipeUnused == Spec => []FreedMeansUnused
<1>1. ASSUME IInv, freed = 1
      PROVE  readers = {} /\ writers = {} /\ lock = Free /\ \A p \in Proc : pc[p] = "user"
  <2>1. readers = {} /\ writers = {}
    BY <1>1 DEF IInv, Holders
  <2>2. ASSUME NEW p \in Proc PROVE pc[p] = "user"
    <3>1. pc[p] \in Location
      BY <1>1, Zenon DEF IInv, TypeOK
    <3>2. pc[p] \notin Writing /\ pc[p] \notin Reading
      BY <1>1, <2>1, Zenon DEF IInv, Holders
    <3>3. pc[p] # "close_read" /\ pc[p] # "close_write"
      BY <1>1 DEF IInv, Holders
    <3> QED  BY <3>1, <3>2, <3>3 DEF Location
  <2>3. lock = Free
    BY <1>1, <2>2, Zenon DEF IInv, TypeOK, Exclusion, Locked
  <2> QED  BY <2>1, <2>2, <2>3
<1>2. IInv => FreedMeansUnused
  BY <1>1, Zenon DEF FreedMeansUnused
<1> QED  BY <1>2, Invariance, PTL

-----------------------------------------------------------------------------
(* Arithmetic.                                                             *)

\* Division with remainder.
LEMMA DivMod == ASSUME NEW s \in Nat \ {0}, NEW x \in Nat
  PROVE \E q \in Nat, r \in 0 .. s - 1 : r = x % s /\ s * q + r = x
<1> DEFINE q == x \div s
           r == x % s
<1>1. r \in 0 .. s - 1
  BY SMT
<1>2. q \in Int /\ q >= 0
  BY SMT
<1>3. r = x - s * q
  BY SMT
<1>4. r = x % s
  BY Zenon
<1> HIDE DEF q, r
<1>5. q \in Nat /\ s * q + r = x
  BY <1>1, <1>2, <1>3
<1> QED BY <1>1, <1>4, <1>5

\* The remainder is unique.
LEMMA Uniq == ASSUME NEW s \in Nat \ {0}, NEW q \in Nat, NEW r \in 0 .. s - 1
  PROVE (s * q + r) % s = r
BY SMT

\* Adding a multiple of s does not change the remainder.
LEMMA Shift == ASSUME NEW s \in Nat \ {0}, NEW m \in Nat, m % s = 0, NEW x \in Nat
  PROVE (m + x) % s = x % s
<1>1. PICK q \in Nat : m = s * q
  BY DivMod
<1>2. PICK d \in Nat, r \in 0 .. s - 1 : r = x % s /\ s * d + r = x
  BY DivMod, Zenon
<1>3. m + x = s * (q + d) + r
  <2> DEFINE u == s * q
             v == s * d
             w == s * (q + d)
  <2>1. u \in Int /\ v \in Int /\ w = u + v
    OBVIOUS
  <2>2. m = u /\ v + r = x
    BY <1>1, <1>2, Zenon
  <2> HIDE DEF u, v, w
  <2>3. m + x = w + r
    BY <2>1, <2>2
  <2> QED  BY <2>3 DEF w
<1>4. (s * (q + d) + r) % s = r
  BY Uniq
<1> QED BY <1>2, <1>3, <1>4

\* Numbers that are less than s apart have different remainders.
LEMMA Apart == ASSUME NEW s \in Nat \ {0}, NEW x \in Nat, NEW y \in Nat, x < y, y < x + s
  PROVE x % s # y % s
<1> SUFFICES ASSUME x % s = y % s PROVE FALSE
  BY Zenon
<1>1. PICK d \in Nat, r \in 0 .. s - 1 : r = x % s /\ s * d + r = x
  BY DivMod, Zenon
<1>2. PICK e \in Nat, t \in 0 .. s - 1 : t = y % s /\ s * e + t = y
  BY DivMod, Zenon
<1>3. t = r
  BY <1>1, <1>2, Zenon
<1> DEFINE u == s * d
           v == s * e
<1>4. u < v /\ v < u + s
  <2>1. u \in Int /\ v \in Int /\ u + r = x /\ v + r = y
    BY <1>1, <1>2, <1>3
  <2> HIDE DEF u, v
  <2> QED  BY <2>1
<1>5. CASE e <= d
  <2>1. s * e <= s * d
    BY <1>5
  <2> QED BY <2>1, <1>4
<1>6. CASE e >= d + 1
  <2>1. s * e >= s * (d + 1)
    BY <1>6
  <2>2. s * (d + 1) = s * d + s
    OBVIOUS
  <2> QED BY <2>1, <2>2, <1>4
<1> QED BY <1>5, <1>6

\* The remainder of a number below 2 * s.
LEMMA Reduce ==
  ASSUME NEW s \in Nat \ {0}, NEW x \in Nat, x < 2 * s
  PROVE  x % s = IF x >= s THEN x - s ELSE x
<1>1. CASE x >= s
  BY <1>1
<1>2. CASE x < s
  BY <1>2
<1> QED  BY <1>1, <1>2

-----------------------------------------------------------------------------
(* The counters.                                                           *)

Counter == 0 .. Modulus - 1

Distance(r, w) == IF w >= r THEN w - r ELSE w + Modulus - r

\* A counter plus one, which wraps around to 0.
LEMMA Increment ==
  ASSUME NEW a \in Counter
  PROVE  (a + 1) % Modulus = IF a + 1 = Modulus THEN 0 ELSE a + 1
<1> DEFINE x == a + 1
<1>1. Modulus \in Nat \ {0} /\ x \in Nat /\ x < 2 * Modulus
  BY PipeAssumption DEF Counter
<1>2. x % Modulus = IF x >= Modulus THEN x - Modulus ELSE x
  <2> HIDE DEF x
  <2> QED  BY <1>1, Reduce
<1> QED  BY <1>2, PipeAssumption DEF Counter

\* The difference of two counters, as the code's unsigned subtraction gives it.
LEMMA Difference ==
  ASSUME NEW r \in Counter, NEW w \in Counter
  PROVE  (w + Modulus - r) % Modulus = Distance(r, w)
<1> DEFINE x == w + Modulus - r
<1>1. Modulus \in Nat \ {0} /\ x \in Nat /\ x < 2 * Modulus
  BY PipeAssumption DEF Counter
<1>2. x % Modulus = IF x >= Modulus THEN x - Modulus ELSE x
  <2> HIDE DEF x
  <2> QED  BY <1>1, Reduce
<1> QED  BY <1>2, PipeAssumption DEF Counter, Distance

\* The number of bytes in the ring.
LEMMA CountValue == ASSUME TypeOK PROVE count = Distance(nread, nwrite) /\ count \in Counter
<1>1. nread \in Counter /\ nwrite \in Counter
  BY Zenon DEF TypeOK, Counter
<1>2. count = Distance(nread, nwrite)
  BY <1>1, Difference, Zenon DEF count
<1> QED  BY <1>1, <1>2, PipeAssumption DEF Counter, Distance

\* The number of bytes after a step.
LEMMA CountValueNext ==
  ASSUME nread' \in Counter, nwrite' \in Counter
  PROVE  count' = Distance(nread', nwrite')
BY Difference, Zenon DEF count

\* piperead()'s test for an empty ring.
LEMMA EmptyCount == ASSUME TypeOK PROVE Empty <=> count = 0
BY PipeAssumption, CountValue DEF TypeOK, Empty, Distance, Counter

\* pipewrite()'s test for a full ring.
LEMMA FullCount == ASSUME TypeOK PROVE Full <=> count = PIPESIZE
<1> DEFINE x == nread + PIPESIZE
<1>1. Modulus \in Nat \ {0} /\ x \in Nat /\ x < 2 * Modulus
  BY PipeAssumption DEF TypeOK
<1>2. x % Modulus = IF x >= Modulus THEN x - Modulus ELSE x
  <2> HIDE DEF x
  <2> QED  BY <1>1, Reduce
<1>3. Full <=> nwrite = IF x >= Modulus THEN x - Modulus ELSE x
  BY <1>2 DEF Full
<1>4. /\ PIPESIZE \in Nat /\ Modulus \in Nat /\ 0 < PIPESIZE /\ PIPESIZE < Modulus
      /\ nread \in Nat /\ nread < Modulus /\ nwrite \in Nat /\ nwrite < Modulus
  BY PipeAssumption DEF TypeOK
<1>5. count = IF nwrite >= nread THEN nwrite - nread ELSE nwrite + Modulus - nread
  BY CountValue, Zenon DEF Distance
<1> QED  BY <1>3, <1>4, <1>5

\* A byte put in.
LEMMA PutCount ==
  ASSUME TypeOK, nwrite' = (nwrite + 1) % Modulus, nread' = nread, count < PIPESIZE
  PROVE  count' = count + 1
<1>1. nread \in Counter /\ nwrite \in Counter
  BY Zenon DEF TypeOK, Counter
<1>2. nwrite' = IF nwrite + 1 = Modulus THEN 0 ELSE nwrite + 1
  BY <1>1, Increment, Zenon
<1>3. nwrite' \in Counter /\ nread' \in Counter
  BY <1>1, <1>2, PipeAssumption DEF Counter
<1>4. count' = Distance(nread', nwrite')
  BY <1>3, CountValueNext, Zenon
<1> QED  BY <1>1, <1>2, <1>4, PipeAssumption, CountValue DEF Counter, Distance

\* A byte taken out.
LEMMA GetCount ==
  ASSUME TypeOK, nread' = (nread + 1) % Modulus, nwrite' = nwrite, count > 0
  PROVE  count' = count - 1
<1>1. nread \in Counter /\ nwrite \in Counter
  BY Zenon DEF TypeOK, Counter
<1>2. nread' = IF nread + 1 = Modulus THEN 0 ELSE nread + 1
  BY <1>1, Increment, Zenon
<1>3. nwrite' \in Counter /\ nread' \in Counter
  BY <1>1, <1>2, PipeAssumption DEF Counter
<1>4. count' = Distance(nread', nwrite')
  BY <1>3, CountValueNext, Zenon
<1> QED  BY <1>1, <1>2, <1>4, PipeAssumption, CountValue DEF Counter, Distance

\* The slot that pipewrite() fills is the one after the last byte.
LEMMA WriteSlot == ASSUME TypeOK PROVE nwrite % PIPESIZE = (nread + count) % PIPESIZE
<1>1. CASE nwrite >= nread
  BY <1>1, CountValue DEF TypeOK, Distance
<1>2. CASE ~(nwrite >= nread)
  <2>1. nread + count = Modulus + nwrite
    BY <1>2, PipeAssumption, CountValue DEF TypeOK, Distance
  <2>2. (Modulus + nwrite) % PIPESIZE = nwrite % PIPESIZE
    <3>1. PIPESIZE \in Nat \ {0} /\ Modulus \in Nat /\ Modulus % PIPESIZE = 0 /\ nwrite \in Nat
      BY PipeAssumption DEF TypeOK
    <3> QED  BY <3>1, Shift, Zenon
  <2> QED  BY <2>1, <2>2
<1> QED  BY <1>1, <1>2

\* The slots are the same whether nread wraps around or not.
LEMMA ReadSlot ==
  ASSUME TypeOK, NEW k \in Nat
  PROVE  (((nread + 1) % Modulus) + k) % PIPESIZE = (nread + 1 + k) % PIPESIZE
<1>1. CASE nread + 1 = Modulus
  <2>1. ((nread + 1) % Modulus) + k = k
    BY <1>1, Increment, PipeAssumption DEF TypeOK, Counter
  <2>2. (Modulus + k) % PIPESIZE = k % PIPESIZE
    BY PipeAssumption, Shift, Zenon
  <2> QED  BY <1>1, <2>1, <2>2
<1>2. CASE nread + 1 # Modulus
  BY <1>2, Increment, PipeAssumption, Zenon DEF TypeOK, Counter
<1> QED  BY <1>1, <1>2

-----------------------------------------------------------------------------
(* The contents of the ring.                                               *)

Ring(d, r, c) == [k \in 1 .. c |-> d[(r + k - 1) % PIPESIZE]]

\* c slots from counter r on form a sequence of c bytes.
LEMMA RingIsSeq ==
  ASSUME NEW d \in [0 .. PIPESIZE - 1 -> Byte], NEW r \in Nat, NEW c \in Nat
  PROVE  /\ Ring(d, r, c) \in Seq(Byte) /\ Len(Ring(d, r, c)) = c
         /\ \A k \in 1 .. c : Ring(d, r, c)[k] = d[(r + k - 1) % PIPESIZE]
<1>1. ASSUME NEW k \in 1 .. c PROVE d[(r + k - 1) % PIPESIZE] \in Byte
  <2> DEFINE x == r + k - 1
  <2>1. x \in Nat /\ PIPESIZE \in Nat \ {0}
    BY PipeAssumption
  <2>2. x % PIPESIZE \in 0 .. PIPESIZE - 1
    <3> HIDE DEF x
    <3> QED  BY <2>1, DivMod
  <2> QED  BY <2>2
<1>2. Ring(d, r, c) \in [1 .. c -> Byte]
  BY <1>1, Zenon DEF Ring
<1>3. Ring(d, r, c) \in Seq(Byte) /\ Len(Ring(d, r, c)) = c
  BY <1>2
<1> QED  BY <1>3 DEF Ring

\* The byte that pipewrite() stores goes to the end of the queue, and no other changes.
LEMMA PutContent ==
  ASSUME TypeOK, NEW b \in Byte, count < PIPESIZE, nread' = nread,
         data' = [data EXCEPT ![nwrite % PIPESIZE] = b], nwrite' = (nwrite + 1) % Modulus
  PROVE  content' = Append(content, b) /\ Len(content) = count
<1> DEFINE s == Ring(data, nread, count)
           t == Ring(data', nread, count + 1)
           slot == nwrite % PIPESIZE
<1>1. nread \in Nat /\ count \in Nat /\ nwrite \in Nat /\ PIPESIZE \in Nat \ {0}
  BY PipeAssumption, CountValue DEF TypeOK, Counter
<1>2. slot \in 0 .. PIPESIZE - 1
  BY <1>1, DivMod, Zenon
<1>3. data \in [0 .. PIPESIZE - 1 -> Byte] /\ data' \in [0 .. PIPESIZE - 1 -> Byte]
  BY <1>2, Zenon DEF TypeOK
<1>4. /\ s \in Seq(Byte) /\ Len(s) = count
      /\ \A k \in 1 .. count : s[k] = data[(nread + k - 1) % PIPESIZE]
  <2> HIDE DEF slot
  <2>1. data \in [0 .. PIPESIZE - 1 -> Byte]
    BY <1>3, Zenon
  <2> QED  BY <1>1, <2>1, RingIsSeq, ZenonT(30)
<1>5. /\ t \in Seq(Byte) /\ Len(t) = count + 1
      /\ \A k \in 1 .. count + 1 : t[k] = data'[(nread + k - 1) % PIPESIZE]
  <2> DEFINE c == count + 1
             d == data'
  <2>1. nread \in Nat /\ c \in Nat /\ d \in [0 .. PIPESIZE - 1 -> Byte]
    BY <1>1, <1>3
  <2> HIDE DEF c, d
  <2>2. /\ Ring(d, nread, c) \in Seq(Byte) /\ Len(Ring(d, nread, c)) = c
        /\ \A k \in 1 .. c : Ring(d, nread, c)[k] = d[(nread + k - 1) % PIPESIZE]
    BY <2>1, RingIsSeq, ZenonT(30)
  <2> QED  BY <2>2 DEF c, d
<1>6. ASSUME NEW k \in 1 .. count PROVE t[k] = s[k]
  <2> DEFINE x == nread + k - 1
             y == nread + count
  <2>1. x \in Nat /\ y \in Nat /\ x < y /\ y < x + PIPESIZE
    BY <1>1
  <2>2. x % PIPESIZE # y % PIPESIZE /\ x % PIPESIZE \in 0 .. PIPESIZE - 1
    <3> HIDE DEF x, y
    <3>1. x % PIPESIZE # y % PIPESIZE
      BY <1>1, <2>1, Apart, Zenon
    <3>2. x % PIPESIZE \in 0 .. PIPESIZE - 1
      BY <1>1, <2>1, DivMod, Zenon
    <3> QED  BY <3>1, <3>2
  <2>3. slot = y % PIPESIZE
    BY WriteSlot, Zenon
  <2>4. data'[x % PIPESIZE] = data[x % PIPESIZE]
    <3> HIDE DEF x, y
    <3> QED  BY <1>3, <2>2, <2>3
  <2>5. t[k] = data'[x % PIPESIZE]
    <3>1. k \in 1 .. count + 1
      BY <1>1
    <3> QED  BY <1>5, <3>1, Zenon
  <2>6. s[k] = data[x % PIPESIZE]
    BY <1>4, Zenon
  <2> QED  BY <2>4, <2>5, <2>6
<1>7. t[count + 1] = b
  <2>1. count + 1 \in 1 .. count + 1 /\ nread + (count + 1) - 1 = nread + count
    BY <1>1
  <2>2. t[count + 1] = data'[(nread + count) % PIPESIZE]
    BY <1>5, <2>1, Zenon
  <2> QED  BY <1>2, <1>3, <2>2, WriteSlot
<1>8. content' = t /\ content = s
  BY PutCount DEF content, Ring
<1> HIDE DEF s, t, slot
<1>9. /\ Append(s, b) \in Seq(Byte) /\ Len(Append(s, b)) = count + 1
      /\ \A k \in 1 .. count : Append(s, b)[k] = s[k]
      /\ Append(s, b)[count + 1] = b
  BY <1>4, AppendProperties
<1>10. \A k \in 1 .. count + 1 : t[k] = Append(s, b)[k]
  <2> TAKE k \in 1 .. count + 1
  <2>1. k \in 1 .. count \/ k = count + 1
    BY <1>1
  <2> QED  BY <1>6, <1>7, <1>9, <2>1
<1>11. t = Append(s, b)
  BY <1>5, <1>9, <1>10, SeqEqual, Zenon
<1> QED  BY <1>4, <1>8, <1>11

\* The byte that piperead() takes is the first of the queue, and the rest moves up.
LEMMA GetContent ==
  ASSUME TypeOK, count > 0, nread' = (nread + 1) % Modulus, nwrite' = nwrite, data' = data
  PROVE  content' = Tail(content) /\ content # << >>
<1> DEFINE s == Ring(data, nread, count)
           t == Ring(data, nread', count - 1)
<1>1. nread \in Nat /\ count \in Nat /\ nwrite \in Nat /\ count - 1 \in Nat
  BY PipeAssumption, CountValue DEF TypeOK, Counter
<1>2. nread' \in Nat
  BY Increment, PipeAssumption DEF TypeOK, Counter
<1>3. data \in [0 .. PIPESIZE - 1 -> Byte]
  BY Zenon DEF TypeOK
<1>4. /\ s \in Seq(Byte) /\ Len(s) = count
      /\ \A k \in 1 .. count : s[k] = data[(nread + k - 1) % PIPESIZE]
  BY <1>1, <1>3, RingIsSeq, Zenon
<1>5. /\ t \in Seq(Byte) /\ Len(t) = count - 1
      /\ \A k \in 1 .. count - 1 : t[k] = data[(nread' + k - 1) % PIPESIZE]
  BY <1>1, <1>2, <1>3, RingIsSeq, Zenon
<1>6. ASSUME NEW k \in 1 .. count - 1 PROVE t[k] = s[k + 1]
  <2>1. /\ k - 1 \in Nat /\ k + 1 \in 1 .. count
        /\ nread' + k - 1 = nread' + (k - 1) /\ nread + (k + 1) - 1 = nread + 1 + (k - 1)
    BY <1>1, <1>2
  <2>2. (nread' + (k - 1)) % PIPESIZE = (nread + 1 + (k - 1)) % PIPESIZE
    BY <2>1, ReadSlot, Zenon
  <2>3. t[k] = data[(nread' + k - 1) % PIPESIZE]
    BY <1>5, Zenon
  <2>4. s[k + 1] = data[(nread + (k + 1) - 1) % PIPESIZE]
    BY <1>4, <2>1, Zenon
  <2> QED  BY <2>1, <2>2, <2>3, <2>4, Zenon
<1>7. content' = t /\ content = s
  BY GetCount, Zenon DEF content, Ring
<1> HIDE DEF s, t
<1>8. s # << >>
  BY <1>4
<1>9. /\ Tail(s) \in Seq(Byte) /\ Len(Tail(s)) = count - 1
      /\ \A k \in 1 .. count - 1 : Tail(s)[k] = s[k + 1]
  BY <1>4, <1>8, HeadTailProperties, Zenon
<1>10. t = Tail(s)
  BY <1>5, <1>6, <1>9, SeqEqual, Zenon
<1> QED  BY <1>7, <1>8, <1>10

-----------------------------------------------------------------------------
(* The refinement.                                                         *)

RInv == IInv /\ count <= PIPESIZE

queue == <<content, readopen, writeopen>>

\* A step of BoundedFifo that leaves room for what is in the ring.
FifoStep == count' <= PIPESIZE /\ [Fifo!Next]_queue

\* A step that changes neither the ring nor the flags is none of the queue.
LEMMA Still ==
  ASSUME RInv, UNCHANGED <<data, nread, nwrite, readopen, writeopen>>
  PROVE  FifoStep
BY Zenon DEF RInv, FifoStep, queue, content, count

\* pipewrite() puts a byte in.
LEMMA PutStep == ASSUME RInv, NEW p \in Proc, NEW b \in Byte, write_byte(p, b) PROVE FifoStep
<1>1. TypeOK /\ count <= PIPESIZE /\ count \in Nat /\ PIPESIZE \in Nat
  BY PipeAssumption, CountValue DEF RInv, IInv, Counter
<1>2. count < PIPESIZE
  BY <1>1, FullCount DEF write_byte
<1>3. content' = Append(content, b) /\ Len(content) = count /\ count' = count + 1
  BY <1>1, <1>2, PutContent, PutCount, Zenon DEF write_byte
<1>4. readopen = 1 /\ writeopen = 1 /\ UNCHANGED <<readopen, writeopen>>
  BY Zenon DEF RInv, IInv, Holders, Sleepers, Writing, write_byte, ends
<1>5. Fifo!Put(b)
  BY <1>2, <1>3, <1>4, Zenon DEF Fifo!Put
<1> QED  BY <1>1, <1>2, <1>3, <1>5 DEF FifoStep, Fifo!Next

\* piperead() takes a byte out, also when it cannot deliver it.
LEMMA GetStep ==
  ASSUME RInv, NEW p \in Proc, read_byte(p) \/ read_badaddr(p)
  PROVE  FifoStep
<1>1. TypeOK /\ count <= PIPESIZE /\ count \in Nat /\ PIPESIZE \in Nat
  BY PipeAssumption, CountValue DEF RInv, IInv, Counter
<1>2. count > 0
  BY <1>1, EmptyCount DEF read_byte, read_badaddr
<1>3. nread' = (nread + 1) % Modulus /\ nwrite' = nwrite /\ data' = data
  BY Zenon DEF read_byte, read_badaddr
<1>4. content' = Tail(content) /\ content # << >> /\ count' = count - 1
  BY <1>1, <1>2, <1>3, GetContent, GetCount, Zenon
<1>5. readopen = 1 /\ UNCHANGED <<readopen, writeopen>>
  BY Zenon DEF RInv, IInv, Holders, Reading, read_byte, read_badaddr, ends
<1>6. Fifo!Get
  BY <1>4, <1>5, Zenon DEF Fifo!Get
<1> QED  BY <1>1, <1>4, <1>6 DEF FifoStep, Fifo!Next

\* pipeclose() closes one end.
LEMMA CloseStep == ASSUME RInv, NEW p \in Proc, pipeclose(p) PROVE FifoStep
<1>1. count' <= PIPESIZE /\ content' = content
  BY Zenon DEF RInv, pipeclose, pipe, content, count
<1>2. CASE pc[p] = "close_write"
  <2>1. writeopen = 1 /\ writeopen' = 0 /\ readopen' = readopen
    BY <1>2, Zenon DEF RInv, IInv, Holders, pipeclose
  <2> QED  BY <1>1, <2>1 DEF FifoStep, Fifo!Next, Fifo!CloseWrite
<1>3. CASE pc[p] = "close_read"
  <2>1. readopen = 1 /\ readopen' = 0 /\ writeopen' = writeopen
    BY <1>3, Zenon DEF RInv, IInv, Holders, pipeclose
  <2> QED  BY <1>1, <2>1 DEF FifoStep, Fifo!Next, Fifo!CloseRead
<1> QED  BY <1>2, <1>3 DEF pipeclose

\* Every step of the pipe is one of the queue, or none.
LEMMA StepSimulation == RInv /\ [Next]_vars => FifoStep
<1> SUFFICES ASSUME RInv, Next PROVE FifoStep
  BY Still, Zenon DEF vars
<1> PICK p \in Proc : Kernel(p) \/ User(p) \/ kill(p)
  BY Zenon DEF Next
<1>1. CASE Write(p)
  <2>1. CASE \E b \in Byte : write_byte(p, b)
    BY <2>1, PutStep, Zenon
  <2>2. CASE write_abort(p) \/ write_test(p) \/ write_sleep(p) \/ write_done(p)
    BY <2>2, Still, Zenon DEF write_abort, write_test, write_sleep, write_done, pipe, ends
  <2> QED  BY <1>1, <2>1, <2>2 DEF Write
<1>2. CASE Read(p)
  <2>1. CASE read_byte(p) \/ read_badaddr(p)
    BY <2>1, GetStep, Zenon
  <2>2. CASE read_abort(p) \/ read_test(p) \/ read_sleep(p) \/ read_ready(p) \/ read_done(p)
    BY <2>2, Still, Zenon DEF read_abort, read_test, read_sleep, read_ready, read_done, pipe, ends
  <2> QED  BY <1>2, <2>1, <2>2 DEF Read
<1>3. CASE User(p)
  BY <1>3, Still, Zenon DEF User, pipewrite, piperead, close_read, close_write, fork, pipe, ends
<1>4. CASE relock(p) \/ kill(p)
  BY <1>4, Still, Zenon DEF relock, kill, pipe, ends
<1> QED  BY <1>1, <1>2, <1>3, <1>4, CloseStep DEF Kernel

\* A new pipe is an empty queue.
LEMMA InitSimulation == Init => count <= PIPESIZE /\ Fifo!Init
<1> SUFFICES ASSUME Init PROVE count <= PIPESIZE /\ Fifo!Init
  BY Zenon
<1>1. TypeOK
  BY InitInv, Zenon DEF IInv
<1>2. count = 0
  BY <1>1, EmptyCount, Zenon DEF Init, Empty
<1>3. content = << >>
  BY <1>2 DEF content
<1> QED  BY <1>2, <1>3, PipeAssumption DEF Init, Fifo!Init

\* The pipe implements a bounded FIFO queue of bytes: each byte that pipewrite() stored is
\* taken out once and in order by piperead(), at most PIPESIZE are on their way, however the
\* counters wrap around and whoever is killed, sleeps or closes an end meanwhile.
THEOREM PipeIsFifo == Spec => RefinesFifo
<1>1. Init => RInv /\ Fifo!Init
  BY InitInv, InitSimulation, Zenon DEF RInv
<1>2. RInv /\ [Next]_vars => RInv'
  BY NextInv, StepSimulation, Zenon DEF RInv, FifoStep
<1>3. RInv /\ [Next]_vars => [Fifo!Next]_queue
  BY StepSimulation, Zenon DEF FifoStep
<1> QED  BY <1>1, <1>2, <1>3, PTL DEF Spec, RefinesFifo, Fifo!Spec, queue
=============================================================================
