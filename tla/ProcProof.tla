--------------------------- MODULE ProcProof ----------------------------
(***************************************************************************)
(* The inductive invariant IInv of Proc, for process tables of every size  *)
(* and any number of CPUs, and what follows from it: one thread per slot,  *)
(* no orphans, and no zombie that a sleeping parent has missed.            *)
(***************************************************************************)
EXTENDS Proc, TLAPS

States == {"UNUSED", "USED", "RUNNABLE", "RUNNING", "SLEEPING", "ZOMBIE"}
Switching == {"sched", "swtched"}
\* Locations at which a thread on a CPU holds its own p->lock.
Locked == Switching \cup {"sleep_set", "zombie"}
\* Locations at which it holds wait_lock, whatever its argument is.
Family == {"reparent", "wakeup", "exit_lock", "zombie", "wait_scan", "wait_check"}
PCs == Unlocked \cup Locked \cup Family \cup {"none", "sleep", "ticks_check"}
Resumes == Unlocked \cup {"none", "dead", "reparent", "exit_lock"}

\* Where p is, or will go on once it has been switched to again.
Loc(p) == IF pc[p] \in Switching THEN resume[p] ELSE pc[p]

\* The fields that the rest of the invariant does not look at.
Counters ==
    /\ killed \in [Slot -> {0, 1}]
    /\ pid \in [Slot -> Nat] /\ nextpid \in Nat
    /\ tick \in Nat

Types ==
    /\ Counters
    /\ state \in [Slot -> States]
    /\ chan \in [Slot -> Nat]
    /\ parent \in [Slot -> Slot \cup {None}]
    /\ plock \in [Slot -> CPU \cup {Free}]
    /\ wait_lock \in CPU \cup {Free}
    /\ proc \in [CPU -> Slot \cup {None}]
    /\ pc \in [Slot -> PCs]
    /\ resume \in [Slot -> Resumes]
    /\ arg \in [Slot -> Nat] /\ idx \in [Slot -> Nat]

(* Threads and CPUs. *)
OwnThread ==
    \A c, d \in CPU, s \in Slot : proc[c] = s /\ proc[d] = s => c = d
LockHeld ==
    \A s \in Slot : plock[s] # Free =>
        plock[s] \in CPU /\ proc[plock[s]] = s /\ pc[s] \in Locked
Running ==
    \A c \in CPU, s \in Slot : proc[c] = s =>
        /\ pc[s] # "none"
        /\ pc[s] \in Locked => plock[s] = c
        /\ pc[s] = "sched" => state[s] \in {"RUNNABLE", "SLEEPING", "ZOMBIE"}
        /\ pc[s] # "sched" => state[s] = "RUNNING"
Switched ==
    \A s \in Slot : (\A c \in CPU : proc[c] # s) =>
        pc[s] \in {"none", "swtched"} /\ state[s] # "RUNNING"

(* What the state of a slot says of its thread. *)
SlotStates ==
    \A s \in Slot :
        /\ state[s] = "UNUSED" <=> pc[s] = "none"
        /\ state[s] = "UNUSED" => parent[s] = None
        /\ state[s] = "ZOMBIE" <=> Loc(s) = "dead"
        /\ state[s] = "SLEEPING" => Loc(s) = "relock"
        /\ pc[s] \in Switching => resume[s] \in Unlocked \cup {"dead"}
        /\ pc[s] = "wakeup" => resume[s] \in {"reparent", "exit_lock"} /\ idx[s] > 0
        /\ s # initproc /\ state[s] \notin {"UNUSED", "USED"} => parent[s] # None
InitLives ==
    /\ state[initproc] \notin {"UNUSED", "USED", "ZOMBIE"}
    /\ pc[initproc] \notin {"reparent", "wakeup", "exit_lock", "zombie"}

(* Arguments of calls under way. *)
Forking(p) == Loc(p) \in {"fork_parent", "fork_run"}
ForkArgs ==
    \A p \in Slot : Forking(p) =>
        /\ arg[p] \in Slot /\ state[arg[p]] = "USED"
        /\ Loc(p) = "fork_run" => parent[arg[p]] # None
        /\ \A q \in Slot : Forking(q) /\ arg[q] = arg[p] => q = p
SleepArgs ==
    \A p \in Slot : Loc(p) \in {"sleep", "sleep_set", "relock"} => arg[p] \in {p, Ticks}

(* wait_lock and what it protects. *)
HoldsWait(p) == \/ pc[p] \in Family
                \/ pc[p] \in {"sleep", "sleep_set"} /\ arg[p] = p
WaitLockHeld == \A p \in Slot : HoldsWait(p) => wait_lock \in CPU /\ proc[wait_lock] = p

InWait(q) == state[q] = "SLEEPING" /\ chan[q] = q    \* q sleeps in wait()
Zombie(s) == state[s] = "ZOMBIE"

\* p has handed its children over and wakes, or has woken, its parent.
Leaving(p) == \/ pc[p] \in {"exit_lock", "zombie"}
              \/ pc[p] = "wakeup" /\ resume[p] = "exit_lock"
Childless == \A p \in Slot : Leaving(p) => \A s \in Slot : parent[s] # p
ParentWoken ==
    \A p \in Slot : Leaving(p) =>
        IF pc[p] = "wakeup"
        THEN arg[p] = parent[p] /\ (idx[p] > parent[p] => ~InWait(parent[p]))
        ELSE ~InWait(parent[p])
\* p has handed a child to init and is about to look at init's slot.
WakingInit(p) == pc[p] = "wakeup" /\ resume[p] = "reparent" /\ idx[p] <= initproc
InitWoken == \A p \in Slot : pc[p] = "wakeup" /\ resume[p] = "reparent" => arg[p] = initproc
ZombieSeen ==
    \A s \in Slot : Zombie(s) /\ InWait(parent[s]) =>
        parent[s] = initproc /\ \E p \in Slot : WakingInit(p)
\* wait()'s scan has found no zombie so far, or in the whole table.
Scanned ==
    \A q, s \in Slot : parent[s] = q =>
        /\ pc[q] = "wait_scan" /\ s < idx[q] => ~Zombie(s)
        /\ pc[q] = "wait_check" => ~Zombie(s)
        /\ pc[q] \in {"sleep", "sleep_set"} /\ arg[q] = q => ~Zombie(s)

Threads == OwnThread /\ LockHeld /\ Running /\ Switched
Slots == SlotStates /\ InitLives /\ ForkArgs /\ SleepArgs
Kin == /\ WaitLockHeld /\ Childless /\ ParentWoken /\ InitWoken /\ ZombieSeen
       /\ Scanned /\ ParentsAlive

IInv == Types /\ Threads /\ Slots /\ Kin

-----------------------------------------------------------------------------
\* The process table and the values that stand for no slot of it.
LEMMA SlotFacts ==
  /\ Slot \subseteq Nat \ {0} /\ None \in Nat /\ Ticks \in Nat
  /\ initproc \in Slot /\ None \notin Slot /\ Ticks \notin Slot
BY ProcAssumption DEF Slot, None, Ticks, initproc

(***************************************************************************)
(* Steps of a thread that touch no field of the process table.             *)
(***************************************************************************)
\* Locations before and after such a step.
Between == Unlocked \cup {"ticks_check", "wait_scan", "wait_check"}
Quiet == {"user", "ret", "fork", "exit", "wait", "kill", "sys_sleep", "ticks_check"}

\* The thread of p goes on to l, and gives wait_lock back if it holds it.
Goes(p, l, a, i) ==
    /\ Goto(p, l)
    /\ arg' = [arg EXCEPT ![p] = a] /\ idx' = [idx EXCEPT ![p] = i]
    /\ wait_lock' = IF HoldsWait(p) THEN Free ELSE wait_lock
    /\ UNCHANGED <<state, chan, parent, plock, proc, resume>>

(***************************************************************************)
(* Every step preserves the invariant, action by action.  The definitions  *)
(* of Slot, None, Ticks and initproc stay hidden behind SlotFacts.         *)
(***************************************************************************)
USE ProcAssumption, SlotFacts
    DEF On, Goto, Lock, Set, fields, locks, IInv, Types, Counters, Threads, Slots, Kin, Loc,
        States, Switching, Locked, Family, PCs, Unlocked, Resumes

USE DEF OwnThread, LockHeld, Running, Switched, SlotStates, InitLives, ForkArgs, Forking,
    SleepArgs, WaitLockHeld, HoldsWait, Childless, Leaving, ParentWoken, InWait,
    InitWoken, ZombieSeen, Zombie, WakingInit, Scanned, ParentsAlive

\* allocproc() takes a slot.
LEMMA fork_allocStep ==
  ASSUME IInv, NEW c \in CPU, NEW p \in Slot, NEW s \in Slot,
         fork_alloc(c, p, s)
  PROVE  IInv'
BY SMTT(30) DEF fork_alloc, LooksAt

\* wait() frees a zombie child.
LEMMA wait_reapStep ==
  ASSUME IInv, NEW c \in CPU, NEW p \in Slot, NEW s \in Slot,
         wait_reap(c, p, s)
  PROVE  IInv'
BY SMTT(30) DEF wait_reap, freeproc, NextKid

\* A step of a thread on its own preserves the invariant.
LEMMA GoesStep ==
  ASSUME IInv, NEW c \in CPU, NEW p \in Slot, NEW l \in Quiet, NEW a \in Nat, NEW i \in Nat,
         proc[c] = p, pc[p] \in Between, Counters', Goes(p, l, a, i)
  PROVE  IInv'
BY SMTT(30) DEF Goes, Between, Quiet

\* p takes wait_lock, in wait(), when it wakes up there, or in exit().
LEMMA EnterStep ==
  ASSUME IInv, NEW c \in CPU, NEW p \in Slot, NEW l \in {"wait_scan", "reparent"},
         NEW a \in Nat, NEW i \in Nat,
         proc[c] = p, pc[p] \in Unlocked, wait_lock = Free, wait_lock' = c, Counters',
         l = "wait_scan" => i = 1, l = "reparent" => p # initproc,
         Goto(p, l), arg' = [arg EXCEPT ![p] = a], idx' = [idx EXCEPT ![p] = i],
         UNCHANGED <<state, chan, parent, plock, proc, resume>>
  PROVE  IInv'
<1>1. \A s \in Slot : ~(s < 1)
  OBVIOUS
<1> QED
  BY <1>1, SMTT(30)

\* A sleeper is made RUNNABLE, by kill() or the clock interrupt.
LEMMA WakeStep ==
  ASSUME IInv, NEW s \in Slot, NEW p \in Slot, NEW i \in Nat, plock[s] = Free,
         state[s] = "SLEEPING", Set(s, "RUNNABLE"), Counters',
         pc[p] \in Family => i = idx[p], idx' = [idx EXCEPT ![p] = i],
         UNCHANGED <<chan, parent, plock, wait_lock, proc, pc, resume, arg>>
  PROVE  IInv'
BY SMTT(30)

\* yield() makes a running process RUNNABLE, with p->lock held.
LEMMA yieldStep ==
  ASSUME IInv, NEW c \in CPU, NEW p \in Slot, timer(c, p), yield(c, p)
  PROVE  IInv'
BY SMTT(30) DEF timer, yield

\* wait() or sys_sleep() calls sleep().
LEMMA SleepsStep ==
  ASSUME IInv, NEW c \in CPU, NEW p \in Slot, proc[c] = p, Goto(p, "sleep"),
         \/ pc[p] = "wait_check" /\ arg' = [arg EXCEPT ![p] = p]
         \/ pc[p] = "ticks_check" /\ arg' = [arg EXCEPT ![p] = Ticks],
         UNCHANGED <<fields, nextpid, plock, wait_lock, proc, resume, idx, tick>>
  PROVE  IInv'
BY SMTT(30)

\* fork() makes the child RUNNABLE.
LEMMA fork_runStep ==
  ASSUME IInv, NEW c \in CPU, NEW p \in Slot, fork_run(c, p)
  PROVE  IInv'
BY SMTT(30) DEF fork_run

\* allocproc() gives a slot back when memory runs out.
LEMMA fork_nomemStep ==
  ASSUME IInv, NEW c \in CPU, NEW p \in Slot, NEW s \in Slot,
         fork_nomem(c, p, s)
  PROVE  IInv'
BY SMTT(30) DEF fork_nomem, LooksAt, freeproc

\* sleep() gives up the lock of the condition and goes to sleep.
LEMMA sleep_setStep ==
  ASSUME IInv, NEW c \in CPU, NEW p \in Slot, sleep_set(c, p)
  PROVE  IInv'
BY SMTT(30) DEF sleep_set

(***************************************************************************)
(* The actions whose cases are taken apart.                                *)
(***************************************************************************)
\* exit() hands a child to init, or has none left.
LEMMA reparentStep ==
  ASSUME IInv, NEW c \in CPU, NEW p \in Slot, reparent(c, p)
  PROVE  IInv'
<1>1. p # initproc /\ parent[p] \in Slot
  BY DEF reparent
<1>2. 1 <= initproc /\ parent[p] \in Nat /\ ~(1 > parent[p])
  <2> HIDE DEF IInv
  <2>1. parent[p] \in Nat \ {0}
    BY <1>1, Zenon
  <2> QED
    BY <2>1 DEF initproc
<1>3. ASSUME NEW s \in Slot, parent[s] = p, CallWakeup(p, initproc, "reparent"),
             parent' = [parent EXCEPT ![s] = initproc]
      PROVE  IInv'
  BY <1>1, <1>2, <1>3, SMTT(30) DEF reparent, CallWakeup
<1>4. CASE /\ \A s \in Slot : parent[s] # p
           /\ CallWakeup(p, parent[p], "exit_lock") /\ parent' = parent
  <2>1. ParentWoken'
    BY <1>1, <1>2, <1>4 DEF reparent, CallWakeup
  <2>2. Types' /\ Threads'
    BY <1>1, <1>2, <1>4 DEF reparent, CallWakeup
  <2>3. Slots'
    BY <1>1, <1>2, <1>4 DEF reparent, CallWakeup
  <2>4. WaitLockHeld' /\ Childless' /\ InitWoken' /\ ZombieSeen' /\ Scanned' /\ ParentsAlive'
    BY <1>1, <1>2, <1>4 DEF reparent, CallWakeup
  <2> HIDE DEF Types, Threads, Slots, WaitLockHeld, Childless, ParentWoken, InitWoken,
         ZombieSeen, Scanned, ParentsAlive
  <2> QED
    BY <2>1, <2>2, <2>3, <2>4, Zenon
<1> HIDE DEF IInv
<1> QED
  BY <1>3, <1>4, Zenon DEF reparent

\* A thread goes on after swtch.
LEMMA swtchedStep ==
  ASSUME IInv, NEW c \in CPU, NEW p \in Slot, swtched(c, p)
  PROVE  IInv'
<1>1. resume[p] \in Unlocked
  BY Zenon DEF swtched
<1> QED
  BY <1>1 DEF swtched

\* One turn of wakeup's loop: the caller is past the slots it has woken.
LEMMA wakeupStep ==
  ASSUME IInv, NEW c \in CPU, NEW p \in Slot, wakeup(c, p)
  PROVE  IInv'
<1>1. /\ p # initproc /\ parent[p] \in Slot
      /\ resume[p] \in {"reparent", "exit_lock"} /\ idx[p] > 0 /\ idx[p] \in Nat
  BY DEF wakeup
<1>2. CASE idx[p] > NPROC
  <2>1. idx[p] > initproc /\ idx[p] > parent[p]
    <3> HIDE DEF IInv
    <3> QED
      BY <1>1, <1>2 DEF Slot, initproc
  <2> QED
    BY <1>1, <1>2, <2>1 DEF wakeup
<1>3. CASE ~(idx[p] > NPROC)
  <2>1. PICK s \in Slot : /\ s = idx[p]
                          /\ \A r \in Slot : s + 1 > r => s > r \/ s = r
                          /\ s <= initproc => s = initproc
    <3> HIDE DEF IInv
    <3>1. idx[p] \in Slot
      BY <1>1, <1>3 DEF Slot
    <3>2. \A r \in Slot : idx[p] + 1 > r => idx[p] > r \/ idx[p] = r
      BY <1>1
    <3>3. idx[p] <= initproc => idx[p] = initproc
      BY <1>1 DEF initproc
    <3> QED
      BY <3>1, <3>2, <3>3, Zenon
  <2>2. CASE s = p \/ ~(state[s] = "SLEEPING" /\ chan[s] = arg[p])
    <3>1. /\ pc[p] = "wakeup" /\ idx' = [idx EXCEPT ![p] = s + 1] /\ s \in Nat
          /\ UNCHANGED <<fields, nextpid, plock, wait_lock, proc, pc, resume, arg, tick>>
      <4> HIDE DEF IInv
      <4> QED
        BY <1>3, <2>1, <2>2, Zenon DEF wakeup, WakeOne
    <3> HIDE DEF IInv, Types, Counters, Threads, Slots, Kin, Unlocked, Locked, PCs, Resumes,
                 Family, Switching, Loc
    <3>2. Types'
      BY <3>1 DEF IInv, Types, Counters
    <3>3. Threads' /\ Slots'
      BY <3>1 DEF IInv, Types, Threads, Slots, Loc
    <3>4. Kin'
      BY <1>1, <2>1, <2>2, <3>1 DEF IInv, Types, Kin, Family
    <3> QED
      BY <3>2, <3>3, <3>4, Zenon DEF IInv
  <2>3. CASE s # p /\ state[s] = "SLEEPING" /\ chan[s] = arg[p]
    <3>1. Types' /\ Threads' /\ Slots'
      BY <1>1, <1>3, <2>1, <2>3 DEF wakeup, WakeOne
    <3>2. WaitLockHeld' /\ Childless' /\ InitWoken' /\ ParentWoken'
      BY <1>1, <1>3, <2>1, <2>3 DEF wakeup, WakeOne
    <3>3. /\ state'[s] = "RUNNABLE" /\ \A q \in Slot : q # s => state'[q] = state[q]
          /\ pc[p] = "wakeup" /\ idx'[p] = s + 1 /\ \A q \in Slot : q # p => idx'[q] = idx[q]
          /\ UNCHANGED <<pc, resume, arg, parent, chan>>
          /\ \A q \in Slot : parent[q] # None => parent[q] \in Slot
          /\ \A q \in Slot : Zombie(q) => parent[q] # None
          /\ ZombieSeen /\ Scanned /\ ParentsAlive /\ InitWoken
      BY <1>3, <2>1, <2>3 DEF wakeup, WakeOne
    <3> HIDE DEF IInv
    <3>4. \A q \in Slot : /\ Zombie(q)' <=> Zombie(q)
                          /\ InWait(q)' => InWait(q) /\ q # s
      BY <2>3, <3>3, Zenon
    <3>5. ZombieSeen'
      <4>1. \A q \in Slot : WakingInit(q) => WakingInit(q)' \/ (q = p /\ s = initproc)
        BY <2>1, <3>3, Zenon
      <4>2. WakingInit(p) /\ s = initproc => ~InWait(initproc)'
        BY <3>4, Zenon
      <4> HIDE DEF Zombie, WakingInit
      <4> QED
        BY <3>3, <3>4, <4>1, <4>2, Zenon
    <3>6. Scanned'
      <4> HIDE DEF Zombie
      <4> QED
        BY <3>3, <3>4
    <3>7. ParentsAlive'
      BY <3>3, Zenon
    <3> HIDE DEF Types, Threads, Slots, WaitLockHeld, Childless, ParentWoken, InitWoken,
                 ZombieSeen, Scanned, ParentsAlive
    <3> QED
      BY <3>1, <3>2, <3>5, <3>6, <3>7, Zenon DEF IInv
  <2> HIDE DEF IInv
  <2> QED
    BY <2>2, <2>3, Zenon
<1> HIDE DEF IInv
<1> QED
  BY <1>2, <1>3, Zenon

(***************************************************************************)
(* The initial state, and the actions that follow from the definitions.    *)
(***************************************************************************)
\* A freshly booted system satisfies the invariant.
LEMMA InitIInv == Init => IInv
BY SMTT(30) DEF Init

\* The scheduler hands a RUNNABLE slot to a CPU.
LEMMA schedulerStep ==
  ASSUME IInv, NEW c \in CPU, NEW p \in Slot, scheduler(c, p)
  PROVE  IInv'
BY SMTT(30) DEF scheduler

\* A thread gives its CPU back to the scheduler.
LEMMA schedStep ==
  ASSUME IInv, NEW c \in CPU, NEW p \in Slot, sched(c, p)
  PROVE  IInv'
BY SMTT(30) DEF sched

\* sleep() takes p->lock.
LEMMA sleepStep ==
  ASSUME IInv, NEW c \in CPU, NEW p \in Slot, sleep(c, p)
  PROVE  IInv'
BY SMTT(30) DEF sleep

\* fork() makes the caller the parent.
LEMMA fork_parentStep ==
  ASSUME IInv, NEW c \in CPU, NEW p \in Slot, fork_parent(c, p)
  PROVE  IInv'
BY SMTT(30) DEF fork_parent

\* exit() takes p->lock.
LEMMA exit_lockStep ==
  ASSUME IInv, NEW c \in CPU, NEW p \in Slot, exit_lock(c, p)
  PROVE  IInv'
BY SMTT(30) DEF exit_lock

\* exit() makes the process a ZOMBIE.
LEMMA zombieStep ==
  ASSUME IInv, NEW c \in CPU, NEW p \in Slot, zombie(c, p)
  PROVE  IInv'
BY SMTT(30) DEF zombie

(***************************************************************************)
(* The other actions are instances of these steps.                         *)
(***************************************************************************)
HIDE DEF IInv, Types, Counters, Threads, Slots, Kin, Unlocked, Locked, PCs, Resumes,
         Family, Switching, Loc, HoldsWait

\* The fields of a thread, each with its type, and the counters.
LEMMA OwnFields ==
  ASSUME IInv, NEW p \in Slot
  PROVE  /\ Counters /\ arg[p] \in Nat /\ idx[p] \in Nat
         /\ pc = [pc EXCEPT ![p] = pc[p]]
         /\ arg = [arg EXCEPT ![p] = arg[p]] /\ idx = [idx EXCEPT ![p] = idx[p]]
BY Zenon DEF IInv, Types

\* A step that leaves all fields but the counters alone preserves the invariant.
LEMMA SameStep ==
  ASSUME IInv, Counters',
         UNCHANGED <<state, chan, parent, plock, wait_lock, proc, pc, resume, arg, idx>>
  PROVE  IInv'
<1>1. Types'
  BY Zenon DEF IInv, Types
<1>2. Threads' /\ Slots'
  BY DEF IInv, Threads, OwnThread, LockHeld, Running, Switched,
     Slots, SlotStates, InitLives, ForkArgs, Forking, SleepArgs, Loc
<1>3. Kin'
  BY DEF IInv, Kin, WaitLockHeld, HoldsWait, Childless, Leaving, ParentWoken, InWait,
     InitWoken, ZombieSeen, Zombie, WakingInit, Scanned, ParentsAlive
<1> QED
  BY <1>1, <1>2, <1>3, Zenon DEF IInv

\* A system call starts.
LEMMA syscallStep ==
  ASSUME IInv, NEW c \in CPU, NEW p \in Slot, NEW call \in Calls \cup {"fork", "wait"},
         syscall(c, p, call)
  PROVE  IInv'
<1>1. proc[c] = p /\ pc[p] \in Between /\ Counters'
  BY OwnFields, Zenon DEF syscall, Between, Unlocked, Counters
<1>2. PICK l \in Quiet, i \in Nat : Goes(p, l, arg[p], i)
  BY OwnFields DEF syscall, Quiet, Goes, HoldsWait, Family
<1> QED
  BY <1>1, <1>2, OwnFields, GoesStep, Zenon

\* A system call returns.
LEMMA retStep ==
  ASSUME IInv, NEW c \in CPU, NEW p \in Slot, ret(c, p)
  PROVE  IInv'
<1>1. proc[c] = p /\ pc[p] \in Between /\ Counters'
  BY OwnFields, Zenon DEF ret, Between, Unlocked, Counters
<1>2. PICK l \in Quiet : Goes(p, l, arg[p], idx[p])
  BY OwnFields, Zenon DEF ret, Quiet, Goes, HoldsWait, Family
<1> QED
  BY <1>1, <1>2, OwnFields, GoesStep, Zenon

\* allocproc() passes over a slot that is in use.
LEMMA allocproc_nextStep ==
  ASSUME IInv, NEW c \in CPU, NEW p \in Slot, NEW s \in Slot, allocproc_next(c, p, s)
  PROVE  IInv'
<1>1. proc[c] = p /\ pc[p] \in Between /\ Counters'
  BY OwnFields, Zenon DEF allocproc_next, LooksAt, Between, Unlocked, Counters
<1>2. Goes(p, "fork", arg[p], s + 1)
  BY OwnFields, Zenon DEF allocproc_next, LooksAt, Goes, HoldsWait, Family
<1> QED
  BY <1>1, <1>2, OwnFields, GoesStep DEF Quiet

\* fork() fails.
LEMMA fork_fullStep ==
  ASSUME IInv, NEW c \in CPU, NEW p \in Slot, fork_full(c, p)
  PROVE  IInv'
<1>1. proc[c] = p /\ pc[p] \in Between /\ Counters'
  BY OwnFields, Zenon DEF fork_full, Between, Unlocked, Counters
<1>2. Goes(p, "ret", arg[p], 0)
  BY OwnFields, Zenon DEF fork_full, Goes, HoldsWait, Family
<1> QED
  BY <1>1, <1>2, OwnFields, GoesStep, Zenon DEF Quiet

\* wait() cannot copy the status out.
LEMMA wait_badaddrStep ==
  ASSUME IInv, NEW c \in CPU, NEW p \in Slot, NEW s \in Slot, wait_badaddr(c, p, s)
  PROVE  IInv'
<1>1. proc[c] = p /\ pc[p] \in Between /\ Counters'
  BY OwnFields, Zenon DEF wait_badaddr, Between, Counters
<1>2. Goes(p, "ret", arg[p], 0)
  BY OwnFields, Zenon DEF wait_badaddr, Goes, HoldsWait, Family
<1> QED
  BY <1>1, <1>2, OwnFields, GoesStep, Zenon DEF Quiet

\* kill() starts.
LEMMA killStep ==
  ASSUME IInv, NEW c \in CPU, NEW p \in Slot, NEW k \in KillArgs, kill(c, p, k)
  PROVE  IInv'
<1>1. proc[c] = p /\ pc[p] \in Between /\ Counters'
  BY OwnFields, Zenon DEF kill, Between, Unlocked, Counters
<1>2. Goes(p, "kill", k, 1)
  BY OwnFields, Zenon DEF kill, Goes, HoldsWait, Family
<1> QED
  BY <1>1, <1>2, GoesStep, Zenon DEF Quiet

\* kill() returns.
LEMMA kill_returnStep ==
  ASSUME IInv, NEW c \in CPU, NEW p \in Slot, kill_return(c, p)
  PROVE  IInv'
<1>1. proc[c] = p /\ pc[p] \in Between /\ Counters'
  BY OwnFields, Zenon DEF kill_return, Between, Unlocked, Counters
<1>2. Goes(p, "ret", None, 0)
  BY OwnFields, Zenon DEF kill_return, Goes, HoldsWait, Family
<1> QED
  BY <1>1, <1>2, GoesStep, Zenon DEF Quiet

\* sys_sleep() takes tickslock.
LEMMA sys_sleepStep ==
  ASSUME IInv, NEW c \in CPU, NEW p \in Slot, NEW n \in 0 .. MaxSleep, sys_sleep(c, p, n)
  PROVE  IInv'
<1>1. proc[c] = p /\ pc[p] \in Between /\ Counters'
  BY OwnFields, Zenon DEF sys_sleep, Between, Unlocked, Counters
<1>2. Goes(p, "ticks_check", arg[p], idx[p])
  BY OwnFields, Zenon DEF sys_sleep, Goes, HoldsWait, Family
<1> QED
  BY <1>1, <1>2, OwnFields, GoesStep, Zenon DEF Quiet

\* The clock interrupt starts.
LEMMA clockintrStep ==
  ASSUME IInv, clockintr
  PROVE  IInv'
<1>1. Counters
  BY Zenon DEF IInv, Types
<1> QED
  BY <1>1, SameStep, Zenon DEF clockintr, Counters

\* Steps of other components leave the invariant alone.
LEMMA StutterStep ==
  ASSUME IInv, UNCHANGED vars
  PROVE  IInv'
<1>1. Counters
  BY Zenon DEF IInv, Types
<1> QED
  BY <1>1, SameStep, Zenon DEF vars, Counters

\* A timer interrupt.
LEMMA timerStep ==
  ASSUME IInv, NEW c \in CPU, NEW p \in Slot, timer(c, p)
  PROVE  IInv'
<1>1. CASE pc[p] = "user" /\ killed[p] = 1
  <2>1. proc[c] = p /\ pc[p] \in Between /\ Counters'
    BY <1>1, OwnFields, Zenon DEF timer, Between, Unlocked, Counters
  <2>2. Goes(p, "exit", arg[p], idx[p])
    BY <1>1, OwnFields, Zenon DEF timer, Goes, HoldsWait, Family
  <2> QED
    BY <2>1, <2>2, OwnFields, GoesStep, Zenon DEF Quiet
<1>2. CASE yield(c, p)
  BY <1>2, yieldStep, Zenon
<1> QED
  BY <1>1, <1>2, Zenon DEF timer

\* wait() fails, or decides to sleep.
LEMMA wait_checkStep ==
  ASSUME IInv, NEW c \in CPU, NEW p \in Slot, wait_check(c, p)
  PROVE  IInv'
<1>1. CASE Goto(p, "ret") /\ wait_lock' = Free /\ arg' = arg
  <2>1. proc[c] = p /\ pc[p] \in Between /\ Counters'
    BY OwnFields, Zenon DEF wait_check, Between, Counters
  <2>2. Goes(p, "ret", arg[p], idx[p])
    BY <1>1, OwnFields, Zenon DEF wait_check, Goes, HoldsWait, Family
  <2> QED
    BY <2>1, <2>2, OwnFields, GoesStep, Zenon DEF Quiet
<1>2. CASE Goto(p, "sleep") /\ arg' = [arg EXCEPT ![p] = p] /\ wait_lock' = wait_lock
  BY <1>2, SleepsStep, Zenon DEF wait_check
<1> QED
  BY <1>1, <1>2, Zenon DEF wait_check

\* sys_sleep() is done, or decides to sleep.
LEMMA ticks_checkStep ==
  ASSUME IInv, NEW c \in CPU, NEW p \in Slot, ticks_check(c, p)
  PROVE  IInv'
<1>1. CASE Goto(p, "ret") /\ arg' = arg
  <2>1. proc[c] = p /\ pc[p] \in Between /\ Counters'
    BY OwnFields, Zenon DEF ticks_check, Between, Counters
  <2>2. Goes(p, "ret", arg[p], idx[p])
    BY <1>1, OwnFields, Zenon DEF ticks_check, Goes, HoldsWait, Family
  <2> QED
    BY <2>1, <2>2, OwnFields, GoesStep, Zenon DEF Quiet
<1>2. CASE Goto(p, "sleep") /\ arg' = [arg EXCEPT ![p] = Ticks]
  BY <1>2, SleepsStep, Zenon DEF ticks_check
<1> QED
  BY <1>1, <1>2, Zenon DEF ticks_check

\* kill() looks at a slot, and wakes the process it is to kill.
LEMMA kill_scanStep ==
  ASSUME IInv, NEW c \in CPU, NEW p \in Slot, NEW s \in Slot, kill_scan(c, p, s)
  PROVE  IInv'
<1>1. proc[c] = p /\ pc[p] \in Between /\ Counters'
  BY OwnFields, Zenon DEF kill_scan, Between, Unlocked, Counters
<1>2. PICK i \in Nat : idx' = [idx EXCEPT ![p] = i]
  BY DEF kill_scan
<1>3. CASE state' = state
  <2>1. Goes(p, "kill", arg[p], i)
    BY <1>2, <1>3, OwnFields, Zenon DEF kill_scan, Goes, HoldsWait, Family
  <2> QED
    BY <1>1, <2>1, OwnFields, GoesStep, Zenon DEF Quiet
<1>4. CASE state[s] = "SLEEPING" /\ Set(s, "RUNNABLE")
  <2>1. pc[p] \notin Family
    BY Zenon DEF kill_scan, Family
  <2> QED
    BY <1>1, <1>2, <1>4, <2>1, WakeStep, Zenon DEF kill_scan
<1> QED
  BY <1>3, <1>4, Zenon DEF kill_scan

\* One turn of the clock interrupt's wakeup loop.
LEMMA clockintr_wakeupStep ==
  ASSUME IInv, clockintr_wakeup
  PROVE  IInv'
<1>1. Counters' /\ tick \in Nat
  BY DEF clockintr_wakeup, IInv, Types, Counters
<1>2. CASE state' = state
  BY <1>1, <1>2, SameStep, Zenon DEF clockintr_wakeup
<1>3. CASE state' # state
  <2>1. /\ tick \in Slot /\ plock[tick] = Free /\ state[tick] = "SLEEPING"
        /\ Set(tick, "RUNNABLE")
    BY <1>1, <1>3 DEF clockintr_wakeup, WakeOne, Slot
  <2> QED
    BY <1>1, <2>1, OwnFields, WakeStep, Zenon DEF clockintr_wakeup
<1> QED
  BY <1>2, <1>3, Zenon

\* A sleeper takes the lock of its condition again.
LEMMA relockStep ==
  ASSUME IInv, NEW c \in CPU, NEW p \in Slot, relock(c, p)
  PROVE  IInv'
<1>1. proc[c] = p /\ pc[p] \in Unlocked /\ pc[p] \in Between /\ Counters'
  BY OwnFields, Zenon DEF relock, Between, Unlocked, Counters
<1>2. CASE arg[p] = Ticks /\ Goto(p, "ticks_check") /\ UNCHANGED <<wait_lock, idx>>
  <2>1. Goes(p, "ticks_check", None, idx[p])
    BY <1>2, OwnFields, Zenon DEF relock, Goes, HoldsWait, Family
  <2> QED
    BY <1>1, <2>1, OwnFields, GoesStep, Zenon DEF Quiet
<1>3. CASE /\ wait_lock = Free /\ wait_lock' = c /\ Goto(p, "wait_scan")
           /\ idx' = [idx EXCEPT ![p] = 1]
  BY <1>1, <1>3, EnterStep, Zenon DEF relock
<1> QED
  BY <1>2, <1>3, Zenon DEF relock

\* wait() takes wait_lock.
LEMMA waitStep ==
  ASSUME IInv, NEW c \in CPU, NEW p \in Slot, wait(c, p)
  PROVE  IInv'
<1>1. proc[c] = p /\ pc[p] \in Unlocked /\ Counters'
  BY OwnFields, Zenon DEF wait, Unlocked, Counters
<1> QED
  BY <1>1, OwnFields, EnterStep, Zenon DEF wait

\* exit() takes wait_lock.
LEMMA exitStep ==
  ASSUME IInv, NEW c \in CPU, NEW p \in Slot, exit(c, p)
  PROVE  IInv'
<1>1. proc[c] = p /\ pc[p] \in Unlocked /\ Counters'
  BY OwnFields, Zenon DEF exit, Unlocked, Counters
<1>2. CASE p = initproc
  BY <1>1, <1>2, SameStep, Zenon DEF exit
<1>3. CASE p # initproc
  BY <1>1, <1>3, OwnFields, EnterStep DEF exit
<1> QED
  BY <1>2, <1>3, Zenon

\* wait() passes over a child, or comes to the end of the table.
LEMMA wait_scanStep ==
  ASSUME IInv, NEW c \in CPU, NEW p \in Slot, wait_scan(c, p)
  PROVE  IInv'
<1>1. Types'
  BY DEF wait_scan, IInv, Types, Counters, PCs, Family, Unlocked, Locked, Switching
<1>2. Threads' /\ Slots'
  BY DEF wait_scan, IInv, Types, Threads, Slots, Loc, Locked, Switching
<1>3. \A s \in Slot : parent[s] = p =>
        /\ pc'[p] = "wait_scan" /\ s < idx'[p] => state[s] # "ZOMBIE"
        /\ pc'[p] = "wait_check" => state[s] # "ZOMBIE"
  BY DEF wait_scan, NextKid, IInv, Types, Kin
<1>4. Kin'
  BY <1>3 DEF wait_scan, IInv, Types, Kin, HoldsWait, Family
<1> QED
  BY <1>1, <1>2, <1>4, Zenon DEF IInv

\* What the invariant says of CPUs and the slots they run.
LEMMA ImpliesOneThreadPerSlot == IInv => OneThreadPerSlot
<1> SUFFICES ASSUME IInv, NEW c \in CPU, proc[c] # None
             PROVE  /\ \A d \in CPU : proc[d] = proc[c] => d = c
                    /\ state[proc[c]] = "RUNNING" \/ plock[proc[c]] = c
                    /\ state[proc[c]] \notin {"UNUSED", "USED"}
  BY Zenon DEF OneThreadPerSlot
<1>1. PICK s \in Slot : s = proc[c]
  <2>1. proc \in [CPU -> Slot \cup {None}]
    BY Zenon DEF IInv, Types
  <2> QED
    BY <2>1, Zenon
<1>2. \A d \in CPU : proc[d] = s => d = c
  BY <1>1 DEF IInv, Threads, OwnThread
<1>3. (state[s] = "RUNNING" \/ plock[s] = c) /\ state[s] \notin {"UNUSED", "USED"}
  BY <1>1 DEF IInv, Types, States, Threads, Running, Locked, Switching
<1> QED
  BY <1>1, <1>2, <1>3, Zenon

\* What it says of sleepers in wait() and of zombies.
LEMMA ImpliesNoZombieMissed == IInv => NoZombieMissed
BY DEF IInv, Kin, Slots, Types, NoZombieMissed, WaitLockHeld, HoldsWait, Family

\* Every step of the system preserves the invariant.
LEMMA NextIInv == IInv /\ [Next]_vars => IInv'
<1>1. ASSUME IInv, NEW c \in CPU, NEW p \in Slot,
             scheduler(c, p) \/ timer(c, p) \/ Swtch(c, p) \/ User(c, p)
      PROVE  IInv'
  BY <1>1, schedulerStep, timerStep, swtchedStep, schedStep, syscallStep, killStep
     DEF Swtch, User
<1>2. ASSUME IInv, NEW c \in CPU, NEW p \in Slot, Fork(c, p)
      PROVE  IInv'
  BY <1>2, allocproc_nextStep, fork_allocStep, fork_nomemStep, fork_fullStep,
     fork_parentStep, fork_runStep DEF Fork
<1>3. ASSUME IInv, NEW c \in CPU, NEW p \in Slot, Exit(c, p)
      PROVE  IInv'
  BY <1>3, exitStep, reparentStep, wakeupStep, exit_lockStep, zombieStep, Zenon DEF Exit
<1>4. ASSUME IInv, NEW c \in CPU, NEW p \in Slot, Wait(c, p)
      PROVE  IInv'
  BY <1>4, waitStep, wait_scanStep, wait_checkStep, wait_reapStep, wait_badaddrStep, Zenon DEF Wait
<1>5. ASSUME IInv, NEW c \in CPU, NEW p \in Slot, Sleep(c, p)
      PROVE  IInv'
  BY <1>5, sleepStep, sleep_setStep, relockStep, sys_sleepStep, ticks_checkStep, Zenon DEF Sleep
<1>6. ASSUME IInv, NEW c \in CPU, NEW p \in Slot, Kernel(c, p)
      PROVE  IInv'
  BY <1>2, <1>3, <1>4, <1>5, <1>6, kill_scanStep, kill_returnStep, retStep, Zenon DEF Kernel
<1> QED
  BY <1>1, <1>6, StutterStep, clockintrStep, clockintr_wakeupStep, Zenon DEF Next

-----------------------------------------------------------------------------
(* The results.                                                            *)

\* The inductive invariant holds in every reachable state: the fields of the
\* process table, the locks and the places the threads are at agree.
THEOREM Invariance == Spec => []IInv
<1> QED
  BY InitIInv, NextIInv, PTL DEF Spec

\* One kernel thread per slot and one CPU per thread: p->lock, handed from the
\* thread to the scheduler and back across swtch, keeps a slot whose thread is
\* still executing from being run, woken or freed by anybody else.
THEOREM OneThreadPerSlotHolds == Spec => []OneThreadPerSlot
<1> QED
  BY ImpliesOneThreadPerSlot, Invariance, PTL

\* exit() leaves no orphans: the parent of a process never is a free slot or a
\* zombie, in particular not one that forked, exited or was reaped meanwhile.
THEOREM ParentsAliveHolds == Spec => []ParentsAlive
<1> HIDE DEF IInv, ParentsAlive
<1>1. IInv => ParentsAlive
  BY Zenon DEF IInv, Kin
<1> QED
  BY <1>1, Invariance, PTL

\* No lost wakeup between exit() and wait(): with wait_lock free, no process
\* sleeps in wait() while it has a zombie to reap, inherited ones included.
THEOREM NoZombieMissedHolds == Spec => []NoZombieMissed
<1> QED
  BY ImpliesNoZombieMissed, Invariance, PTL

=============================================================================
