-------------------------------- MODULE Proc --------------------------------
(***************************************************************************)
(* Processes and their scheduling, from kernel/proc.c: each CPU runs its   *)
(* scheduler loop or the kernel thread of one process; processes fork,     *)
(* exit, wait, kill and sleep; the clock interrupt wakes sleepers.         *)
(*                                                                         *)
(* Spinlocks are explicit wherever they stay held from one step to the     *)
(* next: p->lock is carried across swtch by the thread that gives up the   *)
(* CPU and by the scheduler that hands it out, wait_lock is held while     *)
(* exit() and wait() take p->lock of other processes, tickslock while      *)
(* clockintr() does.  A critical section that takes one p->lock and gives  *)
(* it back is one step, possible when that lock is free.  A thread that    *)
(* holds no lock can be preempted by the timer.                            *)
(*                                                                         *)
(* The scheduler's round over the table is a choice of a RUNNABLE slot     *)
(* (passing over the others changes nothing).  clockintr() runs as a       *)
(* thread of its own: it interrupts a CPU that holds no lock.  ticks       *)
(* appears as the number of ticks each sys_sleep still has to wait for.    *)
(***************************************************************************)
EXTENDS Naturals, FiniteSets

CONSTANTS
    NPROC,      \* slots of the process table
    CPU,        \* harts
    Free,       \* "nobody holds the lock"
    Clock,      \* the clock interrupt, as the holder of a lock
    MaxPid,     \* bound on process ids handed out
    MaxSleep,   \* bound on the argument of sys_sleep
    KillArgs,   \* arguments of kill()
    Calls       \* system calls that programs other than init make, kill aside

ASSUME ProcAssumption ==
    /\ NPROC \in Nat \ {0}
    /\ MaxPid \in Nat /\ MaxSleep \in Nat
    /\ Free \notin CPU /\ Clock \notin CPU /\ Free # Clock
    /\ KillArgs \subseteq Nat
    /\ Calls \subseteq {"fork", "exit", "wait", "sys_sleep"}

Slot     == 1 .. NPROC
initproc == 1
None     == 0                \* no process, no parent, no channel
Ticks    == NPROC + 1        \* the channel &ticks

VARIABLES
    state, chan, killed, pid, parent,  \* fields of struct proc
    nextpid,
    plock, wait_lock, tickslock,       \* who holds each lock
    proc,                              \* cpus[c].proc
    pc,       \* where each kernel thread is
    resume,   \* where it goes on after sched() or wakeup()
    arg,      \* argument of its sleep, wakeup or kill, or fork's np
    idx,      \* index of its loop over the process table
    due,      \* ticks its sys_sleep still has to wait for
    tick,     \* index of clockintr's wakeup loop, 0 when not running
    panicked  \* init exited

fields == <<state, chan, killed, pid, parent>>
locks  == <<plock, wait_lock, tickslock>>
vars   == <<state, chan, killed, pid, parent, nextpid, plock, wait_lock,
            tickslock, proc, pc, resume, arg, idx, due, tick, panicked>>


\* Locations at which a thread holds no lock.
Unlocked == {"user", "ret", "fork", "fork_parent", "fork_run", "exit", "wait",
             "kill", "relock", "sys_sleep"}
\* userinit(): the first process is ready to run, every other slot is free.
Init ==
    /\ state = [s \in Slot |-> IF s = initproc THEN "RUNNABLE" ELSE "UNUSED"]
    /\ chan = [s \in Slot |-> None]
    /\ killed = [s \in Slot |-> 0]
    /\ pid = [s \in Slot |-> IF s = initproc THEN 1 ELSE 0]
    /\ parent = [s \in Slot |-> None]
    /\ nextpid = 2
    /\ plock = [s \in Slot |-> Free]
    /\ wait_lock = Free
    /\ tickslock = Free
    /\ proc = [c \in CPU |-> None]
    /\ pc = [s \in Slot |-> IF s = initproc THEN "swtched" ELSE "none"]
    /\ resume = [s \in Slot |-> IF s = initproc THEN "user" ELSE "none"]
    /\ arg = [s \in Slot |-> None]
    /\ idx = [s \in Slot |-> 0]
    /\ due = [s \in Slot |-> 0]
    /\ tick = 0
    /\ panicked = 0

-----------------------------------------------------------------------------
(* Control: c runs the thread of p, which is at l.                         *)

On(c, p, l)  == panicked = 0 /\ proc[c] = p /\ pc[p] = l
Goto(p, l)   == pc' = [pc EXCEPT ![p] = l]
Lock(s, h)   == plock' = [plock EXCEPT ![s] = h]
Set(s, st)   == state' = [state EXCEPT ![s] = st]

\* freeproc: the fields it resets (sleep reset chan before).
freeproc(s) ==
    /\ Set(s, "UNUSED")
    /\ pid' = [pid EXCEPT ![s] = 0]
    /\ parent' = [parent EXCEPT ![s] = None]
    /\ chan' = [chan EXCEPT ![s] = None]
    /\ killed' = [killed EXCEPT ![s] = 0]

\* Call wakeup(ch), to go on at l.
CallWakeup(p, ch, l) ==
    /\ arg' = [arg EXCEPT ![p] = ch]
    /\ idx' = [idx EXCEPT ![p] = 1]
    /\ resume' = [resume EXCEPT ![p] = l]
    /\ Goto(p, "wakeup")

\* One turn of wakeup's loop, for another process than the caller.
WakeOne(s, ch) ==
    /\ plock[s] = Free
    /\ state' = IF state[s] = "SLEEPING" /\ chan[s] = ch
                THEN [state EXCEPT ![s] = "RUNNABLE"] ELSE state

wakeup(c, p) ==
    /\ On(c, p, "wakeup")
    /\ IF idx[p] > NPROC
       THEN /\ Goto(p, resume[p])
            /\ resume' = [resume EXCEPT ![p] = "none"]
            /\ arg' = [arg EXCEPT ![p] = None]
            /\ idx' = [idx EXCEPT ![p] = 0]
            /\ UNCHANGED state
       ELSE /\ IF idx[p] = p THEN UNCHANGED state ELSE WakeOne(idx[p], arg[p])
            /\ idx' = [idx EXCEPT ![p] = @ + 1]
            /\ UNCHANGED <<pc, resume, arg>>
    /\ UNCHANGED <<chan, killed, pid, parent, nextpid, locks, proc, due, tick,
                   panicked>>

-----------------------------------------------------------------------------
(* Scheduling.                                                             *)

\* scheduler(): hand a RUNNABLE process to c.  The thread releases p->lock.
scheduler(c, p) ==
    /\ panicked = 0 /\ proc[c] = None
    /\ plock[p] = Free /\ state[p] = "RUNNABLE"
    /\ Set(p, "RUNNING")
    /\ Lock(p, c)
    /\ proc' = [proc EXCEPT ![c] = p]
    /\ UNCHANGED <<chan, killed, pid, parent, nextpid, wait_lock, tickslock, pc,
                   resume, arg, idx, due, tick, panicked>>

\* The rest of sched(), yield(), sleep() or forkret() after swtch.
swtched(c, p) ==
    /\ On(c, p, "swtched")
    /\ chan' = [chan EXCEPT ![p] = None]
    /\ Lock(p, Free)
    /\ Goto(p, resume[p])
    /\ resume' = [resume EXCEPT ![p] = "none"]
    /\ UNCHANGED <<state, killed, pid, parent, nextpid, wait_lock, tickslock,
                   proc, arg, idx, due, tick, panicked>>

\* swtch back to scheduler(), which clears c->proc and releases p->lock.
sched(c, p) ==
    /\ On(c, p, "sched")
    /\ proc' = [proc EXCEPT ![c] = None]
    /\ Lock(p, Free)
    /\ Goto(p, "swtched")
    /\ UNCHANGED <<fields, nextpid, wait_lock, tickslock, resume, arg, idx, due,
                   tick, panicked>>

\* Seeded fault: yield makes p RUNNABLE without keeping p->lock until swtch.
yield_unlocked(c, p) ==
    /\ Set(p, "RUNNABLE")
    /\ UNCHANGED plock
    /\ resume' = [resume EXCEPT ![p] = pc[p]]
    /\ Goto(p, "sched")

yield(c, p) ==
    /\ plock[p] = Free
    /\ Lock(p, c)
    /\ Set(p, "RUNNABLE")
    /\ resume' = [resume EXCEPT ![p] = pc[p]]
    /\ Goto(p, "sched")

\* p spins in acquire(), with interrupts off.
Spinning(p) ==
    LET lk == CASE pc[p] \in {"exit", "wait", "fork_parent"} -> wait_lock
                [] pc[p] = "sys_sleep" -> tickslock
                [] pc[p] = "relock" -> IF arg[p] = p THEN wait_lock ELSE tickslock
                [] OTHER -> Free
    IN  lk # Free

\* A timer interrupt: usertrap exits if p was killed, otherwise (and in
\* kerneltrap) p yields.
timer(c, p) ==
    /\ panicked = 0 /\ proc[c] = p
    /\ pc[p] \in Unlocked /\ ~Spinning(p)
    /\ IF pc[p] = "user" /\ killed[p] = 1
       THEN Goto(p, "exit") /\ UNCHANGED <<state, plock, resume>>
       ELSE yield(c, p)
    /\ UNCHANGED <<chan, killed, pid, parent, nextpid, wait_lock, tickslock, proc,
                   arg, idx, due, tick, panicked>>

\* sleep(): p->lock is taken before the lock of the condition is given up.
sleep(c, p) ==
    /\ On(c, p, "sleep")
    /\ plock[p] = Free
    /\ Lock(p, c)
    /\ Goto(p, "sleep_set")
    /\ UNCHANGED <<fields, nextpid, wait_lock, tickslock, proc, resume, arg, idx,
                   due, tick, panicked>>

\* release(lk), then the state change and sched().
sleep_set(c, p) ==
    /\ On(c, p, "sleep_set")
    /\ wait_lock' = IF arg[p] = Ticks THEN wait_lock ELSE Free
    /\ tickslock' = IF arg[p] = Ticks THEN Free ELSE tickslock
    /\ chan' = [chan EXCEPT ![p] = arg[p]]
    /\ Set(p, "SLEEPING")
    /\ resume' = [resume EXCEPT ![p] = "relock"]
    /\ Goto(p, "sched")
    /\ UNCHANGED <<killed, pid, parent, nextpid, plock, proc, arg, idx, due, tick,
                   panicked>>

\* acquire(lk) after waking up, and back to the caller's loop.
relock(c, p) ==
    /\ On(c, p, "relock")
    /\ \/ /\ arg[p] = Ticks
          /\ tickslock = Free /\ tickslock' = c
          /\ Goto(p, "ticks_check")
          /\ UNCHANGED <<wait_lock, idx>>
       \/ /\ arg[p] = p
          /\ wait_lock = Free /\ wait_lock' = c
          /\ Goto(p, "wait_scan")
          /\ idx' = [idx EXCEPT ![p] = 1]
          /\ UNCHANGED tickslock
    /\ arg' = [arg EXCEPT ![p] = None]
    /\ UNCHANGED <<fields, nextpid, plock, proc, resume, due, tick, panicked>>

-----------------------------------------------------------------------------
(* usertrap(): a system call, unless p was killed, and the way back.       *)

\* init's program (user/init.c) calls fork and wait, over and over.
syscall(c, p, call) ==
    /\ On(c, p, "user") /\ plock[p] = Free
    /\ call \in IF p = initproc THEN {"fork", "wait"} ELSE Calls
    /\ IF killed[p] = 1
       THEN Goto(p, "exit") /\ UNCHANGED idx
       ELSE /\ Goto(p, call)
            /\ idx' = [idx EXCEPT ![p] = IF call = "fork" THEN 1 ELSE 0]
    /\ UNCHANGED <<fields, nextpid, locks, proc, resume, arg, due, tick, panicked>>

ret(c, p) ==
    /\ On(c, p, "ret")
    /\ plock[p] = Free
    /\ Goto(p, IF killed[p] = 1 THEN "exit" ELSE "user")
    /\ UNCHANGED <<fields, nextpid, locks, proc, resume, arg, idx, due, tick,
                   panicked>>

-----------------------------------------------------------------------------
(* fork().                                                                 *)

\* allocproc() looks at slot s.
LooksAt(c, p, s) ==
    /\ On(c, p, "fork") /\ idx[p] = s
    /\ plock[s] = Free

allocproc_next(c, p, s) ==
    /\ LooksAt(c, p, s) /\ state[s] # "UNUSED"
    /\ idx' = [idx EXCEPT ![p] = s + 1]
    /\ UNCHANGED <<fields, nextpid, locks, proc, pc, resume, arg, due, tick, panicked>>

\* It takes an UNUSED slot; p->lock is held until the slot is set up.
fork_alloc(c, p, s) ==
    /\ LooksAt(c, p, s) /\ state[s] = "UNUSED"
    /\ nextpid <= MaxPid
    /\ pid' = [pid EXCEPT ![s] = nextpid]
    /\ nextpid' = nextpid + 1
    /\ Set(s, "USED")
    /\ arg' = [arg EXCEPT ![p] = s]
    /\ idx' = [idx EXCEPT ![p] = 0]
    /\ pc' = [pc EXCEPT ![p] = "fork_parent", ![s] = "swtched"]
    /\ resume' = [resume EXCEPT ![s] = "user"]
    /\ UNCHANGED <<chan, killed, parent, locks, proc, due, tick, panicked>>

\* Memory runs out in allocproc() or uvmcopy(): the slot is freed again.
fork_nomem(c, p, s) ==
    /\ LooksAt(c, p, s) /\ state[s] = "UNUSED"
    /\ nextpid <= MaxPid
    /\ nextpid' = nextpid + 1
    /\ freeproc(s)
    /\ idx' = [idx EXCEPT ![p] = 0]
    /\ Goto(p, "ret")
    /\ UNCHANGED <<locks, proc, resume, arg, due, tick, panicked>>

\* allocproc() has met no UNUSED slot (or MaxPid is used up).
fork_full(c, p) ==
    /\ On(c, p, "fork")
    /\ nextpid > MaxPid \/ idx[p] > NPROC
    /\ idx' = [idx EXCEPT ![p] = 0]
    /\ Goto(p, "ret")
    /\ UNCHANGED <<fields, nextpid, locks, proc, resume, arg, due, tick, panicked>>

fork_parent(c, p) ==
    /\ On(c, p, "fork_parent")
    /\ wait_lock = Free
    /\ parent' = [parent EXCEPT ![arg[p]] = p]
    /\ Goto(p, "fork_run")
    /\ UNCHANGED <<state, chan, killed, pid, nextpid, locks, proc, resume, arg,
                   idx, due, tick, panicked>>

fork_run(c, p) ==
    /\ On(c, p, "fork_run")
    /\ plock[arg[p]] = Free
    /\ Set(arg[p], "RUNNABLE")
    /\ arg' = [arg EXCEPT ![p] = None]
    /\ Goto(p, "ret")
    /\ UNCHANGED <<chan, killed, pid, parent, nextpid, locks, proc, resume, idx,
                   due, tick, panicked>>

-----------------------------------------------------------------------------
(* exit().  Closing files and cwd comes before wait_lock is taken.         *)

exit(c, p) ==
    /\ On(c, p, "exit")
    /\ IF p = initproc
       THEN panicked' = 1 /\ UNCHANGED <<wait_lock, pc>>
       ELSE /\ wait_lock = Free /\ wait_lock' = c
            /\ Goto(p, "reparent")
            /\ UNCHANGED panicked
    /\ UNCHANGED <<fields, nextpid, plock, tickslock, proc, resume, arg, idx, due,
                   tick>>

\* Seeded fault: exit() does not wake its parent.
reparent_no_wakeup(c, p) ==
    /\ On(c, p, "reparent")
    /\ \/ \E s \in Slot :
            /\ parent[s] = p
            /\ parent' = [parent EXCEPT ![s] = initproc]
            /\ CallWakeup(p, initproc, "reparent")
       \/ /\ \A s \in Slot : parent[s] # p
          /\ Goto(p, "exit_lock")
          /\ UNCHANGED <<parent, resume, arg, idx>>
    /\ UNCHANGED <<state, chan, killed, pid, nextpid, locks, proc, due, tick,
                   panicked>>

\* Seeded fault: children that have already exited are not handed over.
reparent_skips_zombies(c, p) ==
    /\ On(c, p, "reparent")
    /\ \/ \E s \in Slot :
            /\ parent[s] = p /\ state[s] # "ZOMBIE"
            /\ parent' = [parent EXCEPT ![s] = initproc]
            /\ CallWakeup(p, initproc, "reparent")
       \/ /\ \A s \in Slot : parent[s] = p => state[s] = "ZOMBIE"
          /\ CallWakeup(p, parent[p], "exit_lock")
          /\ UNCHANGED parent
    /\ UNCHANGED <<state, chan, killed, pid, nextpid, locks, proc, due, tick,
                   panicked>>

\* reparent() hands a child to init and wakes init, until none is left; then
\* exit() wakes the parent.
reparent(c, p) ==
    /\ On(c, p, "reparent")
    /\ \/ \E s \in Slot :
            /\ parent[s] = p
            /\ parent' = [parent EXCEPT ![s] = initproc]
            /\ CallWakeup(p, initproc, "reparent")
       \/ /\ \A s \in Slot : parent[s] # p
          /\ CallWakeup(p, parent[p], "exit_lock")
          /\ UNCHANGED parent
    /\ UNCHANGED <<state, chan, killed, pid, nextpid, locks, proc, due, tick,
                   panicked>>

exit_lock(c, p) ==
    /\ On(c, p, "exit_lock")
    /\ plock[p] = Free
    /\ Lock(p, c)
    /\ Goto(p, "zombie")
    /\ UNCHANGED <<fields, nextpid, wait_lock, tickslock, proc, resume, arg, idx,
                   due, tick, panicked>>

\* Seeded fault: exit() keeps wait_lock.
zombie_keeps_wait_lock(c, p) ==
    /\ On(c, p, "zombie")
    /\ Set(p, "ZOMBIE")
    /\ resume' = [resume EXCEPT ![p] = "dead"]
    /\ Goto(p, "sched")
    /\ UNCHANGED <<chan, killed, pid, parent, nextpid, locks, proc, arg, idx, due,
                   tick, panicked>>

zombie(c, p) ==
    /\ On(c, p, "zombie")
    /\ Set(p, "ZOMBIE")
    /\ wait_lock' = Free
    /\ resume' = [resume EXCEPT ![p] = "dead"]
    /\ Goto(p, "sched")
    /\ UNCHANGED <<chan, killed, pid, parent, nextpid, plock, tickslock, proc, arg,
                   idx, due, tick, panicked>>

-----------------------------------------------------------------------------
(* wait().                                                                 *)

wait(c, p) ==
    /\ On(c, p, "wait")
    /\ wait_lock = Free /\ wait_lock' = c
    /\ idx' = [idx EXCEPT ![p] = 1]
    /\ Goto(p, "wait_scan")
    /\ UNCHANGED <<fields, nextpid, plock, tickslock, proc, resume, arg, due, tick,
                   panicked>>

\* The next slot of the scan that holds a child of p.
NextKid(p, s) ==
    /\ s >= idx[p] /\ parent[s] = p
    /\ \A r \in Slot : r >= idx[p] /\ parent[r] = p => r >= s

\* A child that has not exited, or the end of the table.
wait_scan(c, p) ==
    /\ On(c, p, "wait_scan")
    /\ \/ \E s \in Slot :
            /\ NextKid(p, s) /\ plock[s] = Free /\ state[s] # "ZOMBIE"
            /\ idx' = [idx EXCEPT ![p] = s + 1]
            /\ UNCHANGED pc
       \/ /\ \A s \in Slot : parent[s] = p => s < idx[p]
          /\ idx' = [idx EXCEPT ![p] = 0]
          /\ Goto(p, "wait_check")
    /\ UNCHANGED <<fields, nextpid, locks, proc, resume, arg, due, tick, panicked>>

\* A zombie child: free it, and return its pid.
wait_reap(c, p, s) ==
    /\ On(c, p, "wait_scan")
    /\ NextKid(p, s) /\ plock[s] = Free /\ state[s] = "ZOMBIE"
    /\ freeproc(s)
    /\ wait_lock' = Free
    /\ idx' = [idx EXCEPT ![p] = 0]
    /\ pc' = [pc EXCEPT ![p] = "ret", ![s] = "none"]
    /\ resume' = [resume EXCEPT ![s] = "none"]
    /\ UNCHANGED <<nextpid, plock, tickslock, proc, arg, due, tick, panicked>>

\* The status cannot be copied out (init passes no address).
wait_badaddr(c, p, s) ==
    /\ On(c, p, "wait_scan")
    /\ p # initproc
    /\ NextKid(p, s) /\ plock[s] = Free /\ state[s] = "ZOMBIE"
    /\ wait_lock' = Free
    /\ idx' = [idx EXCEPT ![p] = 0]
    /\ Goto(p, "ret")
    /\ UNCHANGED <<fields, nextpid, plock, tickslock, proc, resume, arg, due, tick,
                   panicked>>

\* No children, or killed: return -1; otherwise sleep.  (havekids: parent
\* fields do not change while wait_lock is held.)
wait_check(c, p) ==
    /\ On(c, p, "wait_check")
    /\ plock[p] = Free
    /\ IF killed[p] = 1 \/ \A s \in Slot : parent[s] # p
       THEN Goto(p, "ret") /\ wait_lock' = Free /\ UNCHANGED arg
       ELSE /\ Goto(p, "sleep") /\ arg' = [arg EXCEPT ![p] = p]
            /\ UNCHANGED wait_lock
    /\ UNCHANGED <<fields, nextpid, plock, tickslock, proc, resume, idx, due, tick,
                   panicked>>

-----------------------------------------------------------------------------
(* kill(), sys_sleep() and clockintr().                                    *)

\* kill(k) by p: the first slot the loop finds with pid k, whatever its state.
kill(c, p, k) ==
    /\ On(c, p, "user") /\ killed[p] = 0
    /\ arg' = [arg EXCEPT ![p] = k]
    /\ idx' = [idx EXCEPT ![p] = 1]
    /\ Goto(p, "kill")
    /\ UNCHANGED <<fields, nextpid, locks, proc, resume, due, tick, panicked>>

kill_scan(c, p, s) ==
    /\ On(c, p, "kill") /\ idx[p] = s
    /\ plock[s] = Free
    /\ IF pid[s] = arg[p]
       THEN /\ killed' = [killed EXCEPT ![s] = 1]
            /\ state' = IF state[s] = "SLEEPING"
                        THEN [state EXCEPT ![s] = "RUNNABLE"] ELSE state
            /\ idx' = [idx EXCEPT ![p] = NPROC + 1]
       ELSE idx' = [idx EXCEPT ![p] = s + 1] /\ UNCHANGED <<killed, state>>
    /\ UNCHANGED <<chan, pid, parent, nextpid, locks, proc, pc, resume, arg, due,
                   tick, panicked>>

kill_return(c, p) ==
    /\ On(c, p, "kill") /\ idx[p] > NPROC
    /\ arg' = [arg EXCEPT ![p] = None]
    /\ idx' = [idx EXCEPT ![p] = 0]
    /\ Goto(p, "ret")
    /\ UNCHANGED <<fields, nextpid, locks, proc, resume, due, tick, panicked>>

\* sys_sleep(n), up to the loop.
sys_sleep(c, p, n) ==
    /\ On(c, p, "sys_sleep")
    /\ tickslock = Free /\ tickslock' = c
    /\ due' = [due EXCEPT ![p] = n]
    /\ Goto(p, "ticks_check")
    /\ UNCHANGED <<fields, nextpid, plock, wait_lock, proc, resume, arg, idx, tick,
                   panicked>>

\* The loop: done, killed, or sleep(&ticks, &tickslock).
ticks_check(c, p) ==
    /\ On(c, p, "ticks_check")
    /\ plock[p] = Free
    /\ IF due[p] = 0 \/ killed[p] = 1
       THEN /\ Goto(p, "ret") /\ tickslock' = Free
            /\ due' = [due EXCEPT ![p] = 0] /\ UNCHANGED arg
       ELSE /\ Goto(p, "sleep") /\ arg' = [arg EXCEPT ![p] = Ticks]
            /\ UNCHANGED <<tickslock, due>>
    /\ UNCHANGED <<fields, nextpid, plock, wait_lock, proc, resume, idx, tick,
                   panicked>>

\* clockintr(): ticks++, then wakeup(&ticks), then release.  (Without
\* sys_sleep nobody looks at ticks.)
clockintr ==
    /\ "sys_sleep" \in Calls
    /\ panicked = 0 /\ tick = 0
    /\ tickslock = Free /\ tickslock' = Clock
    /\ due' = [s \in Slot |-> IF due[s] = 0 THEN 0 ELSE due[s] - 1]
    /\ tick' = 1
    /\ UNCHANGED <<fields, nextpid, plock, wait_lock, proc, pc, resume, arg, idx,
                   panicked>>

\* Seeded fault: wakeup's loop stops before the last slot.
clockintr_wakeup_short ==
    /\ panicked = 0 /\ tick > 0
    /\ IF tick >= NPROC
       THEN tickslock' = Free /\ tick' = 0 /\ UNCHANGED state
       ELSE WakeOne(tick, Ticks) /\ tick' = tick + 1 /\ UNCHANGED tickslock
    /\ UNCHANGED <<chan, killed, pid, parent, nextpid, plock, wait_lock, proc, pc,
                   resume, arg, idx, due, panicked>>

clockintr_wakeup ==
    /\ panicked = 0 /\ tick > 0
    /\ IF tick > NPROC
       THEN tickslock' = Free /\ tick' = 0 /\ UNCHANGED state
       ELSE WakeOne(tick, Ticks) /\ tick' = tick + 1 /\ UNCHANGED tickslock
    /\ UNCHANGED <<chan, killed, pid, parent, nextpid, plock, wait_lock, proc, pc,
                   resume, arg, idx, due, panicked>>

-----------------------------------------------------------------------------
Swtch(c, p) == swtched(c, p) \/ sched(c, p)
Fork(c, p) == \/ \E s \in Slot : \/ allocproc_next(c, p, s)
                                 \/ fork_alloc(c, p, s) \/ fork_nomem(c, p, s)
              \/ fork_full(c, p) \/ fork_parent(c, p) \/ fork_run(c, p)
Exit(c, p) == exit(c, p) \/ reparent(c, p) \/ wakeup(c, p) \/ exit_lock(c, p)
                \/ zombie(c, p)
Wait(c, p) == \/ wait(c, p) \/ wait_scan(c, p) \/ wait_check(c, p)
              \/ \E s \in Slot : wait_reap(c, p, s) \/ wait_badaddr(c, p, s)
Sleep(c, p) == \/ sleep(c, p) \/ sleep_set(c, p) \/ relock(c, p)
               \/ \E n \in 0 .. MaxSleep : sys_sleep(c, p, n)
               \/ ticks_check(c, p)

\* Steps by which a thread gets on with its system call.
Kernel(c, p) == \/ Fork(c, p) \/ Exit(c, p) \/ Wait(c, p) \/ Sleep(c, p)
                \/ (\E s \in Slot : kill_scan(c, p, s)) \/ kill_return(c, p)
                \/ ret(c, p)

User(c, p) == \/ \E call \in Calls \cup {"fork", "wait"} : syscall(c, p, call)
              \/ \E k \in KillArgs : kill(c, p, k)

Next ==
    \/ \E c \in CPU, p \in Slot :
        scheduler(c, p) \/ timer(c, p) \/ Swtch(c, p) \/ User(c, p) \/ Kernel(c, p)
    \/ clockintr \/ clockintr_wakeup

Spec == Init /\ [][Next]_vars

-----------------------------------------------------------------------------
(* Safety.                                                                 *)

\* A kernel stack is used by one CPU at a time, and the slot of a thread that
\* is still executing (even on its way to swtch) is neither freed nor handed
\* to another CPU: p->lock, carried across swtch, protects it.
OneThreadPerSlot ==
    \A c \in CPU : proc[c] # None =>
        /\ \A d \in CPU : proc[d] = proc[c] => d = c
        /\ state[proc[c]] = "RUNNING" \/ plock[proc[c]] = c
        /\ state[proc[c]] \notin {"UNUSED", "USED"}

\* The parent of a process in the table never is a freed slot or a zombie:
\* exit() leaves no child behind, not even one that forked or exited meanwhile.
ParentsAlive ==
    \A s \in Slot : parent[s] # None => state[parent[s]] \notin {"UNUSED", "ZOMBIE"}

\* No lost wakeup in wait(): once wait_lock is free, no process sleeps in
\* wait() although it has a zombie child, its own or one inherited by init.
NoZombieMissed ==
    wait_lock = Free =>
        \A s \in Slot : state[s] = "ZOMBIE" =>
            ~(state[parent[s]] = "SLEEPING" /\ chan[parent[s]] = parent[s])

-----------------------------------------------------------------------------
(* Liveness.                                                               *)

\* A thread that is run again and again gets on with its system call (it
\* executes many instructions between timer interrupts, and wins the spinlocks
\* it tries for); a context switch completes; the rounds of scheduler() reach
\* every RUNNABLE slot; timer and clock interrupts keep coming, and the handler
\* completes.
Fairness ==
    /\ \A p \in Slot : SF_vars(\E c \in CPU : Kernel(c, p))
    /\ \A c \in CPU, p \in Slot : WF_vars(Swtch(c, p))
    /\ \A p \in Slot : SF_vars(\E c \in CPU : scheduler(c, p))
    /\ \A c \in CPU, p \in Slot : WF_vars(timer(c, p))
    /\ SF_vars(clockintr) /\ SF_vars(clockintr_wakeup)

LiveSpec == Spec /\ Fairness

\* wait_lock and every p->lock are given back: exit, wait, sleep and wakeup,
\* each of which takes one while holding another, never block one another.
LocksReleased ==
    /\ wait_lock # Free ~> wait_lock = Free
    /\ \A s \in Slot : plock[s] # Free ~> plock[s] = Free

\* A process that went to sleep in sys_sleep() comes back from the call, however
\* the ticks, its wakeups and a kill() interleave.
SleepEnds ==
    \A s \in Slot : pc[s] = "ticks_check" /\ due[s] > 0 ~> pc[s] = "ret"

=============================================================================
