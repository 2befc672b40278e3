# Specifications of xv6

This directory holds TLA+ models of the concurrent and crash-sensitive parts of
xv6-riscv in `src/`: the kernel, `mkfs`, the shell and the programs that live from
their pipes; the TLC instances that check them; and TLAPS proofs about the redo log,
processes, pipes, the buffer cache over its driver, and the console. Every definition is
written from the C source; the field `map` of `PROJECT.json` gives the lines each one
stands for, `mutants` the seeded fault that each checked property detects, `hazards` the
places in the code that the properties are aimed at.

## The system and its modules

| Part | Source | Module | Abstract specification |
| --- | --- | --- | --- |
| Redo log | `log.c` | `Log` | `AtomicDisk` |
| Processes, scheduling, sleep and wakeup, clock | `proc.c`, `trap.c`, `sysproc.c` | `Proc` | |
| Pipes | `pipe.c`, `file.c` | `Pipe` | `BoundedFifo` |
| Disk driver and device | `virtio_disk.c` | `VirtioDisk` | |
| Buffer cache, sleep-locks | `bio.c`, `sleeplock.c` | `Bcache` (extends `VirtioDisk`) | `BlockStore` |
| Inode table, directories, path names | `fs.c`, `sysfile.c` | `Fs` | |
| File contents, block allocation | `fs.c` | `Blocks` (extends `Mkfs`) | |
| The first disk image | `mkfs/mkfs.c` | `Mkfs` | |
| File table, descriptors, shared offsets | `file.c`, `sysfile.c`, `pipe.c` | `File` | |
| Page allocator, address spaces, `exec` | `kalloc.c`, `vm.c`, `proc.c`, `exec.c` | `Memory` | |
| Console, UART, spinlocks, interrupts | `console.c`, `uart.c`, `spinlock.c`, `trap.c`, `plic.c` | `Console` | `Terminal` |
| The shell's parser | `user/sh.c` | `ShellParse` | the grammar at its end |
| System calls as programs see them | `proc.c`, `sysfile.c`, `pipe.c` | `Unix` | |
| `echo`, `cat`, `pingpong`, `primes` | `user/` | `Labs` (extends `Unix`) | |
| `init` and the shell | `user/init.c`, `user/sh.c` | `Shell` (extends `ShellParse`, `Labs`) | |

The parts meet as follows. System calls in `Fs` and `Blocks` run inside the
transactions of `Log`; `Log` keeps its blocks in the buffers of `Bcache`, which reads
and writes them through `VirtioDisk`. All of them sleep and wake up through `Proc`,
and `Memory` supplies pages to `Proc`'s fork and to `exec`. `File` is what
descriptors refer to: the ends of a `Pipe`, inodes, the `Console`. `Shell` runs its
programs on the system calls of `Unix`, each of which is one step.

Composed in one checked system: `Bcache` with `VirtioDisk`; `Blocks` with the image
of `Mkfs`; `Console` with the UART driver, the spinlocks and the interrupt path;
`Shell` with its parser, `init` and the programs. The other boundaries are cut at
what the lower layer promises: `Log` sees the cache as contents that may be recycled
unless pinned, and `Blocks` likewise; `Pipe`, `Log`, `Bcache`, `Fs` and `Console`
take sleep-and-release as one step (`Proc` shows that no wakeup is lost in between);
`Fs` and `Blocks` leave durability to `Log`; `Unix` takes from `Pipe` that a pipe is
a bounded queue with an end of file, from `Proc` that `wait` finds every exited
child, and from `File` that an end is open while a descriptor refers to it.

Each `MC*` module extends one model with symmetry sets or constant values, and
each `MC*.cfg` is one run.

## How state and actions correspond to the code

Common to all modules: a variable named like a C variable or field is that
variable (`refcnt`, `outstanding`, `nread`, ...); `pc` (or a record field `pc`)
says where a process is inside a kernel function; an action is what happens while
a lock is held, or up to the next point where other processes can act. A panic is
recorded in `panicked` and stops the machine.

**Log.** `begin_op_sleep`, `begin_op_admit`, `log_write` and `end_op` are the
critical sections of `log.c`. `commit()` runs without `log.lock`, so each block it
copies (`write_log`), the header write (`write_head`, the commit point), each
block it installs (`install_trans`) and the erasure (`clear`) is a step. Recovery
(`read_head`, `install_trans_recovering`, `recover_clear`) runs in the first
process before any other exists. `Crash` may come between any two steps; it loses
memory, and the data block being written may be left `Torn`. The header fits in
one sector and is written whole. `cache` holds contents, `bread` and
`bget_recycle` load and drop unpinned blocks at any time.

**Proc.** Each CPU runs its scheduler or one process. `p->lock`, `wait_lock` and
`tickslock` are holders whenever they stay held from one step to the next, in
particular across `swtch`. Threads that hold no lock can be preempted anywhere.
The scan loops of `wakeup`, `wait`, `kill` and `allocproc` take a step per slot.
`ticks` appears as the number of ticks each sleeper still waits for.

**Pipe.** One pipe, moved byte by byte under `pi->lock`, with counters modulo `Modulus`
as the C unsigned integers are modulo 2^32; user addresses may be bad at any byte; ends
are shared by `fork`, closed in `fileclose`'s two steps, and `kill` comes between any
two steps. Looking at `killed(pr)` and calling `sleep` are two of them (`write_test` and
`write_sleep`, `read_test` and `read_sleep`), since `kill` does not take `pi->lock`: a
process killed in between sleeps until the pipe changes. `silent` is a history variable:
an aborted write left bytes behind without waking the readers.

**VirtioDisk and Bcache.** The part of `virtio_disk_rw` before `sleep` is a step
(`submit`, or `alloc3_fails` when descriptors are short), as is the part after the last
`sleep` (`finish`). The interrupt handler takes one step per used entry, so the device,
which is external and answers in any order, can add entries while it runs. The device
never fails a request, so the handler's test of the status byte and its panic
(`virtio_disk.c:315`) are left out. `bget` distinguishes hit, recycling and the panic;
callers follow the discipline of `fs.c` and `log.c`, that a changed buffer is written or
pinned before it is released.

**Fs.** `s[p]` holds a process's location and local variables. Path names are
walked component by component with the inode unlocked in between; `iput` has its
four steps, including the window in which the freed inode is unlocked and still
referenced; `ialloc` looks at one inode per step and takes its reference after it
has released the buffer. Only the identity of inodes, their type, link count and directory
entries are kept. An inode table entry is identified with its inode number.

**Memory.** Each `kalloc` is a step that may find no page. Page tables have three
levels with `FAN` entries. The failure actions are the clean-up paths of
`uvmalloc`, `uvmcopy`, `proc_pagetable`, `fork` and `exec`. Sizes are in bytes, so
partial pages occur.

**Mkfs and Blocks.** `mkfs` is sequential, so it is a function from files to an
image (`image`); a cell is both the unit of contents and a block number. In `Blocks`
an operation holds the inode's lock and every block it allocates (`balloc_mark`,
`bzero`), copies (`readi_copy`, `writei_copy`) or frees (`itrunc_*`) is a step.
`buf` is the cached contents of each block and `disk` what the disk and the log give
back; a buffer that was changed and not logged, as `writei` leaves one behind when
`either_copyin` fails half-way, loses the change in `bget_recycle`. `may` is a
history variable: what each cell of each file may hold.

**File.** What is done under `ftable.lock` is a step. `todo` lists what the call still
has to close, so that the two halves of `fileclose` and the undo paths of `open` and
`pipe` interleave with other processes. `seen` is a history variable: the cells read
or written through a file.

**Console.** `run[c]` is the stack of CPU `c`: its thread, and on top of it the
interrupt handler if there is one. `ie`, `noff` and `intena` are the CPU's interrupt
state as `push_off` and `pop_off` keep it; a handler starts only where interrupts are
enabled. The test of the transmitter and the write to it are two steps, in
`uartputc_sync` without a lock; `consoleread`'s look at `killed` and its `sleep` are two
as well. Indices wrap at `Modulus`; `Start` is where they may stand at first, the state
after that many characters typed and read. Output bytes are counted.

**ShellParse, Unix, Labs and Shell.** A line is a sequence of characters; the parser's
operators return the position after what they parsed, the command and the panic, if
any. At the end of the module a grammar over token kinds defines, without reference
to the parser, which lines are commands and what their words are. In `Shell` each
process has a program counter, the command it runs, its numbers (`x`) and its
descriptors; a step is one system call with the closes and dups of the process's own
descriptors that follow it. `fork` and the shell's `pipe` may fail `MaxFail` times.

## Runs

Twelve runs, one of which shows a property that fails.

| Run | Checks | Distinct states | Instance |
| --- | --- | --- | --- |
| `log` | `PinnedWhileLogged`, `CommitterIsAlone`, `NoPanic`, `RefinesAtomicDisk`, `SleeperWakes` | 261 888 | 2 processes, 3 blocks, 2 contents, calls of one block, room for two calls in an empty log |
| `proc_wait` | `OneThreadPerSlot`, `ParentsAlive`, `NoZombieMissed`, no deadlock | 948 821 | 3 slots, 2 CPUs, 4 process ids |
| `proc_live` | `LocksReleased`, `SleepEnds` | 42 243 | 2 slots, 2 CPUs, sleeps of up to 2 ticks |
| `pipe_fifo` | `SleepsForAReason`, `FreedMeansUnused`, `RefinesFifo` | 4 998 016 | 3 processes, 2 byte values, ring of 2, counters modulo 4 |
| `disk` | `RefcntExact`, `SleeperHasWaker`, `DescriptorsAccounted`, `RefinesBlockStore`, `IoTakesEffect` | 169 848 | 3 processes, 3 blocks, 2 buffers, 4 descriptors |
| `fs_names` | `RefExact`, `IputNeverBlocks`, `NoDanglingEntry`, `NoPanic`, no deadlock | 2 550 318 | 2 processes, 3 inodes, `/a` and `/a/b` |
| `fs_leak` | `UnlinkedIsHeld` is violated | | 2 processes, 2 inodes |
| `storage` | `BlocksAccounted`, `ContentAsWritten`, `NoPanic` | 1 345 269 | 2 processes with 2 calls each, 13 blocks of 2 cells, 1 direct and 2 indirect blocks per file |
| `file` | `CountsExact`, `EachCellOnce`, no deadlock | 2 176 388 | parent and child, 3 files, 2 descriptors each, 1 pipe |
| `memory` | `PagesAccounted`, `MappedUpToSize`, `NoPanic` | 1 295 538 | 3 slots, 20 pages, pages of 2 bytes |
| `console` | `NoPanic`, `FifoNotOverrun`, `OutputMoves`, `SleepsForAReason`, `RefinesTerminal` | 2 523 050 | 2 CPUs, one reader and one writer, 3 keys and bytes, ring of 2, indices modulo 4 from 0 or 2 on |
| `shell` | `ExecEnvironment`, `PromptAfterForeground`, `PrimesInOrder`, `ParsesEveryLine`, `PromptReturns` | 51 984 | 10 scripts, 7 processes, one failing call; all lines of up to 5 characters |

What the passing runs show:

* **log**: whatever the interleaving of calls, commit, eviction, crash and
  interrupted recovery, the disk changes as one atomic disk would: all of a group
  of finished calls or nothing. The assertions hold for calls that stay below their
  reservation, and a call that waits for room gets it.
* **proc_wait**: no two CPUs use one kernel stack, no slot is freed under a thread
  that still runs on it, orphans always have a live parent, and no exit is missed by
  a parent in `wait`.
* **proc_live**: `wait_lock` and every `p->lock` are always given back; every
  `sys_sleep` returns.
* **pipe_fifo**: the ring buffer is a bounded FIFO queue also when counters wrap;
  sleepers have a reason to sleep (with the exception recorded in `silent`); the
  page is freed once, when nobody can be using it.
* **disk**: the cache over the driver is one copy of every block used by one
  process at a time; reference counts are exact; no completion or wakeup is lost;
  descriptors are never shared or leaked; a transfer has taken effect when the call
  returns, even after an early wakeup by `kill`.
* **fs_names**: reference counts equal the pointers that exist, `iput` never
  blocks while it holds a spinlock, entries of linked directories refer to
  allocated inodes that count them, no assertion fails and no deadlock is reached.
* **storage**: on the image `mkfs` makes, every block has exactly one holder, in
  memory and on disk; a file never shows what is in another file, in a freed block or
  in a block not yet zeroed, also when blocks run out, a user address is bad
  half-way, or an unlogged buffer is recycled.
* **file**: counts are exact and nothing leaks wherever `open` and `pipe` fail;
  processes that share an offset never get the same cell.
* **memory**: no page is lost or freed twice, sizes and mappings agree, and the
  page-table panics are unreachable, wherever an allocation fails.
* **console**: the input ring is a queue of whole lines followed by the line being
  typed, also when the indices wrap; a handler never waits for a lock its own CPU holds;
  a reader sleeps only while there is no line for it (one that is killed on its way into
  `sleep` waits for the next line all the same); the two ways to the
  transmitter together never give it more than one byte per CPU; bytes in the
  transmit buffer always have an interrupt or a caller coming for them.
* **shell**: the parser accepts exactly the lines of the grammar and its
  NUL-termination cuts no word; each program starts with the standard input and
  output its command says and with no end of a pipe left over; the prompt comes back,
  and only after the foreground processes are gone; `primes` prints the primes.

### Known disagreements

* Run `fs_leak`: `iput` frees the inode, unlocks it, and decrements `ref` afterwards
  without looking again. If the number was allocated anew and unlinked in between,
  the new file is never freed.

The following were met while modelling and are left out of the instances above, or
named in the property; each is a hazard in `PROJECT.json`. They have no run of their
own; changing the constant named below makes TLC report the behaviour described.

* Log sizes: `begin_op` admits calls for `LOGSIZE` blocks (`log.c:133`); the log area
  made by `mkfs` has `LOGSIZE` blocks including the header. Calls that write all they
  reserved reach `panic("too big a transaction")`: with `OpBlocks = 2` in run `log`,
  `NoPanic` fails. Run `log` uses calls that stay below their reservation.
* `kill(0)` (`proc.c:592`) matches a free slot and marks it; `allocproc` does not
  clear the mark, so the next process made in that slot dies without having been
  named. With `KillArgs = {0}` in `proc_wait`, a process that nobody named is killed.
* A directory that is somebody's current directory can be removed, then its parent;
  looking up `..` then finds a free inode and `ilock` panics (`fs.c:315`). With
  `..` among the `Paths`, and a process that makes and removes directories and changes to
  them, `NoPanic` of `Fs` fails.
* `mkfs` gives a root directory that fills its blocks exactly one block more than it
  has (`mkfs.c:166`); reading it outside a transaction makes `readi` allocate, and
  `log_write` panics. Run `storage` has a root with a partly filled block;
  with two `Files` instead of one, the root fills its blocks and `NoPanic` fails.
* `pingpong` uses one pipe for both directions: the parent may read back its own byte
  (`pingpong.c:29`), and the child then waits for ever with the write end in its own
  hands. `grade-lab-util:36` expects `received ping`, `received pong` and then the `OK` of
  the next command. The state `SelfRead` is reachable, and `PromptReturns` names it as an
  exception; with `SelfRead` taken out of it, TLC reports a script whose prompt never
  comes back.

### Bounds

* Two or three actors are the least with which each hazard occurs: a committer, a
  waiter for log space; a parent, a child and init; a lock holder and two waiters for
  a buffer; a CPU that prints and one that is interrupted.
* `log`: a call reserves two blocks of four and writes one, so that a second call is
  admitted only while nothing is logged, and otherwise waits for the commit. Calls that
  write several blocks are covered by the theorem `Refinement`, which holds for all
  numbers.
* `storage`: blocks of two cells, one direct and two indirect blocks; the writes stay
  in a block, cross blocks, reach the indirect block and start past the end. The two
  files together need more blocks than there are.
* `console`: `MaxWork` bounds keys and bytes together, so two of a kind meet one of
  the other; a ring of two is full and empty within it, and indices modulo 4 that start
  at 2 wrap after the second character.
* `shell`: the ten scripts of `MCShell` have a pipeline of three programs, blocks,
  redirections, a background command in a pipeline, an unknown program, an empty
  command, `cd`, a syntax error, and pairs of lines where the second may start while
  a background process of the first still runs. `primes` sieves up to 5 instead of 35:
  2, 3 and 5 are printed and 4 is dropped on the way. Nesting deeper than in these
  scripts is parsed by `ParsesEveryLine` but not executed.
* `PIPESIZE = 2` and `Modulus = 4` make the ring full, empty and wrapping within a
  few bytes; the code's sizes (512 and 2^32) stand in the same relation (the
  modulus is a multiple of the size and larger than it).
* Two buffers for three blocks force recycling. Four descriptors allow one request
  at a time, so that processes wait for descriptors; requests never overlap in this run.
  The theorems about `Bcache` cover overlapping requests for every `NUM`. With `NUM = 6`
  the same properties hold in 872 616 states, among them those with two requests at the
  device; no process waits for descriptors there, so the run is kept at four.
* `MaxPid`, `MaxSleep`, `MaxN`, `MaxBrk`, `MaxPins`, `MaxCalls`, `MaxOff`, `MaxFail`,
  `RxSize`, `MaxWork`, `KillArgs`, `Calls`, `Paths` and `NoSpace` bound inputs that are
  otherwise unbounded; each is a constant.
* In `fs_names` the two processes make different sets of calls (`TwoRoles`), which
  keeps the instance small. Creating, making a directory, opening and removing one
  name are concurrent; two processes that both create, or both make directories,
  are not in this run (`fs_leak` has two creators).
* Symmetry is used in safety runs only. Deadlock checking is off where the system may
  stop: programs may stop using the pipe or wait for themselves (`pipe_fifo`), a cache
  whose buffers are all taken panics (`disk`), the bounded work is done (`storage`,
  `console`), the script is at its end (`shell`).

### Fairness

* `Log!Fairness`: weak fairness of `end_op`, of the committer's and of the
  recovering process's steps. The scheduler runs every runnable process, disk
  writes finish, and a call waits for nothing but locks and the disk between
  `begin_op` and `end_op`. Nothing is assumed of how often calls start.
* `Proc!Fairness`: strong fairness of a thread's kernel steps (it is preempted
  again and again, but executes many instructions between timer interrupts and wins
  the spinlocks it tries for), strong fairness of the scheduler for each runnable
  slot (its loop visits every slot), weak fairness of context switches and timer
  interrupts, strong fairness of the clock handler (interrupts recur and find
  `tickslock` free in between).
* `Shell!LiveSpec`: weak fairness of `Next`, that is, the machine does not stop while
  some process can run. Fairness among processes is not needed, since every program
  makes finitely many calls between two prompts.

## Proofs

The theorems hold for every value of the constants that the assumption named in the
module allows (`LogAssumption`, `ProcAssumption`, ...); TLC evaluates the assumptions in
the runs. Each proof rests on an inductive invariant `IInv`: a lemma `Step_<action>`, or
one for a group of alike actions, shows that a step preserves it, and the results follow.

### The redo log

`LogInvariant` and `LogProof` are about all finite sets of processes, all sets of blocks
and contents and all sizes.

| Theorem of `LogProof` | States |
| --- | --- |
| `TypeCorrect` | `[]TypeOK` |
| `NoLostWakeup` | `[]SleeperHasWaker` |
| `CommitRunsAlone` | `[]CommitterIsAlone` |
| `PinsMatchLog` | `[]PinnedWhileLogged` |
| `DurableWhenQuiescent` | `[]QuiescentIsDurable` |
| `AssertionsHold` | the two assertions that do not depend on sizes never fail |
| `Refinement` | `Spec => RefinesAtomicDisk` |
| `NoPanicHolds` | `[]NoPanic`, if the sizes satisfy `Sized` |

`IInv` has three groups besides the types.

* `Control`: who may be where. During boot only one process exists; a committer
  is alone and `committing` says whether there is one; `outstanding` is the number
  of processes inside a call; sleepers have a waker.
* `Heads`: the header in memory and the one on disk list distinct blocks, fit in
  the log area, agree from the commit point to the erasure and are empty when
  nothing is going on; loop indices stay in range.
* `Contents`: pinned blocks are cached, unpinned cached blocks equal the disk, the
  log copies made so far equal the cache, the blocks installed so far equal the
  log, and no torn block can ever be read by recovery or left by it.

The properties are not inductive alone. `QuiescentIsDurable` needs the contents
group at the moment a commit ends, and that needs the exclusion of calls during
the lock-free part of `commit`, which in turn needs the exact value of
`outstanding`. `Refinement` shows that each step is a step of `AtomicDisk` or a
stutter: the header write is `Commit`, installation and erasure change nothing
that recovery would see.

`NoPanicHolds` includes the assertions that depend on sizes. `Sized` says that a call
writes fewer than `MAXOPBLOCKS` blocks and that the log has room for two reservations;
without the first, the panic is reachable (see Known disagreements). The argument counts:
the blocks in the header and those reserved by calls and not yet logged are fewer than
`LOGSIZE` together.

`TypeOK`, `SleeperHasWaker` and `QuiescentIsDurable` of `Log` are in no run: the
theorems cover them.

### Processes

`ProcProof` is about tables of every size, any number of CPUs, and `kill` with any
argument.

| Theorem of `ProcProof` | States |
| --- | --- |
| `OneThreadPerSlotHolds` | `[]OneThreadPerSlot` |
| `ParentsAliveHolds` | `[]ParentsAlive` |
| `NoZombieMissedHolds` | `[]NoZombieMissed` |

`Threads` relates CPUs, `p->lock` and the location of the thread through a context switch;
`Slots` says what the state of a slot tells of its thread, and that a slot made by `fork`
has one maker; `Kin` is about `wait_lock`. `NoZombieMissed` needs the most of it: what the
scan of `wait` has passed by has no zombie child (`Scanned`), since children exit under
`wait_lock`; an exiting child whose `wakeup` has passed its parent's slot has woken it
(`ParentWoken`); and a zombie given to a sleeping init has a process on its way to
init's slot (`ZombieSeen`).

### Pipes

`PipeProof` is about all sets of processes and bytes and all ring sizes that are
positive, smaller than the counters' modulus and divide it.

| Theorem of `PipeProof` | States |
| --- | --- |
| `SleepersHaveReason` | `[]SleepsForAReason` |
| `FreedPipeUnused` | `[]FreedMeansUnused` |
| `PipeIsFifo` | `Spec => RefinesFifo` |

The inductive invariant `IInv` adds to the types who holds `pi->lock` (`Exclusion`), who
holds the ends (`Holders`) and why sleepers sleep while the lock is held (`Sleepers`).
`SleepsForAReason` is not inductive: it speaks of states in which the lock is free.
`Sleepers` says of the others that the holder of the lock has moved a byte and wakes the
sleepers before it lets go, and that what a process found in its tests is still so when
it goes to sleep. For `FreedMeansUnused`, `Holders` says that the end whose
last holder is in `pipeclose` is still open and that nobody is in the pipe without
holding an end. `PipeIsFifo` adds `count <= PIPESIZE`; its core are the lemmas that the
slot written is none of those still to be read (`Apart`) and that the slots stay the
same when a counter wraps around (`Shift`), which is where the divisibility is used.

### Buffer cache and disk driver

`BcacheInvariant` and `BcacheProof` are about all finite sets of processes and buffers,
all sets of blocks and every number of descriptors from three on.

| Theorem of `BcacheProof` | States |
| --- | --- |
| `RefcntExactHolds` | `[]RefcntExact` |
| `DescriptorsAccountedHolds` | `[]DescriptorsAccounted` |
| `SleeperHasWakerHolds` | `[]SleeperHasWaker` |
| `IoTakesEffectHolds` | the action property `IoTakesEffect` |
| `Refinement` | `Spec => RefinesBlockStore` |

`IInv` says who holds which sleep-lock (`Locks`), that a block is in one buffer
(`OneBuffer`), that a buffer which differs from the disk is locked or pinned (`Backed`),
that each request is a chain of three descriptors of its own (`Requests`), which the rings
and the device hold once, exactly while `b->disk` is set (`Rings`, `Busy`), that buffer
and disk agree when the device has answered (`Done`), and that an answer has an
interrupt to come (`Announced`). The counts of references and descriptors
are kept apart from it: they are about cardinalities and need nothing else of each other.

### Console and UART driver

`ConsoleInvariant` and `ConsoleProof` are about all finite sets of CPUs with at most
`FifoSize` members, all buffer sizes, and all widths of the indices that
`ConsoleAssumption` allows.

| Theorem | States |
| --- | --- |
| `NoPanicHolds` (`ConsoleInvariant`) | `[]NoPanic` |
| `SleepsForAReasonHolds` (`ConsoleInvariant`) | `[]SleepsForAReason` |
| `OutputMovesHolds` (`ConsoleInvariant`) | `[]OutputMoves` |
| `FifoNotOverrunHolds` (`ConsoleProof`) | `[]FifoNotOverrun` |

`IInv` ties the locks and the masks to where the code is. The handler runs on top of a
thread that is at a point with interrupts enabled (`Stack`); a CPU holds exactly the locks
that its running code has taken, `noff` counts them and the calls of `push_off` by
`uartputc_sync`, and interrupts are enabled just when no handler runs and `noff` is zero
(`Owns`). So `acquire` never finds its own CPU as the holder, and `pop_off` and `sched`
find what they assert. Three facts are proved on top of it, each inductive only
together with `IInv`. `Reasons` extends `SleepsForAReason` to the reader that has tested
and not yet slept, whom `cons.lock` protects. `OutputInv` is `OutputMoves` with
the CPU that is going to look at the transmit buffer named by its place in the code
instead of by the lock it holds. `FifoInv` counts the bytes in the FIFO and the
CPUs that have seen it idle and are about to write: together no more than there are CPUs,
because whoever sees the UART idle sees the FIFO empty.

## Only model-checked

The liveness properties (`SleeperWakes`, `LocksReleased`, `SleepEnds`,
`PromptReturns`), because the prover handles neither fairness nor `ENABLED`, and all
properties of `Fs`, `Blocks`, `File`, `Memory` and `Shell`; of `Console`, that it
implements `Terminal`. `ShellParse` uses recursive operators, which the prover does not
handle.

## Not modelled

* `string.c`, `ulib.c`, `umalloc.c`, `printf.c` beyond its lock, and `find`, `xargs`,
  `sleep`, `grep` and the other user programs: sequential code on data, with no state
  shared with others.
* System call dispatch and argument fetching (`syscall.c`).
* The kernel page table, page permissions, `copyin` and `copyout`: a bad user address is
  a choice of the models.
* Trap entry and exit, context switch and boot in assembly; the start of the other
  harts; memory ordering (steps are sequentially consistent).
* The order of the buffer list as a least-recently-used order: `Bcache` keeps the list,
  no property speaks about it.
* A crash in `Fs` and `Blocks`: `Log` shows that transactions are atomic, but a crash
  that loses track of an unlinked file that is still open is not in a model.
* Exhaustion of the inode table, `sleep` with a negative argument and `sbrk` below zero.

## Plan

1. `Fs` over `AtomicDisk`: a crash between system calls leaves a consistent tree.
2. `Shell` over `File` and `Pipe` instead of `Unix`.
