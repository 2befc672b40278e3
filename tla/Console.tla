------------------------------ MODULE Console -------------------------------
(***************************************************************************)
(* The console (kernel/console.c) and the UART driver (kernel/uart.c), with *)
(* the spinlocks and interrupt masking they depend on (kernel/spinlock.c)  *)
(* and the interrupt path (kernel/trap.c, kernel/plic.c).                  *)
(*                                                                         *)
(* Each CPU runs one thread: a reader of the console, or a writer that     *)
(* also calls the kernel's printf().  An interrupt pushes its handler on   *)
(* top of the thread of a CPU that has interrupts enabled.  A thread       *)
(* asleep leaves its CPU to the scheduler, which has them enabled.  The    *)
(* UART sends its transmit FIFO by itself and reports idle only when the   *)
(* FIFO is empty; the PLIC lets one CPU at a time serve it.                *)
(*                                                                         *)
(* One character stands for the three of a backspace; the characters of    *)
(* the output are counted, not told apart.                                 *)
(***************************************************************************)
EXTENDS Naturals, Sequences, FiniteSets

CONSTANTS
    CPU, Readers,       \* the CPUs (8 in the code), and those whose thread is a reader
    Plain, NL, EOF,     \* a character of a line, '\n', ^D
    Keys,               \* the keys that are typed: characters, and "^H", "^U", "^P"
    INPUT_BUF_SIZE, UART_TX_BUF_SIZE,
    Modulus,            \* 2^32 in the code
    Start,              \* cons.r, w and e at the beginning: multiples of the buffer's size,
                        \* 0 or what so many plain characters, typed and read, make of it
    FifoSize,           \* 16 in the device
    ReadN,              \* bytes a read() asks for
    RxSize,             \* bound on the bytes received and not yet read
    MaxWork             \* bound on keys typed and bytes written, together

ASSUME ConsoleAssumption ==
    /\ INPUT_BUF_SIZE \in Nat \ {0} /\ UART_TX_BUF_SIZE \in Nat \ {0}
    /\ Modulus \in Nat /\ INPUT_BUF_SIZE < Modulus /\ Modulus % INPUT_BUF_SIZE = 0
    /\ \A k \in Start : k \in 0 .. Modulus - 1 /\ k % INPUT_BUF_SIZE = 0
    /\ Readers \subseteq CPU /\ 0 \notin CPU /\ ReadN \in Nat \ {0}
    /\ IsFiniteSet(CPU) /\ FifoSize \in Nat /\ Cardinality(CPU) <= FifoSize
    /\ Keys \subseteq {Plain, NL, EOF, "^H", "^U", "^P"}
    /\ {Plain, NL, EOF} \cap {"^H", "^U", "^P"} = {}

VARIABLES
    buf, r, w, e,       \* cons
    tx,                 \* uart_tx_w - uart_tx_r
    lock,               \* the CPU that holds cons, tx and pr, or 0
    ie, noff, intena,   \* of each CPU: interrupts enabled, struct cpu
    run,                \* of each CPU: the thread, and the handler on top of it
    killed,
    fifo, rx,           \* the UART: bytes to send, bytes received
    pending, claimed,   \* the PLIC, for the UART's interrupt
    work, panicked

cons == <<buf, r, w, e>>
uart == <<fifo, rx, pending, claimed>>
vars == <<buf, r, w, e, tx, lock, ie, noff, intena, run, killed, fifo, rx, pending, claimed,
          work, panicked>>

\* pc; c: the character in hand; n: bytes left to read; then: where uartputc_sync() or
\* uartstart() returns to; ret: where printf() does.
Ctx(pc) == [pc |-> pc, c |-> Plain, n |-> 0, then |-> "none", ret |-> "user"]

Init ==
    /\ buf = [k \in 0 .. INPUT_BUF_SIZE - 1 |-> Plain]
    /\ r \in Start /\ w = r /\ e = r
    /\ tx = 0
    /\ lock = [l \in {"cons", "tx", "pr"} |-> 0]
    /\ ie = [c \in CPU |-> TRUE] /\ noff = [c \in CPU |-> 0] /\ intena = [c \in CPU |-> TRUE]
    /\ run = [c \in CPU |-> <<Ctx("user")>>]
    /\ killed = [c \in CPU |-> FALSE]
    /\ fifo = 0 /\ rx = <<>> /\ pending = FALSE /\ claimed = FALSE
    /\ work = 0 /\ panicked = FALSE

Active(c) == run[c][Len(run[c])]
At(c, l) == Active(c).pc = l
Become(c, ctx) == run' = [run EXCEPT ![c][Len(run[c])] = ctx]
Goto(c, l) == Become(c, [Active(c) EXCEPT !.pc = l])

\* sleep() takes the lock again before it returns.
Awake(chan) == IF chan = "sleep_r" THEN "read" ELSE "put"

\* wakeup(chan), while the running code goes on as ctx.
Wakeup(c, chan, ctx) ==
    run' = [d \in CPU |->
        LET own == IF d = c THEN [run[c] EXCEPT ![Len(run[c])] = ctx] ELSE run[d]
        IN  IF own[1].pc = chan THEN [own EXCEPT ![1].pc = Awake(chan)] ELSE own]

-----------------------------------------------------------------------------
(* Spinlocks (spinlock.c).                                                 *)

\* Seeded fault: the count is kept, interrupts stay on.
push_off_enabled(c) ==
    /\ intena' = IF noff[c] = 0 THEN [intena EXCEPT ![c] = ie[c]] ELSE intena
    /\ noff' = [noff EXCEPT ![c] = @ + 1]
    /\ UNCHANGED ie

push_off(c) ==
    /\ ie' = [ie EXCEPT ![c] = FALSE]
    /\ intena' = IF noff[c] = 0 THEN [intena EXCEPT ![c] = ie[c]] ELSE intena
    /\ noff' = [noff EXCEPT ![c] = @ + 1]

\* The lock is free, or this CPU has it already: "acquire".
acquired(c, l) ==
    /\ lock[l] \in {0, c}
    /\ lock' = [lock EXCEPT ![l] = c]
    /\ panicked' = (panicked \/ lock[l] = c)

\* pop_off() finds interrupts enabled, or nothing to pop.
pop_off_panics(c) == ie[c] \/ noff[c] < 1

pop_off(c) ==
    /\ noff' = [noff EXCEPT ![c] = @ - 1]
    /\ ie' = [ie EXCEPT ![c] = noff[c] = 1 /\ intena[c]]
    /\ UNCHANGED intena

release(c, l) ==
    /\ lock' = [lock EXCEPT ![l] = 0]
    /\ pop_off(c)
    /\ panicked' = (panicked \/ lock[l] # c \/ pop_off_panics(c))

\* sleep(): the lock is released and the scheduler runs; sched()'s assertion.
sleep(c, l) ==
    /\ lock' = [lock EXCEPT ![l] = 0]
    /\ ie' = [ie EXCEPT ![c] = TRUE] /\ noff' = [noff EXCEPT ![c] = 0]
    /\ panicked' = (panicked \/ noff[c] # 1)
    /\ UNCHANGED intena

masks == <<ie, noff, intena>>

\* acquire(): interrupts go off, and the CPU has the lock once it is free.  (It spins
\* with interrupts off already; an interrupt it could take while it waits here is one
\* it takes just before.)
Acquire(c, l, pre, post) ==
    /\ At(c, pre)
    /\ push_off(c) /\ acquired(c, l) /\ Goto(c, post)
    /\ UNCHANGED <<cons, tx, killed, uart, work>>

-----------------------------------------------------------------------------
(* consoleread().                                                          *)

consoleread(c) ==
    /\ At(c, "user") /\ c \in Readers /\ ~killed[c]
    /\ Become(c, [Ctx("read") EXCEPT !.n = ReadN])
    /\ UNCHANGED <<cons, tx, lock, masks, killed, uart, work, panicked>>

\* Nothing to read, and not killed: killed() gives p->lock up again, so kill() can come
\* before sleep(), finds the process running and wakes nobody.
read_test(c) ==
    /\ At(c, "read_test") /\ r = w /\ ~killed[c]
    /\ Goto(c, "read_wait")
    /\ UNCHANGED <<cons, tx, lock, masks, killed, uart, work, panicked>>

read_sleep(c) ==
    /\ At(c, "read_wait")
    /\ sleep(c, "cons") /\ Goto(c, "sleep_r")
    /\ UNCHANGED <<cons, tx, killed, uart, work>>

\* killed(): -1; usertrap() then calls exit().
read_killed(c) ==
    /\ At(c, "read_test") /\ r = w /\ killed[c]
    /\ release(c, "cons") /\ Goto(c, "user")
    /\ UNCHANGED <<cons, tx, killed, uart, work>>

\* The next character; "the end of the file" is left for the next read() if this one
\* has something to return.
read_char(c) ==
    LET ch == buf[r % INPUT_BUF_SIZE]
        n == Active(c).n
    IN  /\ At(c, "read_test") /\ r # w
        /\ r' = IF ch = EOF /\ n < ReadN THEN r ELSE (r + 1) % Modulus
        /\ Become(c, [Active(c) EXCEPT
                         !.pc = IF ch \in {EOF, NL} \/ n = 1 THEN "read_done" ELSE @,
                         !.n = IF ch = EOF THEN @ ELSE @ - 1])
        /\ UNCHANGED <<buf, w, e, tx, lock, masks, killed, uart, work, panicked>>

\* either_copyout() fails: the character is gone.
read_badaddr(c) ==
    /\ At(c, "read_test") /\ r # w /\ buf[r % INPUT_BUF_SIZE] # EOF
    /\ r' = (r + 1) % Modulus
    /\ Goto(c, "read_done")
    /\ UNCHANGED <<buf, w, e, tx, lock, masks, killed, uart, work, panicked>>

read_done(c) ==
    /\ At(c, "read_done")
    /\ release(c, "cons") /\ Become(c, Ctx("user"))
    /\ UNCHANGED <<cons, tx, killed, uart, work>>

\* kill() sets the flag and wakes the process wherever it sleeps.
kill(c) ==
    /\ c \in Readers /\ ~killed[c]
    /\ killed' = [killed EXCEPT ![c] = TRUE]
    /\ run' = IF run[c][1].pc = "sleep_r" THEN [run EXCEPT ![c][1].pc = "read"] ELSE run
    /\ UNCHANGED <<cons, tx, lock, masks, uart, work, panicked>>

-----------------------------------------------------------------------------
(* Output: uartputc() for write(), uartputc_sync() for printf() and echo.  *)

\* One round of consolewrite()'s loop.
consolewrite(c) ==
    /\ At(c, "user") /\ c \notin Readers /\ work < MaxWork
    /\ work' = work + 1
    /\ Become(c, [Ctx("put") EXCEPT !.then = "put_done"])
    /\ UNCHANGED <<cons, tx, lock, masks, killed, uart, panicked>>

put_sleep(c) ==
    /\ At(c, "put_test") /\ tx = UART_TX_BUF_SIZE
    /\ sleep(c, "tx") /\ Goto(c, "sleep_tx")
    /\ UNCHANGED <<cons, tx, killed, uart, work>>

put_store(c) ==
    /\ At(c, "put_test") /\ tx < UART_TX_BUF_SIZE
    /\ tx' = tx + 1
    /\ Goto(c, "start")
    /\ UNCHANGED <<cons, lock, masks, killed, uart, work, panicked>>

\* uartstart(): nothing to send, or the UART is busy and will interrupt.
uartstart_return(c) ==
    /\ At(c, "start") /\ (tx = 0 \/ fifo > 0)
    /\ Goto(c, Active(c).then)
    /\ UNCHANGED <<cons, tx, lock, masks, killed, uart, work, panicked>>

\* Seeded fault: the writers are not woken.
uartstart_silent(c) ==
    /\ At(c, "start") /\ tx > 0 /\ fifo = 0
    /\ tx' = tx - 1
    /\ Goto(c, "thr")
    /\ UNCHANGED <<cons, lock, masks, killed, uart, work, panicked>>

uartstart(c) ==
    /\ At(c, "start") /\ tx > 0 /\ fifo = 0
    /\ tx' = tx - 1
    /\ Wakeup(c, "sleep_tx", [Active(c) EXCEPT !.pc = "thr"])
    /\ UNCHANGED <<cons, lock, masks, killed, uart, work, panicked>>

\* WriteReg(THR, c), at the end of a round of uartstart().
uartstart_write(c) ==
    /\ At(c, "thr")
    /\ fifo' = fifo + 1
    /\ Goto(c, "start")
    /\ UNCHANGED <<cons, tx, lock, masks, killed, rx, pending, claimed, work, panicked>>

put_done(c) ==
    /\ At(c, "put_done")
    /\ release(c, "tx") /\ Become(c, Ctx("user"))
    /\ UNCHANGED <<cons, tx, killed, uart, work>>

printf(c) ==
    /\ At(c, "user") /\ c \notin Readers /\ work < MaxWork
    /\ work' = work + 1
    /\ Become(c, [Ctx("print") EXCEPT !.then = "print_done"])
    /\ UNCHANGED <<cons, tx, lock, masks, killed, uart, panicked>>

print_done(c) ==
    /\ At(c, "print_done")
    /\ release(c, "pr") /\ Become(c, Ctx(Active(c).ret))
    /\ UNCHANGED <<cons, tx, killed, uart, work>>

\* Seeded fault: the UART need not be idle.
uartputc_sync_busy(c) ==
    /\ At(c, "sync")
    /\ push_off(c) /\ Goto(c, "sync_thr")
    /\ UNCHANGED <<cons, tx, lock, killed, uart, work, panicked>>

\* push_off(), and the UART is idle; the lock of the transmit buffer is not held.
uartputc_sync(c) ==
    /\ At(c, "sync") /\ fifo = 0
    /\ push_off(c) /\ Goto(c, "sync_thr")
    /\ UNCHANGED <<cons, tx, lock, killed, uart, work, panicked>>

sync_write(c) ==
    /\ At(c, "sync_thr")
    /\ fifo' = fifo + 1
    /\ pop_off(c) /\ Goto(c, Active(c).then)
    /\ panicked' = (panicked \/ pop_off_panics(c))
    /\ UNCHANGED <<cons, tx, lock, killed, rx, pending, claimed, work>>

-----------------------------------------------------------------------------
(* The interrupt: kerneltrap() or usertrap(), devintr(), uartintr() and    *)
(* consoleintr().                                                          *)

trap(c) ==
    /\ ie[c] /\ pending /\ ~claimed
    /\ ie' = [ie EXCEPT ![c] = FALSE]
    /\ run' = [run EXCEPT ![c] = Append(@, Ctx("claim"))]
    /\ UNCHANGED <<cons, tx, lock, noff, intena, killed, uart, work, panicked>>

\* Back to the interrupted code, which had interrupts enabled.
sret(c) ==
    /\ run' = [run EXCEPT ![c] = SubSeq(@, 1, Len(@) - 1)]
    /\ ie' = [ie EXCEPT ![c] = TRUE]

\* plic_claim(): 0 if another CPU was faster.
plic_claim(c) ==
    /\ At(c, "claim")
    /\ IF pending /\ ~claimed
       THEN pending' = FALSE /\ claimed' = TRUE /\ Goto(c, "getc") /\ UNCHANGED ie
       ELSE sret(c) /\ UNCHANGED <<pending, claimed>>
    /\ UNCHANGED <<cons, tx, lock, noff, intena, killed, fifo, rx, work, panicked>>

\* Seeded fault: uartintr() does not call uartstart().
uartgetc_input_only(c) ==
    /\ At(c, "getc")
    /\ IF rx # <<>>
       THEN Become(c, [Ctx("intr") EXCEPT !.c = Head(rx)]) /\ rx' = Tail(rx)
       ELSE Become(c, Ctx("complete")) /\ UNCHANGED rx
    /\ UNCHANGED <<cons, tx, lock, masks, killed, fifo, pending, claimed, work, panicked>>

uartgetc(c) ==
    /\ At(c, "getc")
    /\ IF rx # <<>>
       THEN Become(c, [Ctx("intr") EXCEPT !.c = Head(rx)]) /\ rx' = Tail(rx)
       ELSE Become(c, [Ctx("hput") EXCEPT !.then = "hput_done"]) /\ UNCHANGED rx
    /\ UNCHANGED <<cons, tx, lock, masks, killed, fifo, pending, claimed, work, panicked>>

\* consoleintr()'s switch.  ^U comes back here until the line is empty.
Erasable == e # w /\ buf[(e + Modulus - 1) % INPUT_BUF_SIZE] # NL

\* Seeded fault: the indices are compared as if they never wrapped.
HasRoom_no_wrap == e < r + INPUT_BUF_SIZE

HasRoom == (e + Modulus - r) % Modulus < INPUT_BUF_SIZE

\* consputc() of one character, or of the three that erase one; ctx goes on at pc.
consputc(ctx, pc) == [ctx EXCEPT !.pc = "sync", !.then = pc]

consoleintr(c) ==
    LET k == Active(c).c
        erase == (k = "^H" /\ e # w) \/ (k = "^U" /\ Erasable)
        type == k \in {Plain, NL, EOF} /\ HasRoom
    IN  /\ At(c, "switch")
        /\ e' = IF erase THEN (e + Modulus - 1) % Modulus ELSE e
        /\ Become(c, CASE k = "^P" -> [Active(c) EXCEPT !.pc = "print", !.then = "print_done",
                                                        !.ret = "intr_done"]
                       [] erase -> consputc(Active(c), IF k = "^U" THEN "switch" ELSE "intr_done")
                       [] type -> consputc(Active(c), "store")
                       [] OTHER -> Ctx("intr_done"))
        /\ UNCHANGED <<buf, r, w, tx, lock, masks, killed, uart, work, panicked>>

\* The character is in the buffer; a whole line, or a full buffer, is for the readers.
store(c) ==
    LET ch == Active(c).c
        e1 == (e + 1) % Modulus
        whole == ch \in {NL, EOF} \/ (e1 + Modulus - r) % Modulus = INPUT_BUF_SIZE
    IN  /\ At(c, "store")
        /\ buf' = [buf EXCEPT ![e % INPUT_BUF_SIZE] = ch]
        /\ e' = e1
        /\ w' = IF whole THEN e1 ELSE w
        /\ IF whole THEN Wakeup(c, "sleep_r", Ctx("intr_done")) ELSE Become(c, Ctx("intr_done"))
        /\ UNCHANGED <<r, tx, lock, masks, killed, uart, work, panicked>>

intr_done(c) ==
    /\ At(c, "intr_done")
    /\ release(c, "cons") /\ Become(c, Ctx("getc"))
    /\ UNCHANGED <<cons, tx, killed, uart, work>>

hput_done(c) ==
    /\ At(c, "hput_done")
    /\ release(c, "tx") /\ Become(c, Ctx("complete"))
    /\ UNCHANGED <<cons, tx, killed, uart, work>>

plic_complete(c) ==
    /\ At(c, "complete")
    /\ claimed' = FALSE
    /\ sret(c)
    /\ UNCHANGED <<cons, tx, lock, noff, intena, killed, fifo, rx, pending, work, panicked>>

-----------------------------------------------------------------------------
(* The UART.                                                               *)

key(k) ==
    /\ work < MaxWork /\ Len(rx) < RxSize
    /\ work' = work + 1 /\ rx' = Append(rx, k) /\ pending' = TRUE
    /\ UNCHANGED <<cons, tx, lock, masks, run, killed, fifo, claimed, panicked>>

\* A byte is sent; the UART interrupts when it becomes idle.
transmit ==
    /\ fifo > 0
    /\ fifo' = fifo - 1 /\ pending' = (pending \/ fifo = 1)
    /\ UNCHANGED <<cons, tx, lock, masks, run, killed, rx, claimed, work, panicked>>

Handler(c) ==
    \/ plic_claim(c) \/ uartgetc(c) \/ Acquire(c, "cons", "intr", "switch")
    \/ consoleintr(c) \/ store(c) \/ intr_done(c)
    \/ Acquire(c, "tx", "hput", "start") \/ hput_done(c)
    \/ plic_complete(c)

Thread(c) ==
    \/ Acquire(c, "cons", "read", "read_test")
    \/ read_test(c) \/ read_sleep(c) \/ read_killed(c)
    \/ read_char(c) \/ read_badaddr(c) \/ read_done(c)
    \/ Acquire(c, "tx", "put", "put_test")
    \/ put_sleep(c) \/ put_store(c) \/ put_done(c)

Output(c) ==
    \/ uartstart_return(c) \/ uartstart(c) \/ uartstart_write(c)
    \/ Acquire(c, "pr", "print", "sync") \/ print_done(c)
    \/ uartputc_sync(c) \/ sync_write(c)

Call(c) == consoleread(c) \/ consolewrite(c) \/ printf(c)
Run(c) == ~panicked /\ (Handler(c) \/ Thread(c) \/ Output(c) \/ trap(c))

Next ==
    \/ \E c \in CPU : Run(c)
    \/ ~panicked /\ \E c \in CPU : Call(c) \/ kill(c)
    \/ ~panicked /\ (transmit \/ \E k \in Keys : key(k))

Spec == Init /\ [][Next]_vars

-----------------------------------------------------------------------------

\* The characters from index a up to index b of the ring.
Ring(a, b) == [k \in 1 .. (b + Modulus - a) % Modulus |-> buf[((a + k - 1) % Modulus) % INPUT_BUF_SIZE]]

Implemented == INSTANCE Terminal WITH
    Char <- {Plain, NL, EOF}, Room <- INPUT_BUF_SIZE,
    ready <- Ring(r, w), typing <- Ring(w, e)

\* The ring with its three wrapping indices is a queue of whole lines and the line
\* being typed: nothing that a reader may take is edited or overwritten, whatever is
\* typed while the buffer is full.
RefinesTerminal == Implemented!Spec

\* No assertion of acquire(), release(), pop_off() or sched() fails: in particular no
\* handler waits for a lock that the code it interrupted holds.
NoPanic == ~panicked

\* consolewrite() and printf() write to the UART without a common lock, and yet the
\* FIFO holds no more than one byte for each CPU that saw it idle.
FifoNotOverrun == fifo <= FifoSize

\* Bytes in the transmit buffer are on their way: the UART is busy and will interrupt,
\* or the interrupt is pending, or somebody is going to call uartstart().
OutputMoves ==
    tx > 0 => \/ fifo > 0 \/ pending \/ lock["tx"] # 0
              \/ \E c \in CPU : Len(run[c]) = 2 /\ Active(c).pc \notin {"claim", "hput_done", "complete"}

\* A reader in consoleread() sleeps only while there is nothing to read, a writer in
\* uartputc() only while the transmit buffer is full: consoleintr() and uartstart() wake
\* them as soon as that changes.  A killed reader can sleep on, when kill() came between
\* its test of killed() and sleep(): it is the next line that wakes it.
SleepsForAReason ==
    \A c \in CPU : /\ run[c][1].pc = "sleep_r" => r = w
                   /\ run[c][1].pc = "sleep_tx" => tx = UART_TX_BUF_SIZE
=============================================================================
