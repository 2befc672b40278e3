-------------------------- MODULE ConsoleInvariant --------------------------
(***************************************************************************)
(* Proofs about the console and the UART driver, for every number of CPUs, *)
(* size of the buffers and width of the indices: the inductive invariant   *)
(* of the locks and the masked interrupts, and what follows from it for    *)
(* assertions, sleepers and the output.                                    *)
(***************************************************************************)
EXTENDS Console, Integers, TLAPS

-----------------------------------------------------------------------------
(* The inductive invariant: what a CPU holds is where its code is.         *)

Key == Keys \cup {Plain}
ThreadPC == {"user", "read", "read_test", "read_wait", "read_done", "sleep_r", "put",
             "put_test", "put_done", "sleep_tx", "start", "thr", "print", "print_done",
             "sync", "sync_thr"}
HandlerPC == {"claim", "getc", "intr", "switch", "store", "intr_done", "hput", "hput_done",
              "complete", "start", "thr", "print", "print_done", "sync", "sync_thr"}
Label == ThreadPC \cup HandlerPC \cup {"none"}
Context == [pc : Label, c : Key, n : Int, then : Label, ret : Label]

\* A thread returns to itself, a handler to the handler.
ThreadCtx(x) ==
    /\ x.pc \in ThreadPC /\ x.ret = "user"
    /\ x.pc \in {"put", "put_test", "sleep_tx", "start", "thr"} => x.then = "put_done"
    /\ x.pc \in {"print", "sync", "sync_thr"} => x.then = "print_done"

HandlerCtx(x) ==
    /\ x.pc \in HandlerPC
    /\ x.pc \in {"hput", "start", "thr"} => x.then = "hput_done"
    /\ x.pc \in {"intr", "switch"} => x.ret = "user"
    /\ x.pc \in {"print", "print_done"} => x.ret = "intr_done"
    /\ x.pc = "print" => x.then = "print_done"
    /\ x.pc \in {"sync", "sync_thr"} =>
          \/ x.then = "print_done" /\ x.ret = "intr_done"
          \/ x.then \in {"switch", "store", "intr_done"} /\ x.ret = "user"

\* Where a thread has interrupts enabled.
Interruptible == {"user", "read", "put", "print", "sleep_r", "sleep_tx"}

\* The locks that code at x holds, and how often it has called push_off().
HoldsCons(x) ==
    \/ x.pc \in {"read_test", "read_wait", "read_done", "switch", "store", "intr_done"}
    \/ x.pc \in {"print", "print_done", "sync", "sync_thr"} /\ x.ret = "intr_done"
    \/ x.pc \in {"sync", "sync_thr"} /\ x.then # "print_done"
HoldsTx(x) == x.pc \in {"put_test", "put_done", "start", "thr", "hput_done"}
HoldsPr(x) ==
    \/ x.pc = "print_done"
    \/ x.pc \in {"sync", "sync_thr"} /\ x.then = "print_done"
Holds(x, l) ==
    \/ l = "cons" /\ HoldsCons(x)
    \/ l = "tx" /\ HoldsTx(x)
    \/ l = "pr" /\ HoldsPr(x)
Locks == {"cons", "tx", "pr"}
One(P) == IF P THEN 1 ELSE 0
Depth(x) == One(HoldsCons(x)) + One(HoldsTx(x)) + One(HoldsPr(x)) + One(x.pc = "sync_thr")

\* A handler runs on top of a thread that holds nothing.
Stack(c) ==
    /\ Len(run[c]) \in {1, 2} /\ ThreadCtx(run[c][1])
    /\ Len(run[c]) = 2 => HandlerCtx(run[c][2]) /\ run[c][1].pc \in Interruptible

\* The running code of CPU c holds the locks of CPU c, and has masked interrupts.
Owns(c) ==
    /\ \A l \in Locks : lock[l] = c <=> Holds(Active(c), l)
    /\ noff[c] = Depth(Active(c))
    /\ ie[c] = (Len(run[c]) = 1 /\ noff[c] = 0)
    /\ noff[c] > 0 => intena[c] = (Len(run[c]) = 1)

Types ==
    /\ run \in [CPU -> Seq(Context)] /\ lock \in [Locks -> CPU \cup {0}]
    /\ ie \in [CPU -> BOOLEAN] /\ noff \in [CPU -> Nat] /\ intena \in [CPU -> BOOLEAN]
    /\ rx \in Seq(Keys) /\ killed \in [CPU -> BOOLEAN]

IInv ==
    /\ Types
    /\ \A c \in CPU : Stack(c) /\ Owns(c)
    /\ ~panicked

-----------------------------------------------------------------------------
(* How a step moves.                                                       *)

\* kill() and wakeup() change a context from x to y.
Roused(x, y) ==
    \/ y = x
    \/ x.pc = "sleep_r" /\ y = [x EXCEPT !.pc = "read"]
    \/ x.pc = "sleep_tx" /\ y = [x EXCEPT !.pc = "put"]

\* CPU c goes on as ctx, others may be woken up.
Moves(c, ctx) ==
    /\ run' \in [CPU -> Seq(Context)]
    /\ \A d \in CPU : Len(run'[d]) = Len(run[d])
    /\ run'[c][Len(run[c])] = ctx
    /\ \A d \in CPU : d # c \/ Len(run[c]) = 2 => Roused(run[d][1], run'[d][1])
    /\ \A d \in CPU : d # c /\ Len(run[d]) = 2 => run'[d][2] = run[d][2]

\* The code that runs is a context, at one of the two levels.
LEMMA ActiveFacts ==
  ASSUME Types, NEW c \in CPU, Stack(c)
  PROVE  /\ run[c] \in Seq(Context) /\ Len(run[c]) \in {1, 2} /\ Active(c) \in Context
         /\ run[c][1] \in Context
         /\ Len(run[c]) = 1 => Active(c) = run[c][1] /\ ThreadCtx(Active(c))
         /\ Len(run[c]) = 2 => Active(c) = run[c][2] /\ HandlerCtx(Active(c))
<1>1. run[c] \in Seq(Context) /\ Len(run[c]) \in {1, 2}
  BY Zenon DEF Types, Stack
<1>2. \A s \in Seq(Context) : Len(s) \in {1, 2} => s[1] \in Context /\ s[Len(s)] \in Context
  OBVIOUS
<1>3. run[c][1] \in Context /\ Active(c) \in Context
  BY <1>1, <1>2, Zenon DEF Active
<1>4. /\ Len(run[c]) = 1 => Active(c) = run[c][1] /\ ThreadCtx(Active(c))
      /\ Len(run[c]) = 2 => Active(c) = run[c][2] /\ HandlerCtx(Active(c))
  BY <1>1, Zenon DEF Active, Stack
<1> QED
  BY <1>1, <1>3, <1>4, Zenon

\* What replacing the last element of a short sequence does.
LEMMA SetTop ==
  ASSUME NEW C, NEW t \in Seq(C), NEW x \in C, Len(t) \in {1, 2}
  PROVE  /\ [t EXCEPT ![Len(t)] = x] \in Seq(C)
         /\ Len([t EXCEPT ![Len(t)] = x]) = Len(t)
         /\ [t EXCEPT ![Len(t)] = x][Len(t)] = x
         /\ Len(t) = 2 => [t EXCEPT ![Len(t)] = x][1] = t[1]
<1> DEFINE u == [t EXCEPT ![Len(t)] = x]
<1>1. t \in [1 .. Len(t) -> C] /\ Len(t) \in 1 .. Len(t) /\ 1 \in 1 .. Len(t)
  OBVIOUS
<1>2. u \in [1 .. Len(t) -> C] /\ u[Len(t)] = x /\ (Len(t) = 2 => u[1] = t[1])
  BY <1>1
<1> HIDE DEF u
<1>3. u \in Seq(C) /\ Len(u) = Len(t)
  BY <1>2
<1> QED
  BY <1>2, <1>3, Zenon DEF u

\* What appending to a sequence of one element does.
LEMMA PushTop ==
  ASSUME NEW C, NEW t \in Seq(C), NEW x \in C, Len(t) = 1
  PROVE  /\ Append(t, x) \in Seq(C) /\ Len(Append(t, x)) = 2
         /\ Append(t, x)[1] = t[1] /\ Append(t, x)[2] = x
<1>1. \A u \in Seq(C) : /\ Append(u, x) \in Seq(C) /\ Len(Append(u, x)) = Len(u) + 1
                        /\ Append(u, x)[Len(u) + 1] = x
                        /\ \A i \in 1 .. Len(u) : Append(u, x)[i] = u[i]
  OBVIOUS
<1>2. Len(t) + 1 = 2 /\ 1 \in 1 .. Len(t)
  OBVIOUS
<1> QED
  BY <1>1, <1>2, Zenon

\* Only CPU c moves.
LEMMA BecomeMoves ==
  ASSUME Types, NEW c \in CPU, Stack(c), NEW ctx \in Context, Become(c, ctx)
  PROVE  Moves(c, ctx)
<1>1. run' = [run EXCEPT ![c] = [run[c] EXCEPT ![Len(run[c])] = ctx]]
  BY Zenon DEF Become
<1>2. run[c] \in Seq(Context) /\ Len(run[c]) \in {1, 2}
  BY ActiveFacts, Zenon
<1> DEFINE s == [run[c] EXCEPT ![Len(run[c])] = ctx]
<1>3. /\ s \in Seq(Context) /\ Len(s) = Len(run[c]) /\ s[Len(run[c])] = ctx
      /\ Len(run[c]) = 2 => s[1] = run[c][1]
  BY <1>2, SetTop
<1>4. run'[c] = s /\ \A d \in CPU : d # c => run'[d] = run[d]
  BY <1>1, Zenon DEF Types
<1>5. run' \in [CPU -> Seq(Context)]
  BY <1>1, <1>3, Zenon DEF Types
<1> HIDE DEF s
<1> QED
  BY <1>2, <1>3, <1>4, <1>5, Zenon DEF Moves, Roused

\* The same, when wakeup() is called.
LEMMA WakeupMoves ==
  ASSUME Types, \A d \in CPU : Stack(d), NEW c \in CPU, NEW ctx \in Context,
         ctx.pc \notin {"sleep_r", "sleep_tx"},
         NEW chan \in {"sleep_r", "sleep_tx"}, Wakeup(c, chan, ctx)
  PROVE  Moves(c, ctx)
<1> DEFINE own(d) == IF d = c THEN [run[c] EXCEPT ![Len(run[c])] = ctx] ELSE run[d]
           up(t) == [t EXCEPT ![1] = [t[1] EXCEPT !.pc = Awake(chan)]]
<1>1. /\ run' = [d \in CPU |-> IF own(d)[1].pc = chan THEN up(own(d)) ELSE own(d)]
      /\ \A d \in CPU : run'[d] = IF own(d)[1].pc = chan THEN up(own(d)) ELSE own(d)
  BY Zenon DEF Wakeup
<1>2. \A d \in CPU : run[d] \in Seq(Context) /\ Len(run[d]) \in {1, 2}
  BY ActiveFacts, Zenon
<1>3. ASSUME NEW d \in CPU
      PROVE  /\ own(d) \in Seq(Context) /\ Len(own(d)) = Len(run[d])
             /\ d # c => own(d) = run[d]
             /\ d = c => own(d)[Len(run[d])] = ctx
             /\ d = c /\ Len(run[d]) = 2 => own(d)[1] = run[d][1]
  BY <1>2, SetTop
<1>4. ASSUME NEW t \in Seq(Context), Len(t) \in {1, 2}
      PROVE  /\ up(t) \in Seq(Context) /\ Len(up(t)) = Len(t)
             /\ up(t)[1] = [t[1] EXCEPT !.pc = Awake(chan)]
             /\ Len(t) = 2 => up(t)[2] = t[2]
  <2>1. t \in [1 .. Len(t) -> Context] /\ 1 \in 1 .. Len(t)
    BY <1>4
  <2>2. [t[1] EXCEPT !.pc = Awake(chan)] \in Context
    BY <2>1, Zenon DEF Awake, Context, Label, ThreadPC
  <2>3. /\ up(t) \in [1 .. Len(t) -> Context] /\ up(t)[1] = [t[1] EXCEPT !.pc = Awake(chan)]
        /\ Len(t) = 2 => up(t)[2] = t[2]
    BY <2>1, <2>2
  <2> HIDE DEF up
  <2> QED
    BY <2>3
<1> HIDE DEF own, up
<1>5. ASSUME NEW d \in CPU
      PROVE  /\ run'[d] \in Seq(Context) /\ Len(run'[d]) = Len(run[d])
             /\ d # c /\ Len(run[d]) = 2 => run'[d][2] = run[d][2]
             /\ d = c => run'[d][Len(run[d])] = ctx
             /\ d # c \/ Len(run[c]) = 2 => Roused(run[d][1], run'[d][1])
  <2>1. CASE own(d)[1].pc = chan
    <3>1. run'[d] = up(own(d)) /\ ~(d = c /\ Len(run[d]) = 1)
      BY <1>1, <1>3, <2>1, Zenon
    <3>2. /\ up(own(d)) \in Seq(Context) /\ Len(up(own(d))) = Len(run[d])
          /\ up(own(d))[1] = [own(d)[1] EXCEPT !.pc = Awake(chan)]
          /\ Len(run[d]) = 2 => up(own(d))[2] = own(d)[2]
      BY <1>2, <1>3, <1>4, Zenon
    <3>3. Roused(own(d)[1], up(own(d))[1])
      BY <2>1, <3>2, Zenon DEF Roused, Awake
    <3> QED
      BY <1>2, <1>3, <3>1, <3>2, <3>3, Zenon
  <2>2. CASE own(d)[1].pc # chan
    BY <1>1, <1>2, <1>3, <2>2, Zenon DEF Roused
  <2> QED
    BY <2>1, <2>2, Zenon
<1>6. run' \in [CPU -> Seq(Context)]
  BY <1>1, <1>5, Zenon
<1> QED
  BY <1>2, <1>5, <1>6, Zenon DEF Moves

\* What a record keeps when its pc changes.
LEMMA GotoFacts ==
  ASSUME NEW x \in Context, NEW l \in Label
  PROVE  /\ [x EXCEPT !.pc = l] \in Context /\ [x EXCEPT !.pc = l].pc = l
         /\ [x EXCEPT !.pc = l].then = x.then /\ [x EXCEPT !.pc = l].ret = x.ret
         /\ [x EXCEPT !.pc = l].c = x.c
BY Zenon DEF Context

\* A fresh context.
LEMMA CtxFacts ==
  ASSUME NEW l \in Label
  PROVE  Ctx(l) \in Context /\ Ctx(l).pc = l /\ Ctx(l).ret = "user"
<1>1. "user" \in Label /\ "none" \in Label /\ Plain \in Key /\ 0 \in Int
  BY DEF Label, ThreadPC, Key
<1> QED
  BY <1>1, Zenon DEF Ctx, Context

-----------------------------------------------------------------------------
(* How a step moves the locks.                                             *)

\* ctx is right for the level at which CPU c runs.
Fits(c, ctx) ==
    /\ Len(run[c]) = 1 => ThreadCtx(ctx)
    /\ Len(run[c]) = 2 => HandlerCtx(ctx)

\* Whoever is woken up holds nothing, before and after.
LEMMA RousedFacts ==
  ASSUME NEW x \in Context, NEW y, Roused(x, y), ThreadCtx(x)
  PROVE  /\ ThreadCtx(y) /\ Depth(y) = Depth(x) /\ \A l \in Locks : Holds(y, l) <=> Holds(x, l)
         /\ x.pc \in Interruptible => y.pc \in Interruptible
<1>1. CASE y = x
  BY <1>1, Zenon
<1>2. ASSUME NEW a \in {"sleep_r", "sleep_tx"}, NEW b \in {"read", "put"},
             x.pc = a, y = [x EXCEPT !.pc = b], a = "sleep_tx" <=> b = "put"
      PROVE  /\ ThreadCtx(y) /\ Depth(y) = Depth(x)
             /\ \A l \in Locks : Holds(y, l) <=> Holds(x, l)
             /\ x.pc \in Interruptible => y.pc \in Interruptible
  <2>1. y.pc = b /\ y.then = x.then /\ y.ret = x.ret
    BY <1>2, GotoFacts, Zenon DEF Label, ThreadPC
  <2>2. /\ ~HoldsCons(x) /\ ~HoldsTx(x) /\ ~HoldsPr(x) /\ x.pc # "sync_thr"
        /\ ~HoldsCons(y) /\ ~HoldsTx(y) /\ ~HoldsPr(y) /\ y.pc # "sync_thr"
    BY <1>2, <2>1, Zenon DEF HoldsCons, HoldsTx, HoldsPr
  <2>3. ThreadCtx(y)
    BY <1>2, <2>1, Zenon DEF ThreadCtx, ThreadPC
  <2> QED
    BY <1>2, <2>1, <2>2, <2>3, Zenon DEF Depth, One, Holds, Interruptible
<1> QED
  BY <1>1, <1>2, Zenon DEF Roused

\* CPU c moves, and the others keep what they have.
LEMMA Advance ==
  ASSUME Types, \A d \in CPU : Stack(d) /\ Owns(d),
         NEW c \in CPU, NEW ctx \in Context, Moves(c, ctx), Fits(c, ctx),
         \A l \in Locks : lock'[l] = lock[l] \/ (lock[l] \in {0, c} /\ lock'[l] \in {0, c}),
         \A d \in CPU : d # c => ie'[d] = ie[d] /\ noff'[d] = noff[d] /\ intena'[d] = intena[d],
         \A l \in Locks : lock'[l] = c <=> Holds(ctx, l),
         noff'[c] = Depth(ctx),
         ie'[c] = (Len(run[c]) = 1 /\ noff'[c] = 0),
         noff'[c] > 0 => intena'[c] = (Len(run[c]) = 1)
  PROVE  /\ \A d \in CPU : Stack(d)' /\ Owns(d)'
         /\ Active(c)' = ctx
<1>1. \A d \in CPU : Len(run'[d]) = Len(run[d]) /\ Len(run[d]) \in {1, 2}
  BY ActiveFacts, Zenon DEF Moves
<1>2. Active(c)' = ctx /\ Owns(c)'
  BY <1>1, Zenon DEF Moves, Active, Owns
<1>3. Stack(c)'
  <2>1. CASE Len(run[c]) = 1
    BY <1>1, <2>1 DEF Stack, Fits, Moves
  <2>2. CASE Len(run[c]) = 2
    <3>1. Roused(run[c][1], run'[c][1]) /\ run'[c][2] = ctx
      BY <2>2, Zenon DEF Moves
    <3>2. run[c][1] \in Context /\ ThreadCtx(run[c][1]) /\ run[c][1].pc \in Interruptible
      BY <2>2, ActiveFacts, Zenon DEF Stack
    <3>3. ThreadCtx(run'[c][1]) /\ run'[c][1].pc \in Interruptible
      BY <3>1, <3>2, RousedFacts
    <3> QED
      BY <1>1, <2>2, <3>1, <3>3, Zenon DEF Stack, Fits
  <2> QED
    BY <1>1, <2>1, <2>2, Zenon
<1>4. ASSUME NEW d \in CPU, d # c
      PROVE  Stack(d)' /\ Owns(d)'
  <2>1. Stack(d) /\ Owns(d) /\ Roused(run[d][1], run'[d][1]) /\ run[d][1] \in Context
    BY <1>4, ActiveFacts, Zenon DEF Moves
  <2>2. /\ ThreadCtx(run'[d][1]) /\ Depth(run'[d][1]) = Depth(run[d][1])
        /\ \A l \in Locks : Holds(run'[d][1], l) <=> Holds(run[d][1], l)
        /\ run[d][1].pc \in Interruptible => run'[d][1].pc \in Interruptible
    BY <2>1, RousedFacts DEF Stack
  <2>3. Len(run[d]) = 2 => run'[d][2] = run[d][2]
    BY <1>4, Zenon DEF Moves
  <2>4. Stack(d)'
    BY <1>1, <2>1, <2>2, <2>3, Zenon DEF Stack
  <2>5. /\ Depth(Active(d)') = Depth(Active(d))
        /\ \A l \in Locks : Holds(Active(d)', l) <=> Holds(Active(d), l)
    BY <1>1, <2>2, <2>3 DEF Active
  <2>6. d # 0 /\ \A l \in Locks : lock'[l] = d <=> lock[l] = d
    BY <1>4, ConsoleAssumption, Zenon
  <2>7. noff'[d] = noff[d] /\ ie'[d] = ie[d] /\ intena'[d] = intena[d]
    BY <1>4, Zenon
  <2>8. Owns(d)'
    BY <1>1, <2>1, <2>5, <2>6, <2>7 DEF Owns
  <2> QED
    BY <2>4, <2>8, Zenon
<1> QED
  BY <1>2, <1>3, <1>4, Zenon

\* Code at y holds lock l, and what code at x holds.
Takes(l, x, y) ==
    /\ ~Holds(x, l) /\ \A m \in Locks : Holds(y, m) <=> Holds(x, m) \/ m = l
    /\ Depth(y) = Depth(x) + 1

\* Code at x and at y holds the same.
Alike(x, y) == Depth(y) = Depth(x) /\ \A m \in Locks : Holds(y, m) <=> Holds(x, m)

USE DEF IInv

\* A depth is a number, and is positive where a lock is held.
LEMMA DepthFacts ==
  ASSUME NEW x
  PROVE  Depth(x) \in Nat /\ \A l \in Locks : Holds(x, l) => Depth(x) > 0
<1>1. /\ One(HoldsCons(x)) \in {0, 1} /\ (HoldsCons(x) => One(HoldsCons(x)) = 1)
      /\ One(HoldsTx(x)) \in {0, 1} /\ (HoldsTx(x) => One(HoldsTx(x)) = 1)
      /\ One(HoldsPr(x)) \in {0, 1} /\ (HoldsPr(x) => One(HoldsPr(x)) = 1)
      /\ One(x.pc = "sync_thr") \in {0, 1}
  BY Zenon DEF One
<1>2. \A l \in Locks : Holds(x, l) => HoldsCons(x) \/ HoldsTx(x) \/ HoldsPr(x)
  BY Zenon DEF Holds
<1> QED
  BY <1>1, <1>2 DEF Depth

\* A step that takes and gives back nothing.
LEMMA KeepStep ==
  ASSUME IInv, NEW c \in CPU, NEW ctx \in Context, Moves(c, ctx), Fits(c, ctx),
         Alike(Active(c), ctx), UNCHANGED <<lock, masks, panicked>>,
         rx' \in Seq(Keys) /\ killed' \in [CPU -> BOOLEAN]
  PROVE  IInv' /\ Active(c)' = ctx
<1>1. lock' = lock /\ ie' = ie /\ noff' = noff /\ intena' = intena /\ panicked' = panicked
  BY Zenon DEF masks
<1>2. /\ \A l \in Locks : lock'[l] = c <=> Holds(ctx, l)
      /\ noff'[c] = Depth(ctx)
      /\ ie'[c] = (Len(run[c]) = 1 /\ noff'[c] = 0)
      /\ noff'[c] > 0 => intena'[c] = (Len(run[c]) = 1)
  BY <1>1 DEF Owns, Alike
<1>3. (\A d \in CPU : Stack(d)' /\ Owns(d)') /\ Active(c)' = ctx
  BY <1>1, <1>2, Advance, Zenon
<1>4. Types'
  BY <1>1, Zenon DEF Types, Moves
<1> QED
  BY <1>1, <1>3, <1>4

\* acquire().
LEMMA AcquireStep ==
  ASSUME IInv, NEW c \in CPU, NEW ctx \in Context, Moves(c, ctx), Fits(c, ctx),
         NEW l \in Locks, Takes(l, Active(c), ctx), push_off(c), acquired(c, l),
         rx' \in Seq(Keys) /\ killed' \in [CPU -> BOOLEAN]
  PROVE  IInv' /\ Active(c)' = ctx
<1>1. /\ Owns(c) /\ noff[c] \in Nat /\ ie[c] \in BOOLEAN /\ c # 0
      /\ lock[l] # c /\ lock[l] = 0
  BY ConsoleAssumption, Zenon DEF Types, Owns, Takes, acquired
<1>2. /\ lock' = [lock EXCEPT ![l] = c] /\ ~panicked'
      /\ lock'[l] = c /\ \A m \in Locks : m # l => lock'[m] = lock[m]
      /\ lock' \in [Locks -> CPU \cup {0}]
  BY <1>1, Zenon DEF acquired, Types
<1>3. /\ ie' \in [CPU -> BOOLEAN] /\ ie'[c] = FALSE /\ \A d \in CPU : d # c => ie'[d] = ie[d]
  BY Zenon DEF push_off, Types
<1>4. /\ noff' \in [CPU -> Nat] /\ noff'[c] = noff[c] + 1
      /\ \A d \in CPU : d # c => noff'[d] = noff[d]
  BY <1>1 DEF push_off, Types
<1>5. /\ intena' \in [CPU -> BOOLEAN] /\ \A d \in CPU : d # c => intena'[d] = intena[d]
      /\ intena'[c] = IF noff[c] = 0 THEN ie[c] ELSE intena[c]
  BY <1>1, Zenon DEF push_off, Types
<1>6. \A m \in Locks : lock'[m] = c <=> Holds(ctx, m)
  BY <1>1, <1>2, Zenon DEF Owns, Takes
<1>7. noff'[c] = Depth(ctx) /\ noff'[c] > 0
  BY <1>1, <1>4 DEF Owns, Takes
<1>8. ie'[c] = (Len(run[c]) = 1 /\ noff'[c] = 0)
  BY <1>3, <1>7
<1>9. intena'[c] = (Len(run[c]) = 1)
  BY <1>1, <1>5 DEF Owns
<1>10. (\A d \in CPU : Stack(d)' /\ Owns(d)') /\ Active(c)' = ctx
  <2>1. \A m \in Locks : lock'[m] = lock[m] \/ (lock[m] \in {0, c} /\ lock'[m] \in {0, c})
    BY <1>1, <1>2, Zenon
  <2> QED
    BY <1>3, <1>4, <1>5, <1>6, <1>7, <1>8, <1>9, <2>1, Advance, Zenon
<1>11. Types'
  BY <1>2, <1>3, <1>4, <1>5, Zenon DEF Types, Moves
<1> QED
  BY <1>2, <1>10, <1>11, Zenon

\* What pop_off() does to a CPU that has called push_off().
LEMMA PopFacts ==
  ASSUME IInv, NEW c \in CPU, NEW n \in Nat, Depth(Active(c)) = n + 1, pop_off(c)
  PROVE  /\ ie' \in [CPU -> BOOLEAN] /\ noff' \in [CPU -> Nat] /\ intena' = intena
         /\ \A d \in CPU : d # c => ie'[d] = ie[d] /\ noff'[d] = noff[d]
         /\ noff'[c] = n /\ ie'[c] = (Len(run[c]) = 1 /\ noff'[c] = 0)
         /\ noff'[c] > 0 => intena'[c] = (Len(run[c]) = 1)
         /\ ~pop_off_panics(c)
<1>1. /\ noff[c] = n + 1 /\ intena[c] = (Len(run[c]) = 1) /\ ~ie[c]
      /\ noff \in [CPU -> Nat] /\ ie \in [CPU -> BOOLEAN] /\ intena[c] \in BOOLEAN
  BY DEF Owns, Types
<1>2. /\ noff' \in [CPU -> Nat] /\ noff'[c] = n
      /\ \A d \in CPU : d # c => noff'[d] = noff[d]
  BY <1>1 DEF pop_off
<1>3. /\ ie' \in [CPU -> BOOLEAN] /\ ie'[c] = (noff[c] = 1 /\ intena[c])
      /\ \A d \in CPU : d # c => ie'[d] = ie[d]
  BY <1>1, Zenon DEF pop_off
<1>4. intena' = intena /\ (noff[c] = 1 <=> noff'[c] = 0)
  BY <1>1, <1>2 DEF pop_off
<1>5. ie'[c] = (Len(run[c]) = 1 /\ noff'[c] = 0)
  BY <1>1, <1>3, <1>4, Zenon
<1>6. ~pop_off_panics(c)
  BY <1>1 DEF pop_off_panics
<1> QED
  BY <1>1, <1>2, <1>3, <1>4, <1>5, <1>6, Zenon

\* release().
LEMMA ReleaseStep ==
  ASSUME IInv, NEW c \in CPU, NEW ctx \in Context, Moves(c, ctx), Fits(c, ctx),
         NEW l \in Locks, Takes(l, ctx, Active(c)), release(c, l),
         rx' \in Seq(Keys) /\ killed' \in [CPU -> BOOLEAN]
  PROVE  IInv' /\ Active(c)' = ctx
<1>1. Depth(ctx) \in Nat /\ Depth(Active(c)) = Depth(ctx) + 1 /\ pop_off(c)
  BY DepthFacts, Zenon DEF Takes, release
<1>2. /\ ie' \in [CPU -> BOOLEAN] /\ noff' \in [CPU -> Nat] /\ intena' = intena
      /\ \A d \in CPU : d # c => ie'[d] = ie[d] /\ noff'[d] = noff[d]
      /\ noff'[c] = Depth(ctx) /\ ie'[c] = (Len(run[c]) = 1 /\ noff'[c] = 0)
      /\ noff'[c] > 0 => intena'[c] = (Len(run[c]) = 1)
      /\ ~pop_off_panics(c)
  BY <1>1, PopFacts, Zenon
<1>3. Holds(Active(c), l) /\ lock[l] = c /\ c # 0
  BY ConsoleAssumption DEF Takes, Owns
<1>4. /\ lock' \in [Locks -> CPU \cup {0}] /\ lock'[l] = 0
      /\ \A m \in Locks : m # l => lock'[m] = lock[m]
  BY Zenon DEF release, Types
<1>5. ~panicked'
  BY <1>2, <1>3, Zenon DEF release
<1>6. \A m \in Locks : lock'[m] = c <=> Holds(ctx, m)
  BY <1>3, <1>4 DEF Owns, Takes
<1>7. (\A d \in CPU : Stack(d)' /\ Owns(d)') /\ Active(c)' = ctx
  <2>1. \A m \in Locks : lock'[m] = lock[m] \/ (lock[m] \in {0, c} /\ lock'[m] \in {0, c})
    BY <1>3, <1>4, Zenon
  <2> QED
    BY <1>2, <1>6, <2>1, Advance, Zenon
<1>8. Types'
  BY <1>2, <1>4, Zenon DEF Types, Moves
<1> QED
  BY <1>5, <1>7, <1>8, Zenon

\* sleep(), by a thread that holds lock l and nothing else.
LEMMA SleepStep ==
  ASSUME IInv, NEW c \in CPU, NEW ctx \in Context, Moves(c, ctx), Fits(c, ctx),
         NEW l \in Locks, Takes(l, ctx, Active(c)), Depth(ctx) = 0, Len(run[c]) = 1,
         sleep(c, l), rx' \in Seq(Keys) /\ killed' \in [CPU -> BOOLEAN]
  PROVE  IInv' /\ Active(c)' = ctx
<1>1. noff[c] = 1 /\ lock[l] = c /\ c # 0
  BY ConsoleAssumption DEF Takes, Owns
<1>2. /\ lock' \in [Locks -> CPU \cup {0}] /\ lock'[l] = 0
      /\ \A m \in Locks : m # l => lock'[m] = lock[m]
  BY Zenon DEF sleep, Types
<1>3. /\ ie' \in [CPU -> BOOLEAN] /\ noff' \in [CPU -> Nat] /\ intena' = intena
      /\ \A d \in CPU : d # c => ie'[d] = ie[d] /\ noff'[d] = noff[d]
      /\ noff'[c] = 0 /\ ie'[c] = TRUE /\ ~panicked'
  BY <1>1, Zenon DEF sleep, Types
<1>4. \A m \in Locks : lock'[m] = c <=> Holds(ctx, m)
  BY <1>1, <1>2 DEF Owns, Takes
<1>5. (\A d \in CPU : Stack(d)' /\ Owns(d)') /\ Active(c)' = ctx
  <2>1. \A m \in Locks : lock'[m] = lock[m] \/ (lock[m] \in {0, c} /\ lock'[m] \in {0, c})
    BY <1>1, <1>2, Zenon
  <2>2. ie'[c] = (Len(run[c]) = 1 /\ noff'[c] = 0)
    BY <1>3, Zenon
  <2>3. ~(noff'[c] > 0)
    BY <1>3
  <2> QED
    BY <1>3, <1>4, <2>1, <2>2, <2>3, Advance
<1>6. Types'
  BY <1>2, <1>3, Zenon DEF Types, Moves
<1> QED
  BY <1>3, <1>5, <1>6, Zenon

-----------------------------------------------------------------------------
(* What code holds, by its place.                                          *)

\* Places with no lock.
LEMMA Nothing ==
  ASSUME NEW x, x.pc \in {"user", "read", "sleep_r", "put", "sleep_tx", "claim", "getc", "intr",
                          "hput", "complete"}
  PROVE  Depth(x) = 0 /\ \A m \in Locks : ~Holds(x, m)
<1>1. ~HoldsCons(x) /\ ~HoldsTx(x) /\ ~HoldsPr(x) /\ x.pc # "sync_thr"
  BY Zenon DEF HoldsCons, HoldsTx, HoldsPr
<1> QED
  BY <1>1 DEF Depth, One, Holds

\* Places under cons.lock.
LEMMA OnlyCons ==
  ASSUME NEW x,
         \/ x.pc \in {"read_test", "read_wait", "read_done", "switch", "store", "intr_done"}
         \/ x.pc = "sync" /\ x.then # "print_done"
         \/ x.pc = "print" /\ x.ret = "intr_done"
  PROVE  Depth(x) = 1 /\ \A m \in Locks : Holds(x, m) <=> m = "cons"
<1>1. HoldsCons(x) /\ ~HoldsTx(x) /\ ~HoldsPr(x) /\ x.pc # "sync_thr"
  BY Zenon DEF HoldsCons, HoldsTx, HoldsPr
<1> QED
  BY <1>1 DEF Depth, One, Holds

\* Places under uart_tx_lock.
LEMMA OnlyTx ==
  ASSUME NEW x, x.pc \in {"put_test", "put_done", "start", "thr", "hput_done"}
  PROVE  Depth(x) = 1 /\ \A m \in Locks : Holds(x, m) <=> m = "tx"
<1>1. ~HoldsCons(x) /\ HoldsTx(x) /\ ~HoldsPr(x) /\ x.pc # "sync_thr"
  BY Zenon DEF HoldsCons, HoldsTx, HoldsPr
<1> QED
  BY <1>1 DEF Depth, One, Holds

\* printf() holds its own lock, on top of what its caller holds.
LEMMA Printing ==
  ASSUME NEW x, NEW y, x.pc = "print", x.ret = y.ret,
         y.pc = "print_done" \/ (y.pc = "sync" /\ y.then = "print_done")
  PROVE  Takes("pr", x, y)
<1>1. ~HoldsTx(x) /\ ~HoldsTx(y) /\ ~HoldsPr(x) /\ HoldsPr(y) /\ (HoldsCons(x) <=> HoldsCons(y))
      /\ x.pc # "sync_thr" /\ y.pc # "sync_thr"
  BY Zenon DEF HoldsCons, HoldsTx, HoldsPr
<1>2. /\ One(HoldsTx(x)) = 0 /\ One(HoldsTx(y)) = 0 /\ One(HoldsPr(x)) = 0
      /\ One(HoldsPr(y)) = 1 /\ One(HoldsCons(x)) = One(HoldsCons(y))
      /\ One(HoldsCons(x)) \in {0, 1} /\ One(x.pc = "sync_thr") = 0 /\ One(y.pc = "sync_thr") = 0
  BY <1>1, Zenon DEF One
<1>3. Depth(y) = Depth(x) + 1
  BY <1>2 DEF Depth
<1>4. ~Holds(x, "pr") /\ \A m \in Locks : Holds(y, m) <=> Holds(x, m) \/ m = "pr"
  BY <1>1, Zenon DEF Holds, Locks
<1> QED
  BY <1>3, <1>4, Zenon DEF Takes

\* uartputc_sync() holds what its caller holds, and has called push_off().
LEMMA Syncing ==
  ASSUME NEW x, NEW y, x.ret = y.ret, y.pc = "sync_thr",
         \/ x.pc = "sync" /\ x.then = y.then
         \/ x.pc = y.then /\ y.then \in {"switch", "store", "intr_done", "print_done"}
  PROVE  Depth(y) = Depth(x) + 1 /\ \A m \in Locks : Holds(y, m) <=> Holds(x, m)
<1>1. /\ ~HoldsTx(x) /\ ~HoldsTx(y) /\ (HoldsPr(x) <=> HoldsPr(y))
      /\ (HoldsCons(x) <=> HoldsCons(y)) /\ x.pc # "sync_thr" /\ y.pc = "sync_thr"
  BY Zenon DEF HoldsCons, HoldsTx, HoldsPr
<1>2. /\ One(HoldsTx(x)) = 0 /\ One(HoldsTx(y)) = 0 /\ One(HoldsPr(x)) = One(HoldsPr(y))
      /\ One(HoldsCons(x)) = One(HoldsCons(y))
      /\ One(HoldsCons(x)) \in {0, 1} /\ One(HoldsPr(x)) \in {0, 1}
      /\ One(x.pc = "sync_thr") = 0 /\ One(y.pc = "sync_thr") = 1
  BY <1>1, Zenon DEF One
<1>3. Depth(y) = Depth(x) + 1
  BY <1>2 DEF Depth
<1> QED
  BY <1>1, <1>3, Zenon DEF Holds

\* Taking a lock from nothing.
LEMMA FirstLock ==
  ASSUME NEW x, NEW y, NEW l \in Locks, Depth(x) = 0, \A m \in Locks : ~Holds(x, m),
         Depth(y) = 1, \A m \in Locks : Holds(y, m) <=> m = l
  PROVE  Takes(l, x, y)
BY DEF Takes

\* What only a thread does, and what only a handler does.
LEMMA Level ==
  ASSUME IInv, NEW c \in CPU
  PROVE  /\ Active(c) \in Context /\ Len(run[c]) \in {1, 2} /\ Stack(c)
         /\ Active(c).pc \in {"user", "read", "read_test", "read_wait", "read_done", "sleep_r",
                "put", "put_test", "put_done", "sleep_tx"} =>
              Len(run[c]) = 1 /\ ThreadCtx(Active(c))
         /\ Active(c).pc \in {"claim", "getc", "intr", "switch", "store", "intr_done", "hput",
                "hput_done", "complete"} => Len(run[c]) = 2 /\ HandlerCtx(Active(c))
         /\ Len(run[c]) = 1 => Active(c) = run[c][1] /\ ThreadCtx(Active(c))
         /\ Len(run[c]) = 2 => Active(c) = run[c][2] /\ HandlerCtx(Active(c))
<1>1. /\ Active(c) \in Context /\ Len(run[c]) \in {1, 2} /\ Stack(c)
      /\ Len(run[c]) = 1 => Active(c) = run[c][1] /\ ThreadCtx(Active(c))
      /\ Len(run[c]) = 2 => Active(c) = run[c][2] /\ HandlerCtx(Active(c))
  BY ActiveFacts, Zenon
<1>2. \A x : ThreadCtx(x) => x.pc \in ThreadPC
  BY Zenon DEF ThreadCtx
<1>3. \A x : HandlerCtx(x) => x.pc \in HandlerPC
  BY Zenon DEF HandlerCtx
<1> QED
  BY <1>1, <1>2, <1>3 DEF ThreadPC, HandlerPC

-----------------------------------------------------------------------------
(* The steps.                                                              *)

\* CPU c keeps the invariant and goes on at l.
Moved(c, l) == IInv' /\ Moves(c, Active(c)') /\ Active(c)'.pc = l

\* Acquire(), in general.
LEMMA AcquireMoves ==
  ASSUME IInv, NEW c \in CPU, NEW l \in Locks, NEW pre, NEW post \in Label,
         Acquire(c, l, pre, post), Fits(c, [Active(c) EXCEPT !.pc = post]),
         Takes(l, Active(c), [Active(c) EXCEPT !.pc = post])
  PROVE  Moved(c, post)
<1> DEFINE ctx == [Active(c) EXCEPT !.pc = post]
<1>1. Active(c) \in Context /\ ctx \in Context /\ ctx.pc = post /\ Stack(c)
  BY Level, GotoFacts, Zenon
<1>2. Become(c, ctx) /\ push_off(c) /\ acquired(c, l) /\ UNCHANGED <<killed, uart>>
  BY Zenon DEF Acquire, Goto
<1> HIDE DEF ctx
<1>3. Moves(c, ctx)
  BY <1>1, <1>2, BecomeMoves, Zenon
<1>4. rx' \in Seq(Keys) /\ killed' \in [CPU -> BOOLEAN]
  BY <1>2, Zenon DEF uart, Types
<1>5. Fits(c, ctx) /\ Takes(l, Active(c), ctx)
  BY Zenon DEF ctx
<1>6. IInv' /\ Active(c)' = ctx
  BY <1>1, <1>2, <1>3, <1>4, <1>5, AcquireStep, Zenon
<1> QED
  BY <1>1, <1>3, <1>6, Zenon DEF Moved

\* The three kinds of acquire(): in a thread, in a handler, in printf().
LEMMA AcquireSteps ==
  ASSUME IInv, NEW c \in CPU
  PROVE  /\ Acquire(c, "cons", "read", "read_test") => Moved(c, "read_test")
         /\ Acquire(c, "tx", "put", "put_test") => Moved(c, "put_test")
         /\ Acquire(c, "cons", "intr", "switch") => Moved(c, "switch")
         /\ Acquire(c, "tx", "hput", "start") => Moved(c, "start")
         /\ Acquire(c, "pr", "print", "sync") => Moved(c, "sync")
<1>1. /\ "read_test" \in Label /\ "put_test" \in Label /\ "switch" \in Label
      /\ "start" \in Label /\ "sync" \in Label
      /\ "cons" \in Locks /\ "tx" \in Locks /\ "pr" \in Locks
  BY Zenon DEF Label, ThreadPC, HandlerPC, Locks
<1>2. ASSUME NEW post \in {"read_test", "put_test", "switch", "start", "sync"}
      PROVE  /\ [Active(c) EXCEPT !.pc = post].pc = post
             /\ [Active(c) EXCEPT !.pc = post].then = Active(c).then
             /\ [Active(c) EXCEPT !.pc = post].ret = Active(c).ret
  BY <1>1, Level, GotoFacts
<1>3. ASSUME Acquire(c, "cons", "read", "read_test") PROVE Moved(c, "read_test")
  <2> DEFINE y == [Active(c) EXCEPT !.pc = "read_test"]
  <2>1. Active(c).pc = "read" /\ Len(run[c]) = 1 /\ ThreadCtx(Active(c))
    BY <1>3, Level, Zenon DEF Acquire, At
  <2>2. y.pc = "read_test" /\ y.ret = Active(c).ret
    BY <1>2, Zenon
  <2> HIDE DEF y
  <2>3. Takes("cons", Active(c), y)
    BY <1>1, <2>1, <2>2, Nothing, OnlyCons, FirstLock
  <2>4. Fits(c, y)
    BY <2>1, <2>2 DEF Fits, ThreadCtx, ThreadPC
  <2> QED
    BY <1>1, <1>3, <2>3, <2>4, AcquireMoves, Zenon DEF y
<1>4. ASSUME Acquire(c, "tx", "put", "put_test") PROVE Moved(c, "put_test")
  <2> DEFINE y == [Active(c) EXCEPT !.pc = "put_test"]
  <2>1. Active(c).pc = "put" /\ Len(run[c]) = 1 /\ ThreadCtx(Active(c))
    BY <1>4, Level, Zenon DEF Acquire, At
  <2>2. y.pc = "put_test" /\ y.ret = Active(c).ret /\ y.then = Active(c).then
    BY <1>2, Zenon
  <2> HIDE DEF y
  <2>3. Takes("tx", Active(c), y)
    BY <1>1, <2>1, <2>2, Nothing, OnlyTx, FirstLock
  <2>4. Fits(c, y)
    BY <2>1, <2>2 DEF Fits, ThreadCtx, ThreadPC
  <2> QED
    BY <1>1, <1>4, <2>3, <2>4, AcquireMoves, Zenon DEF y
<1>5. ASSUME Acquire(c, "cons", "intr", "switch") PROVE Moved(c, "switch")
  <2> DEFINE y == [Active(c) EXCEPT !.pc = "switch"]
  <2>1. Active(c).pc = "intr" /\ Len(run[c]) = 2 /\ HandlerCtx(Active(c))
    BY <1>5, Level, Zenon DEF Acquire, At
  <2>2. y.pc = "switch" /\ y.ret = Active(c).ret
    BY <1>2, Zenon
  <2> HIDE DEF y
  <2>3. Takes("cons", Active(c), y)
    BY <1>1, <2>1, <2>2, Nothing, OnlyCons, FirstLock
  <2>4. Fits(c, y)
    BY <2>1, <2>2 DEF Fits, HandlerCtx, HandlerPC
  <2> QED
    BY <1>1, <1>5, <2>3, <2>4, AcquireMoves, Zenon DEF y
<1>6. ASSUME Acquire(c, "tx", "hput", "start") PROVE Moved(c, "start")
  <2> DEFINE y == [Active(c) EXCEPT !.pc = "start"]
  <2>1. Active(c).pc = "hput" /\ Len(run[c]) = 2 /\ HandlerCtx(Active(c))
    BY <1>6, Level, Zenon DEF Acquire, At
  <2>2. y.pc = "start" /\ y.then = Active(c).then
    BY <1>2, Zenon
  <2> HIDE DEF y
  <2>3. Takes("tx", Active(c), y)
    BY <1>1, <2>1, <2>2, Nothing, OnlyTx, FirstLock
  <2>4. Fits(c, y)
    BY <2>1, <2>2 DEF Fits, HandlerCtx, HandlerPC
  <2> QED
    BY <1>1, <1>6, <2>3, <2>4, AcquireMoves, Zenon DEF y
<1>7. ASSUME Acquire(c, "pr", "print", "sync") PROVE Moved(c, "sync")
  <2> DEFINE y == [Active(c) EXCEPT !.pc = "sync"]
  <2>1. /\ Active(c).pc = "print" /\ Len(run[c]) \in {1, 2}
        /\ Len(run[c]) = 1 => ThreadCtx(Active(c))
        /\ Len(run[c]) = 2 => HandlerCtx(Active(c))
    BY <1>7, Level, Zenon DEF Acquire, At
  <2>2. y.pc = "sync" /\ y.then = Active(c).then /\ y.ret = Active(c).ret
    BY <1>2, Zenon
  <2> HIDE DEF y
  <2>3. Active(c).then = "print_done"
    BY <2>1, Zenon DEF ThreadCtx, HandlerCtx
  <2>4. Takes("pr", Active(c), y)
    BY <2>1, <2>2, <2>3, Printing, Zenon
  <2>5. Fits(c, y)
    <3>1. ThreadCtx(Active(c)) => ThreadCtx(y)
      BY <2>2, <2>3, Zenon DEF ThreadCtx, ThreadPC
    <3>2. HandlerCtx(Active(c)) => HandlerCtx(y)
      BY <2>1, <2>2, <2>3, Zenon DEF HandlerCtx, HandlerPC
    <3> QED
      BY <2>1, <3>1, <3>2, Zenon DEF Fits
  <2> QED
    BY <1>1, <1>7, <2>4, <2>5, AcquireMoves, Zenon DEF y
<1> QED
  BY <1>3, <1>4, <1>5, <1>6, <1>7, Zenon

\* release(), in general.
LEMMA ReleaseMoves ==
  ASSUME IInv, NEW c \in CPU, NEW ctx \in Context, NEW l \in Locks,
         Become(c, ctx), release(c, l), UNCHANGED <<killed, uart>>,
         Fits(c, ctx), Takes(l, ctx, Active(c))
  PROVE  Moved(c, ctx.pc)
<1>1. Moves(c, ctx)
  BY Level, BecomeMoves, Zenon
<1>2. rx' \in Seq(Keys) /\ killed' \in [CPU -> BOOLEAN]
  BY Zenon DEF uart, Types
<1>3. IInv' /\ Active(c)' = ctx
  BY <1>1, <1>2, ReleaseStep, Zenon
<1> QED
  BY <1>1, <1>3, Zenon DEF Moved

\* Goto(), and a fresh context, with the invariant.
LEMMA KeepMoves ==
  ASSUME IInv, NEW c \in CPU, NEW ctx \in Context, Become(c, ctx),
         Fits(c, ctx), Alike(Active(c), ctx), UNCHANGED <<lock, masks, killed, panicked>>,
         rx' \in Seq(Keys)
  PROVE  Moved(c, ctx.pc) /\ Active(c)' = ctx
<1>1. Moves(c, ctx)
  BY Level, BecomeMoves, Zenon
<1>2. killed' \in [CPU -> BOOLEAN]
  BY Zenon DEF Types
<1>3. IInv' /\ Active(c)' = ctx
  BY <1>1, <1>2, KeepStep, Zenon
<1> QED
  BY <1>1, <1>3, Zenon DEF Moved

\* A context that is fresh is right for its level.
LEMMA FreshFits ==
  ASSUME NEW c \in CPU, NEW l \in Label,
         \/ Len(run[c]) = 1 /\ l = "user"
         \/ Len(run[c]) = 2 /\ l \in {"getc", "complete", "intr_done"}
  PROVE  Ctx(l) \in Context /\ Ctx(l).pc = l /\ Fits(c, Ctx(l))
<1>1. Ctx(l) \in Context /\ Ctx(l).pc = l /\ Ctx(l).ret = "user"
  BY CtxFacts, Zenon
<1>2. l = "user" => ThreadCtx(Ctx(l))
  BY <1>1, Zenon DEF ThreadCtx, ThreadPC
<1>3. l \in {"getc", "complete", "intr_done"} => HandlerCtx(Ctx(l))
  BY <1>1, Zenon DEF HandlerCtx, HandlerPC
<1> QED
  BY <1>1, <1>2, <1>3 DEF Fits

\* The releases.
LEMMA ReleaseSteps ==
  ASSUME IInv, NEW c \in CPU
  PROVE  /\ read_killed(c) => Moved(c, "user")
         /\ read_done(c) => Moved(c, "user")
         /\ put_done(c) => Moved(c, "user")
         /\ intr_done(c) => Moved(c, "getc")
         /\ hput_done(c) => Moved(c, "complete")
<1>1. /\ "user" \in Label /\ "getc" \in Label /\ "complete" \in Label
      /\ "cons" \in Locks /\ "tx" \in Locks
  BY Zenon DEF Label, ThreadPC, HandlerPC, Locks
<1>2. ASSUME read_killed(c) PROVE Moved(c, "user")
  <2> DEFINE y == [Active(c) EXCEPT !.pc = "user"]
  <2>1. Active(c).pc = "read_test" /\ Len(run[c]) = 1 /\ ThreadCtx(Active(c))
    BY <1>2, Level, Zenon DEF read_killed, At
  <2>2. y \in Context /\ y.pc = "user" /\ y.ret = Active(c).ret
    BY <1>1, Level, GotoFacts
  <2>3. Become(c, y) /\ release(c, "cons") /\ UNCHANGED <<killed, uart>>
    BY <1>2, Zenon DEF read_killed, Goto
  <2> HIDE DEF y
  <2>4. Takes("cons", y, Active(c))
    BY <1>1, <2>1, <2>2, Nothing, OnlyCons, FirstLock
  <2>5. Fits(c, y)
    BY <2>1, <2>2 DEF Fits, ThreadCtx, ThreadPC
  <2> QED
    BY <1>1, <2>2, <2>3, <2>4, <2>5, ReleaseMoves, Zenon
<1>3. ASSUME read_done(c) PROVE Moved(c, "user")
  <2>1. Active(c).pc = "read_done" /\ Len(run[c]) = 1
    BY <1>3, Level, Zenon DEF read_done, At
  <2>2. Ctx("user") \in Context /\ Ctx("user").pc = "user" /\ Fits(c, Ctx("user"))
    BY <1>1, <2>1, FreshFits, Zenon
  <2>3. Takes("cons", Ctx("user"), Active(c))
    BY <1>1, <2>1, <2>2, Nothing, OnlyCons, FirstLock
  <2>4. Become(c, Ctx("user")) /\ release(c, "cons") /\ UNCHANGED <<killed, uart>>
    BY <1>3, Zenon DEF read_done
  <2> QED
    BY <1>1, <2>2, <2>3, <2>4, ReleaseMoves, Zenon
<1>4. ASSUME put_done(c) PROVE Moved(c, "user")
  <2>1. Active(c).pc = "put_done" /\ Len(run[c]) = 1
    BY <1>4, Level, Zenon DEF put_done, At
  <2>2. Ctx("user") \in Context /\ Ctx("user").pc = "user" /\ Fits(c, Ctx("user"))
    BY <1>1, <2>1, FreshFits, Zenon
  <2>3. Takes("tx", Ctx("user"), Active(c))
    BY <1>1, <2>1, <2>2, Nothing, OnlyTx, FirstLock
  <2>4. Become(c, Ctx("user")) /\ release(c, "tx") /\ UNCHANGED <<killed, uart>>
    BY <1>4, Zenon DEF put_done
  <2> QED
    BY <1>1, <2>2, <2>3, <2>4, ReleaseMoves, Zenon
<1>5. ASSUME intr_done(c) PROVE Moved(c, "getc")
  <2>1. Active(c).pc = "intr_done" /\ Len(run[c]) = 2
    BY <1>5, Level, Zenon DEF intr_done, At
  <2>2. Ctx("getc") \in Context /\ Ctx("getc").pc = "getc" /\ Fits(c, Ctx("getc"))
    BY <1>1, <2>1, FreshFits, Zenon
  <2>3. Takes("cons", Ctx("getc"), Active(c))
    BY <1>1, <2>1, <2>2, Nothing, OnlyCons, FirstLock
  <2>4. Become(c, Ctx("getc")) /\ release(c, "cons") /\ UNCHANGED <<killed, uart>>
    BY <1>5, Zenon DEF intr_done
  <2> QED
    BY <1>1, <2>2, <2>3, <2>4, ReleaseMoves, Zenon
<1>6. ASSUME hput_done(c) PROVE Moved(c, "complete")
  <2>1. Active(c).pc = "hput_done" /\ Len(run[c]) = 2
    BY <1>6, Level, Zenon DEF hput_done, At
  <2>2. Ctx("complete") \in Context /\ Ctx("complete").pc = "complete" /\ Fits(c, Ctx("complete"))
    BY <1>1, <2>1, FreshFits, Zenon
  <2>3. Takes("tx", Ctx("complete"), Active(c))
    BY <1>1, <2>1, <2>2, Nothing, OnlyTx, FirstLock
  <2>4. Become(c, Ctx("complete")) /\ release(c, "tx") /\ UNCHANGED <<killed, uart>>
    BY <1>6, Zenon DEF hput_done
  <2> QED
    BY <1>1, <2>2, <2>3, <2>4, ReleaseMoves, Zenon
<1> QED
  BY <1>2, <1>3, <1>4, <1>5, <1>6, Zenon

\* printf() returns to its caller: the thread, or consoleintr() under cons.lock.
LEMMA print_doneStep ==
  ASSUME IInv, NEW c \in CPU, print_done(c)
  PROVE  Moved(c, Active(c).ret) /\ Active(c).ret \in {"user", "intr_done"}
<1>1. /\ Active(c).pc = "print_done" /\ Len(run[c]) \in {1, 2}
      /\ Len(run[c]) = 1 => ThreadCtx(Active(c))
      /\ Len(run[c]) = 2 => HandlerCtx(Active(c))
  BY Level, Zenon DEF print_done, At
<1>2. /\ Len(run[c]) = 1 => Active(c).ret = "user"
      /\ Len(run[c]) = 2 => Active(c).ret = "intr_done"
  BY <1>1, Zenon DEF ThreadCtx, HandlerCtx
<1>3. "user" \in Label /\ "intr_done" \in Label /\ "pr" \in Locks
  BY Zenon DEF Label, ThreadPC, HandlerPC, Locks
<1> DEFINE y == Ctx(Active(c).ret)
<1>4. y \in Context /\ y.pc = Active(c).ret /\ Fits(c, y)
  BY <1>1, <1>2, <1>3, FreshFits, Zenon
<1>5. Become(c, y) /\ release(c, "pr") /\ UNCHANGED <<killed, uart>>
  BY Zenon DEF print_done
<1> HIDE DEF y
<1>6. Takes("pr", y, Active(c))
  <2>1. /\ HoldsPr(Active(c)) /\ ~HoldsPr(y) /\ ~HoldsTx(y) /\ ~HoldsTx(Active(c))
        /\ HoldsCons(y) <=> HoldsCons(Active(c))
        /\ y.pc # "sync_thr" /\ Active(c).pc # "sync_thr"
    BY <1>1, <1>2, <1>4, Zenon DEF HoldsCons, HoldsTx, HoldsPr
  <2>2. /\ One(HoldsPr(Active(c))) = 1 /\ One(HoldsPr(y)) = 0 /\ One(HoldsTx(y)) = 0
        /\ One(HoldsTx(Active(c))) = 0 /\ One(HoldsCons(y)) = One(HoldsCons(Active(c)))
        /\ One(HoldsCons(y)) \in {0, 1}
        /\ One(y.pc = "sync_thr") = 0 /\ One(Active(c).pc = "sync_thr") = 0
    BY <2>1, Zenon DEF One
  <2>3. Depth(Active(c)) = Depth(y) + 1
    BY <2>2 DEF Depth
  <2>4. ~Holds(y, "pr") /\ \A m \in Locks : Holds(Active(c), m) <=> Holds(y, m) \/ m = "pr"
    BY <2>1, Zenon DEF Holds, Locks
  <2> QED
    BY <2>3, <2>4, Zenon DEF Takes
<1>7. Moved(c, y.pc)
  BY <1>3, <1>4, <1>5, <1>6, ReleaseMoves, Zenon
<1> QED
  BY <1>1, <1>2, <1>4, <1>7, Zenon

\* The two places where a thread sleeps.
LEMMA SleepSteps ==
  ASSUME IInv, NEW c \in CPU
  PROVE  /\ read_sleep(c) => Moved(c, "sleep_r")
         /\ put_sleep(c) => Moved(c, "sleep_tx")
<1>1. ASSUME NEW l \in {"cons", "tx"}, NEW pc \in {"sleep_r", "sleep_tx"},
             Active(c).pc = IF l = "cons" THEN "read_wait" ELSE "put_test",
             pc = IF l = "cons" THEN "sleep_r" ELSE "sleep_tx",
             sleep(c, l), Goto(c, pc), UNCHANGED <<killed, uart>>
      PROVE  Moved(c, pc)
  <2> DEFINE y == [Active(c) EXCEPT !.pc = pc]
  <2>1. Len(run[c]) = 1 /\ ThreadCtx(Active(c)) /\ Active(c) \in Context /\ Stack(c) /\ Types
    BY <1>1, Level, Zenon
  <2>2. l \in Locks /\ pc \in Label
    BY Zenon DEF Label, ThreadPC, Locks
  <2>3. y \in Context /\ y.pc = pc /\ y.ret = Active(c).ret /\ y.then = Active(c).then
    BY <2>1, <2>2, GotoFacts, Zenon
  <2>4. Become(c, y)
    BY <1>1, Zenon DEF Goto
  <2> HIDE DEF y
  <2>5. Moves(c, y)
    BY <2>1, <2>3, <2>4, BecomeMoves, Zenon
  <2>6. Depth(y) = 0 /\ \A m \in Locks : ~Holds(y, m)
    BY <2>3, Nothing
  <2>7. Depth(Active(c)) = 1 /\ \A m \in Locks : Holds(Active(c), m) <=> m = l
    BY <1>1, OnlyCons, OnlyTx
  <2>8. Takes(l, y, Active(c))
    BY <2>2, <2>6, <2>7, FirstLock, Zenon
  <2>9. Fits(c, y)
    BY <1>1, <2>1, <2>3 DEF Fits, ThreadCtx, ThreadPC
  <2>10. rx' \in Seq(Keys) /\ killed' \in [CPU -> BOOLEAN]
    BY <1>1, Zenon DEF uart, Types
  <2>11. IInv' /\ Active(c)' = y
    BY <1>1, <2>1, <2>2, <2>3, <2>5, <2>6, <2>8, <2>9, <2>10, SleepStep, Zenon
  <2> QED
    BY <2>3, <2>5, <2>11, Zenon DEF Moved
<1> QED
  BY <1>1, Zenon DEF read_sleep, put_sleep, At

\* Where the calls begin.
LEMMA CallSteps ==
  ASSUME IInv, NEW c \in CPU
  PROVE  /\ consoleread(c) => Moved(c, "read")
         /\ consolewrite(c) => Moved(c, "put")
         /\ printf(c) => Moved(c, "print")
<1>1. ASSUME NEW l \in {"read", "put", "print"}, NEW y \in Context, y.pc = l, y.ret = "user",
             l = "put" => y.then = "put_done", l = "print" => y.then = "print_done",
             Active(c).pc = "user", Become(c, y),
             UNCHANGED <<lock, masks, killed, uart, panicked>>
      PROVE  Moved(c, l)
  <2>1. Len(run[c]) = 1
    BY <1>1, Level, Zenon
  <2>2. Depth(Active(c)) = 0 /\ \A m \in Locks : ~Holds(Active(c), m)
    BY <1>1, Nothing
  <2>3. Depth(y) = 0 /\ \A m \in Locks : ~Holds(y, m)
    <3>1. ~HoldsCons(y) /\ ~HoldsTx(y) /\ ~HoldsPr(y) /\ y.pc # "sync_thr"
      BY <1>1, Zenon DEF HoldsCons, HoldsTx, HoldsPr
    <3> QED
      BY <3>1 DEF Depth, One, Holds
  <2>4. Alike(Active(c), y)
    BY <2>2, <2>3, Zenon DEF Alike
  <2>5. Fits(c, y)
    BY <1>1, <2>1 DEF Fits, ThreadCtx, ThreadPC
  <2>6. rx' \in Seq(Keys)
    BY <1>1, Zenon DEF uart, Types
  <2> QED
    BY <1>1, <2>4, <2>5, <2>6, KeepMoves, Zenon
<1>2. /\ "read" \in Label /\ "put" \in Label /\ "print" \in Label /\ "put_done" \in Label
      /\ "print_done" \in Label /\ ReadN \in Int
  BY ConsoleAssumption DEF Label, ThreadPC
<1>3. ASSUME consoleread(c) PROVE Moved(c, "read")
  <2> DEFINE y == [Ctx("read") EXCEPT !.n = ReadN]
  <2>1. y \in Context /\ y.pc = "read" /\ y.ret = "user"
    BY <1>2, CtxFacts DEF Context
  <2>2. Active(c).pc = "user" /\ Become(c, y) /\ UNCHANGED <<lock, masks, killed, uart, panicked>>
    BY <1>3, Zenon DEF consoleread, At
  <2> HIDE DEF y
  <2> QED
    BY <1>1, <2>1, <2>2, Zenon
<1>4. ASSUME consolewrite(c) PROVE Moved(c, "put")
  <2> DEFINE y == [Ctx("put") EXCEPT !.then = "put_done"]
  <2>1. y \in Context /\ y.pc = "put" /\ y.ret = "user" /\ y.then = "put_done"
    BY <1>2, CtxFacts DEF Context
  <2>2. Active(c).pc = "user" /\ Become(c, y) /\ UNCHANGED <<lock, masks, killed, uart, panicked>>
    BY <1>4, Zenon DEF consolewrite, At
  <2> HIDE DEF y
  <2> QED
    BY <1>1, <2>1, <2>2, Zenon
<1>5. ASSUME printf(c) PROVE Moved(c, "print")
  <2> DEFINE y == [Ctx("print") EXCEPT !.then = "print_done"]
  <2>1. y \in Context /\ y.pc = "print" /\ y.ret = "user" /\ y.then = "print_done"
    BY <1>2, CtxFacts DEF Context
  <2>2. Active(c).pc = "user" /\ Become(c, y) /\ UNCHANGED <<lock, masks, killed, uart, panicked>>
    BY <1>5, Zenon DEF printf, At
  <2> HIDE DEF y
  <2> QED
    BY <1>1, <2>1, <2>2, Zenon
<1> QED
  BY <1>3, <1>4, <1>5, Zenon

\* Steps of a reader under cons.lock.
LEMMA ReadSteps ==
  ASSUME IInv, NEW c \in CPU, read_char(c) \/ read_badaddr(c)
  PROVE  \E l \in {"read_test", "read_done"} : Moved(c, l)
<1>1. \E y \in Context : /\ y.pc \in {"read_test", "read_done"} /\ y.ret = Active(c).ret
                         /\ Become(c, y)
  <2>1. Active(c) \in Context /\ Active(c).n \in Int /\ "read_done" \in Label
    BY Level, Zenon DEF Context, Label, ThreadPC
  <2>2. CASE read_char(c)
    <3> DEFINE ch == buf[r % INPUT_BUF_SIZE]
               l == IF ch \in {EOF, NL} \/ Active(c).n = 1 THEN "read_done" ELSE Active(c).pc
               n == IF ch = EOF THEN Active(c).n ELSE Active(c).n - 1
               y == [Active(c) EXCEPT !.pc = l, !.n = n]
    <3>1. Become(c, y) /\ Active(c).pc = "read_test"
      BY <2>2, Zenon DEF read_char, At
    <3>2. l \in {"read_test", "read_done"} /\ n \in Int
      BY <2>1, <3>1
    <3>3. "read_test" \in Label /\ "read_done" \in Label
      BY Zenon DEF Label, ThreadPC
    <3> HIDE DEF l, n
    <3>4. y \in Context /\ y.pc \in {"read_test", "read_done"} /\ y.ret = Active(c).ret
      BY <2>1, <3>2, <3>3, Zenon DEF Context
    <3> QED
      BY <3>1, <3>4, Zenon
  <2>3. CASE read_badaddr(c)
    BY <2>1, <2>3, GotoFacts, Zenon DEF read_badaddr, Goto
  <2> QED
    BY <2>2, <2>3, Zenon
<1>2. PICK y \in Context : /\ y.pc \in {"read_test", "read_done"} /\ y.ret = Active(c).ret
                           /\ Become(c, y)
  BY <1>1, Zenon
<1>3. Active(c).pc = "read_test" /\ UNCHANGED <<lock, masks, killed, uart, panicked>>
  BY Zenon DEF read_char, read_badaddr, At
<1>4. Len(run[c]) = 1 /\ ThreadCtx(Active(c))
  BY <1>3, Level, Zenon
<1>5. Alike(Active(c), y)
  BY <1>2, <1>3, OnlyCons, Zenon DEF Alike
<1>6. Fits(c, y)
  BY <1>2, <1>4 DEF Fits, ThreadCtx, ThreadPC
<1>7. rx' \in Seq(Keys)
  BY <1>3, Zenon DEF uart, Types
<1> QED
  BY <1>2, <1>3, <1>5, <1>6, <1>7, KeepMoves, Zenon

\* The reader has nothing to read.
LEMMA TestStep ==
  ASSUME IInv, NEW c \in CPU, read_test(c)
  PROVE  Moved(c, "read_wait")
<1> DEFINE y == [Active(c) EXCEPT !.pc = "read_wait"]
<1>1. /\ Active(c).pc = "read_test" /\ Become(c, y)
      /\ UNCHANGED <<lock, masks, killed, uart, panicked>>
  BY Zenon DEF read_test, At, Goto
<1>2. "read_wait" \in Label
  BY Zenon DEF Label, ThreadPC
<1>3. y \in Context /\ y.pc = "read_wait" /\ y.ret = Active(c).ret
  BY <1>2, Level, GotoFacts, Zenon
<1> HIDE DEF y
<1>4. Len(run[c]) = 1 /\ ThreadCtx(Active(c))
  BY <1>1, Level, Zenon
<1>5. Alike(Active(c), y)
  BY <1>1, <1>3, OnlyCons, Zenon DEF Alike
<1>6. Fits(c, y)
  BY <1>3, <1>4 DEF Fits, ThreadCtx, ThreadPC
<1>7. rx' \in Seq(Keys)
  BY <1>1, Zenon DEF uart, Types
<1> QED
  BY <1>1, <1>3, <1>5, <1>6, <1>7, KeepMoves, Zenon

\* Steps under uart_tx_lock.
LEMMA TransmitSteps ==
  ASSUME IInv, NEW c \in CPU
  PROVE  /\ put_store(c) => Moved(c, "start")
         /\ uartstart(c) => Moved(c, "thr")
         /\ uartstart_write(c) => Moved(c, "start")
         /\ uartstart_return(c) => \E l \in {"put_done", "hput_done"} : Moved(c, l)
<1>1. ASSUME NEW l \in {"start", "thr", "put_done", "hput_done"},
             Active(c).pc \in {"put_test", "start", "thr"},
             l \in {"put_done", "hput_done"} => l = Active(c).then,
             l \in {"start", "thr", Active(c).then},
             \/ Goto(c, l)
             \/ l = "thr" /\ Wakeup(c, "sleep_tx", [Active(c) EXCEPT !.pc = l]),
             UNCHANGED <<lock, masks, killed, rx, panicked>>
      PROVE  Moved(c, l)
  <2> DEFINE y == [Active(c) EXCEPT !.pc = l]
  <2>1. Active(c) \in Context /\ Stack(c) /\ l \in Label
    BY Level, Zenon DEF Label, ThreadPC, HandlerPC
  <2>2. y \in Context /\ y.pc = l /\ y.ret = Active(c).ret /\ y.then = Active(c).then
    BY <2>1, GotoFacts, Zenon
  <2>3. Become(c, y) \/ (l = "thr" /\ Wakeup(c, "sleep_tx", y))
    BY <1>1, Zenon DEF Goto
  <2> HIDE DEF y
  <2>4. Moves(c, y)
    BY <2>1, <2>2, <2>3, BecomeMoves, WakeupMoves, Zenon
  <2>5. Alike(Active(c), y)
    BY <1>1, <2>2, OnlyTx DEF Alike
  <2>6. Fits(c, y)
    <3>1. Len(run[c]) = 1 => ThreadCtx(Active(c)) /\ Active(c).then = "put_done"
      BY <1>1, Level, Zenon DEF ThreadCtx
    <3>2. Len(run[c]) = 2 =>
            HandlerCtx(Active(c)) /\ Active(c).pc # "put_test" /\ Active(c).then = "hput_done"
      BY <1>1, Level, Zenon DEF HandlerCtx, HandlerPC
    <3>3. Len(run[c]) = 1 => ThreadCtx(y)
      BY <1>1, <2>2, <3>1, Zenon DEF ThreadCtx, ThreadPC
    <3>4. Len(run[c]) = 2 => HandlerCtx(y)
      BY <1>1, <2>2, <3>2, Zenon DEF HandlerCtx, HandlerPC
    <3> QED
      BY <3>3, <3>4, Zenon DEF Fits
  <2>7. rx' \in Seq(Keys) /\ killed' \in [CPU -> BOOLEAN]
    BY <1>1, Zenon DEF Types
  <2>8. IInv' /\ Active(c)' = y
    BY <1>1, <2>2, <2>4, <2>5, <2>6, <2>7, KeepStep, Zenon
  <2> QED
    BY <2>2, <2>4, <2>8, Zenon DEF Moved
<1>2. ASSUME uartstart_return(c) PROVE \E l \in {"put_done", "hput_done"} : Moved(c, l)
  <2>1. Active(c).pc = "start" /\ Goto(c, Active(c).then)
        /\ UNCHANGED <<lock, masks, killed, rx, panicked>>
    BY <1>2, Zenon DEF uartstart_return, At, uart
  <2>2. Active(c).then \in {"put_done", "hput_done"}
    BY <2>1, Level, Zenon DEF ThreadCtx, HandlerCtx
  <2> QED
    BY <1>1, <2>1, <2>2, Zenon
<1>3. put_store(c) => Moved(c, "start")
  BY <1>1, Zenon DEF put_store, At, uart
<1>4. uartstart(c) => Moved(c, "thr")
  BY <1>1, Zenon DEF uartstart, At, uart
<1>5. uartstart_write(c) => Moved(c, "start")
  BY <1>1, Zenon DEF uartstart_write, At
<1> QED
  BY <1>2, <1>3, <1>4, <1>5, Zenon

\* uartputc_sync() masks interrupts by push_off() and pop_off() alone.
LEMMA SyncSteps ==
  ASSUME IInv, NEW c \in CPU
  PROVE  /\ uartputc_sync(c) => Moved(c, "sync_thr") /\ Active(c)'.then = Active(c).then
                                /\ Active(c)'.c = Active(c).c
         /\ sync_write(c) => /\ Moved(c, Active(c).then) /\ Active(c)'.c = Active(c).c
                             /\ Active(c).then \in {"print_done", "switch", "store", "intr_done"}
<1>1. Active(c) \in Context /\ Stack(c) /\ Types /\ Len(run[c]) \in {1, 2} /\ Owns(c)
  BY Level, Zenon
<1>2. ASSUME uartputc_sync(c)
      PROVE  /\ Moved(c, "sync_thr") /\ Active(c)'.then = Active(c).then
             /\ Active(c)'.c = Active(c).c
  <2> DEFINE y == [Active(c) EXCEPT !.pc = "sync_thr"]
  <2>1. /\ Active(c).pc = "sync" /\ Become(c, y) /\ push_off(c)
        /\ UNCHANGED <<lock, killed, uart, panicked>>
    BY <1>2, Zenon DEF uartputc_sync, At, Goto
  <2>2. "sync_thr" \in Label
    BY Zenon DEF Label, ThreadPC
  <2>3. /\ y \in Context /\ y.pc = "sync_thr" /\ y.ret = Active(c).ret /\ y.then = Active(c).then
        /\ y.c = Active(c).c
    BY <1>1, <2>2, GotoFacts, Zenon
  <2> HIDE DEF y
  <2>4. Moves(c, y)
    BY <1>1, <2>1, <2>3, BecomeMoves, Zenon
  <2>5. Depth(y) = Depth(Active(c)) + 1 /\ \A m \in Locks : Holds(y, m) <=> Holds(Active(c), m)
    BY <2>1, <2>3, Syncing, Zenon
  <2>6. Fits(c, y)
    <3>1. ThreadCtx(Active(c)) => ThreadCtx(y)
      BY <2>1, <2>3, Zenon DEF ThreadCtx, ThreadPC
    <3>2. HandlerCtx(Active(c)) => HandlerCtx(y)
      BY <2>1, <2>3, Zenon DEF HandlerCtx, HandlerPC
    <3> QED
      BY <3>1, <3>2, Level, Zenon DEF Fits
  <2>7. noff[c] \in Nat /\ ie[c] \in BOOLEAN /\ noff[c] = Depth(Active(c)) /\ lock' = lock
    BY <1>1, <2>1, Zenon DEF Types, Owns
  <2>8. /\ ie' \in [CPU -> BOOLEAN] /\ ie'[c] = FALSE /\ \A d \in CPU : d # c => ie'[d] = ie[d]
    BY <2>1, Zenon DEF push_off, Types
  <2>9. /\ noff' \in [CPU -> Nat] /\ noff'[c] = noff[c] + 1
        /\ \A d \in CPU : d # c => noff'[d] = noff[d]
    BY <2>1, <2>7 DEF push_off, Types
  <2>10. /\ intena' \in [CPU -> BOOLEAN] /\ \A d \in CPU : d # c => intena'[d] = intena[d]
         /\ intena'[c] = IF noff[c] = 0 THEN ie[c] ELSE intena[c]
    BY <2>1, <2>7, Zenon DEF push_off, Types
  <2>11. intena'[c] = (Len(run[c]) = 1)
    BY <1>1, <2>7, <2>10 DEF Owns
  <2>12. noff'[c] = Depth(y) /\ noff'[c] > 0
    BY <2>5, <2>7, <2>9
  <2>13. ie'[c] = (Len(run[c]) = 1 /\ noff'[c] = 0)
    BY <2>8, <2>12
  <2>14. \A m \in Locks : lock'[m] = c <=> Holds(y, m)
    BY <1>1, <2>5, <2>7, Zenon DEF Owns
  <2>15. (\A d \in CPU : Stack(d)' /\ Owns(d)') /\ Active(c)' = y
    BY <2>3, <2>4, <2>6, <2>7, <2>8, <2>9, <2>10, <2>11, <2>12, <2>13, <2>14, Advance, Zenon
  <2>16. Types' /\ ~panicked'
    BY <2>1, <2>4, <2>8, <2>9, <2>10, Zenon DEF Types, Moves, uart
  <2> QED
    BY <2>3, <2>4, <2>15, <2>16, Zenon DEF Moved
<1>3. ASSUME sync_write(c)
      PROVE  /\ Moved(c, Active(c).then) /\ Active(c)'.c = Active(c).c
             /\ Active(c).then \in {"print_done", "switch", "store", "intr_done"}
  <2> DEFINE y == [Active(c) EXCEPT !.pc = Active(c).then]
  <2>1. /\ Active(c).pc = "sync_thr" /\ Become(c, y) /\ pop_off(c)
        /\ panicked' = (panicked \/ pop_off_panics(c)) /\ UNCHANGED <<lock, killed, rx>>
    BY <1>3, Zenon DEF sync_write, At, Goto
  <2>2. /\ Len(run[c]) = 1 => ThreadCtx(Active(c)) /\ Active(c).then = "print_done"
        /\ Len(run[c]) = 2 => /\ HandlerCtx(Active(c))
                              /\ \/ Active(c).then = "print_done" /\ Active(c).ret = "intr_done"
                                 \/ /\ Active(c).then \in {"switch", "store", "intr_done"}
                                    /\ Active(c).ret = "user"
    BY <2>1, Level, Zenon DEF ThreadCtx, HandlerCtx
  <2>3. /\ Active(c).then \in Label
        /\ Active(c).then \in {"print_done", "switch", "store", "intr_done"}
    BY <1>1, <2>2, Zenon DEF Context
  <2>4. /\ y \in Context /\ y.pc = Active(c).then /\ y.ret = Active(c).ret
        /\ y.c = Active(c).c
    BY <1>1, <2>3, GotoFacts, Zenon
  <2> HIDE DEF y
  <2>5. Moves(c, y)
    BY <1>1, <2>1, <2>4, BecomeMoves, Zenon
  <2>6. Depth(Active(c)) = Depth(y) + 1 /\ \A m \in Locks : Holds(Active(c), m) <=> Holds(y, m)
    BY <2>1, <2>3, <2>4, Syncing, Zenon
  <2>7. Fits(c, y)
    <3>1. Len(run[c]) = 1 => ThreadCtx(y)
      BY <2>2, <2>4, Zenon DEF ThreadCtx, ThreadPC
    <3>2. Len(run[c]) = 2 => HandlerCtx(y)
      BY <2>2, <2>4, Zenon DEF HandlerCtx, HandlerPC
    <3> QED
      BY <3>1, <3>2, Zenon DEF Fits
  <2>8. /\ ie' \in [CPU -> BOOLEAN] /\ noff' \in [CPU -> Nat] /\ intena' = intena
        /\ \A d \in CPU : d # c => ie'[d] = ie[d] /\ noff'[d] = noff[d]
        /\ noff'[c] = Depth(y) /\ ie'[c] = (Len(run[c]) = 1 /\ noff'[c] = 0)
        /\ noff'[c] > 0 => intena'[c] = (Len(run[c]) = 1)
        /\ ~pop_off_panics(c)
    BY <2>1, <2>6, DepthFacts, PopFacts, Zenon
  <2>9. lock' = lock /\ \A m \in Locks : lock'[m] = c <=> Holds(y, m)
    BY <1>1, <2>1, <2>6, Zenon DEF Owns
  <2>10. (\A d \in CPU : Stack(d)' /\ Owns(d)') /\ Active(c)' = y
    BY <2>4, <2>5, <2>7, <2>8, <2>9, Advance, Zenon
  <2>11. Types' /\ ~panicked'
    BY <2>1, <2>5, <2>8, Zenon DEF Types, Moves
  <2> QED
    BY <2>3, <2>4, <2>5, <2>10, <2>11, Zenon DEF Moved
<1> QED
  BY <1>2, <1>3, Zenon

\* uartintr() and consoleintr(): what they do between acquire() and release(), and
\* around them.
LEMMA HandlerSteps ==
  ASSUME IInv, NEW c \in CPU
  PROVE  /\ uartgetc(c) => \E l \in {"intr", "hput"} : Moved(c, l)
         /\ consoleintr(c) =>
              \E l \in {"print", "sync", "intr_done"} :
                  /\ Moved(c, l)
                  /\ l = "sync" /\ Active(c)'.then = "store" =>
                         Active(c)'.c \in {Plain, NL, EOF} /\ HasRoom /\ e' = e
         /\ store(c) => Moved(c, "intr_done")
<1>1. /\ "intr" \in Label /\ "hput" \in Label /\ "hput_done" \in Label /\ "print" \in Label
      /\ "print_done" \in Label /\ "sync" \in Label /\ "intr_done" \in Label
      /\ "switch" \in Label /\ "store" \in Label
  BY Zenon DEF Label, ThreadPC, HandlerPC
<1>2. Active(c) \in Context /\ Stack(c) /\ Types
  BY Level, Zenon
<1>3. ASSUME uartgetc(c) PROVE \E l \in {"intr", "hput"} : Moved(c, l)
  <2>1. Active(c).pc = "getc" /\ UNCHANGED <<lock, masks, killed, panicked>>
    BY <1>3, Zenon DEF uartgetc, At
  <2>2. Len(run[c]) = 2
    BY <2>1, Level, Zenon
  <2>3. \E y \in Context : /\ Become(c, y) /\ rx' \in Seq(Keys) /\ y.pc \in {"intr", "hput"}
                           /\ y.pc = "hput" => y.then = "hput_done"
                           /\ y.ret = "user"
    <3>1. CASE rx # <<>>
      <4>1. Head(rx) \in Key /\ Tail(rx) \in Seq(Keys)
        BY <1>2, <3>1 DEF Types, Key
      <4>2. /\ [Ctx("intr") EXCEPT !.c = Head(rx)] \in Context
            /\ [Ctx("intr") EXCEPT !.c = Head(rx)].pc = "intr"
            /\ [Ctx("intr") EXCEPT !.c = Head(rx)].ret = "user"
        BY <1>1, <4>1, CtxFacts DEF Context
      <4> QED
        BY <1>3, <3>1, <4>1, <4>2, Zenon DEF uartgetc
    <3>2. CASE rx = <<>>
      <4>1. /\ [Ctx("hput") EXCEPT !.then = "hput_done"] \in Context
            /\ [Ctx("hput") EXCEPT !.then = "hput_done"].pc = "hput"
            /\ [Ctx("hput") EXCEPT !.then = "hput_done"].then = "hput_done"
            /\ [Ctx("hput") EXCEPT !.then = "hput_done"].ret = "user"
        BY <1>1, CtxFacts DEF Context
      <4> QED
        BY <1>2, <1>3, <3>2, <4>1, Zenon DEF uartgetc, Types
    <3> QED
      BY <3>1, <3>2, Zenon
  <2>4. PICK y \in Context : /\ Become(c, y) /\ rx' \in Seq(Keys) /\ y.pc \in {"intr", "hput"}
                             /\ y.pc = "hput" => y.then = "hput_done"
                             /\ y.ret = "user"
    BY <2>3, Zenon
  <2>5. Alike(Active(c), y)
    BY <2>1, <2>4, Nothing DEF Alike
  <2>6. Fits(c, y)
    BY <2>2, <2>4 DEF Fits, HandlerCtx, HandlerPC
  <2> QED
    BY <2>1, <2>4, <2>5, <2>6, KeepMoves, Zenon
<1>4. ASSUME consoleintr(c)
      PROVE  \E l \in {"print", "sync", "intr_done"} :
                  /\ Moved(c, l)
                  /\ l = "sync" /\ Active(c)'.then = "store" =>
                         Active(c)'.c \in {Plain, NL, EOF} /\ HasRoom /\ e' = e
  <2> DEFINE k == Active(c).c
             erase == (k = "^H" /\ e # w) \/ (k = "^U" /\ Erasable)
             type == k \in {Plain, NL, EOF} /\ HasRoom
             P == [Active(c) EXCEPT !.pc = "print", !.then = "print_done", !.ret = "intr_done"]
             E == consputc(Active(c), IF k = "^U" THEN "switch" ELSE "intr_done")
             T == consputc(Active(c), "store")
  <2>1. /\ Active(c).pc = "switch" /\ UNCHANGED <<lock, masks, killed, uart, panicked>>
        /\ e' = IF erase THEN (e + Modulus - 1) % Modulus ELSE e
        /\ Become(c, CASE k = "^P" -> P [] erase -> E [] type -> T [] OTHER -> Ctx("intr_done"))
    BY <1>4, Zenon DEF consoleintr, At
  <2>2. Len(run[c]) = 2 /\ HandlerCtx(Active(c))
    BY <2>1, Level, Zenon
  <2>3. (type => ~erase) /\ (k = "^P" => ~erase /\ ~type)
    BY ConsoleAssumption, Zenon
  <2>4. ASSUME NEW y \in Context, Become(c, y), y.pc \in {"print", "sync", "intr_done"},
               HandlerCtx(y), y.pc = "sync" => y.then # "print_done",
               y.pc = "print" => y.ret = "intr_done",
               y.pc = "sync" /\ y.then = "store" => y.c = k /\ type
        PROVE  \E l \in {"print", "sync", "intr_done"} :
                  /\ Moved(c, l)
                  /\ l = "sync" /\ Active(c)'.then = "store" =>
                         Active(c)'.c \in {Plain, NL, EOF} /\ HasRoom /\ e' = e
    <3>1. Alike(Active(c), y)
      BY <2>1, <2>4, OnlyCons, Zenon DEF Alike
    <3>2. Fits(c, y)
      BY <2>2, <2>4 DEF Fits
    <3>3. rx' \in Seq(Keys)
      BY <1>2, <2>1, Zenon DEF Types, uart
    <3>4. Moved(c, y.pc) /\ Active(c)' = y
      BY <2>1, <2>4, <3>1, <3>2, <3>3, KeepMoves, Zenon
    <3>5. type => e' = e
      BY <2>1, <2>3, Zenon
    <3> QED
      BY <2>4, <3>4, <3>5, Zenon
  <2> HIDE DEF erase, type
  <2>5. CASE k = "^P"
    <3>1. Become(c, P)
      BY <2>1, <2>3, <2>5, Zenon
    <3>2. P \in Context /\ P.pc = "print" /\ P.then = "print_done" /\ P.ret = "intr_done"
      BY <1>1, <1>2, Zenon DEF Context
    <3>3. HandlerCtx(P)
      BY <3>2, Zenon DEF HandlerCtx, HandlerPC
    <3> HIDE DEF P
    <3> QED
      BY <2>4, <3>1, <3>2, <3>3, Zenon
  <2>6. ASSUME NEW l \in {"switch", "intr_done", "store"}
        PROVE  /\ consputc(Active(c), l) \in Context /\ consputc(Active(c), l).pc = "sync"
               /\ consputc(Active(c), l).then = l /\ consputc(Active(c), l).c = k
               /\ HandlerCtx(consputc(Active(c), l))
    <3>1. Active(c).ret = "user"
      BY <2>1, <2>2, Zenon DEF HandlerCtx
    <3>2. /\ consputc(Active(c), l) \in Context /\ consputc(Active(c), l).pc = "sync"
          /\ consputc(Active(c), l).then = l /\ consputc(Active(c), l).c = k
          /\ consputc(Active(c), l).ret = Active(c).ret
      BY <1>1, <1>2, Zenon DEF Context, consputc
    <3> QED
      BY <3>1, <3>2, Zenon DEF HandlerCtx, HandlerPC
  <2>7. CASE erase
    <3>1. Become(c, E)
      BY <2>1, <2>3, <2>7, Zenon
    <3>2. E = consputc(Active(c), "switch") \/ E = consputc(Active(c), "intr_done")
      BY Zenon
    <3> HIDE DEF E
    <3> QED
      BY <2>4, <2>6, <3>1, <3>2, Zenon
  <2>8. CASE type
    <3>1. Become(c, T)
      BY <2>1, <2>3, <2>8, Zenon
    <3> QED
      BY <2>4, <2>6, <2>8, <3>1, Zenon
  <2>9. CASE k # "^P" /\ ~erase /\ ~type
    <3>1. Become(c, Ctx("intr_done"))
      BY <2>1, <2>9, Zenon
    <3>2. /\ Ctx("intr_done") \in Context /\ Ctx("intr_done").pc = "intr_done"
          /\ HandlerCtx(Ctx("intr_done"))
      BY <1>1, <2>2, FreshFits, Zenon DEF Fits
    <3> QED
      BY <2>4, <3>1, <3>2, Zenon
  <2> QED
    BY <2>5, <2>7, <2>8, <2>9, Zenon
<1>5. ASSUME store(c) PROVE Moved(c, "intr_done")
  <2>1. /\ Active(c).pc = "store" /\ UNCHANGED <<lock, masks, killed, uart, panicked>>
        /\ Wakeup(c, "sleep_r", Ctx("intr_done")) \/ Become(c, Ctx("intr_done"))
    BY <1>5, Zenon DEF store, At
  <2>2. Len(run[c]) = 2
    BY <2>1, Level, Zenon
  <2>3. /\ Ctx("intr_done") \in Context /\ Ctx("intr_done").pc = "intr_done"
        /\ Fits(c, Ctx("intr_done"))
    BY <1>1, <2>2, FreshFits, Zenon
  <2>4. Moves(c, Ctx("intr_done"))
    BY <1>2, <2>1, <2>3, BecomeMoves, WakeupMoves, Zenon
  <2>5. Alike(Active(c), Ctx("intr_done"))
    BY <2>1, <2>3, OnlyCons, Zenon DEF Alike
  <2>6. rx' \in Seq(Keys) /\ killed' \in [CPU -> BOOLEAN]
    BY <1>2, <2>1, Zenon DEF Types, uart
  <2>7. IInv' /\ Active(c)' = Ctx("intr_done")
    BY <2>1, <2>3, <2>4, <2>5, <2>6, KeepStep, Zenon
  <2> QED
    BY <2>3, <2>4, <2>7, Zenon DEF Moved
<1> QED
  BY <1>3, <1>4, <1>5, Zenon

\* A thread has interrupts enabled exactly where it holds nothing.
LEMMA Enabled ==
  ASSUME NEW x, ThreadCtx(x)
  PROVE  /\ Depth(x) = 0 <=> x.pc \in Interruptible
         /\ x.pc \in Interruptible => \A m \in Locks : ~Holds(x, m)
<1>1. x.pc \in Interruptible =>
        ~HoldsCons(x) /\ ~HoldsTx(x) /\ ~HoldsPr(x) /\ x.pc # "sync_thr"
  BY Zenon DEF ThreadCtx, Interruptible, HoldsCons, HoldsTx, HoldsPr
<1>2. x.pc \notin Interruptible => HoldsCons(x) \/ HoldsTx(x) \/ HoldsPr(x)
  BY Zenon DEF ThreadCtx, ThreadPC, Interruptible, HoldsCons, HoldsTx, HoldsPr
<1>3. x.pc \notin Interruptible => \E m \in Locks : Holds(x, m)
  BY <1>2, Zenon DEF Holds, Locks
<1>4. x.pc \notin Interruptible => Depth(x) > 0
  BY <1>3, DepthFacts, Zenon
<1>5. x.pc \in Interruptible => Depth(x) = 0 /\ \A m \in Locks : ~Holds(x, m)
  BY <1>1 DEF Depth, One, Holds
<1> QED
  BY <1>4, <1>5

\* An interrupt is taken: its handler runs on top of a thread that holds nothing.
LEMMA trapStep ==
  ASSUME IInv, NEW c \in CPU, trap(c)
  PROVE  /\ IInv' /\ Active(c).pc \in Interruptible /\ Active(c)'.pc = "claim"
         /\ Len(run[c]) = 1 /\ Len(run'[c]) = 2 /\ run'[c][1] = run[c][1]
         /\ \A d \in CPU : d # c => run'[d] = run[d]
<1>1. Len(run[c]) = 1 /\ noff[c] = 0 /\ Depth(Active(c)) = 0 /\ Stack(c) /\ Types
  BY Zenon DEF trap, Owns
<1>2. /\ Active(c) = run[c][1] /\ ThreadCtx(run[c][1]) /\ run[c] \in Seq(Context)
      /\ Active(c).pc \in Interruptible
  BY <1>1, ActiveFacts, Enabled, Zenon
<1>3. "claim" \in Label
  BY Zenon DEF Label, HandlerPC
<1>4. Ctx("claim") \in Context /\ Ctx("claim").pc = "claim"
  BY <1>3, CtxFacts, Zenon
<1> DEFINE y == Ctx("claim")
           s == Append(run[c], y)
<1> HIDE DEF y
<1>5. s \in Seq(Context) /\ Len(s) = 2 /\ s[1] = run[c][1] /\ s[2] = y
  <2>1. y \in Context
    BY <1>4, Zenon DEF y
  <2> QED
    BY <1>1, <1>2, <2>1, PushTop
<1>6. /\ run' \in [CPU -> Seq(Context)] /\ run'[c] = s
      /\ \A d \in CPU : d # c => run'[d] = run[d]
  BY <1>1, <1>5, Zenon DEF trap, Types, y
<1> HIDE DEF s
<1>7. Active(c)' = y /\ Len(run'[c]) = 2 /\ run'[c][1] = run[c][1]
  BY <1>5, <1>6, Zenon DEF Active
<1>8. /\ lock' = lock /\ noff' = noff /\ intena' = intena /\ ie' = [ie EXCEPT ![c] = FALSE]
      /\ rx' = rx /\ killed' = killed /\ panicked' = panicked
  BY Zenon DEF trap, uart
<1>9. /\ ie' \in [CPU -> BOOLEAN] /\ ie'[c] = FALSE /\ \A d \in CPU : d # c => ie'[d] = ie[d]
  BY <1>1, <1>8, Zenon DEF Types
<1>10. Types'
  BY <1>1, <1>6, <1>8, <1>9, Zenon DEF Types
<1>11. Depth(y) = 0 /\ \A m \in Locks : ~Holds(y, m)
  BY <1>4, Nothing DEF y
<1>12. HandlerCtx(y)
  BY <1>4, Zenon DEF y, HandlerCtx, HandlerPC
<1>13. Stack(c)'
  BY <1>2, <1>5, <1>6, <1>12, Zenon DEF Stack
<1>14. \A m \in Locks : lock[m] # c
  BY <1>2, Enabled DEF Owns
<1>15. Owns(c)'
  <2>1. \A m \in Locks : lock'[m] = c <=> Holds(Active(c)', m)
    BY <1>7, <1>8, <1>11, <1>14, Zenon
  <2>2. noff'[c] = Depth(Active(c)') /\ ~(noff'[c] > 0)
    BY <1>1, <1>7, <1>8, <1>11
  <2>3. ie'[c] = (Len(run'[c]) = 1 /\ noff'[c] = 0)
    BY <1>7, <1>9
  <2> QED
    BY <2>1, <2>2, <2>3, Zenon DEF Owns
<1>16. ASSUME NEW d \in CPU, d # c PROVE Stack(d)' /\ Owns(d)'
  BY <1>6, <1>8, <1>9, <1>16 DEF Stack, Owns, Active
<1> QED
  BY <1>2, <1>4, <1>6, <1>7, <1>8, <1>10, <1>13, <1>15, <1>16, <1>1, Zenon DEF y

\* The handler returns to the thread it interrupted.
LEMMA sretStep ==
  ASSUME IInv, NEW c \in CPU, Active(c).pc \in {"claim", "complete"}, sret(c),
         UNCHANGED <<lock, noff, intena, rx, killed, panicked>>
  PROVE  /\ IInv' /\ Active(c)'.pc \in Interruptible /\ Len(run'[c]) = 1
         /\ run'[c][1] = run[c][1]
         /\ \A d \in CPU : d # c => run'[d] = run[d]
<1>1. /\ Len(run[c]) = 2 /\ Stack(c) /\ Types /\ ThreadCtx(run[c][1])
      /\ run[c][1].pc \in Interruptible /\ run[c] \in Seq(Context)
  BY Level, ActiveFacts, Zenon DEF Stack
<1> DEFINE s == SubSeq(run[c], 1, Len(run[c]) - 1)
<1>2. s \in Seq(Context) /\ Len(s) = 1 /\ s[1] = run[c][1]
  BY <1>1
<1>3. /\ run' \in [CPU -> Seq(Context)] /\ run'[c] = s
      /\ \A d \in CPU : d # c => run'[d] = run[d]
  BY <1>1, <1>2, Zenon DEF sret, Types
<1> HIDE DEF s
<1>4. Active(c)' = run[c][1] /\ Len(run'[c]) = 1 /\ run'[c][1] = run[c][1]
  BY <1>2, <1>3, Zenon DEF Active
<1>5. /\ ie' \in [CPU -> BOOLEAN] /\ ie'[c] = TRUE /\ \A d \in CPU : d # c => ie'[d] = ie[d]
  BY <1>1, Zenon DEF Types, sret
<1>6. Types'
  BY <1>1, <1>3, <1>5, Zenon DEF Types
<1>7. Depth(run[c][1]) = 0 /\ \A m \in Locks : ~Holds(run[c][1], m)
  BY <1>1, Enabled, Zenon
<1>8. Depth(Active(c)) = 0 /\ \A m \in Locks : ~Holds(Active(c), m)
  BY Nothing
<1>9. noff[c] = 0 /\ \A m \in Locks : lock[m] # c
  BY <1>8, Zenon DEF Owns
<1>10. Stack(c)'
  BY <1>1, <1>4, Zenon DEF Stack
<1>11. Owns(c)'
  <2>1. \A m \in Locks : lock'[m] = c <=> Holds(Active(c)', m)
    BY <1>4, <1>7, <1>9, Zenon
  <2>2. noff'[c] = Depth(Active(c)') /\ noff'[c] = 0
    BY <1>4, <1>7, <1>9, Zenon
  <2>3. ~(noff'[c] > 0)
    BY <2>2
  <2>4. ie'[c] = (Len(run'[c]) = 1 /\ noff'[c] = 0)
    BY <1>4, <1>5, <2>2, Zenon
  <2> QED
    BY <2>1, <2>2, <2>3, <2>4, Zenon DEF Owns
<1>12. ASSUME NEW d \in CPU, d # c PROVE Stack(d)' /\ Owns(d)'
  BY <1>3, <1>5, <1>12 DEF Stack, Owns, Active
<1> QED
  BY <1>1, <1>3, <1>4, <1>6, <1>10, <1>11, <1>12, Zenon

\* kill() may wake the thread, at the bottom of its CPU's stack.
LEMMA killStep ==
  ASSUME IInv, NEW c \in CPU, kill(c)
  PROVE  /\ IInv'
         /\ \A d \in CPU : /\ Len(run'[d]) = Len(run[d]) /\ Roused(run[d][1], run'[d][1])
                           /\ Len(run[d]) = 2 => run'[d][2] = run[d][2]
<1>1. /\ lock' = lock /\ noff' = noff /\ intena' = intena /\ ie' = ie /\ rx' = rx
      /\ panicked' = panicked /\ killed' = [killed EXCEPT ![c] = TRUE]
  BY Zenon DEF kill, uart, masks
<1>2. killed' \in [CPU -> BOOLEAN]
  BY <1>1, Zenon DEF Types
<1>3. \A d \in CPU : run[d] \in Seq(Context) /\ Len(run[d]) \in {1, 2} /\ run[d][1] \in Context
  BY ActiveFacts, Zenon
<1>4. /\ run' \in [CPU -> Seq(Context)]
      /\ \A d \in CPU : /\ Len(run'[d]) = Len(run[d]) /\ Roused(run[d][1], run'[d][1])
                        /\ Len(run[d]) = 2 => run'[d][2] = run[d][2]
  <2>1. CASE run[c][1].pc # "sleep_r"
    BY <2>1, Zenon DEF kill, Types, Roused
  <2>2. CASE run[c][1].pc = "sleep_r"
    <3> DEFINE x == [run[c][1] EXCEPT !.pc = "read"]
               s == [run[c] EXCEPT ![1] = x]
    <3>1. run' = [run EXCEPT ![c] = s]
      BY <2>2, Zenon DEF kill
    <3>2. "read" \in Label
      BY Zenon DEF Label, ThreadPC
    <3>3. x \in Context /\ Roused(run[c][1], x)
      BY <1>3, <2>2, <3>2, GotoFacts, Zenon DEF Roused
    <3> HIDE DEF x
    <3>4. run[c] \in [1 .. Len(run[c]) -> Context] /\ 1 \in 1 .. Len(run[c])
      BY <1>3
    <3>5. /\ s \in [1 .. Len(run[c]) -> Context] /\ s[1] = x
          /\ Len(run[c]) = 2 => s[2] = run[c][2]
      BY <3>3, <3>4
    <3> HIDE DEF s
    <3>6. s \in Seq(Context) /\ Len(s) = Len(run[c])
      BY <1>3, <3>5
    <3>7. /\ run' \in [CPU -> Seq(Context)] /\ run'[c] = s
          /\ \A d \in CPU : d # c => run'[d] = run[d]
      BY <3>1, <3>6, Zenon DEF Types
    <3> QED
      BY <3>3, <3>5, <3>6, <3>7, Zenon DEF Roused
  <2> QED
    BY <2>1, <2>2, Zenon
<1>5. ASSUME NEW d \in CPU PROVE Stack(d)' /\ Owns(d)'
  <2>1. Stack(d) /\ Owns(d) /\ Roused(run[d][1], run'[d][1]) /\ run[d][1] \in Context
    BY <1>3, <1>4, Zenon
  <2>2. /\ ThreadCtx(run'[d][1]) /\ Depth(run'[d][1]) = Depth(run[d][1])
        /\ \A l \in Locks : Holds(run'[d][1], l) <=> Holds(run[d][1], l)
        /\ run[d][1].pc \in Interruptible => run'[d][1].pc \in Interruptible
    BY <2>1, RousedFacts, Zenon DEF Stack
  <2>3. Stack(d)'
    BY <1>4, <2>1, <2>2, Zenon DEF Stack
  <2>4. /\ Depth(Active(d)') = Depth(Active(d))
        /\ \A l \in Locks : Holds(Active(d)', l) <=> Holds(Active(d), l)
    BY <1>3, <1>4, <2>2, Zenon DEF Active
  <2>5. Owns(d)'
    BY <1>1, <1>4, <2>1, <2>4, Zenon DEF Owns
  <2> QED
    BY <2>3, <2>5, Zenon
<1>6. Types'
  BY <1>1, <1>2, <1>4, Zenon DEF Types
<1> QED
  BY <1>1, <1>4, <1>5, <1>6, Zenon

-----------------------------------------------------------------------------
(* The invariant holds.                                                    *)

\* The steps in which CPU c goes from one place to another.
Going(c) ==
    \/ uartgetc(c) \/ Acquire(c, "cons", "intr", "switch") \/ consoleintr(c) \/ store(c)
    \/ intr_done(c) \/ Acquire(c, "tx", "hput", "start") \/ hput_done(c)
    \/ Thread(c) \/ Output(c) \/ Call(c)

\* They all move CPU c and nobody else.
LEMMA GoingStep ==
  ASSUME IInv, NEW c \in CPU, Going(c)
  PROVE  IInv' /\ Moves(c, Active(c)')
<1>1. SUFFICES \E l : Moved(c, l)
  BY Zenon DEF Moved
<1>2. CASE Thread(c)
  BY <1>2, AcquireSteps, SleepSteps, ReleaseSteps, ReadSteps, TestStep, TransmitSteps,
     Zenon DEF Thread
<1>3. CASE Output(c)
  BY <1>3, AcquireSteps, TransmitSteps, print_doneStep, SyncSteps, Zenon DEF Output
<1>4. CASE Call(c)
  BY <1>4, CallSteps, Zenon DEF Call
<1>5. CASE \/ uartgetc(c) \/ Acquire(c, "cons", "intr", "switch") \/ consoleintr(c)
           \/ store(c) \/ intr_done(c) \/ Acquire(c, "tx", "hput", "start") \/ hput_done(c)
  BY <1>5, HandlerSteps, AcquireSteps, ReleaseSteps, Zenon
<1> QED
  BY <1>2, <1>3, <1>4, <1>5, Zenon DEF Going

\* The steps that return from an interrupt.
Returning(c) ==
    /\ sret(c) /\ UNCHANGED <<cons, tx, lock, noff, intena, killed, fifo, rx, panicked>>
    /\ \/ Active(c).pc = "claim" /\ (~pending \/ claimed) /\ UNCHANGED <<pending, claimed>>
       \/ Active(c).pc = "complete" /\ UNCHANGED pending

\* The interrupt is this CPU's to serve.
Claiming(c) ==
    /\ Active(c).pc = "claim" /\ Goto(c, "getc")
    /\ UNCHANGED <<cons, tx, lock, masks, killed, fifo, rx, panicked>>

\* What the UART does.
Device == transmit \/ \E k \in Keys : key(k)

\* Every step is one of these.
LEMMA Steps ==
  ASSUME Next
  PROVE  \/ \E c \in CPU : Going(c) \/ Returning(c) \/ Claiming(c) \/ trap(c) \/ kill(c)
         \/ Device
<1>1. ASSUME NEW c \in CPU, Handler(c) PROVE Going(c) \/ Returning(c) \/ Claiming(c)
  <2>1. CASE plic_claim(c)
    BY <2>1, Zenon DEF plic_claim, Returning, Claiming, At, masks
  <2>2. CASE plic_complete(c)
    BY <2>2, Zenon DEF plic_complete, Returning, At
  <2> QED
    BY <1>1, <2>1, <2>2, Zenon DEF Handler, Going
<1>2. CASE \E c \in CPU : Run(c)
  BY <1>1, <1>2, Zenon DEF Run, Going
<1>3. CASE \E c \in CPU : Call(c) \/ kill(c)
  BY <1>3, Zenon DEF Going
<1>4. CASE transmit \/ \E k \in Keys : key(k)
  BY <1>4, Zenon DEF Device
<1> QED
  BY <1>2, <1>3, <1>4, Zenon DEF Next

\* plic_claim() found the interrupt.
LEMMA ClaimingStep ==
  ASSUME IInv, NEW c \in CPU, Claiming(c)
  PROVE  IInv' /\ Moves(c, Active(c)') /\ Active(c)'.pc = "getc"
<1> DEFINE y == [Active(c) EXCEPT !.pc = "getc"]
<1>1. Active(c).pc = "claim" /\ Become(c, y) /\ UNCHANGED <<lock, masks, killed, rx, panicked>>
  BY Zenon DEF Claiming, Goto
<1>2. "getc" \in Label
  BY Zenon DEF Label, HandlerPC
<1>3. y \in Context /\ y.pc = "getc" /\ y.ret = Active(c).ret
  BY <1>2, Level, GotoFacts, Zenon
<1> HIDE DEF y
<1>4. Alike(Active(c), y)
  BY <1>1, <1>3, Nothing DEF Alike
<1>5. Len(run[c]) = 2
  BY <1>1, Level, Zenon
<1>6. Fits(c, y)
  BY <1>3, <1>5 DEF Fits, HandlerCtx, HandlerPC
<1>7. rx' \in Seq(Keys)
  BY <1>1, Zenon DEF Types
<1>8. Moved(c, y.pc)
  BY <1>1, <1>3, <1>4, <1>6, <1>7, KeepMoves, Zenon
<1> QED
  BY <1>3, <1>8, Zenon DEF Moved

\* The UART leaves the CPUs alone.
LEMMA DeviceStep ==
  ASSUME IInv, Device
  PROVE  IInv' /\ run' = run
<1>1. /\ run' = run /\ lock' = lock /\ ie' = ie /\ noff' = noff /\ intena' = intena
      /\ killed' = killed /\ panicked' = panicked
  BY Zenon DEF Device, transmit, key, masks
<1>2. rx' \in Seq(Keys)
  <2>1. rx \in Seq(Keys)
    BY Zenon DEF Types
  <2>2. rx' = rx \/ \E k \in Keys : rx' = Append(rx, k)
    BY Zenon DEF Device, transmit, key
  <2> QED
    BY <2>1, <2>2
<1>3. Types'
  BY <1>1, <1>2, Zenon DEF Types
<1>4. \A c \in CPU : Stack(c)' /\ Owns(c)'
  BY <1>1 DEF Stack, Owns, Active
<1> QED
  BY <1>1, <1>3, <1>4, Zenon

\* The invariant is inductive.
LEMMA Inductive == IInv /\ [Next]_vars => IInv'
<1>1. ASSUME IInv, Next PROVE IInv'
  <2>1. ASSUME NEW c \in CPU, Returning(c) PROVE IInv'
    BY <1>1, <2>1, sretStep, Zenon DEF Returning
  <2> QED
    BY <1>1, <2>1, Steps, GoingStep, ClaimingStep, trapStep, killStep, DeviceStep, Zenon
<1>2. ASSUME IInv, UNCHANGED vars PROVE IInv'
  <2>1. /\ run' = run /\ lock' = lock /\ ie' = ie /\ noff' = noff /\ intena' = intena
        /\ killed' = killed /\ panicked' = panicked /\ rx' = rx
    BY <1>2, Zenon DEF vars
  <2> QED
    BY <1>2, <2>1 DEF Types, Stack, Owns, Active
<1> QED
  BY <1>1, <1>2, Zenon

\* It holds when the machine starts.
LEMMA Initial == Init => IInv
<1> SUFFICES ASSUME Init PROVE IInv
  BY Zenon
<1>1. "user" \in Label
  BY Zenon DEF Label, ThreadPC
<1>2. Ctx("user") \in Context /\ Ctx("user").pc = "user" /\ Ctx("user").ret = "user"
  BY <1>1, CtxFacts, Zenon
<1>3. /\ <<Ctx("user")>> \in Seq(Context) /\ Len(<<Ctx("user")>>) = 1
      /\ <<Ctx("user")>>[1] = Ctx("user")
  BY <1>2
<1>4. /\ run \in [CPU -> Seq(Context)]
      /\ \A c \in CPU : run[c] = <<Ctx("user")>>
  BY <1>3, Zenon DEF Init
<1>5. Types
  <2>1. lock \in [Locks -> CPU \cup {0}] /\ rx \in Seq(Keys)
    BY DEF Init, Locks
  <2> QED
    BY <1>4, <2>1, Zenon DEF Types, Init
<1>6. ASSUME NEW c \in CPU PROVE Stack(c) /\ Owns(c)
  <2>1. Len(run[c]) = 1 /\ run[c][1] = Ctx("user") /\ Active(c) = Ctx("user")
    BY <1>3, <1>4, Zenon DEF Active
  <2>2. ThreadCtx(Ctx("user"))
    BY <1>2, Zenon DEF ThreadCtx, ThreadPC
  <2>3. Depth(Ctx("user")) = 0 /\ \A m \in Locks : ~Holds(Ctx("user"), m)
    BY <1>2, Nothing
  <2>4. noff[c] = 0 /\ ie[c] = TRUE /\ \A m \in Locks : lock[m] # c
    BY ConsoleAssumption, Zenon DEF Init, Locks
  <2>5. ie[c] = (Len(run[c]) = 1 /\ noff[c] = 0)
    BY <2>1, <2>4, Zenon
  <2>6. ~(noff[c] > 0)
    BY <2>4
  <2> QED
    BY <2>1, <2>2, <2>3, <2>4, <2>5, <2>6 DEF Stack, Owns
<1> QED
  BY <1>5, <1>6, Zenon DEF Init

\* The invariant holds in every reachable state.
THEOREM Invariance == Spec => []IInv
BY Initial, Inductive, PTL DEF Spec

\* No assertion of acquire(), release(), pop_off() or sched() ever fails, with any
\* number of CPUs: a CPU that takes an interrupt holds no lock (spinlock.c, trap.c).
THEOREM NoPanicHolds == Spec => []NoPanic
<1>1. IInv => NoPanic
  BY Zenon DEF NoPanic
<1> QED
  BY <1>1, Invariance, PTL

-----------------------------------------------------------------------------
(* What the steps leave alone.                                             *)

state == <<r, w, tx, fifo, pending, killed>>
Asleep == {"sleep_r", "sleep_tx"}
Waiting == Asleep \cup {"read_wait"}
AtUart == {"thr", "sync_thr"}
Idle == {"claim", "hput_done", "complete"}

\* Most steps of CPU c only move it.
Quiet(c) ==
    /\ IInv' /\ Moves(c, Active(c)') /\ UNCHANGED state
    /\ Active(c).pc \notin {"start", "thr"} /\ Active(c)'.pc \notin Waiting \cup AtUart
    /\ Active(c)'.pc \in Idle => Active(c).pc = "hput_done"

\* The steps that do more.
Special(c) ==
    \/ read_test(c) \/ read_sleep(c) \/ put_sleep(c) \/ read_char(c) \/ read_badaddr(c)
    \/ store(c) \/ put_store(c) \/ uartstart(c) \/ uartstart_return(c) \/ uartstart_write(c)
    \/ uartputc_sync(c) \/ sync_write(c)

\* A step that moves a CPU is of one of the two kinds.
LEMMA GoingCases ==
  ASSUME IInv, NEW c \in CPU, Going(c)
  PROVE  Quiet(c) \/ Special(c)
<1>1. ASSUME NEW l, Moved(c, l), UNCHANGED state, Active(c).pc \notin {"start", "thr"},
             l \in {"user", "read", "read_test", "put", "put_test", "print", "print_done",
                    "sync", "start", "intr", "hput", "switch", "getc", "intr_done"}
      PROVE  Quiet(c)
  BY <1>1, Zenon DEF Moved, Quiet, Asleep, Waiting, AtUart, Idle
<1>2. ASSUME NEW l \in Locks, NEW pre, NEW post, Acquire(c, l, pre, post)
      PROVE  Active(c).pc = pre /\ UNCHANGED state
  BY <1>2, Zenon DEF Acquire, At, cons, uart, state
<1>3. CASE \/ Acquire(c, "cons", "read", "read_test") \/ Acquire(c, "tx", "put", "put_test")
           \/ Acquire(c, "cons", "intr", "switch") \/ Acquire(c, "tx", "hput", "start")
           \/ Acquire(c, "pr", "print", "sync")
  BY <1>1, <1>2, <1>3, AcquireSteps DEF Locks
<1>4. CASE read_killed(c) \/ read_done(c) \/ put_done(c)
  <2>1. Moved(c, "user") /\ UNCHANGED state /\ Active(c).pc \notin {"start", "thr"}
    BY <1>4, ReleaseSteps, Zenon DEF read_killed, read_done, put_done, At, cons, uart, state
  <2> QED
    BY <1>1, <2>1, Zenon
<1>5. CASE intr_done(c)
  <2>1. Moved(c, "getc") /\ UNCHANGED state /\ Active(c).pc \notin {"start", "thr"}
    BY <1>5, ReleaseSteps, Zenon DEF intr_done, At, cons, uart, state
  <2> QED
    BY <1>1, <2>1, Zenon
<1>6. CASE hput_done(c)
  <2>1. Moved(c, "complete") /\ UNCHANGED state /\ Active(c).pc = "hput_done"
    BY <1>6, ReleaseSteps, Zenon DEF hput_done, At, cons, uart, state
  <2> QED
    BY <2>1, Zenon DEF Moved, Quiet, Asleep, Waiting, AtUart, Idle
<1>7. CASE print_done(c)
  <2>1. /\ Moved(c, Active(c).ret) /\ Active(c).ret \in {"user", "intr_done"}
        /\ UNCHANGED state /\ Active(c).pc = "print_done"
    BY <1>7, print_doneStep, Zenon DEF print_done, At, cons, uart, state
  <2> QED
    BY <1>1, <2>1, Zenon
<1>8. CASE Call(c)
  <2>1. UNCHANGED state /\ Active(c).pc = "user"
    BY <1>8, Zenon DEF Call, consoleread, consolewrite, printf, At, cons, uart, state
  <2>2. \E l \in {"read", "put", "print"} : Moved(c, l)
    BY <1>8, CallSteps, Zenon DEF Call
  <2> QED
    BY <1>1, <2>1, <2>2, Zenon
<1>9. CASE uartgetc(c)
  <2>1. UNCHANGED state /\ Active(c).pc = "getc"
    BY <1>9, Zenon DEF uartgetc, At, cons, uart, state
  <2>2. \E l \in {"intr", "hput"} : Moved(c, l)
    BY <1>9, HandlerSteps, Zenon
  <2> QED
    BY <1>1, <2>1, <2>2, Zenon
<1>10. CASE consoleintr(c)
  <2>1. UNCHANGED state /\ Active(c).pc = "switch"
    BY <1>10, Zenon DEF consoleintr, At, cons, uart, state
  <2>2. \E l \in {"print", "sync", "intr_done"} : Moved(c, l)
    BY <1>10, HandlerSteps, Zenon
  <2> QED
    BY <1>1, <2>1, <2>2, Zenon
<1> QED
  BY <1>3, <1>4, <1>5, <1>6, <1>7, <1>8, <1>9, <1>10, Zenon
     DEF Going, Thread, Output, Special

\* What the special steps do, by name.
LEMMA SpecialMoves ==
  ASSUME IInv, NEW c \in CPU
  PROVE  /\ read_test(c) => Moved(c, "read_wait") /\ UNCHANGED state /\ r = w
         /\ read_sleep(c) => /\ Moved(c, "sleep_r") /\ UNCHANGED state
                             /\ Active(c).pc = "read_wait"
         /\ put_sleep(c) => Moved(c, "sleep_tx") /\ UNCHANGED state /\ tx = UART_TX_BUF_SIZE
         /\ read_char(c) \/ read_badaddr(c) =>
              /\ \E l \in {"read_test", "read_done"} : Moved(c, l)
              /\ UNCHANGED <<w, tx, fifo, pending, killed>> /\ r # w
         /\ store(c) => Moved(c, "intr_done") /\ UNCHANGED <<r, tx, fifo, pending, killed>>
         /\ put_store(c) => /\ Moved(c, "start") /\ UNCHANGED <<r, w, fifo, pending, killed>>
                            /\ tx < UART_TX_BUF_SIZE /\ tx' = tx + 1
         /\ uartstart(c) => /\ Moved(c, "thr") /\ UNCHANGED <<r, w, fifo, pending, killed>>
                            /\ tx > 0 /\ tx' = tx - 1 /\ fifo = 0
         /\ uartstart_return(c) => /\ \E l \in {"put_done", "hput_done"} : Moved(c, l)
                                   /\ UNCHANGED state /\ (tx = 0 \/ fifo > 0)
         /\ uartstart_write(c) => /\ Moved(c, "start") /\ UNCHANGED <<r, w, tx, pending, killed>>
                                  /\ fifo' = fifo + 1 /\ Active(c).pc = "thr"
         /\ uartputc_sync(c) => /\ Moved(c, "sync_thr") /\ UNCHANGED state
                                /\ fifo = 0 /\ Active(c).pc = "sync"
         /\ sync_write(c) => /\ \E l \in {"print_done", "switch", "store", "intr_done"} : Moved(c, l)
                             /\ UNCHANGED <<r, w, tx, pending, killed>>
                             /\ fifo' = fifo + 1 /\ Active(c).pc = "sync_thr"
<1>1. /\ read_test(c) => UNCHANGED state /\ r = w
      /\ read_sleep(c) => UNCHANGED state /\ Active(c).pc = "read_wait"
  BY Zenon DEF read_test, read_sleep, state, cons, uart, At
<1>2. put_sleep(c) => UNCHANGED state /\ tx = UART_TX_BUF_SIZE
  BY Zenon DEF put_sleep, state, cons, uart
<1>3. read_char(c) \/ read_badaddr(c) => UNCHANGED <<w, tx, fifo, pending, killed>> /\ r # w
  BY Zenon DEF read_char, read_badaddr, uart
<1>4. store(c) => UNCHANGED <<r, tx, fifo, pending, killed>>
  BY Zenon DEF store, uart
<1>5. put_store(c) => /\ UNCHANGED <<r, w, fifo, pending, killed>>
                      /\ tx < UART_TX_BUF_SIZE /\ tx' = tx + 1
  BY Zenon DEF put_store, cons, uart
<1>6. uartstart(c) => /\ UNCHANGED <<r, w, fifo, pending, killed>>
                      /\ tx > 0 /\ tx' = tx - 1 /\ fifo = 0
  BY Zenon DEF uartstart, cons, uart
<1>7. uartstart_return(c) => UNCHANGED state /\ (tx = 0 \/ fifo > 0)
  BY Zenon DEF uartstart_return, state, cons, uart
<1>8. uartstart_write(c) => /\ UNCHANGED <<r, w, tx, pending, killed>>
                            /\ fifo' = fifo + 1 /\ Active(c).pc = "thr"
  BY Zenon DEF uartstart_write, cons, At
<1>9. uartputc_sync(c) => UNCHANGED state /\ fifo = 0 /\ Active(c).pc = "sync"
  BY Zenon DEF uartputc_sync, state, cons, uart, At
<1>10. sync_write(c) => /\ UNCHANGED <<r, w, tx, pending, killed>>
                        /\ fifo' = fifo + 1 /\ Active(c).pc = "sync_thr"
  BY Zenon DEF sync_write, cons, At
<1>11. read_char(c) \/ read_badaddr(c) => \E l \in {"read_test", "read_done"} : Moved(c, l)
  BY ReadSteps, Zenon
<1>12. sync_write(c) => \E l \in {"print_done", "switch", "store", "intr_done"} : Moved(c, l)
  BY SyncSteps, Zenon
<1>13. /\ put_store(c) => Moved(c, "start")
       /\ uartstart(c) => Moved(c, "thr")
       /\ uartstart_write(c) => Moved(c, "start")
       /\ uartstart_return(c) => \E l \in {"put_done", "hput_done"} : Moved(c, l)
  BY TransmitSteps, Zenon
<1>14. store(c) => Moved(c, "intr_done")
  BY HandlerSteps, Zenon
<1>15. uartputc_sync(c) => Moved(c, "sync_thr")
  BY SyncSteps, Zenon
<1>16. /\ read_sleep(c) => Moved(c, "sleep_r")
       /\ put_sleep(c) => Moved(c, "sleep_tx")
       /\ read_test(c) => Moved(c, "read_wait")
  BY SleepSteps, TestStep, Zenon
<1> QED
  BY <1>1, <1>2, <1>3, <1>4, <1>5, <1>6, <1>7, <1>8, <1>9, <1>10, <1>11, <1>12, <1>13, <1>14,
     <1>15, <1>16, Zenon

-----------------------------------------------------------------------------
(* The places of the other CPUs.                                           *)

\* A CPU where nothing happens, except that its thread may be woken up.
Stays(d) ==
    /\ Len(run'[d]) = Len(run[d])
    /\ \/ Active(d)'.pc = Active(d).pc
       \/ Active(d).pc \in Asleep /\ Active(d)'.pc \in {"read", "put"}

\* Nobody comes to wait at chan.
NoSleeper(chan) == \A d \in CPU : run'[d][1].pc = chan => run[d][1].pc = chan

\* What being woken up does to a place.
LEMMA RousedPlace ==
  ASSUME NEW x \in Context, NEW y, Roused(x, y)
  PROVE  y.pc = x.pc \/ (x.pc \in Asleep /\ y.pc \in {"read", "put"})
<1>1. "read" \in Label /\ "put" \in Label
  BY Zenon DEF Label, ThreadPC
<1>2. /\ [x EXCEPT !.pc = "read"].pc = "read"
      /\ [x EXCEPT !.pc = "put"].pc = "put"
  BY <1>1, GotoFacts, Zenon
<1> QED
  BY <1>2, Zenon DEF Roused, Asleep

\* The others stay when CPU c moves, and who is asleep was so before or is CPU c.
LEMMA MovesPlaces ==
  ASSUME IInv, NEW c \in CPU, Moves(c, Active(c)')
  PROVE  /\ \A d \in CPU : d # c => Stays(d)
         /\ Len(run'[c]) = Len(run[c])
         /\ \A chan \in Waiting : Active(c)'.pc # chan => NoSleeper(chan)
         /\ \A chan \in Waiting, d \in CPU :
                d # c /\ run'[d][1].pc = chan => run[d][1].pc = chan
<1>1. \A d \in CPU : /\ Len(run'[d]) = Len(run[d]) /\ Len(run[d]) \in {1, 2}
                     /\ run[d][1] \in Context
  BY ActiveFacts, Zenon DEF Moves
<1>2. ASSUME NEW d \in CPU, d # c \/ Len(run[c]) = 2
      PROVE  \/ run'[d][1].pc = run[d][1].pc
             \/ run[d][1].pc \in Asleep /\ run'[d][1].pc \in {"read", "put"}
  BY <1>1, <1>2, RousedPlace, Zenon DEF Moves
<1>3. ASSUME NEW d \in CPU, d # c PROVE Stays(d)
  <2>1. CASE Len(run[d]) = 1
    BY <1>1, <1>2, <1>3, <2>1, Zenon DEF Stays, Active
  <2>2. CASE Len(run[d]) = 2
    BY <1>1, <1>3, <2>2, Zenon DEF Stays, Active, Moves
  <2> QED
    BY <1>1, <2>1, <2>2, Zenon
<1>4. ASSUME NEW chan \in Waiting, NEW d \in CPU, run'[d][1].pc = chan,
             d # c \/ Active(c)'.pc # chan
      PROVE  run[d][1].pc = chan
  <2>1. d # c \/ Len(run[c]) = 2
    BY <1>1, <1>4, Zenon DEF Active
  <2>2. chan \notin {"read", "put"}
    BY Zenon DEF Asleep, Waiting
  <2> QED
    BY <1>2, <1>4, <2>1, <2>2, Zenon
<1> QED
  BY <1>1, <1>3, <1>4, Zenon DEF NoSleeper

\* wakeup(chan) leaves nobody asleep on chan.
LEMMA WakeupWakes ==
  ASSUME IInv, NEW c \in CPU, NEW ctx \in Context, NEW chan \in Asleep, Wakeup(c, chan, ctx)
  PROVE  \A d \in CPU : run'[d][1].pc # chan
<1> TAKE d \in CPU
<1> DEFINE own == IF d = c THEN [run[c] EXCEPT ![Len(run[c])] = ctx] ELSE run[d]
           up == [own EXCEPT ![1] = [own[1] EXCEPT !.pc = Awake(chan)]]
<1>1. run'[d] = IF own[1].pc = chan THEN up ELSE own
  BY Zenon DEF Wakeup
<1>2. run[d] \in Seq(Context) /\ Len(run[d]) \in {1, 2}
  BY ActiveFacts, Zenon
<1>3. own \in Seq(Context) /\ Len(own) \in {1, 2}
  BY <1>2, SetTop
<1> HIDE DEF own
<1>4. own \in [1 .. Len(own) -> Context] /\ 1 \in 1 .. Len(own)
  BY <1>3
<1>5. up[1] = [own[1] EXCEPT !.pc = Awake(chan)] /\ own[1] \in Context
  BY <1>4, Zenon
<1>6. Awake(chan) \in Label /\ Awake(chan) # chan
  BY Zenon DEF Awake, Asleep, Label, ThreadPC
<1>7. up[1].pc # chan
  BY <1>5, <1>6, GotoFacts
<1> HIDE DEF up
<1> QED
  BY <1>1, <1>7, Zenon

\* An interrupt, its return and kill() put nobody to sleep.
LEMMA OtherPlaces ==
  ASSUME IInv, NEW c \in CPU
  PROVE  /\ trap(c) \/ Returning(c) =>
              /\ IInv' /\ (\A d \in CPU : d # c => Stays(d))
              /\ \A d \in CPU : run'[d][1] = run[d][1]
         /\ kill(c) => /\ IInv' /\ (\A d \in CPU : Stays(d))
                       /\ \A chan \in Waiting : NoSleeper(chan)
<1>1. ASSUME trap(c) \/ Returning(c)
      PROVE  /\ IInv' /\ (\A d \in CPU : d # c => Stays(d))
             /\ \A d \in CPU : run'[d][1] = run[d][1]
  <2>1. /\ IInv' /\ run'[c][1] = run[c][1]
        /\ \A d \in CPU : d # c => run'[d] = run[d]
    BY <1>1, trapStep, sretStep, Zenon DEF Returning
  <2> QED
    BY <2>1, Zenon DEF Stays, Active
<1>2. ASSUME kill(c)
      PROVE  /\ IInv' /\ (\A d \in CPU : Stays(d))
             /\ \A chan \in Waiting : NoSleeper(chan)
  <2>1. /\ IInv'
        /\ \A d \in CPU : /\ Len(run'[d]) = Len(run[d]) /\ Roused(run[d][1], run'[d][1])
                          /\ Len(run[d]) = 2 => run'[d][2] = run[d][2]
    BY <1>2, killStep, Zenon
  <2>2. \A d \in CPU : Len(run[d]) \in {1, 2} /\ run[d][1] \in Context
    BY ActiveFacts, Zenon
  <2>3. \A d \in CPU : \/ run'[d][1].pc = run[d][1].pc
                       \/ run[d][1].pc \in Asleep /\ run'[d][1].pc \in {"read", "put"}
    BY <2>1, <2>2, RousedPlace, Zenon
  <2>4. \A d \in CPU : Stays(d)
    BY <2>1, <2>2, <2>3, Zenon DEF Stays, Active
  <2>5. \A chan \in Waiting : NoSleeper(chan)
    BY <2>3, Zenon DEF NoSleeper, Asleep, Waiting
  <2> QED
    BY <2>1, <2>4, <2>5, Zenon
<1> QED
  BY <1>1, <1>2, Zenon

-----------------------------------------------------------------------------
(* Sleepers.                                                               *)

\* A reader that has found nothing to read still has nothing to read when it calls
\* sleep(), which makes SleepsForAReason inductive.
Reasons ==
    /\ SleepsForAReason
    /\ \A c \in CPU : run[c][1].pc = "read_wait" => r = w

\* Nobody is about to sleep in consoleread() while another place has cons.lock.
LEMMA AloneInCons ==
  ASSUME IInv, NEW c \in CPU, Active(c).pc \in {"read_test", "store"}
  PROVE  \A d \in CPU : run[d][1].pc # "read_wait"
<1> SUFFICES ASSUME NEW d \in CPU, run[d][1].pc = "read_wait" PROVE FALSE
  BY Zenon
<1>1. Active(d).pc = "read_wait"
  <2>1. Len(run[d]) # 2
    BY Level, Zenon DEF Stack, Interruptible
  <2> QED
    BY <2>1, Level, Zenon
<1>2. Holds(Active(c), "cons") /\ Holds(Active(d), "cons") /\ "cons" \in Locks
  BY <1>1, Zenon DEF Holds, HoldsCons, Locks
<1>3. lock["cons"] = c /\ lock["cons"] = d
  BY <1>2, Zenon DEF Owns
<1> QED
  BY <1>1, <1>3, Zenon

\* If nobody comes to wait and nothing changes, the reasons stay.
LEMMA ReasonsStay ==
  ASSUME Reasons, \A chan \in Waiting : NoSleeper(chan), r' = r, w' = w, tx' = tx
  PROVE  Reasons'
<1>1. "sleep_r" \in Waiting /\ "sleep_tx" \in Waiting /\ "read_wait" \in Waiting
  BY Zenon DEF Asleep, Waiting
<1>2. NoSleeper("sleep_r") /\ NoSleeper("sleep_tx") /\ NoSleeper("read_wait")
  BY <1>1, Zenon
<1> QED
  BY <1>2, Zenon DEF Reasons, SleepsForAReason, NoSleeper

\* No step leaves a sleeper without its reason.
LEMMA SleepersStep ==
  ASSUME IInv, Reasons, [Next]_vars
  PROVE  Reasons'
<1>1. /\ "sleep_r" \in Asleep /\ "sleep_tx" \in Asleep
      /\ "sleep_r" \in Waiting /\ "sleep_tx" \in Waiting /\ "read_wait" \in Waiting
  BY Zenon DEF Asleep, Waiting
<1>2. ASSUME NEW c \in CPU, Going(c) PROVE Reasons'
  <2>1. IInv' /\ Moves(c, Active(c)')
    BY <1>2, GoingStep, Zenon
  <2>2. ASSUME Active(c)'.pc \notin Waiting PROVE \A chan \in Waiting : NoSleeper(chan)
    BY <2>1, <2>2, MovesPlaces, Zenon
  <2>3. CASE Quiet(c)
    BY <2>2, <2>3, ReasonsStay, Zenon DEF Quiet, state
  <2>4. CASE read_test(c)
    <3>1. Active(c)'.pc = "read_wait" /\ UNCHANGED state /\ r = w
      BY <2>4, SpecialMoves, Zenon DEF Moved
    <3>2. NoSleeper("sleep_r") /\ NoSleeper("sleep_tx")
      BY <1>1, <2>1, <3>1, MovesPlaces, Zenon
    <3> QED
      BY <3>1, <3>2, Zenon DEF Reasons, SleepsForAReason, NoSleeper, state
  <2>5. CASE read_sleep(c)
    <3>1. Active(c)'.pc = "sleep_r" /\ UNCHANGED state /\ Active(c).pc = "read_wait"
      BY <2>5, SpecialMoves, Zenon DEF Moved
    <3>2. NoSleeper("sleep_tx") /\ NoSleeper("read_wait")
      BY <1>1, <2>1, <3>1, MovesPlaces, Zenon
    <3>3. r = w
      BY <3>1, Level, Zenon DEF Reasons
    <3> QED
      BY <3>1, <3>2, <3>3, Zenon DEF Reasons, SleepsForAReason, NoSleeper, state
  <2>6. CASE put_sleep(c)
    <3>1. Active(c)'.pc = "sleep_tx" /\ UNCHANGED state /\ tx = UART_TX_BUF_SIZE
      BY <2>6, SpecialMoves, Zenon DEF Moved
    <3>2. NoSleeper("sleep_r") /\ NoSleeper("read_wait")
      BY <1>1, <2>1, <3>1, MovesPlaces, Zenon
    <3> QED
      BY <3>1, <3>2, Zenon DEF Reasons, SleepsForAReason, NoSleeper, state
  <2>7. ASSUME Active(c)'.pc \notin Waiting
        PROVE  NoSleeper("sleep_r") /\ NoSleeper("sleep_tx") /\ NoSleeper("read_wait")
    BY <1>1, <2>2, <2>7, Zenon
  <2>8. CASE read_char(c) \/ read_badaddr(c)
    <3>1. Active(c)'.pc \notin Waiting /\ r # w /\ UNCHANGED <<w, tx, fifo, pending, killed>>
      BY <2>8, SpecialMoves, Zenon DEF Moved, Asleep, Waiting
    <3> QED
      BY <2>7, <3>1, Zenon DEF Reasons, SleepsForAReason, NoSleeper
  <2>9. CASE store(c)
    <3>1. Active(c)'.pc \notin Waiting /\ UNCHANGED <<r, tx, fifo, pending, killed>>
      BY <2>9, SpecialMoves, Zenon DEF Moved, Asleep, Waiting
    <3>2. "intr_done" \in Label
      BY Zenon DEF Label, HandlerPC
    <3>3. w' = w \/ \A d \in CPU : run'[d][1].pc # "sleep_r"
      BY <1>1, <2>9, <3>2, CtxFacts, WakeupWakes, Zenon DEF store
    <3>4. \A d \in CPU : run[d][1].pc # "read_wait"
      BY <2>9, AloneInCons, Zenon DEF store, At
    <3> QED
      BY <2>7, <3>1, <3>3, <3>4, Zenon DEF Reasons, SleepsForAReason, NoSleeper
  <2>10. CASE put_store(c)
    <3>1. /\ Active(c)'.pc \notin Waiting /\ UNCHANGED <<r, w, fifo, pending, killed>>
          /\ tx < UART_TX_BUF_SIZE
      BY <2>10, SpecialMoves, Zenon DEF Moved, Asleep, Waiting
    <3>2. tx # UART_TX_BUF_SIZE
      BY <3>1, ConsoleAssumption
    <3> QED
      BY <2>7, <3>1, <3>2, Zenon DEF Reasons, SleepsForAReason, NoSleeper
  <2>11. CASE uartstart(c)
    <3>1. Active(c)'.pc \notin Waiting /\ UNCHANGED <<r, w, fifo, pending, killed>>
      BY <2>11, SpecialMoves, Zenon DEF Moved, Asleep, Waiting
    <3>2. "thr" \in Label
      BY Zenon DEF Label, ThreadPC
    <3>3. [Active(c) EXCEPT !.pc = "thr"] \in Context
      BY <3>2, Level, GotoFacts, Zenon
    <3>4. \A d \in CPU : run'[d][1].pc # "sleep_tx"
      BY <1>1, <2>11, <3>3, WakeupWakes, Zenon DEF uartstart
    <3> QED
      BY <2>7, <3>1, <3>4, Zenon DEF Reasons, SleepsForAReason, NoSleeper
  <2>12. CASE uartstart_return(c) \/ uartputc_sync(c) \/ uartstart_write(c) \/ sync_write(c)
    <3>1. Active(c)'.pc \notin Waiting /\ UNCHANGED <<r, w, tx>>
      BY <2>12, SpecialMoves, Zenon DEF Moved, Asleep, Waiting, state
    <3> QED
      BY <2>2, <3>1, ReasonsStay, Zenon
  <2> QED
    BY <1>2, <2>3, <2>4, <2>5, <2>6, <2>8, <2>9, <2>10, <2>11, <2>12, GoingCases, Zenon
       DEF Special
<1>3. ASSUME NEW c \in CPU, Claiming(c) PROVE Reasons'
  <2>1. Moves(c, Active(c)') /\ Active(c)'.pc \notin Waiting
    BY <1>3, ClaimingStep, Zenon DEF Asleep, Waiting
  <2>2. r' = r /\ w' = w /\ tx' = tx
    BY <1>3, Zenon DEF Claiming, cons
  <2> QED
    BY <2>1, <2>2, MovesPlaces, ReasonsStay, Zenon
<1>4. ASSUME NEW c \in CPU, trap(c) \/ Returning(c) PROVE Reasons'
  <2>1. r' = r /\ w' = w /\ tx' = tx
    BY <1>4, Zenon DEF trap, Returning, cons
  <2>2. \A d \in CPU : run'[d][1] = run[d][1]
    BY <1>4, OtherPlaces, Zenon
  <2> QED
    BY <2>1, <2>2, Zenon DEF Reasons, SleepsForAReason
<1>5. ASSUME NEW c \in CPU, kill(c) PROVE Reasons'
  <2>1. r' = r /\ w' = w /\ tx' = tx
    BY <1>5, Zenon DEF kill, cons
  <2> QED
    BY <1>5, <2>1, OtherPlaces, ReasonsStay, Zenon
<1>6. CASE Device
  <2>1. run' = run /\ r' = r /\ w' = w /\ tx' = tx
    BY <1>6, DeviceStep, Zenon DEF Device, transmit, key, cons
  <2> QED
    BY <2>1, Zenon DEF Reasons, SleepsForAReason
<1>7. CASE UNCHANGED vars
  BY <1>7, Zenon DEF vars, Reasons, SleepsForAReason
<1> QED
  BY <1>2, <1>3, <1>4, <1>5, <1>6, <1>7, Steps, Zenon

\* A reader in consoleread() sleeps only while there is nothing to read, a writer in
\* uartputc() only while the transmit buffer is full: no wakeup is lost, although the
\* test and sleep() are separate steps (console.c:91, uart.c:95).
THEOREM SleepsForAReasonHolds == Spec => []SleepsForAReason
<1>1. Init => Reasons
  BY DEF Init, Reasons, SleepsForAReason, Ctx
<1>2. IInv /\ Reasons /\ [Next]_vars => Reasons'
  BY SleepersStep, Zenon
<1>3. Reasons => SleepsForAReason
  BY Zenon DEF Reasons
<1> QED
  BY <1>1, <1>2, <1>3, Invariance, PTL DEF Spec

-----------------------------------------------------------------------------
(* Output.                                                                 *)

\* CPU c is going to look at the transmit buffer, or is doing so.
Busy(c) ==
    \/ Active(c).pc \in {"start", "thr"}
    \/ Len(run[c]) = 2 /\ Active(c).pc \notin Idle

\* OutputMoves, with the CPU that holds the lock named by its place.
OutputInv ==
    /\ tx \in Nat /\ fifo \in Nat
    /\ tx > 0 => fifo > 0 \/ pending \/ \E c \in CPU : Busy(c)

\* Others stay busy.
LEMMA StaysBusy == ASSUME NEW d \in CPU, Stays(d), Busy(d) PROVE Busy(d)'
BY Zenon DEF Stays, Busy, Asleep, Idle

\* Output keeps moving when CPU c moves, unless it was the one to move it.
LEMMA OutputStays ==
  ASSUME OutputInv, NEW c \in CPU, \A d \in CPU : d # c => Stays(d),
         tx' \in Nat, fifo' \in Nat, tx' > 0 => tx > 0, fifo > 0 => fifo' > 0,
         pending => pending', Busy(c) => Busy(c)'
  PROVE  OutputInv'
BY StaysBusy, Zenon DEF OutputInv

\* No step leaves output behind.
LEMMA OutputStep ==
  ASSUME IInv, OutputInv, [Next]_vars
  PROVE  OutputInv'
<1>1. tx \in Nat /\ fifo \in Nat
  BY Zenon DEF OutputInv
<1>2. ASSUME NEW c \in CPU, Going(c) PROVE OutputInv'
  <2>1. Moves(c, Active(c)')
    BY <1>2, GoingStep, Zenon
  <2>2. (\A d \in CPU : d # c => Stays(d)) /\ Len(run'[c]) = Len(run[c])
    BY <2>1, MovesPlaces, Zenon
  <2>3. ASSUME tx' \in Nat, fifo' \in Nat, Busy(c)', pending' = pending PROVE OutputInv'
    BY <2>3, Zenon DEF OutputInv
  <2>4. CASE Quiet(c)
    <3>1. /\ UNCHANGED state /\ Active(c).pc \notin {"start", "thr"}
          /\ Active(c)'.pc \in Idle => Active(c).pc = "hput_done"
      BY <2>4, Zenon DEF Quiet
    <3>2. Busy(c) => Busy(c)'
      BY <2>2, <3>1, Zenon DEF Busy, Idle
    <3> QED
      BY <1>1, <2>2, <3>1, <3>2, OutputStays, Zenon DEF state
  <2>5. ASSUME UNCHANGED <<tx, pending>>, fifo' = fifo \/ fifo' = fifo + 1,
               Active(c).pc \notin {"start", "thr"}, Active(c)'.pc \notin Idle
        PROVE  OutputInv'
    <3>1. Busy(c) => Busy(c)'
      BY <2>2, <2>5, Zenon DEF Busy
    <3>2. fifo' \in Nat /\ (fifo > 0 => fifo' > 0)
      BY <1>1, <2>5
    <3> QED
      BY <1>1, <2>2, <2>5, <3>1, <3>2, OutputStays, Zenon
  <2>6. CASE read_test(c) \/ read_sleep(c) \/ put_sleep(c)
    <3>1. Active(c)'.pc \in Waiting /\ UNCHANGED state
      BY <2>6, SpecialMoves, Zenon DEF Moved, Asleep, Waiting
    <3>2. Active(c).pc \in {"read_test", "read_wait", "put_test"}
      BY <2>6, Zenon DEF read_test, read_sleep, put_sleep, At
    <3> QED
      BY <2>5, <3>1, <3>2, Zenon DEF state, Asleep, Waiting, Idle
  <2>7. CASE read_char(c) \/ read_badaddr(c)
    <3>1. /\ Active(c)'.pc \in {"read_test", "read_done"}
          /\ UNCHANGED <<w, tx, fifo, pending, killed>>
      BY <2>7, SpecialMoves, Zenon DEF Moved
    <3>2. Active(c).pc = "read_test"
      BY <2>7, Zenon DEF read_char, read_badaddr, At
    <3> QED
      BY <2>5, <3>1, <3>2, Zenon DEF Idle
  <2>8. CASE store(c)
    <3>1. Active(c)'.pc = "intr_done" /\ UNCHANGED <<r, tx, fifo, pending, killed>>
      BY <2>8, SpecialMoves, Zenon DEF Moved
    <3>2. Active(c).pc = "store"
      BY <2>8, Zenon DEF store, At
    <3> QED
      BY <2>5, <3>1, <3>2, Zenon DEF Idle
  <2>9. CASE put_store(c) \/ uartstart(c) \/ uartstart_write(c)
    <3>1. Busy(c)'
      BY <2>9, SpecialMoves, Zenon DEF Moved, Busy
    <3>2. pending' = pending /\ tx' \in Nat /\ fifo' \in Nat
      BY <1>1, <2>9, SpecialMoves
    <3> QED
      BY <2>3, <3>1, <3>2, Zenon
  <2>10. CASE uartstart_return(c)
    <3>1. UNCHANGED state /\ (tx = 0 \/ fifo > 0)
      BY <2>10, SpecialMoves, Zenon
    <3> QED
      BY <1>1, <3>1 DEF OutputInv, state
  <2>11. CASE uartputc_sync(c)
    <3>1. Active(c)'.pc = "sync_thr" /\ UNCHANGED state /\ Active(c).pc = "sync"
      BY <2>11, SpecialMoves, Zenon DEF Moved
    <3> QED
      BY <2>5, <3>1, Zenon DEF state, Idle
  <2>12. CASE sync_write(c)
    <3>1. /\ Active(c)'.pc \in {"print_done", "switch", "store", "intr_done"}
          /\ UNCHANGED <<r, w, tx, pending, killed>>
          /\ fifo' = fifo + 1 /\ Active(c).pc = "sync_thr"
      BY <2>12, SpecialMoves, Zenon DEF Moved
    <3> QED
      BY <2>5, <3>1, Zenon DEF Idle
  <2> QED
    BY <1>2, <2>4, <2>6, <2>7, <2>8, <2>9, <2>10, <2>11, <2>12, GoingCases, Zenon DEF Special
<1>3. ASSUME NEW c \in CPU, Claiming(c) PROVE OutputInv'
  <2>1. IInv' /\ Moves(c, Active(c)') /\ Active(c)'.pc = "getc"
    BY <1>3, ClaimingStep, Zenon
  <2>2. Len(run'[c]) = Len(run[c]) /\ Len(run[c]) = 2
    BY <1>3, <2>1, MovesPlaces, Level, Zenon DEF Claiming
  <2>3. Busy(c)'
    BY <2>1, <2>2, Zenon DEF Busy, Idle
  <2>4. tx' = tx /\ fifo' = fifo
    BY <1>3, Zenon DEF Claiming
  <2> QED
    BY <2>3, <2>4, Zenon DEF OutputInv
<1>4. ASSUME NEW c \in CPU, trap(c) \/ Returning(c) PROVE OutputInv'
  <2>1. \A d \in CPU : d # c => Stays(d)
    BY <1>4, OtherPlaces, Zenon
  <2>2. tx' = tx /\ fifo' = fifo /\ pending' = pending
    BY <1>4, Zenon DEF trap, Returning, uart
  <2>3. ~Busy(c)
    <3>1. CASE trap(c)
      BY <3>1, trapStep DEF Busy, Interruptible
    <3>2. CASE Returning(c)
      BY <3>2, Zenon DEF Returning, Busy, Idle
    <3> QED
      BY <1>4, <3>1, <3>2, Zenon
  <2> QED
    BY <1>1, <2>1, <2>2, <2>3, OutputStays, Zenon
<1>5. ASSUME NEW c \in CPU, kill(c) PROVE OutputInv'
  <2>1. \A d \in CPU : Stays(d)
    BY <1>5, OtherPlaces, Zenon
  <2>2. tx' = tx /\ fifo' = fifo /\ pending' = pending
    BY <1>5, Zenon DEF kill, uart
  <2> QED
    BY <1>1, <2>1, <2>2, StaysBusy, OutputStays, Zenon
<1>6. CASE Device
  <2>1. run' = run /\ tx' = tx
    BY <1>6, DeviceStep, Zenon DEF Device, transmit, key
  <2>2. \A c \in CPU : Busy(c)' <=> Busy(c)
    BY <2>1, Zenon DEF Busy, Active
  <2>3. CASE transmit
    <3>1. fifo > 0 /\ fifo' = fifo - 1
      BY <2>3, Zenon DEF transmit
    <3>2. fifo = 1 => pending'
      BY <2>3, Zenon DEF transmit
    <3>3. fifo' \in Nat /\ (fifo' > 0 \/ pending')
      BY <1>1, <3>1, <3>2
    <3> QED
      BY <1>1, <2>1, <3>3, Zenon DEF OutputInv
  <2>4. CASE \E k \in Keys : key(k)
    BY <1>1, <2>1, <2>2, <2>4, Zenon DEF OutputInv, key
  <2> QED
    BY <1>6, <2>3, <2>4, Zenon DEF Device
<1>7. CASE UNCHANGED vars
  <2>1. run' = run /\ tx' = tx /\ fifo' = fifo /\ pending' = pending
    BY <1>7, Zenon DEF vars
  <2> QED
    BY <2>1, Zenon DEF OutputInv, Busy, Active
<1> QED
  BY <1>2, <1>3, <1>4, <1>5, <1>6, <1>7, Steps, Zenon

\* Bytes in the transmit buffer never wait for a key to be typed: the UART is busy and
\* will interrupt, the interrupt is pending, or some CPU is in uartstart() or on its
\* way there (uart.c:136, uart.c:177).
THEOREM OutputMovesHolds == Spec => []OutputMoves
<1>1. Init => OutputInv
  BY DEF Init, OutputInv
<1>2. IInv /\ OutputInv /\ [Next]_vars => OutputInv'
  BY OutputStep, Zenon
<1>3. IInv /\ OutputInv => OutputMoves
  <2> SUFFICES ASSUME IInv, OutputInv, tx > 0, ~(fifo > 0), ~pending
               PROVE  \/ lock["tx"] # 0
                      \/ \E c \in CPU : Len(run[c]) = 2 /\ Active(c).pc \notin Idle
    BY Zenon DEF OutputMoves, Idle
  <2>1. PICK c \in CPU : Busy(c)
    BY Zenon DEF OutputInv
  <2>2. CASE Active(c).pc \in {"start", "thr"}
    <3>1. Holds(Active(c), "tx") /\ "tx" \in Locks
      BY <2>2, Zenon DEF Holds, HoldsTx, Locks
    <3>2. lock["tx"] = c
      BY <3>1, Zenon DEF Owns
    <3> QED
      BY <3>2, ConsoleAssumption, Zenon
  <2> QED
    BY <2>1, <2>2, Zenon DEF Busy
<1> QED
  BY <1>1, <1>2, <1>3, Invariance, PTL DEF Spec

=============================================================================
