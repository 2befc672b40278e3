---------------------------- MODULE ConsoleProof ----------------------------
(***************************************************************************)
(* One more result about the console, that needs to count: the UART's      *)
(* transmit FIFO is never overrun, for every number of CPUs that is not    *)
(* larger than the FIFO.                                                   *)
(***************************************************************************)
EXTENDS ConsoleInvariant, FiniteSetTheorems

-----------------------------------------------------------------------------
(* The transmit FIFO.                                                      *)

\* The CPUs that have seen the UART idle and are about to write to it.
Writers == {c \in CPU : Active(c).pc \in AtUart}

\* Every byte in the FIFO was written by a different CPU, and so will the next ones be.
FifoInv == fifo \in Nat /\ fifo + Cardinality(Writers) <= Cardinality(CPU)

\* The sizes of the sets of writers.
LEMMA WriterCount ==
  ASSUME NEW S, S \subseteq CPU
  PROVE  /\ Cardinality(S) \in Nat /\ Cardinality(CPU) \in Nat
         /\ Cardinality(S) <= Cardinality(CPU)
         /\ \A T : T \subseteq S => Cardinality(T) \in Nat /\ Cardinality(T) <= Cardinality(S)
         /\ \A c \in S : \A T : T \subseteq S \ {c} => Cardinality(T) + 1 <= Cardinality(S)
<1>1. IsFiniteSet(CPU) /\ IsFiniteSet(S)
  BY ConsoleAssumption, FS_Subset, Zenon
<1>2. /\ Cardinality(S) \in Nat /\ Cardinality(CPU) \in Nat
      /\ Cardinality(S) <= Cardinality(CPU)
  BY <1>1, FS_Subset, FS_CardinalityType, Zenon
<1>3. ASSUME NEW T, T \subseteq S
      PROVE  Cardinality(T) \in Nat /\ Cardinality(T) <= Cardinality(S)
  BY <1>1, <1>3, FS_Subset, FS_CardinalityType, Zenon
<1>4. ASSUME NEW c \in S, NEW T, T \subseteq S \ {c}
      PROVE  Cardinality(T) + 1 <= Cardinality(S)
  <2>1. IsFiniteSet(S \ {c}) /\ Cardinality(S \ {c}) = Cardinality(S) - 1
    BY <1>1, FS_RemoveElement, Zenon
  <2>2. Cardinality(T) \in Nat /\ Cardinality(T) <= Cardinality(S \ {c})
    BY <1>4, <2>1, FS_Subset, FS_CardinalityType, Zenon
  <2> QED
    BY <1>2, <2>1, <2>2
<1> QED
  BY <1>2, <1>3, <1>4, Zenon

\* Writers are CPUs.
LEMMA WritersAreCPUs ==
  /\ Writers \subseteq CPU /\ Writers' \subseteq CPU
  /\ \A c \in CPU : Active(c)'.pc \in AtUart <=> c \in Writers'
BY Zenon DEF Writers

\* A CPU that stays is no new writer.
LEMMA StaysWriter == ASSUME NEW d \in CPU, Stays(d), d \in Writers' PROVE d \in Writers
BY Zenon DEF Stays, Writers, AtUart

\* No new writer, no new byte.
LEMMA FifoStays ==
  ASSUME FifoInv, fifo' = fifo \/ (fifo > 0 /\ fifo' = fifo - 1), Writers' \subseteq Writers
  PROVE  FifoInv'
<1>1. /\ Cardinality(Writers) \in Nat /\ Cardinality(CPU) \in Nat
      /\ Cardinality(Writers') \in Nat /\ Cardinality(Writers') <= Cardinality(Writers)
  BY WriterCount, WritersAreCPUs, Zenon
<1> QED
  BY <1>1 DEF FifoInv

\* No step overruns the FIFO.
LEMMA FifoStep ==
  ASSUME IInv, FifoInv, [Next]_vars
  PROVE  FifoInv'
<1>1. fifo \in Nat
  BY Zenon DEF FifoInv
<1>2. ASSUME NEW c \in CPU, Going(c) PROVE FifoInv'
  <2>1. \A d \in CPU : d # c => Stays(d)
    BY <1>2, GoingStep, MovesPlaces, Zenon
  <2>2. ASSUME fifo' = fifo, Active(c)'.pc \notin AtUart PROVE FifoInv'
    <3>1. Writers' \subseteq Writers
      BY <2>1, <2>2, WritersAreCPUs, StaysWriter, Zenon
    <3> QED
      BY <2>2, <3>1, FifoStays, Zenon
  <2>3. CASE Quiet(c)
    BY <2>2, <2>3, Zenon DEF Quiet, state
  <2>4. CASE read_test(c) \/ read_sleep(c) \/ put_sleep(c) \/ uartstart_return(c)
    BY <2>2, <2>4, SpecialMoves, Zenon DEF Moved, state, AtUart
  <2>5. CASE read_char(c) \/ read_badaddr(c) \/ store(c) \/ put_store(c)
    BY <2>2, <2>5, SpecialMoves, Zenon DEF Moved, AtUart
  <2>6. CASE uartstart(c) \/ uartputc_sync(c)
    <3>1. fifo = 0 /\ fifo' = fifo
      BY <2>6, SpecialMoves, Zenon DEF state
    <3>2. /\ Cardinality(Writers') \in Nat /\ Cardinality(CPU) \in Nat
          /\ Cardinality(Writers') <= Cardinality(CPU)
      BY WriterCount, WritersAreCPUs, Zenon
    <3> QED
      BY <3>1, <3>2 DEF FifoInv
  <2>7. CASE uartstart_write(c) \/ sync_write(c)
    <3>1. fifo' = fifo + 1 /\ Active(c).pc \in AtUart /\ Active(c)'.pc \notin AtUart
      BY <2>7, SpecialMoves, Zenon DEF Moved, AtUart
    <3>2. c \in Writers /\ c \notin Writers'
      BY <3>1, WritersAreCPUs, Zenon DEF Writers
    <3>3. Writers' \subseteq Writers \ {c}
      BY <2>1, <3>2, WritersAreCPUs, StaysWriter, Zenon
    <3>4. /\ Cardinality(Writers) \in Nat /\ Cardinality(CPU) \in Nat
          /\ Cardinality(Writers') + 1 <= Cardinality(Writers)
          /\ Cardinality(Writers') \in Nat
      BY <3>2, <3>3, WriterCount, WritersAreCPUs, Zenon
    <3> QED
      BY <1>1, <3>1, <3>4 DEF FifoInv
  <2> QED
    BY <1>2, <2>3, <2>4, <2>5, <2>6, <2>7, GoingCases, Zenon DEF Special
<1>3. ASSUME NEW c \in CPU, trap(c) \/ Returning(c) \/ Claiming(c) PROVE FifoInv'
  <2>1. \A d \in CPU : d # c => Stays(d)
    BY <1>3, OtherPlaces, ClaimingStep, MovesPlaces, Zenon
  <2>2. fifo' = fifo
    BY <1>3, Zenon DEF trap, Returning, Claiming, uart
  <2>3. Active(c)'.pc \notin AtUart
    BY <1>3, trapStep, sretStep, ClaimingStep, Zenon DEF Returning, AtUart, Interruptible
  <2>4. Writers' \subseteq Writers
    BY <2>1, <2>3, WritersAreCPUs, StaysWriter, Zenon
  <2> QED
    BY <2>2, <2>4, FifoStays, Zenon
<1>4. ASSUME NEW c \in CPU, kill(c) PROVE FifoInv'
  <2>1. \A d \in CPU : Stays(d)
    BY <1>4, OtherPlaces, Zenon
  <2>2. fifo' = fifo
    BY <1>4, Zenon DEF kill, uart
  <2>3. Writers' \subseteq Writers
    BY <2>1, WritersAreCPUs, StaysWriter, Zenon
  <2> QED
    BY <2>2, <2>3, FifoStays, Zenon
<1>5. CASE Device
  <2>1. run' = run
    BY <1>5, DeviceStep, Zenon
  <2>2. Writers' = Writers
    BY <2>1, Zenon DEF Writers, Active
  <2>3. fifo' = fifo \/ (fifo > 0 /\ fifo' = fifo - 1)
    BY <1>5, Zenon DEF Device, transmit, key
  <2> QED
    BY <2>2, <2>3, FifoStays, Zenon
<1>6. CASE UNCHANGED vars
  <2>1. run' = run /\ fifo' = fifo
    BY <1>6, Zenon DEF vars
  <2>2. Writers' = Writers
    BY <2>1, Zenon DEF Writers, Active
  <2> QED
    BY <2>1, <2>2, FifoStays, Zenon
<1> QED
  BY <1>2, <1>3, <1>4, <1>5, <1>6, Steps, Zenon

\* The transmit FIFO is never overrun, although printf() and consolewrite() write to it
\* under different locks: at most one byte for each CPU is in it or on its way, and
\* there are no more CPUs than entries (uart.c:110, uart.c:136).
THEOREM FifoNotOverrunHolds == Spec => []FifoNotOverrun
<1>1. Init => FifoInv
  <2> SUFFICES ASSUME Init PROVE FifoInv
    BY Zenon
  <2>1. Writers = {}
    <3>1. \A c \in CPU : Active(c) = Ctx("user")
      BY Zenon DEF Init, Active
    <3>2. "user" \in Label
      BY Zenon DEF Label, ThreadPC
    <3>3. \A c \in CPU : Active(c).pc = "user"
      BY <3>1, <3>2, CtxFacts, Zenon
    <3> QED
      BY <3>3, Zenon DEF Writers, AtUart
  <2>2. Cardinality(Writers) = 0 /\ Cardinality(CPU) \in Nat
    BY <2>1, WriterCount, FS_EmptySet, Zenon
  <2> QED
    BY <2>2 DEF Init, FifoInv
<1>2. IInv /\ FifoInv /\ [Next]_vars => FifoInv'
  BY FifoStep, Zenon
<1>3. FifoInv => FifoNotOverrun
  <2>1. Cardinality(Writers) \in Nat /\ Cardinality(CPU) \in Nat
    BY WriterCount, WritersAreCPUs, Zenon
  <2> QED
    BY <2>1, ConsoleAssumption DEF FifoInv, FifoNotOverrun
<1> QED
  BY <1>1, <1>2, <1>3, Invariance, PTL DEF Spec
=============================================================================
