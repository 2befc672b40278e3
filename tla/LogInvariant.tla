---------------------------- MODULE LogInvariant ----------------------------
(***************************************************************************)
(* The inductive invariant IInv of Log, for every set of processes, blocks *)
(* and contents and every size of the log: it holds initially, and         *)
(* begin_op, log_write, end_op and the steps of commit() preserve it.      *)
(***************************************************************************)
EXTENDS Log, FiniteSetTheorems, TLAPS

RecPC == {"recover", "rinstall", "rclear"}
CommitPC == {"write_log", "write_head", "install", "clear", "finish"}
WaitPC == {"idle", "begin", "asleep"}
LoopPC == {"write_log", "install", "rinstall"}

Entry(s) == 1 .. Len(s)
Distinct(s) == \A i, j \in Entry(s) : s[i] = s[j] => i = j

(* Who may be where. *)
BootAlone == \A p, q \in Proc : pc[p] \in RecPC /\ q # p => pc[q] = "unborn"
UnbornAtBoot == \A p \in Proc : pc[p] = "unborn" => \E q \in Proc : pc[q] \in RecPC
CommitFlag == committing = 1 <=> \E p \in Proc : pc[p] \in CommitPC
CommitAlone == \A p, q \in Proc : pc[p] \in CommitPC /\ q # p => pc[q] \in WaitPC
CallCount == outstanding = Cardinality(InCall)
Assertions == panicked \in {"no", "too big a transaction"}

(* The two headers and the loop index. *)
HeadsFit == Len(lh) <= nlog - 1 /\ Len(dhead) <= nlog - 1
HeadsDistinct == Distinct(lh) /\ Distinct(dhead)
TailInv ==
    \A p \in Proc :
        /\ pc[p] \in LoopPC \cup {"write_head"} => tail[p] < Len(lh)
        /\ pc[p] \notin LoopPC => tail[p] = 0
HeadsAgree ==
    \A p \in Proc :
        /\ pc[p] \in {"install", "clear", "rinstall", "rclear"} => dhead = lh
        /\ pc[p] \in {"recover", "finish"} => lh = <<>>
HeadEmpty ==
    (\A p \in Proc : pc[p] \notin {"install", "clear"} \cup RecPC) => dhead = <<>>
LogEmpty == outstanding = 0 /\ committing = 0 /\ ~Recovering => lh = <<>>

(* What the cache, the log and the home locations hold. *)
PinnedCached == \A b \in Block : pins[b] # 0 => cache[b] \in Data
CleanCached == \A b \in Block : pins[b] = 0 /\ cache[b] # NoBuf => cache[b] = disk[b]
LogCopied ==
    \A p \in Proc, i \in Entry(lh) :
        \/ pc[p] = "write_log" /\ i <= tail[p]
        \/ pc[p] = "write_head"
        \/ pc[p] = "install" /\ i > tail[p]
        => dlog[i] = cache[lh[i]]
Installed ==
    \A p \in Proc, i \in Entry(lh) :
        \/ pc[p] \in {"install", "rinstall"} /\ i <= tail[p]
        \/ pc[p] \in {"clear", "rclear"}
        => disk[lh[i]] = dlog[i]
DurableLog == \A i \in Entry(dhead) : dlog[i] \in Data
DurableHome ==
    \A b \in Block : (\A i \in Entry(dhead) : dhead[i] # b) => disk[b] \in Data

Control == /\ BootAlone /\ UnbornAtBoot /\ CommitFlag /\ CommitAlone
           /\ CallCount /\ SleeperHasWaker /\ Assertions
Heads == HeadsFit /\ HeadsDistinct /\ TailInv /\ HeadsAgree /\ HeadEmpty /\ LogEmpty
Contents == /\ PinnedWhileLogged /\ PinnedCached /\ CleanCached
            /\ LogCopied /\ Installed /\ DurableLog /\ DurableHome

IInv == TypeOK /\ Control /\ Heads /\ Contents

\* A freshly made file system satisfies the invariant.
LEMMA InitIInv == Init => IInv
<1> SUFFICES ASSUME Init PROVE IInv
  BY Zenon
<1>0. PICK q \in Proc : pc = Booting(q)
  BY Zenon DEF Init
<1> USE LogAssumption, <1>0 DEF Init, Booting
<1>1. TypeOK
  <2>1. pc \in [Proc -> PCs]
    BY Zenon DEF PCs
  <2>2. dlog \in [LogBlock -> Content] /\ disk \in [Block -> Content]
    BY Zenon DEF Content
  <2> QED
    BY <2>1, <2>2 DEF TypeOK
<1>2. InCall = {}
  BY Zenon DEF InCall
<1>3. Control
  BY <1>2, FS_EmptySet DEF Control, RecPC, CommitPC, WaitPC, SleeperHasWaker,
     BootAlone, UnbornAtBoot, CommitFlag, CommitAlone, CallCount, Assertions
<1>4. Heads
  BY DEF Heads, HeadsFit, HeadsDistinct, TailInv, HeadsAgree, HeadEmpty, LogEmpty,
     Distinct, Entry, RecPC, LoopPC, LogBlock
<1>5. Contents
  BY DEF Contents, PinnedWhileLogged, PinnedCached, CleanCached, LogCopied,
     Installed, DurableLog, DurableHome, Pending, Entry, Recovering
<1> QED
  BY <1>1, <1>3, <1>4, <1>5, Zenon DEF IInv

(***************************************************************************)
(* What the invariant says of a step's process, used by several actions.   *)
(***************************************************************************)

\* The calls counted by log.outstanding are a finite set.
LEMMA InCallFinite == IsFiniteSet(InCall)
BY LogAssumption, FS_Subset, Zenon DEF InCall

\* While some process is in a call nobody commits or recovers, and the header
\* on disk is empty.
LEMMA CallFacts ==
  ASSUME IInv, NEW p \in Proc, pc[p] = "op"
  PROVE  /\ committing = 0 /\ outstanding >= 1 /\ ~Recovering
         /\ \A q \in Proc : pc[q] \in WaitPC \cup {"op"}
         /\ dhead = <<>>
<1>1. \A q \in Proc : pc[q] \in WaitPC \cup {"op"}
  BY Zenon
     DEF IInv, TypeOK, PCs, Control, BootAlone, UnbornAtBoot, CommitAlone, RecPC, CommitPC, WaitPC
<1>2. committing = 0
  BY <1>1, Zenon DEF IInv, Control, CommitFlag, TypeOK, CommitPC, WaitPC
<1>3. outstanding >= 1
  <2>1. p \in InCall
    BY Zenon DEF InCall
  <2>2. outstanding # 0
    BY <2>1, InCallFinite, FS_EmptySet, Zenon DEF IInv, Control, CallCount
  <2>3. outstanding \in Nat
    BY Zenon DEF IInv, TypeOK
  <2> QED
    BY <2>2, <2>3
<1>4. ~Recovering /\ dhead = <<>>
  BY <1>1, Zenon DEF Recovering, RecPC, WaitPC, IInv, Heads, HeadEmpty
<1> QED
  BY <1>1, <1>2, <1>3, <1>4, Zenon

\* The committing process is the only one that is not waiting or idle.
LEMMA CommitFacts ==
  ASSUME IInv, NEW p \in Proc, pc[p] \in CommitPC
  PROVE  /\ committing = 1 /\ outstanding = 0 /\ ~Recovering
         /\ \A q \in Proc : q # p => pc[q] \in WaitPC
         /\ InCall = {}
         /\ pc[p] \in {"install", "clear"} \/ dhead = <<>>
<1>1. \A q \in Proc : q # p => pc[q] \in WaitPC
  BY Zenon DEF IInv, Control, CommitAlone
<1>2. committing = 1 /\ ~Recovering
  BY <1>1, Zenon DEF IInv, Control, CommitFlag, Recovering, CommitPC, WaitPC
<1>3. InCall = {}
  BY <1>1, Zenon DEF InCall, CommitPC, WaitPC
<1>4. outstanding = 0
  BY <1>3, FS_EmptySet, Zenon DEF IInv, Control, CallCount
<1>5. pc[p] \in {"install", "clear"} \/ dhead = <<>>
  BY <1>1, Zenon DEF IInv, Heads, HeadEmpty, CommitPC, WaitPC, RecPC
<1> QED
  BY <1>1, <1>2, <1>3, <1>4, <1>5, Zenon

\* During recovery the recovering process is the only one there is.
LEMMA RecoverFacts ==
  ASSUME IInv, NEW p \in Proc, pc[p] \in RecPC
  PROVE  /\ committing = 0 /\ outstanding = 0 /\ Recovering
         /\ \A q \in Proc : q # p => pc[q] = "unborn"
         /\ InCall = {}
         /\ \A b \in Block : pins[b] = 0
<1>1. \A q \in Proc : q # p => pc[q] = "unborn"
  BY Zenon DEF IInv, Control, BootAlone
<1>2. committing = 0 /\ Recovering
  BY <1>1, Zenon DEF IInv, Control, CommitFlag, TypeOK, Recovering, RecPC, CommitPC
<1>3. InCall = {}
  BY <1>1, Zenon DEF InCall, RecPC
<1>4. outstanding = 0
  BY <1>3, FS_EmptySet, Zenon DEF IInv, Control, CallCount
<1>5. \A b \in Block : pins[b] = 0
  BY <1>2, Zenon DEF IInv, Contents, PinnedWhileLogged, Pending
<1> QED
  BY <1>1, <1>2, <1>3, <1>4, <1>5, Zenon

\* Appending keeps the earlier entries.
LEMMA AppendFacts ==
  ASSUME NEW S, NEW s \in Seq(S), NEW x \in S
  PROVE  /\ Append(s, x) \in Seq(S) /\ Len(Append(s, x)) = Len(s) + 1
         /\ \A i \in 1 .. Len(s) : Append(s, x)[i] = s[i]
         /\ Append(s, x)[Len(s) + 1] = x
OBVIOUS

\* In a call, the only panic of log_write that can happen is the first.
LEMMA LogWriteCheck ==
  ASSUME outstanding \in Nat, outstanding >= 1, lh \in Seq(Block)
  PROVE  /\ log_write_check \in {"no", "too big a transaction"}
         /\ log_write_check = "no" => Len(lh) < nlog - 1
BY LogAssumption DEF log_write_check

\* A step that changes nothing but the panic message.
LEMMA OnlyPanic ==
  ASSUME IInv, panicked' \in {"no", "too big a transaction"},
         UNCHANGED <<disk, dlog, dhead, cache, pins, lh, outstanding, committing,
                     pc, tail, wrote>>
  PROVE  IInv'
<1> USE DEF IInv, Control, Heads, Contents
<1>1. InCall' = InCall /\ (Recovering' <=> Recovering)
  BY Zenon DEF InCall, Recovering
<1>2. TypeOK'
  BY Zenon DEF TypeOK
<1>3. BootAlone' /\ UnbornAtBoot' /\ CommitFlag' /\ CommitAlone'
  BY Zenon DEF BootAlone, UnbornAtBoot, CommitFlag, CommitAlone
<1>4. CallCount' /\ SleeperHasWaker' /\ Assertions'
  BY <1>1, Zenon DEF CallCount, SleeperHasWaker, Assertions
<1>5. HeadsFit' /\ HeadsDistinct'
  BY Zenon DEF HeadsFit, HeadsDistinct, Distinct, Entry
<1>6. TailInv' /\ HeadsAgree'
  BY Zenon DEF TailInv, HeadsAgree
<1>7. HeadEmpty' /\ LogEmpty'
  BY <1>1, Zenon DEF HeadEmpty, LogEmpty
<1>8. \A c \in Block : Pending(c)' <=> Pending(c)
  BY <1>1, Zenon DEF Pending
<1>9. PinnedWhileLogged' /\ PinnedCached' /\ CleanCached'
  BY <1>8, Zenon DEF PinnedWhileLogged, PinnedCached, CleanCached
<1>10. LogCopied'
  BY Zenon DEF LogCopied, Entry
<1>11. Installed'
  BY Zenon DEF Installed, Entry
<1>12. DurableLog' /\ DurableHome'
  BY Zenon DEF DurableLog, DurableHome, Entry
<1> QED
  BY <1>2, <1>3, <1>4, <1>5, <1>6, <1>7, <1>9, <1>10, <1>11, <1>12, Zenon

\* One turn of a loop over lh.
LEMMA LoopStep ==
  ASSUME NEW p \in Proc, NEW l \in PCs, LoopOver(p, l),
         pc \in [Proc -> PCs], tail \in [Proc -> Nat],
         Len(lh) \in Nat, tail[p] < Len(lh)
  PROVE  /\ pc' \in [Proc -> PCs] /\ tail' \in [Proc -> Nat]
         /\ \A q \in Proc : q # p => pc'[q] = pc[q] /\ tail'[q] = tail[q]
         /\ \/ tail[p] + 1 = Len(lh) /\ pc'[p] = l /\ tail'[p] = 0
            \/ tail[p] + 1 < Len(lh) /\ pc'[p] = pc[p] /\ tail'[p] = tail[p] + 1
<1>1. CASE tail[p] + 1 = Len(lh)
  BY <1>1 DEF LoopOver, Goto
<1>2. CASE tail[p] + 1 # Len(lh)
  <2>1. pc' = pc /\ tail' = [tail EXCEPT ![p] = @ + 1]
    BY <1>2, Zenon DEF LoopOver
  <2> QED
    BY <1>2, <2>1
<1> QED
  BY <1>1, <1>2, Zenon

\* begin_op going to sleep: somebody is left to wake the caller.
LEMMA Step_begin_op_sleep ==
  ASSUME IInv, NEW p \in Proc, begin_op_sleep(p)
  PROVE  IInv'
<1> USE DEF IInv, Control, Heads, Contents, begin_op_sleep, At, Goto, diskVars, logVars
<1>a. pc \in [Proc -> PCs] /\ pc[p] \in {"idle", "begin"}
  BY Zenon DEF TypeOK
<1>b. committing = 1 \/ outstanding > 0
  <2>1. ~Recovering
    BY <1>a, Zenon DEF BootAlone, Recovering, RecPC
  <2>2. lh = <<>> /\ outstanding = 0 => ~NoRoom
    BY LogAssumption DEF NoRoom
  <2>3. outstanding \in Nat /\ committing \in {0, 1}
    BY Zenon DEF TypeOK
  <2> QED
    BY <2>1, <2>2, <2>3 DEF LogEmpty, MustWait
<1>1. TypeOK'
  BY <1>a, Zenon DEF TypeOK, PCs
<1>2. BootAlone' /\ UnbornAtBoot' /\ CommitFlag'
  BY <1>a, Zenon DEF TypeOK, BootAlone, RecPC, UnbornAtBoot, CommitFlag, CommitPC
<1>3. CommitAlone' /\ CallCount' /\ SleeperHasWaker' /\ Assertions'
  BY <1>a, <1>b, Zenon DEF TypeOK, CommitAlone, CommitPC, WaitPC, CallCount, InCall,
     SleeperHasWaker, Assertions
<1>4. HeadsFit' /\ HeadsDistinct' /\ TailInv'
  BY <1>a, Zenon DEF TypeOK, HeadsFit, HeadsDistinct, Distinct, Entry, TailInv, LoopPC
<1>5. HeadsAgree' /\ HeadEmpty' /\ LogEmpty'
  BY <1>a, Zenon DEF TypeOK, HeadsAgree, HeadEmpty, RecPC, LogEmpty, Recovering
<1>6. PinnedWhileLogged' /\ PinnedCached' /\ CleanCached'
  BY <1>a, Zenon DEF TypeOK, PinnedWhileLogged, Pending, Recovering, PinnedCached, CleanCached
<1>7. LogCopied' /\ Installed' /\ DurableLog' /\ DurableHome'
  BY <1>a, Zenon DEF TypeOK, LogCopied, Entry, Installed, DurableLog, DurableHome
<1> QED
  BY <1>1, <1>2, <1>3, <1>4, <1>5, <1>6, <1>7, Zenon

\* begin_op admitting a call.
LEMMA Step_begin_op_admit ==
  ASSUME IInv, NEW p \in Proc, begin_op_admit(p)
  PROVE  IInv'
<1> USE DEF IInv, Control, Heads, Contents, begin_op_admit, At, Goto, MustWait, diskVars, logVars
<1>a. pc \in [Proc -> PCs] /\ pc[p] \in {"idle", "begin"} /\ committing = 0 /\ outstanding \in Nat
  BY Zenon DEF TypeOK
<1>b. InCall' = InCall \cup {p} /\ p \notin InCall
  BY <1>a, Zenon DEF InCall
<1>1. TypeOK'
  <2>1. pc' \in [Proc -> PCs] /\ outstanding' \in Nat
    BY <1>a DEF PCs
  <2>2. wrote' \in [Proc -> SUBSET Block]
    BY Zenon DEF TypeOK
  <2> QED
    BY <2>1, <2>2, Zenon DEF TypeOK
<1>2. BootAlone' /\ UnbornAtBoot' /\ CommitFlag'
  BY <1>a, Zenon DEF TypeOK, BootAlone, RecPC, UnbornAtBoot, CommitFlag, CommitPC
<1>3. CommitAlone' /\ CallCount'
  BY <1>a, <1>b, InCallFinite, FS_AddElement, Zenon DEF CommitFlag, CommitAlone, CommitPC, WaitPC,
     CallCount
<1>4. SleeperHasWaker'
  BY <1>a DEF SleeperHasWaker
<1>5. Assertions'
  BY <1>a, Zenon DEF TypeOK, Assertions
<1>6. HeadsFit' /\ HeadsDistinct' /\ TailInv'
  BY <1>a, Zenon DEF TypeOK, HeadsFit, HeadsDistinct, Distinct, Entry, TailInv, LoopPC
<1>7. HeadsAgree'
  BY <1>a, Zenon DEF TypeOK, HeadsAgree
<1>8. HeadEmpty'
  BY <1>a, Zenon DEF TypeOK, HeadEmpty, RecPC
<1>9. LogEmpty'
  BY <1>a DEF LogEmpty
<1>10. PinnedWhileLogged' /\ PinnedCached' /\ CleanCached'
  BY <1>a, ZenonT(60)
     DEF TypeOK, PinnedWhileLogged, Pending, Recovering, PinnedCached, CleanCached
<1>11. LogCopied' /\ Installed' /\ DurableLog' /\ DurableHome'
  BY <1>a, Zenon DEF TypeOK, LogCopied, Entry, Installed, DurableLog, DurableHome
<1> QED
  BY <1>1, <1>2, <1>3, <1>4, <1>5, <1>6, <1>7, <1>8, <1>9, <1>10, <1>11, Zenon

\* log_write, whether it appends, absorbs or panics.
LEMMA Step_log_write ==
  ASSUME IInv, NEW p \in Proc, NEW b \in Block, NEW v \in Data, log_write(p, b, v)
  PROVE  IInv'
<1> USE DEF IInv, Control, Heads, Contents, log_write, At, bpin, diskVars, logVars
<1>a. /\ pc[p] = "op" /\ committing = 0 /\ outstanding >= 1 /\ ~Recovering /\ dhead = <<>>
      /\ \A q \in Proc : pc[q] \in WaitPC \cup {"op"}
      /\ outstanding \in Nat /\ lh \in Seq(Block) /\ nlog \in Nat /\ LOGSIZE \in Nat
  BY CallFacts, LogAssumption, Zenon DEF TypeOK
<1>b. /\ InCall' = InCall /\ pc' = pc /\ tail' = tail
      /\ dhead' = dhead /\ dlog' = dlog /\ disk' = disk
  BY SMTT(30) DEF InCall, Panic
<1>c. CASE log_write_check # "no"
  <2>1. log_write_check = "too big a transaction"
    BY <1>a, <1>c, LogWriteCheck, Zenon
  <2> QED
    BY <1>c, <2>1, OnlyPanic, Zenon DEF Panic
<1> SUFFICES ASSUME log_write_check = "no" PROVE IInv'
  BY <1>c, Zenon
<1>d. /\ cache' = [cache EXCEPT ![b] = v]
      /\ IF Logged(b) THEN UNCHANGED <<lh, pins>>
                      ELSE lh' = Append(lh, b) /\ pins' = [pins EXCEPT ![b] = @ + 1]
      /\ wrote' = [wrote EXCEPT ![p] = @ \cup {b}]
      /\ UNCHANGED <<diskVars, outstanding, committing, pc, tail, panicked>>
      /\ Len(lh) < nlog - 1
  BY <1>a, LogWriteCheck, Zenon
<1>i. ~Logged(b) =>
        /\ lh' \in Seq(Block) /\ Len(lh') = Len(lh) + 1
        /\ \A i \in 1 .. Len(lh) : lh'[i] = lh[i]
        /\ lh'[Len(lh) + 1] = b
  <2>1. /\ Append(lh, b) \in Seq(Block) /\ Len(Append(lh, b)) = Len(lh) + 1
        /\ \A i \in 1 .. Len(lh) : Append(lh, b)[i] = lh[i]
        /\ Append(lh, b)[Len(lh) + 1] = b
    BY <1>a, AppendFacts
  <2> QED
    BY <1>d, <2>1, Zenon
<1>e. /\ lh' \in Seq(Block) /\ Len(lh') >= Len(lh)
      /\ Len(lh') <= Len(lh) + 1
      /\ \A i \in Entry(lh) : lh'[i] = lh[i]
      /\ \A i \in Entry(lh') : i \in Entry(lh) \/ (lh'[i] = b /\ ~Logged(b) /\ i = Len(lh) + 1)
  <2>0. Len(lh) \in Nat
    BY <1>a
  <2>1. CASE Logged(b)
    BY <1>a, <1>d, <2>0, <2>1 DEF Entry
  <2>2. CASE ~Logged(b)
    BY <1>i, <2>0, <2>2 DEF Entry
  <2> QED
    BY <2>1, <2>2, Zenon
<1>f. \A c \in Block : Pending(c) <=> Logged(c)
  BY <1>a, Zenon DEF Pending, Logged, WaitPC
<1>g. \A c \in Block : Pending(c)' <=> Logged(c)'
  BY <1>a, <1>d, Zenon DEF Pending, Logged, WaitPC, Recovering
<1>h. \A c \in Block : Logged(c)' <=> Logged(c) \/ c = b
  <2>1. CASE Logged(b)
    BY <1>d, <2>1, Zenon DEF Logged
  <2>2. CASE ~Logged(b)
    <3>1. Len(lh) \in Nat
      BY <1>a
    <3> QED
      BY SMTT(30), <1>i, <2>2, <3>1 DEF Logged
  <2> QED
    BY <2>1, <2>2, Zenon
<1>1. TypeOK'
  <2>1. cache' \in [Block -> Content \cup {NoBuf}] /\ wrote' \in [Proc -> SUBSET Block]
    BY <1>d, Zenon DEF TypeOK, Content
  <2>2. pins' \in [Block -> Nat]
    BY <1>d DEF TypeOK
  <2> QED
    BY <1>d, <1>e, <2>1, <2>2, Zenon DEF TypeOK
<1>2. /\ BootAlone' /\ UnbornAtBoot' /\ CommitFlag' /\ CommitAlone' /\ CallCount'
      /\ SleeperHasWaker' /\ Assertions'
  BY SMTT(30), <1>a, <1>b, <1>d, <1>e DEF TypeOK, BootAlone, RecPC, UnbornAtBoot, CommitFlag,
     CommitPC, CommitAlone, WaitPC, CallCount, SleeperHasWaker, Assertions
<1>3. HeadsFit'
  BY <1>a, <1>b, <1>d, <1>e DEF HeadsFit
<1>4. HeadsDistinct'
  BY <1>a, <1>b, <1>e DEF HeadsDistinct, Distinct, Entry, Logged
<1>5. TailInv'
  BY <1>a, <1>b, <1>d, <1>e DEF TypeOK, TailInv, LoopPC
<1>6. HeadsAgree'
  BY <1>a, <1>b, Zenon DEF HeadsAgree, WaitPC
<1>7. HeadEmpty' /\ LogEmpty'
  BY <1>a, <1>b, <1>d, <1>e DEF TypeOK, HeadEmpty, RecPC, LogEmpty
<1>8. PinnedWhileLogged'
  BY <1>d, <1>f, <1>g, <1>h DEF PinnedWhileLogged, TypeOK
<1>9. PinnedCached'
  BY <1>d, Zenon DEF PinnedCached, TypeOK
<1>10. CleanCached'
  <2>1. pins'[b] # 0
    BY SMTT(30), <1>d, <1>f DEF TypeOK, PinnedWhileLogged
  <2> QED
    BY <1>d, <2>1, Zenon DEF CleanCached, TypeOK
<1>11. LogCopied' /\ Installed'
  BY <1>a, <1>b, Zenon DEF LogCopied, WaitPC, Installed
<1>12. DurableLog' /\ DurableHome'
  BY <1>a, <1>b, <1>d, <1>e DEF TypeOK, DurableLog, Entry, DurableHome
<1> QED
  BY <1>1, <1>2, <1>3, <1>4, <1>5, <1>6, <1>7, <1>8, <1>9, <1>10, <1>11,
     <1>12

\* end_op, whether or not the caller is the last one out.
LEMMA Step_end_op ==
  ASSUME IInv, NEW p \in Proc, end_op(p)
  PROVE  IInv'
<1> USE DEF IInv, Control, Heads, Contents, end_op, At, Goto, WakeupThenGoto, diskVars, logVars
<1>a. /\ pc[p] = "op" /\ committing = 0 /\ outstanding >= 1 /\ ~Recovering /\ dhead = <<>>
      /\ \A q \in Proc : pc[q] \in WaitPC \cup {"op"}
      /\ outstanding \in Nat /\ lh \in Seq(Block) /\ pc \in [Proc -> PCs]
  BY CallFacts, Zenon DEF TypeOK
<1>b. /\ outstanding' = outstanding - 1
      /\ UNCHANGED <<diskVars, cache, pins, lh, tail, wrote, panicked>>
  BY <1>a
<1>c. /\ p \in InCall /\ InCall' = InCall \ {p}
  BY <1>a DEF InCall
<1>d. /\ pc' \in [Proc -> PCs]
      /\ pc'[p] \in {"idle", "finish", "write_log"}
      /\ pc'[p] = "finish" => lh = <<>>
      /\ pc'[p] = "write_log" => lh # <<>>
      /\ \A q \in Proc : q # p => pc'[q] = pc[q] \/ pc'[q] = "begin"
      /\ committing' = 1 <=> pc'[p] # "idle"
      /\ committing' \in {0, 1}
      /\ outstanding = 1 => pc'[p] # "idle"
      /\ outstanding # 1 => pc'[p] = "idle" /\ committing' = 0
      /\ outstanding # 1 => \A q \in Proc : q # p => pc'[q] # "asleep"
  BY <1>a DEF PCs
<1>e. outstanding = 1 => InCall = {p}
  <2>1. Cardinality(InCall) = 1 => \E x : InCall = {x}
    BY InCallFinite, FS_Singleton, Zenon
  <2> QED
    BY <1>c, <2>1, Zenon DEF CallCount
<1>f. \A q \in Proc : pc'[q] \in WaitPC \cup {"op", "finish", "write_log"}
  BY <1>a, <1>d, Zenon DEF WaitPC
<1>g. ~Recovering'
  BY <1>f, Zenon DEF Recovering, WaitPC
<1>h. \A c \in Block : (Pending(c) <=> Logged(c)) /\ (Pending(c)' <=> Logged(c))
  BY <1>a, <1>b, <1>f, <1>g, Zenon DEF Pending, Logged, WaitPC
<1>1. TypeOK'
  BY <1>a, <1>b, <1>d DEF TypeOK
<1>2. BootAlone' /\ UnbornAtBoot' /\ CommitFlag'
  BY <1>a, <1>b, <1>d, <1>f, Zenon DEF TypeOK, BootAlone, RecPC, UnbornAtBoot, WaitPC, CommitFlag,
     CommitPC
<1>3. CommitAlone'
  <2>1. \A q \in Proc : outstanding = 1 /\ q # p => pc[q] \in WaitPC
    BY <1>a, <1>e, Zenon DEF InCall
  <2>2. \A q \in Proc : outstanding = 1 /\ q # p => pc'[q] \in WaitPC
    BY <1>d, <2>1, Zenon DEF WaitPC
  <2> QED
    BY <1>a, <1>d, <2>2, Zenon DEF CommitAlone, CommitPC, WaitPC
<1>4. CallCount' /\ SleeperHasWaker' /\ Assertions'
  BY <1>a, <1>b, <1>c, <1>d, InCallFinite, FS_RemoveElement, Zenon DEF CallCount, SleeperHasWaker,
     Assertions
<1>5. HeadsFit' /\ HeadsDistinct'
  <2>1. lh' = lh /\ dhead' = dhead
    BY <1>b, <1>d, Zenon
  <2> QED
    BY <2>1, Zenon DEF HeadsFit, HeadsDistinct, Distinct, Entry
<1>6. TailInv'
  <2>1. \A q \in Proc : tail[q] = 0
    BY <1>a, Zenon DEF TailInv, LoopPC, WaitPC
  <2>2. lh # <<>> => 0 < Len(lh)
    BY <1>a
  <2> QED
    BY <1>b, <1>d, <1>f, <2>1, <2>2, Zenon DEF TailInv, LoopPC, WaitPC
<1>7. HeadsAgree' /\ HeadEmpty' /\ LogEmpty'
  BY SMTT(30), <1>b, <1>d, <1>f, <1>a DEF HeadsAgree, WaitPC, HeadEmpty, LogEmpty
<1>8. PinnedWhileLogged' /\ PinnedCached' /\ CleanCached'
  BY <1>b, <1>h, <1>a, <1>d, <1>f, Zenon DEF PinnedWhileLogged, TypeOK, PinnedCached, CleanCached
<1>9. LogCopied'
  <2>1. tail'[p] = 0
    BY SMTT(30), <1>a, <1>b DEF TailInv, LoopPC
  <2> QED
    BY <1>b, <1>d, <1>f, <2>1 DEF LogCopied, WaitPC, Entry
<1>10. Installed' /\ DurableLog' /\ DurableHome'
  BY <1>b, <1>f, <1>a, <1>d, Zenon DEF Installed, WaitPC, TypeOK, DurableLog, Entry, DurableHome
<1> QED
  BY <1>1, <1>2, <1>3, <1>4, <1>5, <1>6, <1>7, <1>8, <1>9, <1>10, Zenon

-----------------------------------------------------------------------------
(* commit().                                                               *)

\* commit(): copying one block to the log.
LEMMA Step_write_log ==
  ASSUME IInv, NEW p \in Proc, write_log(p)
  PROVE  IInv'
<1> USE DEF IInv, Control, Heads, Contents, write_log, At, Goto, diskVars, logVars
<1>a. /\ committing = 1 /\ outstanding = 0 /\ ~Recovering /\ InCall = {}
      /\ \A q \in Proc : q # p => pc[q] \in WaitPC
      /\ pc[p] \in {"install", "clear"} \/ dhead = <<>>
      /\ pc \in [Proc -> PCs] /\ tail \in [Proc -> Nat]
      /\ lh \in Seq(Block) /\ dhead \in Seq(Block) /\ nlog \in Nat
  BY CommitFacts, LogAssumption, Zenon DEF TypeOK, CommitPC
<1>b. /\ tail[p] + 1 \in Entry(lh) /\ lh[tail[p] + 1] \in Block /\ tail[p] \in Nat
      /\ Len(lh) \in Nat /\ tail[p] < Len(lh) /\ tail[p] + 1 \in LogBlock
  BY <1>a DEF TailInv, LoopPC, Entry, HeadsFit, LogBlock
<1>f. Len(lh) <= nlog - 1
  BY Zenon DEF HeadsFit
<1>c. /\ pc' \in [Proc -> PCs] /\ tail' \in [Proc -> Nat]
      /\ \A q \in Proc : q # p => pc'[q] = pc[q] /\ tail'[q] = tail[q]
      /\ \/ tail[p] + 1 = Len(lh) /\ pc'[p] = "write_head" /\ tail'[p] = 0
         \/ tail[p] + 1 < Len(lh) /\ pc'[p] = "write_log" /\ tail'[p] = tail[p] + 1
  <2>1. "write_head" \in PCs
    BY Zenon DEF PCs
  <2> QED
    BY <1>a, <1>b, <2>1, LoopStep, Zenon
<1>d. /\ BufData(lh[tail[p] + 1]) = cache[lh[tail[p] + 1]]
      /\ cache[lh[tail[p] + 1]] \in Data /\ cache' = cache
      /\ dlog' = [dlog EXCEPT ![tail[p] + 1] = cache[lh[tail[p] + 1]]]
      /\ cache[lh[tail[p] + 1]] \in Content
  <2>1. Pending(lh[tail[p] + 1])
    BY <1>a, <1>b, Zenon DEF Pending, Entry, WaitPC
  <2>2. cache[lh[tail[p] + 1]] \in Data
    BY <1>b, <2>1 DEF PinnedWhileLogged, PinnedCached
  <2>3. BufData(lh[tail[p] + 1]) = cache[lh[tail[p] + 1]]
    BY <2>2, LogAssumption, Zenon DEF BufData
  <2> QED
    BY <1>b, <2>2, <2>3, Zenon DEF TypeOK, Content
<1>e. \A c \in Block : (Pending(c) <=> Logged(c)) /\ (Pending(c)' <=> Logged(c))
  <2>1. ~Recovering'
    BY <1>a, <1>c, Zenon DEF Recovering, WaitPC
  <2> QED
    BY <1>a, <1>c, <2>1, Zenon DEF Pending, Logged, WaitPC
<1>1. TypeOK'
  <2>1. dlog' \in [LogBlock -> Content] /\ cache' \in [Block -> Content \cup {NoBuf}]
    BY <1>b, <1>d, Zenon DEF TypeOK
  <2> QED
    BY <1>c, <2>1, Zenon DEF TypeOK
<1>2. BootAlone' /\ UnbornAtBoot' /\ CommitFlag' /\ CommitAlone'
  BY <1>a, <1>c, Zenon DEF BootAlone, RecPC, WaitPC, UnbornAtBoot, CommitFlag, CommitPC,
     CommitAlone
<1>3. CallCount'
  <2>1. InCall' = {}
    BY <1>a, <1>c, Zenon DEF InCall, WaitPC
  <2> QED
    BY <1>a, <2>1, FS_EmptySet, Zenon DEF CallCount
<1>4. SleeperHasWaker' /\ Assertions'
  BY <1>a, <1>c, Zenon DEF SleeperHasWaker, WaitPC, Assertions
<1>5. HeadsFit' /\ HeadsDistinct' /\ TailInv'
  BY <1>a, <1>b, <1>c DEF HeadsFit, HeadsDistinct, Distinct, Entry, TailInv, LoopPC, WaitPC
<1>6. HeadsAgree' /\ HeadEmpty' /\ LogEmpty'
  BY <1>a, <1>c, Zenon DEF HeadsAgree, WaitPC, HeadEmpty, LogEmpty
<1>7. PinnedWhileLogged' /\ PinnedCached' /\ CleanCached'
  BY <1>e, <1>d, Zenon DEF PinnedWhileLogged, PinnedCached, CleanCached
<1>8. LogCopied'
  <2>1. /\ \A i \in Entry(lh) : i <= tail[p] => dlog[i] = cache[lh[i]]
        /\ dlog \in [LogBlock -> Content] /\ lh' = lh
    BY Zenon DEF LogCopied, TypeOK
  <2>2. dlog'[tail[p] + 1] = cache'[lh[tail[p] + 1]]
    BY <1>b, <1>d, Zenon DEF TypeOK
  <2> HIDE DEF IInv, Control, Heads, Contents, write_log
  <2>3. \A i \in LogBlock : i # tail[p] + 1 => dlog'[i] = dlog[i]
    BY <1>d, <2>1, Zenon
  <2>4. \A i \in Entry(lh) : i \in Nat /\ i \in LogBlock
    BY <1>a, <1>f DEF Entry, LogBlock
  <2>5. \A i \in Entry(lh) : i <= tail[p] + 1 => i <= tail[p] \/ i = tail[p] + 1
    BY <1>b, <2>4
  <2>6. \A i \in Entry(lh) : i <= tail[p] => i # tail[p] + 1
    BY <1>b, <2>4
  <2>7. \A i \in Entry(lh) : i <= tail[p] + 1 => dlog'[i] = cache'[lh[i]]
    BY <1>d, <2>1, <2>2, <2>3, <2>4, <2>5, <2>6, Zenon
  <2>8. \A q \in Proc : q # p => pc'[q] \in WaitPC
    BY <1>a, <1>c, Zenon
  <2>9. \/ pc'[p] = "write_head" /\ \A i \in Entry(lh) : i <= tail[p] + 1
        \/ pc'[p] = "write_log" /\ tail'[p] = tail[p] + 1
    BY <1>c DEF Entry
  <2> QED
    BY <2>1, <2>7, <2>8, <2>9, Zenon DEF LogCopied, WaitPC
<1>9. Installed'
  BY <1>a, <1>c, Zenon DEF Installed, WaitPC
<1>10. DurableLog'
  BY <1>a, <1>c DEF DurableLog, WaitPC, Entry
<1>11. DurableHome'
  BY <1>a, <1>c DEF DurableHome, WaitPC
<1> QED
  BY <1>1, <1>2, <1>3, <1>4, <1>5, <1>6, <1>7, <1>8, <1>9, <1>10, <1>11, Zenon

\* commit(): the header write, the commit point.
LEMMA Step_write_head ==
  ASSUME IInv, NEW p \in Proc, write_head(p)
  PROVE  IInv'
<1> USE DEF IInv, Control, Heads, Contents, write_head, At, Goto, diskVars, logVars
<1>a. /\ committing = 1 /\ outstanding = 0 /\ ~Recovering /\ InCall = {}
      /\ \A q \in Proc : q # p => pc[q] \in WaitPC
      /\ pc[p] \in {"install", "clear"} \/ dhead = <<>>
      /\ pc \in [Proc -> PCs] /\ tail \in [Proc -> Nat]
      /\ lh \in Seq(Block) /\ dhead \in Seq(Block) /\ nlog \in Nat
  BY CommitFacts, LogAssumption, Zenon DEF TypeOK, CommitPC
<1>c. /\ pc' \in [Proc -> PCs] /\ pc'[p] = "install" /\ tail[p] = 0
      /\ \A q \in Proc : q # p => pc'[q] = pc[q]
  BY <1>a, Zenon DEF PCs, TailInv, LoopPC
<1>h. Len(lh) \in Nat /\ Len(lh) > 0
  BY <1>a DEF TailInv, LoopPC
<1>e. \A c \in Block : (Pending(c) <=> Logged(c)) /\ (Pending(c)' <=> Logged(c))
  <2>1. ~Recovering'
    BY <1>a, <1>c, Zenon DEF Recovering, WaitPC
  <2>2. \A i \in Entry(lh) : i > 0
    BY DEF Entry
  <2> QED
    BY <1>a, <1>c, <2>1, <2>2, Zenon DEF Pending, Logged, WaitPC, Entry
<1>1. TypeOK'
  BY <1>a, <1>c, Zenon DEF TypeOK
<1>2. BootAlone' /\ UnbornAtBoot' /\ CommitFlag' /\ CommitAlone'
  BY <1>a, <1>c DEF BootAlone, RecPC, WaitPC, UnbornAtBoot, CommitFlag, CommitPC,
     CommitAlone
<1>3. CallCount'
  <2>1. InCall' = {}
    BY <1>a, <1>c, Zenon DEF InCall, WaitPC
  <2> QED
    BY <1>a, <2>1, FS_EmptySet, Zenon DEF CallCount
<1>4. SleeperHasWaker' /\ Assertions'
  BY <1>a, <1>c, Zenon DEF SleeperHasWaker, WaitPC, Assertions
<1>5. HeadsFit' /\ HeadsDistinct' /\ TailInv' /\ HeadsAgree' /\ HeadEmpty' /\ LogEmpty'
  BY <1>a, <1>c, <1>h DEF HeadsFit, HeadsDistinct, Distinct, Entry, TailInv, LoopPC, WaitPC,
     HeadsAgree, HeadEmpty, LogEmpty
<1>6. PinnedWhileLogged' /\ PinnedCached' /\ CleanCached' /\ LogCopied' /\ Installed'
  BY <1>e, <1>a, <1>c DEF PinnedWhileLogged, PinnedCached, CleanCached, LogCopied, WaitPC,
     Installed, Entry
<1>7. DurableLog'
  <2>1. \A i \in Entry(lh) : lh[i] \in Block /\ Pending(lh[i])
    BY <1>a DEF Pending, Entry, WaitPC
  <2>2. \A i \in Entry(lh) : cache[lh[i]] \in Data
    <3>1. /\ \A c \in Block : Pending(c) => pins[c] = 1
          /\ \A c \in Block : pins[c] # 0 => cache[c] \in Data
      BY Zenon DEF PinnedWhileLogged, PinnedCached
    <3> HIDE DEF IInv, Control, Heads, Contents, write_head
    <3> QED
      BY <2>1, <3>1
  <2> QED
    BY <2>2, Zenon DEF DurableLog, LogCopied
<1>8. DurableHome'
  <2>1. \A c \in Block : disk[c] \in Data
    BY <1>a DEF DurableHome, Entry
  <2> QED
    BY <2>1, Zenon DEF DurableHome
<1> QED
  BY <1>1, <1>2, <1>3, <1>4, <1>5, <1>6, <1>7, <1>8, Zenon

\* commit(): writing one block home and unpinning it.
LEMMA Step_install_trans ==
  ASSUME IInv, NEW p \in Proc, install_trans(p)
  PROVE  IInv'
<1> USE DEF IInv, Control, Heads, Contents, install_trans, At, Goto, bunpin, diskVars, logVars
<1>a. /\ committing = 1 /\ outstanding = 0 /\ ~Recovering /\ InCall = {}
      /\ \A q \in Proc : q # p => pc[q] \in WaitPC
      /\ pc[p] \in {"install", "clear"} \/ dhead = <<>>
      /\ pc \in [Proc -> PCs] /\ tail \in [Proc -> Nat]
      /\ lh \in Seq(Block) /\ dhead \in Seq(Block) /\ nlog \in Nat
  BY CommitFacts, LogAssumption, Zenon DEF TypeOK, CommitPC
<1>b. /\ tail[p] + 1 \in Entry(lh) /\ lh[tail[p] + 1] \in Block /\ tail[p] \in Nat
      /\ Len(lh) \in Nat /\ tail[p] < Len(lh) /\ tail[p] + 1 \in LogBlock
  BY <1>a DEF TailInv, LoopPC, Entry, HeadsFit, LogBlock
<1>c. /\ pc' \in [Proc -> PCs] /\ tail' \in [Proc -> Nat]
      /\ \A q \in Proc : q # p => pc'[q] = pc[q] /\ tail'[q] = tail[q]
      /\ \/ tail[p] + 1 = Len(lh) /\ pc'[p] = "clear" /\ tail'[p] = 0
         \/ tail[p] + 1 < Len(lh) /\ pc'[p] = "install" /\ tail'[p] = tail[p] + 1
  <2>1. "clear" \in PCs
    BY Zenon DEF PCs
  <2> QED
    BY <1>a, <1>b, <2>1, LoopStep, Zenon
<1>d. LET k == tail[p] + 1 IN
        /\ dhead = lh /\ dlog[k] \in Data /\ dlog[k] \in Content
        /\ disk' = [disk EXCEPT ![lh[k]] = dlog[k]]
        /\ cache' = [cache EXCEPT ![lh[k]] = dlog[k]]
        /\ \A i \in Entry(lh) : lh[i] = lh[k] => i = k
  BY <1>b, Zenon DEF InstallBlock, HeadsAgree, DurableLog, HeadsDistinct, Distinct, Content
<1>e. \A c \in Block : c # lh[tail[p] + 1] => disk'[c] = disk[c] /\ cache'[c] = cache[c]
  BY <1>d, Zenon DEF TypeOK
<1>f. /\ disk'[lh[tail[p] + 1]] = dlog[tail[p] + 1]
      /\ cache'[lh[tail[p] + 1]] = dlog[tail[p] + 1]
  BY <1>b, <1>d, Zenon DEF TypeOK
<1>g. \A i \in Entry(lh) : lh[i] \in Block
  BY <1>a DEF Entry
<1>i. \A c \in Block : Pending(c) <=> \E i \in Entry(lh) : lh[i] = c /\ i > tail[p]
  BY <1>a, <1>b, Zenon DEF Pending, WaitPC, Entry
<1>j. \A c \in Block : Pending(c)' <=> \E i \in Entry(lh) : lh[i] = c /\ i > tail[p] + 1
  <2>1. ~Recovering'
    BY <1>a, <1>c, Zenon DEF Recovering, WaitPC
  <2>2. CASE tail[p] + 1 = Len(lh)
    BY <1>a, <1>b, <1>c, <2>1, <2>2 DEF Pending, WaitPC, Entry
  <2>3. CASE tail[p] + 1 < Len(lh)
    <3>1. pc'[p] = "install" /\ tail'[p] = tail[p] + 1 /\ lh' = lh
      BY <1>b, <1>c, <2>3
    <3>2. \A q \in Proc : (pc'[q] = "install" <=> q = p) /\ pc'[q] # "clear"
      BY <1>a, <1>c, <3>1, Zenon DEF WaitPC
    <3> QED
      BY <2>1, <3>1, <3>2, Zenon DEF Pending, Entry
  <2> QED
    BY <1>c, <2>2, <2>3, Zenon
<1>h. /\ pins[lh[tail[p] + 1]] = 1 /\ pins'[lh[tail[p] + 1]] = 0
      /\ pins' = [pins EXCEPT ![lh[tail[p] + 1]] = 0]
      /\ \A c \in Block : c # lh[tail[p] + 1] => pins'[c] = pins[c]
  <2>1. Pending(lh[tail[p] + 1])
    BY <1>b, <1>i
  <2>2. pins[lh[tail[p] + 1]] = 1
    BY <1>b, <2>1, Zenon DEF PinnedWhileLogged
  <2> QED
    BY <1>b, <2>2 DEF TypeOK
<1>1. TypeOK'
  <2>1. disk' \in [Block -> Content] /\ cache' \in [Block -> Content \cup {NoBuf}]
    BY <1>b, <1>d, Zenon DEF TypeOK
  <2>2. pins' \in [Block -> Nat]
    BY <1>b, <1>h DEF TypeOK
  <2> QED
    BY <1>c, <2>1, <2>2, Zenon DEF TypeOK
<1>2. BootAlone' /\ UnbornAtBoot' /\ CommitFlag' /\ CommitAlone'
  BY <1>a, <1>c, Zenon DEF BootAlone, RecPC, WaitPC, UnbornAtBoot, CommitFlag, CommitPC,
     CommitAlone
<1>3. CallCount'
  <2>1. InCall' = {}
    BY <1>a, <1>c, Zenon DEF InCall, WaitPC
  <2> QED
    BY <1>a, <2>1, FS_EmptySet, Zenon DEF CallCount
<1>4. SleeperHasWaker' /\ Assertions'
  BY <1>a, <1>c, Zenon DEF SleeperHasWaker, WaitPC, Assertions
<1>5. HeadsFit' /\ HeadsDistinct' /\ TailInv'
  BY <1>a, <1>b, <1>c DEF HeadsFit, HeadsDistinct, Distinct, Entry, TailInv, LoopPC, WaitPC
<1>6. HeadsAgree' /\ HeadEmpty' /\ LogEmpty'
  BY <1>a, <1>c, <1>d, Zenon DEF HeadsAgree, WaitPC, HeadEmpty, LogEmpty
<1>7. PinnedWhileLogged'
  <2>1. \A c \in Block : Pending(c)' <=> Pending(c) /\ c # lh[tail[p] + 1]
    BY <1>i, <1>j, <1>b, <1>d DEF Entry
  <2> QED
    BY SMTT(30), <1>h, <2>1 DEF PinnedWhileLogged, TypeOK
<1>8. PinnedCached' /\ CleanCached'
  BY SMTT(30), <1>d, <1>e, <1>f, <1>h DEF PinnedCached, TypeOK, CleanCached
<1>9. LogCopied'
  <2>a. /\ \A i \in Entry(lh) : i > tail[p] => dlog[i] = cache[lh[i]]
        /\ lh' = lh /\ dlog' = dlog
    BY Zenon DEF LogCopied
  <2> HIDE DEF IInv, Control, Heads, Contents, install_trans
  <2>1. \A i \in Entry(lh) : i > tail[p] + 1 => dlog[i] = cache'[lh[i]]
    <3>1. \A i \in Entry(lh) : i > tail[p] + 1 => i > tail[p] /\ i # tail[p] + 1
      BY <1>b DEF Entry
    <3> QED
      BY <1>d, <1>e, <1>g, <2>a, <3>1, Zenon
  <2>2. \A q \in Proc : q # p => pc'[q] \in WaitPC
    BY <1>a, <1>c, Zenon
  <2>3. \/ pc'[p] = "clear"
        \/ pc'[p] = "install" /\ tail'[p] = tail[p] + 1
    BY <1>c, Zenon
  <2> QED
    BY <2>a, <2>1, <2>2, <2>3 DEF LogCopied, WaitPC, Entry
<1>10. Installed'
  <2>a. /\ \A i \in Entry(lh) : i <= tail[p] => disk[lh[i]] = dlog[i]
        /\ lh' = lh /\ dlog' = dlog
    BY Zenon DEF Installed
  <2> HIDE DEF IInv, Control, Heads, Contents, install_trans
  <2>1. \A i \in Entry(lh) : i <= tail[p] => disk'[lh[i]] = dlog[i]
    <3>1. \A i \in Entry(lh) : i <= tail[p] => i # tail[p] + 1
      BY <1>b DEF Entry
    <3> QED
      BY <1>d, <1>e, <1>g, <2>a, <3>1, Zenon
  <2>2. \A i \in Entry(lh) : i <= tail[p] + 1 => disk'[lh[i]] = dlog[i]
    BY <1>b, <1>f, <2>1 DEF Entry
  <2>3. \A q \in Proc : q # p => pc'[q] \in WaitPC \cup {"unborn"}
    BY <1>a, <1>c, Zenon
  <2>4. \/ tail[p] + 1 = Len(lh) /\ pc'[p] \in {"clear", "rclear"}
        \/ tail'[p] = tail[p] + 1 /\ pc'[p] \in {"install", "rinstall"}
    BY <1>c, Zenon
  <2> QED
    BY <1>b, <2>a, <2>2, <2>3, <2>4 DEF Installed, WaitPC, Entry
<1>11. DurableLog' /\ DurableHome'
  BY <1>b, <1>d, <1>e, Zenon DEF DurableLog, Entry, DurableHome
<1> QED
  BY <1>1, <1>2, <1>3, <1>4, <1>5, <1>6, <1>7, <1>8, <1>9, <1>10, <1>11, Zenon

\* commit(): erasing the header.
LEMMA Step_clear ==
  ASSUME IInv, NEW p \in Proc, clear(p)
  PROVE  IInv'
<1> USE DEF IInv, Control, Heads, Contents, clear, At, Goto, diskVars, logVars
<1>a. /\ committing = 1 /\ outstanding = 0 /\ ~Recovering /\ InCall = {}
      /\ \A q \in Proc : q # p => pc[q] \in WaitPC
      /\ pc[p] \in {"install", "clear"} \/ dhead = <<>>
      /\ pc \in [Proc -> PCs] /\ tail \in [Proc -> Nat]
      /\ lh \in Seq(Block) /\ dhead \in Seq(Block) /\ nlog \in Nat
  BY CommitFacts, LogAssumption, Zenon DEF TypeOK, CommitPC
<1>c. /\ pc' \in [Proc -> PCs] /\ pc'[p] = "finish" /\ tail[p] = 0
      /\ \A q \in Proc : q # p => pc'[q] = pc[q]
  BY <1>a, Zenon DEF PCs, TailInv, LoopPC
<1>1. TypeOK'
  BY <1>a, <1>c DEF TypeOK
<1>2. BootAlone' /\ UnbornAtBoot' /\ CommitFlag' /\ CommitAlone'
  BY <1>a, <1>c, Zenon DEF BootAlone, RecPC, WaitPC, UnbornAtBoot, CommitFlag, CommitPC,
     CommitAlone
<1>3. CallCount'
  <2>1. InCall' = {}
    BY <1>a, <1>c, Zenon DEF InCall, WaitPC
  <2> QED
    BY <1>a, <2>1, FS_EmptySet, Zenon DEF CallCount
<1>4. SleeperHasWaker' /\ Assertions'
  BY <1>a, <1>c, Zenon DEF SleeperHasWaker, WaitPC, Assertions
<1>5. HeadsFit' /\ HeadsDistinct' /\ TailInv' /\ HeadsAgree' /\ HeadEmpty' /\ LogEmpty'
  BY <1>a, <1>c, LogAssumption DEF HeadsFit, HeadsDistinct, Distinct, Entry, TailInv,
     LoopPC, WaitPC, HeadsAgree, HeadEmpty, LogEmpty
<1>6. PinnedWhileLogged'
  <2>1. \A c \in Block : ~Pending(c) /\ ~Pending(c)'
    BY SMTT(30) DEF Pending
  <2> QED
    BY <2>1, Zenon DEF PinnedWhileLogged
<1>7. PinnedCached' /\ CleanCached' /\ LogCopied' /\ Installed' /\ DurableLog'
  <2>1. PinnedCached' /\ CleanCached' /\ LogCopied' /\ Installed'
    BY <1>a, <1>c, Zenon DEF PinnedCached, CleanCached, LogCopied, Installed, WaitPC
  <2>2. DurableLog'
    BY DEF DurableLog, Entry
  <2> QED
    BY <2>1, <2>2, Zenon
<1>8. DurableHome'
  <2>1. dhead = lh /\ \A i \in Entry(dhead) : dlog[i] \in Data /\ disk[dhead[i]] = dlog[i]
    BY Zenon DEF HeadsAgree, DurableLog, Installed
  <2>2. \A c \in Block : disk[c] \in Data
    BY <2>1, Zenon DEF DurableHome
  <2> QED
    BY <2>2, Zenon DEF DurableHome
<1> QED
  BY <1>1, <1>2, <1>3, <1>4, <1>5, <1>6, <1>7, <1>8, Zenon

\* The end of end_op after a commit.
LEMMA Step_finish ==
  ASSUME IInv, NEW p \in Proc, finish(p)
  PROVE  IInv'
<1> USE DEF IInv, Control, Heads, Contents, finish, At, WakeupThenGoto, diskVars, logVars
<1>a. /\ committing = 1 /\ outstanding = 0 /\ ~Recovering /\ InCall = {}
      /\ \A q \in Proc : q # p => pc[q] \in WaitPC
      /\ pc[p] \in {"install", "clear"} \/ dhead = <<>>
      /\ pc \in [Proc -> PCs] /\ tail \in [Proc -> Nat]
      /\ lh \in Seq(Block) /\ dhead \in Seq(Block) /\ nlog \in Nat
  BY CommitFacts, LogAssumption, Zenon DEF TypeOK, CommitPC
<1>c. /\ pc' \in [Proc -> PCs] /\ lh = <<>>
      /\ \A q \in Proc : pc'[q] \in WaitPC /\ pc'[q] # "asleep"
  BY <1>a, Zenon DEF PCs, HeadsAgree, WaitPC
<1>1. TypeOK'
  BY <1>c, Zenon DEF TypeOK
<1>2. BootAlone' /\ UnbornAtBoot' /\ CommitFlag' /\ CommitAlone'
  BY <1>a, <1>c DEF BootAlone, RecPC, WaitPC, UnbornAtBoot, CommitFlag, CommitPC,
     CommitAlone
<1>3. CallCount'
  <2>1. InCall' = {}
    BY <1>a, <1>c, Zenon DEF InCall, WaitPC
  <2> QED
    BY <1>a, <2>1, FS_EmptySet, Zenon DEF CallCount
<1>4. SleeperHasWaker' /\ Assertions'
  BY <1>c, Zenon DEF SleeperHasWaker, Assertions
<1>5. HeadsFit' /\ HeadsDistinct' /\ TailInv' /\ HeadsAgree' /\ HeadEmpty' /\ LogEmpty'
  BY <1>a, <1>c DEF HeadsFit, HeadsDistinct, Distinct, Entry, TailInv, LoopPC, WaitPC,
     HeadsAgree, HeadEmpty, LogEmpty
<1>6. PinnedWhileLogged'
  <2>1. \A c \in Block : ~Pending(c) /\ ~Pending(c)'
    BY SMTT(30), <1>c DEF Pending
  <2> QED
    BY <2>1, Zenon DEF PinnedWhileLogged
<1>7. PinnedCached' /\ CleanCached' /\ LogCopied' /\ Installed' /\ DurableLog' /\ DurableHome'
  BY <1>c, Zenon DEF PinnedCached, CleanCached, LogCopied, WaitPC, Installed, DurableLog, Entry,
     DurableHome
<1> QED
  BY <1>1, <1>2, <1>3, <1>4, <1>5, <1>6, <1>7, Zenon

=============================================================================
