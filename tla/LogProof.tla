------------------------------ MODULE LogProof ------------------------------
(***************************************************************************)
(* Recovery, the buffer cache and power failures preserve the invariant of *)
(* Log, so that it is an invariant, and the safety properties follow.  The *)
(* log implements AtomicDisk: each step of Log is, under the mapping of the*)
(* instance AD, a step of AtomicDisk or leaves its variables alone.  At the*)
(* end: what begin_op() reserves is enough, so that log_write() and end_op()*)
(* never panic.                                                            *)
(***************************************************************************)
EXTENDS LogInvariant

\* Recovery: reading the header.
LEMMA Step_read_head ==
  ASSUME IInv, NEW p \in Proc, read_head(p)
  PROVE  IInv'
<1> USE DEF IInv, Control, Heads, Contents, read_head, At, Goto, diskVars, logVars
<1>a. /\ committing = 0 /\ outstanding = 0 /\ Recovering /\ InCall = {}
      /\ \A q \in Proc : q # p => pc[q] = "unborn"
      /\ \A c \in Block : pins[c] = 0
      /\ pc \in [Proc -> PCs] /\ tail \in [Proc -> Nat]
      /\ lh \in Seq(Block) /\ dhead \in Seq(Block) /\ nlog \in Nat
  BY RecoverFacts, LogAssumption, Zenon DEF TypeOK, RecPC
<1>c. /\ pc' \in [Proc -> PCs] /\ lh' = dhead
      /\ \A q \in Proc : q # p => pc'[q] = pc[q]
      /\ \/ pc'[p] = "rclear" /\ dhead = <<>>
         \/ pc'[p] = "rinstall" /\ dhead # <<>>
  BY <1>a, Zenon DEF PCs
<1>d. tail[p] = 0 /\ tail' = tail /\ (dhead # <<>> => Len(dhead) > 0)
  BY <1>a DEF TailInv, LoopPC
<1>1. TypeOK'
  BY <1>a, <1>c, Zenon DEF TypeOK
<1>2. BootAlone' /\ UnbornAtBoot' /\ CommitFlag' /\ CommitAlone'
  BY <1>a, <1>c, Zenon DEF BootAlone, RecPC, UnbornAtBoot, CommitFlag, CommitPC, CommitAlone
<1>3. CallCount'
  <2>1. InCall' = {}
    BY <1>a, <1>c, Zenon DEF InCall
  <2> QED
    BY <1>a, <2>1, FS_EmptySet, Zenon DEF CallCount
<1>4. SleeperHasWaker' /\ Assertions'
  BY <1>a, <1>c, Zenon DEF SleeperHasWaker, Assertions
<1>5. HeadsFit' /\ HeadsDistinct' /\ TailInv' /\ HeadsAgree' /\ HeadEmpty' /\ LogEmpty'
  BY <1>a, <1>c, <1>d DEF HeadsFit, HeadsDistinct, TailInv, LoopPC, HeadsAgree, HeadEmpty,
     RecPC, LogEmpty, Recovering
<1>6. PinnedWhileLogged'
  <2>1. \A c \in Block : ~Pending(c)'
    BY <1>c, Zenon DEF Pending, Recovering
  <2> QED
    BY <1>a, <2>1, Zenon DEF PinnedWhileLogged
<1>7. PinnedCached' /\ CleanCached' /\ LogCopied'
  BY <1>a, <1>c, Zenon DEF PinnedCached, CleanCached, LogCopied
<1>8. Installed'
  <2>1. pc'[p] = "rclear" => Entry(lh') = {}
    BY <1>c DEF Entry
  <2>2. \A i \in Entry(lh') : ~(i <= 0)
    BY DEF Entry
  <2> QED
    BY <1>a, <1>c, <1>d, <2>1, <2>2, Zenon DEF Installed
<1>9. DurableLog' /\ DurableHome'
  BY Zenon DEF DurableLog, Entry, DurableHome
<1> QED
  BY <1>1, <1>2, <1>3, <1>4, <1>5, <1>6, <1>7, <1>8, <1>9, Zenon

\* Recovery: writing one block home.
LEMMA Step_install_trans_recovering ==
  ASSUME IInv, NEW p \in Proc, install_trans_recovering(p)
  PROVE  IInv'
<1> USE DEF IInv, Control, Heads, Contents, install_trans_recovering, At, Goto, diskVars, logVars
<1>a. /\ committing = 0 /\ outstanding = 0 /\ Recovering /\ InCall = {}
      /\ \A q \in Proc : q # p => pc[q] = "unborn"
      /\ \A c \in Block : pins[c] = 0
      /\ pc \in [Proc -> PCs] /\ tail \in [Proc -> Nat]
      /\ lh \in Seq(Block) /\ dhead \in Seq(Block) /\ nlog \in Nat
  BY RecoverFacts, LogAssumption, Zenon DEF TypeOK, RecPC
<1>b. /\ tail[p] + 1 \in Entry(lh) /\ lh[tail[p] + 1] \in Block /\ tail[p] \in Nat
      /\ Len(lh) \in Nat /\ tail[p] < Len(lh) /\ tail[p] + 1 \in LogBlock
  BY <1>a DEF TailInv, LoopPC, Entry, HeadsFit, LogBlock
<1>c. /\ pc' \in [Proc -> PCs] /\ tail' \in [Proc -> Nat]
      /\ \A q \in Proc : q # p => pc'[q] = pc[q] /\ tail'[q] = tail[q]
      /\ \/ tail[p] + 1 = Len(lh) /\ pc'[p] = "rclear" /\ tail'[p] = 0
         \/ tail[p] + 1 < Len(lh) /\ pc'[p] = "rinstall" /\ tail'[p] = tail[p] + 1
  <2>1. "rclear" \in PCs
    BY Zenon DEF PCs
  <2> QED
    BY <1>a, <1>b, <2>1, LoopStep, Zenon
<1>d. LET k == tail[p] + 1 IN
        /\ dhead = lh /\ dlog[k] \in Data /\ dlog[k] \in Content
        /\ disk' = [disk EXCEPT ![lh[k]] = dlog[k]]
        /\ cache' = [cache EXCEPT ![lh[k]] = dlog[k]]
        /\ \A i \in Entry(lh) : lh[i] = lh[k] => i = k
  BY <1>b, Zenon DEF InstallBlock, HeadsAgree, DurableLog, HeadsDistinct, Distinct, Content
<1>e. \A c \in Block : c # lh[tail[p] + 1] => disk'[c] = disk[c] /\ cache'[c] = cache[c]
  BY <1>d, Zenon DEF TypeOK
<1>f. /\ disk'[lh[tail[p] + 1]] = dlog[tail[p] + 1]
      /\ cache'[lh[tail[p] + 1]] = dlog[tail[p] + 1]
  BY <1>b, <1>d, Zenon DEF TypeOK
<1>g. \A i \in Entry(lh) : lh[i] \in Block
  BY <1>a DEF Entry
<1>1. TypeOK'
  <2>1. disk' \in [Block -> Content] /\ cache' \in [Block -> Content \cup {NoBuf}]
    BY <1>b, <1>d, Zenon DEF TypeOK
  <2> QED
    BY <1>c, <2>1, Zenon DEF TypeOK
<1>2. BootAlone' /\ UnbornAtBoot' /\ CommitFlag' /\ CommitAlone'
  BY <1>a, <1>c, Zenon DEF BootAlone, RecPC, UnbornAtBoot, CommitFlag, CommitPC, CommitAlone
<1>3. CallCount'
  <2>1. InCall' = {}
    BY <1>a, <1>c, Zenon DEF InCall
  <2> QED
    BY <1>a, <2>1, FS_EmptySet, Zenon DEF CallCount
<1>4. SleeperHasWaker' /\ Assertions'
  BY <1>a, <1>c, Zenon DEF SleeperHasWaker, Assertions
<1>5. HeadsFit' /\ HeadsDistinct' /\ TailInv' /\ HeadsAgree' /\ HeadEmpty' /\ LogEmpty'
  BY SMTT(30), <1>a, <1>b, <1>c, <1>d
     DEF HeadsFit, HeadsDistinct, Distinct, Entry, TailInv, LoopPC,
     HeadsAgree, HeadEmpty, RecPC, LogEmpty, Recovering
<1>6. PinnedWhileLogged'
  <2>1. \A c \in Block : ~Pending(c)'
    BY <1>c, Zenon DEF Pending, Recovering
  <2> QED
    BY <1>a, <2>1, Zenon DEF PinnedWhileLogged
<1>7. PinnedCached' /\ CleanCached' /\ LogCopied'
  BY <1>a, <1>e, <1>f, <1>c, ZenonT(60) DEF PinnedCached, CleanCached, TypeOK, LogCopied
<1>8. Installed'
  <2>1. \A i \in Entry(lh) : i <= tail[p] => disk'[lh[i]] = dlog[i]
    BY <1>b, <1>d, <1>e, <1>g DEF Installed
  <2>2. \A i \in Entry(lh) : i <= tail[p] + 1 => disk'[lh[i]] = dlog[i]
    BY <1>b, <1>f, <2>1 DEF Entry
  <2>3. \A q \in Proc : q # p => pc'[q] \in WaitPC \cup {"unborn"}
    BY <1>a, <1>c, Zenon
  <2>4. lh' = lh /\ dlog' = dlog
    BY Zenon
  <2>5. \/ tail[p] + 1 = Len(lh) /\ pc'[p] \in {"clear", "rclear"}
        \/ tail'[p] = tail[p] + 1 /\ pc'[p] \in {"install", "rinstall"}
    BY <1>c, Zenon
  <2> QED
    BY <2>2, <2>3, <2>4, <2>5 DEF Installed, WaitPC, Entry
<1>9. DurableLog' /\ DurableHome'
  BY <1>b, <1>d, <1>e, Zenon DEF DurableLog, Entry, DurableHome
<1> QED
  BY <1>1, <1>2, <1>3, <1>4, <1>5, <1>6, <1>7, <1>8, <1>9, Zenon

\* Recovery: erasing the header and letting processes run.
LEMMA Step_recover_clear ==
  ASSUME IInv, NEW p \in Proc, recover_clear(p)
  PROVE  IInv'
<1> USE DEF IInv, Control, Heads, Contents, recover_clear, At, diskVars, logVars
<1>a. /\ committing = 0 /\ outstanding = 0 /\ Recovering /\ InCall = {}
      /\ \A q \in Proc : q # p => pc[q] = "unborn"
      /\ \A c \in Block : pins[c] = 0
      /\ pc \in [Proc -> PCs] /\ tail \in [Proc -> Nat]
      /\ lh \in Seq(Block) /\ dhead \in Seq(Block) /\ nlog \in Nat
  BY RecoverFacts, LogAssumption, Zenon DEF TypeOK, RecPC
<1>c. pc' \in [Proc -> PCs] /\ lh' = <<>> /\ dhead' = <<>> /\ \A q \in Proc : pc'[q] = "idle"
  BY Zenon DEF PCs
<1>1. TypeOK'
  BY <1>a, <1>c DEF TypeOK
<1>2. BootAlone' /\ UnbornAtBoot' /\ CommitFlag' /\ CommitAlone'
  BY <1>a, <1>c, Zenon DEF BootAlone, RecPC, UnbornAtBoot, CommitFlag, CommitPC, CommitAlone
<1>3. CallCount'
  <2>1. InCall' = {}
    BY <1>a, <1>c, Zenon DEF InCall
  <2> QED
    BY <1>a, <2>1, FS_EmptySet, Zenon DEF CallCount
<1>4. SleeperHasWaker' /\ Assertions'
  BY <1>a, <1>c, Zenon DEF SleeperHasWaker, Assertions
<1>5. HeadsFit' /\ HeadsDistinct' /\ TailInv' /\ HeadsAgree' /\ HeadEmpty' /\ LogEmpty'
  BY <1>a, <1>c, LogAssumption DEF HeadsFit, HeadsDistinct, Distinct, Entry, TailInv,
     LoopPC, HeadsAgree, HeadEmpty, LogEmpty
<1>6. PinnedWhileLogged'
  <2>1. \A c \in Block : ~Pending(c)'
    BY <1>c DEF Pending
  <2> QED
    BY <1>a, <2>1, Zenon DEF PinnedWhileLogged
<1>7. PinnedCached' /\ CleanCached'
  BY <1>a, Zenon DEF PinnedCached, CleanCached
<1>8. LogCopied' /\ Installed' /\ DurableLog'
  BY <1>c DEF LogCopied, Entry, Installed, DurableLog
<1>9. DurableHome'
  <2>1. dhead = lh /\ \A i \in Entry(dhead) : dlog[i] \in Data /\ disk[dhead[i]] = dlog[i]
    BY Zenon DEF HeadsAgree, DurableLog, Installed
  <2>2. \A c \in Block : disk[c] \in Data
    BY <2>1, Zenon DEF DurableHome
  <2> QED
    BY <2>2, Zenon DEF DurableHome
<1> QED
  BY <1>1, <1>2, <1>3, <1>4, <1>5, <1>6, <1>7, <1>8, <1>9, Zenon

\* A read of an uncached block.
LEMMA Step_bread ==
  ASSUME IInv, NEW b \in Block, bread(b)
  PROVE  IInv'
<1> USE DEF IInv, Control, Heads, Contents, bread, diskVars, logVars
<1>a. pins[b] = 0
  BY LogAssumption, Zenon DEF PinnedWhileLogged, PinnedCached
<1>b. disk[b] \in Content /\ cache' = [cache EXCEPT ![b] = disk[b]]
  BY Zenon DEF TypeOK
<1>e. \A c \in Block : Pending(c)' <=> Pending(c)
  <2>1. Recovering' <=> Recovering
    BY Zenon DEF Recovering
  <2> QED
    BY <2>1, Zenon DEF Pending
<1>1. TypeOK'
  BY <1>b, Zenon DEF TypeOK
<1>2. BootAlone' /\ UnbornAtBoot' /\ CommitFlag' /\ CommitAlone'
  BY Zenon DEF BootAlone, UnbornAtBoot, CommitFlag, CommitAlone
<1>3. CallCount'
  <2>1. InCall' = InCall
    BY Zenon DEF InCall
  <2> QED
    BY <2>1, Zenon DEF CallCount
<1>4. SleeperHasWaker' /\ Assertions'
  BY Zenon DEF SleeperHasWaker, Assertions
<1>5. HeadsFit' /\ HeadsDistinct' /\ TailInv' /\ HeadsAgree' /\ HeadEmpty' /\ LogEmpty'
  BY <1>b DEF HeadsFit, TypeOK, HeadsDistinct, Distinct, Entry, TailInv, HeadsAgree,
     HeadEmpty, LogEmpty, Recovering
<1>6. PinnedWhileLogged' /\ PinnedCached' /\ CleanCached'
  BY SMTT(30), <1>e, <1>a, <1>b DEF PinnedWhileLogged, PinnedCached, TypeOK, CleanCached
<1>7. LogCopied'
  <2>1. \A q \in Proc, i \in Entry(lh) :
          \/ pc[q] \in {"write_log", "write_head"}
          \/ pc[q] = "install" /\ i > tail[q]
          => lh[i] \in Block /\ Pending(lh[i])
    <3> SUFFICES ASSUME NEW q \in Proc, NEW i \in Entry(lh),
                        \/ pc[q] \in {"write_log", "write_head"}
                        \/ pc[q] = "install" /\ i > tail[q]
                 PROVE  lh[i] \in Block /\ Pending(lh[i])
      BY Zenon
    <3>1. ~Recovering /\ \A r \in Proc : r # q => pc[r] \in WaitPC
      BY CommitFacts, Zenon DEF CommitPC
    <3>2. lh[i] \in Block
      BY DEF TypeOK, Entry
    <3> QED
      BY <3>1, <3>2, Zenon DEF Pending, Entry, WaitPC
  <2>2. \A q \in Proc, i \in Entry(lh) :
          \/ pc[q] \in {"write_log", "write_head"}
          \/ pc[q] = "install" /\ i > tail[q]
          => lh[i] # b
    BY <1>a, <2>1 DEF PinnedWhileLogged
  <2>3. \A c \in Block : c # b => cache'[c] = cache[c]
    BY <1>b, Zenon DEF TypeOK
  <2>4. lh' = lh /\ pc' = pc /\ tail' = tail /\ dlog' = dlog
    BY Zenon
  <2> QED
    BY <2>1, <2>2, <2>3, <2>4 DEF LogCopied
<1>8. Installed' /\ DurableLog' /\ DurableHome'
  BY Zenon DEF Installed, Entry, DurableLog, DurableHome
<1> QED
  BY <1>1, <1>2, <1>3, <1>4, <1>5, <1>6, <1>7, <1>8, Zenon

\* bget recycling an unpinned buffer.
LEMMA Step_bget_recycle ==
  ASSUME IInv, NEW b \in Block, bget_recycle(b)
  PROVE  IInv'
<1> USE DEF IInv, Control, Heads, Contents, bget_recycle, diskVars, logVars
<1>a. pins[b] = 0
  BY Zenon
<1>b. cache' = [cache EXCEPT ![b] = NoBuf]
  BY Zenon
<1>e. \A c \in Block : Pending(c)' <=> Pending(c)
  <2>1. Recovering' <=> Recovering
    BY Zenon DEF Recovering
  <2> QED
    BY <2>1, Zenon DEF Pending
<1>1. TypeOK'
  BY <1>b, Zenon DEF TypeOK
<1>2. BootAlone' /\ UnbornAtBoot' /\ CommitFlag' /\ CommitAlone'
  BY Zenon DEF BootAlone, UnbornAtBoot, CommitFlag, CommitAlone
<1>3. CallCount'
  <2>1. InCall' = InCall
    BY Zenon DEF InCall
  <2> QED
    BY <2>1, Zenon DEF CallCount
<1>4. SleeperHasWaker' /\ Assertions'
  BY Zenon DEF SleeperHasWaker, Assertions
<1>5. HeadsFit' /\ HeadsDistinct' /\ TailInv' /\ HeadsAgree' /\ HeadEmpty' /\ LogEmpty'
  BY <1>b DEF HeadsFit, TypeOK, HeadsDistinct, Distinct, Entry, TailInv, HeadsAgree,
     HeadEmpty, LogEmpty, Recovering
<1>6. PinnedWhileLogged' /\ PinnedCached' /\ CleanCached'
  BY <1>e, <1>a, <1>b, Zenon DEF PinnedWhileLogged, PinnedCached, TypeOK, CleanCached
<1>7. LogCopied'
  <2>1. \A q \in Proc, i \in Entry(lh) :
          \/ pc[q] \in {"write_log", "write_head"}
          \/ pc[q] = "install" /\ i > tail[q]
          => lh[i] \in Block /\ Pending(lh[i])
    <3> SUFFICES ASSUME NEW q \in Proc, NEW i \in Entry(lh),
                        \/ pc[q] \in {"write_log", "write_head"}
                        \/ pc[q] = "install" /\ i > tail[q]
                 PROVE  lh[i] \in Block /\ Pending(lh[i])
      BY Zenon
    <3>1. ~Recovering /\ \A r \in Proc : r # q => pc[r] \in WaitPC
      BY CommitFacts, Zenon DEF CommitPC
    <3>2. lh[i] \in Block
      BY DEF TypeOK, Entry
    <3> QED
      BY <3>1, <3>2, Zenon DEF Pending, Entry, WaitPC
  <2>2. \A q \in Proc, i \in Entry(lh) :
          \/ pc[q] \in {"write_log", "write_head"}
          \/ pc[q] = "install" /\ i > tail[q]
          => lh[i] # b
    BY <1>a, <2>1 DEF PinnedWhileLogged
  <2>3. \A c \in Block : c # b => cache'[c] = cache[c]
    BY <1>b, Zenon DEF TypeOK
  <2>4. lh' = lh /\ pc' = pc /\ tail' = tail /\ dlog' = dlog
    BY Zenon
  <2> QED
    BY <2>1, <2>2, <2>3, <2>4 DEF LogCopied
<1>8. Installed' /\ DurableLog' /\ DurableHome'
  BY Zenon DEF Installed, Entry, DurableLog, DurableHome
<1> QED
  BY <1>1, <1>2, <1>3, <1>4, <1>5, <1>6, <1>7, <1>8, Zenon

\* A crash in any state leaves a disk from which recovery can start.
LEMMA Step_Crash ==
  ASSUME IInv, Crash
  PROVE  IInv'
<1> USE DEF IInv, Control, Heads, Contents, Crash, diskVars
<1>0. PICK q \in Proc : pc' = Booting(q)
  BY Zenon
<1>a. /\ pc'[q] = "recover" /\ \A r \in Proc : r # q => pc'[r] = "unborn"
      /\ pc' \in [Proc -> PCs] /\ Recovering'
  BY <1>0, Zenon DEF Booting, PCs, Recovering
<1>b. InCall' = {}
  BY <1>a, Zenon DEF InCall
<1>c. dhead' = dhead
  BY Zenon DEF DiskAfterCrash
<1>d. \A p \in Proc : pc[p] = "write_log" => dhead = <<>>
  BY CommitFacts, Zenon DEF CommitPC
<1>e. \A p \in Proc : pc[p] \in {"install", "rinstall"} =>
        /\ dhead = lh /\ tail[p] + 1 \in Entry(dhead)
        /\ lh[tail[p] + 1] \in Block
  <2> SUFFICES ASSUME NEW p \in Proc, pc[p] \in {"install", "rinstall"}
               PROVE  /\ dhead = lh /\ tail[p] + 1 \in Entry(dhead)
                      /\ lh[tail[p] + 1] \in Block
    BY Zenon
  <2>1. dhead = lh /\ tail[p] < Len(lh)
    BY Zenon DEF HeadsAgree, TailInv, LoopPC
  <2>2. lh \in Seq(Block) /\ tail[p] \in Nat
    BY Zenon DEF TypeOK
  <2> QED
    BY <2>1, <2>2 DEF Entry
<1>1. TypeOK'
  <2>1. disk' \in [Block -> Content] /\ dlog' \in [LogBlock -> Content]
    BY Zenon DEF DiskAfterCrash, TypeOK, Content
  <2>2. pins' \in [Block -> Nat] /\ tail' \in [Proc -> Nat] /\ wrote' \in [Proc -> SUBSET Block]
    BY Zenon
  <2>3. cache' \in [Block -> Content \cup {NoBuf}] /\ lh' \in Seq(Block)
    OBVIOUS
  <2>4. dhead' \in Seq(Block)
    BY <1>c, Zenon DEF TypeOK
  <2> QED
    BY <1>a, <2>1, <2>2, <2>3, <2>4, Zenon DEF TypeOK
<1>2. Control'
  <2>1. BootAlone' /\ UnbornAtBoot' /\ CommitFlag' /\ CommitAlone'
    BY <1>a DEF BootAlone, UnbornAtBoot, CommitFlag, CommitAlone, RecPC, CommitPC
  <2>2. CallCount' /\ SleeperHasWaker' /\ Assertions'
    BY <1>a, <1>b, FS_EmptySet, Zenon DEF CallCount, SleeperHasWaker, Assertions
  <2> QED
    BY <2>1, <2>2, Zenon
<1>3. HeadsFit' /\ HeadsDistinct'
  BY <1>c, LogAssumption DEF HeadsFit, HeadsDistinct, Distinct, Entry
<1>4. TailInv' /\ HeadsAgree' /\ HeadEmpty' /\ LogEmpty'
  BY <1>a, Zenon DEF TailInv, HeadsAgree, HeadEmpty, LogEmpty, RecPC, LoopPC
<1>5. PinnedWhileLogged' /\ PinnedCached' /\ CleanCached'
  BY <1>a, Zenon DEF PinnedWhileLogged, Pending, PinnedCached, CleanCached
<1>6. LogCopied' /\ Installed'
  BY <1>a, Zenon DEF LogCopied, Installed
<1>7. DurableLog'
  BY SMTT(30), <1>c, <1>d DEF DurableLog, DiskAfterCrash, Entry
<1>8. DurableHome'
  <2>1. \A b \in Block : (\A i \in Entry(dhead) : dhead[i] # b) => disk'[b] = disk[b]
    <3>1. CASE disk' = disk
      BY <3>1, Zenon
    <3>2. ASSUME NEW p \in Proc, pc[p] \in {"install", "rinstall"},
                 disk' = [disk EXCEPT ![lh[tail[p] + 1]] = Torn]
          PROVE  \A b \in Block : (\A i \in Entry(dhead) : dhead[i] # b) => disk'[b] = disk[b]
      BY <1>e, <3>2, Zenon DEF TypeOK
    <3> QED
      BY <3>1, <3>2, Zenon DEF DiskAfterCrash
  <2> QED
    BY SMTT(30), <1>c, <2>1 DEF DurableHome
<1> QED
  BY <1>1, <1>2, <1>3, <1>4, <1>5, <1>6, <1>7, <1>8, Zenon

\* The invariant is inductive.
LEMMA NextIInv == IInv /\ [Next]_vars => IInv'
<1> SUFFICES ASSUME IInv, [Next]_vars PROVE IInv'
  BY Zenon
<1>1. ASSUME NEW p \in Proc, Call(p) PROVE IInv'
  BY <1>1, Step_begin_op_sleep, Step_begin_op_admit, Step_log_write, Step_end_op, Zenon DEF Call
<1>2. ASSUME NEW p \in Proc, Commit(p) PROVE IInv'
  BY <1>2, Step_write_log, Step_write_head, Step_install_trans, Step_clear, Step_finish
     DEF Commit
<1>3. ASSUME NEW p \in Proc, Recover(p) PROVE IInv'
  BY <1>3, Step_read_head, Step_install_trans_recovering, Step_recover_clear, Zenon DEF Recover
<1>4. CASE Cache
  BY <1>4, Step_bread, Step_bget_recycle, Zenon DEF Cache
<1>5. CASE Crash
  BY <1>5, Step_Crash, Zenon
<1>6. CASE UNCHANGED vars
  BY <1>6, OnlyPanic, Zenon DEF vars, IInv, Control, Assertions
<1> QED
  BY <1>1, <1>2, <1>3, <1>4, <1>5, <1>6, Zenon DEF Next

\* The invariant holds in every reachable state.
THEOREM Invariance == Spec => []IInv
BY InitIInv, NextIInv, PTL DEF Spec

(***************************************************************************)
(* The safety properties.                                                  *)
(***************************************************************************)

\* Every variable keeps its type; in particular no pin count or outstanding
\* count goes below zero.
THEOREM TypeCorrect == Spec => []TypeOK
BY Invariance, PTL DEF IInv

\* A process asleep in begin_op always has a waker.
THEOREM NoLostWakeup == Spec => []SleeperHasWaker
BY Invariance, PTL DEF IInv, Control

\* commit() runs alone although it holds no lock.
THEOREM CommitRunsAlone == Spec => []CommitterIsAlone
<1>1. IInv => CommitterIsAlone
  BY Zenon DEF IInv, Control, CommitAlone, CommitterIsAlone, CommitPC, WaitPC
<1> QED
  BY <1>1, Invariance, PTL

\* Pins are taken and returned exactly as the log needs them.
THEOREM PinsMatchLog == Spec => []PinnedWhileLogged
BY Invariance, PTL DEF IInv, Contents

\* log_write is never called outside a transaction, and end_op never finds a
\* commit running: two of the three panics of log.c are unreachable.
THEOREM AssertionsHold == Spec => []Assertions
BY Invariance, PTL DEF IInv, Control

\* What recovery makes of a block that the header lists, and of one it does not.
LEMMA AfterRecoveryAt ==
  ASSUME NEW h \in Seq(Block), NEW l, NEW d, Distinct(h)
  PROVE  /\ \A i \in Entry(h) : AfterRecovery(h, l, d)[h[i]] = l[i]
         /\ \A b \in Block : (\A i \in Entry(h) : h[i] # b) => AfterRecovery(h, l, d)[b] = d[b]
<1>1. ASSUME NEW i \in Entry(h) PROVE AfterRecovery(h, l, d)[h[i]] = l[i]
  <2>1. h[i] \in Block /\ i \in 1 .. Len(h) /\ Len(h) \in Nat
    BY DEF Entry
  <2>2. \A k \in 1 .. Len(h) :
          (h[k] = h[i] /\ \A j \in k + 1 .. Len(h) : h[j] # h[i]) <=> k = i
    BY <2>1 DEF Distinct, Entry
  <2>3. (CHOOSE k \in 1 .. Len(h) : h[k] = h[i] /\ \A j \in k + 1 .. Len(h) : h[j] # h[i]) = i
    BY <2>1, <2>2, Zenon
  <2> QED
    BY <2>1, <2>3, Zenon DEF AfterRecovery
<1>2. ASSUME NEW b \in Block, \A i \in Entry(h) : h[i] # b
      PROVE  AfterRecovery(h, l, d)[b] = d[b]
  BY <1>2, Zenon DEF AfterRecovery, Entry
<1> QED
  BY <1>1, <1>2, Zenon

\* An empty header: recovery leaves the home blocks alone.
LEMMA AfterRecoveryEmpty ==
  ASSUME NEW l, NEW d \in [Block -> Content]
  PROVE  AfterRecovery(<<>>, l, d) = d
BY DEF AfterRecovery

\* Outside commit and recovery the durable contents are the home blocks, and
\* what bread returns for an unpinned block is its home block.
LEMMA CleanVisible ==
  ASSUME IInv, NEW b \in Block, pins[b] = 0
  PROVE  BufData(b) = disk[b]
BY Zenon DEF IInv, Contents, CleanCached, BufData

\* When nothing is under way, everything written is durable.
THEOREM DurableWhenQuiescent == Spec => []QuiescentIsDurable
<1>1. ASSUME IInv PROVE QuiescentIsDurable
  <2> SUFFICES ASSUME outstanding = 0, committing = 0, ~Recovering
               PROVE  durable = visible
    BY Zenon DEF QuiescentIsDurable, visible
  <2>1. lh = <<>>
    BY <1>1, Zenon DEF IInv, Heads, LogEmpty
  <2>2. dhead = <<>>
    BY <1>1 DEF IInv, Control, CommitFlag, CommitPC, Heads, HeadEmpty, Recovering, RecPC
  <2>3. durable = disk /\ disk \in [Block -> Content]
    BY <1>1, <2>2, AfterRecoveryEmpty, Zenon DEF durable, IInv, TypeOK
  <2>4. \A b \in Block : pins[b] = 0
    BY <1>1, <2>1 DEF IInv, Contents, PinnedWhileLogged, Pending
  <2>5. \A b \in Block : BufData(b) = disk[b]
    BY <1>1, <2>4, CleanVisible, Zenon
  <2>6. [b \in Block |-> BufData(b)] = disk
    BY <2>3, <2>5, Zenon
  <2> QED
    BY <2>3, <2>6, Zenon DEF visible
<1> QED
  BY <1>1, Invariance, PTL

-----------------------------------------------------------------------------
(* The log implements AtomicDisk.                                          *)

bufs == [b \in Block |-> BufData(b)]

\* Steps that touch neither disk nor program counters of calls.
LEMMA DurableUnchanged ==
  ASSUME UNCHANGED <<dhead, dlog, disk>>
  PROVE  durable' = durable
BY Zenon DEF durable

\* durable is a function on Block, in this state and in the next.
LEMMA DurableIsFunction == durable = [b \in Block |-> durable[b]]
BY DEF durable, AfterRecovery

\* The same of the next state.
LEMMA DurableIsFunctionNext == durable' = [b \in Block |-> durable'[b]]
BY DEF durable, AfterRecovery

\* The header in memory lists distinct blocks.
LEMMA HeadFacts ==
  ASSUME IInv
  PROVE  /\ lh \in Seq(Block) /\ Distinct(lh) /\ Len(lh) \in Nat
         /\ \A i \in Entry(lh) : lh[i] \in Block
<1>1. lh \in Seq(Block)
  BY Zenon DEF IInv, TypeOK
<1>2. Len(lh) \in Nat /\ \A i \in Entry(lh) : lh[i] \in Block
  BY <1>1 DEF Entry
<1>3. Distinct(lh)
  BY Zenon DEF IInv, Heads, HeadsDistinct
<1> QED
  BY <1>1, <1>2, <1>3, Zenon

\* A loop over the log handles an entry of it.
LEMMA TailEntry ==
  ASSUME IInv, NEW p \in Proc, pc[p] \in LoopPC
  PROVE  tail[p] + 1 \in Entry(lh) /\ tail[p] + 1 > tail[p]
<1>1. tail[p] \in Nat /\ tail[p] < Len(lh)
  BY Zenon DEF IInv, Heads, TailInv, TypeOK
<1> QED
  BY <1>1, HeadFacts DEF Entry

\* A listed block is durable through its copy in the log: what its home
\* location holds (old, new or torn) makes no difference.
LEMMA AfterRecoveryListed ==
  ASSUME NEW h \in Seq(Block), NEW l, NEW d, NEW e,
         \A b \in Block : (\A i \in 1 .. Len(h) : h[i] # b) => d[b] = e[b]
  PROVE  AfterRecovery(h, l, d) = AfterRecovery(h, l, e)
BY DEF AfterRecovery

\* A write to the home of a listed block, finished or torn, is not visible.
LEMMA ListedHomeWrite ==
  ASSUME IInv, dhead = lh, dhead' = lh, dlog' = dlog,
         \A b \in Block : (\A i \in Entry(lh) : lh[i] # b) => disk'[b] = disk[b]
  PROVE  durable' = durable
<1>1. durable' = AfterRecovery(lh, dlog, disk') /\ durable = AfterRecovery(lh, dlog, disk)
  BY Zenon DEF durable
<1> QED
  BY <1>1, HeadFacts, AfterRecoveryListed, Zenon DEF Entry

\* Erasing the header once every listed block is home loses nothing.
LEMMA ClearHead ==
  ASSUME IInv, dhead = lh, dhead' = <<>>, disk' = disk,
         \A i \in Entry(lh) : disk[lh[i]] = dlog[i]
  PROVE  durable' = disk /\ durable = disk
<1>b. disk \in [Block -> Content] /\ Distinct(lh) /\ Len(lh) \in Nat /\ lh \in Seq(Block)
      /\ dlog \in [LogBlock -> Content] /\ \A i \in Entry(lh) : lh[i] \in Block
  BY HeadFacts, Zenon DEF IInv, TypeOK
<1>1. /\ \A i \in Entry(lh) : durable[lh[i]] = dlog[i]
      /\ \A b \in Block : (\A i \in Entry(lh) : lh[i] # b) => durable[b] = disk[b]
  BY <1>b, AfterRecoveryAt DEF durable
<1>2. durable' = disk
  BY <1>b, AfterRecoveryEmpty, Zenon DEF durable
<1>3. \A b \in Block : durable[b] = disk[b]
  BY <1>1
<1> QED
  BY <1>b, <1>2, <1>3, DurableIsFunction, Zenon

\* The initial states agree.
LEMMA InitRefines == Init => AD!Init
<1> SUFFICES ASSUME Init PROVE AD!Init
  BY Zenon
<1>1. IInv
  BY InitIInv, Zenon
<1>2. Recovering /\ InCall = {}
  BY Zenon DEF Init, Booting, Recovering, InCall
<1>3. durable = disk
  BY AfterRecoveryEmpty, Zenon DEF durable, Init, Content
<1>4. visible = durable
  BY <1>2, Zenon DEF visible
<1>5. visible \in [Block -> Data] /\ durable = visible
  BY <1>3, <1>4, Zenon DEF Init
<1> QED
  BY <1>2, <1>5, Zenon DEF AD!Init

\* begin_op, log_write and end_op are Begin, Write and End of AtomicDisk.
LEMMA CallRefines ==
  ASSUME IInv, NEW p \in Proc, Call(p)
  PROVE  AD!Next \/ UNCHANGED AD!vars
<1> USE DEF diskVars, logVars, At, Goto
<1>0. pc \in [Proc -> PCs] /\ cache \in [Block -> Content \cup {NoBuf}]
  BY Zenon DEF IInv, TypeOK
<1>1. CASE begin_op_sleep(p)
  <2>1. durable' = durable /\ InCall' = InCall /\ (Recovering' <=> Recovering)
    BY <1>0, <1>1, DurableUnchanged, Zenon DEF begin_op_sleep, InCall, Recovering
  <2>2. visible' = visible
    BY <1>1, <2>1, Zenon DEF begin_op_sleep, visible, BufData
  <2> QED
    BY <2>1, <2>2, Zenon DEF AD!vars
<1>2. CASE begin_op_admit(p)
  <2>1. durable' = durable /\ (Recovering' <=> Recovering)
    BY <1>0, <1>2, DurableUnchanged, Zenon DEF begin_op_admit, Recovering
  <2>2. visible' = visible
    BY <1>2, <2>1, Zenon DEF begin_op_admit, visible, BufData
  <2>3. p \notin InCall /\ InCall' = InCall \cup {p}
    BY <1>0, <1>2, Zenon DEF begin_op_admit, InCall
  <2>4. AD!Begin(p)
    BY <2>1, <2>2, <2>3, Zenon DEF AD!Begin
  <2> QED
    BY <2>4, Zenon DEF AD!Next
<1>3. ASSUME NEW b \in Block, NEW v \in Data, log_write(p, b, v)
      PROVE  AD!Next \/ UNCHANGED AD!vars
  <2>1. durable' = durable /\ InCall' = InCall /\ pc' = pc /\ disk' = disk
    BY <1>3, DurableUnchanged, Zenon DEF log_write, Panic, InCall
  <2>2. ~Recovering /\ ~Recovering' /\ p \in InCall
    BY <1>3, <2>1, CallFacts, Zenon DEF log_write, Recovering, InCall
  <2>3. CASE cache' = cache
    BY <2>1, <2>2, <2>3, Zenon DEF visible, BufData, AD!vars
  <2>4. CASE cache' = [cache EXCEPT ![b] = v]
    <3>1. visible = bufs /\ visible' = bufs'
      BY <2>2, Zenon DEF visible, bufs
    <3>2. \A c \in Block : bufs'[c] = IF c = b THEN v ELSE bufs[c]
      BY <1>0, <2>1, <2>4, LogAssumption, Zenon DEF bufs, BufData
    <3>3. bufs' = [bufs EXCEPT ![b] = v]
      BY <3>2, Zenon DEF bufs
    <3>4. AD!Write(p, b, v)
      BY <2>1, <2>2, <3>1, <3>3, Zenon DEF AD!Write
    <3> QED
      BY <3>4, Zenon DEF AD!Next
  <2> QED
    BY <1>3, <2>3, <2>4, Zenon DEF log_write, Panic
<1>4. CASE end_op(p)
  <2>1. durable' = durable /\ cache' = cache /\ disk' = disk /\ committing = 0
    BY <1>4, CallFacts, DurableUnchanged, Zenon DEF end_op, Panic
  <2>2. ~Recovering /\ ~Recovering'
    BY <1>0, <1>4, <2>1, CallFacts DEF end_op, WakeupThenGoto, Recovering, WaitPC
  <2>3. visible' = visible
    BY <2>1, <2>2, Zenon DEF visible, BufData
  <2>4. p \in InCall /\ InCall' = InCall \ {p}
    BY <1>0, <1>4, <2>1 DEF end_op, WakeupThenGoto, InCall
  <2>5. AD!End(p)
    BY <2>1, <2>3, <2>4, Zenon DEF AD!End
  <2> QED
    BY <2>5, Zenon DEF AD!Next
<1> QED
  BY <1>1, <1>2, <1>3, <1>4, Zenon DEF Call

\* Facts shared by the steps of commit().
LEMMA CommitterFacts ==
  ASSUME IInv, NEW p \in Proc, pc[p] \in CommitPC, Commit(p)
  PROVE  /\ ~Recovering /\ ~Recovering' /\ InCall = {} /\ InCall' = {}
         /\ visible = bufs /\ visible' = bufs'
<1>0. pc \in [Proc -> PCs]
  BY Zenon DEF IInv, TypeOK
<1>1. ~Recovering /\ InCall = {} /\ \A q \in Proc : q # p => pc[q] \in WaitPC
  BY CommitFacts, Zenon
<1>2. /\ pc'[p] \in CommitPC \cup {"idle"}
      /\ \A q \in Proc : q # p => pc'[q] = pc[q] \/ pc'[q] = "begin"
  BY <1>0 DEF Commit, write_log, write_head, install_trans, clear, finish, LoopOver,
     WakeupThenGoto, At, Goto, CommitPC
<1>3. ~Recovering' /\ InCall' = {}
  BY <1>1, <1>2, Zenon DEF Recovering, InCall, CommitPC, WaitPC
<1> QED
  BY <1>1, <1>3, Zenon DEF visible, bufs

\* Only the header write of commit() is visible to AtomicDisk: it is its Commit.
LEMMA CommitRefines ==
  ASSUME IInv, IInv', NEW p \in Proc, Commit(p)
  PROVE  AD!Next \/ UNCHANGED AD!vars
<1> USE DEF diskVars, logVars, At, Goto
<1>0. pc[p] \in CommitPC
  BY Zenon DEF Commit, write_log, write_head, install_trans, clear, finish, CommitPC
<1>a. /\ InCall = {} /\ InCall' = {} /\ visible = bufs /\ visible' = bufs'
      /\ ~Recovering /\ \A q \in Proc : q # p => pc[q] \in WaitPC
  BY <1>0, CommitterFacts, CommitFacts, Zenon
<1>b. /\ disk \in [Block -> Content] /\ dlog \in [LogBlock -> Content]
      /\ cache \in [Block -> Content \cup {NoBuf}]
      /\ lh \in Seq(Block) /\ Distinct(lh) /\ Len(lh) \in Nat
      /\ \A i \in Entry(lh) : lh[i] \in Block
  BY HeadFacts, Zenon DEF IInv, TypeOK
<1>1. CASE write_log(p)
  <2>1. dhead = <<>> /\ dhead' = <<>> /\ disk' = disk
    BY <1>1, CommitFacts, Zenon DEF write_log, CommitPC
  <2>2. durable' = durable
    BY <1>b, <2>1, AfterRecoveryEmpty, Zenon DEF durable
  <2>3. \A b \in Block : bufs'[b] = bufs[b]
    BY <1>1, <1>b, Zenon DEF write_log, bufs, BufData
  <2>4. bufs' = bufs
    BY <2>3, Zenon DEF bufs
  <2> QED
    BY <1>a, <2>2, <2>4, Zenon DEF AD!vars
<1>2. CASE write_head(p)
  <2>1. bufs' = bufs
    BY <1>2, Zenon DEF write_head, bufs, BufData
  <2>2. dhead' = lh /\ dlog' = dlog /\ disk' = disk /\ pc[p] = "write_head"
    BY <1>2, Zenon DEF write_head
  <2>3. \A i \in Entry(lh) : dlog[i] = bufs[lh[i]]
    <3>1. \A i \in Entry(lh) : Pending(lh[i])
      BY <1>a, <1>b, <2>2, Zenon DEF Pending, Entry, WaitPC
    <3>2. \A i \in Entry(lh) : cache[lh[i]] \in Data
      BY <1>b, <3>1 DEF IInv, Contents, PinnedWhileLogged, PinnedCached
    <3>3. \A i \in Entry(lh) : dlog[i] = cache[lh[i]]
      BY <2>2, Zenon DEF IInv, Contents, LogCopied
    <3> QED
      BY <1>b, <3>2, <3>3, LogAssumption, Zenon DEF bufs, BufData
  <2>4. \A b \in Block : (\A i \in Entry(lh) : lh[i] # b) => disk[b] = bufs[b]
    <3>1. ASSUME NEW b \in Block, \A i \in Entry(lh) : lh[i] # b PROVE disk[b] = bufs[b]
      <4>1. pins[b] = 0
        BY <3>1, Zenon DEF IInv, Contents, PinnedWhileLogged, Pending, Entry
      <4> QED
        BY <4>1, CleanVisible, Zenon DEF bufs
    <3> QED
      BY <3>1, Zenon
  <2>5. \A b \in Block : durable'[b] = bufs[b]
    <3>1. /\ \A i \in Entry(lh) : AfterRecovery(lh, dlog, disk)[lh[i]] = dlog[i]
          /\ \A b \in Block : (\A i \in Entry(lh) : lh[i] # b) =>
                                  AfterRecovery(lh, dlog, disk)[b] = disk[b]
      BY <1>b, AfterRecoveryAt
    <3>2. durable' = AfterRecovery(lh, dlog, disk)
      BY <2>2, Zenon DEF durable
    <3> QED
      BY <2>3, <2>4, <3>1, <3>2
  <2>6. durable' = bufs
    BY <2>5, DurableIsFunctionNext, Zenon DEF bufs
  <2>7. AD!Commit
    BY <1>a, <2>1, <2>6, Zenon DEF AD!Commit
  <2> QED
    BY <2>7, Zenon DEF AD!Next
<1>3. CASE install_trans(p)
  <2>0. pc[p] = "install" /\ dhead = lh /\ dhead' = lh /\ dlog' = dlog
    BY <1>3, Zenon DEF install_trans, IInv, Heads, HeadsAgree
  <2> DEFINE k == tail[p] + 1
  <2>k. k \in Entry(lh) /\ k > tail[p]
    BY <2>0, TailEntry, Zenon DEF LoopPC
  <2>1. /\ disk' = [disk EXCEPT ![lh[k]] = dlog[k]]
        /\ cache' = [cache EXCEPT ![lh[k]] = dlog[k]]
    BY <1>3, Zenon DEF install_trans, InstallBlock
  <2> HIDE DEF k
  <2>2. dlog[k] \in Data /\ dlog[k] = cache[lh[k]]
    BY <2>0, <2>k, Zenon DEF IInv, Contents, DurableLog, LogCopied
  <2>3. \A b \in Block : bufs'[b] = bufs[b]
    BY <1>b, <2>k, <2>1, <2>2, LogAssumption, Zenon DEF bufs, BufData
  <2>4. bufs' = bufs
    BY <2>3, Zenon DEF bufs
  <2>h. \A b \in Block : (\A i \in Entry(lh) : lh[i] # b) => disk'[b] = disk[b]
    BY <1>b, <2>k, <2>1, Zenon
  <2>6. durable' = durable
    BY <2>0, <2>h, ListedHomeWrite, Zenon
  <2> QED
    BY <1>a, <2>4, <2>6, Zenon DEF AD!vars
<1>4. CASE clear(p)
  <2>1. /\ pc[p] = "clear" /\ dhead = lh /\ dhead' = <<>>
        /\ UNCHANGED <<disk, dlog, cache>>
    BY <1>4, Zenon DEF clear, IInv, Heads, HeadsAgree
  <2>2. \A i \in Entry(lh) : disk[lh[i]] = dlog[i]
    BY <2>1, Zenon DEF IInv, Contents, Installed
  <2>6. durable' = durable /\ durable = disk
    BY <2>1, <2>2, ClearHead, Zenon
  <2>7. bufs' = bufs
    BY <2>1, Zenon DEF bufs, BufData
  <2> QED
    BY <1>a, <2>6, <2>7, Zenon DEF AD!vars
<1>5. CASE finish(p)
  <2>1. durable' = durable /\ bufs' = bufs
    BY <1>5, DurableUnchanged, Zenon DEF finish, bufs, BufData
  <2> QED
    BY <1>a, <2>1, Zenon DEF AD!vars
<1> QED
  BY <1>1, <1>2, <1>3, <1>4, <1>5, Zenon DEF Commit

\* Recovery changes neither what is durable nor what is visible.
LEMMA RecoverRefines ==
  ASSUME IInv, IInv', NEW p \in Proc, Recover(p)
  PROVE  AD!Next \/ UNCHANGED AD!vars
<1> USE DEF diskVars, logVars, At, Goto
<1>0. pc \in [Proc -> PCs] /\ pc[p] \in RecPC
  BY Zenon DEF Recover, read_head, install_trans_recovering, recover_clear, RecPC, IInv, TypeOK
<1>a. /\ InCall = {} /\ Recovering /\ \A b \in Block : pins[b] = 0
      /\ visible = durable
  BY <1>0, RecoverFacts, Zenon DEF visible
<1>b. /\ disk \in [Block -> Content] /\ dlog \in [LogBlock -> Content]
      /\ lh \in Seq(Block) /\ Distinct(lh) /\ Len(lh) \in Nat
      /\ \A i \in Entry(lh) : lh[i] \in Block
  BY HeadFacts, Zenon DEF IInv, TypeOK
<1>c. ASSUME pc'[p] \in RecPC, durable' = durable PROVE UNCHANGED AD!vars
  <2>1. InCall' = {}
    BY <1>c, <1>0, <1>a DEF Recover, read_head, install_trans_recovering, recover_clear,
       LoopOver, InCall, RecPC
  <2>2. visible' = durable'
    BY <1>c, Zenon DEF Recovering, RecPC, visible
  <2> QED
    BY <1>a, <1>c, <2>1, <2>2, Zenon DEF AD!vars
<1>1. CASE read_head(p)
  <2>1. pc'[p] \in RecPC /\ durable' = durable
    BY <1>0, <1>1, DurableUnchanged, Zenon DEF read_head, RecPC
  <2> QED
    BY <1>c, <2>1, Zenon
<1>2. CASE install_trans_recovering(p)
  <2>0. pc[p] = "rinstall" /\ dhead = lh /\ dhead' = lh /\ dlog' = dlog
    BY <1>2, Zenon DEF install_trans_recovering, IInv, Heads, HeadsAgree
  <2> DEFINE k == tail[p] + 1
  <2>k. k \in Entry(lh)
    BY <2>0, TailEntry, Zenon DEF LoopPC
  <2>1. disk' = [disk EXCEPT ![lh[k]] = dlog[k]]
    BY <1>2, Zenon DEF install_trans_recovering, InstallBlock
  <2> HIDE DEF k
  <2>h. \A b \in Block : (\A i \in Entry(lh) : lh[i] # b) => disk'[b] = disk[b]
    BY <1>b, <2>k, <2>1, Zenon
  <2>5. durable' = durable
    BY <2>0, <2>h, ListedHomeWrite, Zenon
  <2>6. pc'[p] \in RecPC
    BY <1>0, <1>2, Zenon DEF install_trans_recovering, LoopOver, RecPC
  <2> QED
    BY <1>c, <2>5, <2>6, Zenon
<1>3. CASE recover_clear(p)
  <2>1. /\ pc[p] = "rclear" /\ dhead = lh /\ dhead' = <<>>
        /\ UNCHANGED <<disk, dlog, cache>> /\ pc' = [q \in Proc |-> "idle"]
    BY <1>3, Zenon DEF recover_clear, IInv, Heads, HeadsAgree
  <2>2. \A i \in Entry(lh) : disk[lh[i]] = dlog[i]
    BY <2>1, Zenon DEF IInv, Contents, Installed
  <2>6. durable' = durable /\ durable = disk
    BY <2>1, <2>2, ClearHead, Zenon
  <2>7. InCall' = {} /\ ~Recovering'
    BY <2>1, Zenon DEF InCall, Recovering
  <2>8. \A b \in Block : bufs[b] = disk[b]
    BY <1>a, CleanVisible, Zenon DEF bufs
  <2>9. bufs' = bufs
    BY <2>1, Zenon DEF bufs, BufData
  <2>10. visible' = bufs'
    BY <2>7, Zenon DEF visible, bufs
  <2>11. bufs = durable
    BY <2>6, <2>8, DurableIsFunction, Zenon DEF bufs
  <2> QED
    BY <1>a, <2>6, <2>7, <2>9, <2>10, <2>11, Zenon DEF AD!vars
<1> QED
  BY <1>1, <1>2, <1>3, Zenon DEF Recover

\* Reading a block and recycling a buffer change nothing a reader can see.
LEMMA CacheRefines ==
  ASSUME IInv, Cache
  PROVE  UNCHANGED AD!vars
<1> USE DEF diskVars, logVars
<1>1. durable' = durable /\ InCall' = InCall /\ Recovering' = Recovering
  BY DurableUnchanged, Zenon DEF Cache, bread, bget_recycle, InCall, Recovering
<1>2. PICK b \in Block : bread(b) \/ bget_recycle(b)
  BY Zenon DEF Cache
<1>3. /\ cache \in [Block -> Content \cup {NoBuf}]
      /\ disk' = disk
      /\ \/ cache[b] = NoBuf /\ cache' = [cache EXCEPT ![b] = disk[b]]
         \/ cache[b] = disk[b] /\ cache' = [cache EXCEPT ![b] = NoBuf]
  BY <1>2, Zenon DEF bread, bget_recycle, IInv, TypeOK, Contents, CleanCached
<1>4. \A c \in Block : bufs'[c] = bufs[c]
  BY <1>3, Zenon DEF bufs, BufData
<1>5. bufs' = bufs
  BY <1>4, Zenon DEF bufs
<1> QED
  BY <1>1, <1>5, Zenon DEF visible, bufs, AD!vars

\* A power failure changes no durable block: the block it may tear is a log
\* block no header on disk lists, or a home block the header lists.
LEMMA CrashRefines ==
  ASSUME IInv, Crash
  PROVE  AD!Crash
<1> USE DEF diskVars
<1>b. /\ disk \in [Block -> Content] /\ dlog \in [LogBlock -> Content]
      /\ lh \in Seq(Block) /\ Distinct(lh) /\ Len(lh) \in Nat
      /\ \A i \in Entry(lh) : lh[i] \in Block
  BY HeadFacts, Zenon DEF IInv, TypeOK
<1>1. ASSUME UNCHANGED diskVars PROVE durable' = durable
  BY <1>1, DurableUnchanged, Zenon
<1>2. ASSUME NEW p \in Proc, pc[p] = "write_log", UNCHANGED <<disk, dhead>>
      PROVE  durable' = durable
  <2>1. dhead = <<>>
    BY <1>2, CommitFacts, Zenon DEF CommitPC
  <2> QED
    BY <1>b, <1>2, <2>1, AfterRecoveryEmpty, Zenon DEF durable
<1>3. ASSUME NEW p \in Proc, pc[p] \in {"install", "rinstall"},
             disk' = [disk EXCEPT ![lh[tail[p] + 1]] = Torn], UNCHANGED <<dlog, dhead>>
      PROVE  durable' = durable
  <2> DEFINE k == tail[p] + 1
  <2>0. dhead = lh /\ dhead' = lh /\ dlog' = dlog
    BY <1>3, Zenon DEF IInv, Heads, HeadsAgree
  <2>k. k \in Entry(lh)
    BY <1>3, TailEntry, Zenon DEF LoopPC
  <2>1. disk' = [disk EXCEPT ![lh[k]] = Torn]
    BY <1>3, Zenon
  <2> HIDE DEF k
  <2>h. \A b \in Block : (\A i \in Entry(lh) : lh[i] # b) => disk'[b] = disk[b]
    BY <1>b, <2>k, <2>1, Zenon
  <2> QED
    BY <2>0, <2>h, ListedHomeWrite, Zenon
<1>4. durable' = durable
  <2>1. DiskAfterCrash
    BY Zenon DEF Crash
  <2> QED
    BY <1>1, <1>2, <1>3, <2>1, Zenon DEF DiskAfterCrash
<1>5. Recovering' /\ InCall' = {}
  BY Zenon DEF Crash, Booting, Recovering, InCall
<1> QED
  BY <1>4, <1>5, Zenon DEF visible, AD!Crash

-----------------------------------------------------------------------------
\* Every step of the log is a step of the abstract disk, or stutters on it.
LEMMA NextRefines ==
  ASSUME IInv, IInv', [Next]_vars
  PROVE  [AD!Next]_AD!vars
<1>1. CASE UNCHANGED vars
  <2>1. durable' = durable
    BY <1>1, DurableUnchanged, Zenon DEF vars
  <2> QED
    BY <1>1, <2>1, Zenon DEF vars, visible, Recovering, BufData, InCall, AD!vars
<1>2. CASE Crash
  BY <1>2, CrashRefines, Zenon DEF AD!Next
<1>3. CASE Cache
  BY <1>3, CacheRefines, Zenon
<1> QED
  BY <1>1, <1>2, <1>3, CallRefines, CommitRefines, RecoverRefines, Zenon DEF Next

\* Crash safety for any number of processes, blocks and log entries: begin_op
\* and end_op make the calls between them atomic with respect to crashes.
THEOREM Refinement == Spec => RefinesAtomicDisk
<1>1. Init => AD!Init
  BY InitRefines, Zenon
<1>2. IInv /\ IInv' /\ [Next]_vars => [AD!Next]_AD!vars
  BY NextRefines, Zenon
<1> QED
  BY <1>1, <1>2, Invariance, PTL DEF Spec, RefinesAtomicDisk, AD!Spec

(***************************************************************************)
(* begin_op's reservation: log_write never runs out of log.                *)
(***************************************************************************)

\* What begin_op's reservation needs of the constants: a call leaves a block of its
\* reservation unused, two calls fit, and the log area is as large as the header's
\* array (param.h and mkfs.c have 10, 30 and 30).
Sized == OpBlocks < MAXOPBLOCKS /\ 2 * MAXOPBLOCKS <= LOGSIZE /\ LOGSIZE <= nlog

\* The blocks that calls under way have reserved and not yet logged.
Reserved == {r \in InCall \X (1 .. MAXOPBLOCKS) : r[2] > Cardinality(wrote[r[1]])}

CallsBounded ==
    \A p \in InCall : IsFiniteSet(wrote[p]) /\ Cardinality(wrote[p]) <= OpBlocks
WroteLogged == \A p \in InCall : \A b \in wrote[p] : Logged(b)
Fits == \/ Len(lh) + Cardinality(Reserved) < LOGSIZE
        \/ Len(lh) + Cardinality(Reserved) <= LOGSIZE /\ outstanding >= 2
HeadFits == Len(dhead) < LOGSIZE

RInv == CallsBounded /\ WroteLogged /\ Fits /\ HeadFits /\ NoPanic

\* The reservations are finitely many, at most MAXOPBLOCKS for each call.
LEMMA ReservedFinite ==
  IInv => /\ IsFiniteSet(Reserved) /\ Cardinality(Reserved) \in Nat
          /\ Cardinality(Reserved) <= outstanding * MAXOPBLOCKS
<1> HAVE IInv
<1>1. IsFiniteSet(1 .. MAXOPBLOCKS) /\ Cardinality(1 .. MAXOPBLOCKS) = MAXOPBLOCKS
  BY LogAssumption, FS_Interval
<1>2. /\ IsFiniteSet(InCall \X (1 .. MAXOPBLOCKS))
      /\ Cardinality(InCall \X (1 .. MAXOPBLOCKS)) = outstanding * MAXOPBLOCKS
  BY <1>1, InCallFinite, FS_Product, Zenon DEF IInv, Control, CallCount
<1>3. Reserved \in SUBSET (InCall \X (1 .. MAXOPBLOCKS))
  BY Zenon DEF Reserved
<1> QED
  BY <1>2, <1>3, FS_Subset, FS_CardinalityType, Zenon

\* A state in which nobody is in a call.
LEMMA NoCall ==
  ASSUME Sized, InCall = {}, Len(lh) < LOGSIZE, Len(dhead) < LOGSIZE, Len(lh) \in Nat, NoPanic
  PROVE  RInv
<1>1. Reserved = {}
  BY Zenon DEF Reserved
<1>2. Cardinality(Reserved) = 0
  BY <1>1, FS_EmptySet, Zenon
<1> QED
  BY <1>2, LogAssumption DEF RInv, CallsBounded, WroteLogged, Fits, HeadFits

\* A step that does not touch what the reservations depend on.
LEMMA SameCalls ==
  ASSUME RInv, InCall' = InCall, UNCHANGED <<lh, dhead, wrote, outstanding, panicked>>
  PROVE  RInv'
<1>1. Reserved' = Reserved
  BY Zenon DEF Reserved
<1> QED
  BY <1>1, Zenon DEF RInv, CallsBounded, WroteLogged, Logged, Fits, HeadFits, NoPanic

\* Room for the header and for one more block: each call under way holds on to
\* a block it will not use.
LEMMA RoomInCall ==
  ASSUME Sized, IInv, RInv, NEW p \in Proc, pc[p] = "op"
  PROVE  Len(lh) + 1 < LOGSIZE
<1>1. \A q \in InCall : <<q, MAXOPBLOCKS>> \in Reserved
  <2> SUFFICES ASSUME NEW q \in InCall PROVE <<q, MAXOPBLOCKS>> \in Reserved
    BY Zenon
  <2>1. IsFiniteSet(wrote[q]) /\ Cardinality(wrote[q]) <= OpBlocks
    BY Zenon DEF RInv, CallsBounded
  <2>2. Cardinality(wrote[q]) \in Nat
    BY <2>1, FS_CardinalityType, Zenon
  <2>3. MAXOPBLOCKS > Cardinality(wrote[q])
    BY <2>1, <2>2, LogAssumption DEF Sized
  <2> QED
    BY <2>3, LogAssumption DEF Reserved
<1>2. p \in InCall
  BY Zenon DEF InCall
<1>3. IsFiniteSet(Reserved) /\ Cardinality(Reserved) \in Nat /\ Len(lh) \in Nat /\ LOGSIZE \in Nat
  <2>1. lh \in Seq(Block)
    BY Zenon DEF IInv, TypeOK
  <2> QED
    BY <2>1, ReservedFinite, LogAssumption
<1>4. Cardinality(Reserved) >= 1
  <2>1. Reserved # {}
    BY <1>1, <1>2, Zenon
  <2> QED
    BY <1>3, <2>1, FS_EmptySet
<1>5. CASE Len(lh) + Cardinality(Reserved) < LOGSIZE
  BY <1>3, <1>4, <1>5
<1>6. CASE Len(lh) + Cardinality(Reserved) <= LOGSIZE /\ outstanding >= 2
  <2>1. PICK q \in InCall : q # p
    <3>1. SUFFICES ASSUME InCall = {p} PROVE FALSE
      BY <1>2, Zenon
    <3> QED
      <4>1. Cardinality({p}) = 1
        BY FS_Singleton, Zenon
      <4> QED
        BY <1>6, <3>1, <4>1 DEF IInv, Control, CallCount
  <2>2. <<p, MAXOPBLOCKS>> \in Reserved /\ <<q, MAXOPBLOCKS>> \in Reserved \ {<<p, MAXOPBLOCKS>>}
    BY <1>1, <1>2, <2>1, Zenon
  <2>3. /\ IsFiniteSet(Reserved \ {<<p, MAXOPBLOCKS>>})
        /\ Cardinality(Reserved \ {<<p, MAXOPBLOCKS>>}) = Cardinality(Reserved) - 1
    BY <1>3, <2>2, FS_RemoveElement, Zenon
  <2>4. Cardinality(Reserved \ {<<p, MAXOPBLOCKS>>}) # 0
    BY <2>2, <2>3, FS_EmptySet, Zenon
  <2> QED
    BY <1>3, <1>4, <1>6, <2>3, <2>4
<1> QED
  BY <1>5, <1>6, Zenon DEF RInv, Fits

\* begin_op's admission reserves MAXOPBLOCKS blocks that fit.
LEMMA Reserve_begin_op ==
  ASSUME Sized, IInv, IInv', RInv, NEW p \in Proc, begin_op_admit(p)
  PROVE  RInv'
<1> USE DEF begin_op_admit, At, Goto, diskVars
<1>1. /\ InCall' = InCall \cup {p} /\ p \notin InCall /\ wrote'[p] = {}
      /\ \A q \in InCall : wrote'[q] = wrote[q]
  BY ZenonT(60) DEF InCall, IInv, TypeOK
<1>2. lh' = lh /\ dhead' = dhead /\ NoPanic' /\ outstanding' = outstanding + 1
  BY Zenon DEF NoPanic
<1>3. CallsBounded' /\ WroteLogged'
  <2>1. IsFiniteSet({}) /\ Cardinality({}) <= OpBlocks
    BY FS_EmptySet, LogAssumption
  <2>2. \A b : Logged(b)' <=> Logged(b)
    BY <1>2, Zenon DEF Logged
  <2> QED
    BY <1>1, <2>1, <2>2, Zenon DEF RInv, CallsBounded, WroteLogged
<1>4. Cardinality(Reserved)' \in Nat /\ Cardinality(Reserved)' <= outstanding' * MAXOPBLOCKS
  <2>1. (/\ IsFiniteSet(Reserved) /\ Cardinality(Reserved) \in Nat
         /\ Cardinality(Reserved) <= outstanding * MAXOPBLOCKS)'
    BY ReservedFinite, PTL
  <2> QED
    BY <2>1, Zenon
<1>5. Len(lh) \in Nat /\ outstanding \in Nat /\ LOGSIZE \in Nat /\ MAXOPBLOCKS \in Nat \ {0}
  <2>1. lh \in Seq(Block) /\ outstanding \in Nat
    BY Zenon DEF IInv, TypeOK
  <2> QED
    BY <2>1, LogAssumption
<1>6. CASE outstanding = 0
  <2>1. lh = <<>>
    BY <1>6, Zenon
       DEF IInv, TypeOK, Heads, LogEmpty, Control, BootAlone, Recovering, RecPC, MustWait
  <2>2. Cardinality(Reserved)' <= MAXOPBLOCKS
    BY <1>2, <1>4, <1>5, <1>6
  <2> QED
    BY <1>2, <1>3, <1>4, <1>5, <2>1, <2>2 DEF RInv, Fits, HeadFits, Sized
<1>7. CASE outstanding # 0
  <2>1. Len(lh) + (outstanding + 1) * MAXOPBLOCKS <= LOGSIZE
    <3>1. (outstanding + 1) * MAXOPBLOCKS \in Nat
      BY <1>5
    <3> QED
      BY <1>5, <3>1 DEF MustWait, NoRoom
  <2>2. Len(lh') + Cardinality(Reserved)' <= LOGSIZE
    <3> DEFINE m == (outstanding + 1) * MAXOPBLOCKS
    <3>1. m \in Nat /\ Cardinality(Reserved)' <= m /\ Len(lh) + m <= LOGSIZE
      BY <1>2, <1>4, <1>5, <2>1
    <3> HIDE DEF m
    <3> QED
      BY <1>2, <1>4, <1>5, <3>1
  <2> QED
    BY <1>2, <1>3, <1>5, <1>7, <2>2 DEF RInv, Fits, HeadFits
<1> QED
  BY <1>6, <1>7, Zenon

\* log_write uses up a block of the call's reservation when it appends to the log.
LEMMA Reserve_log_write ==
  ASSUME Sized, IInv, RInv, NEW p \in Proc, NEW b \in Block, NEW v \in Data, log_write(p, b, v)
  PROVE  RInv'
<1> USE DEF log_write, At, diskVars
<1>1. /\ Len(lh) \in Nat /\ LOGSIZE \in Nat /\ outstanding \in Nat /\ lh \in Seq(Block)
      /\ wrote \in [Proc -> SUBSET Block]
  BY LogAssumption DEF IInv, TypeOK
<1>2. log_write_check = "no"
  <2>1. Len(lh) + 1 < LOGSIZE
    BY RoomInCall, Zenon
  <2>2. outstanding >= 1
    BY CallFacts, Zenon
  <2>3. ~(Len(lh) >= LOGSIZE) /\ ~(Len(lh) >= nlog - 1) /\ ~(outstanding < 1)
    BY <1>1, <2>1, <2>2, LogAssumption DEF Sized
  <2> QED
    BY <2>3, Zenon DEF log_write_check
<1>3. /\ IF Logged(b) THEN lh' = lh ELSE lh' = Append(lh, b)
      /\ wrote' = [wrote EXCEPT ![p] = @ \cup {b}]
      /\ UNCHANGED <<dhead, outstanding, pc, panicked>>
  BY <1>2, Zenon
<1>4. InCall' = InCall /\ p \in InCall
  BY <1>3, Zenon DEF InCall
<1>5. IsFiniteSet(wrote[p]) /\ Cardinality(wrote[p]) \in Nat /\ Cardinality(wrote[p]) <= OpBlocks
  BY <1>4, FS_CardinalityType, Zenon DEF RInv, CallsBounded
<1>6. /\ IsFiniteSet(wrote[p] \cup {b}) /\ Cardinality(wrote[p] \cup {b}) <= OpBlocks
      /\ Cardinality(wrote[p] \cup {b}) =
           IF b \in wrote[p] THEN Cardinality(wrote[p]) ELSE Cardinality(wrote[p]) + 1
  BY <1>5, FS_AddElement, Zenon
<1>7. wrote'[p] = wrote[p] \cup {b} /\ \A q \in Proc : q # p => wrote'[q] = wrote[q]
  BY <1>1, <1>3, Zenon
<1>8. CallsBounded'
  BY <1>4, <1>6, <1>7, Zenon DEF RInv, CallsBounded, InCall
<1>9. Logged(b)' /\ \A c \in Block : Logged(c) => Logged(c)'
  BY <1>1, <1>3 DEF Logged
<1>10. WroteLogged'
  BY <1>1, <1>4, <1>7, <1>9, Zenon DEF RInv, WroteLogged, InCall
<1>11. HeadFits' /\ NoPanic'
  BY <1>3, Zenon DEF RInv, HeadFits, NoPanic
<1>12. IsFiniteSet(Reserved) /\ Cardinality(Reserved) \in Nat
  BY ReservedFinite, Zenon
<1>13. CASE b \in wrote[p]
  <2>1. lh' = lh
    BY <1>3, <1>4, <1>13, Zenon DEF RInv, WroteLogged
  <2>2. \A q \in Proc : wrote'[q] = wrote[q]
    BY <1>7, <1>13, Zenon
  <2>3. Reserved' = Reserved
    BY <1>4, <2>2, Zenon DEF Reserved, InCall
  <2> QED
    BY <1>3, <1>8, <1>10, <1>11, <2>1, <2>3, Zenon DEF RInv, Fits
<1>14. CASE b \notin wrote[p]
  <2> DEFINE k == Cardinality(wrote[p]) + 1
  <2>1. k \in 1 .. MAXOPBLOCKS
    BY <1>5, LogAssumption DEF Sized
  <2>2. <<p, k>> \in Reserved
    BY <1>4, <1>5, <2>1 DEF Reserved
  <2>3. Cardinality(wrote'[p]) = k
    BY <1>6, <1>7, <1>14, Zenon
  <2>4. Reserved' = Reserved \ {<<p, k>>}
    <3>1. \A q \in InCall, n \in 1 .. MAXOPBLOCKS :
            n > Cardinality(wrote'[q]) <=> n > Cardinality(wrote[q]) /\ <<q, n>> # <<p, k>>
      <4> SUFFICES ASSUME NEW q \in InCall, NEW n \in 1 .. MAXOPBLOCKS
                   PROVE  n > Cardinality(wrote'[q]) <=>
                            n > Cardinality(wrote[q]) /\ <<q, n>> # <<p, k>>
        BY Zenon
      <4>1. CASE q = p
        BY <1>5, <2>3, <4>1, LogAssumption
      <4>2. CASE q # p
        BY <1>7, <4>2, Zenon DEF InCall
      <4> QED
        BY <4>1, <4>2, Zenon
    <3> QED
      BY <1>4, <3>1 DEF Reserved
  <2>5. Cardinality(Reserved') = Cardinality(Reserved) - 1
    BY <1>12, <2>2, <2>4, FS_RemoveElement, Zenon
  <2>6. Len(lh') <= Len(lh) + 1 /\ Len(lh') \in Nat
    BY <1>1, <1>3
  <2>7. Fits'
    BY <1>1, <1>3, <1>12, <2>5, <2>6 DEF RInv, Fits
  <2> QED
    BY <1>8, <1>10, <1>11, <2>7, Zenon DEF RInv
<1> QED
  BY <1>13, <1>14, Zenon

\* end_op gives back what the call did not use.
LEMMA Reserve_end_op ==
  ASSUME Sized, IInv, RInv, NEW p \in Proc, end_op(p)
  PROVE  RInv'
<1> USE DEF end_op, At, Goto, WakeupThenGoto, diskVars
<1>1. /\ pc[p] = "op" /\ committing = 0 /\ InCall' = InCall \ {p} /\ p \in InCall
  BY CallFacts DEF InCall, IInv, TypeOK
<1>2. UNCHANGED <<lh, dhead, wrote, panicked>>
  BY <1>1
<1>3. /\ IsFiniteSet(Reserved) /\ Cardinality(Reserved) \in Nat
      /\ Len(lh) \in Nat /\ LOGSIZE \in Nat
  BY ReservedFinite, LogAssumption DEF IInv, TypeOK
<1>4. <<p, MAXOPBLOCKS>> \in Reserved /\ <<p, MAXOPBLOCKS>> \notin Reserved'
  <2>1. IsFiniteSet(wrote[p]) /\ Cardinality(wrote[p]) <= OpBlocks
    BY <1>1, Zenon DEF RInv, CallsBounded
  <2>2. Cardinality(wrote[p]) \in Nat
    BY <2>1, FS_CardinalityType, Zenon
  <2>3. MAXOPBLOCKS > Cardinality(wrote[p]) /\ MAXOPBLOCKS \in 1 .. MAXOPBLOCKS
    BY <2>1, <2>2, LogAssumption DEF Sized
  <2> QED
    BY <1>1, <2>3, Zenon DEF Reserved
<1>5. Reserved' \in SUBSET (Reserved \ {<<p, MAXOPBLOCKS>>})
  BY <1>1, <1>2, <1>4, Zenon DEF Reserved
<1>6. /\ IsFiniteSet(Reserved \ {<<p, MAXOPBLOCKS>>})
      /\ Cardinality(Reserved \ {<<p, MAXOPBLOCKS>>}) = Cardinality(Reserved) - 1
  BY <1>3, <1>4, FS_RemoveElement, Zenon
<1>7. Cardinality(Reserved') \in Nat /\ Cardinality(Reserved') <= Cardinality(Reserved) - 1
  BY <1>5, <1>6, FS_Subset, FS_CardinalityType, Zenon
<1>8. Fits'
  BY <1>2, <1>3, <1>7 DEF RInv, Fits
<1> QED
  BY <1>1, <1>2, <1>8, Zenon DEF RInv, CallsBounded, WroteLogged, Logged, HeadFits, NoPanic

\* Every step keeps the reservations within the log.
LEMMA NextRInv == ASSUME Sized, IInv, IInv', RInv, [Next]_vars PROVE RInv'
<1> USE DEF At, Goto, diskVars, logVars
<1>1. /\ lh \in Seq(Block) /\ dhead \in Seq(Block) /\ Len(lh) \in Nat
      /\ LOGSIZE \in Nat /\ pc \in [Proc -> PCs] /\ LOGSIZE > 0 /\ Len(<<>>) = 0
  <2>1. lh \in Seq(Block) /\ dhead \in Seq(Block) /\ pc \in [Proc -> PCs]
    BY Zenon DEF IInv, TypeOK
  <2> QED
    BY <2>1, LogAssumption
<1>2. ASSUME InCall' = {}, NoPanic', Len(lh') < LOGSIZE, Len(dhead') < LOGSIZE, Len(lh') \in Nat
      PROVE  RInv'
  <2>1. (Sized /\ InCall = {} /\ Len(lh) < LOGSIZE /\ Len(dhead) < LOGSIZE
           /\ Len(lh) \in Nat /\ NoPanic)'
    BY <1>2, Zenon DEF Sized
  <2> QED
    BY <2>1, NoCall, PTL
<1>3. ASSUME NEW p \in Proc, Call(p) PROVE RInv'
  <2>1. CASE begin_op_sleep(p)
    <3>1. InCall' = InCall
      BY <1>1, <2>1, Zenon DEF begin_op_sleep, InCall
    <3> QED
      BY <2>1, <3>1, SameCalls, Zenon DEF begin_op_sleep
  <2> QED
    BY <1>3, <2>1, Reserve_begin_op, Reserve_log_write, Reserve_end_op, Zenon DEF Call
<1>4. ASSUME InCall = {} PROVE Len(lh) < LOGSIZE /\ Len(dhead) < LOGSIZE
  <2>1. outstanding = 0
    BY <1>4, FS_EmptySet, Zenon DEF IInv, Control, CallCount
  <2>2. Cardinality(Reserved) \in Nat
    BY ReservedFinite, Zenon
  <2> QED
    BY <1>1, <2>1, <2>2 DEF RInv, Fits, HeadFits
<1>5. ASSUME NEW p \in Proc, Commit(p) PROVE RInv'
  <2>1. pc[p] \in CommitPC
    BY <1>5, Zenon DEF Commit, write_log, write_head, install_trans, clear, finish, CommitPC
  <2>2. InCall = {} /\ \A q \in Proc : q # p => pc[q] \in WaitPC
    BY <2>1, CommitFacts, Zenon
  <2>3. \A q \in Proc : pc'[q] # "op"
    BY <1>1, <1>5, <2>1, <2>2 DEF Commit, write_log, write_head, install_trans, clear, finish,
       CommitPC, WaitPC, LoopOver, WakeupThenGoto
  <2>4. InCall' = {}
    BY <2>3, Zenon DEF InCall
  <2>5. /\ lh' \in {lh, <<>>} /\ dhead' \in {dhead, lh, <<>>} /\ panicked' = panicked
    BY <1>5, Zenon DEF Commit, write_log, write_head, install_trans, clear, finish
  <2> QED
    BY <1>1, <1>2, <1>4, <2>2, <2>4, <2>5, Zenon DEF RInv, NoPanic
<1>6. ASSUME NEW p \in Proc, Recover(p) PROVE RInv'
  <2>1. pc[p] \in RecPC
    BY <1>6, Zenon DEF Recover, read_head, install_trans_recovering, recover_clear, RecPC
  <2>2. InCall = {} /\ \A q \in Proc : q # p => pc[q] = "unborn"
    BY <2>1, RecoverFacts, Zenon
  <2>3. \A q \in Proc : pc'[q] # "op"
    BY <1>1, <1>6, <2>1, <2>2 DEF Recover, read_head, install_trans_recovering, recover_clear,
       RecPC, LoopOver
  <2>4. InCall' = {}
    BY <2>3, Zenon DEF InCall
  <2>5. /\ lh' \in {lh, dhead, <<>>} /\ dhead' \in {dhead, <<>>} /\ panicked' = panicked
    BY <1>6, Zenon DEF Recover, read_head, install_trans_recovering, recover_clear
  <2> QED
    BY <1>1, <1>2, <1>4, <2>2, <2>4, <2>5 DEF RInv, NoPanic
<1>7. CASE Cache
  <2>1. InCall' = InCall /\ UNCHANGED <<lh, dhead, wrote, outstanding, panicked>>
    BY <1>7, Zenon DEF Cache, bread, bget_recycle, InCall
  <2> QED
    BY <2>1, SameCalls, Zenon
<1>8. CASE Crash
  <2>1. dhead' = dhead /\ lh' = <<>> /\ panicked' = "no"
    BY <1>8, Zenon DEF Crash, DiskAfterCrash
  <2>2. InCall' = {}
    BY <1>8, Zenon DEF Crash, InCall, Booting
  <2> QED
    BY <1>1, <1>2, <2>1, <2>2, Zenon DEF RInv, HeadFits, NoPanic
<1>9. CASE UNCHANGED vars
  <2>1. InCall' = InCall /\ UNCHANGED <<lh, dhead, wrote, outstanding, panicked>>
    BY <1>9, Zenon DEF vars, InCall
  <2> QED
    BY <2>1, SameCalls, Zenon
<1> QED
  BY <1>3, <1>5, <1>6, <1>7, <1>8, <1>9, Zenon DEF Next

\* The reservation made by begin_op is enough: no call, however calls overlap,
\* commit and crash, runs into a panic of log_write or end_op, although the area
\* log_write checks against counts the header block and begin_op does not.
THEOREM NoPanicHolds == ASSUME Sized PROVE Spec => []NoPanic
<1>1. Init => RInv
  <2> SUFFICES ASSUME Init PROVE RInv
    BY Zenon
  <2>1. InCall = {}
    BY Zenon DEF Init, Booting, InCall
  <2>2. Len(lh) = 0 /\ Len(dhead) = 0 /\ LOGSIZE > 0 /\ NoPanic
    BY LogAssumption DEF Init, NoPanic
  <2> QED
    BY <2>1, <2>2, NoCall
<1>2. IInv /\ IInv' /\ RInv /\ [Next]_vars => RInv'
  BY NextRInv, Zenon
<1>3. RInv => NoPanic
  BY Zenon DEF RInv
<1> QED
  BY <1>1, <1>2, <1>3, Invariance, PTL DEF Spec

=============================================================================
