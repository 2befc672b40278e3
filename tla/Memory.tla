------------------------------- MODULE Memory -------------------------------
(***************************************************************************)
(* User memory: the page allocator (kernel/kalloc.c), page tables          *)
(* (kernel/vm.c) and the operations that build and free address spaces:    *)
(* fork(), exec(), sbrk(), exit() and wait() (kernel/proc.c, exec.c).      *)
(*                                                                         *)
(* Every kalloc() is a step, so that several processes compete for the     *)
(* last pages and any allocation of any operation can fail; what an        *)
(* operation frees after that is one step.  Pages are counted, not told    *)
(* apart.  A page table is a tree of three levels with FAN entries a page  *)
(* (512 in the code); the two highest virtual pages are the trapframe and  *)
(* the trampoline.  Sizes are in bytes.                                    *)
(***************************************************************************)
EXTENDS Naturals, FiniteSets, FiniteSetsExt

CONSTANTS
    NPROC,     \* process slots; slot 1 is the first process
    NPAGES,    \* pages the allocator starts with
    PGSIZE, FAN,
    MaxBrk     \* sbrk() arguments and segment ends are at most this

Slot == 1 .. NPROC
VPage == 0 .. FAN * FAN * FAN - 1
TRAMPOLINE == FAN * FAN * FAN - 1
TRAPFRAME == TRAMPOLINE - 1

ASSUME MemoryAssumption ==
    /\ NPROC \in Nat \ {0} /\ NPAGES \in Nat /\ MaxBrk \in Nat
    /\ PGSIZE \in Nat \ {0} /\ FAN \in Nat /\ FAN >= 2

VARIABLES
    free,      \* length of kmem.freelist
    state,     \* of each slot: "unused", "used", "live" or "zombie"
    tf,        \* p->trapframe is allocated
    tabs,      \* page tables: p->pagetable, and the one exec() builds
    sz,        \* p->sz
    job,       \* the operation each process is in
    panicked

vars == <<free, state, tf, tabs, sz, job, panicked>>

NoTable == [root |-> 0, nodes |-> {}, ptes |-> {}]
Loc == {"pt", "xt"} \X Slot

\* The page-table pages below the root on the way to virtual page v.
Path(v) == {<<1, v \div (FAN * FAN)>>, <<0, v \div FAN>>}
Node == UNION {Path(v) : v \in VPage}
Table == [root : {0, 1}, nodes : SUBSET Node, ptes : SUBSET VPage]

\* stage: what is allocated next; i: page number; old, goal: sizes for
\* uvmalloc(); hold: a page allocated and not yet mapped; np: fork's child.
NoJob == [op |-> "none", stage |-> "", i |-> 0, old |-> 0, goal |-> 0, hold |-> 0, np |-> 1]

PGROUNDUP(n) == ((n + PGSIZE - 1) \div PGSIZE) * PGSIZE
Pages(n) == PGROUNDUP(n) \div PGSIZE
Range0(a, b) == {v \in VPage : a <= v /\ v < b}

\* userinit(): one process with one page.
Init ==
    /\ LET t == [root |-> 1, nodes |-> Path(0) \cup Path(TRAPFRAME),
                 ptes |-> {0, TRAPFRAME, TRAMPOLINE}]
       IN  /\ tabs = [l \in Loc |-> IF l = <<"pt", 1>> THEN t ELSE NoTable]
           /\ free = NPAGES - (3 + Cardinality(t.nodes))
    /\ free >= 0
    /\ state = [s \in Slot |-> IF s = 1 THEN "live" ELSE "unused"]
    /\ tf = [s \in Slot |-> IF s = 1 THEN 1 ELSE 0]
    /\ sz = [s \in Slot |-> IF s = 1 THEN PGSIZE ELSE 0]
    /\ job = [s \in Slot |-> NoJob]
    /\ panicked = 0

-----------------------------------------------------------------------------
(* Page tables.                                                            *)

At(p, stage) == panicked = 0 /\ job[p].stage = stage

\* The table that p's operation works on.
Target(p) == CASE job[p].op = "fork" -> <<"pt", job[p].np>>
               [] job[p].op = "exec" -> <<"xt", p>>
               [] OTHER -> <<"pt", p>>

\* uvmunmap(): pages a .. b - 1, which must be mapped.
unmap(t, a, b) == [t EXCEPT !.ptes = @ \ Range0(a, b)]
Mapped(t, a, b) == Range0(a, b) \subseteq t.ptes

\* The pages that freewalk() frees.
TablePages(t) == t.root + Cardinality(t.nodes)

\* proc_freepagetable(t, n), what it gives back and whether it panics:
\* uvmunmap() of a page that is not mapped, or a leaf left for freewalk().
FreedPages(t, n) == TablePages(t) + Cardinality(t.ptes \cap Range0(0, Pages(n)))
FreePanics(t, n) ==
    \/ ~Mapped(t, 0, Pages(n))
    \/ t.ptes # Range0(0, Pages(n)) \cup {TRAPFRAME, TRAMPOLINE}

\* Where p's operation goes on when the page it is at has been mapped.
NextStage(p) ==
    CASE job[p].stage = "trampoline" -> "trapframe"
      [] job[p].stage = "trapframe" -> IF job[p].op = "fork" THEN "copy" ELSE "load"
      [] OTHER -> job[p].stage

\* The virtual page that mappages() is at.
VA(p) == CASE job[p].stage = "trampoline" -> TRAMPOLINE
           [] job[p].stage = "trapframe" -> TRAPFRAME
           [] OTHER -> job[p].i

\* Stages in which a page of its own is allocated for each virtual page.
Filling == {"copy", "grow", "stack"}
Mapping(p) == /\ panicked = 0
              /\ job[p].stage \in {"trampoline", "trapframe"} \cup Filling
              /\ job[p].stage \in Filling => job[p].hold = 1

\* walk(): a page-table page is missing and allocated, the upper level first.
walk(p) ==
    /\ Mapping(p) /\ free > 0
    /\ \E n \in Path(VA(p)) \ tabs[Target(p)].nodes :
        /\ n[1] = 0 => <<1, VA(p) \div (FAN * FAN)>> \in tabs[Target(p)].nodes
        /\ tabs' = [tabs EXCEPT ![Target(p)].nodes = @ \cup {n}]
    /\ free' = free - 1
    /\ UNCHANGED <<state, tf, sz, job, panicked>>

\* mappages() sets the entry.
mappages(p) ==
    /\ Mapping(p)
    /\ Path(VA(p)) \subseteq tabs[Target(p)].nodes
    /\ tabs' = [tabs EXCEPT ![Target(p)].ptes = @ \cup {VA(p)}]
    /\ panicked' = IF VA(p) \in tabs[Target(p)].ptes THEN 1 ELSE 0
    /\ job' = [job EXCEPT ![p].stage = NextStage(p), ![p].hold = 0,
                          ![p].i = IF job[p].stage \in Filling THEN @ + 1 ELSE @]
    /\ UNCHANGED <<free, state, tf, sz>>

-----------------------------------------------------------------------------
(* kalloc() for everything else.                                           *)

\* uvmcopy() and uvmalloc() have not reached the end.
More(p) == job[p].stage \in Filling
           /\ job[p].i * PGSIZE < IF job[p].stage = "copy" THEN sz[p] ELSE job[p].goal

alloc_page(p) ==
    /\ panicked = 0 /\ More(p) /\ job[p].hold = 0 /\ free > 0
    /\ free' = free - 1
    /\ job' = [job EXCEPT ![p].hold = 1]
    /\ UNCHANGED <<state, tf, tabs, sz, panicked>>

\* allocproc(): the trapframe page.
alloc_trapframe(p) ==
    /\ At(p, "alloc") /\ free > 0
    /\ free' = free - 1
    /\ tf' = [tf EXCEPT ![job[p].np] = 1]
    /\ job' = [job EXCEPT ![p].stage = "root"]
    /\ UNCHANGED <<state, tabs, sz, panicked>>

uvmcreate(p) ==
    /\ At(p, "root") /\ free > 0
    /\ free' = free - 1
    /\ tabs' = [tabs EXCEPT ![Target(p)].root = 1]
    /\ job' = [job EXCEPT ![p].stage = "trampoline"]
    /\ UNCHANGED <<state, tf, sz, panicked>>

\* An allocation fails.
NoPage(p) ==
    /\ panicked = 0 /\ free = 0
    /\ \/ job[p].stage \in {"alloc", "root"}
       \/ More(p) /\ job[p].hold = 0
       \/ Mapping(p) /\ ~(Path(VA(p)) \subseteq tabs[Target(p)].nodes)

End(p) == job' = [job EXCEPT ![p] = NoJob]

\* In proc_pagetable(): the mapping of the trampoline is undone, uvmfree(t, 0).
pagetable_fails(p) ==
    /\ NoPage(p) /\ job[p].stage \notin Filling
    /\ LET t == tabs[Target(p)]
           t1 == IF job[p].stage = "trapframe" THEN unmap(t, TRAMPOLINE, TRAMPOLINE + 1) ELSE t
           f == IF job[p].op = "fork" THEN tf[job[p].np] ELSE 0
       IN  /\ free' = free + TablePages(t) + f
           /\ panicked' = IF t1.ptes # {} THEN 1 ELSE 0
    /\ tabs' = [tabs EXCEPT ![Target(p)] = NoTable]
    /\ IF job[p].op = "fork"
       THEN /\ tf' = [tf EXCEPT ![job[p].np] = 0]
            /\ state' = [state EXCEPT ![job[p].np] = "unused"]
       ELSE UNCHANGED <<tf, state>>
    /\ End(p)
    /\ UNCHANGED sz

\* uvmalloc() and uvmcopy() free the pages they mapped, from this one on.
FirstPage(p) == IF job[p].stage = "copy" THEN 0 ELSE Pages(job[p].old)

\* Seeded faults: the pages mapped so far stay mapped; the page that was not yet
\* mapped is not freed.
Undone_nothing(p) == tabs[Target(p)]
UndonePages_mapped(p) == job[p].i - FirstPage(p)

Undone(p) == unmap(tabs[Target(p)], FirstPage(p), job[p].i)
UndonePages(p) == job[p].hold + (job[p].i - FirstPage(p))

\* fork(): uvmcopy() fails, then freeproc().
copy_fails(p) ==
    /\ NoPage(p) /\ job[p].stage = "copy"
    /\ LET np == job[p].np IN
        /\ free' = free + UndonePages(p) + tf[np] + FreedPages(Undone(p), sz[np])
        /\ panicked' = IF FreePanics(Undone(p), sz[np]) THEN 1 ELSE 0
        /\ tabs' = [tabs EXCEPT ![Target(p)] = NoTable]
        /\ tf' = [tf EXCEPT ![np] = 0]
        /\ state' = [state EXCEPT ![np] = "unused"]
    /\ End(p)
    /\ UNCHANGED sz

\* sbrk(): uvmalloc() fails.
grow_fails(p) ==
    /\ NoPage(p) /\ job[p].op = "sbrk"
    /\ free' = free + UndonePages(p)
    /\ tabs' = [tabs EXCEPT ![Target(p)] = Undone(p)]
    /\ End(p)
    /\ UNCHANGED <<state, tf, sz, panicked>>

\* exec(), label bad: back gives what uvmalloc() freed, t the table it left.
bad(p, back, t) ==
    /\ free' = free + back + FreedPages(t, job[p].old)
    /\ panicked' = IF FreePanics(t, job[p].old) THEN 1 ELSE 0
    /\ tabs' = [tabs EXCEPT ![Target(p)] = NoTable]
    /\ End(p)
    /\ UNCHANGED <<state, tf, sz>>

exec_grow_fails(p) ==
    /\ NoPage(p) /\ job[p].op = "exec" /\ job[p].stage \in Filling
    /\ bad(p, UndonePages(p), Undone(p))

-----------------------------------------------------------------------------
(* The operations.                                                         *)

Idle(p) == panicked = 0 /\ state[p] = "live" /\ job[p] = NoJob

fork(p, np) ==
    /\ Idle(p) /\ state[np] = "unused"
    /\ state' = [state EXCEPT ![np] = "used"]
    /\ job' = [job EXCEPT ![p] = [NoJob EXCEPT !.op = "fork", !.stage = "alloc", !.np = np]]
    /\ UNCHANGED <<free, tf, tabs, sz, panicked>>

fork_done(p) ==
    /\ At(p, "copy") /\ ~More(p)
    /\ sz' = [sz EXCEPT ![job[p].np] = sz[p]]
    /\ state' = [state EXCEPT ![job[p].np] = "live"]
    /\ End(p)
    /\ UNCHANGED <<free, tf, tabs, panicked>>

\* uvmalloc() from size old to size goal.
Grow(r, stage, old, goal) ==
    [r EXCEPT !.stage = stage, !.old = old, !.goal = goal, !.i = Pages(old)]

sbrk(p, n) ==
    /\ Idle(p) /\ sz[p] + n <= MaxBrk
    /\ job' = [job EXCEPT ![p] = Grow([@ EXCEPT !.op = "sbrk"], "grow", sz[p], sz[p] + n)]
    /\ UNCHANGED <<free, state, tf, tabs, sz, panicked>>

sbrk_done(p) ==
    /\ At(p, "grow") /\ ~More(p) /\ job[p].op = "sbrk"
    /\ sz' = [sz EXCEPT ![p] = job[p].goal]
    /\ End(p)
    /\ UNCHANGED <<free, state, tf, tabs, panicked>>

\* Seeded fault: the new size is rounded down.
sbrk_shrink_down(p, n) ==
    /\ Idle(p) /\ n <= sz[p]
    /\ LET a == (sz[p] - n) \div PGSIZE
           b == Pages(sz[p])
       IN  /\ free' = free + (b - a)
           /\ tabs' = [tabs EXCEPT ![<<"pt", p>>] = unmap(@, a, b)]
           /\ panicked' = IF Mapped(tabs[<<"pt", p>>], a, b) THEN 0 ELSE 1
    /\ sz' = [sz EXCEPT ![p] = @ - n]
    /\ UNCHANGED <<state, tf, job>>

\* uvmdealloc(); a larger n wraps around, and nothing changes.
sbrk_shrink(p, n) ==
    /\ Idle(p) /\ n <= sz[p]
    /\ LET a == Pages(sz[p] - n)
           b == Pages(sz[p])
       IN  /\ free' = free + (b - a)
           /\ tabs' = [tabs EXCEPT ![<<"pt", p>>] = unmap(@, a, b)]
           /\ panicked' = IF Mapped(tabs[<<"pt", p>>], a, b) THEN 0 ELSE 1
    /\ sz' = [sz EXCEPT ![p] = @ - n]
    /\ UNCHANGED <<state, tf, job>>

exec(p) ==
    /\ Idle(p)
    /\ job' = [job EXCEPT ![p] = [NoJob EXCEPT !.op = "exec", !.stage = "root"]]
    /\ UNCHANGED <<free, state, tf, tabs, sz, panicked>>

\* A segment that ends at n; below the size reached so far it adds nothing.
exec_segment(p, n) ==
    /\ At(p, "load") /\ n > job[p].old
    /\ job' = [job EXCEPT ![p] = Grow(@, "grow", @.old, n)]
    /\ UNCHANGED <<free, state, tf, tabs, sz, panicked>>

exec_loaded(p) ==
    /\ At(p, "grow") /\ ~More(p) /\ job[p].op = "exec"
    /\ job' = [job EXCEPT ![p].stage = "load", ![p].old = job[p].goal, ![p].i = 0, ![p].goal = 0]
    /\ UNCHANGED <<free, state, tf, tabs, sz, panicked>>

\* The guard page and the stack page.
exec_stack(p) ==
    /\ At(p, "load")
    /\ LET top == PGROUNDUP(job[p].old) IN
        job' = [job EXCEPT ![p] = Grow(@, "stack", top, top + 2 * PGSIZE)]
    /\ UNCHANGED <<free, state, tf, tabs, sz, panicked>>

exec_args(p) ==
    /\ At(p, "stack") /\ ~More(p)
    /\ job' = [job EXCEPT ![p].stage = "args", ![p].old = job[p].goal, ![p].i = 0, ![p].goal = 0]
    /\ UNCHANGED <<free, state, tf, tabs, sz, panicked>>

\* The file is short or malformed, or the arguments do not fit on the stack.
exec_bad(p) ==
    /\ panicked = 0 /\ job[p].stage \in {"load", "args"}
    /\ bad(p, 0, tabs[Target(p)])

\* Commit to the new image.
exec_commit(p) ==
    /\ At(p, "args")
    /\ LET t == tabs[<<"pt", p>>] IN
        /\ free' = free + FreedPages(t, sz[p])
        /\ panicked' = IF FreePanics(t, sz[p]) THEN 1 ELSE 0
    /\ tabs' = [tabs EXCEPT ![<<"pt", p>>] = tabs[<<"xt", p>>], ![<<"xt", p>>] = NoTable]
    /\ sz' = [sz EXCEPT ![p] = job[p].old]
    /\ End(p)
    /\ UNCHANGED <<state, tf>>

exit(p) ==
    /\ Idle(p) /\ p # 1
    /\ state' = [state EXCEPT ![p] = "zombie"]
    /\ UNCHANGED <<free, tf, tabs, sz, job, panicked>>

\* wait(): freeproc() of a zombie.
wait(p, c) ==
    /\ Idle(p) /\ state[c] = "zombie"
    /\ LET t == tabs[<<"pt", c>>] IN
        /\ free' = free + tf[c] + FreedPages(t, sz[c])
        /\ panicked' = IF FreePanics(t, sz[c]) THEN 1 ELSE 0
    /\ tf' = [tf EXCEPT ![c] = 0]
    /\ tabs' = [tabs EXCEPT ![<<"pt", c>>] = NoTable]
    /\ sz' = [sz EXCEPT ![c] = 0]
    /\ state' = [state EXCEPT ![c] = "unused"]
    /\ UNCHANGED job

-----------------------------------------------------------------------------
Next == \E p \in Slot :
    \/ walk(p) \/ mappages(p) \/ alloc_page(p) \/ alloc_trapframe(p) \/ uvmcreate(p)
    \/ pagetable_fails(p) \/ copy_fails(p) \/ grow_fails(p) \/ exec_grow_fails(p)
    \/ \E np \in Slot : fork(p, np) \/ wait(p, np)
    \/ \E n \in 1 .. MaxBrk : sbrk(p, n) \/ sbrk_shrink(p, n) \/ exec_segment(p, n)
    \/ fork_done(p) \/ sbrk_done(p) \/ exec(p) \/ exec_loaded(p) \/ exec_stack(p)
    \/ exec_args(p) \/ exec_bad(p) \/ exec_commit(p) \/ exit(p)

Spec == Init /\ [][Next]_vars

-----------------------------------------------------------------------------
(* Safety.                                                                 *)

\* The pages a table accounts for; trapframe and trampoline are not its own.
Owned(t) == TablePages(t) + Cardinality(t.ptes \ {TRAPFRAME, TRAMPOLINE})

\* No page is lost and none is freed twice, whatever allocation of fork(), exec()
\* or sbrk() fails and wherever their clean-up starts.
PagesAccounted ==
    free + MapThenSumSet(LAMBDA s : tf[s] + job[s].hold, Slot)
         + MapThenSumSet(LAMBDA l : Owned(tabs[l]), Loc) = NPAGES

\* A process between operations, or dead, has exactly the pages up to its size:
\* the assumption under which freeproc() and fork() walk the table.
MappedUpToSize ==
    \A s \in Slot : state[s] = "zombie" \/ (state[s] = "live" /\ job[s] = NoJob) =>
        tabs[<<"pt", s>>].ptes = Range0(0, Pages(sz[s])) \cup {TRAPFRAME, TRAMPOLINE}

\* "uvmunmap: not mapped", "mappages: remap", "freewalk: leaf".
NoPanic == panicked = 0
=============================================================================
