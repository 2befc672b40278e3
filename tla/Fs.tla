--------------------------------- MODULE Fs ---------------------------------
(***************************************************************************)
(* Inodes, directories and path names: the inode table of kernel/fs.c and  *)
(* the system calls of kernel/sysfile.c that create, look up, link and     *)
(* remove names.  Several processes are inside such calls at a time; the   *)
(* sleep-lock of an inode and the reference count of its table entry are   *)
(* all that keeps them apart.                                              *)
(*                                                                         *)
(* A step is what a process does between taking inode locks, under         *)
(* itable.lock, or under one buffer's lock.  In-memory inodes are indexed   *)
(* by inode number, since iget() gives a number one table entry; there are *)
(* as many entries as inodes.  An inode's blocks are the directory it      *)
(* holds; file contents are not modelled.  Transactions are Log's subject. *)
(***************************************************************************)
EXTENDS Naturals, FiniteSets, Sequences

CONSTANTS
    Proc, Nobody,
    NInum,      \* inodes are 1 .. NInum
    Name,       \* names of directory entries
    Paths,      \* sequences of names, ".", ".."; "/" first if absolute
    Calls,      \* the system calls each process makes
    NoSpace     \* outcomes of "no block left for the entry", of {0, 1}

Root == 1
Inum == 1 .. NInum
Entry == Name \cup {".."}
AllCalls == {"open", "create", "mkdir", "link", "unlink", "chdir", "close"}

ASSUME FsAssumption ==
    /\ NInum \in Nat /\ NInum >= 1 /\ NoSpace \subseteq {0, 1}
    /\ Name \cap {".", "..", "/"} = {} /\ Calls \in [Proc -> SUBSET AllCalls]
    /\ \A path \in Paths : path \in Seq(Name \cup {".", "..", "/"})

VARIABLES
    dinode,      \* struct dinode: type and nlink
    dir,         \* entries of each directory; 0 is no entry
    ref, valid,  \* struct inode
    mem,         \*   its copies of type and nlink
    lock,        \*   the holder of its sleep-lock
    fd, cwd,     \* each process's open file and current directory
    s,           \* each process's pc and local variables
    panicked

vars == <<dinode, dir, ref, valid, mem, lock, fd, cwd, s, panicked>>

Type == {"none", "file", "dir"}
Empty == [n \in Entry |-> 0]
Start == [pc |-> "idle", call |-> "", path |-> <<>>, path2 |-> <<>>, name |-> "",
          w |-> 0, ip |-> 0, dp |-> 0, put |-> 0, inum |-> 0, cont |-> ""]

\* mkfs leaves a root directory; every process starts in it.
Init ==
    /\ dinode = [i \in Inum |-> IF i = Root THEN [type |-> "dir", nlink |-> 1]
                                ELSE [type |-> "none", nlink |-> 0]]
    /\ dir = [i \in Inum |-> IF i = Root THEN [Empty EXCEPT ![".."] = Root] ELSE Empty]
    /\ ref = [i \in Inum |-> IF i = Root THEN Cardinality(Proc) ELSE 0]
    /\ valid = [i \in Inum |-> 0]
    /\ mem = dinode
    /\ lock = [i \in Inum |-> Nobody]
    /\ fd = [p \in Proc |-> 0]
    /\ cwd = [p \in Proc |-> Root]
    /\ s = [p \in Proc |-> Start]
    /\ panicked = 0

-----------------------------------------------------------------------------
At(p, l) == panicked = 0 /\ s[p].pc = l
disk == <<dinode, dir>>
table == <<ref, valid, mem, lock>>

\* iget() and idup(): an entry that nobody referred to is taken over.
iget(i) ==
    /\ ref' = [ref EXCEPT ![i] = @ + 1]
    /\ valid' = IF ref[i] = 0 THEN [valid EXCEPT ![i] = 0] ELSE valid

iunlock(i) == lock' = [lock EXCEPT ![i] = Nobody]

dirlookup(i, n) == IF n = "." THEN i ELSE dir[i][n]

\* iupdate(): the changed in-memory inodes go to disk.
iupdate(m) == mem' = m /\ dinode' = [i \in Inum |-> IF m[i] # mem[i] THEN m[i] ELSE dinode[i]]

\* p calls iput() for the inode in its variable f, and goes on at l.
Put(r, f, l) == [r EXCEPT !.pc = "iput", !.put = r[f], ![f] = 0, !.cont = l]

\* iput() is done.
Continue(r) == IF r.cont = "idle" THEN Start
               ELSE [r EXCEPT !.pc = r.cont, !.put = 0, !.cont = ""]

\* What each ilock() is for: the variable that names the inode, and where the
\* process goes on.
Locking == [namex       |-> <<"w", "walk">>,
            open        |-> <<"ip", "open_check">>,
            chdir       |-> <<"ip", "chdir_check">>,
            create      |-> <<"dp", "create_look">>,
            create_old  |-> <<"ip", "create_check">>,
            create_new  |-> <<"ip", "create_fill">>,
            unlink      |-> <<"dp", "unlink_look">>,
            unlink_ip   |-> <<"ip", "unlink_do">>,
            link        |-> <<"ip", "link_inc">>,
            link_dp     |-> <<"dp", "link_do">>,
            link_undo   |-> <<"ip", "link_dec">>]

ilock(p) ==
    /\ panicked = 0
    /\ s[p].pc \in DOMAIN Locking
    /\ s[p].pc = "namex" => s[p].path # <<>>
    /\ LET i == s[p][Locking[s[p].pc][1]] IN
        /\ lock[i] = Nobody
        /\ lock' = [lock EXCEPT ![i] = p]
        /\ mem' = IF valid[i] = 0 THEN [mem EXCEPT ![i] = dinode[i]] ELSE mem
        /\ valid' = [valid EXCEPT ![i] = 1]
        /\ panicked' = IF valid[i] = 0 /\ dinode[i].type = "none" THEN 1 ELSE 0
    /\ s' = [s EXCEPT ![p].pc = Locking[@][2]]
    /\ UNCHANGED <<disk, ref, fd, cwd>>

-----------------------------------------------------------------------------
(* iput().                                                                 *)

\* Seeded fault: ref is not looked at.
LastReference_any(i) == valid[i] = 1 /\ mem[i].nlink = 0

LastReference(i) == ref[i] = 1 /\ valid[i] = 1 /\ mem[i].nlink = 0

iput(p) ==
    /\ At(p, "iput")
    /\ LET i == s[p].put IN
        IF LastReference(i)
        THEN /\ lock[i] = Nobody
             /\ lock' = [lock EXCEPT ![i] = p]
             /\ s' = [s EXCEPT ![p].pc = "iput_free"]
             /\ UNCHANGED ref
        ELSE /\ ref' = [ref EXCEPT ![i] = @ - 1]
             /\ s' = [s EXCEPT ![p] = Continue(@)]
             /\ UNCHANGED lock
    /\ UNCHANGED <<disk, valid, mem, fd, cwd, panicked>>

\* itrunc(), type 0, iupdate().
iput_free(p) ==
    /\ At(p, "iput_free")
    /\ dir' = [dir EXCEPT ![s[p].put] = Empty]
    /\ iupdate([mem EXCEPT ![s[p].put].type = "none"])
    /\ s' = [s EXCEPT ![p].pc = "iput_unlock"]
    /\ UNCHANGED <<ref, valid, lock, fd, cwd, panicked>>

\* Seeded fault: the in-memory copy stays valid.
iput_unlock_valid(p) ==
    /\ At(p, "iput_unlock")
    /\ iunlock(s[p].put)
    /\ s' = [s EXCEPT ![p].pc = "iput_drop"]
    /\ UNCHANGED <<disk, ref, valid, mem, fd, cwd, panicked>>

iput_unlock(p) ==
    /\ At(p, "iput_unlock")
    /\ valid' = [valid EXCEPT ![s[p].put] = 0]
    /\ iunlock(s[p].put)
    /\ s' = [s EXCEPT ![p].pc = "iput_drop"]
    /\ UNCHANGED <<disk, ref, mem, fd, cwd, panicked>>

iput_drop(p) ==
    /\ At(p, "iput_drop")
    /\ ref' = [ref EXCEPT ![s[p].put] = @ - 1]
    /\ s' = [s EXCEPT ![p] = Continue(@)]
    /\ UNCHANGED <<disk, valid, mem, lock, fd, cwd, panicked>>

-----------------------------------------------------------------------------
(* namex().                                                                *)

\* link() is at its second path, or the call looks up a parent only.
Second(r) == r.call = "link" /\ r.ip # 0
NameiParent(r) == r.call \in {"create", "mkdir", "unlink"} \/ Second(r)

\* Where a call goes on after namex(), and after it failed.
After(r) == CASE Second(r) -> "link_dp" [] r.call = "mkdir" -> "create" [] OTHER -> r.call
Failed(r) == IF Second(r) THEN "link_undo" ELSE "idle"

Absolute(path) == path # <<>> /\ path[1] = "/"
From(p, path) == IF Absolute(path) THEN Root ELSE cwd[p]
Elements(path) == IF Absolute(path) THEN Tail(path) ELSE path

\* A system call with path arguments: begin_op(), then namex() starts.
syscall(p, c, path, path2) ==
    /\ At(p, "idle") /\ c \in Calls[p] \ {"close"}
    /\ c # "link" => path2 = path
    /\ iget(From(p, path))
    /\ s' = [s EXCEPT ![p] = [Start EXCEPT !.pc = "namex", !.call = c, !.w = From(p, path),
                               !.path = Elements(path),
                               !.path2 = IF c = "link" THEN path2 ELSE <<>>]]
    /\ UNCHANGED <<disk, mem, lock, fd, cwd, panicked>>

\* No element is left.
namex_end(p) ==
    /\ At(p, "namex") /\ s[p].path = <<>>
    /\ s' = [s EXCEPT ![p] = IF NameiParent(@) THEN Put(@, "w", Failed(@))
                             ELSE [@ EXCEPT !.pc = After(s[p]), !.ip = s[p].w, !.w = 0]]
    /\ UNCHANGED <<disk, table, fd, cwd, panicked>>

\* Stop one level early.
Stops(p) == NameiParent(s[p]) /\ Len(s[p].path) = 1

walk_parent(p) ==
    /\ At(p, "walk") /\ mem[s[p].w].type = "dir" /\ Stops(p)
    /\ iunlock(s[p].w)
    /\ s' = [s EXCEPT ![p].pc = After(s[p]), ![p].dp = s[p].w, ![p].w = 0,
                      ![p].name = Head(s[p].path), ![p].path = <<>>]
    /\ UNCHANGED <<disk, ref, valid, mem, fd, cwd, panicked>>

\* Not a directory, or no such entry.
walk_fails(p) ==
    /\ At(p, "walk")
    /\ \/ mem[s[p].w].type # "dir"
       \/ ~Stops(p) /\ dirlookup(s[p].w, Head(s[p].path)) = 0
    /\ iunlock(s[p].w)
    /\ s' = [s EXCEPT ![p] = [Put(@, "w", Failed(@)) EXCEPT !.path = <<>>]]
    /\ UNCHANGED <<disk, ref, valid, mem, fd, cwd, panicked>>

\* On to the next element.
walk(p) ==
    /\ At(p, "walk") /\ mem[s[p].w].type = "dir" /\ ~Stops(p)
    /\ LET i == dirlookup(s[p].w, Head(s[p].path)) IN
        /\ i # 0
        /\ iget(i)
        /\ iunlock(s[p].w)
        /\ s' = [s EXCEPT ![p] = [Put(@, "w", "namex") EXCEPT !.w = i, !.path = Tail(@)]]
    /\ UNCHANGED <<disk, mem, fd, cwd, panicked>>

-----------------------------------------------------------------------------
(* open(), close() and chdir().                                            *)

\* Unlock the inode in f, iput() it, and go on at l.
iunlockput(p, f, l) ==
    /\ iunlock(s[p][f])
    /\ s' = [s EXCEPT ![p] = Put(@, f, l)]
    /\ UNCHANGED <<disk, ref, valid, mem, fd, cwd, panicked>>

\* A directory can only be opened for reading.
open_check(p, omode) ==
    /\ At(p, "open_check")
    /\ IF mem[s[p].ip].type = "dir" /\ omode # "O_RDONLY"
       THEN iunlockput(p, "ip", "idle")
       ELSE /\ s' = [s EXCEPT ![p].pc = "opened"]
            /\ UNCHANGED <<disk, table, fd, cwd, panicked>>

\* filealloc() and fdalloc(); a process has one descriptor.
opened(p) ==
    /\ At(p, "opened")
    /\ IF fd[p] # 0
       THEN iunlockput(p, "ip", "idle")
       ELSE /\ fd' = [fd EXCEPT ![p] = s[p].ip]
            /\ iunlock(s[p].ip)
            /\ s' = [s EXCEPT ![p] = Start]
            /\ UNCHANGED <<disk, ref, valid, mem, cwd, panicked>>

close(p) ==
    /\ At(p, "idle") /\ "close" \in Calls[p] /\ fd[p] # 0
    /\ fd' = [fd EXCEPT ![p] = 0]
    /\ s' = [s EXCEPT ![p] = Put([Start EXCEPT !.ip = fd[p]], "ip", "idle")]
    /\ UNCHANGED <<disk, table, cwd, panicked>>

chdir_check(p) ==
    /\ At(p, "chdir_check")
    /\ IF mem[s[p].ip].type # "dir"
       THEN iunlockput(p, "ip", "idle")
       ELSE /\ iunlock(s[p].ip)
            /\ s' = [s EXCEPT ![p].pc = "iput", ![p].put = cwd[p], ![p].cont = "chdir_set"]
            /\ UNCHANGED <<disk, ref, valid, mem, fd, cwd, panicked>>

chdir_set(p) ==
    /\ At(p, "chdir_set")
    /\ cwd' = [cwd EXCEPT ![p] = s[p].ip]
    /\ s' = [s EXCEPT ![p] = Start]
    /\ UNCHANGED <<disk, table, fd, panicked>>

-----------------------------------------------------------------------------
(* create().                                                               *)

\* The name is there, or ialloc() begins.
create_look(p) ==
    /\ At(p, "create_look")
    /\ LET i == dirlookup(s[p].dp, s[p].name) IN
        IF i # 0
        THEN /\ iget(i)
             /\ iunlock(s[p].dp)
             /\ s' = [s EXCEPT ![p] = [Put(@, "dp", "create_old") EXCEPT !.ip = i]]
        ELSE /\ s' = [s EXCEPT ![p].pc = "ialloc", ![p].inum = 1]
             /\ UNCHANGED <<ref, valid, lock>>
    /\ UNCHANGED <<disk, mem, fd, cwd, panicked>>

\* Only open(O_CREATE) accepts what is there, and only a file.
create_check(p) ==
    /\ At(p, "create_check")
    /\ IF s[p].call = "create" /\ mem[s[p].ip].type = "file"
       THEN /\ s' = [s EXCEPT ![p].pc = "opened"]
            /\ UNCHANGED <<disk, table, fd, cwd, panicked>>
       ELSE iunlockput(p, "ip", "idle")

\* ialloc() reads one inode after the other, under the lock of its buffer only;
\* the directory stays locked.
ialloc(p) ==
    /\ At(p, "ialloc") /\ s[p].inum \in Inum
    /\ IF dinode[s[p].inum].type = "none"
       THEN /\ dinode' = [dinode EXCEPT ![s[p].inum] =
                 [type |-> IF s[p].call = "mkdir" THEN "dir" ELSE "file", nlink |-> 0]]
            /\ s' = [s EXCEPT ![p].pc = "ialloc_iget"]
       ELSE s' = [s EXCEPT ![p].inum = @ + 1] /\ UNCHANGED dinode
    /\ UNCHANGED <<dir, table, fd, cwd, panicked>>

\* The buffer is released before iget().
ialloc_iget(p) ==
    /\ At(p, "ialloc_iget")
    /\ iget(s[p].inum)
    /\ s' = [s EXCEPT ![p].pc = "create_new", ![p].ip = s[p].inum, ![p].inum = 0]
    /\ UNCHANGED <<disk, mem, lock, fd, cwd, panicked>>

\* No inode was free when ialloc() came to it.
ialloc_fails(p) == At(p, "ialloc") /\ s[p].inum \notin Inum /\ iunlockput(p, "dp", "idle")

IsDir(i) == mem[i].type = "dir"

\* nlink 1, the entries "." and "..", the entry in dp, dp's link for "..".
create_fill(p) ==
    /\ At(p, "create_fill")
    /\ LET i == s[p].ip
           d == s[p].dp
       IN  /\ iupdate([mem EXCEPT ![i].nlink = 1, ![d].nlink = IF IsDir(i) THEN @ + 1 ELSE @])
           /\ dir' = [dir EXCEPT ![i][".."] = IF IsDir(i) THEN d ELSE 0, ![d][s[p].name] = i]
           /\ iunlock(d)
    /\ s' = [s EXCEPT ![p] = Put(@, "dp", IF @.call = "mkdir" THEN "created" ELSE "opened")]
    /\ UNCHANGED <<ref, valid, fd, cwd, panicked>>

\* mkdir() has no use for the inode.
created(p) == At(p, "created") /\ iunlockput(p, "ip", "idle")

\* dirlink() fails: nlink 0 makes iput() free the inode.
create_fail(p) ==
    /\ At(p, "create_fill") /\ 1 \in NoSpace
    /\ iupdate([mem EXCEPT ![s[p].ip].nlink = 0])
    /\ iunlock(s[p].ip)
    /\ s' = [s EXCEPT ![p] = Put(@, "ip", "bad")]
    /\ UNCHANGED <<dir, ref, valid, fd, cwd, panicked>>

\* iunlockput(dp), the end of a failed create() or unlink().
bad(p) == At(p, "bad") /\ iunlockput(p, "dp", "idle")

-----------------------------------------------------------------------------
(* unlink() and link().                                                    *)

unlink_look(p) ==
    /\ At(p, "unlink_look")
    /\ IF s[p].name \in {".", ".."} \/ dirlookup(s[p].dp, s[p].name) = 0
       THEN iunlockput(p, "dp", "idle")
       ELSE LET i == dirlookup(s[p].dp, s[p].name) IN
            /\ iget(i)
            /\ s' = [s EXCEPT ![p].pc = "unlink_ip", ![p].ip = i]
            /\ UNCHANGED <<disk, mem, lock, fd, cwd, panicked>>

isdirempty(i) == \A n \in Name : dir[i][n] = 0

unlink_refused(p) ==
    /\ At(p, "unlink_do")
    /\ IsDir(s[p].ip) /\ ~isdirempty(s[p].ip)
    /\ mem[s[p].ip].nlink > 0
    /\ iunlockput(p, "ip", "bad")

\* Clear the entry, and drop dp's link for "..".
unlink_do(p) ==
    /\ At(p, "unlink_do")
    /\ LET i == s[p].ip
           d == s[p].dp
       IN  /\ mem[i].nlink < 1 \/ ~IsDir(i) \/ isdirempty(i)
           /\ panicked' = IF mem[i].nlink < 1 THEN 1 ELSE 0
           /\ dir' = [dir EXCEPT ![d][s[p].name] = 0]
           /\ iupdate(IF IsDir(i) THEN [mem EXCEPT ![d].nlink = @ - 1] ELSE mem)
           /\ iunlock(d)
    /\ s' = [s EXCEPT ![p] = Put(@, "dp", "unlink_dec")]
    /\ UNCHANGED <<ref, valid, fd, cwd>>

\* ip->nlink--, iupdate(), iunlockput(): at the end of unlink() and of a failed
\* link().
nlink_dec(p) ==
    /\ panicked = 0 /\ s[p].pc \in {"unlink_dec", "link_dec"}
    /\ iupdate([mem EXCEPT ![s[p].ip].nlink = @ - 1])
    /\ iunlock(s[p].ip)
    /\ s' = [s EXCEPT ![p] = Put(@, "ip", "idle")]
    /\ UNCHANGED <<dir, ref, valid, fd, cwd, panicked>>

\* Seeded fault: the new link is not counted.
link_inc_uncounted(p) ==
    /\ At(p, "link_inc")
    /\ IF IsDir(s[p].ip)
       THEN iunlockput(p, "ip", "idle")
       ELSE LET d == From(p, s[p].path2) IN
            /\ iunlock(s[p].ip)
            /\ iget(d)
            /\ s' = [s EXCEPT ![p].pc = "namex", ![p].w = d,
                              ![p].path = Elements(s[p].path2), ![p].path2 = <<>>]
            /\ UNCHANGED <<disk, mem, fd, cwd, panicked>>

\* One more link, then nameiparent() of the new path.
link_inc(p) ==
    /\ At(p, "link_inc")
    /\ IF IsDir(s[p].ip)
       THEN iunlockput(p, "ip", "idle")
       ELSE LET d == From(p, s[p].path2) IN
            /\ iupdate([mem EXCEPT ![s[p].ip].nlink = @ + 1])
            /\ iunlock(s[p].ip)
            /\ iget(d)
            /\ s' = [s EXCEPT ![p].pc = "namex", ![p].w = d,
                              ![p].path = Elements(s[p].path2), ![p].path2 = <<>>]
            /\ UNCHANGED <<dir, fd, cwd, panicked>>

link_do(p) ==
    /\ At(p, "link_do")
    /\ dirlookup(s[p].dp, s[p].name) = 0
    /\ dir' = [dir EXCEPT ![s[p].dp][s[p].name] = s[p].ip]
    /\ iunlock(s[p].dp)
    /\ s' = [s EXCEPT ![p] = Put(@, "dp", "linked")]
    /\ UNCHANGED <<dinode, ref, valid, mem, fd, cwd, panicked>>

\* Seeded fault: link() keeps its reference.
linked_no_iput(p) ==
    /\ At(p, "linked")
    /\ s' = [s EXCEPT ![p] = Start]
    /\ UNCHANGED <<disk, table, fd, cwd, panicked>>

linked(p) ==
    /\ At(p, "linked")
    /\ s' = [s EXCEPT ![p] = Put(@, "ip", "idle")]
    /\ UNCHANGED <<disk, table, fd, cwd, panicked>>

\* The name exists (dirlink() gets and puts its inode), or no block is left.
link_fails(p) ==
    /\ At(p, "link_do")
    /\ dirlookup(s[p].dp, s[p].name) # 0 \/ 1 \in NoSpace
    /\ iunlockput(p, "dp", "link_undo")

-----------------------------------------------------------------------------
Step(p) ==
    \/ ilock(p) \/ iput(p) \/ iput_free(p) \/ iput_unlock(p) \/ iput_drop(p)
    \/ namex_end(p) \/ walk_parent(p) \/ walk_fails(p) \/ walk(p)
    \/ \E omode \in {"O_RDONLY", "O_RDWR"} : open_check(p, omode)
    \/ opened(p) \/ chdir_check(p) \/ chdir_set(p)
    \/ create_look(p) \/ create_check(p) \/ ialloc(p)
    \/ ialloc_iget(p) \/ ialloc_fails(p)
    \/ create_fill(p) \/ created(p) \/ create_fail(p) \/ bad(p)
    \/ unlink_look(p) \/ unlink_refused(p) \/ unlink_do(p) \/ nlink_dec(p)
    \/ link_inc(p) \/ link_do(p) \/ linked(p) \/ link_fails(p)

Next == \E p \in Proc :
    \/ \E c \in Calls[p], path, path2 \in Paths : syscall(p, c, path, path2)
    \/ close(p) \/ Step(p)

Spec == Init /\ [][Next]_vars

-----------------------------------------------------------------------------
(* Safety.                                                                 *)

\* A pointer of p to i: a local variable, the open file or the current directory.
\* While chdir() puts the old directory, p->cwd still names it.
PointsTo(p, f, i) ==
    CASE f = "fd"  -> fd[p] = i
      [] f = "cwd" -> cwd[p] = i /\ "chdir_set" \notin {s[p].pc, s[p].cont}
      [] OTHER     -> s[p][f] = i

\* ref counts the pointers to the in-memory inode, exactly.
RefExact ==
    \A i \in Inum :
        ref[i] = Cardinality({<<p, f>> \in Proc \X {"w", "ip", "dp", "put", "fd", "cwd"} :
                                 PointsTo(p, f, i)})

\* "ip->ref == 1 means no other process can have ip locked, so this acquiresleep()
\* won't block (or deadlock)": it is called with itable.lock held.
IputNeverBlocks ==
    \A p \in Proc : At(p, "iput") /\ LastReference(s[p].put) => lock[s[p].put] = Nobody

\* Directories in the tree: linked, and no unlink() is about to drop the link.
Linked(d) ==
    /\ dinode[d].type = "dir" /\ dinode[d].nlink > 0
    /\ \A p \in Proc : "unlink_dec" \in {s[p].pc, s[p].cont} => s[p].ip # d

\* Their entries that refer to i, the root's ".." excepted.
Links(i) == {<<d, n>> \in Inum \X Entry : dir[d][n] = i /\ <<d, n>> # <<Root, "..">> /\ Linked(d)}

\* No entry in the tree dangles: it refers to an allocated inode whose nlink
\* counts it.
NoDanglingEntry ==
    \A i \in Inum : LET n == Cardinality(Links(i)) IN
        n > 0 => dinode[i].type # "none" /\ dinode[i].nlink >= n

\* An inode without links is not forgotten: somebody still holds a reference, or
\* ialloc() is about to take one, and the last one to drop it frees the inode on
\* disk.
UnlinkedIsHeld ==
    \A i \in Inum : dinode[i].type # "none" /\ dinode[i].nlink = 0 =>
        ref[i] > 0 \/ \E p \in Proc : At(p, "ialloc_iget") /\ s[p].inum = i

\* "ilock: no type", "unlink: nlink < 1": no process meets an inode that is free,
\* or an entry that is not counted.
NoPanic == panicked = 0
=============================================================================
