-------------------------------- MODULE Mkfs --------------------------------
(***************************************************************************)
(* mkfs (mkfs/mkfs.c): the program that builds the first disk image.  It   *)
(* is sequential, so it is a function from the files given to it to the    *)
(* image it leaves; the kernel's block layer (module Blocks) starts from   *)
(* that image.                                                             *)
(*                                                                         *)
(* A cell is the unit of file contents and the size of a block number; a   *)
(* block is BSIZE cells, and a directory entry is one cell, which holds    *)
(* the inode number.  Inodes are kept apart from the blocks they lie in.   *)
(***************************************************************************)
EXTENDS Naturals, Sequences, SequencesExt

CONSTANTS
    BSIZE,      \* cells in a block
    BPB,        \* bits in a bitmap block
    IPB,        \* inodes in a block
    NDIRECT,    \* direct blocks of an inode
    FSSIZE, LOGSIZE, NINODES,
    Files       \* the files named on the command line: a sequence of sequences of cells

ASSUME MkfsAssumption ==
    /\ BSIZE \in Nat \ {0} /\ BPB \in Nat \ {0} /\ IPB \in Nat \ {0}
    /\ NDIRECT \in Nat \ {0} /\ LOGSIZE \in Nat \ {0}
    /\ FSSIZE \in Nat /\ NINODES \in Nat
    /\ Files \in Seq(Seq(Nat)) /\ Len(Files) + 1 < NINODES

NINDIRECT == BSIZE
MAXFILE == NDIRECT + NINDIRECT
ROOTINO == 1
Inum == 1 .. NINODES - 1
Sector == 0 .. FSSIZE - 1

nbitmap == FSSIZE \div BPB + 1
ninodeblocks == NINODES \div IPB + 1
nmeta == 2 + LOGSIZE + ninodeblocks + nbitmap

zeroes == [k \in 0 .. BSIZE - 1 |-> 0]
dinode(type, nlink) ==
    [type |-> type, nlink |-> nlink, size |-> 0, addrs |-> [k \in 0 .. NDIRECT |-> 0]]

\* fails: an assertion of mkfs failed.
blank == [din |-> [i \in Inum |-> dinode("none", 0)], sect |-> [s \in Sector |-> zeroes],
          freeinode |-> 1, freeblock |-> nmeta, used |-> {}, fails |-> FALSE]

ialloc(im, type) ==
    [im EXCEPT !.din[im.freeinode] = dinode(type, 1), !.freeinode = @ + 1]

\* The block an offset of an inode lies in: allocated from freeblock if it has none.
map_direct(im, inum, fbn) ==
    IF im.din[inum].addrs[fbn] # 0 THEN im
    ELSE [im EXCEPT !.din[inum].addrs[fbn] = im.freeblock, !.freeblock = @ + 1]

map_indirect(im, inum, fbn) ==
    LET im1 == map_direct(im, inum, NDIRECT)
        ind == im1.din[inum].addrs[NDIRECT]
    IN  IF im1.sect[ind][fbn - NDIRECT] # 0 THEN im1
        ELSE [im1 EXCEPT !.sect[ind][fbn - NDIRECT] = im1.freeblock, !.freeblock = @ + 1]

\* One cell of iappend()'s loop, which copies as many as fit in the block.
iappend_cell(im, inum, c) ==
    LET off == im.din[inum].size
        fbn == off \div BSIZE
        im1 == IF fbn < NDIRECT THEN map_direct(im, inum, fbn) ELSE map_indirect(im, inum, fbn)
        addrs == im1.din[inum].addrs
        x == IF fbn < NDIRECT THEN addrs[fbn] ELSE im1.sect[addrs[NDIRECT]][fbn - NDIRECT]
    IN  IF im.fails \/ fbn >= MAXFILE THEN [im EXCEPT !.fails = TRUE]
        ELSE [im1 EXCEPT !.sect[x][off % BSIZE] = c, !.din[inum].size = @ + 1]

iappend(im, inum, p) == FoldLeft(LAMBDA i, c : iappend_cell(i, inum, c), im, p)

\* "." and ".." of the root.
root_dir == iappend(ialloc(blank, "dir"), ROOTINO, <<ROOTINO, ROOTINO>>)

\* One round of main()'s loop over the files.
add_file(im, contents) ==
    LET inum == im.freeinode
    IN  iappend(iappend(ialloc(im, "file"), ROOTINO, <<inum>>), inum, contents)

\* Seeded fault: a block too many.
fix_root_size_twice(im) == [im EXCEPT !.din[ROOTINO].size = ((@ \div BSIZE) + 2) * BSIZE]

\* "fix size of root inode dir".
fix_root_size(im) == [im EXCEPT !.din[ROOTINO].size = ((@ \div BSIZE) + 1) * BSIZE]

balloc(im) ==
    [im EXCEPT !.used = 0 .. im.freeblock - 1, !.fails = @ \/ im.freeblock >= BPB]

image == balloc(fix_root_size(FoldLeft(add_file, root_dir, Files)))
=============================================================================
