------------------------------ MODULE FsFormat ------------------------------
(***************************************************************************)
(* The file system image that tools/fsformat writes on the build host and  *)
(* that the file server finds on its disk.  The image is the result of a   *)
(* sequential program: init_disk, then every file or directory of Source   *)
(* in the order in which the command line or readdir names it, then        *)
(* flush_bitmap.                                                           *)
(***************************************************************************)
EXTENDS Integers, Sequences, FiniteSets, SequencesExt

CONSTANTS
    NBlocks,   \* NBLOCK, written to s_nblocks
    NDIRECT,   \* block pointers in a struct File
    NINDIRECT, \* the number of blocks of a file is smaller than this
    BY2BLK,    \* bytes of a block
    BIT2BLK,   \* bits of a block
    FILE2BLK,  \* struct Files of a block
    File,      \* the regular files
    Dir,       \* the directories below the root
    Root,      \* the root directory, s_root
    Source     \* the files and directories, each after its directory

Block     == 0 .. NBlocks - 1
FileBno   == 0 .. NINDIRECT - 1
AllFiles  == File \cup Dir \cup {Root}
NBitBlock == (NBlocks + BIT2BLK - 1) \div BIT2BLK

\* save_block_link asserts that no file is too large.
ASSUME FsFormatAssumption ==
    /\ {NBlocks, NDIRECT, NINDIRECT, BY2BLK, BIT2BLK, FILE2BLK} \subseteq Nat \ {0}
    /\ NDIRECT < NINDIRECT
    /\ Root \notin File \cup Dir /\ File \cap Dir = {}
    /\ Source \in Seq([file : File \cup Dir, dir : Dir \cup {Root},
                       size : 0 .. NINDIRECT * BY2BLK])

\* A step of a program that returns a value: the new state and the value.
Out(s, r) == [s |-> s, r |-> r]

\* The numbers from m to n - 1, in order.
Upto(m, n) == [i \in 1 .. n - m |-> m + i - 1]

NoEntries == [n \in NDIRECT .. NINDIRECT - 1 |-> 0]

\* next     nextbno
\* home     of each file: the block that holds its struct File
\* size, direct, indirect   of each file; a pointer 0 is none
\* entry    of each block: its entries if it is an indirect block
InitDisk ==
    [next     |-> 2 + NBitBlock,
     home     |-> [f \in AllFiles |-> IF f = Root THEN 1 ELSE 0],
     size     |-> [f \in AllFiles |-> 0],
     direct   |-> [f \in AllFiles |-> [n \in 0 .. NDIRECT - 1 |-> 0]],
     indirect |-> [f \in AllFiles |-> 0],
     entry    |-> [b \in Block |-> NoEntries]]

NextBlock(d) == Out([d EXCEPT !.next = @ + 1], d.next)

\* A new indirect block is taken after the block that is linked.
SaveBlockLink(d, f, n, b) ==
    LET index(i) == [i.s EXCEPT !.indirect[f] = i.r]
        t == IF d.indirect[f] = 0 THEN index(NextBlock(d)) ELSE d
    IN  IF n < NDIRECT THEN [d EXCEPT !.direct[f][n] = b]
        ELSE [t EXCEPT !.entry[t.indirect[f]][n] = b]

\* The number of the block to come is linked before it is taken.
MakeLinkBlock(d, dir, n) ==
    NextBlock([SaveBlockLink(d, dir, n, d.next) EXCEPT !.size[dir] = @ + BY2BLK])

\* The first struct File without a name in the last block of the directory.
CreateFile(d, dir, f) ==
    LET n    == d.size[dir] \div BY2BLK
        last == d.direct[dir][n - 1]
        room == Cardinality({g \in AllFiles : d.home[g] = last}) < FILE2BLK
        o    == IF n > 0 /\ room THEN Out(d, last) ELSE MakeLinkBlock(d, dir, n)
    IN  [o.s EXCEPT !.home[f] = o.r]

\* Each block of the file is taken, then linked.
LinkBlock(d, f, n) == LET o == NextBlock(d) IN SaveBlockLink(o.s, f, n, o.r)
LinkBlocks(d, f, n) ==
    LET link(u, i) == LinkBlock(u, f, i) IN FoldLeft(link, d, Upto(0, n))

WriteFile(d, e) ==
    LET t == [CreateFile(d, e.dir, e.file) EXCEPT !.size[e.file] = e.size]
    IN  LinkBlocks(t, e.file, (e.size + BY2BLK - 1) \div BY2BLK)

WriteDirectory(d, e) ==
    IF e.file \in Dir THEN CreateFile(d, e.dir, e.file) ELSE WriteFile(d, e)

Image == FoldLeft(WriteDirectory, InitDisk, Source)

\* The tool does not see to it that the files fit on the disk, nor that every
\* directory does with its direct pointers, among which create_file looks for
\* its last block.
ASSUME ImageAssumption ==
    /\ Image.next <= NBlocks
    /\ \A d \in Dir \cup {Root} : Image.size[d] \div BY2BLK <= NDIRECT

\* flush_bitmap: the blocks whose bit stays set.
Free == {b \in Block : b >= Image.next}
=============================================================================
