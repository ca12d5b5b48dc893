------------------------------ MODULE FsBlocks ------------------------------
(***************************************************************************)
(* The blocks of the file system: fs/fs.c and fs/ide.c under the requests  *)
(* of fs/serv.c.  Block b of the disk, when in memory, is a page of the    *)
(* server that is never unmapped again; clients map the same pages, write  *)
(* to them, and announce with a request what they wrote.                   *)
(*                                                                         *)
(* The server handles one request at a time.  What a client writes to its  *)
(* page meanwhile counts from the moment it is announced.                  *)
(***************************************************************************)
EXTENDS FsFormat

CONSTANTS
    Motd,  \* the file fs_test rewrites
    Sizes, \* sizes clients ask for
    Pages  \* numbers of pages the kernel may have left for a request

\* The files are all in the root directory.  If the disk filled its bitmap
\* blocks, read_bitmap would take the block after them for another one.
ASSUME FsBlocksAssumption ==
    /\ Motd \in File
    /\ Dir = {}
    /\ \A f \in File : \E i \in DOMAIN Source : Source[i].file = f
    /\ NBlocks % BIT2BLK # 0
    /\ Sizes \subseteq Nat /\ Pages \subseteq Nat

Reserved == 0 .. 2 + NBlocks \div BIT2BLK
Home     == Image.home
ERROR    == -1

VARIABLES
    fs,     \* the disk and the memory of the server
    stage,  \* "init" after fs_init, "serving" after fs_test
    opened, \* the files an entry of opentab points to
    held,   \* pairs of a block and the file a client has mapped it for
    last    \* the request just served, if it saves files: its name, the files

vars == <<fs, stage, opened, held, last>>

Plain     == <<"plain", {}>>
Closed(f) == <<"close", {f}>>
Synced    == <<"sync", File>>

\* fs.free      the blocks whose bit in the bitmap is set
\* fs.size, fs.direct, fs.indirect   of each file; a pointer 0 is none
\* fs.entry     of each block: its entries if it is an indirect block
\* fs.named     the files that have not been removed
\* fs.mapped    the blocks in memory
\* fs.dirty     the blocks with dirty_flags
\* fs.announced the blocks a client has announced a change to that have not
\*              been written since
\* fs.owed      the blocks changed in memory, by the server or so announced, that
\*              have not been written since
\* fs.pages     pages the kernel can still allocate in this request
\* fs.status    "ok", "panic" of the server in read_block or write_block, "nomem"
\*              (the fault handler found no page when the kernel copied a block
\*              to a page that was missing), or "stopped" by a panic of fs_test
Init ==
    /\ fs = [free     |-> Free,
             size     |-> Image.size,
             direct   |-> Image.direct,
             indirect |-> Image.indirect,
             entry    |-> Image.entry,
             named    |-> AllFiles,
             mapped   |-> Reserved,
             dirty    |-> {},
             announced |-> {},
             owed     |-> {},
             pages    |-> 0,
             status   |-> "ok"]
    /\ stage = "init"
    /\ opened = {}
    /\ held = {}
    /\ last = Plain
-----------------------------------------------------------------------------
(* Each operation of fs.c takes the state to a state and a result, a block *)
(* number, 0 or ERROR.                                                     *)

\* The early return of an operation that calls another: "if (r < 0) return r".
Then(o, Step(_)) == IF o.r = ERROR THEN o ELSE Step(o)

Panic(s) == [s EXCEPT !.status = "panic"]

\* The contents of block b in memory have changed.
Owe(s, b) == [s EXCEPT !.owed = @ \cup {b}]

WriteBlock(s, b) ==
    IF b \in s.mapped
    THEN [s EXCEPT !.dirty = @ \ {b}, !.owed = @ \ {b}, !.announced = @ \ {b}]
    ELSE Panic(s)

IsDirty(s, b) == b \in s.mapped /\ b \in s.dirty

\* The bitmap block that has the bit of b.
BitmapBlock(b) == 2 + b \div BIT2BLK

\* Mutant: a set bit means free.
FreeBlock_SetsBit(s, b) == Owe([s EXCEPT !.free = @ \cup {b}], BitmapBlock(b))

\* free_block clears the bit.
FreeBlock(s, b) == Owe([s EXCEPT !.free = @ \ {b}], BitmapBlock(b))

\* alloc_block_num: the first free block; the block it writes is not the
\* bitmap block.
AllocBlockNum(s) ==
    LET free == {b \in s.free : b >= 3}
    IN  IF free = {} THEN Out(s, ERROR)
        ELSE LET b == CHOOSE b \in free : \A c \in free : b <= c
                 t == Owe([s EXCEPT !.free = @ \ {b}], BitmapBlock(b))
             IN  Out(WriteBlock(t, b \div BIT2BLK), b)

\* A new page for block b, which the kernel clears.
MapBlock(s, b) ==
    IF b \in s.mapped THEN Out(s, 0)
    ELSE IF s.pages = 0 THEN Out(s, ERROR)
    ELSE Out([s EXCEPT !.mapped = @ \cup {b}, !.pages = @ - 1,
                       !.entry[b] = NoEntries], 0)

AllocBlock(s) ==
    LET keep(m, b) == IF m.r = ERROR THEN Out(FreeBlock(m.s, b), ERROR) ELSE Out(m.s, b)
    IN  Then(AllocBlockNum(s), LAMBDA a : keep(MapBlock(a.s, a.r), a.r))

\* read_block ignores the result of syscall_mem_alloc.
ReadBlock(s, b) ==
    IF b \in s.free THEN Panic(s)
    ELSE IF b \in s.mapped THEN s
    ELSE IF s.pages = 0 THEN [s EXCEPT !.status = "nomem"]
    ELSE [s EXCEPT !.mapped = @ \cup {b}, !.pages = @ - 1]

\* file_block_walk: the state in which the pointer to block n of f can be
\* read; Pointer and SetPointer are the *ppdiskbno it returns.
FileBlockWalk(s, f, n, alloc) ==
    IF n < NDIRECT THEN Out(s, 0)
    ELSE IF n >= NINDIRECT THEN Out(s, ERROR)
    ELSE IF s.indirect[f] # 0 THEN Out(ReadBlock(s, s.indirect[f]), 0)
    ELSE IF ~ alloc THEN Out(s, ERROR)
    ELSE Then(AllocBlock(s), LAMBDA a :
             Out(ReadBlock(Owe([a.s EXCEPT !.indirect[f] = a.r], Home[f]), a.r), 0))

Pointer(s, f, n) == IF n < NDIRECT THEN s.direct[f][n] ELSE s.entry[s.indirect[f]][n]
SetPointer(s, f, n, b) ==
    IF n < NDIRECT THEN Owe([s EXCEPT !.direct[f][n] = b], Home[f])
    ELSE Owe([s EXCEPT !.entry[s.indirect[f]][n] = b], s.indirect[f])

\* Mutant: the result of alloc_block is not checked.
FileMapBlock_Unchecked(s, f, n, alloc) ==
    LET set(a) == Out(SetPointer(a.s, f, n, a.r), a.r)
    IN  Then(FileBlockWalk(s, f, n, alloc), LAMBDA w :
            IF Pointer(w.s, f, n) # 0 THEN Out(w.s, Pointer(w.s, f, n))
            ELSE IF ~ alloc THEN Out(w.s, ERROR)
            ELSE set(AllocBlock(w.s)))

FileMapBlock(s, f, n, alloc) ==
    LET set(a) == Out(SetPointer(a.s, f, n, a.r), a.r)
    IN  Then(FileBlockWalk(s, f, n, alloc), LAMBDA w :
            IF Pointer(w.s, f, n) # 0 THEN Out(w.s, Pointer(w.s, f, n))
            ELSE IF ~ alloc THEN Out(w.s, ERROR)
            ELSE Then(AllocBlock(w.s), set))

FileGetBlock(s, f, n) ==
    Then(FileMapBlock(s, f, n, TRUE), LAMBDA m : Out(ReadBlock(m.s, m.r), m.r))

FileClearBlock(s, f, n) ==
    LET free(w) == IF Pointer(w.s, f, n) = 0 THEN w
                   ELSE Out(SetPointer(FreeBlock(w.s, Pointer(w.s, f, n)), f, n, 0), 0)
    IN  Then(FileBlockWalk(s, f, n, FALSE), free).s

FileDirty(s, f, n) ==
    Then(FileGetBlock(s, f, n),
         LAMBDA g : Out(Owe([g.s EXCEPT !.dirty = @ \cup {g.r},
                                        !.announced = @ \cup {g.r}], g.r), 0)).s

\* The number of blocks file_truncate and file_flush reckon with.
NBlock(size) == size \div BY2BLK + 1

\* Mutant: the test of block_is_dirty is dropped.
WriteDirty_Unchecked(s, b) == WriteBlock(s, b)

\* The body of the loops of file_flush and fs_sync.
WriteDirty(s, b) == IF IsDirty(s, b) THEN WriteBlock(s, b) ELSE s

FlushBlock(s, f, n) ==
    Then(FileMapBlock(s, f, n, FALSE), LAMBDA m : Out(WriteDirty(m.s, m.r), 0)).s

\* Mutant: the last block is forgotten when the size is not a multiple.
FileFlush_RoundsDown(s, f) ==
    LET flush(t, n) == FlushBlock(t, f, n)
    IN  FoldLeft(flush, s, Upto(0, s.size[f] \div BY2BLK))

FileFlush(s, f) ==
    LET flush(t, n) == FlushBlock(t, f, n)
    IN  FoldLeft(flush, s, Upto(0, NBlock(s.size[f])))

\* The loop of file_truncate.
ClearBlocks(s, f, m, n) ==
    LET clear(u, i) == FileClearBlock(u, f, i) IN FoldLeft(clear, s, Upto(m, n))

\* Mutant: the indirect block is freed after the loop, and f_indirect kept.
FileTruncate_KeepsIndirect(s, f, size) ==
    LET new == IF size = 0 THEN 0 ELSE NBlock(size)
        u   == ClearBlocks(s, f, new, NBlock(s.size[f]))
        t   == IF new <= NDIRECT /\ u.indirect[f] # 0
               THEN FreeBlock_SetsBit(u, u.indirect[f]) ELSE u
    IN  Owe([t EXCEPT !.size[f] = size], Home[f])

\* file_truncate: with few blocks left, the indirect block is dropped before
\* the blocks behind it are looked for.
FileTruncate(s, f, size) ==
    LET new == IF size = 0 THEN 0 ELSE NBlock(size)
        t   == IF new <= NDIRECT THEN [s EXCEPT !.indirect[f] = 0] ELSE s
        u   == ClearBlocks(t, f, new, NBlock(s.size[f]))
    IN  Owe([u EXCEPT !.size[f] = size], Home[f])

\* file_set_size and file_close of a file that dir_lookup has found: f_dir is
\* the root directory.
FileSetSize(s, f, size) ==
    LET t == IF s.size[f] > size THEN FileTruncate(s, f, size) ELSE s
    IN  FileFlush(Owe([t EXCEPT !.size[f] = size], Home[f]), Root)

FileClose(s, f) == FileFlush(FileFlush(s, f), Root)

\* dir_lookup in the root directory for the files in `sought`, by the block
\* the entry is in; 0 stands for success.
FURTHER == 1
LookInBlock(o, sought, n) ==
    LET look(g) == Out(g.s, IF g.r = ERROR THEN ERROR
                            ELSE IF g.r \in {Home[f] : f \in sought \cap g.s.named}
                            THEN 0 ELSE FURTHER)
    IN  IF o.r # FURTHER \/ o.s.status # "ok" THEN o ELSE look(FileGetBlock(o.s, Root, n))

LookInBlocks(o, sought, n) ==
    LET next(p, i) == LookInBlock(p, sought, i) IN FoldLeft(next, o, Upto(0, n))

DirLookup(s, sought) ==
    LET o == LookInBlocks(Out(s, FURTHER), sought, s.size[Root] \div BY2BLK)
    IN  IF o.r = 0 THEN o ELSE Out(o.s, ERROR)

FileRemove(s, f) ==
    LET remove(d) == Owe([FileTruncate(d.s, f, 0) EXCEPT !.named = @ \ {f}], Home[f])
    IN  Then(DirLookup(s, {f}), LAMBDA d : Out(FileClose(remove(d), f), 0)).s

\* Mutant: the last block of the disk is left out.
FsSync_OneShort(s) == FoldLeft(WriteDirty, s, Upto(0, NBlocks - 1))

FsSync(s) == FoldLeft(WriteDirty, s, Upto(0, NBlocks))
-----------------------------------------------------------------------------
(* The requests                                                            *)

\* The server goes on from s, unless it has stopped on the way.
Settle(s) ==
    fs' = IF s.status = "ok" THEN [s EXCEPT !.pages = 0] ELSE [fs EXCEPT !.status = s.status]

\* The server handles a request that takes it to s, if it comes that far.
Become(s) ==
    /\ fs.status = "ok" /\ stage = "serving"
    /\ Settle(s)

With(k) == [fs EXCEPT !.pages = k]

\* fs_test, on every start: a block is allocated and forgotten, a file that
\* does not exist is looked for, and Motd is rewritten with a text shorter than
\* a block, which nothing marks as dirty.  It panics where the disk is full or
\* Motd missing or empty.
FsTest ==
    LET stop     == [fs EXCEPT !.status = "stopped"]
        save(o)  == IF o.r = ERROR THEN stop
                    ELSE FileClose(FileFlush(Owe(o.s, o.r), Motd), Motd)
        grow(s)  == IF s.direct[Motd][0] # 0 THEN stop
                    ELSE save(FileGetBlock(FileSetSize(s, Motd, 1), Motd, 0))
        clear(o) == IF o.r = ERROR THEN stop
                    ELSE grow(FileSetSize(FileFlush(o.s, Motd), Motd, 0))
        read(o)  == IF o.r = ERROR THEN stop ELSE clear(FileGetBlock(o.s, Motd, 0))
        look(o)  == read(DirLookup(o.s, {Motd}))
        find(o)  == IF o.r = ERROR \/ o.r \notin fs.free \/ o.r \in o.s.free THEN stop
                    ELSE look(DirLookup(o.s, {}))
    IN  /\ stage = "init"
        /\ stage' = "serving"
        /\ Settle(find(AllocBlock(With(NBlocks))))
        /\ last' = Plain
        /\ UNCHANGED <<opened, held>>

ServeOpen(f, k) ==
    LET d == DirLookup(With(k), {f})
    IN  /\ Become(d.s)
        /\ opened' = IF d.r = 0 THEN opened \cup {f} ELSE opened
        /\ last' = Plain
        /\ UNCHANGED <<stage, held>>

\* serve_map sends the page of the block to the client.
ServeMap(f, n, k) ==
    LET g == FileGetBlock(With(k), f, n)
    IN  /\ f \in opened
        /\ Become(g.s)
        /\ held' = IF g.r # ERROR /\ g.s.status = "ok" THEN held \cup {<<g.r, f>>} ELSE held
        /\ last' = Plain
        /\ UNCHANGED <<stage, opened>>

ServeDirty(f, n, k) ==
    /\ f \in opened
    /\ Become(FileDirty(With(k), f, n))
    /\ last' = Plain
    /\ UNCHANGED <<stage, opened, held>>

ServeSetSize(f, size, k) ==
    /\ f \in opened
    /\ Become(FileSetSize(With(k), f, size))
    /\ last' = Plain
    /\ UNCHANGED <<stage, opened, held>>

ServeClose(f, k) ==
    /\ f \in opened
    /\ Become(FileClose(With(k), f))
    /\ last' = Closed(f)
    /\ UNCHANGED <<stage, opened, held>>

ServeRemove(f, k) ==
    /\ Become(FileRemove(With(k), f))
    /\ last' = Plain
    /\ UNCHANGED <<stage, opened, held>>

ServeSync ==
    /\ Become(FsSync(fs))
    /\ last' = Synced
    /\ UNCHANGED <<stage, opened, held>>

\* file_close of a client unmaps the file.
ClientUnmap(f) ==
    /\ fs.status = "ok"
    /\ \E h \in held : h[2] = f
    /\ held' = {h \in held : h[2] # f}
    /\ last' = Plain
    /\ UNCHANGED <<fs, stage, opened>>

Next ==
    \/ FsTest
    \/ ServeSync
    \/ \E f \in File :
         \/ ClientUnmap(f)
         \/ \E k \in Pages :
              \/ ServeOpen(f, k)
              \/ ServeClose(f, k)
              \/ ServeRemove(f, k)
              \/ \E n \in FileBno : ServeMap(f, n, k) \/ ServeDirty(f, n, k)
              \/ \E size \in Sizes : ServeSetSize(f, size, k)

Spec == Init /\ [][Next]_vars
-----------------------------------------------------------------------------
TypeOK ==
    /\ fs.free \subseteq Block /\ fs.mapped \subseteq Block /\ fs.dirty \subseteq Block
    /\ fs.owed \subseteq Block /\ fs.announced \subseteq Block
    /\ fs.size \in [AllFiles -> Nat]
    /\ fs.direct \in [AllFiles -> [0 .. NDIRECT - 1 -> Block]]
    /\ fs.indirect \in [AllFiles -> Block]
    /\ fs.entry \in [Block -> [NDIRECT .. NINDIRECT - 1 -> Block]]
    /\ fs.named \subseteq AllFiles
    /\ fs.status \in {"ok", "panic", "nomem", "stopped"}
    /\ stage \in {"init", "serving"}
    /\ opened \subseteq File /\ held \subseteq Block \X File
    /\ last \in {Plain, Synced} \cup {Closed(f) : f \in File}

\* The block of file block n of f, 0 if none, and the places of pointers;
\* INDIRECT stands for f_indirect.
INDIRECT == -1
BlockOf(f, n) ==
    IF n < NDIRECT THEN fs.direct[f][n]
    ELSE IF fs.indirect[f] = 0 THEN 0 ELSE fs.entry[fs.indirect[f]][n]
Places == (AllFiles \X FileBno) \cup (AllFiles \X {INDIRECT})
At(p) == IF p[2] = INDIRECT THEN fs.indirect[p[1]] ELSE BlockOf(p[1], p[2])
Used == {At(p) : p \in Places} \ {0}

\* No block serves two purposes: whatever was allocated, truncated, regrown
\* and removed, two pointers of files never lead to the same block, nor one
\* to the super block, the bitmap or a block of struct Files.
BlocksExclusive ==
    /\ \A p, q \in Places : At(p) = At(q) /\ At(p) # 0 => p = q
    /\ Used \cap Reserved = {}

\* A block that a file uses is marked as in use, so that alloc_block_num
\* never hands it out and read_block never panics on it.
UsedIsMarked == Used \cap fs.free = {}

\* None of the server's panics is reachable, also when the disk or the memory
\* is full in the middle of a request.
NeverPanics == fs.status # "panic"

\* A page that a client has mapped for a file, and may still write to after
\* others have truncated or removed that file, never becomes a block of
\* another file or an indirect block.
NoAlias ==
    \A h \in held : \A p \in Places :
        At(p) = h[1] => p[1] = h[2] /\ p[2] # INDIRECT

\* The blocks of f within its size to which a change was announced that is not
\* on the disk, behind direct and indirect pointers.
Unwritten(f) ==
    {n \in FileBno : n * BY2BLK < fs.size[f] /\ BlockOf(f, n) \in fs.announced}

\* When the server has just closed a file, every change to it that any client has
\* announced within its size is on the disk, whatever the file was through
\* between: file_flush finds every one of its blocks (file_close).
CloseSaves ==
    last[1] = "close" /\ fs.status = "ok" => \A f \in last[2] : Unwritten(f) = {}

\* "we can free the blocks that were used by the old bigger version"
\* (file_truncate), "Mark a block as free in the bitmap" (free_block): a block
\* that a request takes from a file can be allocated again.
DroppedIsFree == [][stage = "serving" /\ fs'.status = "ok" => Used \ Used' \subseteq fs'.free]_vars

\* After a sync no block of a regular file that a client has announced a change
\* to is left unwritten, whatever the file has become since (fs_sync).
SyncSavesFiles ==
    last[1] = "sync" /\ fs.status = "ok" => \A f \in last[2] : Unwritten(f) = {}

\* "Sync the entire file system.  A big hammer." (fs_sync): after a sync every
\* block that was changed in memory is on the disk.  The code does not keep this:
\* the bitmap, the root directory and the text of fs_test stay in memory.
SyncSavesAll == last[1] = "sync" /\ fs.status = "ok" => fs.owed = {}
=============================================================================
