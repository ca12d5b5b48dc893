# Specifications of the JOS kernel (ARMv7 port)

This directory holds TLA+ specifications of the operating system in this
repository, a port of the BUAA JOS teaching system to ARMv7, with the TLC
configurations that check them on small instances and proofs checked by TLAPS.

## 1. Inventory

The system is a small exokernel for one CPU: a kernel that manages pages,
environments (processes) and a synchronous message primitive; a file server
that runs as an environment; and a user library. The kernel runs with
interrupts off, so that each system call and each interrupt is one atomic step.
Concurrency comes from the timer, which may interrupt user code between any two
instructions, and from the fact that a system call may switch to another
environment.

| part | source | state | operations | calls / shares |
|---|---|---|---|---|
| pages | `mm/pmap.c`, `include/pmap.h` | `pages[]` (`pp_ref`, list link), `page_free_list`, directories and tables | `page_alloc`, `page_free`, `page_decref`, `pgdir_walk`, `page_insert`, `page_lookup`, `page_remove`, `pageout` | called by environments and system calls |
| environments | `lib/env.c` | `envs[]`, `env_free_list`, `curenv`, counter of `mkenvid` | `env_alloc`, `env_setup_vm`, `load_icode`, `env_create_priority`, `env_free`, `env_destroy`, `env_run`, `envid2env` | allocates and releases pages; on and off the run list |
| scheduler | `lib/sched.c`, `lib/irq.c` | `env_sched_list`, static `iter` and `ts` | `sched_yield`, `irq_handler` | reads `env_status`, `env_pri` |
| lists | `include/queue.h` | the links inside the elements | `LIST_INSERT_HEAD`, `LIST_REMOVE` | used by pages, environments, scheduler |
| system calls | `lib/svc.c` | the IPC fields of `struct Env` | memory, environment, IPC and device calls | all of the above |
| fork, exit | `user/fork.c`, `user/libos.c` | `envid`, the program's own id | `fork`, `_exit` | two system calls, interruptible in between |
| user IPC | `user/ipc.c`, `user/fsipc.c` | request page | `ipc_send` (polls), `ipc_recv`, `fsipc` | system calls; the server's loop |
| file blocks | `fs/fs.c`, `fs/ide.c` | disk, bitmap, block cache mapped at `DISKMAP`, dirty bits in page tables | `read_block`, `alloc_block`, `free_block`, `file_get_block`, `file_truncate`, `file_flush`, `fs_sync` | the server's address space is the cache |
| directories | `fs/fs.c` | `struct File` entries in blocks | `walk_path`, `dir_lookup`, `dir_alloc_file`, `file_create`, `file_remove` | file blocks |
| file server | `fs/serv.c` | `opentab[]`, one page per open file | `serve_open`, `_map`, `_set_size`, `_close`, `_remove`, `_dirty`, `_sync` | page reference counts decide which entry is free |
| descriptors | `user/fd.c`, `user/file.c` | descriptor pages and data pages in the client | `open`, `close`, `dup`, `read`, `write`, `seek`, `ftruncate` | shares the descriptor page with the server |
| trap frames | `lib/*.S`, `lib/irq.c`, `include/stackframe.h` | frames at `EXCSTACK` and `KSTACKTOP`, `env_tf` of each environment | save, restore, copy to a child, store the value of a message | scheduler, system calls |
| pipes, console | `user/pipe.c`, `user/console.c` | descriptor pages, the page of the pipe | `pipe`, `opencons`, `close`, `dup` | page counts of the kernel; `fork` and `_exit` share and release both pages |
| printing | `lib/print.c`, `lib/printf.c`, `user/fprintf.c` | the buffer of `lp_Print` and of `fprintf` | `lp_Print` and its conversions | output functions; `cons_write` |
| image | `tools/fsformat.c` | the disk before the first start | `init_disk`, `write_file`, `write_directory`, `flush_bitmap` | the file system reads it |
| boot, drivers | `boot/`, `drivers/` | – | – | – |

What is hard in each part, and what makes it correct:

- **Pages.** Counts and pointers must agree through every order of map, share,
  unmap, fork, page fault and exit, also when the last page is taken in the middle of
  an operation. Correct: no page that is free can be reached, tables and
  directories are never shared or mapped, the kernel's walks never meet a page
  that is not a table, and pages are not lost.
- **Environments and scheduler.** The lists are intrusive; an environment leaves the
  run list when it blocks or dies while the scheduler's iterator points to it.
  Correct: the run list is exactly the set of runnable environments, no slot is
  lost or used twice, a blocked environment can be woken, and every
  runnable one gets the CPU again and again.
- **IPC.** No queue: a send succeeds only while the receiver waits. Correct: each
  message is received exactly once, by the environment it was sent to, with the
  page that was sent, and a sender that keeps polling gets through.
- **File system.** The bitmap, the reachable blocks, the cache and the disk must
  agree after each operation and after a flush. Nothing is recovered after
  a restart: there is no journal and no check at start.
- **Trap frames.** There is one exception stack and one frame on it; the kernel copies it
  to the environment it leaves and restores another, writes into the frames of receivers and
  children, and keeps one more frame for the idle loop. Correct: nobody continues with a
  frame of somebody else or one that was never saved.
- **Pipes.** Whether the other end is closed is known only from two page counts, which
  change one after the other. Correct: descriptors are whole whenever a program is between
  calls, and the counts tell a closed pipe.
- **Printing.** Flags, widths, signs and the smallest integer in every combination, with
  a buffer of fixed size.
- **Server and clients.** A request and its reply are two rendezvous; the server
  recognises free entries by page counts that clients change by `close`,
  `dup`, `fork` and `_exit`.

`PROJECT.json` lists every component with its status, and the hazards with the
source line where each one bites.

## 2. Plan

| step | modules | composes / refines | proofs | state |
|---|---|---|---|---|
| 1 | `Pmap`, `PageStore`, `PmapProofs` | `Pmap` implements `PageStore` | type, counts, no use after free, tables, refinement | proved |
| 2 | `Queue`, `EnvSched`, `RunQueue` | `EnvSched` instantiates `Queue`, implements `RunQueue` | every invariant, both action properties, the safety half of the refinement | proved |
| 3 | `FsBlocks` | the file system under the server's requests | every property of the run `FsBlocks` | proved |
| 4 | `FsServ`, `RemoteCall` | clients, messages and server over `opentab`; implements `RemoteCall` | every invariant, the safety half of the refinement | proved |
| 5 | `EnvSchedProofs`, `FsServProofs`, `IpcProofs`, `PipeProofs`, `FsFormatProofs`, `FsBlocksProofs`, `LpPrintProofs`, more of `PmapProofs` | | those of steps 1, 2, 3, 4, 6, 7, 8 and 9 | done |
| 6 | `Ipc`, `Rendezvous` | arbitrary programs over the two kernel calls, with the frames the messages travel in; implements `Rendezvous` | every invariant, the action property, the safety half of the refinement | proved |
| 7 | `FsFormat` | the image `FsBlocks` starts from | the image is sound | proved |
| 8 | `Pipe` | pipes and console descriptors over page counts | every invariant | proved |
| 9 | `LpPrint` | `lp_Print` and its callers, against a definition of what formats mean | the run's invariant | proved |
| 10 | variants of `FsServ` | a request page shared after fork; `dup` together with `ftruncate` | | open |

The order follows the dependencies: everything else rests on pages and
environments, and the file server rests on messages and on page counts.

## 3. Pages: `Pmap`

**State.** Every pointer the kernel's reference counts are about is one slot of
the function `ptr`: for each environment its directory, the entry of the
directory for each table, and the entry of the table for each page address. `pp_ref` is
the count of `struct Page`, and `free` the pages of `page_free_list`, as a set: the code takes
the head of the list, the model any page of it, so that nothing checked here depends on
the order. All operations of `mm/pmap.c` release some slots, fill others, and take pages from the
list; the operator `Update` says what that does to counts and list, and
each action gives the slots. Permission bits, and the masks `page_insert` and the calls put on
them (`mm/pmap.c:355`, `379`), are left out.

| action | code |
|---|---|
| `EnvCreate` | `env_create_priority`: `env_setup_vm`, `load_icode_mapper` with its own `++pp_ref` |
| `SysMemAlloc`, `SysMemMap`, `SysMemUnmap` | the calls of `lib/svc.c`, with `page_insert`'s removal of the old page and `pgdir_walk`'s allocation of the table, and every way to run out of pages |
| `Pageout` | the fault handler: a page is allocated for any faulting user address |
| `SysEnvAlloc` | the copy of the parent's address space, which may stop anywhere |
| `EnvFree` | `env_free`: all mappings, then tables, then the directory |

**Checked** (run `Pmap`: 7 pages, 2 environments): `TypeOK`; `RefCovers`, a count is never
smaller than the number of pointers; `FreeUnreferenced`, what is
on the free list has no pointer; `TablesExclusive`, a page serves as a
table or directory at one place only and is not mapped; `NothingElseLeaks`, a page is
lost (neither free nor counted exactly by its pointers) only where the code loses one: the loader and
`pageout` count their pages twice, `sys_mem_alloc` forgets its page when that was the last one and a table is
missing, and `env_free` forgets what lies above `UTOP`; and
`ImplementsPageStore`, the refinement of `PageStore`, in which a page is just
free, lost, or held by a bag of owners, without counts. Seven pages are the fewest with which
two environments, each with a directory, a table and a data page, can exist and
run out of memory at every allocation of an operation.

**Disagreements** with the comments, known from the model without a run of their own: the loader and
`pageout` count pages twice, so that the memory of exited programs is not reclaimed; `fork` shares
writable pages although `user/fork.c` speaks of copies; a failing `sys_mem_alloc` loses the page it
took (`PageStore` has such pages as "lost").

**Proved** (`PmapProofs`, for every number of pages, environments and addresses):
the inductive invariant `Invariant` has the type invariant, `RefCovers`,
and the fact that pages on the free list have count 0 and are listed once. `RefCovers` alone
is not inductive: a page taken from the free list must be known to have no pointer yet,
which is `FreeUncounted`, and removing a pointer frees a page only when its count
reaches 0, so that the count must be an upper bound before the step. From it follow
`TypeCorrect`, `CountsCover`, `NoUseAfterFree` and, with a step-by-step simulation,
`Refinement`. The theorems assume `CapRefs`, that no count reaches the width of
`pp_ref`: `page_insert` does not check, and with `CapRefs` FALSE and a small `RefMod` TLC finds a mapped page on the free list.
`TablesApart` is about `TablesExclusive`, which is inductive only with `Invariant` and with a fact about the data, that an entry
is in use only under a table in use under a directory in use (`Walkable` in the proofs): an operation may take a free page for a new table because nothing points there, and
an environment may go because its tables are its own. `LeaksNowhereElse` follows each handler's pointers and counts (`UpdateAccounts`): of
the pages that were accounted for, only those that `Leak` names are not afterwards. That a fork cut short loses nothing once its child is
destroyed is the part of it that a change to `env_free` breaks first.

## 4. Environments and the scheduler: `EnvSched`, `Queue`, `RunQueue`

**State.** The fields of `struct Env` that life cycle and scheduling use, each as a
function over slots; `env_free_list` as a sequence; `env_sched_list` pointer by
pointer (`Queue` has the macros of `include/queue.h` on a record of links, with the links of
removed elements left as they are, as the code does); the statics `iter`, `ts` and
`next_env_id`; `curenv`; and what the CPU does. Two variables are about user
code: `forking` is the child a `fork()` has got and not started yet, and `lost` are the
children whose `fork()` was cut short.

| action | code |
|---|---|
| `EnvCreate`, `StartTimer` | `armv7_init` |
| `Timer` | `irq_handler` followed by `sched_yield` |
| `SysYield` | `sys_yield` |
| `SysEnvAlloc`, `ForkStart` | the two calls of `fork()`; the timer, and the parent's own parent, may come between them |
| `SysEnvDestroy` | `sys_env_destroy`, `env_destroy`, `env_free`, and `sched_yield` when it was the caller |
| `SysSetEnvStatus` | `sys_set_env_status` with each status |
| `SysIpcRecv`, `SysIpcCanSend` | blocking and waking |

`sched_yield`'s loop becomes `NextTurn`: an environment in the iteration
that is not runnable uses up its slices without running, so that the loop gives the CPU to the first
runnable one, and hangs when there is none although the list is not empty
(`cpu = "spin"`). A `LIST_REMOVE` through a NULL `le_prev` is `cpu = "panic"`.

The constant `Calls` says what programs do, so that what holds for programs that use
the library can be told from what holds for all:

| run | programs | result |
|---|---|---|
| `EnvSched` | fork, exit, yield, messages, killing a runnable child | `TypeOK`, `RunListExact`, `SlotsConserved`, `RunningOwnsTurn`, `KernelSurvives`, `BlockedIsWaiting`, `NewAreNotReceiving`, and `FairScheduler`, the refinement of `RunQueue` with its liveness |
| `EnvSchedAny` | every call on every environment, memory running out in `fork` | `FreeListSound`; `ListBreaksOnlyHere`, `env_sched_list` is only ever broken by the removal of an environment that is not runnable, or by the status `ENV_FREE`; the system may panic or hang, so deadlock is not checked |

`ListBreaksOnlyHere` says what is left of `RunListExact` for arbitrary programs: destroying a child that is blocked or
was never started removes it from a list it is not on, through stale links or through address 0.
It names these steps and does not judge them.
Two more disagreements can be seen by giving `Calls` other values: `SlotsConserved` fails once a
program uses `ENV_FREE` as a status, because `my_set_env_status` sets it before it tries to free
the environment, and `NewAreNotReceiving` fails once a receiver is destroyed, because nothing
resets `env_ipc_recving`.

**Bounds.** Three slots (two in `EnvSchedAny`), boot priorities 2 and 1, so that slices
matter; identifiers keep one bit of their counter instead of eight (`IdMod = 2`), so that
they repeat and identifier 0 occurs. A parent whose child has the identifier 0 takes itself for the child and never starts it (`mkenvid`,
`lib/env.c:37`); such a child is in `lost` with those whose `fork()` was cut short, and `BlockedIsWaiting` and `SlotsConserved` exempt both. Three elements are enough for an insert at the head and
removes at the head, in the middle and at the end, with a stale iterator at each place. No symmetry
is used: slots are numbers and their order matters.

**Fairness.** The boot code runs to its end and the timer ticks again and again
(`WF_vars(Machine)`): timer2 is set to reload itself, and every frame the kernel restores has interrupts
on. Nothing is assumed of programs: they may compute for ever between calls.

**Proved** (`EnvSchedProofs`, for every number of slots and of identifiers, and every order in which environments are created at boot), by
three invariants, each for the programs it holds for:

- Whatever programs do, `AnyInv` holds: types, `FreeListSound`, and the current environment is not on the free list. It
  gives `TypeCorrect`, `FreeSlotsFree` and `ListBreaks`. The last one rests on what each handler does to `env_sched_list`:
  from a list that is right, an insert at the head or a remove of a member leaves a right one, so that only a remove of
  somebody else is left to break it.
- Unless programs call `sys_set_env_status` on their own (`"status" \notin Calls`), `SlotInv` holds too, from which follow
  `NoSlotLost` and `NoWakeUpLost`. The identifier of an environment must be known to lead back to its slot, or
  `fork()` could start another child than the one it has got.
- For library programs, which besides destroy no child that is not runnable (`Calls` without `"orphan"` and `"status"`),
  `LibInv` describes the run list pointer by pointer: `Holds(sched, Runnable)`. There is an
  order of the runnable environments in which each `le_next` and `le_prev` says who is next and who is before. Holds alone is not enough: the
  scheduler reads the link of an element that may just have left the list (`iter`), so that `IterSound` has to say where `iter` is in each
  state of the CPU, `ReceiversBlocked` that a message wakes nobody who is on the list already, and `ForkSound` that the same goes for the second
  call of `fork()`. From it follow `RunListRight`, `TurnsOwned`, `KernelAlive`, `NewDoNotReceive` and `SafeScheduler`,
  that every step is one of `RunQueue` or none.

The liveness half of `FairScheduler` stays with TLC.

## 5. The file system: `FsFormat` and `FsBlocks`

**Image.** `FsFormat` has the functions of `tools/fsformat.c` as operators from an image to an image: `InitDisk`, then
`WriteFile` for each file, with the order in which blocks, links and the indirect block take their numbers (the block a
link is made for is taken after the link to it), then `WriteDirectory`, and the bitmap, in which the blocks behind the last one
used are free. `FsBlocks` starts from `Image`, so that its blocks are where the tool puts them.

**State.** One record `fs` is the disk and the memory of the server: the bitmap (`free`, the
blocks whose bit is set), size, direct pointers and indirect block of each file, the entries of indirect
blocks, which blocks are in memory (`mapped`) and have `dirty_flags` (`dirty`), and three
things that the code does not have as data: `announced`, the blocks to which a client has announced a change that has not
been written since; `owed`, these and the blocks the server itself has changed, the bitmap, `struct File`s, indirect blocks and the
text of `fs_test` among them; and `pages`, how many pages the kernel
can still give in this request. Outside the server there are `opened`, the files with an entry
of `opentab`, `held`, the pages clients have mapped, and `last`, whether the request just served was a close (of which
file), an `fs_sync`, or another one.

Each function of `fs/fs.c` is an operator with its name, from a state to a state and a
result; `Then` is the early return after a failed call. A request of `fs/serv.c`
is an action, atomic because nobody but the server touches this state while it
handles one; what a client writes to its page meanwhile counts from the request that
announces it. `FsTest` is `fs_test`, which runs on every start, before the first request; its own panics (`fs/test.c:27-84`) are
the status `stopped`, and the text it copies into the file's block behind `file_dirty`'s back (`fs/test.c:86`) is `owed` and never written. A panic, or a fault the
kernel has no page for, ends the system (`fs.status`), so deadlock is not checked. `walk_path` returns the root itself for the
paths "" and "/" (`fs/fs.c:643-697`), so that a client could resize or remove the root; clients of the model name regular files.

**Checked** (run `FsBlocks`): `TypeOK`; `BlocksExclusive`, no block serves two purposes;
`UsedIsMarked`, the bitmap agrees with the pointers; `NeverPanics`, with disk and memory full at any
point; `NoAlias`, a page a client still maps never becomes a block of another file; `CloseSaves`,
when a file has just been closed, no change announced to it within its size is unwritten; `SyncSavesFiles`, the same for all files after an `fs_sync`. Both are
about the state after the request (`last`), so that a request that writes nothing does not satisfy them unless there is nothing to write. `NoAlias` holds for a bad reason: since `free_block` never
frees anything, no block has a second life. Its mutant, a `free_block` that sets the bit, is the correction of
that fault, and breaks it: the code has nothing else that keeps clients from
writing to blocks that were given to others.

**Proved** (`FsBlocksProofs`, on `FsFormatProofs`): every property of the run, for every size of disk and blocks, every list of files and every
amount of memory the kernel has left at each request.

- *Induction.* `Inv` is `Sound(fs)` and `HeldSound`. `Sound` has the types, and then `TreeSound` (a place that has a pointer has one to a block
  that is neither free nor reserved, and no two places have the same), `HomesSound` (a block of `struct File`s is no data block) and `CacheSound` (what is free is
  not in memory; a data block with an announced change is dirty). The properties of the run are not inductive alone: that an allocation harms nobody needs that free blocks are unused,
  `CloseSaves` needs that the dirty flag knows of every announced change, and neither survives a write to a block of `struct File`s that a client could reach.
- *Steps.* One lemma per function of `fs/fs.c` says that it takes a sound state to a sound one, and `Grows`: each place keeps its block, loses it, or gets
  one that was free. `Grows` is what the clients' pages rest on (`HeldStays`). It holds also when a request stops half way, since the lemmas are about each call and not about requests.
- *Loops.* `file_flush`, `fs_sync`, `file_truncate`, `dir_lookup` and the loops of the tool are folds. `FoldExists`, `Chain` and `UpTo` in `FsFormatProofs` turn a fold
  into a sequence of states `at[0]`, `at[1]`, ... that begins and ends where the loop does, along which facts are handed on. For this the body of each loop is an operator of its own.
- *Image.* `ImageGood`: whatever files the tool is given, as long as they fit, its image has different blocks at different places, each file's entry in a block of the
  root directory, and nothing in the reserved blocks. The tool asserts only that no file is too large; `ImageAssumption` says what it does not look at, the size of the disk and
  the direct pointers of directories. `InitSound` then starts the induction.

`FsBlocksAssumption` has one numeric edge: the number of blocks is no multiple of the bits in a block (the disk has 1024 blocks, a block 32768 bits). For a disk that filled its bitmap
blocks, `read_bitmap` would take one block more for the bitmap than the tool reserved, and `Reserved` would hold the first block the tool gives to a file.

**Disagreements found:** blocks are never free again (`FsBlocksFree`: `free_block` clears
the bit, as the allocation does). Known from the model without a run of its own: `fs_sync`, "a big hammer", leaves most of what the server changed unwritten
(`SyncSavesAll`, as an invariant of `FsBlocks`, fails after two steps): the bitmap,
directories, indirect blocks and the text of `fs_test` are never written, since the allocation writes the wrong block and only `file_dirty`
sets `dirty_flags`. That is why `CloseSaves` and `SyncSavesFiles` speak of `announced` and not of `owed`.

**Bounds.** Eleven blocks: the three reserved ones, one of the root directory, four of two files, one of
which has an indirect block, and three free ones, so that the disk fills up in the middle of an allocation
of two blocks. One direct and one indirect pointer per file; clients set the sizes 1 and 3, within the first and the second block of two units, and
`fs_test` and removals set 0. The kernel has no page or enough pages in a request. One bitmap
block. No fairness: the properties are safety.

## 6. The file server and its clients: `FsServ`, `RemoteCall`

**State.** `opentab` and the pages of its entries (`filefd`), the sizes of the files, what the server is doing
(`srv`: blocked in `ipc_recv`, handling a request, polling in `ipc_send`), and for each client
what its program is doing (`task`, the local variables of the library function it is in),
how far it is with `fsipc` (`ipc`), its descriptors (`fdtab`) and the pages mapped behind each of them (`window`).
The constant `Failures` says which requests for memory may fail: for the `"page"` of an entry (`fs/serv.c:58-61`), a `"block"` of the
directory in `file_open` (`fs/fs.c:554`), the page `"table"` of a client when an answer carries a page (`lib/svc.c:472-475`), and the one that `"dup"` needs.
`pageref` is not a variable: it is the number of places the page is mapped at (`Pmap`'s `RefCovers`
and exact for these pages, which only `sys_mem_alloc`, `sys_mem_map` and messages map).

| action | code |
|---|---|
| `IpcSend`, `IpcRecv` | `fsipc`: the poll of `ipc_send` that finds the server receiving, then `ipc_recv` |
| `ServeOpen`, `Fill` | `serve_open` with its errors; each turn of the loop of `open_alloc` is a step, since each reads a page count by a system call |
| `ServeMap`, `ServeDirty`, `ServeSetSize`, `ServeClose`, `ServeRemove`, `ServeSync` | the handlers; whether a block can be had is nondeterministic here and detailed in `FsBlocks` |
| `IpcReply`, `IpcReplyFails` | the server's poll that finds the client receiving, with the page the kernel maps; or the error that makes its `ipc_send` panic, after which the server answers nobody (`"stuck"`) |
| `ServeLoop` | the next turn, or what `serve_open` does after an error: it goes on, with the null pointer of `file_open`, or with an entry pointer that was never set, which stops the kernel or is any entry |
| `Open`, `OpenAnswered`, `MapAnswered` | `open` between its requests |
| `Close`, `DirtyAnswered`, `CloseAnswered` | `close` and `file_close`; `Dup`, `DupMap`, `DupFails`, `Exit`, `CloseAll` go on from there |
| `Ftruncate`, `ResizeAnswered`, `ExtendAnswered`, `LastAnswered` | `ftruncate`, also as `file_write` calls it |

A poll that fails changes nothing and is no step.

**Checked.** Run `FsServ`, two clients of which one uses `dup` and `_exit`, while memory lasts but for `dup`: `DescriptorsSound`, an
entry is not reused while a client maps its page; `RequestsReachFile`, no request is refused or reaches another file; `EntriesSuffice`,
`open_alloc` always finds an entry, so that they come back; and `ServesCalls`, the
refinement of `RemoteCall`: calls are served one at a time, each handled and answered exactly
once, and while clients try one of them gets through. Run `FsServSizes`, one client that resizes files while another one
removes them, with blocks and tables failing: `TypeOK`; `RequestsReachFile` once more, with ids that differ between uses of an entry; `WindowSound`, no page of
a file opened earlier is left in a descriptor. The system may stop there, so deadlock is not checked. No run has `"page"`, with which `DescriptorsSound` and `RequestsReachFile`
do not hold (below).

A client that is destroyed by its parent while the server works for it is left out: `sys_ipc_can_send` then returns an error (`lib/svc.c:458-461`) and
`ipc_send` panics the server (`user/ipc.c:27`), so that no later call of anybody is served. The liveness of `ServesCalls` is about systems where neither that nor a missing
page table happens.

**Proved** (`FsServProofs`, for every number of clients, descriptors, entries, files and ids), in three layers, each
an invariant that is inductive with the ones before:

- `TalkInv`, the conversation: the server works for the one client that waits, what it will answer fits what was asked, and each program is at one place of one
  library call. It needs nothing of programs. From it follow `TypeCorrect` and `OneCallAtATime`, that every step is one of `RemoteCall` or none.
- `EntryInv`, entries and descriptors: also what a client has in its registers, the id it will send and the descriptor it opens or copies, goes
  with the entries that are mapped; a close or a resize is never refused, and an entry that is about to be answered is shared with nobody. It gives `DescriptorsKept`,
  `RequestsKnown` and `EntriesFound`, under two assumptions. `EnoughEntries`: `opentab` has at least as many entries as there are descriptors to be had.
  `EnoughPages`: the kernel has a page for an entry that is opened for the first time (`"page" \notin Failures`), since `serve_open` otherwise stores through a
  pointer that was never set (`fs/serv.c:112`), perhaps into an entry in use, and none of the three properties is left. The other failures are covered. With the two
  the loop of `open_alloc` finds an entry by counting: while a client opens a file one descriptor is not mapped yet, the mapped ones
  are fewer than the entries, and so one entry has none. Without some such bound `EntriesSuffice` is false, and `serve_open` uses the same
  pointer when all entries are in use. The 1024 entries of the code are enough for 33 programs that use all 31 descriptors `fd_alloc` finds, or for 32
  that use the last one by `dup` too; the kernel has slots for 1024 programs.
- `PageInv`, the pages behind descriptors: they are pages of the file, within the size the descriptor has, also in the middle of the loops
  of `open`, `ftruncate` and `close`. It gives `WindowsSound`, under `EnoughEntries`, `EnoughPages` and `DupOrTruncate`, that no program uses both `dup` and `ftruncate`.

The liveness half of `ServesCalls` stays with TLC. `TypeCorrect` and `OneCallAtATime` need none of these assumptions. Both runs satisfy all three.

**Disagreement found:** `open` of a file that does not exist stops the kernel (`FsServOpen`).
Known from the model without a run: without a page for the entry `serve_open` uses a pointer that was never set (`SurvivesErrors` fails with `Failures = {"page"}` too, without any file
removed); a program that uses `ftruncate` on one of
two descriptors made by `dup` breaks `WindowSound` (give one client both calls), because size is shared and pages are not;
with more open files than entries, the second answer of `serve_open` and the client's next request wait for each other for ever.

**Bounds.** `FsServ` has three entries, of which an open can find at most two in use; two descriptors for each client, the
first for `fd_alloc` and the second for `dup` only, as the last of the 32 is; two files, of one page and of none, so that a stale
page shows; `IdMod = 1`, so that file ids do not help to tell uses of an entry apart. `FsServSizes` has files of up to two pages
and two ids. Sizes are whole pages.

**Fairness.** The server and each client that is in a library call keep going (`WF`): by `FairScheduler` of
`EnvSched` every runnable environment gets the CPU again and again, a poller polls each time, and a receiver that waits goes on
waiting. A send of a client is only weakly fair: the server may always be busy when it polls, so that one client can be
passed over for ever, and `RemoteCall` promises only that some client is served. Programs need not call.


## 7. Messages and trap frames: `Ipc`, `Rendezvous`

**State.** `regs` is what an exception would save now, `env_tf` the saved frame of each environment and `kstack_tf` the one at
`KSTACKTOP`. A frame has where its program is, `r0`, and the arguments of the library call it is in. A frame that
has been restored, or given up, counts as garbage, so that a second use of it would show. `recving` is `env_ipc_dstva` while
`env_ipc_recving` is set, `env_parent_id` who may set the frame of an environment, `whom` what the kernel has stored for the receiver, `pte` the page at each of two addresses:
a buffer, and 0, at which a message's page is mapped when the receiver asked for none.

| action | code |
|---|---|
| `Timer` | `irq_entry.S`, `irq_handler` with `save_trapframe`, `sched_yield`, then `env_run` or `load_trapframe` |
| `SysEnvAlloc`, `ForkReturns`, `ForkFails` | the two calls of `fork()` and what it does without a free slot |
| `SysEnvDestroy`, `SysYield`, `SysMem` | exit, `sys_yield`, mapping and unmapping the buffer |
| `SysSetTrapframe` | `sys_set_trapframe`: a parent replaces the saved frame of its child, wherever that is, by one in code of the program's own |
| `SysIpcRecv`, `RecvReturns` | `ipc_recv`: the switch inside `sys_ipc_recv`, and the program that continues from the frame |
| `IpcSend`, `SysIpcCanSend`, `SendYields` | `ipc_send`: the call, each poll with each of its results, the `sys_yield` between them |

Which runnable environment runs next is open (`EnvSched` has the list), and so is the slot a child gets.

**Checked.** `FramesSeparate`: the idle loop is only continued with its own frame, no program with the frame of
the idle loop or with garbage. `ContextsKept` (action property): while another environment runs, nothing changes in one's
registers but `r0` of a receiver when its message comes, and those of a child when its own parent sets them. `ForkSound`: between the two calls of `fork()` the child stands behind
the same call with 0, whatever else happens. `Delivered`: the refinement of `Rendezvous`, where a receiver that waits is given one offer,
whole, by the environment that made it, or the offer is given up; with its liveness: an offer to a receiver that goes on waiting is not
made for ever, and who was served continues. In `Rendezvous` an offer whose receiver is gone may reach a new environment: identifiers
repeat after 256 creations. A page that is not mapped shows as an offer that is given up although `ipc_send` returns.

What is left out:

- The return of `sys_ipc_recv` for an address above `UTOP` (`lib/svc.c:418`), and the `-E_INVAL` for such an address that makes `ipc_send` panic: programs pass 0 or
  a buffer. The `-E_INVAL` of a receiver that is gone, or for whose page no table is left, is there.
- The destruction of an environment by its parent (`EnvSched` has it); environments exit on their own.
- Programs that set frames, where messages are concerned: a receiver that is taken out of `ipc_recv` stays marked as waiting, and loses what it gets. `Delivered` is checked without them.
- Shared memory: `fork()` shares the stack (`lib/svc.c:294`), so that parent and child write over each other's local variables and return addresses.
  The arguments and places of the frames here are those of programs that do not; in the code that takes luck.
- The store of `r0` into a frame of the idle loop that a system call has just restored (`lib/svc_entry.S:64`): the loop uses no `r0`.

**Bounds.** Run `Ipc`: three slots, one value, one page, all calls, the setting of frames included; messages go to the slot in the middle, from a competitor, from itself and from its children.
Run `IpcMessages`: the same programs without frames, `sys_yield`s and changes of the buffer, with `Delivered`: two senders, each of which may be a child of the other or of the receiver, compete for one receiver.
Identifiers have no bit of their counter in these runs, so that they repeat at once and that of slot 0 is 0; what was sent to a dead environment
finds its successor. Deadlock is checked: the timer always ticks.

**Fairness.** `WF` on getting the CPU, for each environment: it stays runnable until it runs, and that it then does is `FairScheduler` of `EnvSched`. `SF` on getting on with the library call it is
in while it has the CPU: the timer period is longer than the few instructions of a poll. Code of programs' own is not fair.

**Proved** (`IpcProofs`, for every number of slots, identifiers, values, pages and addresses). `IInv` has the type invariant and, of each environment,
where its frame is at this moment and what it holds: who runs has used up its saved frame while one of the idle loop waits at `KSTACKTOP`
(`CpuSound`); a frame is one of a program, and has what the program needs to go on (`FrameSound`); who is receiving stands behind
`ipc_recv` with the address that the kernel keeps, unless its frame has been given up or set (`RecvSound`); and the child that `fork()` has got stands behind the same call
and belongs to one parent only, the one who is in `fork()` and so sets no frame (`ChildSound`). All of them go into one another: that a reply is written to the right frame needs
`RecvSound`, and that the child a parent starts is not somebody who waits for a message needs `ChildSound`. From `IInv` follow `TypeCorrect`,
`FramesApart`, `ChildWaits` and the action property in `FramesKept`, whatever programs call, and, unless they set frames (`FramesLeftAlone`), `SafeMessages`, that every step is one of `Rendezvous` or none.
The liveness half of `Delivered` stays with TLC.

## 8. Pipes and console descriptors: `Pipe`

**State.** For each environment and descriptor the page of the descriptor and the first page behind it, the content of descriptor pages,
and the library call each environment is in. `PageRef` counts mappings, as `sys_va_ref` does. A step is one system call, so that other environments
and `env_free` come between any two. Every call that maps may fail. `dup` does not look at its second argument (`user/fd.c:144-147`) and would
map at whatever address it comes to; programs of the model pass a descriptor number.

**Checked** (run `Pipe`: two environments, three descriptors, of which the last is for `dup` only, as 31 is, and three pages, the fewest a pipe
needs). `DescriptorsWhole`: between calls a program has whole descriptors only, whatever failed in `pipe()` with its
four labels or in `dup`. `LooksClosed`: the comment of `_pipeisclosed`, which is not written yet, on the counts the rest of the code keeps:
they are equal when the other end is gone, and otherwise only while somebody is inside `close`, which unmaps the pipe before the
descriptor. Whoever writes `_pipeisclosed` has to allow for that window. No fairness; exited programs leave nothing to do,
so deadlock is not checked.

**Proved** (`PipeProofs`, for every number of environments, descriptors and pages). `PipeInv` says for each step of `pipe()`, `dup` and `close`
which descriptors are whole and what the ones in work look like (`TaskSound`), which is what the error labels of `pipe()` need; that pages nobody has written to yet are
private; that a page serves as a descriptor or as a pipe and never as both (`Apart`), that contents are those of pages that are mapped (`Clean`), so that a page which is
used again starts empty, and that a pipe has one page for its readers and one for its writers (`TwoEnds`). From it follow `WholeDescriptors`
and `PipeLooksClosed`. The latter counts: a pipe is mapped behind each descriptor of its two ends that is not
inside `close`; if an end has as many descriptors as its pipe has mappings and none of its own is inside `close`, nothing is left for the other end but
descriptors that are.

## 9. Formatted output: `LpPrint`

**State.** The rest of the format and of the arguments, what has been written, and where `lp_Print` is. A behaviour is one call of `printf`,
`fprintf` or `cons_write`. `Scan` is the text up to the next `%`, `Percent` a conversion with its prefixes, `ConsWrite` the next piece of console data. `PrintNum`
builds a number from its end and reverses it, as the code does.

**Checked** (run `LpPrint`): `PrintsItems`. The caller means a list of items (texts, conversions with flags) and has spelled it as a format; what comes out
is what `Text` says of the items, a definition that does not follow the code; a call that returns has no text longer than the buffer, and one that halts or overruns the buffer has.
That items can be told apart is assumed of the caller (`WellFormed`): a text is all between two conversions, a width is an `int` without a leading zero, only the last conversion
may lack its character, and `%c` gets one. What the code does otherwise than one might expect is part of the statement: a precision is read and ignored, a conversion is in the buffer before
its length is tested (`smashed`; texts only halt), pieces of 127 characters of `cons_write` do not fit the 80 of `LP_MAX_BUF`, and `fprintf` stores each piece over the one before.

**Bounds.** Integers of 5 bits, in which the smallest one is its own negation; a buffer of ten characters, pieces of 13 instead of 127 against 80; widths below, at
and above the buffer; all flags; items alone, in pairs, and between texts. Data has no NUL: a `%c` of NUL without a larger width looks to the output functions
like the call that ends the text (`lib/print.c:215`, `lib/printf.c:21`), and prints nothing.

**Proved** (`LpPrintProofs`): `PrintsCorrectly`, which is `PrintsItems` for every set of characters, every list of items, every width and integer, and every size of the word, of the buffer and
of the pieces. The argument has three parts.

- *Numbers.* `PrintNum` divides until nothing is left; `Numeral` is the shortest string of digits that has the value. `ReversedIsNumeral` says that they are one when turned around
  (`LastFirst` is what the loop has found: enough digits, no zero in front, each the right one). `LayoutIs` then does sign, zeros and blanks, which the code puts on the
  reversed number, and `NumberPrinted` has the smallest integer, whose negation is right only as an unsigned long.
- *Formats.* `FlagsIs`: what `lp_Print` finds behind a `%` is what the caller spelled there, whatever follows. Each prefix is taken from a format that
  goes on with something else (`AtMinus`, `AtZero`, ... and their lemmas); this is where a width without a leading zero and a conversion character that is no flag are needed.
- *Calls.* `IInv`. With items, there is a number `i` such that the format and the arguments are those of the items after the first `i`, all texts so far have fitted, and what is written
  is what these items say (`Written`, also for the overwriting buffer of `fprintf`); before a conversion and at the end this `i` is pinned down by `status`. For `cons_write`, what is printed, the piece in the format
  and the data that are left make up the data, and the first piece is too long if and only if the call is. Both are inductive, `PrintsItems` alone is not: it is silent until the call ends.

Induction goes over sets, not over operators: what holds at 0 and is handed on holds up to `n` (`UpTo`, from the least element of the rest), and a recursive function is shown to be
the one function that its definition describes before its values are used (`StepsExist`, `SpellsExist`). `Char` is a constant of which only the characters of the code are known (`CharAssumption`); the run takes all strings.

## 10. Not modelled

- Boot set-up, device registers, `lcontext`, `tlb_invalidate`: one sequential pass over constants, or the hardware.
- Page contents, permission bits and the access checks that only they decide.
- Aborts inside the kernel, whose frame would overwrite the one on the exception stack; `Ipc` has no page faults, `Pmap` has their effect on pages.
- `piperead`, `pipewrite`, `_pipeisclosed`: unwritten stubs that return an uninitialised value. `read`, `write`, `seek` and `stat` of files and `cons_read`
  change contents and seek positions of one program.
- Subdirectories, names and `dir_alloc_file`: no request creates a file.
- Inputs that the sections above leave out: addresses above `UTOP` in `sys_ipc_recv` and `ipc_send`, the destruction of an environment by its parent in the
  middle of a message or a request, the paths "" and "/", a `%c` of NUL, a second argument of `dup` that is no descriptor; and what parent and child do to each other's
  stack, which `fork()` shares.
- `user/string.c`, `tools/bintoc.c`, ELF parsing: pure data.

## 11. What is proved and what is only checked

| module | proved for every value of the constants | with TLC only |
|---|---|---|
| `Pmap` | all that its run checks, while no `pp_ref` overflows | |
| `EnvSched` | all invariants and action properties, the safety half of `FairScheduler` | fairness of the scheduler |
| `FsFormat`, `FsBlocks` | all that the run `FsBlocks` checks, from every image of a tree that fits | |
| `FsServ` | all invariants, with memory and entries for every descriptor; the safety half of `ServesCalls` without that | that some client gets through |
| `Ipc` | all invariants, `ContextsKept`; the safety half of `Delivered` unless programs set frames | that offers are taken or given up |
| `Pipe` | all that its run checks | |
| `LpPrint` | all that its run checks | |

Liveness needs fairness and `ENABLED`, about which the provers cannot reason. The theorems rest on the named assumptions on constants, which TLC evaluates in each run:
sets of environments, clients and pages are finite, and the value that stands for "no page", "no descriptor" or "no environment" is none of them. Where a theorem holds for some
programs only, or with enough entries, it says so in its hypothesis, and the section above says why; the runs satisfy the hypotheses
of the properties they check, but for those of `EnvSchedAny`, which need none.
