------------------------------- MODULE FsServ -------------------------------
(***************************************************************************)
(* The file server and its clients: the loop and the table of open files   *)
(* of fs/serv.c, the descriptors of user/fd.c and user/file.c, and the     *)
(* messages of user/fsipc.c and user/ipc.c that connect them.              *)
(*                                                                         *)
(* A descriptor is a page.  The server has one for each entry of opentab   *)
(* and maps it to the client that opens the file; dup maps it once more.   *)
(* The entry is free again when only the server is left with the page.     *)
(*                                                                         *)
(* Environments run concurrently: a step is one system call that others    *)
(* can notice, with what the program does on its own around it.            *)
(***************************************************************************)
EXTENDS Integers, FiniteSets

CONSTANTS
    Client,   \* the environments that use the server
    File,     \* the files on the disk
    DiskSize, \* their sizes, in pages
    MaxSize,  \* bound: pages of a file
    Sizes,    \* sizes programs truncate a file to
    MAXOPEN,  \* entries of opentab
    MAXFD,    \* descriptors of an environment
    IdMod,    \* bound: o_fileid wraps when an entry has been used that often
    Calls,    \* of each client: the calls its program makes
    Failures, \* which requests for memory may fail: for the "page" of an entry, the
              \* "block" of a directory, the "table" a page that is sent is mapped
              \* in, or the one that "dup" needs
    None

Slot == 0 .. MAXOPEN - 1
Fd   == 0 .. MAXFD - 1
Page == 0 .. MaxSize - 1

ASSUME FsServAssumption ==
    /\ IsFiniteSet(Client)
    /\ {MAXOPEN, MAXFD, IdMod, MaxSize} \subseteq Nat \ {0} /\ MAXFD > 1
    /\ DiskSize \in [File -> 0 .. MaxSize] /\ Sizes \subseteq 0 .. MaxSize
    /\ Failures \subseteq {"page", "block", "table", "dup"}
    /\ None \notin File \cup Slot \cup [slot : Slot, file : File]

VARIABLES
    opentab, \* of each entry: how often it was used, its file, and whether the
             \* server has a page for it
    filefd,  \* of each entry: the size and the file id in its page
    size,    \* of each file: its size in the server
    named,   \* the files that have not been removed
    srv,     \* what the server is doing
    task,    \* what each client is doing
    ipc,     \* how far the client is with fsipc
    fdtab,   \* of each descriptor: the entry whose page is mapped, and the file
             \* the program opened; or None
    window   \* of each descriptor: the pages mapped at fd2data, by the file they
             \* belong to; page i is only ever mapped from block i

vars == <<opentab, filefd, size, named, srv, task, ipc, fdtab, window>>
kernel == <<opentab, filefd, size, named, srv>>

Idle    == [do |-> "idle", fd |-> 0, file |-> None, id |-> <<0, 0>>,
            i |-> 0, n |-> 0, old |-> 0, then |-> "idle"]
NoReply == [stage |-> "done", from |-> None, i |-> 0, r |-> "ok",
            sent |-> "nothing", slot |-> None, file |-> None, after |-> "loop"]

\* The server after serve_init and fs_test, its clients about to start.
Init ==
    /\ opentab = [o \in Slot |-> [used |-> 0, file |-> None, live |-> FALSE]]
    /\ filefd = [o \in Slot |-> [size |-> 0, id |-> <<0, 0>>]]
    /\ size = DiskSize
    /\ named = File
    /\ srv = NoReply
    /\ task = [c \in Client |-> Idle]
    /\ ipc = [c \in Client |-> "none"]
    /\ fdtab = [c \in Client |-> [d \in Fd |-> None]]
    /\ window = [c \in Client |-> [d \in Fd |-> [i \in Page |-> None]]]
-----------------------------------------------------------------------------
(* Messages.  A request travels in a page the client does not touch before *)
(* the answer; the server reads it there, from the client's task.          *)

\* A client puts the request into fsipcbuf and goes on to send it.
Ask(c, t) ==
    /\ task' = [task EXCEPT ![c] = t]
    /\ ipc' = [ipc EXCEPT ![c] = "send"]

\* The call of the library returns to the program.
Return(c) ==
    /\ task' = [task EXCEPT ![c] = Idle]
    /\ ipc' = [ipc EXCEPT ![c] = "none"]

\* ipc_send of the client: the poll that meets the server in ipc_recv.
IpcSend(c) ==
    /\ ipc[c] = "send" /\ srv.stage = "recv"
    /\ ipc' = [ipc EXCEPT ![c] = "sent"]
    /\ srv' = [NoReply EXCEPT !.stage = "got", !.from = c]
    /\ UNCHANGED <<opentab, filefd, size, named, task, fdtab, window>>

IpcRecv(c) ==
    /\ ipc[c] = "sent"
    /\ ipc' = [ipc EXCEPT ![c] = "wait"]
    /\ UNCHANGED <<kernel, task, fdtab, window>>

\* ipc_send of the server: the poll that meets the client in ipc_recv.  The
\* kernel maps the page that is sent, of a descriptor or a block, where the
\* client wants it.
IpcReply ==
    LET c == srv.from
        t == task[c]
    IN  /\ srv.stage = "reply" /\ ipc[c] = "wait"
        /\ ipc' = [ipc EXCEPT ![c] = srv.r]
        /\ srv' = [NoReply EXCEPT !.from = c, !.after = srv.after, !.file = srv.file]
        /\ fdtab' = IF srv.sent = "descriptor"
                    THEN [fdtab EXCEPT ![c][t.fd] = [slot |-> srv.slot, file |-> t.file]]
                    ELSE fdtab
        /\ window' = IF srv.sent = "block"
                     THEN [window EXCEPT ![c][t.fd][t.i] = srv.file]
                     ELSE window
        /\ UNCHANGED <<opentab, filefd, size, named, task>>

\* sys_ipc_can_send finds no page for a table of the client: ipc_send panics,
\* an endless loop of the server.
IpcReplyFails ==
    /\ "table" \in Failures
    /\ srv.stage = "reply" /\ srv.sent # "nothing" /\ ipc[srv.from] = "wait"
    /\ srv' = [srv EXCEPT !.stage = "stuck"]
    /\ UNCHANGED <<opentab, filefd, size, named, task, ipc, fdtab, window>>
-----------------------------------------------------------------------------
(* The server                                                              *)

\* pageref of the page of entry o.
PageRef(o) ==
    (IF opentab[o].live THEN 1 ELSE 0)
    + Cardinality({p \in Client \X Fd :
                      fdtab[p[1]][p[2]] # None /\ fdtab[p[1]][p[2]].slot = o})

Request(do) == srv.stage = "got" /\ task[srv.from].do \in do
Req == task[srv.from]

Reply(r) == srv' = [srv EXCEPT !.stage = "reply", !.r = r]

\* open_lookup.
Known(id) == PageRef(id[1]) # 1 /\ opentab[id[1]].used = id[2]
FileOf(id) == opentab[id[1]].file

\* Mutant: an entry that one client still uses counts as free.
Available_Shared(o) == PageRef(o) \in 0 .. 2

\* Mutant: the case of a page that only the server maps is missing.
Available_Never(o) == PageRef(o) = 0

\* The switch of open_alloc.
Available(o) == PageRef(o) \in {0, 1}

\* Mutant: the page gets the id of the former use of the entry.
Fill_OldId(o, f, used) ==
    /\ filefd' = [filefd EXCEPT ![o] = [size |-> size[f], id |-> <<o, opentab[o].used>>]]
    /\ opentab' = [opentab EXCEPT ![o] = [used |-> used, file |-> f, live |-> TRUE]]
    /\ srv' = [srv EXCEPT !.stage = "reply", !.r = "ok", !.sent = "descriptor", !.slot = o,
                          !.after = "loop"]

\* serve_open from file_open on: the entry is filled in and its page sent.
Fill(o, f, used) ==
    /\ opentab' = [opentab EXCEPT ![o] = [used |-> used, file |-> f, live |-> TRUE]]
    /\ filefd' = [filefd EXCEPT ![o] = [size |-> size[f], id |-> <<o, used>>]]
    /\ srv' = [srv EXCEPT !.stage = "reply", !.r = "ok", !.sent = "descriptor", !.slot = o,
                          !.after = "loop"]

\* serve_open: entry srv.i of open_alloc's loop, which fails when there is no
\* entry or no page for it; then file_open, which fails when there is no such
\* file or no page for a block of the directory.  After an error is answered
\* the function goes on, see ServeLoop.
ServeOpen ==
    LET o     == srv.i
        f     == Req.file
        used  == (opentab[o].used + 1) % IdMod
        error(after) == srv' = [srv EXCEPT !.stage = "reply", !.r = "error", !.file = f,
                                           !.after = after]
    IN  /\ Request({"open"})
        /\ \/ /\ ~ Available(o)
              /\ IF o + 1 < MAXOPEN THEN srv' = [srv EXCEPT !.i = o + 1] ELSE error("full")
              /\ UNCHANGED <<opentab, filefd>>
           \/ /\ Available(o) /\ PageRef(o) = 0 /\ "page" \in Failures
              /\ error("wild")
              /\ UNCHANGED <<opentab, filefd>>
           \/ Available(o) /\ f \in named /\ Fill(o, f, used)
           \/ /\ Available(o) /\ (f \notin named \/ "block" \in Failures)
              /\ opentab' = [opentab EXCEPT ![o].used = used, ![o].live = TRUE]
              /\ filefd' = [filefd EXCEPT ![o] = [size |-> 0, id |-> <<0, 0>>]]
              /\ error("null")
        /\ UNCHANGED <<size, named, task, ipc, fdtab, window>>

\* file_get_block may fail: what the disk and the memory have is in FsBlocks.
ServeMap ==
    /\ Request({"map", "extend"})
    /\ \/ ~ Known(Req.id) /\ Reply("error")
       \/ /\ Known(Req.id)
          /\ \/ Reply("error")
             \/ srv' = [srv EXCEPT !.stage = "reply", !.sent = "block",
                                   !.file = FileOf(Req.id)]
    /\ UNCHANGED <<opentab, filefd, size, named, task, ipc, fdtab, window>>

\* Mutant: an error is not answered.
ServeDirty_Silent ==
    /\ Request({"dirty"})
    /\ \/ srv' = [srv EXCEPT !.stage = "done"]
       \/ Known(Req.id) /\ Reply("ok")
    /\ UNCHANGED <<opentab, filefd, size, named, task, ipc, fdtab, window>>

ServeDirty ==
    /\ Request({"dirty"})
    /\ \/ Reply("error")
       \/ Known(Req.id) /\ Reply("ok")
    /\ UNCHANGED <<opentab, filefd, size, named, task, ipc, fdtab, window>>

ServeSetSize ==
    /\ Request({"resize", "undo"})
    /\ IF Known(Req.id)
       THEN /\ size' = [size EXCEPT ![FileOf(Req.id)] = IF Req.do = "undo" THEN Req.old ELSE Req.n]
            /\ Reply("ok")
       ELSE Reply("error") /\ UNCHANGED size
    /\ UNCHANGED <<opentab, filefd, named, task, ipc, fdtab, window>>

ServeClose ==
    /\ Request({"close"})
    /\ Reply(IF Known(Req.id) THEN "ok" ELSE "error")
    /\ UNCHANGED <<opentab, filefd, size, named, task, ipc, fdtab, window>>

ServeRemove ==
    /\ Request({"remove"})
    /\ IF Req.file \in named
       THEN /\ named' = named \ {Req.file}
            /\ size' = [size EXCEPT ![Req.file] = 0]
            /\ Reply("ok")
       ELSE Reply("error") /\ UNCHANGED <<named, size>>
    /\ UNCHANGED <<opentab, filefd, task, ipc, fdtab, window>>

ServeSync ==
    /\ Request({"sync"})
    /\ Reply("ok")
    /\ UNCHANGED <<opentab, filefd, size, named, task, ipc, fdtab, window>>

\* After the answer: the next turn of the loop of serve; only serve_open goes
\* on after an error.  A file that is not found leaves a null pointer, which
\* stops the kernel; without an entry, or a page for it, a pointer is used that
\* was never set and may stop the kernel or be any entry, for a second answer.
ServeLoop ==
    /\ srv.stage = "done"
    /\ \E o \in IF srv.after \in {"full", "wild"} THEN Slot \cup {None} ELSE {None} :
         IF o # None /\ srv.file \in named THEN Fill(o, srv.file, opentab[o].used)
         ELSE /\ srv' = IF srv.after = "loop" THEN [NoReply EXCEPT !.stage = "recv"]
                        ELSE [srv EXCEPT !.stage = "panic"]
              /\ UNCHANGED <<opentab, filefd>>
    /\ UNCHANGED <<size, named, task, ipc, fdtab, window>>

Serve ==
    \/ ServeOpen \/ ServeMap \/ ServeDirty \/ ServeSetSize \/ ServeClose
    \/ ServeRemove \/ ServeSync \/ IpcReply \/ IpcReplyFails \/ ServeLoop
-----------------------------------------------------------------------------
(* The clients                                                             *)

Calling(c, call) == task[c].do = "idle" /\ call \in Calls[c]
Answered(c, do)  == task[c].do = do /\ ipc[c] \in {"ok", "error"}
Failed(c)        == ipc[c] = "error"

Mapped(c, d) == fdtab[c][d] # None
Filefd(c, d) == filefd[fdtab[c][d].slot]

\* The next turn of a loop over pages, from i to t.n - 1.
AskFrom(c, t, i) == IF i < t.n THEN Ask(c, [t EXCEPT !.i = i]) ELSE Return(c)

\* open; fd_alloc takes the first descriptor without a page and never the last.
Open(c, f) ==
    \E d \in 0 .. MAXFD - 2 :
        /\ Calling(c, "open")
        /\ ~ Mapped(c, d) /\ \A e \in 0 .. d - 1 : Mapped(c, e)
        /\ Ask(c, [Idle EXCEPT !.do = "open", !.fd = d, !.file = f])
        /\ UNCHANGED <<kernel, fdtab, window>>

\* Back from fsipc_open, which has mapped the descriptor.
OpenAnswered(c) ==
    LET t == task[c]
        d == Filefd(c, t.fd)
    IN  /\ Answered(c, "open")
        /\ IF Failed(c) THEN Return(c)
           ELSE AskFrom(c, [t EXCEPT !.do = "map", !.id = d.id, !.n = d.size], 0)
        /\ UNCHANGED <<kernel, fdtab, window>>

\* Back from fsipc_map in open; an error leaves what has been mapped.
MapAnswered(c) ==
    /\ Answered(c, "map")
    /\ IF Failed(c) THEN Return(c) ELSE AskFrom(c, task[c], task[c].i + 1)
    /\ UNCHANGED <<kernel, fdtab, window>>

\* file_close of descriptor d up to its first request; next and old say what
\* the caller does after close.
FileClose(c, d, next, old) ==
    LET n == Filefd(c, d).size
    IN  Ask(c, [Idle EXCEPT !.do = IF n = 0 THEN "close" ELSE "dirty", !.fd = d,
                            !.id = Filefd(c, d).id, !.n = n, !.then = next, !.old = old])

Close(c, d) ==
    /\ Calling(c, "close") /\ Mapped(c, d)
    /\ FileClose(c, d, "idle", 0)
    /\ UNCHANGED <<kernel, fdtab, window>>

\* Mutant: the loop of file_close goes one page too far.
DirtyAnswered_OneMore(c) ==
    LET t == task[c]
    IN  /\ Answered(c, "dirty")
        /\ Ask(c, IF t.i + 1 <= t.n THEN [t EXCEPT !.i = @ + 1] ELSE [t EXCEPT !.do = "close"])
        /\ UNCHANGED <<kernel, fdtab, window>>

\* Back from fsipc_dirty, whose result is ignored.
DirtyAnswered(c) ==
    LET t == task[c]
    IN  /\ Answered(c, "dirty")
        /\ Ask(c, IF t.i + 1 < t.n THEN [t EXCEPT !.i = @ + 1] ELSE [t EXCEPT !.do = "close"])
        /\ UNCHANGED <<kernel, fdtab, window>>

Unmap(w, from, to) == [i \in Page |-> IF i \in from .. to - 1 THEN None ELSE w[i]]

\* What the caller of close does next: close_all and dup go on.
After(t) == IF t.then = "idle" THEN Idle
            ELSE [Idle EXCEPT !.do = t.then, !.fd = t.fd, !.old = t.old]

\* Mutant: the last page is not unmapped.
CloseAnswered_KeepsLast(c) ==
    LET t == task[c]
    IN  /\ Answered(c, "close")
        /\ fdtab' = [fdtab EXCEPT ![c][t.fd] = None]
        /\ window' = [window EXCEPT ![c][t.fd] = Unmap(@, 0, t.n - 1)]
        /\ task' = [task EXCEPT ![c] = After(t)]
        /\ ipc' = [ipc EXCEPT ![c] = "none"]
        /\ UNCHANGED kernel

\* Back from fsipc_close: file_close unmaps the pages unless it failed, close
\* unmaps the descriptor.
CloseAnswered(c) ==
    LET t == task[c]
    IN  /\ Answered(c, "close")
        /\ fdtab' = [fdtab EXCEPT ![c][t.fd] = None]
        /\ window' = IF Failed(c) THEN window
                     ELSE [window EXCEPT ![c][t.fd] = Unmap(@, 0, t.n)]
        /\ task' = [task EXCEPT ![c] = After(t)]
        /\ ipc' = [ipc EXCEPT ![c] = "none"]
        /\ UNCHANGED kernel

\* dup: what is open at the target is closed first.
Dup(c, from, to) ==
    /\ Calling(c, "dup") /\ Mapped(c, from) /\ from # to
    /\ IF Mapped(c, to) THEN FileClose(c, to, "dup", from)
       ELSE /\ task' = [task EXCEPT ![c] = [Idle EXCEPT !.do = "dup", !.fd = to, !.old = from]]
            /\ UNCHANGED ipc
    /\ UNCHANGED <<kernel, fdtab, window>>

\* The second half of dup: the pages of the file, then the descriptor.
DupMap(c) ==
    LET t == task[c]
    IN  /\ t.do = "dup" /\ ipc[c] = "none"
        /\ fdtab' = [fdtab EXCEPT ![c][t.fd] = fdtab[c][t.old]]
        /\ window' = [window EXCEPT ![c][t.fd] =
                         [i \in Page |-> IF window[c][t.old][i] = None THEN @[i]
                                        ELSE window[c][t.old][i]]]
        /\ Return(c)
        /\ UNCHANGED kernel

\* No page is left for the table of the new descriptor's pages, or of the
\* descriptor: dup takes back what it has mapped.
DupFails(c) ==
    LET t == task[c]
    IN  /\ "dup" \in Failures
        /\ t.do = "dup" /\ ipc[c] = "none"
        /\ fdtab' = [fdtab EXCEPT ![c][t.fd] = None]
        /\ window' = [window EXCEPT ![c][t.fd] = [i \in Page |-> None]]
        /\ Return(c)
        /\ UNCHANGED kernel

\* ftruncate, also from file_write: the size in the descriptor changes first.
Ftruncate(c, d, n) ==
    LET t == [Idle EXCEPT !.do = "resize", !.fd = d, !.id = Filefd(c, d).id,
                          !.n = n, !.old = Filefd(c, d).size]
    IN  /\ Calling(c, "ftruncate") /\ Mapped(c, d)
        /\ filefd' = [filefd EXCEPT ![fdtab[c][d].slot].size = n]
        /\ Ask(c, t)
        /\ UNCHANGED <<opentab, size, named, srv, fdtab, window>>

\* Back from fsipc_set_size in ftruncate: new pages are asked for, pages behind
\* the end are unmapped.
ResizeAnswered(c) ==
    LET t == task[c]
    IN  /\ Answered(c, "resize")
        /\ IF Failed(c) THEN Return(c) /\ UNCHANGED window
           ELSE /\ AskFrom(c, [t EXCEPT !.do = "extend"], t.old)
                /\ window' = [window EXCEPT ![c][t.fd] = Unmap(@, t.n, t.old)]
        /\ UNCHANGED <<kernel, fdtab>>

\* Back from fsipc_map in ftruncate: on an error the old size is set again in
\* the server, not in the descriptor.
ExtendAnswered(c) ==
    LET t == task[c]
    IN  /\ Answered(c, "extend")
        /\ IF Failed(c) THEN Ask(c, [t EXCEPT !.do = "undo"]) ELSE AskFrom(c, t, t.i + 1)
        /\ UNCHANGED <<kernel, fdtab, window>>

\* remove and sync are one request each.
Remove(c, f) ==
    /\ Calling(c, "remove")
    /\ Ask(c, [Idle EXCEPT !.do = "remove", !.file = f])
    /\ UNCHANGED <<kernel, fdtab, window>>

Sync(c) ==
    /\ Calling(c, "sync")
    /\ Ask(c, [Idle EXCEPT !.do = "sync"])
    /\ UNCHANGED <<kernel, fdtab, window>>

LastAnswered(c) ==
    /\ \E do \in {"undo", "remove", "sync"} : Answered(c, do)
    /\ Return(c)
    /\ UNCHANGED <<kernel, fdtab, window>>

\* _exit: close_all, one descriptor after the other, then the kernel frees what
\* is left.
Exit(c) ==
    /\ Calling(c, "exit")
    /\ task' = [task EXCEPT ![c] = [Idle EXCEPT !.do = "exit"]]
    /\ UNCHANGED <<kernel, ipc, fdtab, window>>

CloseAll(c) ==
    LET open == {d \in Fd : Mapped(c, d)}
    IN  /\ task[c].do = "exit" /\ ipc[c] = "none"
        /\ IF open # {}
           THEN /\ FileClose(c, CHOOSE d \in open : \A e \in open : d <= e, "exit", 0)
                /\ UNCHANGED window
           ELSE /\ task' = [task EXCEPT ![c] = [Idle EXCEPT !.do = "dead"]]
                /\ window' = [window EXCEPT ![c] = [d \in Fd |-> [i \in Page |-> None]]]
                /\ UNCHANGED ipc
        /\ UNCHANGED <<kernel, fdtab>>

\* What a client does once its program has made a call.
Proceed(c) ==
    \/ IpcSend(c) \/ IpcRecv(c)
    \/ OpenAnswered(c) \/ MapAnswered(c) \/ DirtyAnswered(c) \/ CloseAnswered(c)
    \/ DupMap(c) \/ DupFails(c) \/ ResizeAnswered(c) \/ ExtendAnswered(c)
    \/ LastAnswered(c) \/ CloseAll(c)

\* What the program may call.
Call(c) ==
    \/ \E f \in File : Open(c, f) \/ Remove(c, f)
    \/ \E d \in Fd :
         \/ Close(c, d)
         \/ \E to \in Fd : Dup(c, d, to)
         \/ \E n \in Sizes : Ftruncate(c, d, n)
    \/ Sync(c) \/ Exit(c)

\* The environments that can run: none once the kernel has stopped.
Awake == IF srv.stage = "panic" THEN {} ELSE Client

Next == Serve \/ \E c \in Awake : Proceed(c) \/ Call(c)

\* Every environment gets the CPU again and again (FairScheduler of EnvSched)
\* and polls; nothing makes a program call.
Fairness ==
    /\ WF_vars(Serve)
    /\ \A c \in Client : WF_vars(c \in Awake /\ Proceed(c))

Spec == Init /\ [][Next]_vars /\ Fairness
-----------------------------------------------------------------------------
TypeOK ==
    /\ opentab \in [Slot -> [used : 0 .. IdMod - 1, file : File \cup {None}, live : BOOLEAN]]
    /\ filefd \in [Slot -> [size : 0 .. MaxSize, id : Slot \X (0 .. IdMod - 1)]]
    /\ size \in [File -> 0 .. MaxSize] /\ named \subseteq File
    /\ srv \in [stage : {"recv", "got", "reply", "done", "stuck", "panic"},
                from : Client \cup {None},
                i : Slot, r : {"ok", "error"}, sent : {"nothing", "descriptor", "block"},
                slot : Slot \cup {None}, file : File \cup {None},
                after : {"loop", "null", "full", "wild"}]
    /\ \A c \in Client :
         /\ task[c].fd \in Fd /\ task[c].i \in Page /\ task[c].n \in 0 .. MaxSize
         /\ ipc[c] \in {"none", "send", "sent", "wait", "ok", "error"}
         /\ fdtab[c] \in [Fd -> [slot : Slot, file : File] \cup {None}]
         /\ window[c] \in [Fd -> [Page -> File \cup {None}]]

\* A descriptor stays what it was opened as: as long as a client maps the page
\* of an entry, through whatever opens, dups, closes and exits of all clients,
\* the entry is not used for another open and its file and id do not change.
DescriptorsSound ==
    \A c \in Client, d \in Fd : Mapped(c, d) =>
        LET o == fdtab[c][d].slot
        IN  /\ opentab[o].live
            /\ opentab[o].file = fdtab[c][d].file
            /\ filefd[o].id = <<o, opentab[o].used>>

\* A request through a descriptor is never refused and reaches the file the
\* descriptor was opened for, whatever others have opened, closed and removed
\* between the two.
RequestsReachFile ==
    Request({"map", "extend", "dirty", "close", "resize", "undo"}) =>
        Known(Req.id) /\ FileOf(Req.id) = fdtab[srv.from][Req.fd].file

\* "Find the virtual address of the page that maps the file block starting at
\* 'offset'" (read_map): a page in the range of an open descriptor is one of the
\* file that was opened, and none is left of a file opened there before.
WindowSound ==
    \A c \in Client, d \in Fd, i \in Page :
        Mapped(c, d) => window[c][d][i] \in {None, fdtab[c][d].file}

\* Entries are given back: open_alloc never answers -E_MAX_OPEN, however the
\* clients have opened, shared and closed before, and whatever has failed.
EntriesSuffice == srv.after # "full"

\* "Returns: 0 on success, < 0 on failure" (fsipc_open): after a failure, too,
\* the system goes on.
SurvivesErrors == srv.stage # "panic"

\* The calls of the clients, as RemoteCall has them.
Phase ==
    [c \in Client |->
        IF ipc[c] \in {"none", "ok", "error"} THEN "none"
        ELSE IF ipc[c] = "send" THEN "trying"
        ELSE IF srv.stage \in {"reply", "stuck"} /\ srv.from = c THEN "handled" ELSE "accepted"]
Service == INSTANCE RemoteCall WITH phase <- Phase

\* Each request is handled once and answered once, to the client that made it,
\* and while clients want to be served one of them is.
ServesCalls == Service!Spec
=============================================================================
