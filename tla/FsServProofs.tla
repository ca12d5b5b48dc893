---------------------------- MODULE FsServProofs ----------------------------
(***************************************************************************)
(* Proofs about FsServ, for every number of clients, files, entries and    *)
(* descriptors, in three layers.                                           *)
(*                                                                         *)
(* The first one is about the conversation: whom the server talks to, and  *)
(* that each program is in one place of one library call.  It needs        *)
(* nothing of programs.  The second one is about entries and descriptors,  *)
(* and needs as many entries as programs can have descriptors, and memory  *)
(* for their pages: serve_open uses a pointer that was never set when      *)
(* there is no entry left, or no page for it.  What else may fail for want *)
(* of memory is covered.  The third one is about the pages behind a        *)
(* descriptor, and needs programs that do not use both dup and ftruncate.  *)
(***************************************************************************)
EXTENDS FsServ, FiniteSetTheorems, NaturalsInduction, WellFoundedInduction, TLAPS

\* Steps of library calls; those in Through are requests through a descriptor.
Through == {"map", "dirty", "close", "resize", "extend", "undo"}
Asking  == Through \cup {"open", "remove", "sync"}
Quiet   == {"idle", "dup", "exit", "dead"}
Id      == Slot \X (0 .. IdMod - 1)
Tasks   == [do : Asking \cup Quiet, fd : Fd, file : File \cup {None}, id : Id, i : Page,
            n : 0 .. MaxSize, old : (0 .. MaxSize) \cup Fd, then : {"idle", "dup", "exit"}]
Stages  == {"none", "send", "sent", "wait", "ok", "error"}
Entries == [used : 0 .. IdMod - 1, file : File \cup {None}, live : BOOLEAN]
Fields  == [size : 0 .. MaxSize, id : Id]
Descs   == [slot : Slot, file : File]
Servers == [stage : {"recv", "got", "reply", "done", "stuck", "panic"}, from : Client \cup {None},
            i : Slot, r : {"ok", "error"}, sent : {"nothing", "descriptor", "block"},
            slot : Slot \cup {None}, file : File \cup {None}, after : {"loop", "null", "full", "wild"}]
Windows == [Fd -> [Page -> File \cup {None}]]

-----------------------------------------------------------------------------
(* The invariant: the conversation                                         *)

Types ==
    /\ opentab \in [Slot -> Entries] /\ filefd \in [Slot -> Fields]
    /\ size \in [File -> 0 .. MaxSize] /\ named \subseteq File /\ srv \in Servers
    /\ task \in [Client -> Tasks] /\ ipc \in [Client -> Stages]
    /\ fdtab \in [Client -> [Fd -> Descs \cup {None}]] /\ window \in [Client -> Windows]

\* The client has sent its request and has no answer yet.
Waits(c) == ipc[c] \in {"sent", "wait"}

\* The client is not in the middle of a message.
Free(c) == ipc[c] \notin {"send", "sent", "wait"}

\* The server works for the one client that waits.
ServerSound ==
    /\ \A c \in Client : Waits(c) => srv.from = c /\ srv.stage \in {"got", "reply", "stuck"}
    /\ srv.stage \in {"got", "reply"} \/ srv.after # "loop" => srv.from \in Client
    /\ srv.stage = "got" => Waits(srv.from) /\ srv.sent = "nothing"
    /\ srv.stage = "reply" /\ Waits(srv.from) =>
          IF task[srv.from].do = "open"
          THEN srv.sent = (IF srv.r = "ok" THEN "descriptor" ELSE "nothing")
          ELSE srv.sent # "descriptor"
    /\ srv.sent = "descriptor" => srv.slot \in Slot

\* A program is in the middle of a request, or of no request.
CallSound(c) ==
    /\ ipc[c] = "none" <=> task[c].do \in Quiet
    /\ task[c].do \in {"open", "remove"} => task[c].file \in File
    /\ task[c].do \in {"resize", "extend", "undo"} => task[c].old \in 0 .. MaxSize
    /\ task[c].do = "dup" \/ task[c].then = "dup" => task[c].old \in Fd
    /\ task[c].do = "open" /\ ipc[c] = "ok" => Mapped(c, task[c].fd)

TalkInv == Types /\ ServerSound /\ \A c \in Client : CallSound(c)

-----------------------------------------------------------------------------
(* ... entries and descriptors                                             *)

\* The descriptors a program can have: fd_alloc never finds the last one.
Usable(c, d) == d < MAXFD - 1 \/ "dup" \in Calls[c]

\* There are entries for all of them.
EnoughEntries == Cardinality({m \in Client \X Fd : Usable(m[1], m[2])}) <= MAXOPEN

\* There is memory for the pages of entries.
EnoughPages == "page" \notin Failures

\* No client has the page of entry o.
Unshared(o) == \A c \in Client, d \in Fd : Mapped(c, d) => fdtab[c][d].slot # o

\* A request is made through a descriptor the program has, with the id in it.
RequestSound(c) ==
    LET t == task[c]
    IN  /\ t.do \in Through => Mapped(c, t.fd) /\ t.id = Filefd(c, t.fd).id
        /\ t.do = "open" => t.fd < MAXFD - 1 /\ (ipc[c] # "ok" => ~ Mapped(c, t.fd))
        /\ t.do = "dup" \/ t.then = "dup" =>
              Mapped(c, t.old) /\ t.old # t.fd /\ "dup" \in Calls[c]
        /\ t.do = "dup" => ~ Mapped(c, t.fd)

\* The answer on its way is for whom it is meant.
AnswerSound ==
    /\ srv.after \notin {"full", "wild"}
    /\ srv.stage \in {"got", "reply"} => Waits(srv.from)
    /\ srv.stage = "got" /\ task[srv.from].do = "open" =>
          \E o \in Slot : o >= srv.i /\ Unshared(o)
    /\ srv.stage = "reply" /\ srv.sent = "descriptor" =>
          /\ opentab[srv.slot].live /\ opentab[srv.slot].file = task[srv.from].file
          /\ filefd[srv.slot].id = <<srv.slot, opentab[srv.slot].used>>
          /\ Unshared(srv.slot)
    /\ srv.stage = "reply" /\ srv.sent = "block" =>
          /\ task[srv.from].do \in {"map", "extend"}
          /\ srv.file = fdtab[srv.from][task[srv.from].fd].file
    /\ srv.stage = "reply" /\ task[srv.from].do \in {"close", "resize"} => srv.r = "ok"

EntryInv ==
    /\ EnoughPages
    /\ DescriptorsSound /\ AnswerSound
    /\ \A c \in Client : RequestSound(c)
    /\ \A c \in Client, d \in Fd : Mapped(c, d) => Usable(c, d)
    /\ \A c \in Client : task[c].do \in {"close", "resize"} => ipc[c] # "error"

-----------------------------------------------------------------------------
(* ... and the pages behind a descriptor                                   *)

\* The size in a descriptor is not behind a program's back.
DupOrTruncate == \A c \in Client : ~ {"dup", "ftruncate"} \subseteq Calls[c]

\* Descriptors share an entry only by dup.
SharedByDup ==
    \A c, y \in Client, d, z \in Fd :
        Mapped(c, d) /\ Mapped(y, z) /\ fdtab[c][d].slot = fdtab[y][z].slot =>
            c = y /\ (d = z \/ "dup" \in Calls[c])

\* Pages are of the file that was opened, and within its size; ftruncate
\* changes the size before it unmaps what is behind it.
PagesSound(c) ==
    \A d \in Fd, i \in Page : window[c][d][i] # None =>
        /\ Mapped(c, d) /\ window[c][d][i] = fdtab[c][d].file
        /\ \/ i < Filefd(c, d).size
           \/ task[c].do = "resize" /\ task[c].fd = d /\ i < task[c].old

\* What a loop over pages goes through is the file as it is.
LoopSound(c) ==
    /\ task[c].do \in Through \ {"undo"} => task[c].n = Filefd(c, task[c].fd).size
    /\ task[c].do \in {"map", "extend"} => task[c].i < task[c].n
    /\ task[c].do \in {"resize", "extend", "undo"} => "ftruncate" \in Calls[c]

PageInv == SharedByDup /\ \A c \in Client : PagesSound(c) /\ LoopSound(c)

-----------------------------------------------------------------------------
(* Types                                                                   *)

\* The constants and the first values are of the types used here.
LEMMA ConstantFacts ==
    /\ 0 \in Slot /\ 0 \in Fd /\ 1 \in Nat /\ 0 \in Page /\ <<0, 0>> \in Id /\ 0 \in 0 .. MaxSize
    /\ Idle \in Tasks /\ NoReply \in Servers /\ Idle.do = "idle" /\ Idle.then = "idle"
    /\ None \notin Slot /\ None \notin File /\ None \notin Descs
    /\ MAXOPEN \in Nat \ {0} /\ MAXFD \in Nat \ {0} /\ IdMod \in Nat \ {0} /\ MaxSize \in Nat \ {0}
    /\ MAXFD > 1 /\ Sizes \subseteq 0 .. MaxSize /\ IsFiniteSet(Client)
    /\ Slot \subseteq Nat /\ Fd \subseteq Nat /\ Page \subseteq Nat
    /\ IsFiniteSet(Fd) /\ IsFiniteSet(Slot)
<1>1. /\ MAXOPEN \in Nat \ {0} /\ MAXFD \in Nat \ {0} /\ IdMod \in Nat \ {0}
      /\ MaxSize \in Nat \ {0} /\ MAXFD > 1 /\ Sizes \subseteq 0 .. MaxSize
      /\ None \notin Slot /\ None \notin File /\ None \notin Descs /\ IsFiniteSet(Client)
  BY FsServAssumption DEF Descs
<1>2. 0 \in Slot /\ 0 \in Fd /\ 1 \in Nat /\ 0 \in Page /\ 0 \in 0 .. IdMod - 1 /\ 0 \in 0 .. MaxSize
  BY <1>1 DEF Slot, Fd, Page
<1>3. <<0, 0>> \in Id
  BY <1>2 DEF Id
<1>4. Idle \in Tasks /\ Idle.do = "idle" /\ Idle.then = "idle"
  BY <1>2, <1>3 DEF Idle, Tasks, Quiet, Asking
<1>5. NoReply \in Servers
  BY <1>2 DEF NoReply, Servers
<1>6. Slot \subseteq Nat /\ Fd \subseteq Nat /\ Page \subseteq Nat
  BY <1>1 DEF Slot, Fd, Page
<1>7. IsFiniteSet(Fd) /\ IsFiniteSet(Slot)
  BY <1>1, FS_Interval DEF Slot, Fd
<1> QED BY <1>1, <1>2, <1>3, <1>4, <1>5, <1>6, <1>7

\* The types of the module, from those the proofs use.
LEMMA TypesTypeOK == Types => TypeOK
<1> SUFFICES ASSUME Types PROVE TypeOK
  OBVIOUS
<1>1. \A c \in Client :
         /\ task[c].fd \in Fd /\ task[c].i \in Page /\ task[c].n \in 0 .. MaxSize
         /\ ipc[c] \in {"none", "send", "sent", "wait", "ok", "error"}
         /\ fdtab[c] \in [Fd -> [slot : Slot, file : File] \cup {None}]
         /\ window[c] \in [Fd -> [Page -> File \cup {None}]]
  BY DEF Types, Tasks, Stages, Descs, Windows
<1>2. /\ opentab \in [Slot -> [used : 0 .. IdMod - 1, file : File \cup {None}, live : BOOLEAN]]
      /\ filefd \in [Slot -> [size : 0 .. MaxSize, id : Slot \X (0 .. IdMod - 1)]]
  BY DEF Types, Entries, Fields, Id
<1> QED
  BY <1>1, <1>2 DEF Types, TypeOK, Servers

\* The parts of a task.
LEMMA TaskTypes ==
    ASSUME NEW t \in Tasks
    PROVE  /\ t.do \in Asking \cup Quiet /\ t.fd \in Fd /\ t.file \in File \cup {None} /\ t.id \in Id
           /\ t.i \in Page /\ t.n \in 0 .. MaxSize /\ t.old \in (0 .. MaxSize) \cup Fd
           /\ t.then \in {"idle", "dup", "exit"}
  BY DEF Tasks

\* A descriptor that is mapped leads to an entry.
LEMMA MappedEntry ==
    ASSUME Types, NEW c \in Client, NEW d \in Fd, Mapped(c, d)
    PROVE  /\ fdtab[c][d] \in Descs /\ fdtab[c][d].slot \in Slot /\ fdtab[c][d].file \in File
           /\ Filefd(c, d) \in Fields /\ Filefd(c, d).id \in Id /\ Filefd(c, d).size \in 0 .. MaxSize
<1>1. fdtab[c][d] \in Descs
  BY DEF Types, Mapped
<1>2. fdtab[c][d].slot \in Slot /\ fdtab[c][d].file \in File
  BY <1>1 DEF Descs
<1>3. Filefd(c, d) \in Fields
  BY <1>2 DEF Types, Filefd
<1> QED BY <1>1, <1>2, <1>3 DEF Fields

\* A set of descriptors that is not empty has a smallest one.
LEMMA Smallest ==
    ASSUME NEW S \in SUBSET Fd, S # {}
    PROVE  \E d \in S : \A x \in S : d <= x
<1>1. S \in SUBSET Nat
  BY ConstantFacts
<1>2. PICK d \in S : \A x \in S : ~(<<x, d>> \in OpToRel(<, Nat))
  BY <1>1, NatLessThanWellFounded, WFMin
<1>3. \A x \in S : ~(x < d)
  BY <1>1, <1>2 DEF OpToRel
<1> QED
  BY <1>1, <1>3

-----------------------------------------------------------------------------
(* What the steps of a program that is not waiting are like                *)

\* The rest of the system while c goes on; c may change sizes in descriptors
\* it has.
ClientFrame(c) ==
    /\ opentab' = opentab /\ size' = size /\ named' = named /\ srv' = srv
    /\ \A o \in Slot : /\ filefd'[o].id = filefd[o].id
                       /\ \/ filefd'[o] = filefd[o]
                          \/ \E d \in Fd : Mapped(c, d) /\ fdtab[c][d].slot = o
    /\ Free(c) /\ ipc'[c] \in {"none", "send"}
    /\ \A y \in Client : y # c => /\ task'[y] = task[y] /\ ipc'[y] = ipc[y]
                                  /\ fdtab'[y] = fdtab[y] /\ window'[y] = window[y]

\* A program that goes on leaves the conversation of the others alone.
LEMMA ClientTalk ==
    ASSUME TalkInv, NEW c \in Client, ClientFrame(c), Types', CallSound(c)'
    PROVE  TalkInv'
<1>1. \A y \in Client : Waits(y)' <=> Waits(y)
  BY DEF ClientFrame, Waits, Free
<1>2. ServerSound'
  <2>1. srv.stage \in {"got", "reply"} => srv.from \in Client
    BY DEF TalkInv, ServerSound
  <2>2. srv.stage \in {"got", "reply"} => (Waits(srv.from)' <=> Waits(srv.from))
    BY <1>1, <2>1 DEF ClientFrame, Waits
  <2>3. srv.stage \in {"got", "reply"} /\ Waits(srv.from) => task'[srv.from] = task[srv.from]
    BY <2>1 DEF ClientFrame, Waits, Free
  <2>4. srv' = srv
    BY DEF ClientFrame
  <2>5. ServerSound
    BY DEF TalkInv
  <2> QED BY <1>1, <2>1, <2>2, <2>3, <2>4, <2>5 DEF ServerSound, Waits
<1>3. \A y \in Client : CallSound(y)'
  <2> SUFFICES ASSUME NEW y \in Client, y # c PROVE CallSound(y)'
    OBVIOUS
  <2>1. CallSound(y)
    BY DEF TalkInv
  <2>2. task'[y] = task[y] /\ ipc'[y] = ipc[y] /\ fdtab'[y] = fdtab[y]
    BY DEF ClientFrame
  <2> QED BY <2>1, <2>2 DEF CallSound, Mapped
<1> QED BY <1>2, <1>3 DEF TalkInv

\* What a request must say in each of the three layers.
TalkTask(t) ==
    /\ t.do \in Asking
    /\ t.do \in {"open", "remove"} => t.file \in File
    /\ t.do \in {"resize", "extend", "undo"} => t.old \in 0 .. MaxSize
    /\ t.then = "dup" => t.old \in Fd
EntryTask(c, t) ==
    /\ t.do \in Through => Mapped(c, t.fd) /\ t.id = Filefd(c, t.fd).id
    /\ t.do = "open" => t.fd < MAXFD - 1 /\ ~ Mapped(c, t.fd)
    /\ t.then = "dup" => Mapped(c, t.old) /\ t.old # t.fd /\ "dup" \in Calls[c]
PageTask(c, t) ==
    /\ t.do \in Through \ {"undo"} => t.n = Filefd(c, t.fd).size
    /\ t.do \in {"map", "extend"} => t.i < t.n
    /\ t.do \in {"resize", "extend", "undo"} => "ftruncate" \in Calls[c]

Layers(c, t) ==
    /\ TalkTask(t) /\ (EntryInv => EntryTask(c, t)) /\ (EntryInv /\ PageInv => PageTask(c, t))

\* A program that goes on with the next request, or returns from the call.
Continues(c) ==
    /\ Free(c) /\ task[c].do # "resize" /\ UNCHANGED <<kernel, fdtab, window>>
    /\ Return(c) \/ \E t \in Tasks : Ask(c, t) /\ Layers(c, t)

\* Going on with a request, or returning, keeps the conversation sound.
LEMMA ContinuesTalk ==
    ASSUME TalkInv, NEW c \in Client, Continues(c)
    PROVE  ClientFrame(c) /\ TalkInv'
<1>1. Types
  BY DEF TalkInv
<1>2. /\ opentab' = opentab /\ filefd' = filefd /\ size' = size /\ named' = named /\ srv' = srv
      /\ fdtab' = fdtab /\ window' = window
  BY DEF Continues, kernel
<1>3. PICK t \in Tasks, s \in {"none", "send"} :
         /\ task' = [task EXCEPT ![c] = t] /\ ipc' = [ipc EXCEPT ![c] = s]
         /\ (t = Idle /\ s = "none") \/ (TalkTask(t) /\ s = "send")
  <2>1. CASE Return(c)
    BY <2>1, ConstantFacts DEF Return
  <2>2. CASE \E t \in Tasks : Ask(c, t) /\ Layers(c, t)
    BY <2>2 DEF Ask, Layers
  <2> QED BY <2>1, <2>2 DEF Continues
<1>4. task'[c] = t /\ ipc'[c] = s
  BY <1>1, <1>3 DEF Types
<1>5. ClientFrame(c)
  BY <1>1, <1>2, <1>3, <1>4 DEF ClientFrame, Continues, Types
<1>6. Types'
  BY <1>1, <1>2, <1>3 DEF Types, Stages
<1>7. CallSound(c)'
  <2>1. CASE t = Idle /\ s = "none"
    BY <1>4, <2>1, ConstantFacts DEF CallSound, Quiet, Idle
  <2>2. CASE TalkTask(t) /\ s = "send"
    BY <1>4, <2>2 DEF CallSound, TalkTask, Asking, Quiet, Through
  <2> QED BY <1>3, <2>1, <2>2
<1> QED BY <1>5, <1>6, <1>7, ClientTalk

\* The next turn of a loop over pages
LEMMA NextTurn ==
    ASSUME Types, NEW c \in Client, NEW t \in Tasks, NEW i \in Nat, AskFrom(c, t, i),
           TalkTask(t), EntryInv => EntryTask(c, t),
           EntryInv /\ PageInv => t.n = Filefd(c, t.fd).size /\ ("ftruncate" \in Calls[c] \/ t.do = "map")
    PROVE  Return(c) \/ \E u \in Tasks : Ask(c, u) /\ Layers(c, u)
<1>1. CASE i < t.n
  <2>1. t.n \in 0 .. MaxSize /\ MaxSize \in Nat
    BY TaskTypes, ConstantFacts
  <2>2. i \in Page
    BY <1>1, <2>1 DEF Page
  <2>3. PICK u \in Tasks : u = [t EXCEPT !.i = i]
    BY <2>2 DEF Tasks
  <2>4. /\ u.do = t.do /\ u.fd = t.fd /\ u.file = t.file /\ u.id = t.id /\ u.i = i /\ u.n = t.n
        /\ u.old = t.old /\ u.then = t.then
    BY <2>3 DEF Tasks
  <2>5. TalkTask(u) /\ (EntryInv => EntryTask(c, u))
    BY <2>4 DEF TalkTask, EntryTask
  <2>6. EntryInv /\ PageInv => PageTask(c, u)
    BY <1>1, <2>4 DEF PageTask
  <2>7. Ask(c, u)
    BY <1>1, <2>3 DEF AskFrom
  <2> QED BY <2>5, <2>6, <2>7 DEF Layers
<1>2. CASE ~(i < t.n)
  BY <1>2 DEF AskFrom
<1> QED BY <1>1, <1>2

\* The first request of close, for whom it closes
LEMMA FileCloseAsks ==
    ASSUME Types, NEW c \in Client, NEW d \in Fd, Mapped(c, d),
           NEW next \in {"idle", "dup", "exit"}, NEW old \in Fd, FileClose(c, d, next, old),
           next = "dup" => Mapped(c, old) /\ old # d /\ "dup" \in Calls[c]
    PROVE  \E t \in Tasks : Ask(c, t) /\ Layers(c, t)
<1>1. Filefd(c, d).id \in Id /\ Filefd(c, d).size \in 0 .. MaxSize
  BY MappedEntry
<1>2. PICK what \in {"close", "dirty"} : what = IF Filefd(c, d).size = 0 THEN "close" ELSE "dirty"
  OBVIOUS
<1>3. PICK t \in Tasks :
         t = [Idle EXCEPT !.do = what, !.fd = d, !.id = Filefd(c, d).id,
                          !.n = Filefd(c, d).size, !.then = next, !.old = old]
  BY <1>1, ConstantFacts DEF Tasks, Asking, Through
<1>4. /\ t.do = what /\ t.fd = d /\ t.id = Filefd(c, d).id /\ t.n = Filefd(c, d).size
      /\ t.then = next /\ t.old = old
  BY <1>3, ConstantFacts DEF Tasks
<1>5. TalkTask(t)
  BY <1>2, <1>4 DEF TalkTask, Asking, Through
<1>6. EntryTask(c, t)
  BY <1>2, <1>4 DEF EntryTask
<1>7. PageTask(c, t)
  BY <1>2, <1>4 DEF PageTask
<1>8. Ask(c, t)
  BY <1>2, <1>3 DEF FileClose
<1> QED BY <1>5, <1>6, <1>7, <1>8 DEF Layers

\* What is known of a program that goes on.
LEMMA Mine ==
    ASSUME TalkInv, NEW c \in Client
    PROVE  /\ Types /\ CallSound(c) /\ task[c] \in Tasks /\ ipc[c] \in Stages
           /\ (task[c].do \in Quiet => Free(c)) /\ (ipc[c] \in {"ok", "error"} => Free(c))
<1>1. Types /\ CallSound(c)
  BY DEF TalkInv
<1>2. task[c] \in Tasks /\ ipc[c] \in Stages
  BY <1>1 DEF Types
<1> QED BY <1>1, <1>2 DEF CallSound, Free

\* open
LEMMA OpenContinues ==
    ASSUME TalkInv, NEW c \in Client, NEW f \in File, Open(c, f)
    PROVE  Continues(c)
<1>1. PICK d \in 0 .. MAXFD - 2 :
         /\ Calling(c, "open") /\ ~ Mapped(c, d)
         /\ Ask(c, [Idle EXCEPT !.do = "open", !.fd = d, !.file = f])
         /\ UNCHANGED <<kernel, fdtab, window>>
  BY DEF Open
<1>2. d \in Fd /\ d < MAXFD - 1
  BY ConstantFacts DEF Fd
<1>3. PICK t \in Tasks : t = [Idle EXCEPT !.do = "open", !.fd = d, !.file = f]
  BY <1>2, ConstantFacts DEF Tasks, Asking
<1>4. t.do = "open" /\ t.fd = d /\ t.file = f /\ t.then = "idle"
  BY <1>3, ConstantFacts DEF Tasks
<1>5. Layers(c, t)
  BY <1>1, <1>2, <1>4 DEF Layers, TalkTask, EntryTask, PageTask, Asking, Through
<1>6. Free(c) /\ task[c].do # "resize"
  BY <1>1, Mine DEF Calling, Quiet
<1> QED BY <1>1, <1>3, <1>5, <1>6 DEF Continues

\* remove and sync
LEMMA RequestContinues ==
    ASSUME TalkInv, NEW c \in Client, (\E f \in File : Remove(c, f)) \/ Sync(c)
    PROVE  Continues(c)
<1>1. PICK t \in Tasks :
         /\ Ask(c, t) /\ t.do \in {"remove", "sync"} /\ t.then = "idle"
         /\ t.do = "remove" => t.file \in File
  <2>1. CASE \E f \in File : Remove(c, f)
    <3> PICK f \in File : Remove(c, f)
      BY <2>1
    <3>1. PICK t \in Tasks : t = [Idle EXCEPT !.do = "remove", !.file = f]
      BY ConstantFacts DEF Tasks, Asking
    <3>2. t.do = "remove" /\ t.file = f /\ t.then = "idle"
      BY <3>1, ConstantFacts DEF Tasks
    <3> QED BY <2>1, <3>1, <3>2 DEF Remove
  <2>2. CASE Sync(c)
    <3>1. PICK t \in Tasks : t = [Idle EXCEPT !.do = "sync"]
      BY ConstantFacts DEF Tasks, Asking
    <3>2. t.do = "sync" /\ t.then = "idle"
      BY <3>1, ConstantFacts DEF Tasks
    <3> QED BY <2>2, <3>1, <3>2 DEF Sync
  <2> QED BY <2>1, <2>2
<1>2. Layers(c, t)
  BY <1>1 DEF Layers, TalkTask, EntryTask, PageTask, Asking, Through
<1>3. task[c].do = "idle" /\ UNCHANGED <<kernel, fdtab, window>>
  BY DEF Remove, Sync, Calling
<1>4. Free(c)
  BY <1>3, Mine DEF Quiet
<1> QED BY <1>1, <1>2, <1>3, <1>4 DEF Continues

\* open, when the descriptor has come
LEMMA OpenAnsweredContinues ==
    ASSUME TalkInv, NEW c \in Client, OpenAnswered(c)
    PROVE  Continues(c)
<1>1. /\ task[c].do = "open" /\ ipc[c] \in {"ok", "error"} /\ UNCHANGED <<kernel, fdtab, window>>
      /\ Free(c) /\ task[c] \in Tasks /\ Types /\ CallSound(c)
  BY Mine DEF OpenAnswered, Answered
<1>2. CASE Failed(c)
  BY <1>1, <1>2 DEF OpenAnswered, Continues
<1>3. CASE ~ Failed(c)
  <2>1. ipc[c] = "ok" /\ Mapped(c, task[c].fd) /\ task[c].fd \in Fd
    BY <1>1, <1>3, TaskTypes DEF Failed, CallSound
  <2>2. Filefd(c, task[c].fd).id \in Id /\ Filefd(c, task[c].fd).size \in 0 .. MaxSize
    BY <1>1, <2>1, MappedEntry
  <2>3. PICK t \in Tasks :
           t = [task[c] EXCEPT !.do = "map", !.id = Filefd(c, task[c].fd).id,
                               !.n = Filefd(c, task[c].fd).size]
    BY <1>1, <2>2 DEF Tasks, Asking, Through
  <2>4. /\ t.do = "map" /\ t.fd = task[c].fd /\ t.then = task[c].then /\ t.old = task[c].old
        /\ t.id = Filefd(c, t.fd).id /\ t.n = Filefd(c, t.fd).size
    BY <1>1, <2>3 DEF Tasks
  <2>5. TalkTask(t)
    BY <1>1, <2>4 DEF TalkTask, CallSound, Asking, Through
  <2>6. EntryInv => EntryTask(c, t)
    BY <1>1, <2>1, <2>4 DEF EntryTask, EntryInv, RequestSound
  <2>7. AskFrom(c, t, 0)
    BY <1>3, <2>3 DEF OpenAnswered
  <2>8. Return(c) \/ \E u \in Tasks : Ask(c, u) /\ Layers(c, u)
    BY <1>1, <2>4, <2>5, <2>6, <2>7, NextTurn
  <2> QED BY <1>1, <2>8 DEF Continues
<1> QED BY <1>2, <1>3

\* open and ftruncate, page by page
LEMMA MapAnsweredContinues ==
    ASSUME TalkInv, NEW c \in Client, MapAnswered(c) \/ ExtendAnswered(c)
    PROVE  Continues(c)
<1> PICK t \in Tasks : t = task[c]
  BY Mine
<1>1. /\ t.do \in {"map", "extend"} /\ ipc[c] \in {"ok", "error"} /\ UNCHANGED <<kernel, fdtab, window>>
      /\ Free(c) /\ Types /\ CallSound(c)
  BY Mine DEF MapAnswered, ExtendAnswered, Answered
<1>2. TalkTask(t)
  BY <1>1 DEF TalkTask, CallSound, Asking, Through
<1>3. EntryInv => EntryTask(c, t)
  BY <1>1 DEF EntryTask, EntryInv, RequestSound, Through
<1>4. EntryInv /\ PageInv => /\ t.n = Filefd(c, t.fd).size
                             /\ t.do = "extend" => "ftruncate" \in Calls[c]
  BY <1>1 DEF PageInv, LoopSound, Through
<1>5. CASE ~ Failed(c)
  <2>1. AskFrom(c, t, t.i + 1)
    BY <1>1, <1>5 DEF MapAnswered, ExtendAnswered
  <2>2. t.i + 1 \in Nat
    <3>1. t.i \in Page /\ Page \subseteq Nat
      BY TaskTypes, ConstantFacts
    <3>2. t.i \in Nat
      BY <3>1
    <3> QED BY <3>2
  <2>3. EntryInv /\ PageInv => "ftruncate" \in Calls[c] \/ t.do = "map"
    BY <1>1, <1>4
  <2>4. Return(c) \/ \E u \in Tasks : Ask(c, u) /\ Layers(c, u)
    BY <1>1, <1>2, <1>3, <1>4, <2>1, <2>2, <2>3, NextTurn
  <2> QED BY <1>1, <2>4 DEF Continues
<1>6. CASE Failed(c) /\ MapAnswered(c)
  BY <1>1, <1>6 DEF MapAnswered, Answered, Continues
<1>7. CASE Failed(c) /\ ExtendAnswered(c)
  <2>1. PICK u \in Tasks : u = [t EXCEPT !.do = "undo"]
    BY DEF Tasks, Asking, Through
  <2>2. /\ u.do = "undo" /\ u.fd = t.fd /\ u.id = t.id /\ u.old = t.old /\ u.then = t.then
    BY <2>1 DEF Tasks
  <2>3. t.do = "extend"
    BY <1>7 DEF ExtendAnswered, Answered
  <2>4. TalkTask(u) /\ (EntryInv => EntryTask(c, u)) /\ (EntryInv /\ PageInv => PageTask(c, u))
    BY <1>2, <1>3, <1>4, <2>2, <2>3 DEF TalkTask, EntryTask, PageTask, Asking, Through
  <2>5. Ask(c, u)
    BY <1>7, <2>1 DEF ExtendAnswered
  <2> QED BY <1>1, <2>4, <2>5 DEF Continues, Layers
<1> QED BY <1>5, <1>6, <1>7

\* close, page by page
LEMMA DirtyAnsweredContinues ==
    ASSUME TalkInv, NEW c \in Client, DirtyAnswered(c)
    PROVE  Continues(c)
<1> PICK t \in Tasks : t = task[c]
  BY Mine
<1>1. /\ t.do = "dirty" /\ ipc[c] \in {"ok", "error"} /\ UNCHANGED <<kernel, fdtab, window>>
      /\ Free(c) /\ Types /\ CallSound(c)
  BY Mine DEF DirtyAnswered, Answered
<1>2. PICK u \in Tasks :
         u = IF t.i + 1 < t.n THEN [t EXCEPT !.i = @ + 1] ELSE [t EXCEPT !.do = "close"]
  <2>1. CASE t.i + 1 < t.n
    <3>1. t.i \in Nat /\ t.n \in 0 .. MaxSize /\ MaxSize \in Nat
      BY TaskTypes, ConstantFacts
    <3>2. t.i + 1 \in Page
      BY <2>1, <3>1 DEF Page
    <3> QED BY <2>1, <3>2 DEF Tasks
  <2>2. CASE ~(t.i + 1 < t.n)
    BY <2>2 DEF Tasks, Asking, Through
  <2> QED BY <2>1, <2>2
<1>3. /\ u.do \in {"dirty", "close"} /\ u.fd = t.fd /\ u.id = t.id /\ u.n = t.n
      /\ u.old = t.old /\ u.then = t.then
  BY <1>1, <1>2 DEF Tasks
<1>4. TalkTask(u)
  BY <1>1, <1>3 DEF TalkTask, CallSound, Asking, Through
<1>5. EntryInv => EntryTask(c, u)
  BY <1>1, <1>3 DEF EntryTask, EntryInv, RequestSound, Through
<1>6. EntryInv /\ PageInv => PageTask(c, u)
  BY <1>1, <1>3 DEF PageTask, PageInv, LoopSound, Through
<1>7. Ask(c, u)
  BY <1>2 DEF DirtyAnswered
<1> QED BY <1>1, <1>4, <1>5, <1>6, <1>7 DEF Continues, Layers

\* The last answer of a call
LEMMA LastAnsweredContinues ==
    ASSUME TalkInv, NEW c \in Client, LastAnswered(c)
    PROVE  Continues(c)
<1>1. /\ task[c].do \in {"undo", "remove", "sync"} /\ ipc[c] \in {"ok", "error"}
      /\ Return(c) /\ UNCHANGED <<kernel, fdtab, window>>
  BY DEF LastAnswered, Answered
<1>2. Free(c)
  BY <1>1, Mine
<1> QED BY <1>1, <1>2 DEF Continues

\* close, by itself, in dup and in close_all
LEMMA CloseContinues ==
    ASSUME TalkInv, NEW c \in Client, NEW d \in Fd, Close(c, d)
    PROVE  Continues(c)
<1>1. /\ task[c].do = "idle" /\ Mapped(c, d) /\ FileClose(c, d, "idle", 0)
      /\ UNCHANGED <<kernel, fdtab, window>>
  BY DEF Close, Calling
<1>2. Types /\ Free(c)
  BY <1>1, Mine DEF Quiet
<1>3. \E t \in Tasks : Ask(c, t) /\ Layers(c, t)
  BY <1>1, <1>2, FileCloseAsks, ConstantFacts
<1> QED BY <1>1, <1>2, <1>3 DEF Continues

\* dup with an open target begins by closing it.
LEMMA DupContinues ==
    ASSUME TalkInv, NEW c \in Client, NEW from \in Fd, NEW to \in Fd, Dup(c, from, to), Mapped(c, to)
    PROVE  Continues(c)
<1>1. /\ task[c].do = "idle" /\ "dup" \in Calls[c] /\ Mapped(c, from) /\ from # to
      /\ FileClose(c, to, "dup", from) /\ UNCHANGED <<kernel, fdtab, window>>
  BY DEF Dup, Calling
<1>2. Types /\ Free(c)
  BY <1>1, Mine DEF Quiet
<1>3. \E t \in Tasks : Ask(c, t) /\ Layers(c, t)
  BY <1>1, <1>2, FileCloseAsks
<1> QED BY <1>1, <1>2, <1>3 DEF Continues

\* close_all takes the first open descriptor next.
LEMMA CloseAllContinues ==
    ASSUME TalkInv, NEW c \in Client, CloseAll(c), \E d \in Fd : Mapped(c, d)
    PROVE  Continues(c)
<1> DEFINE open == {d \in Fd : Mapped(c, d)}
<1>1. PICK d \in open : d = CHOOSE z \in open : \A e \in open : z <= e
  BY Smallest
<1>2. /\ task[c].do = "exit" /\ d \in Fd /\ Mapped(c, d) /\ FileClose(c, d, "exit", 0)
      /\ UNCHANGED <<kernel, fdtab, window>>
  BY <1>1 DEF CloseAll
<1>3. Types /\ Free(c)
  BY <1>2, Mine DEF Quiet
<1>4. \E t \in Tasks : Ask(c, t) /\ Layers(c, t)
  BY <1>2, <1>3, FileCloseAsks, ConstantFacts
<1> QED BY <1>2, <1>3, <1>4 DEF Continues

\* A program that goes on is in a place of a library call.
GoesTo(c, t, s) == task' = [task EXCEPT ![c] = t] /\ ipc' = [ipc EXCEPT ![c] = s]

\* dup, when nothing is open at the target
LEMMA DupTalk ==
    ASSUME TalkInv, NEW c \in Client, NEW from \in Fd, NEW to \in Fd, Dup(c, from, to),
           ~ Mapped(c, to)
    PROVE  /\ ClientFrame(c) /\ TalkInv' /\ task[c].do = "idle" /\ ipc'[c] = "none"
           /\ \E t \in Tasks : /\ task'[c] = t /\ t.do = "dup" /\ t.fd = to /\ t.old = from
                               /\ t.then = "idle"
<1>1. PICK t \in Tasks : t = [Idle EXCEPT !.do = "dup", !.fd = to, !.old = from]
  BY ConstantFacts DEF Tasks, Quiet
<1>2. t.do = "dup" /\ t.fd = to /\ t.old = from /\ t.then = "idle"
  BY <1>1, ConstantFacts DEF Tasks
<1>3. /\ task[c].do = "idle" /\ task' = [task EXCEPT ![c] = t] /\ ipc' = ipc
      /\ opentab' = opentab /\ filefd' = filefd /\ size' = size /\ named' = named /\ srv' = srv
      /\ fdtab' = fdtab /\ window' = window
  BY <1>1 DEF Dup, Calling, kernel
<1>4. Types /\ Free(c) /\ ipc[c] = "none"
  BY <1>3, Mine DEF Quiet, CallSound
<1>5. ClientFrame(c)
  BY <1>3, <1>4 DEF ClientFrame, Types
<1>6. Types'
  BY <1>3, <1>4 DEF Types
<1>7. task'[c] = t
  BY <1>3, <1>4 DEF Types
<1>8. CallSound(c)'
  BY <1>2, <1>3, <1>4, <1>7 DEF CallSound, Quiet
<1> QED BY <1>2, <1>3, <1>4, <1>5, <1>6, <1>7, <1>8, ClientTalk

\* dup, to the mappings
LEMMA DupMapTalk ==
    ASSUME TalkInv, NEW c \in Client, DupMap(c)
    PROVE  /\ ClientFrame(c) /\ TalkInv' /\ task'[c] = Idle
           /\ task[c].do = "dup" /\ task[c].fd \in Fd /\ task[c].old \in Fd /\ filefd' = filefd
           /\ fdtab' = [fdtab EXCEPT ![c][task[c].fd] = fdtab[c][task[c].old]]
           /\ window' = [window EXCEPT ![c][task[c].fd] =
                            [i \in Page |-> IF window[c][task[c].old][i] = None THEN @[i]
                                           ELSE window[c][task[c].old][i]]]
<1>1. /\ task[c].do = "dup" /\ Return(c) /\ kernel' = kernel
      /\ fdtab' = [fdtab EXCEPT ![c][task[c].fd] = fdtab[c][task[c].old]]
      /\ window' = [window EXCEPT ![c][task[c].fd] =
                       [i \in Page |-> IF window[c][task[c].old][i] = None THEN @[i]
                                      ELSE window[c][task[c].old][i]]]
  BY DEF DupMap
<1>2. /\ opentab' = opentab /\ filefd' = filefd /\ size' = size /\ named' = named /\ srv' = srv
      /\ task' = [task EXCEPT ![c] = Idle] /\ ipc' = [ipc EXCEPT ![c] = "none"]
  BY <1>1 DEF kernel, Return
<1>3. Types /\ Free(c) /\ task[c] \in Tasks /\ CallSound(c)
  BY <1>1, Mine DEF Quiet
<1>4. PICK fd \in Fd, old \in Fd : fd = task[c].fd /\ old = task[c].old
  BY <1>1, <1>3, TaskTypes DEF CallSound
<1>5. task'[c] = Idle /\ ipc'[c] = "none"
  BY <1>2, <1>3 DEF Types
<1>6. ClientFrame(c)
  BY <1>1, <1>2, <1>3, <1>4, <1>5 DEF ClientFrame, Types
<1>7. Types'
  <2>1. fdtab' \in [Client -> [Fd -> Descs \cup {None}]]
    BY <1>1, <1>3, <1>4 DEF Types
  <2>2. window' \in [Client -> Windows]
    <3>1. window' = [window EXCEPT ![c][fd] =
                       [i \in Page |-> IF window[c][old][i] = None THEN window[c][fd][i]
                                      ELSE window[c][old][i]]]
      BY <1>1, <1>3, <1>4 DEF Types, Windows
    <3>2. [i \in Page |-> IF window[c][old][i] = None THEN window[c][fd][i]
                         ELSE window[c][old][i]] \in [Page -> File \cup {None}]
      BY <1>3 DEF Types, Windows
    <3> QED BY <1>3, <3>1, <3>2 DEF Types, Windows
  <2> QED BY <1>2, <1>3, <2>1, <2>2, ConstantFacts DEF Types, Stages
<1>8. CallSound(c)'
  BY <1>5, ConstantFacts DEF CallSound, Quiet
<1> QED BY <1>1, <1>2, <1>4, <1>5, <1>6, <1>7, <1>8, ClientTalk

\* dup, when it cannot map
LEMMA DupFailsTalk ==
    ASSUME TalkInv, NEW c \in Client, DupFails(c)
    PROVE  /\ ClientFrame(c) /\ TalkInv' /\ task'[c] = Idle
           /\ task[c].do = "dup" /\ task[c].fd \in Fd /\ filefd' = filefd
           /\ fdtab' = [fdtab EXCEPT ![c][task[c].fd] = None]
           /\ window' = [window EXCEPT ![c][task[c].fd] = [i \in Page |-> None]]
<1>1. /\ task[c].do = "dup" /\ Return(c) /\ kernel' = kernel
      /\ fdtab' = [fdtab EXCEPT ![c][task[c].fd] = None]
      /\ window' = [window EXCEPT ![c][task[c].fd] = [i \in Page |-> None]]
  BY DEF DupFails
<1>2. /\ opentab' = opentab /\ filefd' = filefd /\ size' = size /\ named' = named /\ srv' = srv
      /\ task' = [task EXCEPT ![c] = Idle] /\ ipc' = [ipc EXCEPT ![c] = "none"]
  BY <1>1 DEF kernel, Return
<1>3. Types /\ Free(c) /\ task[c] \in Tasks
  BY <1>1, Mine DEF Quiet
<1>4. PICK fd \in Fd : fd = task[c].fd
  BY <1>3, TaskTypes
<1>5. task'[c] = Idle /\ ipc'[c] = "none"
  BY <1>2, <1>3 DEF Types
<1>6. ClientFrame(c)
  BY <1>1, <1>2, <1>3, <1>4, <1>5 DEF ClientFrame, Types
<1>7. Types'
  <2>1. fdtab' \in [Client -> [Fd -> Descs \cup {None}]]
    BY <1>1, <1>3, <1>4 DEF Types
  <2>2. window' \in [Client -> Windows]
    BY <1>1, <1>3, <1>4 DEF Types, Windows
  <2> QED BY <1>2, <1>3, <2>1, <2>2, ConstantFacts DEF Types, Stages
<1>8. CallSound(c)'
  BY <1>5, ConstantFacts DEF CallSound, Quiet
<1> QED BY <1>1, <1>2, <1>4, <1>5, <1>6, <1>7, <1>8, ClientTalk

\* Pages that are unmapped
LEMMA UnmapType ==
    ASSUME NEW w \in [Page -> File \cup {None}], NEW m, NEW n
    PROVE  /\ Unmap(w, m, n) \in [Page -> File \cup {None}]
           /\ \A i \in Page : Unmap(w, m, n)[i] = IF i \in m .. n - 1 THEN None ELSE w[i]
  BY DEF Unmap

\* close, when the server has answered
LEMMA CloseAnsweredTalk ==
    ASSUME TalkInv, NEW c \in Client, CloseAnswered(c)
    PROVE  /\ ClientFrame(c) /\ TalkInv' /\ task'[c] = After(task[c]) /\ ipc'[c] = "none"
           /\ task[c].do = "close" /\ task[c].fd \in Fd /\ filefd' = filefd
           /\ fdtab' = [fdtab EXCEPT ![c][task[c].fd] = None]
           /\ window' = IF Failed(c) THEN window
                        ELSE [window EXCEPT ![c][task[c].fd] = Unmap(@, 0, task[c].n)]
<1>1. /\ task[c].do = "close" /\ ipc[c] \in {"ok", "error"}
      /\ fdtab' = [fdtab EXCEPT ![c][task[c].fd] = None]
      /\ window' = IF Failed(c) THEN window
                   ELSE [window EXCEPT ![c][task[c].fd] = Unmap(@, 0, task[c].n)]
      /\ opentab' = opentab /\ filefd' = filefd /\ size' = size /\ named' = named /\ srv' = srv
      /\ task' = [task EXCEPT ![c] = After(task[c])] /\ ipc' = [ipc EXCEPT ![c] = "none"]
  BY DEF CloseAnswered, Answered, kernel
<1>2. Types /\ Free(c) /\ task[c] \in Tasks /\ CallSound(c)
  BY <1>1, Mine
<1>3. PICK fd \in Fd, n \in 0 .. MaxSize : fd = task[c].fd /\ n = task[c].n
  BY <1>2, TaskTypes
<1>4. \E t \in Tasks : /\ t = After(task[c]) /\ t.do \in Quiet
                       /\ (t.do = "dup" \/ t.then = "dup") => t.old \in Fd
  <2>1. CASE task[c].then = "idle"
    BY <2>1, ConstantFacts DEF After, Quiet
  <2>2. CASE task[c].then # "idle"
    <3> DEFINE x == [Idle EXCEPT !.do = task[c].then, !.fd = task[c].fd, !.old = task[c].old]
    <3>3. task[c].then \in Quiet /\ task[c].fd \in Fd /\ task[c].old \in (0 .. MaxSize) \cup Fd
      BY <1>2, <2>2, TaskTypes DEF Quiet
    <3>4. x \in Tasks
      BY <3>3, ConstantFacts DEF Tasks
    <3>1. PICK t \in Tasks : t = x
      BY <3>4
    <3>2. t.do = task[c].then /\ t.then = "idle" /\ t.old = task[c].old
      BY <3>1, ConstantFacts DEF Tasks
    <3> QED BY <1>2, <2>2, <3>1, <3>2, TaskTypes DEF After, Quiet, CallSound
  <2> QED BY <2>1, <2>2
<1> PICK t \in Tasks : /\ t = After(task[c]) /\ t.do \in Quiet
                       /\ (t.do = "dup" \/ t.then = "dup") => t.old \in Fd
  BY <1>4
<1>9. task' = [task EXCEPT ![c] = t]
  BY <1>1
<1>5. task'[c] = t /\ ipc'[c] = "none"
  BY <1>1, <1>2, <1>9 DEF Types
<1>6. ClientFrame(c)
  BY <1>1, <1>2, <1>5 DEF ClientFrame, Types
<1>7. Types'
  <2>1. fdtab' \in [Client -> [Fd -> Descs \cup {None}]]
    BY <1>1, <1>2, <1>3 DEF Types
  <2>2. window' \in [Client -> Windows]
    <3>0. window[c][fd] \in [Page -> File \cup {None}]
      BY <1>2 DEF Types, Windows
    <3>1. Unmap(window[c][fd], 0, n) \in [Page -> File \cup {None}]
      BY <3>0, UnmapType
    <3>2. ~ Failed(c) => window' = [window EXCEPT ![c][fd] = Unmap(window[c][fd], 0, n)]
      BY <1>1, <1>2, <1>3 DEF Types, Windows
    <3>3. c \in Client /\ window \in [Client -> Windows] /\ window[c] \in Windows
      BY <1>2 DEF Types
    <3>4. CASE Failed(c)
      BY <1>1, <3>3, <3>4
    <3>5. CASE ~ Failed(c)
      <4> DEFINE w == [window[c] EXCEPT ![fd] = Unmap(window[c][fd], 0, n)]
      <4>1. w \in Windows
        BY <3>1, <3>3 DEF Windows
      <4>2. window' = [window EXCEPT ![c] = w]
        BY <3>2, <3>5
      <4> HIDE DEF w
      <4> QED BY <3>3, <4>1, <4>2
    <3> QED BY <3>4, <3>5
  <2>3. task' \in [Client -> Tasks] /\ ipc' \in [Client -> Stages]
    BY <1>1, <1>2, <1>9 DEF Types, Stages
  <2> QED BY <1>1, <1>2, <2>1, <2>2, <2>3 DEF Types
<1>8. CallSound(c)'
  BY <1>5 DEF CallSound, Quiet
<1> QED BY <1>1, <1>3, <1>9, <1>5, <1>6, <1>7, <1>8, ClientTalk

\* ftruncate, when the server has answered: what is left is a loop
LEMMA ResizeAnsweredTalk ==
    ASSUME TalkInv, NEW c \in Client, ResizeAnswered(c)
    PROVE  /\ ClientFrame(c) /\ TalkInv' /\ task[c].do = "resize" /\ task[c].fd \in Fd
           /\ task[c].n \in 0 .. MaxSize /\ task[c].old \in 0 .. MaxSize
           /\ filefd' = filefd /\ fdtab' = fdtab
           /\ window' = IF Failed(c) THEN window
                        ELSE [window EXCEPT ![c][task[c].fd] = Unmap(@, task[c].n, task[c].old)]
           /\ \/ task'[c] = Idle
              \/ \E t \in Tasks : /\ task'[c] = t /\ t.do = "extend" /\ t.fd = task[c].fd
                                  /\ t.id = task[c].id /\ t.n = task[c].n /\ t.then = task[c].then
                                  /\ t.old = task[c].old /\ t.i < t.n
           /\ ipc'[c] \in {"none", "send"}
<1> PICK t \in Tasks : t = task[c]
  BY Mine
<1>1. /\ t.do = "resize" /\ ipc[c] \in {"ok", "error"} /\ fdtab' = fdtab
      /\ window' = IF Failed(c) THEN window
                   ELSE [window EXCEPT ![c][t.fd] = Unmap(@, t.n, t.old)]
      /\ opentab' = opentab /\ filefd' = filefd /\ size' = size /\ named' = named /\ srv' = srv
      /\ IF Failed(c) THEN Return(c) ELSE AskFrom(c, [t EXCEPT !.do = "extend"], t.old)
  BY DEF ResizeAnswered, Answered, kernel
<1>2. /\ Types /\ Free(c) /\ CallSound(c)
  BY <1>1, Mine
<1>3. t.fd \in Fd /\ t.n \in 0 .. MaxSize /\ t.old \in 0 .. MaxSize
  BY <1>1, <1>2, TaskTypes DEF CallSound
<1>4. \/ Return(c)
      \/ \E u \in Tasks : /\ Ask(c, u) /\ u.do = "extend" /\ u.fd = t.fd /\ u.id = t.id /\ u.n = t.n
                          /\ u.then = t.then /\ u.old = t.old /\ u.i < u.n
  <2>1. CASE ~ Failed(c) /\ t.old < t.n
    <3>1. t.old \in Page
      BY <1>3, <2>1, ConstantFacts DEF Page
    <3>2. PICK u \in Tasks : u = [t EXCEPT !.do = "extend", !.i = t.old]
      BY <3>1 DEF Tasks, Asking, Through
    <3>3. /\ u.do = "extend" /\ u.fd = t.fd /\ u.id = t.id /\ u.n = t.n /\ u.then = t.then
          /\ u.old = t.old /\ u.i = t.old
      BY <3>2 DEF Tasks
    <3>4. PICK v \in Tasks : v = [t EXCEPT !.do = "extend"]
      BY DEF Tasks, Asking, Through
    <3>5. v.n = t.n /\ u = [v EXCEPT !.i = t.old]
      BY <3>2, <3>4 DEF Tasks
    <3>6. Ask(c, u)
      BY <1>1, <2>1, <3>4, <3>5 DEF AskFrom
    <3> QED BY <2>1, <3>3, <3>6
  <2>2. CASE Failed(c) \/ ~(t.old < t.n)
    <3>1. PICK v \in Tasks : v = [t EXCEPT !.do = "extend"]
      BY DEF Tasks, Asking, Through
    <3>2. v.n = t.n
      BY <3>1 DEF Tasks
    <3> QED BY <1>1, <2>2, <3>1, <3>2 DEF AskFrom
  <2> QED BY <2>1, <2>2
<1>5. PICK u \in Tasks, s \in {"none", "send"} :
         /\ task' = [task EXCEPT ![c] = u] /\ ipc' = [ipc EXCEPT ![c] = s]
         /\ \/ u = Idle /\ s = "none"
            \/ /\ s = "send" /\ u.do = "extend" /\ u.fd = t.fd /\ u.id = t.id /\ u.n = t.n
               /\ u.then = t.then /\ u.old = t.old /\ u.i < u.n
  <2>1. CASE Return(c)
    BY <2>1, ConstantFacts DEF Return
  <2>2. ASSUME NEW u \in Tasks, Ask(c, u), u.do = "extend", u.fd = t.fd, u.id = t.id, u.n = t.n,
               u.then = t.then, u.old = t.old, u.i < u.n
        PROVE  \E v \in Tasks, s \in {"none", "send"} :
                 /\ task' = [task EXCEPT ![c] = v] /\ ipc' = [ipc EXCEPT ![c] = s]
                 /\ \/ v = Idle /\ s = "none"
                    \/ /\ s = "send" /\ v.do = "extend" /\ v.fd = t.fd /\ v.id = t.id /\ v.n = t.n
                       /\ v.then = t.then /\ v.old = t.old /\ v.i < v.n
    BY <2>2 DEF Ask
  <2> QED BY <1>4, <2>1, <2>2
<1>6. task'[c] = u /\ ipc'[c] = s
  BY <1>2, <1>5 DEF Types
<1>7. ClientFrame(c)
  BY <1>1, <1>2, <1>3, <1>5, <1>6 DEF ClientFrame, Types, Windows
<1>8. Types'
  <2>1. window' \in [Client -> Windows]
    <3>0. window[c][t.fd] \in [Page -> File \cup {None}]
      BY <1>2, <1>3 DEF Types, Windows
    <3>1. Unmap(window[c][t.fd], t.n, t.old) \in [Page -> File \cup {None}]
      BY <3>0, UnmapType
    <3>2. ~ Failed(c) => window' = [window EXCEPT ![c][t.fd] = Unmap(window[c][t.fd], t.n, t.old)]
      BY <1>1, <1>2, <1>3 DEF Types, Windows
    <3> QED BY <1>1, <1>2, <1>3, <3>1, <3>2 DEF Types, Windows
  <2>2. task' \in [Client -> Tasks] /\ ipc' \in [Client -> Stages]
    BY <1>2, <1>5 DEF Types, Stages
  <2> QED BY <1>1, <1>2, <2>1, <2>2 DEF Types
<1>9. CallSound(c)'
  BY <1>1, <1>2, <1>3, <1>5, <1>6, ConstantFacts DEF CallSound, Quiet
<1>10. TalkInv'
  BY <1>7, <1>8, <1>9, ClientTalk
<1> QED BY <1>1, <1>3, <1>5, <1>6, <1>7, <1>10

\* ftruncate
LEMMA FtruncateTalk ==
    ASSUME TalkInv, NEW c \in Client, NEW d \in Fd, NEW n \in Sizes, Ftruncate(c, d, n)
    PROVE  /\ ClientFrame(c) /\ TalkInv' /\ Mapped(c, d) /\ "ftruncate" \in Calls[c]
           /\ task[c].do = "idle" /\ fdtab' = fdtab /\ window' = window
           /\ \A o \in Slot : filefd'[o].size = IF o = fdtab[c][d].slot THEN n ELSE filefd[o].size
           /\ n \in 0 .. MaxSize
           /\ \E t \in Tasks : /\ task'[c] = t /\ t.do = "resize" /\ t.fd = d
                               /\ t.id = Filefd(c, d).id /\ t.n = n /\ t.old = Filefd(c, d).size
                               /\ t.then = "idle"
<1>1. /\ task[c].do = "idle" /\ "ftruncate" \in Calls[c] /\ Mapped(c, d)
      /\ filefd' = [filefd EXCEPT ![fdtab[c][d].slot].size = n]
      /\ opentab' = opentab /\ size' = size /\ named' = named /\ srv' = srv
      /\ fdtab' = fdtab /\ window' = window
  BY DEF Ftruncate, Calling
<1>2. Types /\ Free(c)
  BY <1>1, Mine DEF Quiet
<1>3. /\ Filefd(c, d).id \in Id /\ Filefd(c, d).size \in 0 .. MaxSize /\ n \in 0 .. MaxSize
      /\ fdtab[c][d].slot \in Slot
  BY <1>1, <1>2, MappedEntry, ConstantFacts
<1>4. PICK t \in Tasks :
         t = [Idle EXCEPT !.do = "resize", !.fd = d, !.id = Filefd(c, d).id,
                          !.n = n, !.old = Filefd(c, d).size]
  BY <1>3, ConstantFacts DEF Tasks, Asking, Through
<1>5. /\ t.do = "resize" /\ t.fd = d /\ t.id = Filefd(c, d).id /\ t.n = n
      /\ t.old = Filefd(c, d).size /\ t.then = "idle"
  BY <1>4, ConstantFacts DEF Tasks
<1>6. task' = [task EXCEPT ![c] = t] /\ ipc' = [ipc EXCEPT ![c] = "send"]
  BY <1>4 DEF Ftruncate, Ask
<1>7. task'[c] = t /\ ipc'[c] = "send"
  BY <1>2, <1>6 DEF Types
<1>8. \A o \in Slot : /\ filefd'[o].id = filefd[o].id
                      /\ filefd'[o] = filefd[o] \/ o = fdtab[c][d].slot
                      /\ filefd'[o].size = IF o = fdtab[c][d].slot THEN n ELSE filefd[o].size
  BY <1>1, <1>2, <1>3 DEF Types, Fields
<1>9. ClientFrame(c)
  BY <1>1, <1>2, <1>6, <1>7, <1>8 DEF ClientFrame, Types
<1>10. Types'
  <2>1. filefd' \in [Slot -> Fields]
    BY <1>1, <1>2, <1>3 DEF Types, Fields
  <2> QED BY <1>1, <1>2, <1>6, <2>1 DEF Types, Stages
<1>11. CallSound(c)'
  BY <1>3, <1>5, <1>7 DEF CallSound, Quiet
<1> QED BY <1>1, <1>3, <1>5, <1>7, <1>8, <1>9, <1>10, <1>11, ClientTalk

\* _exit, and its end
LEMMA ExitTalk ==
    ASSUME TalkInv, NEW c \in Client,
           Exit(c) \/ (CloseAll(c) /\ ~ \E d \in Fd : Mapped(c, d))
    PROVE  /\ ClientFrame(c) /\ TalkInv' /\ filefd' = filefd /\ fdtab' = fdtab
           /\ window' = window \/ window' = [window EXCEPT ![c] = [d \in Fd |-> [i \in Page |-> None]]]
           /\ task[c].do \in Quiet /\ ipc'[c] = "none"
           /\ \E t \in Tasks : task'[c] = t /\ t.do \in {"exit", "dead"} /\ t.then = "idle"
<1>1. PICK t \in Tasks :
         /\ task' = [task EXCEPT ![c] = t] /\ t.do \in {"exit", "dead"} /\ t.then = "idle"
  <2>1. CASE Exit(c)
    <3>1. PICK t \in Tasks : t = [Idle EXCEPT !.do = "exit"]
      BY ConstantFacts DEF Tasks, Quiet
    <3>2. t.do = "exit" /\ t.then = "idle"
      BY <3>1, ConstantFacts DEF Tasks
    <3> QED BY <2>1, <3>1, <3>2 DEF Exit
  <2>2. CASE CloseAll(c) /\ ~ \E d \in Fd : Mapped(c, d)
    <3>1. PICK t \in Tasks : t = [Idle EXCEPT !.do = "dead"]
      BY ConstantFacts DEF Tasks, Quiet
    <3>2. t.do = "dead" /\ t.then = "idle"
      BY <3>1, ConstantFacts DEF Tasks
    <3> QED BY <2>2, <3>1, <3>2 DEF CloseAll
  <2> QED BY <2>1, <2>2
<1>2. /\ task[c].do \in {"idle", "exit"} /\ ipc' = ipc /\ fdtab' = fdtab
      /\ window' = window \/ window' = [window EXCEPT ![c] = [d \in Fd |-> [i \in Page |-> None]]]
      /\ opentab' = opentab /\ filefd' = filefd /\ size' = size /\ named' = named /\ srv' = srv
  BY DEF Exit, CloseAll, Calling, kernel
<1>3. Types /\ Free(c) /\ CallSound(c) /\ ipc[c] = "none"
  BY <1>2, Mine DEF Quiet, CallSound
<1>4. task'[c] = t
  BY <1>1, <1>3 DEF Types
<1>5. ClientFrame(c)
  BY <1>1, <1>2, <1>3 DEF ClientFrame, Types
<1>6. Types'
  <2>1. [d \in Fd |-> [i \in Page |-> None]] \in Windows
    BY DEF Windows
  <2>2. window' \in [Client -> Windows]
    BY <1>2, <1>3, <2>1 DEF Types
  <2> QED BY <1>1, <1>2, <1>3, <2>2 DEF Types
<1>7. CallSound(c)'
  BY <1>1, <1>2, <1>3, <1>4 DEF CallSound, Quiet
<1> QED BY <1>1, <1>2, <1>3, <1>4, <1>5, <1>6, <1>7, ClientTalk DEF Quiet

-----------------------------------------------------------------------------
(* What the steps of the server and the messages are like                  *)

\* The messages of a client: the request, and the wait for the answer.
LEMMA IpcSendTalk ==
    ASSUME TalkInv, NEW c \in Client, IpcSend(c)
    PROVE  TalkInv'
<1>1. /\ ipc[c] = "send" /\ srv.stage = "recv" /\ ipc' = [ipc EXCEPT ![c] = "sent"]
      /\ srv' = [NoReply EXCEPT !.stage = "got", !.from = c]
      /\ opentab' = opentab /\ filefd' = filefd /\ size' = size /\ named' = named
      /\ task' = task /\ fdtab' = fdtab /\ window' = window
  BY DEF IpcSend
<1>2. Types
  BY DEF TalkInv
<1>3. /\ srv' \in Servers /\ srv'.stage = "got" /\ srv'.from = c /\ srv'.sent = "nothing"
      /\ srv'.after = "loop"
  BY <1>1, ConstantFacts DEF NoReply, Servers
<1>4. \A x \in Client : ~ Waits(x) /\ (x # c => ~ Waits(x)')
  BY <1>1, <1>2 DEF TalkInv, ServerSound, Waits, Types
<1>5. Waits(c)' /\ ipc'[c] = "sent"
  BY <1>1, <1>2 DEF Waits, Types
<1>6. Types'
  BY <1>1, <1>2, <1>3 DEF Types, Stages
<1>7. ServerSound'
  BY <1>3, <1>4, <1>5 DEF ServerSound, Waits
<1>8. \A x \in Client : CallSound(x)'
  <2> SUFFICES ASSUME NEW x \in Client PROVE CallSound(x)'
    OBVIOUS
  <2>1. ipc[c] = "send" /\ (x # c => ipc'[x] = ipc[x])
    BY <1>1, <1>2 DEF Types
  <2>2. CallSound(x)
    BY DEF TalkInv
  <2> QED BY <1>1, <1>5, <2>1, <2>2 DEF CallSound, Mapped
<1> QED BY <1>6, <1>7, <1>8 DEF TalkInv

\* The client goes on from ipc_send to ipc_recv; the server does not notice.
LEMMA IpcRecvTalk ==
    ASSUME TalkInv, NEW c \in Client, IpcRecv(c)
    PROVE  TalkInv'
<1>1. /\ ipc[c] = "sent" /\ ipc' = [ipc EXCEPT ![c] = "wait"]
      /\ opentab' = opentab /\ filefd' = filefd /\ size' = size /\ named' = named
      /\ srv' = srv /\ task' = task /\ fdtab' = fdtab /\ window' = window
  BY DEF IpcRecv, kernel
<1>2. Types
  BY DEF TalkInv
<1>3. ipc'[c] = "wait" /\ \A x \in Client : x # c => ipc'[x] = ipc[x]
  BY <1>1, <1>2 DEF Types
<1>4. \A x \in Client : Waits(x)' <=> Waits(x)
  BY <1>1, <1>3 DEF Waits
<1>5. Types'
  BY <1>1, <1>2 DEF Types, Stages
<1>6. ServerSound'
  <2>1. srv.stage \in {"got", "reply"} => srv.from \in Client
    BY DEF TalkInv, ServerSound
  <2>2. srv.stage \in {"got", "reply"} => (Waits(srv.from)' <=> Waits(srv.from))
    BY <1>1, <1>4, <2>1 DEF Waits
  <2>3. ServerSound
    BY DEF TalkInv
  <2> QED BY <1>1, <1>4, <2>1, <2>2, <2>3 DEF ServerSound, Waits
<1>7. \A x \in Client : CallSound(x)'
  <2> SUFFICES ASSUME NEW x \in Client PROVE CallSound(x)'
    OBVIOUS
  <2>1. CallSound(x)
    BY DEF TalkInv
  <2> QED BY <1>1, <1>3, <2>1 DEF CallSound, Mapped
<1> QED BY <1>5, <1>6, <1>7 DEF TalkInv

\* The answer of the server
LEMMA IpcReplyTalk ==
    ASSUME TalkInv, IpcReply
    PROVE  /\ TalkInv' /\ srv.from \in Client /\ srv.stage = "reply" /\ ipc[srv.from] = "wait"
           /\ srv'.stage = "done" /\ srv'.after = srv.after /\ srv'.file = srv.file
           /\ ipc' = [ipc EXCEPT ![srv.from] = srv.r] /\ srv.r \in {"ok", "error"}
           /\ opentab' = opentab /\ filefd' = filefd /\ size' = size /\ named' = named
           /\ task' = task
           /\ \A x \in Client : x # srv.from => ipc'[x] = ipc[x] /\ fdtab'[x] = fdtab[x]
                                                /\ window'[x] = window[x]
<1>1. /\ srv.stage = "reply" /\ ipc[srv.from] = "wait" /\ ipc' = [ipc EXCEPT ![srv.from] = srv.r]
      /\ srv' = [NoReply EXCEPT !.from = srv.from, !.after = srv.after, !.file = srv.file]
      /\ fdtab' = IF srv.sent = "descriptor"
                  THEN [fdtab EXCEPT ![srv.from][task[srv.from].fd] =
                          [slot |-> srv.slot, file |-> task[srv.from].file]]
                  ELSE fdtab
      /\ window' = IF srv.sent = "block"
                   THEN [window EXCEPT ![srv.from][task[srv.from].fd][task[srv.from].i] = srv.file]
                   ELSE window
      /\ opentab' = opentab /\ filefd' = filefd /\ size' = size /\ named' = named /\ task' = task
  BY DEF IpcReply
<1>2. Types /\ ServerSound /\ srv \in Servers
  BY DEF TalkInv, Types
<1>3. PICK c \in Client : c = srv.from
  BY <1>1, <1>2 DEF ServerSound
<1>4. /\ srv.r \in {"ok", "error"} /\ srv.file \in File \cup {None}
      /\ srv.after \in {"loop", "null", "full", "wild"}
  BY <1>2 DEF Servers
<1>5. Waits(c) /\ CallSound(c) /\ task[c] \in Tasks
  BY <1>1, <1>2, <1>3 DEF Waits, TalkInv, Types
<1>6. PICK fd \in Fd, i \in Page : fd = task[c].fd /\ i = task[c].i
  BY <1>5, TaskTypes
<1>7. srv.sent = "descriptor" =>
         /\ task[c].do = "open" /\ srv.slot \in Slot /\ task[c].file \in File
         /\ [slot |-> srv.slot, file |-> task[c].file] \in Descs
  BY <1>1, <1>2, <1>3, <1>5 DEF ServerSound, CallSound, Descs
<1>8. /\ srv' \in Servers /\ srv'.stage = "done" /\ srv'.from = c /\ srv'.after = srv.after
      /\ srv'.file = srv.file /\ srv'.sent = "nothing"
  BY <1>1, <1>3, <1>4, ConstantFacts DEF NoReply, Servers
<1>9. /\ ipc'[c] = srv.r /\ \A x \in Client : x # c => ipc'[x] = ipc[x]
  BY <1>1, <1>2, <1>3 DEF Types
<1>10. /\ fdtab' \in [Client -> [Fd -> Descs \cup {None}]]
       /\ \A x \in Client : x # c => fdtab'[x] = fdtab[x]
       /\ srv.sent = "descriptor" => fdtab'[c][fd] \in Descs
  <2>1. CASE srv.sent = "descriptor"
    <3>1. fdtab' = [fdtab EXCEPT ![c][fd] = [slot |-> srv.slot, file |-> task[c].file]]
      BY <1>1, <1>3, <1>6, <2>1
    <3> QED BY <1>2, <1>7, <2>1, <3>1 DEF Types
  <2>2. CASE srv.sent # "descriptor"
    BY <1>1, <1>2, <2>2 DEF Types
  <2> QED BY <2>1, <2>2
<1>11. window' \in [Client -> Windows] /\ \A x \in Client : x # c => window'[x] = window[x]
  <2>1. CASE srv.sent = "block"
    <3>1. window' = [window EXCEPT ![c][fd][i] = srv.file]
      BY <1>1, <1>3, <1>6, <2>1
    <3> QED BY <1>2, <1>4, <3>1 DEF Types, Windows
  <2>2. CASE srv.sent # "block"
    BY <1>1, <1>2, <2>2 DEF Types
  <2> QED BY <2>1, <2>2
<1>12. Types'
  BY <1>1, <1>2, <1>3, <1>4, <1>8, <1>10, <1>11 DEF Types, Stages
<1>13. \A x \in Client : ~ Waits(x)'
  <2>1. \A x \in Client : x # c => ~ Waits(x)
    BY <1>2, <1>3 DEF ServerSound
  <2> QED BY <1>4, <1>9, <2>1 DEF Waits
<1>14. ServerSound'
  BY <1>8, <1>13 DEF ServerSound
<1>15. \A x \in Client : CallSound(x)'
  <2>1. ASSUME NEW x \in Client, x # c PROVE CallSound(x)'
    <3>1. CallSound(x)
      BY DEF TalkInv
    <3> QED BY <1>1, <1>9, <1>10, <2>1, <3>1 DEF CallSound, Mapped
  <2>2. CallSound(c)'
    <3>1. task[c].do = "open" /\ srv.r = "ok" => srv.sent = "descriptor"
      BY <1>1, <1>2, <1>3, <1>5 DEF ServerSound
    <3>2. task[c].do = "open" /\ srv.r = "ok" => Mapped(c, task[c].fd)'
      BY <1>1, <1>6, <1>10, <3>1, ConstantFacts DEF Mapped
    <3>3. ipc[c] = "wait"
      BY <1>1, <1>3
    <3> QED BY <1>1, <1>4, <1>5, <1>9, <3>2, <3>3 DEF CallSound
  <2> QED BY <2>1, <2>2
<1> QED BY <1>1, <1>3, <1>4, <1>8, <1>9, <1>10, <1>11, <1>12, <1>14, <1>15 DEF TalkInv

\* References of clients to an entry
LEMMA References ==
    ASSUME Types, NEW o \in Slot
    PROVE  /\ Unshared(o) => Available(o)
           /\ \A c \in Client, d \in Fd :
                 Mapped(c, d) /\ fdtab[c][d].slot = o /\ opentab[o].live =>
                    ~ Available(o) /\ PageRef(o) # 1
<1> DEFINE Refs == {p \in Client \X Fd : fdtab[p[1]][p[2]] # None /\ fdtab[p[1]][p[2]].slot = o}
<1>1. IsFiniteSet(Client \X Fd)
  BY ConstantFacts, FS_Product
<1>2. IsFiniteSet(Refs)
  BY <1>1, FS_Subset
<1>3. Cardinality(Refs) \in Nat /\ (Cardinality(Refs) = 0 <=> Refs = {})
  BY <1>2, FS_CardinalityType, FS_EmptySet
<1>4. PageRef(o) = (IF opentab[o].live THEN 1 ELSE 0) + Cardinality(Refs)
  BY DEF PageRef
<1>5. Unshared(o) => Refs = {}
  BY DEF Unshared, Mapped
<1>6. ASSUME NEW c \in Client, NEW d \in Fd, Mapped(c, d), fdtab[c][d].slot = o PROVE Refs # {}
  <2>1. <<c, d>> \in Refs
    BY <1>6 DEF Mapped
  <2> QED BY <2>1
<1> HIDE DEF Refs
<1>7. Refs = {} => PageRef(o) \in {0, 1}
  BY <1>3, <1>4
<1>8. Refs # {} /\ opentab[o].live => PageRef(o) # 0 /\ PageRef(o) # 1
  BY <1>3, <1>4
<1> QED BY <1>5, <1>6, <1>7, <1>8 DEF Available

\* The handlers of requests, with what they may answer.
LEMMA ServeTalk ==
    ASSUME TalkInv, srv.stage = "got", task' = task, ipc' = ipc, fdtab' = fdtab, window' = window,
           opentab' \in [Slot -> Entries], filefd' \in [Slot -> Fields],
           size' \in [File -> 0 .. MaxSize], named' \subseteq File, srv' \in Servers,
           srv'.from = srv.from, srv'.stage \in {"got", "reply"},
           srv'.stage = "got" => srv'.sent = "nothing",
           srv'.stage = "reply" =>
              IF task[srv.from].do = "open"
              THEN srv'.sent = (IF srv'.r = "ok" THEN "descriptor" ELSE "nothing")
              ELSE srv'.sent # "descriptor",
           srv'.sent = "descriptor" => srv'.slot \in Slot
    PROVE  TalkInv'
<1>1. Types'
  BY DEF TalkInv, Types
<1>2. ServerSound'
  BY DEF TalkInv, ServerSound, Waits
<1>3. \A x \in Client : CallSound(x)'
  BY DEF TalkInv, CallSound, Mapped
<1> QED BY <1>1, <1>2, <1>3 DEF TalkInv

\* What is known of the request the server reads.
LEMMA Requested ==
    ASSUME TalkInv, srv.stage = "got"
    PROVE  /\ srv.from \in Client /\ Waits(srv.from) /\ srv.sent = "nothing" /\ Types
           /\ srv \in Servers /\ srv.i \in Slot /\ Req \in Tasks /\ CallSound(srv.from)
           /\ Req.id \in Id /\ FileOf(Req.id) \in File \cup {None} /\ Req.n \in 0 .. MaxSize
<1>1. srv.from \in Client /\ Waits(srv.from) /\ srv.sent = "nothing" /\ Types /\ CallSound(srv.from)
  BY DEF TalkInv, ServerSound
<1>2. Req \in Tasks /\ srv \in Servers
  BY <1>1 DEF Types, Req
<1>3. Req.id \in Id /\ Req.n \in 0 .. MaxSize
  BY <1>2, TaskTypes
<1>4. FileOf(Req.id) \in File \cup {None}
  BY <1>1, <1>3 DEF FileOf, Types, Entries, Id
<1> QED BY <1>1, <1>2, <1>3, <1>4 DEF Servers

\* A request through a descriptor is for the entry of the descriptor.
LEMMA RequestKnown ==
    ASSUME TalkInv, EntryInv, srv.stage = "got", Req.do \in Through
    PROVE  /\ Known(Req.id) /\ FileOf(Req.id) = fdtab[srv.from][Req.fd].file
           /\ Mapped(srv.from, Req.fd)
<1> PICK c \in Client, t \in Tasks : c = srv.from /\ t = Req
  BY Requested
<1>1. Types /\ t.fd \in Fd /\ t = task[c]
  BY Requested, TaskTypes DEF Req
<1>2. Mapped(c, t.fd) /\ t.id = Filefd(c, t.fd).id
  BY <1>1 DEF EntryInv, RequestSound
<1>3. PICK o \in Slot : o = fdtab[c][t.fd].slot
  BY <1>1, <1>2, MappedEntry
<1>4. opentab[o].live /\ opentab[o].file = fdtab[c][t.fd].file /\ filefd[o].id = <<o, opentab[o].used>>
  BY <1>1, <1>2, <1>3 DEF EntryInv, DescriptorsSound
<1>5. t.id = <<o, opentab[o].used>>
  BY <1>2, <1>3, <1>4 DEF Filefd
<1>6. PageRef(o) # 1
  BY <1>1, <1>2, <1>3, <1>4, References
<1> QED BY <1>1, <1>2, <1>4, <1>5, <1>6 DEF Known, FileOf

\* What the server leaves alone: the programs, and the entries they use.
ServerFrame ==
    /\ task' = task /\ ipc' = ipc /\ fdtab' = fdtab /\ window' = window
    /\ \A o \in Slot : Unshared(o) \/ (opentab'[o] = opentab[o] /\ filefd'[o] = filefd[o])

\* The answer to anything but open
Answers ==
    /\ srv.stage = "got" /\ Req.do # "open"
    /\ UNCHANGED <<opentab, filefd, task, ipc, fdtab, window>>
    /\ size' \in [File -> 0 .. MaxSize] /\ named' \subseteq File
    /\ srv' \in Servers /\ srv'.stage = "reply" /\ srv'.from = srv.from /\ srv'.after = srv.after
    /\ \/ srv'.sent = "nothing"
       \/ srv'.sent = "block" /\ Req.do \in {"map", "extend"} /\ srv'.file = FileOf(Req.id)
    /\ EntryInv /\ Req.do \in {"close", "resize"} => srv'.r = "ok"

\* Such an answer keeps the conversation, and the entries, sound.
LEMMA AnswersStep ==
    ASSUME TalkInv, Answers
    PROVE  TalkInv' /\ (EntryInv => ServerFrame /\ AnswerSound')
<1>1. /\ opentab' = opentab /\ filefd' = filefd /\ task' = task /\ ipc' = ipc
      /\ fdtab' = fdtab /\ window' = window /\ srv.stage = "got" /\ Types
      /\ srv'.sent # "descriptor" /\ task[srv.from].do # "open"
  BY Requested DEF Answers, Req
<1>2. TalkInv'
  BY <1>1, ServeTalk DEF Answers, Types
<1>3. ASSUME EntryInv PROVE AnswerSound'
  <2>1. Waits(srv.from) /\ srv.after \notin {"full", "wild"}
    BY <1>1, <1>3, Requested DEF EntryInv, AnswerSound
  <2>2. srv'.sent = "block" => srv'.file = fdtab[srv.from][task[srv.from].fd].file
    BY <1>1, <1>3, RequestKnown DEF Answers, Req, Through
  <2> QED BY <1>1, <1>3, <2>1, <2>2 DEF AnswerSound, Answers, Waits, Req
<1>4. ServerFrame
  BY <1>1 DEF ServerFrame
<1> QED BY <1>2, <1>3, <1>4

\* A reply that sends nothing
LEMMA PlainReply ==
    ASSUME TalkInv, srv.stage = "got", NEW r \in {"ok", "error"}, Reply(r)
    PROVE  /\ srv' \in Servers /\ srv'.stage = "reply" /\ srv'.from = srv.from
           /\ srv'.after = srv.after /\ srv'.sent = "nothing" /\ srv'.r = r
<1>1. srv \in Servers /\ srv.sent = "nothing" /\ srv' = [srv EXCEPT !.stage = "reply", !.r = r]
  BY Requested DEF Reply
<1> QED BY <1>1 DEF Servers

\* serve_map answers with an error or a block of the file that is asked for.
LEMMA ServeMapAnswers ==
    ASSUME TalkInv, ServeMap
    PROVE  Answers
<1>1. /\ srv.stage = "got" /\ Req.do \in {"map", "extend"}
      /\ UNCHANGED <<opentab, filefd, size, named, task, ipc, fdtab, window>>
      /\ \/ Reply("error")
         \/ srv' = [srv EXCEPT !.stage = "reply", !.sent = "block", !.file = FileOf(Req.id)]
  BY DEF ServeMap, Request, Req
<1>2. Types
  BY <1>1, Requested
<1>3. CASE Reply("error")
  BY <1>1, <1>2, <1>3, PlainReply DEF Answers, Types
<1>4. CASE srv' = [srv EXCEPT !.stage = "reply", !.sent = "block", !.file = FileOf(Req.id)]
  <2>1. srv \in Servers /\ FileOf(Req.id) \in File \cup {None}
    BY <1>1, Requested
  <2>2. PICK f \in File \cup {None} : f = FileOf(Req.id)
    BY <2>1
  <2>3. srv' = [srv EXCEPT !.stage = "reply", !.sent = "block", !.file = f]
    BY <1>4, <2>2
  <2>4. /\ srv' \in Servers /\ srv'.stage = "reply" /\ srv'.from = srv.from
        /\ srv'.after = srv.after /\ srv'.sent = "block" /\ srv'.file = f
    BY <2>1, <2>3 DEF Servers
  <2> QED BY <1>1, <1>2, <2>2, <2>4 DEF Answers, Types
<1> QED BY <1>1, <1>3, <1>4

\* serve_set_size answers, and never with an error if the entry is known.
LEMMA ServeSetSizeAnswers ==
    ASSUME TalkInv, ServeSetSize
    PROVE  Answers
<1>1. /\ srv.stage = "got" /\ Req.do \in {"resize", "undo"}
      /\ UNCHANGED <<opentab, filefd, named, task, ipc, fdtab, window>>
  BY DEF ServeSetSize, Request, Req
<1>2. /\ Types /\ CallSound(srv.from) /\ Req.n \in 0 .. MaxSize
  BY <1>1, Requested
<1>3. CASE Known(Req.id)
  <2>1. PICK n \in 0 .. MaxSize : n = IF Req.do = "undo" THEN Req.old ELSE Req.n
    BY <1>1, <1>2 DEF CallSound, Req
  <2>2. size' = [size EXCEPT ![FileOf(Req.id)] = n] /\ Reply("ok")
    BY <1>3, <2>1 DEF ServeSetSize
  <2>3. size' \in [File -> 0 .. MaxSize]
    BY <1>2, <2>2 DEF Types
  <2> QED BY <1>1, <1>2, <2>2, <2>3, PlainReply DEF Answers, Types
<1>4. CASE ~ Known(Req.id)
  <2>1. Reply("error") /\ size' = size
    BY <1>4 DEF ServeSetSize
  <2>2. ~ EntryInv
    BY <1>1, <1>4, RequestKnown DEF Through
  <2> QED BY <1>1, <1>2, <2>1, <2>2, PlainReply DEF Answers, Types
<1> QED BY <1>3, <1>4

\* The other requests: dirty, close, remove and sync.
LEMMA ServeOthersAnswer ==
    ASSUME TalkInv, ServeDirty \/ ServeClose \/ ServeRemove \/ ServeSync
    PROVE  Answers
<1>1. /\ srv.stage = "got" /\ Req.do \in {"dirty", "close", "remove", "sync"}
      /\ UNCHANGED <<opentab, filefd, task, ipc, fdtab, window>>
  BY DEF ServeDirty, ServeClose, ServeRemove, ServeSync, Request, Req
<1>2. Types
  BY <1>1, Requested
<1>3. /\ size' \in [File -> 0 .. MaxSize] /\ named' \subseteq File
  <2>1. size' = size \/ \E f \in named : size' = [size EXCEPT ![f] = 0]
    BY DEF ServeDirty, ServeClose, ServeRemove, ServeSync
  <2>2. named' = named \/ \E f \in named : named' = named \ {f}
    BY DEF ServeDirty, ServeClose, ServeRemove, ServeSync
  <2> QED BY <1>2, <2>1, <2>2, ConstantFacts DEF Types
<1>4. \E r \in {"ok", "error"} : Reply(r) /\ (EntryInv /\ Req.do = "close" => r = "ok")
  <2>1. CASE ServeClose
    <3>1. EntryInv => Known(Req.id)
      BY <1>1, <2>1, RequestKnown DEF ServeClose, Request, Req, Through
    <3> QED BY <2>1, <3>1 DEF ServeClose
  <2>2. CASE ServeDirty \/ ServeRemove \/ ServeSync
    BY <2>2 DEF ServeDirty, ServeRemove, ServeSync, Request, Req
  <2> QED BY <2>1, <2>2
<1> QED BY <1>1, <1>2, <1>3, <1>4, PlainReply DEF Answers

\* The entry is filled in.
LEMMA FillFacts ==
    ASSUME TalkInv, NEW o \in Slot, NEW f \in File, NEW used \in 0 .. IdMod - 1, Fill(o, f, used)
    PROVE  /\ opentab' \in [Slot -> Entries] /\ filefd' \in [Slot -> Fields] /\ srv' \in Servers
           /\ \A x \in Slot : x # o => opentab'[x] = opentab[x] /\ filefd'[x] = filefd[x]
           /\ opentab'[o].live /\ opentab'[o].file = f /\ filefd'[o].id = <<o, opentab'[o].used>>
           /\ srv'.stage = "reply" /\ srv'.r = "ok" /\ srv'.sent = "descriptor" /\ srv'.slot = o
           /\ srv'.after = "loop" /\ srv'.from = srv.from
<1>1. Types
  BY DEF TalkInv
<1>2. PICK e \in Entries : e = [used |-> used, file |-> f, live |-> TRUE]
  BY DEF Entries
<1>3. e.used = used /\ e.file = f /\ e.live = TRUE
  BY <1>2
<1>4. PICK z \in Fields : z = [size |-> size[f], id |-> <<o, used>>]
  BY <1>1 DEF Types, Fields, Id
<1>5. z.id = <<o, used>>
  BY <1>4
<1>6. opentab' = [opentab EXCEPT ![o] = e] /\ filefd' = [filefd EXCEPT ![o] = z]
  BY <1>2, <1>4 DEF Fill
<1>7. /\ opentab' \in [Slot -> Entries] /\ filefd' \in [Slot -> Fields]
      /\ opentab'[o] = e /\ filefd'[o] = z
      /\ \A x \in Slot : x # o => opentab'[x] = opentab[x] /\ filefd'[x] = filefd[x]
  BY <1>1, <1>6 DEF Types
<1>8. /\ srv' \in Servers /\ srv'.stage = "reply" /\ srv'.r = "ok" /\ srv'.sent = "descriptor"
      /\ srv'.slot = o /\ srv'.after = "loop" /\ srv'.from = srv.from
  BY <1>1 DEF Fill, Types, Servers
<1> QED BY <1>3, <1>5, <1>7, <1>8

\* An entry that open_alloc takes is one that no client has.
LEMMA AvailableUnshared ==
    ASSUME Types, DescriptorsSound, NEW o \in Slot, Available(o)
    PROVE  Unshared(o)
<1> SUFFICES ASSUME NEW c \in Client, NEW d \in Fd, Mapped(c, d), fdtab[c][d].slot = o
             PROVE  FALSE
  BY DEF Unshared
<1>1. opentab[o].live
  BY DEF DescriptorsSound
<1> QED BY <1>1, References

\* serve_open
LEMMA ServeOpenStep ==
    ASSUME TalkInv, ServeOpen
    PROVE  TalkInv' /\ (EntryInv => ServerFrame /\ AnswerSound')
<1>1. /\ srv.stage = "got" /\ Req.do = "open" /\ task[srv.from].do = "open"
      /\ size' = size /\ named' = named /\ task' = task /\ ipc' = ipc
      /\ fdtab' = fdtab /\ window' = window
  BY DEF ServeOpen, Request, Req
<1>2. /\ Types /\ srv \in Servers /\ srv.from \in Client /\ Waits(srv.from) /\ srv.sent = "nothing"
      /\ Req.file \in File
  BY <1>1, Requested DEF CallSound, Req
<1>3. PICK o \in Slot, f \in File : o = srv.i /\ f = Req.file
  BY <1>1, <1>2, Requested
<1>4. o \in Nat /\ MAXOPEN \in Nat /\ IdMod \in Nat \ {0}
  BY ConstantFacts
<1>5. PICK used \in 0 .. IdMod - 1 : used = (opentab[o].used + 1) % IdMod
  <2>1. opentab[o].used \in 0 .. IdMod - 1
    BY <1>2 DEF Types, Entries
  <2> QED BY <1>4, <2>1
<1>6. EntryInv => srv.after \notin {"full", "wild"} /\ \E x \in Slot : x >= o /\ Unshared(x)
  BY <1>1, <1>3 DEF EntryInv, AnswerSound
<1>7. EntryInv => (Available(o) <=> Unshared(o))
  BY <1>2, AvailableUnshared, References DEF EntryInv
<1>8. CASE ~ Available(o) /\ o + 1 < MAXOPEN
  <2>1. /\ srv' = [srv EXCEPT !.i = o + 1] /\ opentab' = opentab /\ filefd' = filefd
    BY <1>3, <1>8 DEF ServeOpen
  <2>2. o + 1 \in Slot
    BY <1>4, <1>8 DEF Slot
  <2>3. /\ srv' \in Servers /\ srv'.stage = "got" /\ srv'.from = srv.from /\ srv'.sent = "nothing"
        /\ srv'.i = o + 1 /\ srv'.after = srv.after
    BY <1>1, <1>2, <2>1, <2>2 DEF Servers
  <2>4. TalkInv'
    BY <1>1, <1>2, <2>1, <2>3, ServeTalk DEF Types
  <2>5. ASSUME EntryInv PROVE AnswerSound'
    <3>1. PICK x \in Slot : x >= o /\ Unshared(x)
      BY <1>6, <2>5
    <3>2. x # o
      BY <1>7, <1>8, <2>5, <3>1
    <3>3. x \in Nat
      BY ConstantFacts
    <3>4. x >= o + 1
      BY <1>4, <3>1, <3>2, <3>3
    <3>5. Unshared(x)'
      BY <1>1, <3>1 DEF Unshared, Mapped
    <3> QED BY <1>1, <1>2, <1>6, <2>3, <2>5, <3>4, <3>5 DEF AnswerSound, Waits
  <2>6. ServerFrame
    BY <1>1, <2>1 DEF ServerFrame
  <2> QED BY <2>4, <2>5, <2>6
<1>9. CASE ~ Available(o) /\ ~(o + 1 < MAXOPEN)
  <2>1. /\ srv' = [srv EXCEPT !.stage = "reply", !.r = "error", !.file = f, !.after = "full"]
        /\ opentab' = opentab /\ filefd' = filefd
    BY <1>3, <1>9 DEF ServeOpen
  <2>2. /\ srv' \in Servers /\ srv'.stage = "reply" /\ srv'.from = srv.from
        /\ srv'.sent = "nothing" /\ srv'.r = "error"
    BY <1>1, <1>2, <2>1 DEF Servers
  <2>3. TalkInv'
    BY <1>1, <1>2, <2>1, <2>2, ServeTalk DEF Types
  <2>4. ASSUME EntryInv PROVE FALSE
    <3>1. PICK x \in Slot : x >= o /\ Unshared(x)
      BY <1>6, <2>4
    <3>2. x # o
      BY <1>7, <1>9, <2>4, <3>1
    <3> QED BY <1>4, <1>9, <3>1, <3>2 DEF Slot
  <2> QED BY <2>3, <2>4
<1>10. CASE Available(o) /\ Fill(o, f, used)
  <2>1. Fill(o, f, used)
    BY <1>10
  <2>2. /\ opentab' \in [Slot -> Entries] /\ filefd' \in [Slot -> Fields] /\ srv' \in Servers
        /\ \A x \in Slot : x # o => opentab'[x] = opentab[x] /\ filefd'[x] = filefd[x]
        /\ opentab'[o].live /\ opentab'[o].file = f /\ filefd'[o].id = <<o, opentab'[o].used>>
        /\ srv'.stage = "reply" /\ srv'.r = "ok" /\ srv'.sent = "descriptor" /\ srv'.slot = o
        /\ srv'.after = "loop" /\ srv'.from = srv.from
    BY <2>1, FillFacts
  <2>3. TalkInv'
    BY <1>1, <1>2, <2>2, ServeTalk DEF Types
  <2>4. ASSUME EntryInv PROVE ServerFrame /\ AnswerSound'
    <3>1. Unshared(o) /\ Unshared(o)'
      BY <1>1, <1>7, <1>10, <2>4 DEF Unshared, Mapped
    <3>2. ServerFrame
      BY <1>1, <2>2, <3>1 DEF ServerFrame
    <3>3. Waits(srv.from)'
      BY <1>1, <1>2, <2>2 DEF Waits
    <3> QED BY <1>1, <1>3, <2>2, <3>1, <3>2, <3>3 DEF AnswerSound, Req, Waits
  <2> QED BY <2>3, <2>4
<1>11. CASE /\ Available(o)
            /\ opentab' = [opentab EXCEPT ![o].used = used, ![o].live = TRUE]
            /\ filefd' = [filefd EXCEPT ![o] = [size |-> 0, id |-> <<0, 0>>]]
            /\ srv' = [srv EXCEPT !.stage = "reply", !.r = "error", !.file = f, !.after = "null"]
  <2>1. /\ opentab' = [opentab EXCEPT ![o].used = used, ![o].live = TRUE]
        /\ filefd' = [filefd EXCEPT ![o] = [size |-> 0, id |-> <<0, 0>>]]
        /\ srv' = [srv EXCEPT !.stage = "reply", !.r = "error", !.file = f, !.after = "null"]
    BY <1>11
  <2>2. opentab' \in [Slot -> Entries] /\ \A x \in Slot : x # o => opentab'[x] = opentab[x]
    BY <1>2, <2>1 DEF Types, Entries
  <2>3. [size |-> 0, id |-> <<0, 0>>] \in Fields
    BY ConstantFacts DEF Fields
  <2>4. filefd' \in [Slot -> Fields] /\ \A x \in Slot : x # o => filefd'[x] = filefd[x]
    BY <1>2, <2>1, <2>3 DEF Types
  <2>5. /\ srv' \in Servers /\ srv'.stage = "reply" /\ srv'.from = srv.from
        /\ srv'.sent = "nothing" /\ srv'.r = "error" /\ srv'.after = "null"
    BY <1>1, <1>2, <2>1 DEF Servers
  <2>6. TalkInv'
    BY <1>1, <1>2, <2>2, <2>4, <2>5, ServeTalk DEF Types
  <2>7. ASSUME EntryInv PROVE ServerFrame /\ AnswerSound'
    <3>1. ServerFrame
      BY <1>1, <1>7, <1>11, <2>2, <2>4, <2>7 DEF ServerFrame
    <3> QED BY <1>1, <1>2, <2>5, <3>1 DEF AnswerSound, Waits
  <2> QED BY <2>6, <2>7
<1>12. CASE /\ ~ EnoughPages /\ opentab' = opentab /\ filefd' = filefd
            /\ srv' = [srv EXCEPT !.stage = "reply", !.r = "error", !.file = f, !.after = "wild"]
  <2>1. /\ srv' \in Servers /\ srv'.stage = "reply" /\ srv'.from = srv.from
        /\ srv'.sent = "nothing" /\ srv'.r = "error"
    BY <1>1, <1>2, <1>12 DEF Servers
  <2>2. TalkInv'
    BY <1>1, <1>2, <1>12, <2>1, ServeTalk DEF Types
  <2> QED BY <1>12, <2>2 DEF EntryInv
<1> QED BY <1>3, <1>5, <1>8, <1>9, <1>10, <1>11, <1>12 DEF ServeOpen, EnoughPages

\* A page that cannot be sent stops the system.
LEMMA IpcReplyFailsStep ==
    ASSUME TalkInv, IpcReplyFails
    PROVE  /\ TalkInv' /\ (EntryInv => ServerFrame /\ AnswerSound')
           /\ ipc' = ipc /\ srv.stage = "reply" /\ srv'.stage = "stuck" /\ srv'.from = srv.from
<1>1. /\ srv.stage = "reply" /\ srv' = [srv EXCEPT !.stage = "stuck"]
      /\ opentab' = opentab /\ filefd' = filefd /\ size' = size /\ named' = named
      /\ task' = task /\ ipc' = ipc /\ fdtab' = fdtab /\ window' = window
  BY DEF IpcReplyFails
<1>2. Types /\ ServerSound /\ srv \in Servers
  BY DEF TalkInv, Types
<1>3. /\ srv' \in Servers /\ srv'.stage = "stuck" /\ srv'.from = srv.from
      /\ srv'.after = srv.after /\ srv'.sent = srv.sent /\ srv'.slot = srv.slot
  BY <1>1, <1>2 DEF Servers
<1>4. Types'
  BY <1>1, <1>2, <1>3 DEF Types
<1>5. ServerSound'
  BY <1>1, <1>2, <1>3 DEF ServerSound, Waits
<1>6. \A c \in Client : CallSound(c)'
  BY <1>1 DEF TalkInv, CallSound, Mapped
<1>7. EntryInv => ServerFrame /\ AnswerSound'
  BY <1>1, <1>3 DEF EntryInv, AnswerSound, ServerFrame
<1> QED BY <1>1, <1>3, <1>4, <1>5, <1>6, <1>7 DEF TalkInv

\* The turn of the loop of serve
LEMMA ServeLoopStep ==
    ASSUME TalkInv, ServeLoop
    PROVE  TalkInv' /\ (EntryInv => ServerFrame /\ AnswerSound')
<1>1. /\ srv.stage = "done" /\ size' = size /\ named' = named /\ task' = task /\ ipc' = ipc
      /\ fdtab' = fdtab /\ window' = window
  BY DEF ServeLoop
<1>2. Types /\ ServerSound /\ srv \in Servers
  BY DEF TalkInv, Types
<1>3. \A x \in Client : ~ Waits(x) /\ ~ Waits(x)'
  BY <1>1, <1>2 DEF ServerSound, Waits
<1>4. \A x \in Client : CallSound(x)'
  BY <1>1 DEF TalkInv, CallSound, Mapped
<1>5. CASE \E o \in Slot : srv.after \in {"full", "wild"} /\ srv.file \in named /\ Fill(o, srv.file, opentab[o].used)
  <2>1. PICK o \in Slot : srv.after \in {"full", "wild"} /\ srv.file \in named /\ Fill(o, srv.file, opentab[o].used)
    BY <1>5
  <2>2. srv.file \in File /\ opentab[o].used \in 0 .. IdMod - 1
    BY <1>2, <2>1 DEF Types, Entries
  <2>3. /\ opentab' \in [Slot -> Entries] /\ filefd' \in [Slot -> Fields] /\ srv' \in Servers
        /\ srv'.stage = "reply" /\ srv'.sent = "descriptor" /\ srv'.slot = o
        /\ srv'.after = "loop" /\ srv'.from = srv.from
    BY <2>1, <2>2, FillFacts
  <2>4. Types'
    BY <1>1, <1>2, <2>3 DEF Types
  <2>5. srv.from \in Client
    BY <1>2, <2>1 DEF ServerSound
  <2>6. ServerSound'
    BY <1>3, <2>3, <2>5 DEF ServerSound, Waits
  <2>7. ~ EntryInv
    BY <2>1 DEF EntryInv, AnswerSound
  <2> QED BY <1>4, <2>4, <2>6, <2>7 DEF TalkInv
<1>6. CASE /\ srv' = IF srv.after = "loop" THEN [NoReply EXCEPT !.stage = "recv"]
                     ELSE [srv EXCEPT !.stage = "panic"]
           /\ UNCHANGED <<opentab, filefd>>
  <2>1. /\ srv' \in Servers /\ srv'.stage \in {"recv", "panic"}
        /\ srv'.after = srv.after /\ (srv'.after # "loop" => srv'.from = srv.from)
        /\ srv'.sent = "descriptor" => srv.sent = "descriptor" /\ srv'.slot = srv.slot
    <3>1. CASE srv.after = "loop"
      BY <1>6, <3>1, ConstantFacts DEF NoReply, Servers
    <3>2. CASE srv.after # "loop"
      BY <1>2, <1>6, <3>2 DEF Servers
    <3> QED BY <3>1, <3>2
  <2>2. Types'
    BY <1>1, <1>2, <1>6, <2>1 DEF Types
  <2>3. ServerSound'
    BY <1>2, <1>3, <2>1 DEF ServerSound, Waits
  <2>4. EntryInv => ServerFrame /\ AnswerSound'
    BY <1>1, <1>6, <2>1 DEF EntryInv, AnswerSound, ServerFrame
  <2> QED BY <1>4, <2>2, <2>3, <2>4 DEF TalkInv
<1> QED
  <2>1. PICK o \in IF srv.after \in {"full", "wild"} THEN Slot \cup {None} ELSE {None} :
           IF o # None /\ srv.file \in named THEN Fill(o, srv.file, opentab[o].used)
           ELSE /\ srv' = IF srv.after = "loop" THEN [NoReply EXCEPT !.stage = "recv"]
                          ELSE [srv EXCEPT !.stage = "panic"]
                /\ UNCHANGED <<opentab, filefd>>
    BY DEF ServeLoop
  <2> QED BY <1>5, <1>6, <2>1

-----------------------------------------------------------------------------
(* The first layer: types, and the conversation                            *)

\* The invariant holds when the clients are about to start.
LEMMA TalkInit == Init => TalkInv
<1> SUFFICES ASSUME Init PROVE TalkInv
  OBVIOUS
<1>1. /\ opentab = [o \in Slot |-> [used |-> 0, file |-> None, live |-> FALSE]]
      /\ filefd = [o \in Slot |-> [size |-> 0, id |-> <<0, 0>>]]
      /\ size = DiskSize /\ named = File /\ srv = NoReply
      /\ task = [c \in Client |-> Idle] /\ ipc = [c \in Client |-> "none"]
      /\ fdtab = [c \in Client |-> [d \in Fd |-> None]]
      /\ window = [c \in Client |-> [d \in Fd |-> [i \in Page |-> None]]]
  BY DEF Init
<1>2. Types
  <2>1. opentab \in [Slot -> Entries] /\ filefd \in [Slot -> Fields]
    <3>1. 0 \in 0 .. IdMod - 1
      BY ConstantFacts
    <3> QED BY <1>1, <3>1, ConstantFacts DEF Entries, Fields
  <2>2. size \in [File -> 0 .. MaxSize] /\ named \subseteq File /\ srv \in Servers
    BY <1>1, ConstantFacts, FsServAssumption
  <2>3. task \in [Client -> Tasks] /\ ipc \in [Client -> Stages]
    BY <1>1, ConstantFacts DEF Stages
  <2>4. fdtab \in [Client -> [Fd -> Descs \cup {None}]] /\ window \in [Client -> Windows]
    BY <1>1 DEF Windows
  <2> QED BY <2>1, <2>2, <2>3, <2>4 DEF Types
<1>3. ServerSound
  BY <1>1 DEF ServerSound, NoReply, Waits
<1>4. \A c \in Client : CallSound(c)
  BY <1>1 DEF CallSound, Idle, Quiet
<1> QED BY <1>2, <1>3, <1>4 DEF TalkInv

\* The steps of a client, by what they mean for the proofs.
LEMMA ClientSteps ==
    ASSUME TalkInv, NEW c \in Client, Proceed(c) \/ Call(c)
    PROVE  \/ IpcSend(c) \/ IpcRecv(c) \/ Continues(c)
           \/ CloseAnswered(c) \/ DupMap(c) \/ DupFails(c) \/ ResizeAnswered(c)
           \/ \E d \in Fd, n \in Sizes : Ftruncate(c, d, n)
           \/ \E d, to \in Fd : Dup(c, d, to) /\ ~ Mapped(c, to)
           \/ Exit(c) \/ (CloseAll(c) /\ ~ \E d \in Fd : Mapped(c, d))
<1>1. CASE Proceed(c)
  <2>1. CASE OpenAnswered(c)
    BY <2>1, OpenAnsweredContinues
  <2>2. CASE MapAnswered(c) \/ ExtendAnswered(c)
    BY <2>2, MapAnsweredContinues
  <2>3. CASE DirtyAnswered(c)
    BY <2>3, DirtyAnsweredContinues
  <2>4. CASE LastAnswered(c)
    BY <2>4, LastAnsweredContinues
  <2>5. CASE CloseAll(c)
    BY <2>5, CloseAllContinues
  <2> QED BY <1>1, <2>1, <2>2, <2>3, <2>4, <2>5 DEF Proceed
<1>2. CASE Call(c)
  <2>1. CASE \E f \in File : Open(c, f) \/ Remove(c, f)
    BY <2>1, OpenContinues, RequestContinues
  <2>2. CASE \E d \in Fd : Close(c, d)
    BY <2>2, CloseContinues
  <2>3. CASE \E d, to \in Fd : Dup(c, d, to)
    BY <2>3, DupContinues
  <2>4. CASE Sync(c)
    BY <2>4, RequestContinues
  <2> QED BY <1>2, <2>1, <2>2, <2>3, <2>4 DEF Call
<1> QED BY <1>1, <1>2

\* The steps of the server keep the conversation sound.
LEMMA ServeStep ==
    ASSUME TalkInv, Serve, ~ IpcReply
    PROVE  TalkInv' /\ (EntryInv => ServerFrame /\ AnswerSound')
<1>1. CASE ServeMap \/ ServeSetSize \/ ServeDirty \/ ServeClose \/ ServeRemove \/ ServeSync
  BY <1>1, ServeMapAnswers, ServeSetSizeAnswers, ServeOthersAnswer, AnswersStep
<1>2. CASE ServeOpen \/ ServeLoop
  BY <1>2, ServeOpenStep, ServeLoopStep
<1>3. CASE IpcReplyFails
  BY <1>3, IpcReplyFailsStep
<1> QED BY <1>1, <1>2, <1>3 DEF Serve

\* Every step keeps the conversation sound.
LEMMA TalkNext == TalkInv /\ [Next]_vars => TalkInv'
<1> SUFFICES ASSUME TalkInv, [Next]_vars PROVE TalkInv'
  OBVIOUS
<1>1. CASE Serve
  BY <1>1, ServeStep, IpcReplyTalk
<1>2. ASSUME NEW c \in Client, Proceed(c) \/ Call(c) PROVE TalkInv'
  <2>1. CASE IpcSend(c) \/ IpcRecv(c)
    BY <2>1, IpcSendTalk, IpcRecvTalk
  <2>2. CASE Continues(c)
    BY <2>2, ContinuesTalk
  <2>3. CASE CloseAnswered(c) \/ DupMap(c) \/ DupFails(c) \/ ResizeAnswered(c)
    BY <2>3, CloseAnsweredTalk, DupMapTalk, DupFailsTalk, ResizeAnsweredTalk
  <2>4. CASE \E d \in Fd, n \in Sizes : Ftruncate(c, d, n)
    BY <2>4, FtruncateTalk
  <2>5. CASE \E d, to \in Fd : Dup(c, d, to) /\ ~ Mapped(c, to)
    BY <2>5, DupTalk
  <2>6. CASE Exit(c) \/ (CloseAll(c) /\ ~ \E d \in Fd : Mapped(c, d))
    BY <2>6, ExitTalk
  <2> QED BY <1>2, <2>1, <2>2, <2>3, <2>4, <2>5, <2>6, ClientSteps
<1>3. CASE UNCHANGED vars
  BY <1>3 DEF vars, TalkInv, Types, ServerSound, CallSound, Waits, Mapped
<1> QED
  <2>1. CASE Next
    BY <1>1, <1>2, <2>1 DEF Next, Awake
  <2> QED BY <1>3, <2>1

\* The server works for the one client that waits for it, and each program is
\* in one place of one library call.
THEOREM Conversation == Spec => []TalkInv
BY TalkInit, TalkNext, PTL DEF Spec

\* Descriptors, entries, tasks and pages have the values the code gives them,
\* whatever programs call.
THEOREM TypeCorrect == Spec => []TypeOK
<1>1. TalkInv => TypeOK
  BY TypesTypeOK DEF TalkInv
<1> QED BY <1>1, Conversation, PTL

-----------------------------------------------------------------------------
(* The calls, as RemoteCall has them                                       *)

\* What is read off the phase of a call
LEMMA PhaseFacts ==
    ASSUME TalkInv
    PROVE  /\ Phase = [c \in Client |-> Phase[c]]
           /\ \A c \in Client :
                 /\ Free(c) => Phase[c] = "none"
                 /\ ipc[c] = "send" => Phase[c] = "trying"
                 /\ Waits(c) => Phase[c] = IF srv.stage \in {"reply", "stuck"} /\ srv.from = c
                                           THEN "handled" ELSE "accepted"
                 /\ Free(c) \/ ipc[c] = "send" \/ Waits(c)
<1>1. \A c \in Client : ipc[c] \in Stages
  BY DEF TalkInv, Types
<1> QED BY <1>1 DEF Phase, Free, Waits, Stages

\* A step that moves one call, or none
LEMMA PhaseStep ==
    ASSUME TalkInv, TalkInv', NEW c \in Client, NEW p, Phase'[c] = p,
           \A x \in Client : x # c => Phase'[x] = Phase[x]
    PROVE  /\ Phase' = [Phase EXCEPT ![c] = p] /\ (p = Phase[c] => Phase' = Phase)
<1>1. Phase = [x \in Client |-> Phase[x]] /\ Phase' = [x \in Client |-> Phase'[x]]
  BY DEF Phase
<1> DEFINE now == [x \in Client |-> Phase[x]]
           next == [x \in Client |-> Phase'[x]]
<1>2. [now EXCEPT ![c] = p] = next
  OBVIOUS
<1>3. p = Phase[c] => now = next
  OBVIOUS
<1> QED BY <1>1, <1>2, <1>3

\* A handler stays with the client it works for.
LEMMA ServePhase ==
    ASSUME TalkInv, Serve, ~ IpcReply, ~ IpcReplyFails
    PROVE  /\ ipc' = ipc
           /\ \/ srv.stage = "done"
              \/ srv.stage = "got" /\ srv'.stage \in {"got", "reply"} /\ srv'.from = srv.from
<1>1. srv \in Servers
  BY DEF TalkInv, Types
<1>2. CASE ServeMap \/ ServeSetSize \/ ServeDirty \/ ServeClose \/ ServeRemove \/ ServeSync
  BY <1>2, ServeMapAnswers, ServeSetSizeAnswers, ServeOthersAnswer DEF Answers
<1>3. CASE ServeLoop
  BY <1>3 DEF ServeLoop
<1>4. CASE ServeOpen
  <2>1. \/ srv' = [srv EXCEPT !.i = srv.i + 1]
        \/ \E f, after : srv' = [srv EXCEPT !.stage = "reply", !.r = "error", !.file = f, !.after = after]
        \/ \E o : srv' = [srv EXCEPT !.stage = "reply", !.r = "ok", !.sent = "descriptor", !.slot = o,
                                     !.after = "loop"]
    BY <1>4 DEF ServeOpen, Fill
  <2>2. srv'.stage \in {srv.stage, "reply"} /\ srv'.from = srv.from
    BY <1>1, <2>1 DEF Servers
  <2> QED BY <1>4, <2>2 DEF ServeOpen, Request
<1> QED BY <1>2, <1>3, <1>4 DEF Serve

\* Clients that are between calls, or in a call that has not begun
LEMMA ServePhaseStep ==
    ASSUME TalkInv, TalkInv', Serve
    PROVE  Service!Next \/ Phase' = Phase
<1>1. CASE IpcReply
  <2>1. PICK c \in Client : c = srv.from
    BY <1>1, IpcReplyTalk
  <2>2. /\ srv.stage = "reply" /\ ipc[c] = "wait" /\ ipc'[c] \in {"ok", "error"}
        /\ \A x \in Client : x # c => ipc'[x] = ipc[x]
    <3>1. /\ srv.stage = "reply" /\ ipc[c] = "wait" /\ ipc' = [ipc EXCEPT ![c] = srv.r]
          /\ srv.r \in {"ok", "error"} /\ \A x \in Client : x # srv.from => ipc'[x] = ipc[x]
      BY <1>1, <2>1, IpcReplyTalk
    <3>2. ipc \in [Client -> Stages]
      BY DEF TalkInv, Types
    <3> QED BY <2>1, <3>1, <3>2
  <2>3. \A x \in Client : x # c => ~ Waits(x)
    BY <2>1 DEF TalkInv, ServerSound
  <2>4. Phase[c] = "handled" /\ Phase'[c] = "none"
    BY <2>1, <2>2, PhaseFacts DEF Waits, Phase
  <2>5. \A x \in Client : x # c => Phase'[x] = Phase[x]
    <3>1. \A x \in Client : x # c => ipc[x] \in {"none", "ok", "error", "send"}
      BY <2>3 DEF TalkInv, Types, Stages, Waits
    <3> QED BY <2>2, <3>1 DEF Phase
  <2>6. Phase' = [Phase EXCEPT ![c] = "none"]
    BY <2>4, <2>5, PhaseStep
  <2>7. Service!Return(c)
    BY <2>4, <2>6 DEF Service!Return, Service!Turn
  <2> QED BY <2>7 DEF Service!Next
<1>2. CASE ~ IpcReply /\ ~ IpcReplyFails /\ srv.stage = "done"
  <2>1. ipc' = ipc /\ \A x \in Client : ~ Waits(x)
    BY <1>2, ServePhase DEF TalkInv, ServerSound
  <2>2. \A x \in Client : ipc[x] \in {"none", "ok", "error", "send"}
    BY <2>1 DEF TalkInv, Types, Stages, Waits
  <2> QED BY <2>1, <2>2 DEF Phase
<1>3. CASE ~ IpcReply /\ ~ IpcReplyFails /\ srv.stage # "done"
  <2>1. PICK c \in Client : c = srv.from /\ Waits(c)
    BY <1>3, ServePhase, Requested
  <2>2. /\ ipc' = ipc /\ srv.stage = "got" /\ srv'.stage \in {"got", "reply"} /\ srv'.from = c
    BY <1>3, <2>1, ServePhase
  <2>3. Phase[c] = "accepted" /\ Phase'[c] = IF srv'.stage = "reply" THEN "handled" ELSE "accepted"
    BY <2>1, <2>2 DEF Phase, Waits
  <2>4. \A x \in Client : x # c => Phase'[x] = Phase[x]
    BY <2>1, <2>2 DEF Phase
  <2>5. CASE srv'.stage = "reply"
    <3>1. Phase' = [Phase EXCEPT ![c] = "handled"]
      BY <2>3, <2>4, <2>5, PhaseStep
    <3>2. Service!Handle(c)
      BY <2>3, <3>1 DEF Service!Handle, Service!Turn
    <3> QED BY <3>2 DEF Service!Next
  <2>6. CASE srv'.stage = "got"
    BY <2>3, <2>4, <2>6, PhaseStep
  <2> QED BY <2>2, <2>5, <2>6
<1>4. CASE IpcReplyFails
  <2>1. ipc' = ipc /\ srv.stage = "reply" /\ srv'.stage = "stuck" /\ srv'.from = srv.from
    BY <1>4, IpcReplyFailsStep
  <2> QED BY <2>1 DEF Phase
<1> QED BY <1>1, <1>2, <1>3, <1>4

\* A step of a client begins its call, or has it accepted, or is no step of the service.
LEMMA ClientPhaseStep ==
    ASSUME TalkInv, TalkInv', NEW c \in Client, Proceed(c) \/ Call(c)
    PROVE  Service!Next \/ Phase' = Phase
<1>1. Types
  BY DEF TalkInv
<1>2. CASE IpcSend(c)
  <2>1. /\ ipc[c] = "send" /\ srv.stage = "recv" /\ ipc'[c] = "sent" /\ srv'.stage = "got"
        /\ \A x \in Client : x # c => ipc'[x] = ipc[x]
    BY <1>1, <1>2 DEF IpcSend, Types, NoReply
  <2>2. \A x \in Client : ipc[x] \in {"none", "ok", "error", "send"}
    BY <2>1 DEF TalkInv, Types, ServerSound, Stages, Waits
  <2>3. /\ \A x \in Client : Phase[x] \in {"none", "trying"}
        /\ Phase[c] = "trying" /\ Phase'[c] = "accepted"
        /\ \A x \in Client : x # c => Phase'[x] = Phase[x]
    BY <2>1, <2>2 DEF Phase
  <2>4. Phase' = [Phase EXCEPT ![c] = "accepted"]
    BY <2>3, PhaseStep
  <2>5. Service!Accept(c)
    BY <2>3, <2>4 DEF Service!Accept, Service!Turn
  <2> QED BY <2>5 DEF Service!Next
<1>3. CASE IpcRecv(c)
  <2>1. /\ ipc[c] = "sent" /\ ipc'[c] = "wait" /\ srv' = srv
        /\ \A x \in Client : x # c => ipc'[x] = ipc[x]
    BY <1>1, <1>3 DEF IpcRecv, Types, kernel
  <2>2. \A x \in Client : Phase'[x] = Phase[x]
    BY <2>1 DEF Phase
  <2> QED BY <2>2, PhaseStep
<1>4. CASE ClientFrame(c)
  <2>1. /\ Free(c) /\ ipc'[c] \in {"none", "send"} /\ srv' = srv
        /\ \A x \in Client : x # c => ipc'[x] = ipc[x]
    BY <1>4 DEF ClientFrame
  <2>2. \A x \in Client : x # c => Phase'[x] = Phase[x]
    BY <2>1 DEF Phase
  <2>3. Phase[c] = "none" /\ Phase'[c] = IF ipc'[c] = "send" THEN "trying" ELSE "none"
    BY <2>1, PhaseFacts DEF Phase
  <2>4. CASE ipc'[c] = "send"
    <3>1. Phase' = [Phase EXCEPT ![c] = "trying"]
      BY <2>2, <2>3, <2>4, PhaseStep
    <3>2. Service!Try(c)
      BY <2>3, <3>1 DEF Service!Try, Service!Turn
    <3> QED BY <3>2 DEF Service!Next
  <2>5. CASE ipc'[c] = "none"
    BY <2>2, <2>3, <2>5, PhaseStep
  <2> QED BY <2>1, <2>4, <2>5
<1>5. IpcSend(c) \/ IpcRecv(c) \/ ClientFrame(c)
  BY ClientSteps, ContinuesTalk, CloseAnsweredTalk, DupMapTalk, DupFailsTalk, ResizeAnsweredTalk, FtruncateTalk,
     DupTalk, ExitTalk
<1> QED BY <1>2, <1>3, <1>4, <1>5

\* The safety half of ServesCalls: with the loop of serve, the polling of
\* ipc_send and the table of open files, requests are taken one at a time, and
\* each is handled once and answered once, to the client that made it.
THEOREM OneCallAtATime == Spec => Service!Init /\ [][Service!Next]_Phase
<1>1. Init => Service!Init
  BY DEF Init, Phase, Service!Init
<1>2. TalkInv /\ TalkInv' /\ [Next]_vars => [Service!Next]_Phase
  <2> SUFFICES ASSUME TalkInv, TalkInv', [Next]_vars PROVE Service!Next \/ Phase' = Phase
    OBVIOUS
  <2>1. CASE Serve
    BY <2>1, ServePhaseStep
  <2>2. CASE \E c \in Client : Proceed(c) \/ Call(c)
    BY <2>2, ClientPhaseStep
  <2>3. CASE UNCHANGED vars
    BY <2>3 DEF vars, Phase
  <2> QED BY <2>1, <2>2, <2>3 DEF Next, Awake
<1> QED BY <1>1, <1>2, Conversation, PTL DEF Spec

-----------------------------------------------------------------------------
(* The second layer: entries and descriptors                               *)

\* While a program still waits for the descriptor of an open, some entry is
\* used by nobody: there are more descriptors to be had than there are.
LEMMA SomeEntryFree ==
    ASSUME EnoughEntries, TalkInv, EntryInv, NEW c \in Client, task[c].do = "open", ipc[c] # "ok"
    PROVE  \E o \in Slot : Unshared(o)
<1> SUFFICES ASSUME \A o \in Slot : ~ Unshared(o) PROVE FALSE
  OBVIOUS
<1> DEFINE have == {m \in Client \X Fd : Mapped(m[1], m[2])}
           may  == {m \in Client \X Fd : Usable(m[1], m[2])}
           slotOf == [m \in have |-> fdtab[m[1]][m[2]].slot]
<1>1. PICK fd \in Fd : fd = task[c].fd
  BY Mine, TaskTypes
<1>2. Types /\ fd < MAXFD - 1 /\ ~ Mapped(c, fd)
  BY <1>1, Mine DEF EntryInv, RequestSound
<1>3. IsFiniteSet(Client \X Fd)
  BY ConstantFacts, FS_Product
<1>4. IsFiniteSet(may) /\ IsFiniteSet(may \ {<<c, fd>>})
  BY <1>3, FS_Subset
<1>5. <<c, fd>> \in may
  BY <1>2 DEF Usable
<1>6. have \subseteq may \ {<<c, fd>>}
  BY <1>2 DEF EntryInv
<1>7. /\ Cardinality(may \ {<<c, fd>>}) = Cardinality(may) - 1 /\ Cardinality(may) \in Nat
  BY <1>4, <1>5, FS_RemoveElement, FS_CardinalityType
<1>8. IsFiniteSet(have) /\ Cardinality(have) <= Cardinality(may \ {<<c, fd>>}) /\ Cardinality(have) \in Nat
  BY <1>4, <1>6, FS_Subset, FS_CardinalityType
<1>9. slotOf \in Surjection(have, Slot)
  <2>1. slotOf \in [have -> Slot]
    BY <1>2, MappedEntry
  <2>2. ASSUME NEW o \in Slot PROVE \E m \in have : slotOf[m] = o
    <3>1. PICK y \in Client, d \in Fd : Mapped(y, d) /\ fdtab[y][d].slot = o
      BY DEF Unshared
    <3>2. <<y, d>> \in have /\ slotOf[<<y, d>>] = o
      BY <3>1
    <3> QED BY <3>2
  <2> QED BY <2>1, <2>2 DEF Surjection
<1>10. Cardinality(Slot) <= Cardinality(have)
  BY <1>8, <1>9, FS_Surjection
<1>11. Cardinality(Slot) = MAXOPEN
  BY ConstantFacts, FS_Interval DEF Slot
<1>12. Cardinality(may) <= MAXOPEN
  BY DEF EnoughEntries
<1> HIDE DEF have, may, slotOf
<1> QED BY <1>7, <1>8, <1>10, <1>11, <1>12, ConstantFacts

\* A program that goes on: its descriptors were its own before.
LEMMA ClientEntry ==
    ASSUME TalkInv, TalkInv', EntryInv, NEW c \in Client, ClientFrame(c),
           \A d \in Fd : fdtab'[c][d] = None \/ \E z \in Fd : fdtab'[c][d] = fdtab[c][z],
           \A d \in Fd : Mapped(c, d)' => Usable(c, d),
           RequestSound(c)'
    PROVE  EntryInv'
<1>1. Types /\ Types' /\ ServerSound
  BY DEF TalkInv
<1>2. /\ opentab' = opentab /\ srv' = srv /\ Free(c) /\ ipc'[c] \in {"none", "send"}
      /\ \A o \in Slot : filefd'[o].id = filefd[o].id
      /\ \A y \in Client : y # c => /\ task'[y] = task[y] /\ ipc'[y] = ipc[y]
                                    /\ fdtab'[y] = fdtab[y]
  BY DEF ClientFrame
<1>3. \A o \in Slot : Unshared(o) => Unshared(o)'
  BY <1>2 DEF Unshared, Mapped
<1>4. DescriptorsSound'
  <2> SUFFICES ASSUME NEW y \in Client, NEW d \in Fd, Mapped(y, d)'
               PROVE  /\ opentab[fdtab'[y][d].slot].live
                      /\ opentab[fdtab'[y][d].slot].file = fdtab'[y][d].file
                      /\ filefd'[fdtab'[y][d].slot].id
                            = <<fdtab'[y][d].slot, opentab[fdtab'[y][d].slot].used>>
    BY <1>2 DEF DescriptorsSound
  <2>1. PICK z \in Fd : fdtab'[y][d] = fdtab[y][z] /\ Mapped(y, z)
    BY <1>2 DEF Mapped
  <2>2. fdtab[y][z].slot \in Slot
    BY <1>1, <2>1, MappedEntry
  <2>3. PICK o \in Slot : o = fdtab[y][z].slot
    BY <2>2
  <2>4. /\ opentab[o].live /\ opentab[o].file = fdtab[y][z].file
        /\ filefd[o].id = <<o, opentab[o].used>>
    BY <2>1, <2>3 DEF EntryInv, DescriptorsSound
  <2>5. filefd'[o].id = filefd[o].id
    BY <1>2
  <2> QED BY <2>1, <2>3, <2>4, <2>5
<1>5. AnswerSound'
  <2>1. srv.stage \in {"got", "reply"} => srv.from \in Client /\ Waits(srv.from)
    BY <1>1 DEF ServerSound, EntryInv, AnswerSound
  <2>2. srv.stage \in {"got", "reply"} =>
           /\ task'[srv.from] = task[srv.from] /\ ipc'[srv.from] = ipc[srv.from]
           /\ fdtab'[srv.from] = fdtab[srv.from]
    BY <1>2, <2>1 DEF Waits, Free
  <2>3. srv.sent = "descriptor" => filefd'[srv.slot].id = filefd[srv.slot].id
                                   /\ (Unshared(srv.slot) => Unshared(srv.slot)')
    <3> SUFFICES ASSUME srv.sent = "descriptor"
                 PROVE  /\ filefd'[srv.slot].id = filefd[srv.slot].id
                        /\ Unshared(srv.slot) => Unshared(srv.slot)'
      OBVIOUS
    <3>1. PICK o \in Slot : o = srv.slot
      BY <1>1 DEF ServerSound
    <3>2. Unshared(o) => Unshared(o)'
      BY <1>3
    <3> QED BY <1>2, <3>1, <3>2
  <2>4. AnswerSound
    BY DEF EntryInv
  <2> QED BY <1>2, <1>3, <2>1, <2>2, <2>3, <2>4 DEF AnswerSound, Waits
<1>6. \A y \in Client : y # c => RequestSound(y)'
  <2> SUFFICES ASSUME NEW y \in Client, y # c PROVE RequestSound(y)'
    OBVIOUS
  <2>1. RequestSound(y) /\ task'[y] = task[y] /\ ipc'[y] = ipc[y] /\ fdtab'[y] = fdtab[y]
    BY <1>2 DEF EntryInv
  <2>2. \A d \in Fd : Mapped(y, d) => Filefd(y, d)'.id = Filefd(y, d).id
    BY <1>1, <1>2, <2>1, MappedEntry DEF Filefd
  <2>3. task[y].fd \in Fd
    BY Mine, TaskTypes
  <2> QED BY <2>1, <2>2, <2>3 DEF RequestSound, Mapped, Filefd
<1>7. \A y \in Client, d \in Fd : Mapped(y, d)' => Usable(y, d)
  BY <1>2 DEF EntryInv, Mapped
<1>8. \A y \in Client : task'[y].do \in {"close", "resize"} => ipc'[y] # "error"
  BY <1>2 DEF EntryInv
<1> QED BY <1>4, <1>5, <1>6, <1>7, <1>8 DEF EntryInv, Usable

\* A program that goes on with a request, or returns
LEMMA ContinuesEntry ==
    ASSUME TalkInv, EntryInv, NEW c \in Client, Continues(c)
    PROVE  EntryInv'
<1>1. ClientFrame(c) /\ TalkInv' /\ Types /\ fdtab' = fdtab /\ filefd' = filefd
  BY ContinuesTalk, Mine DEF Continues, kernel
<1>2. CASE Return(c)
  <2>1. task'[c] = Idle /\ ipc'[c] = "none"
    BY <1>1, <1>2 DEF Return, Types
  <2>2. RequestSound(c)'
    BY <2>1, ConstantFacts DEF RequestSound, Through
  <2> QED BY <1>1, <2>2, ClientEntry DEF EntryInv, Mapped
<1>3. CASE \E t \in Tasks : Ask(c, t) /\ Layers(c, t)
  <2>1. PICK t \in Tasks : Ask(c, t) /\ TalkTask(t) /\ EntryTask(c, t)
    BY <1>3 DEF Layers
  <2>2. task'[c] = t /\ ipc'[c] = "send" /\ t.fd \in Fd /\ t.do \notin Quiet
    BY <1>1, <2>1, TaskTypes DEF Ask, Types, TalkTask, Asking, Quiet, Through
  <2>3. RequestSound(c)'
    BY <1>1, <2>1, <2>2 DEF RequestSound, EntryTask, Mapped, Filefd, Quiet
  <2> QED BY <1>1, <2>3, ClientEntry DEF EntryInv, Mapped
<1> QED BY <1>2, <1>3 DEF Continues

\* close gives the descriptor back; dup goes on with an empty target.
LEMMA CloseAnsweredEntry ==
    ASSUME TalkInv, EntryInv, NEW c \in Client, CloseAnswered(c)
    PROVE  EntryInv'
<1>1. /\ ClientFrame(c) /\ TalkInv' /\ task'[c] = After(task[c]) /\ ipc'[c] = "none"
      /\ task[c].do = "close" /\ task[c].fd \in Fd /\ Types /\ CallSound(c)
      /\ fdtab' = [fdtab EXCEPT ![c][task[c].fd] = None] /\ task[c] \in Tasks
  BY CloseAnsweredTalk, Mine
<1>2. PICK fd \in Fd : fd = task[c].fd
  BY <1>1
<1>3. /\ fdtab'[c][fd] = None /\ \A d \in Fd : d # fd => fdtab'[c][d] = fdtab[c][d]
  BY <1>1, <1>2 DEF Types
<1>4. RequestSound(c)'
  <2>1. CASE task[c].then = "idle"
    <3>1. task'[c] = Idle
      BY <1>1, <2>1 DEF After
    <3> QED BY <3>1, ConstantFacts DEF RequestSound, Through
  <2>2. CASE task[c].then \in {"dup", "exit"}
    <3>1. task'[c] = [Idle EXCEPT !.do = task[c].then, !.fd = fd, !.old = task[c].old]
      BY <1>1, <1>2, <2>2 DEF After
    <3>2. /\ task'[c].do = task[c].then /\ task'[c].fd = fd /\ task'[c].old = task[c].old
          /\ task'[c].then = "idle"
      BY <3>1 DEF Idle
    <3>3. task[c].then = "dup" => /\ task[c].old \in Fd /\ Mapped(c, task[c].old) /\ task[c].old # fd
                                  /\ "dup" \in Calls[c]
      BY <1>1, <1>2 DEF CallSound, EntryInv, RequestSound
    <3>4. task[c].then = "dup" => fdtab'[c][task[c].old] # None
      BY <1>3, <3>3 DEF Mapped
    <3> QED BY <1>3, <2>2, <3>2, <3>3, <3>4 DEF RequestSound, Through, Mapped
  <2> QED BY <1>1, <2>1, <2>2, TaskTypes
<1> QED BY <1>1, <1>2, <1>3, <1>4, ClientEntry DEF EntryInv, Mapped

\* dup makes a second descriptor of the entry.
LEMMA DupMapEntry ==
    ASSUME TalkInv, EntryInv, NEW c \in Client, DupMap(c)
    PROVE  EntryInv'
<1>1. /\ ClientFrame(c) /\ TalkInv' /\ task'[c] = Idle /\ task[c].do = "dup"
      /\ fdtab' = [fdtab EXCEPT ![c][task[c].fd] = fdtab[c][task[c].old]]
      /\ task[c].fd \in Fd /\ task[c].old \in Fd /\ Types
  BY DupMapTalk, Mine
<1>2. PICK fd \in Fd, old \in Fd : fd = task[c].fd /\ old = task[c].old
  BY <1>1
<1>3. /\ fdtab'[c][fd] = fdtab[c][old] /\ \A d \in Fd : d # fd => fdtab'[c][d] = fdtab[c][d]
  BY <1>1, <1>2 DEF Types
<1>4. "dup" \in Calls[c]
  BY <1>1 DEF EntryInv, RequestSound
<1>5. RequestSound(c)'
  BY <1>1, ConstantFacts DEF RequestSound, Through
<1>6. \A d \in Fd : Mapped(c, d)' => Usable(c, d)
  BY <1>4 DEF Usable
<1>7. \A d \in Fd : fdtab'[c][d] = None \/ \E z \in Fd : fdtab'[c][d] = fdtab[c][z]
  BY <1>3
<1> QED BY <1>1, <1>5, <1>6, <1>7, ClientEntry

\* dup takes its descriptor back.
LEMMA DupFailsEntry ==
    ASSUME TalkInv, EntryInv, NEW c \in Client, DupFails(c)
    PROVE  EntryInv'
<1>1. /\ ClientFrame(c) /\ TalkInv' /\ task'[c] = Idle /\ Types
      /\ fdtab' = [fdtab EXCEPT ![c][task[c].fd] = None] /\ task[c].fd \in Fd
  BY DupFailsTalk, Mine
<1>2. PICK fd \in Fd : fd = task[c].fd
  BY <1>1
<1>3. /\ fdtab'[c][fd] = None /\ \A d \in Fd : d # fd => fdtab'[c][d] = fdtab[c][d]
  BY <1>1, <1>2 DEF Types
<1>4. RequestSound(c)'
  BY <1>1, ConstantFacts DEF RequestSound, Through
<1>5. \A d \in Fd : Mapped(c, d)' => Usable(c, d)
  BY <1>3 DEF EntryInv, Mapped
<1>6. \A d \in Fd : fdtab'[c][d] = None \/ \E z \in Fd : fdtab'[c][d] = fdtab[c][z]
  BY <1>3
<1> QED BY <1>1, <1>4, <1>5, <1>6, ClientEntry

\* The other steps of programs leave their descriptors as they are.
LEMMA OtherEntry ==
    ASSUME TalkInv, EntryInv, NEW c \in Client, ClientFrame(c), TalkInv', fdtab' = fdtab, RequestSound(c)'
    PROVE  EntryInv'
BY ClientEntry DEF EntryInv, Mapped

\* ftruncate goes on to new pages through the same descriptor.
LEMMA ResizeAnsweredEntry ==
    ASSUME TalkInv, EntryInv, NEW c \in Client, ResizeAnswered(c)
    PROVE  EntryInv'
<1>1. /\ ClientFrame(c) /\ TalkInv' /\ task[c].do = "resize" /\ task[c].fd \in Fd
      /\ filefd' = filefd /\ fdtab' = fdtab
      /\ \/ task'[c] = Idle
         \/ \E t \in Tasks : /\ task'[c] = t /\ t.do = "extend" /\ t.fd = task[c].fd
                             /\ t.id = task[c].id /\ t.n = task[c].n /\ t.then = task[c].then
                             /\ t.old = task[c].old /\ t.i < t.n
  BY ResizeAnsweredTalk
<1>2. RequestSound(c)
  BY DEF EntryInv
<1>3. RequestSound(c)'
  BY <1>1, <1>2, ConstantFacts DEF RequestSound, Through, Mapped, Filefd
<1> QED BY <1>1, <1>3, OtherEntry

\* ftruncate asks with the id in its descriptor.
LEMMA FtruncateEntry ==
    ASSUME TalkInv, EntryInv, NEW c \in Client, NEW d \in Fd, NEW n \in Sizes, Ftruncate(c, d, n)
    PROVE  EntryInv'
<1>0. /\ ClientFrame(c) /\ TalkInv' /\ Mapped(c, d) /\ fdtab' = fdtab
      /\ \E t \in Tasks : /\ task'[c] = t /\ t.do = "resize" /\ t.fd = d
                          /\ t.id = Filefd(c, d).id /\ t.n = n /\ t.old = Filefd(c, d).size
                          /\ t.then = "idle"
  BY FtruncateTalk
<1>1. /\ ClientFrame(c) /\ TalkInv' /\ Mapped(c, d) /\ fdtab' = fdtab
      /\ task'[c].do = "resize" /\ task'[c].fd = d
      /\ task'[c].id = Filefd(c, d).id /\ task'[c].then = "idle"
  BY <1>0
<1>2. PICK o \in Slot : o = fdtab[c][d].slot
  BY <1>1, Mine, MappedEntry
<1>3. filefd'[o].id = filefd[o].id
  BY <1>1 DEF ClientFrame
<1>4. RequestSound(c)'
  BY <1>1, <1>2, <1>3 DEF RequestSound, Through, Mapped, Filefd
<1> QED BY <1>1, <1>4, OtherEntry

\* dup with a free target finds the source mapped and its target not.
LEMMA DupEntry ==
    ASSUME TalkInv, EntryInv, NEW c \in Client, NEW from \in Fd, NEW to \in Fd, Dup(c, from, to),
           ~ Mapped(c, to)
    PROVE  EntryInv'
<1>1. /\ ClientFrame(c) /\ TalkInv' /\ ipc'[c] = "none"
      /\ \E t \in Tasks : /\ task'[c] = t /\ t.do = "dup" /\ t.fd = to /\ t.old = from
                          /\ t.then = "idle"
  BY DupTalk
<1>2. /\ fdtab' = fdtab /\ Mapped(c, from) /\ from # to /\ "dup" \in Calls[c]
  BY DEF Dup, Calling
<1>3. RequestSound(c)'
  BY <1>1, <1>2 DEF RequestSound, Through, Mapped
<1> QED BY <1>1, <1>2, <1>3, OtherEntry

\* _exit asks for nothing by itself.
LEMMA ExitEntry ==
    ASSUME TalkInv, EntryInv, NEW c \in Client,
           Exit(c) \/ (CloseAll(c) /\ ~ \E d \in Fd : Mapped(c, d))
    PROVE  EntryInv'
<1>1. /\ ClientFrame(c) /\ TalkInv' /\ fdtab' = fdtab
      /\ \E t \in Tasks : task'[c] = t /\ t.do \in {"exit", "dead"} /\ t.then = "idle"
  BY ExitTalk
<1>2. RequestSound(c)'
  BY <1>1 DEF RequestSound, Through
<1> QED BY <1>1, <1>2, OtherEntry

\* The server's own steps: it touches entries that nobody has.
LEMMA ServerEntry ==
    ASSUME TalkInv, EntryInv, ServerFrame, AnswerSound'
    PROVE  EntryInv'
<1>1. /\ Types /\ task' = task /\ ipc' = ipc /\ fdtab' = fdtab
      /\ \A o \in Slot : Unshared(o) \/ (opentab'[o] = opentab[o] /\ filefd'[o] = filefd[o])
  BY DEF TalkInv, ServerFrame
<1>2. \A c \in Client, d \in Fd : Mapped(c, d) =>
         /\ opentab'[fdtab[c][d].slot] = opentab[fdtab[c][d].slot]
         /\ filefd'[fdtab[c][d].slot] = filefd[fdtab[c][d].slot]
  BY <1>1, MappedEntry DEF Unshared
<1>3. DescriptorsSound'
  <2> SUFFICES ASSUME NEW c \in Client, NEW d \in Fd, Mapped(c, d)
               PROVE  /\ opentab'[fdtab[c][d].slot].live
                      /\ opentab'[fdtab[c][d].slot].file = fdtab[c][d].file
                      /\ filefd'[fdtab[c][d].slot].id
                            = <<fdtab[c][d].slot, opentab'[fdtab[c][d].slot].used>>
    BY <1>1 DEF DescriptorsSound, Mapped
  <2>1. /\ opentab[fdtab[c][d].slot].live
        /\ opentab[fdtab[c][d].slot].file = fdtab[c][d].file
        /\ filefd[fdtab[c][d].slot].id = <<fdtab[c][d].slot, opentab[fdtab[c][d].slot].used>>
    BY DEF EntryInv, DescriptorsSound
  <2> QED BY <1>2, <2>1
<1>4. \A c \in Client : RequestSound(c)'
  <2> SUFFICES ASSUME NEW c \in Client PROVE RequestSound(c)'
    OBVIOUS
  <2>1. RequestSound(c) /\ task[c].fd \in Fd
    BY Mine, TaskTypes DEF EntryInv
  <2>2. task[c].do \in Through => Filefd(c, task[c].fd)' = Filefd(c, task[c].fd)
    BY <1>1, <1>2, <2>1 DEF RequestSound, Filefd
  <2> QED BY <1>1, <2>1, <2>2 DEF RequestSound, Mapped
<1> QED BY <1>1, <1>3, <1>4 DEF EntryInv, Mapped, Usable

\* A request that the server takes up finds an entry if it is an open.
LEMMA IpcSendEntry ==
    ASSUME EnoughEntries, TalkInv, EntryInv, NEW c \in Client, IpcSend(c)
    PROVE  EntryInv'
<1>1. /\ ipc[c] = "send" /\ ipc' = [ipc EXCEPT ![c] = "sent"] /\ Types
      /\ srv' = [NoReply EXCEPT !.stage = "got", !.from = c]
      /\ opentab' = opentab /\ filefd' = filefd /\ task' = task /\ fdtab' = fdtab
  BY Mine DEF IpcSend
<1>2. srv'.stage = "got" /\ srv'.from = c /\ srv'.after = "loop" /\ srv'.i = 0
  BY <1>1 DEF NoReply
<1>3. ipc'[c] = "sent" /\ \A x \in Client : x # c => ipc'[x] = ipc[x]
  BY <1>1 DEF Types
<1>4. task[c].do = "open" => \E o \in Slot : o >= 0 /\ Unshared(o)
  <2> SUFFICES ASSUME task[c].do = "open" PROVE \E o \in Slot : o >= 0 /\ Unshared(o)
    OBVIOUS
  <2>1. PICK o \in Slot : Unshared(o)
    BY <1>1, SomeEntryFree
  <2>2. o \in Nat
    BY ConstantFacts
  <2> QED BY <2>1, <2>2
<1>5. \A o \in Slot : Unshared(o) => Unshared(o)'
  BY <1>1 DEF Unshared, Mapped
<1>6. AnswerSound'
  BY <1>1, <1>2, <1>3, <1>4, <1>5 DEF AnswerSound, Waits
<1>7. DescriptorsSound'
  BY <1>1 DEF EntryInv, DescriptorsSound, Mapped
<1>8. \A x \in Client : RequestSound(x)'
  BY <1>1, <1>3 DEF EntryInv, RequestSound, Mapped, Filefd
<1> QED BY <1>1, <1>3, <1>6, <1>7, <1>8 DEF EntryInv, Mapped, Usable

\* Waiting for the answer changes no entry.
LEMMA IpcRecvEntry ==
    ASSUME TalkInv, EntryInv, NEW c \in Client, IpcRecv(c)
    PROVE  EntryInv'
<1>1. /\ ipc[c] = "sent" /\ ipc' = [ipc EXCEPT ![c] = "wait"] /\ Types
      /\ srv' = srv /\ opentab' = opentab /\ filefd' = filefd /\ task' = task /\ fdtab' = fdtab
  BY Mine DEF IpcRecv, kernel
<1>3. ipc'[c] = "wait" /\ \A x \in Client : x # c => ipc'[x] = ipc[x]
  BY <1>1 DEF Types
<1>4. srv.stage \in {"got", "reply"} => srv.from \in Client /\ Waits(srv.from)'
  BY <1>1, <1>3 DEF TalkInv, ServerSound, EntryInv, AnswerSound, Waits
<1>5. \A o \in Slot : Unshared(o) => Unshared(o)'
  BY <1>1 DEF Unshared, Mapped
<1>6. AnswerSound'
  <2>1. srv.stage = "reply" /\ srv.sent = "descriptor" => Unshared(srv.slot)'
    BY <1>1 DEF EntryInv, AnswerSound, Unshared, Mapped
  <2> QED BY <1>1, <1>4, <1>5, <2>1 DEF EntryInv, AnswerSound
<1>7. DescriptorsSound'
  BY <1>1 DEF EntryInv, DescriptorsSound, Mapped
<1>8. \A x \in Client : RequestSound(x)'
  BY <1>1, <1>3 DEF EntryInv, RequestSound, Mapped, Filefd
<1> QED BY <1>1, <1>3, <1>6, <1>7, <1>8 DEF EntryInv, Mapped, Usable

\* The answer of an open brings the descriptor, any other leaves them alone.
LEMMA IpcReplyDescriptors ==
    ASSUME TalkInv, EntryInv, IpcReply
    PROVE  \E c \in Client : \E fd \in Fd :
              /\ c = srv.from /\ fd = task[c].fd /\ Waits(c)
              /\ \/ fdtab' = fdtab /\ (task[c].do = "open" => srv.r # "ok")
                 \/ /\ task[c].do = "open" /\ srv.sent = "descriptor" /\ srv.slot \in Slot
                    /\ srv.slot # None
                    /\ ~ Mapped(c, fd) /\ fd < MAXFD - 1 /\ task[c].file \in File
                    /\ fdtab'[c][fd] = [slot |-> srv.slot, file |-> task[c].file]
                    /\ fdtab'[c][fd] # None
                    /\ \A d \in Fd : d # fd => fdtab'[c][d] = fdtab[c][d]
                    /\ \A x \in Client : x # c => fdtab'[x] = fdtab[x]
<1>1. PICK c \in Client : c = srv.from
  BY IpcReplyTalk
<1>2. PICK fd \in Fd : fd = task[c].fd
  BY Mine, TaskTypes
<1>3. /\ srv.stage = "reply" /\ ipc[c] = "wait"
      /\ fdtab' = IF srv.sent = "descriptor"
                  THEN [fdtab EXCEPT ![c][fd] = [slot |-> srv.slot, file |-> task[c].file]]
                  ELSE fdtab
  BY <1>1, <1>2 DEF IpcReply
<1>4. Types /\ ServerSound /\ CallSound(c) /\ RequestSound(c) /\ Waits(c)
  BY <1>3 DEF TalkInv, EntryInv, Waits
<1>5. CASE srv.sent = "descriptor"
  <2>1. task[c].do = "open" /\ task[c].file \in File /\ srv.slot \in Slot
    BY <1>1, <1>3, <1>4, <1>5 DEF ServerSound, CallSound
  <2>2. ~ Mapped(c, fd) /\ fd < MAXFD - 1
    BY <1>2, <1>3, <1>4, <2>1 DEF RequestSound
  <2>3. [slot |-> srv.slot, file |-> task[c].file] \in Descs
    BY <2>1 DEF Descs
  <2>4. /\ fdtab'[c][fd] = [slot |-> srv.slot, file |-> task[c].file]
        /\ \A d \in Fd : d # fd => fdtab'[c][d] = fdtab[c][d]
        /\ \A x \in Client : x # c => fdtab'[x] = fdtab[x]
    BY <1>3, <1>4, <1>5 DEF Types
  <2>5. fdtab'[c][fd] # None /\ srv.slot # None
    BY <2>1, <2>3, <2>4, ConstantFacts
  <2> QED BY <1>1, <1>2, <1>4, <1>5, <2>1, <2>2, <2>4, <2>5
<1>6. CASE srv.sent # "descriptor"
  <2>1. fdtab' = fdtab
    BY <1>3, <1>6
  <2>2. task[c].do = "open" => srv.r # "ok"
    BY <1>1, <1>3, <1>4, <1>6 DEF ServerSound
  <2> QED BY <1>1, <1>2, <1>4, <2>1, <2>2
<1> QED BY <1>5, <1>6

\* The answer maps only the page of an entry that is the new file's.
LEMMA IpcReplyEntry ==
    ASSUME TalkInv, EntryInv, IpcReply
    PROVE  EntryInv'
<1>1. /\ srv.stage = "reply" /\ srv'.stage = "done" /\ srv'.after = srv.after /\ srv.from \in Client
      /\ ipc' = [ipc EXCEPT ![srv.from] = srv.r] /\ srv.r \in {"ok", "error"}
      /\ opentab' = opentab /\ filefd' = filefd /\ task' = task /\ ipc[srv.from] = "wait"
  BY IpcReplyTalk
<1>2. PICK c \in Client, fd \in Fd :
              /\ c = srv.from /\ fd = task[c].fd /\ Waits(c)
              /\ \/ fdtab' = fdtab /\ (task[c].do = "open" => srv.r # "ok")
                 \/ /\ task[c].do = "open" /\ srv.sent = "descriptor" /\ srv.slot \in Slot
                    /\ srv.slot # None
                    /\ ~ Mapped(c, fd) /\ fd < MAXFD - 1 /\ task[c].file \in File
                    /\ fdtab'[c][fd] = [slot |-> srv.slot, file |-> task[c].file]
                    /\ fdtab'[c][fd] # None
                    /\ \A d \in Fd : d # fd => fdtab'[c][d] = fdtab[c][d]
                    /\ \A x \in Client : x # c => fdtab'[x] = fdtab[x]
  BY IpcReplyDescriptors
<1>3. ipc'[c] = srv.r /\ \A x \in Client : x # c => ipc'[x] = ipc[x]
  BY <1>1, <1>2 DEF TalkInv, Types
<1>4. AnswerSound'
  BY <1>1 DEF EntryInv, AnswerSound
<1>5. DescriptorsSound'
  <2> SUFFICES ASSUME NEW x \in Client, NEW d \in Fd, Mapped(x, d)'
               PROVE  /\ opentab[fdtab'[x][d].slot].live
                      /\ opentab[fdtab'[x][d].slot].file = fdtab'[x][d].file
                      /\ filefd[fdtab'[x][d].slot].id
                            = <<fdtab'[x][d].slot, opentab[fdtab'[x][d].slot].used>>
    BY <1>1 DEF DescriptorsSound
  <2>1. CASE fdtab'[x][d] = fdtab[x][d]
    BY <2>1 DEF EntryInv, DescriptorsSound, Mapped
  <2>2. CASE fdtab'[x][d] # fdtab[x][d]
    <3>1. /\ srv.sent = "descriptor"
          /\ fdtab'[x][d] = [slot |-> srv.slot, file |-> task[c].file]
      BY <1>2, <2>2
    <3>2. fdtab'[x][d].slot = srv.slot /\ fdtab'[x][d].file = task[c].file
      BY <3>1
    <3> QED BY <1>1, <1>2, <3>1, <3>2 DEF EntryInv, AnswerSound
  <2> QED BY <2>1, <2>2
<1>6. \A x \in Client : RequestSound(x)'
  <2> SUFFICES ASSUME NEW x \in Client PROVE RequestSound(x)'
    OBVIOUS
  <2>1. RequestSound(x) /\ CallSound(x)
    BY DEF EntryInv, TalkInv
  <2>2. CASE fdtab' = fdtab
    BY <1>1, <1>2, <1>3, <2>1, <2>2 DEF RequestSound, Mapped, Filefd, Waits
  <2>3. CASE fdtab' # fdtab /\ x # c
    <3>1. fdtab'[x] = fdtab[x] /\ ipc'[x] = ipc[x]
      BY <1>2, <1>3, <2>3
    <3> QED BY <1>1, <2>1, <3>1 DEF RequestSound, Mapped, Filefd
  <2>4. CASE fdtab' # fdtab /\ x = c
    <3>1. /\ task[c].do = "open" /\ srv.sent = "descriptor" /\ fd < MAXFD - 1
          /\ fdtab'[c][fd] # None
          /\ \A d \in Fd : d # fd => fdtab'[c][d] = fdtab[c][d]
      BY <1>2, <2>4
    <3>2. srv.r = "ok"
      BY <1>1, <1>2, <3>1 DEF TalkInv, ServerSound
    <3>3. task[c].then = "dup" => task[c].old \in Fd
      BY <2>1, <2>4 DEF CallSound
    <3> QED BY <1>1, <1>2, <1>3, <2>1, <2>4, <3>1, <3>2, <3>3 DEF RequestSound, Mapped, Through
  <2> QED BY <2>2, <2>3, <2>4
<1>7. \A x \in Client, d \in Fd : Mapped(x, d)' => Usable(x, d)
  <2> SUFFICES ASSUME NEW x \in Client, NEW d \in Fd, Mapped(x, d)', ~ Mapped(x, d) PROVE Usable(x, d)
    BY DEF EntryInv
  <2>1. x = c /\ d = fd /\ fd < MAXFD - 1
    BY <1>2 DEF Mapped
  <2> QED BY <2>1 DEF Usable
<1>8. \A x \in Client : task[x].do \in {"close", "resize"} => ipc'[x] # "error"
  BY <1>1, <1>2, <1>3 DEF EntryInv, AnswerSound
<1> QED BY <1>1, <1>4, <1>5, <1>6, <1>7, <1>8 DEF EntryInv, Usable

\* At first no descriptor is mapped and no request is on its way.
LEMMA EntryInit == EnoughPages /\ Init => EntryInv
<1> SUFFICES ASSUME EnoughPages, Init PROVE EntryInv
  OBVIOUS
<1>1. \A c \in Client : /\ task[c] = Idle /\ \A d \in Fd : ~ Mapped(c, d)
                        /\ RequestSound(c) /\ task[c].do = "idle"
  BY DEF Init, Mapped, Idle, RequestSound, Through
<1>2. AnswerSound
  BY DEF Init, NoReply, AnswerSound
<1> QED BY <1>1, <1>2 DEF EntryInv, DescriptorsSound

\* Every step keeps entries and descriptors sound.
LEMMA EntryNext == EnoughEntries /\ TalkInv /\ EntryInv /\ [Next]_vars => EntryInv'
<1> SUFFICES ASSUME EnoughEntries, TalkInv, EntryInv, [Next]_vars PROVE EntryInv'
  OBVIOUS
<1>1. CASE Serve
  BY <1>1, ServeStep, ServerEntry, IpcReplyEntry
<1>2. ASSUME NEW c \in Client, Proceed(c) \/ Call(c) PROVE EntryInv'
  <2>1. CASE IpcSend(c) \/ IpcRecv(c)
    BY <2>1, IpcSendEntry, IpcRecvEntry
  <2>2. CASE Continues(c)
    BY <2>2, ContinuesEntry
  <2>3. CASE CloseAnswered(c) \/ DupMap(c) \/ DupFails(c) \/ ResizeAnswered(c)
    BY <2>3, CloseAnsweredEntry, DupMapEntry, DupFailsEntry, ResizeAnsweredEntry
  <2>4. CASE \E d \in Fd, n \in Sizes : Ftruncate(c, d, n)
    BY <2>4, FtruncateEntry
  <2>5. CASE \E d, to \in Fd : Dup(c, d, to) /\ ~ Mapped(c, to)
    BY <2>5, DupEntry
  <2>6. CASE Exit(c) \/ (CloseAll(c) /\ ~ \E d \in Fd : Mapped(c, d))
    BY <2>6, ExitEntry
  <2> QED BY <1>2, <2>1, <2>2, <2>3, <2>4, <2>5, <2>6, ClientSteps
<1>3. CASE UNCHANGED vars
  <2>1. DescriptorsSound'
    BY <1>3 DEF vars, EntryInv, DescriptorsSound, Mapped
  <2>2. AnswerSound'
    BY <1>3 DEF vars, EntryInv, AnswerSound, Waits, Unshared, Mapped
  <2>3. ASSUME NEW c \in Client PROVE RequestSound(c)'
    <3>1. RequestSound(c)
      BY DEF EntryInv
    <3> QED BY <1>3, <3>1 DEF vars, RequestSound, Mapped, Filefd
  <2>4. ASSUME NEW c \in Client, NEW d \in Fd, Mapped(c, d)' PROVE Usable(c, d)
    BY <1>3, <2>4 DEF vars, EntryInv, Mapped
  <2>5. \A c \in Client : (task[c].do \in {"close", "resize"} => ipc[c] # "error")'
    BY <1>3 DEF vars, EntryInv
  <2> QED BY <2>1, <2>2, <2>3, <2>4, <2>5 DEF EntryInv, Usable
<1> QED
  <2>1. CASE Next
    BY <1>1, <1>2, <2>1 DEF Next, Awake
  <2> QED BY <1>3, <2>1

\* The table of open files is sound in every reachable state.
THEOREM EntriesSound == EnoughEntries /\ EnoughPages => (Spec => [](TalkInv /\ EntryInv))
<1> SUFFICES ASSUME EnoughEntries, EnoughPages PROVE Spec => [](TalkInv /\ EntryInv)
  OBVIOUS
<1>1. Init => TalkInv /\ EntryInv
  BY TalkInit, EntryInit
<1>2. TalkInv /\ EntryInv /\ [Next]_vars => (TalkInv /\ EntryInv)'
  BY TalkNext, EntryNext
<1> QED BY <1>1, <1>2, PTL DEF Spec

-----------------------------------------------------------------------------
(* The third layer: the pages behind a descriptor                          *)

\* Everything the invariant of pages speaks of is as it was.
LEMMA SamePages ==
    ASSUME TalkInv, EntryInv, PageInv, task' = task, fdtab' = fdtab, window' = window,
           \A c \in Client, d \in Fd : Mapped(c, d) => Filefd(c, d)' = Filefd(c, d)
    PROVE  PageInv'
<1>1. SharedByDup'
  BY DEF PageInv, SharedByDup, Mapped
<1>2. \A c \in Client : PagesSound(c)'
  BY DEF PageInv, PagesSound, Mapped
<1>3. \A c \in Client : LoopSound(c)'
  <2> SUFFICES ASSUME NEW c \in Client PROVE LoopSound(c)'
    OBVIOUS
  <2>1. LoopSound(c) /\ RequestSound(c) /\ task[c].fd \in Fd
    BY Mine, TaskTypes DEF PageInv, EntryInv
  <2>2. task[c].do \in Through => Filefd(c, task[c].fd)' = Filefd(c, task[c].fd)
    BY <2>1 DEF RequestSound
  <2> QED BY <2>1, <2>2 DEF LoopSound, Filefd
<1> QED BY <1>1, <1>2, <1>3 DEF PageInv

\* The handlers leave the pages of clients and the sizes they have in use alone.
LEMMA ServerPages ==
    ASSUME TalkInv, EntryInv, PageInv, ServerFrame
    PROVE  PageInv'
<1>1. \A c \in Client, d \in Fd : Mapped(c, d) => Filefd(c, d)' = Filefd(c, d)
  <2> SUFFICES ASSUME NEW c \in Client, NEW d \in Fd, Mapped(c, d)
               PROVE  Filefd(c, d)' = Filefd(c, d)
    OBVIOUS
  <2>1. PICK o \in Slot : o = fdtab[c][d].slot
    BY Mine, MappedEntry
  <2>2. filefd'[o] = filefd[o]
    BY <2>1 DEF ServerFrame, Unshared
  <2> QED BY <2>1, <2>2 DEF ServerFrame, Filefd
<1> QED BY <1>1, SamePages DEF ServerFrame

\* Sending a request and waiting map no page.
LEMMA MessagePages ==
    ASSUME TalkInv, EntryInv, PageInv, NEW c \in Client, IpcSend(c) \/ IpcRecv(c)
    PROVE  PageInv'
<1>1. task' = task /\ fdtab' = fdtab /\ window' = window /\ filefd' = filefd
  BY DEF IpcSend, IpcRecv, kernel
<1> QED BY <1>1, SamePages DEF Filefd

\* The answer maps a page of the file that is open there, or the descriptor of
\* an entry that nobody has.
LEMMA IpcReplyPages ==
    ASSUME TalkInv, EntryInv, PageInv, IpcReply
    PROVE  PageInv'
<1>1. PICK c \in Client, fd \in Fd :
              /\ c = srv.from /\ fd = task[c].fd /\ Waits(c)
              /\ \/ fdtab' = fdtab /\ (task[c].do = "open" => srv.r # "ok")
                 \/ /\ task[c].do = "open" /\ srv.sent = "descriptor" /\ srv.slot \in Slot
                    /\ srv.slot # None
                    /\ ~ Mapped(c, fd) /\ fd < MAXFD - 1 /\ task[c].file \in File
                    /\ fdtab'[c][fd] = [slot |-> srv.slot, file |-> task[c].file]
                    /\ fdtab'[c][fd] # None
                    /\ \A d \in Fd : d # fd => fdtab'[c][d] = fdtab[c][d]
                    /\ \A x \in Client : x # c => fdtab'[x] = fdtab[x]
  BY IpcReplyDescriptors
<1>2. /\ srv.stage = "reply" /\ filefd' = filefd /\ task' = task
      /\ window' = IF srv.sent = "block" THEN [window EXCEPT ![c][fd][task[c].i] = srv.file]
                   ELSE window
  BY <1>1 DEF IpcReply
<1>3. Types /\ RequestSound(c) /\ LoopSound(c) /\ PagesSound(c)
  BY Mine DEF EntryInv, PageInv
<1>4. CASE fdtab' = fdtab /\ srv.sent # "block"
  BY <1>2, <1>4, SamePages DEF Filefd
<1>5. CASE fdtab' = fdtab /\ srv.sent = "block"
  <2>1. PICK i \in Page : i = task[c].i
    BY Mine, TaskTypes
  <2>2. task[c].do \in {"map", "extend"} /\ srv.file = fdtab[c][fd].file
    BY <1>1, <1>2, <1>5 DEF EntryInv, AnswerSound
  <2>3. Mapped(c, fd) /\ i < Filefd(c, fd).size
    BY <1>1, <1>3, <2>1, <2>2 DEF RequestSound, LoopSound, Through
  <2>4. window' = [window EXCEPT ![c][fd][i] = srv.file]
    BY <1>2, <1>5, <2>1
  <2>5. \A x \in Client, d \in Fd, k \in Page :
           window'[x][d][k] = IF x = c /\ d = fd /\ k = i THEN srv.file ELSE window[x][d][k]
    BY <1>3, <2>4 DEF Types, Windows
  <2>6. \A x \in Client : PagesSound(x)'
    <3> SUFFICES ASSUME NEW x \in Client PROVE PagesSound(x)'
      OBVIOUS
    <3>1. PagesSound(x)
      BY DEF PageInv
    <3> QED BY <1>2, <1>5, <2>2, <2>3, <2>5, <3>1 DEF PagesSound, Mapped, Filefd
  <2>7. SharedByDup' /\ \A x \in Client : LoopSound(x)'
    BY <1>2, <1>5 DEF PageInv, SharedByDup, LoopSound, Mapped, Filefd
  <2> QED BY <2>6, <2>7 DEF PageInv
<1>6. CASE fdtab' # fdtab
  <2>1. /\ task[c].do = "open" /\ srv.sent = "descriptor" /\ srv.slot \in Slot /\ ~ Mapped(c, fd)
        /\ fdtab'[c][fd] = [slot |-> srv.slot, file |-> task[c].file]
        /\ \A d \in Fd : d # fd => fdtab'[c][d] = fdtab[c][d]
        /\ \A x \in Client : x # c => fdtab'[x] = fdtab[x]
    BY <1>1, <1>6
  <2>2. window' = window
    BY <1>2, <2>1
  <2>3. Unshared(srv.slot) /\ fdtab'[c][fd].slot = srv.slot
    BY <1>2, <2>1 DEF EntryInv, AnswerSound
  <2>4. \A x \in Client, d \in Fd : fdtab'[x][d] = fdtab[x][d] \/ (x = c /\ d = fd)
    BY <2>1
  <2>5. SharedByDup'
    <3> SUFFICES ASSUME NEW x \in Client, NEW y \in Client, NEW d \in Fd, NEW z \in Fd,
                        Mapped(x, d)', Mapped(y, z)', fdtab'[x][d].slot = fdtab'[y][z].slot
                 PROVE  x = y /\ (d = z \/ "dup" \in Calls[x])
      BY DEF SharedByDup
    <3>1. CASE fdtab'[x][d] = fdtab[x][d] /\ fdtab'[y][z] = fdtab[y][z]
      BY <3>1 DEF PageInv, SharedByDup, Mapped
    <3>2. CASE x = c /\ d = fd /\ y = c /\ z = fd
      BY <3>2
    <3>3. CASE x = c /\ d = fd /\ fdtab'[y][z] = fdtab[y][z]
      BY <2>3, <3>3 DEF Unshared, Mapped
    <3>4. CASE fdtab'[x][d] = fdtab[x][d] /\ y = c /\ z = fd
      BY <2>3, <3>4 DEF Unshared, Mapped
    <3> QED BY <2>4, <3>1, <3>2, <3>3, <3>4
  <2>6. \A x \in Client : PagesSound(x)'
    <3> SUFFICES ASSUME NEW x \in Client, NEW d \in Fd, NEW k \in Page, window[x][d][k] # None
                 PROVE  /\ Mapped(x, d)' /\ window[x][d][k] = fdtab'[x][d].file
                        /\ \/ k < Filefd(x, d)'.size
                           \/ task[x].do = "resize" /\ task[x].fd = d /\ k < task[x].old
      BY <1>2, <2>2 DEF PagesSound, Filefd
    <3>1. /\ Mapped(x, d) /\ window[x][d][k] = fdtab[x][d].file
          /\ \/ k < Filefd(x, d).size
             \/ task[x].do = "resize" /\ task[x].fd = d /\ k < task[x].old
      BY DEF PageInv, PagesSound
    <3>2. fdtab'[x][d] = fdtab[x][d]
      BY <2>1, <2>4, <3>1
    <3> QED BY <1>2, <3>1, <3>2 DEF Mapped, Filefd
  <2>7. \A x \in Client : LoopSound(x)'
    <3> SUFFICES ASSUME NEW x \in Client PROVE LoopSound(x)'
      OBVIOUS
    <3>1. LoopSound(x)
      BY DEF PageInv
    <3>2. CASE x = c
      BY <1>2, <2>1, <3>2 DEF LoopSound, Through
    <3>3. CASE x # c
      BY <1>2, <2>1, <3>1, <3>3 DEF LoopSound, Filefd
    <3> QED BY <3>2, <3>3
  <2> QED BY <2>5, <2>6, <2>7 DEF PageInv
<1> QED BY <1>1, <1>4, <1>5, <1>6

\* A program that goes on does not reach into the files of others.
LEMMA ClientPages ==
    ASSUME TalkInv, EntryInv, PageInv, NEW c \in Client, ClientFrame(c),
           \A d \in Fd : fdtab'[c][d] = None \/ \E z \in Fd : fdtab'[c][d] = fdtab[c][z],
           "dup" \in Calls[c] \/ \A d \in Fd : fdtab'[c][d] \in {None, fdtab[c][d]},
           PagesSound(c)', LoopSound(c)'
    PROVE  PageInv'
<1>1. /\ \A o \in Slot : \/ filefd'[o] = filefd[o]
                         \/ \E d \in Fd : Mapped(c, d) /\ fdtab[c][d].slot = o
      /\ \A y \in Client : y # c => /\ task'[y] = task[y] /\ fdtab'[y] = fdtab[y]
                                    /\ window'[y] = window[y]
  BY DEF ClientFrame
<1>2. SharedByDup'
  <2> SUFFICES ASSUME NEW x \in Client, NEW y \in Client, NEW d \in Fd, NEW z \in Fd,
                      Mapped(x, d)', Mapped(y, z)', fdtab'[x][d].slot = fdtab'[y][z].slot
               PROVE  x = y /\ (d = z \/ "dup" \in Calls[x])
    BY DEF SharedByDup
  <2>1. PICK e \in Fd : fdtab'[x][d] = fdtab[x][e] /\ Mapped(x, e)
    BY <1>1 DEF Mapped
  <2>2. PICK w \in Fd : fdtab'[y][z] = fdtab[y][w] /\ Mapped(y, w)
    BY <1>1 DEF Mapped
  <2>3. x = y
    BY <2>1, <2>2 DEF PageInv, SharedByDup
  <2>4. CASE "dup" \in Calls[x]
    BY <2>3, <2>4
  <2>5. CASE "dup" \notin Calls[x]
    <3>1. fdtab'[x][d] = fdtab[x][d] /\ fdtab'[y][z] = fdtab[y][z]
      BY <1>1, <2>3, <2>5 DEF Mapped
    <3> QED BY <3>1 DEF PageInv, SharedByDup, Mapped
  <2> QED BY <2>4, <2>5
<1>3. ASSUME NEW y \in Client, y # c, NEW d \in Fd, Mapped(y, d)
      PROVE  Filefd(y, d)' = Filefd(y, d)
  <2>1. PICK o \in Slot : o = fdtab[y][d].slot
    BY <1>3, Mine, MappedEntry
  <2>2. ~ \E z \in Fd : Mapped(c, z) /\ fdtab[c][z].slot = o
    BY <1>3, <2>1 DEF PageInv, SharedByDup
  <2>3. filefd'[o] = filefd[o] /\ fdtab'[y] = fdtab[y]
    BY <1>1, <1>3, <2>2
  <2> QED BY <2>1, <2>3 DEF Filefd
<1>4. \A y \in Client : y # c => PagesSound(y)' /\ LoopSound(y)'
  <2> SUFFICES ASSUME NEW y \in Client, y # c PROVE PagesSound(y)' /\ LoopSound(y)'
    OBVIOUS
  <2>1. /\ PagesSound(y) /\ LoopSound(y) /\ RequestSound(y) /\ task[y].fd \in Fd
        /\ task'[y] = task[y] /\ fdtab'[y] = fdtab[y] /\ window'[y] = window[y]
    BY <1>1, Mine, TaskTypes DEF PageInv, EntryInv
  <2>2. PagesSound(y)'
    <3> SUFFICES ASSUME NEW d \in Fd, NEW k \in Page, window[y][d][k] # None
                 PROVE  /\ Mapped(y, d) /\ window[y][d][k] = fdtab[y][d].file
                        /\ \/ k < Filefd(y, d)'.size
                           \/ task[y].do = "resize" /\ task[y].fd = d /\ k < task[y].old
      BY <2>1 DEF PagesSound, Filefd, Mapped
    <3>1. /\ Mapped(y, d) /\ window[y][d][k] = fdtab[y][d].file
          /\ \/ k < Filefd(y, d).size
             \/ task[y].do = "resize" /\ task[y].fd = d /\ k < task[y].old
      BY <2>1 DEF PagesSound
    <3> QED BY <1>3, <3>1
  <2>3. task[y].do \in Through => Filefd(y, task[y].fd)' = Filefd(y, task[y].fd)
    BY <1>3, <2>1 DEF RequestSound
  <2>4. LoopSound(y)'
    BY <2>1, <2>3 DEF LoopSound, Filefd
  <2> QED BY <2>2, <2>4
<1> QED BY <1>2, <1>4 DEF PageInv

\* A program that goes on with a request, or returns
LEMMA ContinuesPages ==
    ASSUME TalkInv, EntryInv, PageInv, NEW c \in Client, Continues(c)
    PROVE  PageInv'
<1>1. /\ ClientFrame(c) /\ fdtab' = fdtab /\ filefd' = filefd /\ window' = window /\ Types
      /\ task[c].do # "resize"
  BY ContinuesTalk, Mine DEF Continues, kernel
<1>2. PagesSound(c)'
  BY <1>1 DEF PageInv, PagesSound, Mapped, Filefd
<1>3. LoopSound(c)'
  <2>1. CASE Return(c)
    <3>1. task'[c] = Idle
      BY <1>1, <2>1 DEF Return, Types
    <3> QED BY <3>1, ConstantFacts DEF LoopSound, Through
  <2>2. CASE \E t \in Tasks : Ask(c, t) /\ Layers(c, t)
    <3>1. PICK t \in Tasks : Ask(c, t) /\ PageTask(c, t)
      BY <2>2 DEF Layers
    <3>2. task'[c] = t
      BY <1>1, <3>1 DEF Ask, Types
    <3> QED BY <1>1, <3>1, <3>2 DEF LoopSound, PageTask, Filefd
  <2> QED BY <2>1, <2>2 DEF Continues
<1> QED BY <1>1, <1>2, <1>3, ClientPages

\* close unmaps all there is: the loop went through the file as it is.
LEMMA CloseAnsweredPages ==
    ASSUME TalkInv, EntryInv, PageInv, NEW c \in Client, CloseAnswered(c)
    PROVE  PageInv'
<1>1. /\ ClientFrame(c) /\ task'[c] = After(task[c]) /\ task[c].do = "close"
      /\ task[c].fd \in Fd /\ filefd' = filefd /\ fdtab' = [fdtab EXCEPT ![c][task[c].fd] = None]
      /\ window' = IF Failed(c) THEN window
                   ELSE [window EXCEPT ![c][task[c].fd] = Unmap(@, 0, task[c].n)]
      /\ Types /\ task[c] \in Tasks
  BY CloseAnsweredTalk, Mine
<1>2. PICK fd \in Fd, n \in 0 .. MaxSize : fd = task[c].fd /\ n = task[c].n
  BY <1>1, TaskTypes
<1>3. ~ Failed(c) /\ LoopSound(c) /\ PagesSound(c) /\ n = Filefd(c, fd).size
  BY <1>1, <1>2 DEF EntryInv, PageInv, LoopSound, Failed, Through
<1>4. /\ fdtab'[c][fd] = None /\ \A d \in Fd : d # fd => fdtab'[c][d] = fdtab[c][d]
  BY <1>1, <1>2 DEF Types
<1>5. window' = [window EXCEPT ![c][fd] = Unmap(window[c][fd], 0, n)]
  BY <1>1, <1>2, <1>3 DEF Types, Windows
<1>6. /\ window'[c][fd] = Unmap(window[c][fd], 0, n)
      /\ \A d \in Fd : d # fd => window'[c][d] = window[c][d]
  BY <1>1, <1>5 DEF Types, Windows
<1>7. \A k \in Page : window'[c][fd][k] = None
  <2> SUFFICES ASSUME NEW k \in Page PROVE Unmap(window[c][fd], 0, n)[k] = None
    BY <1>6
  <2>1. window[c][fd] \in [Page -> File \cup {None}]
    BY <1>1 DEF Types, Windows
  <2>2. Unmap(window[c][fd], 0, n)[k] = IF k \in 0 .. n - 1 THEN None ELSE window[c][fd][k]
    BY <2>1, UnmapType
  <2>3. window[c][fd][k] # None => k < n
    BY <1>1, <1>3 DEF PagesSound
  <2>4. k \in Nat /\ n \in Nat
    BY ConstantFacts
  <2>5. k < n => k \in 0 .. n - 1
    BY <2>4
  <2> QED BY <2>2, <2>3, <2>5
<1>8. PagesSound(c)'
  <2> SUFFICES ASSUME NEW d \in Fd, NEW k \in Page, window'[c][d][k] # None
               PROVE  /\ Mapped(c, d)' /\ window'[c][d][k] = fdtab'[c][d].file
                      /\ k < Filefd(c, d)'.size
    BY DEF PagesSound, Filefd
  <2>1. d # fd
    BY <1>7
  <2>2. /\ Mapped(c, d) /\ window[c][d][k] = fdtab[c][d].file /\ k < Filefd(c, d).size
    BY <1>1, <1>3, <1>6, <2>1 DEF PagesSound
  <2> QED BY <1>1, <1>4, <1>6, <2>1, <2>2 DEF Mapped, Filefd
<1>9. LoopSound(c)'
  <2>1. task'[c].do \in Quiet
    BY <1>1, TaskTypes DEF After, Idle, Quiet
  <2> QED BY <2>1 DEF LoopSound, Quiet, Through
<1> QED BY <1>1, <1>4, <1>8, <1>9, ClientPages

\* dup maps at its target what its source has, over nothing.
LEMMA DupMapPages ==
    ASSUME TalkInv, EntryInv, PageInv, NEW c \in Client, DupMap(c)
    PROVE  PageInv'
<1>1. /\ ClientFrame(c) /\ task'[c] = Idle /\ task[c].do = "dup"
      /\ task[c].fd \in Fd /\ task[c].old \in Fd /\ filefd' = filefd
      /\ fdtab' = [fdtab EXCEPT ![c][task[c].fd] = fdtab[c][task[c].old]]
      /\ window' = [window EXCEPT ![c][task[c].fd] =
                       [i \in Page |-> IF window[c][task[c].old][i] = None THEN @[i]
                                      ELSE window[c][task[c].old][i]]]
  BY DupMapTalk
<1>2. Types /\ RequestSound(c) /\ PagesSound(c)
  BY Mine DEF EntryInv, PageInv
<1>3. PICK fd \in Fd, old \in Fd : fd = task[c].fd /\ old = task[c].old
  BY <1>1
<1>4. /\ fdtab'[c][fd] = fdtab[c][old] /\ \A d \in Fd : d # fd => fdtab'[c][d] = fdtab[c][d]
  BY <1>1, <1>2, <1>3 DEF Types
<1>5. Mapped(c, old) /\ old # fd /\ "dup" \in Calls[c] /\ ~ Mapped(c, fd)
  BY <1>1, <1>2, <1>3 DEF RequestSound
<1>6. window' = [window EXCEPT ![c][fd] =
                   [i \in Page |-> IF window[c][old][i] = None THEN window[c][fd][i]
                                  ELSE window[c][old][i]]]
  BY <1>1, <1>2, <1>3 DEF Types, Windows
<1>7. /\ \A k \in Page : window'[c][fd][k] = IF window[c][old][k] = None THEN window[c][fd][k]
                                            ELSE window[c][old][k]
      /\ \A d \in Fd : d # fd => window'[c][d] = window[c][d]
  BY <1>2, <1>6 DEF Types, Windows
<1>8. \A k \in Page : window[c][fd][k] = None
  BY <1>2, <1>5 DEF PagesSound
<1>9. \A d \in Fd, k \in Page : window[c][d][k] # None =>
         Mapped(c, d) /\ window[c][d][k] = fdtab[c][d].file /\ k < Filefd(c, d).size
  BY <1>1, <1>2 DEF PagesSound
<1>10. PagesSound(c)'
  <2> SUFFICES ASSUME NEW d \in Fd, NEW k \in Page, window'[c][d][k] # None
               PROVE  /\ Mapped(c, d)' /\ window'[c][d][k] = fdtab'[c][d].file
                      /\ k < Filefd(c, d)'.size
    BY DEF PagesSound, Filefd
  <2>1. CASE d = fd
    <3>1. window[c][old][k] # None /\ window'[c][fd][k] = window[c][old][k]
      BY <1>7, <1>8, <2>1
    <3>2. /\ Mapped(c, old) /\ window[c][old][k] = fdtab[c][old].file
          /\ k < Filefd(c, old).size
      BY <1>9, <3>1
    <3>3. fdtab'[c][d] = fdtab[c][old] /\ window'[c][d][k] = window[c][old][k]
      BY <1>4, <2>1, <3>1
    <3> QED BY <1>1, <3>2, <3>3 DEF Mapped, Filefd
  <2>2. CASE d # fd
    <3>1. fdtab'[c][d] = fdtab[c][d] /\ window'[c][d] = window[c][d]
      BY <1>4, <1>7, <2>2
    <3>2. Mapped(c, d) /\ window[c][d][k] = fdtab[c][d].file /\ k < Filefd(c, d).size
      BY <1>9, <3>1
    <3> QED BY <1>1, <3>1, <3>2 DEF Mapped, Filefd
  <2> QED BY <2>1, <2>2
<1>11. LoopSound(c)'
  BY <1>1, ConstantFacts DEF LoopSound, Through
<1>12. \A d \in Fd : fdtab'[c][d] = None \/ \E z \in Fd : fdtab'[c][d] = fdtab[c][z]
  BY <1>4
<1> QED BY <1>1, <1>5, <1>10, <1>11, <1>12, ClientPages

\* dup takes back what it has mapped, behind a descriptor that had nothing.
LEMMA DupFailsPages ==
    ASSUME TalkInv, EntryInv, PageInv, NEW c \in Client, DupFails(c)
    PROVE  PageInv'
<1>1. /\ ClientFrame(c) /\ task'[c] = Idle /\ task[c].fd \in Fd /\ filefd' = filefd /\ Types
      /\ fdtab' = [fdtab EXCEPT ![c][task[c].fd] = None]
      /\ window' = [window EXCEPT ![c][task[c].fd] = [i \in Page |-> None]]
      /\ task[c].do = "dup" /\ PagesSound(c)
  BY DupFailsTalk, Mine DEF PageInv
<1>2. PICK fd \in Fd : fd = task[c].fd
  BY <1>1
<1>3. /\ fdtab'[c][fd] = None /\ \A d \in Fd : d # fd => fdtab'[c][d] = fdtab[c][d]
  BY <1>1, <1>2 DEF Types
<1>4. /\ window'[c][fd] = [i \in Page |-> None]
      /\ \A d \in Fd : d # fd => window'[c][d] = window[c][d]
  BY <1>1, <1>2 DEF Types, Windows
<1>5. PagesSound(c)'
  <2> SUFFICES ASSUME NEW d \in Fd, NEW k \in Page, window'[c][d][k] # None
               PROVE  /\ Mapped(c, d)' /\ window'[c][d][k] = fdtab'[c][d].file
                      /\ k < Filefd(c, d)'.size
    BY DEF PagesSound, Filefd
  <2>1. d # fd
    BY <1>4
  <2>2. /\ Mapped(c, d) /\ window[c][d][k] = fdtab[c][d].file /\ k < Filefd(c, d).size
    BY <1>1, <1>4, <2>1 DEF PagesSound
  <2> QED BY <1>1, <1>3, <1>4, <2>1, <2>2 DEF Mapped, Filefd
<1>6. LoopSound(c)'
  BY <1>1, ConstantFacts DEF LoopSound, Through
<1>7. \A d \in Fd : fdtab'[c][d] = None \/ fdtab'[c][d] = fdtab[c][d]
  BY <1>3
<1> QED BY <1>1, <1>3, <1>5, <1>6, <1>7, ClientPages

\* ftruncate, when the server has answered: what is behind the end is unmapped.
LEMMA ResizeAnsweredPages ==
    ASSUME TalkInv, EntryInv, PageInv, NEW c \in Client, ResizeAnswered(c)
    PROVE  PageInv'
<1>1. /\ ClientFrame(c) /\ task[c].do = "resize" /\ task[c].fd \in Fd
      /\ task[c].n \in 0 .. MaxSize /\ task[c].old \in 0 .. MaxSize
      /\ filefd' = filefd /\ fdtab' = fdtab
      /\ window' = IF Failed(c) THEN window
                   ELSE [window EXCEPT ![c][task[c].fd] = Unmap(@, task[c].n, task[c].old)]
      /\ \/ task'[c] = Idle
         \/ \E t \in Tasks : /\ task'[c] = t /\ t.do = "extend" /\ t.fd = task[c].fd
                             /\ t.id = task[c].id /\ t.n = task[c].n /\ t.then = task[c].then
                             /\ t.old = task[c].old /\ t.i < t.n
  BY ResizeAnsweredTalk
<1>2. PICK fd \in Fd, n \in 0 .. MaxSize, old \in 0 .. MaxSize :
         fd = task[c].fd /\ n = task[c].n /\ old = task[c].old
  BY <1>1
<1>3. /\ Types /\ PagesSound(c) /\ LoopSound(c) /\ ~ Failed(c)
      /\ n = Filefd(c, fd).size /\ "ftruncate" \in Calls[c]
  BY <1>1, <1>2, Mine DEF EntryInv, PageInv, LoopSound, Failed, Through
<1>4. window' = [window EXCEPT ![c][fd] = Unmap(window[c][fd], n, old)]
  BY <1>1, <1>2, <1>3 DEF Types, Windows
<1>5. /\ window'[c][fd] = Unmap(window[c][fd], n, old)
      /\ \A d \in Fd : d # fd => window'[c][d] = window[c][d]
  BY <1>3, <1>4 DEF Types, Windows
<1>6. \A k \in Page : window'[c][fd][k] = IF k \in n .. old - 1 THEN None ELSE window[c][fd][k]
  <2>1. window[c][fd] \in [Page -> File \cup {None}]
    BY <1>3 DEF Types, Windows
  <2> QED BY <1>5, <2>1, UnmapType
<1>7. PagesSound(c)'
  <2> SUFFICES ASSUME NEW d \in Fd, NEW k \in Page, window'[c][d][k] # None
               PROVE  /\ Mapped(c, d) /\ window'[c][d][k] = fdtab[c][d].file
                      /\ k < Filefd(c, d).size
    BY <1>1 DEF PagesSound, Filefd, Mapped
  <2>1. CASE d = fd
    <3>1. /\ k \notin n .. old - 1 /\ window'[c][fd][k] = window[c][fd][k]
          /\ window[c][fd][k] # None
      BY <1>6, <2>1
    <3>2. /\ Mapped(c, fd) /\ window[c][fd][k] = fdtab[c][fd].file /\ (k < n \/ k < old)
      BY <1>2, <1>3, <3>1 DEF PagesSound
    <3>3. k \in Nat /\ n \in Nat /\ old \in Nat
      BY ConstantFacts
    <3>4. k < n
      BY <3>1, <3>2, <3>3
    <3> QED BY <1>3, <2>1, <3>1, <3>2, <3>4
  <2>2. CASE d # fd
    BY <1>2, <1>3, <1>5, <2>2 DEF PagesSound
  <2> QED BY <2>1, <2>2
<1>8. LoopSound(c)'
  <2>1. CASE task'[c] = Idle
    BY <2>1, ConstantFacts DEF LoopSound, Through
  <2>2. CASE /\ task'[c].do = "extend" /\ task'[c].fd = fd /\ task'[c].n = n
             /\ task'[c].i < n
    BY <1>1, <1>3, <2>2 DEF LoopSound, Filefd
  <2> QED BY <1>1, <1>2, <2>1, <2>2
<1> QED BY <1>1, <1>7, <1>8, ClientPages

\* ftruncate changes the size in its descriptor, which no other shares.
LEMMA FtruncatePages ==
    ASSUME DupOrTruncate, TalkInv, EntryInv, PageInv, NEW c \in Client, NEW d \in Fd, NEW n \in Sizes,
           Ftruncate(c, d, n)
    PROVE  PageInv'
<1>1. /\ ClientFrame(c) /\ Mapped(c, d) /\ "ftruncate" \in Calls[c]
      /\ task[c].do = "idle" /\ fdtab' = fdtab /\ window' = window
      /\ \A o \in Slot : filefd'[o].size = IF o = fdtab[c][d].slot THEN n ELSE filefd[o].size
      /\ n \in 0 .. MaxSize
      /\ \E t \in Tasks : /\ task'[c] = t /\ t.do = "resize" /\ t.fd = d
                          /\ t.id = Filefd(c, d).id /\ t.n = n /\ t.old = Filefd(c, d).size
                          /\ t.then = "idle"
  BY FtruncateTalk
<1>2. /\ task'[c].do = "resize" /\ task'[c].fd = d /\ task'[c].n = n
      /\ task'[c].old = Filefd(c, d).size
  BY <1>1
<1>3. Types /\ PagesSound(c) /\ "dup" \notin Calls[c]
  BY <1>1, Mine DEF PageInv, DupOrTruncate
<1>4. \A z \in Fd : Mapped(c, z) => fdtab[c][z].slot \in Slot
  BY <1>3, MappedEntry
<1>5. \A z \in Fd : Mapped(c, z) =>
         Filefd(c, z)'.size = IF z = d THEN n ELSE Filefd(c, z).size
  <2> SUFFICES ASSUME NEW z \in Fd, Mapped(c, z)
               PROVE  Filefd(c, z)'.size = IF z = d THEN n ELSE Filefd(c, z).size
    OBVIOUS
  <2>1. PICK o \in Slot : o = fdtab[c][z].slot
    BY <1>4
  <2>2. z # d => o # fdtab[c][d].slot
    BY <1>1, <1>3, <2>1 DEF PageInv, SharedByDup
  <2>3. filefd'[o].size = IF z = d THEN n ELSE filefd[o].size
    BY <1>1, <2>1, <2>2
  <2> QED BY <1>1, <2>1, <2>3 DEF Filefd
<1>6. PagesSound(c)'
  <2> SUFFICES ASSUME NEW z \in Fd, NEW k \in Page, window[c][z][k] # None
               PROVE  /\ Mapped(c, z) /\ window[c][z][k] = fdtab[c][z].file
                      /\ \/ k < Filefd(c, z)'.size
                         \/ z = d /\ k < Filefd(c, d).size
    BY <1>1, <1>2 DEF PagesSound, Filefd, Mapped
  <2>1. Mapped(c, z) /\ window[c][z][k] = fdtab[c][z].file /\ k < Filefd(c, z).size
    BY <1>1, <1>3 DEF PagesSound
  <2> QED BY <1>5, <2>1
<1>7. Filefd(c, d)'.size = n
  BY <1>1, <1>5
<1>8. LoopSound(c)'
  BY <1>1, <1>2, <1>7 DEF LoopSound, Filefd
<1> QED BY <1>1, <1>6, <1>8, ClientPages

\* dup of a descriptor to one that is not open, _exit and its end
LEMMA QuietPages ==
    ASSUME TalkInv, EntryInv, PageInv, NEW c \in Client, ClientFrame(c), task[c].do \in Quiet,
           filefd' = filefd, fdtab' = fdtab, task'[c].do \in Quiet,
           window' = window \/ window' = [window EXCEPT ![c] = [d \in Fd |-> [i \in Page |-> None]]]
    PROVE  PageInv'
<1>1. Types /\ PagesSound(c)
  BY Mine DEF PageInv
<1>2. \/ window'[c] = window[c]
      \/ window'[c] = [d \in Fd |-> [i \in Page |-> None]]
  BY <1>1 DEF Types
<1>3. \A d \in Fd, k \in Page : window'[c][d][k] # None => window'[c][d][k] = window[c][d][k]
  BY <1>2
<1>4. PagesSound(c)'
  <2> SUFFICES ASSUME NEW d \in Fd, NEW k \in Page, window'[c][d][k] # None
               PROVE  /\ Mapped(c, d) /\ window'[c][d][k] = fdtab[c][d].file
                      /\ k < Filefd(c, d).size
    BY DEF PagesSound, Mapped, Filefd
  <2> QED BY <1>1, <1>3 DEF PagesSound, Quiet
<1>5. LoopSound(c)'
  BY DEF LoopSound, Quiet, Through
<1> QED BY <1>4, <1>5, ClientPages

\* At first no page is mapped behind a descriptor.
LEMMA PageInit == Init => PageInv
<1> SUFFICES ASSUME Init PROVE PageInv
  OBVIOUS
<1>1. \A c \in Client : task[c].do = "idle" /\ \A d \in Fd : ~ Mapped(c, d)
  BY DEF Init, Mapped, Idle
<1>2. \A c \in Client, d \in Fd, i \in Page : window[c][d][i] = None
  BY DEF Init
<1> QED BY <1>1, <1>2 DEF PageInv, SharedByDup, PagesSound, LoopSound, Through

\* Every step keeps the pages behind descriptors sound.
LEMMA PageNext == DupOrTruncate /\ TalkInv /\ EntryInv /\ PageInv /\ [Next]_vars => PageInv'
<1> SUFFICES ASSUME DupOrTruncate, TalkInv, EntryInv, PageInv, [Next]_vars PROVE PageInv'
  OBVIOUS
<1>1. CASE Serve
  BY <1>1, ServeStep, ServerPages, IpcReplyPages
<1>2. ASSUME NEW c \in Client, Proceed(c) \/ Call(c) PROVE PageInv'
  <2>1. CASE IpcSend(c) \/ IpcRecv(c)
    BY <2>1, MessagePages
  <2>2. CASE Continues(c)
    BY <2>2, ContinuesPages
  <2>3. CASE CloseAnswered(c) \/ DupMap(c) \/ DupFails(c) \/ ResizeAnswered(c)
    BY <2>3, CloseAnsweredPages, DupMapPages, DupFailsPages, ResizeAnsweredPages
  <2>4. CASE \E d \in Fd, n \in Sizes : Ftruncate(c, d, n)
    BY <2>4, FtruncatePages
  <2>5. CASE \E d, to \in Fd : Dup(c, d, to) /\ ~ Mapped(c, to)
    <3>1. PICK d \in Fd, to \in Fd : Dup(c, d, to) /\ ~ Mapped(c, to)
      BY <2>5
    <3>2. /\ ClientFrame(c) /\ task[c].do = "idle"
          /\ \E t \in Tasks : /\ task'[c] = t /\ t.do = "dup" /\ t.fd = to /\ t.old = d
                              /\ t.then = "idle"
      BY <3>1, DupTalk
    <3>3. filefd' = filefd /\ fdtab' = fdtab /\ window' = window
      BY <3>1 DEF Dup, kernel
    <3> QED BY <3>2, <3>3, QuietPages DEF Quiet
  <2>6. CASE Exit(c) \/ (CloseAll(c) /\ ~ \E d \in Fd : Mapped(c, d))
    <3>1. /\ ClientFrame(c) /\ filefd' = filefd /\ fdtab' = fdtab /\ task[c].do \in Quiet
          /\ window' = window \/ window' = [window EXCEPT ![c] = [d \in Fd |-> [i \in Page |-> None]]]
          /\ \E t \in Tasks : task'[c] = t /\ t.do \in {"exit", "dead"} /\ t.then = "idle"
      BY <2>6, ExitTalk
    <3>2. task'[c].do \in Quiet
      BY <3>1 DEF Quiet
    <3> QED BY <3>1, <3>2, QuietPages
  <2> QED BY <1>2, <2>1, <2>2, <2>3, <2>4, <2>5, <2>6, ClientSteps
<1>3. CASE UNCHANGED vars
  BY <1>3 DEF vars, PageInv, SharedByDup, PagesSound, LoopSound, Mapped, Filefd
<1> QED
  <2>1. CASE Next
    BY <1>1, <1>2, <2>1 DEF Next, Awake
  <2> QED BY <1>3, <2>1

-----------------------------------------------------------------------------
(* Theorems about entries and pages                                        *)

\* DescriptorsSound, the reference counts of open_alloc and open_lookup: the
\* entry of a descriptor is not given to another open while it is mapped.
THEOREM DescriptorsKept == EnoughEntries /\ EnoughPages => (Spec => []DescriptorsSound)
<1>1. EntryInv => DescriptorsSound
  BY DEF EntryInv
<1> QED BY <1>1, EntriesSound, PTL

\* RequestsReachFile, open_lookup of an id read before the request was sent: it
\* is still the id of the entry, and the entry still that of the file.
THEOREM RequestsKnown == EnoughEntries /\ EnoughPages => (Spec => []RequestsReachFile)
<1>1. TalkInv /\ EntryInv => RequestsReachFile
  BY RequestKnown DEF RequestsReachFile, Request, Req, Through
<1> QED BY <1>1, EntriesSound, PTL

\* EntriesSuffice, the loop of open_alloc: with as many entries as descriptors
\* it never runs out of them, as closed descriptors give theirs back.
THEOREM EntriesFound == EnoughEntries /\ EnoughPages => (Spec => []EntriesSuffice)
<1>1. EntryInv => EntriesSuffice
  BY DEF EntryInv, AnswerSound, EntriesSuffice
<1> QED BY <1>1, EntriesSound, PTL

\* WindowSound, fd2data of user/fd.c: what is mapped behind a descriptor are
\* pages of its file, when programs do not use both dup and ftruncate.
THEOREM WindowsSound == EnoughEntries /\ EnoughPages /\ DupOrTruncate => (Spec => []WindowSound)
<1> SUFFICES ASSUME EnoughEntries, EnoughPages, DupOrTruncate PROVE Spec => []WindowSound
  OBVIOUS
<1>1. Init => TalkInv /\ EntryInv /\ PageInv
  BY TalkInit, EntryInit, PageInit
<1>2. TalkInv /\ EntryInv /\ PageInv /\ [Next]_vars => (TalkInv /\ EntryInv /\ PageInv)'
  BY TalkNext, EntryNext, PageNext
<1>3. PageInv => WindowSound
  BY DEF PageInv, PagesSound, WindowSound
<1> QED BY <1>1, <1>2, <1>3, PTL DEF Spec
=============================================================================
