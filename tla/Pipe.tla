-------------------------------- MODULE Pipe --------------------------------
(***************************************************************************)
(* Pipes and console descriptors: pipe() of user/pipe.c, opencons() of     *)
(* user/console.c, and close, dup and close_all of user/fd.c for them, in  *)
(* programs that fork.  (FsServ has the descriptors of files.)             *)
(*                                                                         *)
(* A descriptor is a page, and an end of a pipe has the page of the pipe   *)
(* mapped behind it as well.  How many descriptors an end has is known by  *)
(* nobody but the kernel, which counts the mappings of the two pages.  A   *)
(* step is one system call, with what the program does on its own around   *)
(* it, and the calls of one that only give up pages nobody else has.       *)
(***************************************************************************)
EXTENDS Integers, FiniteSets

CONSTANTS
    Env,    \* environments
    First,  \* the one that is there at the start
    Page,   \* pages of memory
    MAXFD,  \* descriptors of an environment
    None

Fd == 0 .. MAXFD - 1

ASSUME PipeAssumption ==
    /\ First \in Env /\ IsFiniteSet(Env) /\ IsFiniteSet(Page)
    /\ MAXFD \in Nat /\ MAXFD > 1 /\ None \notin Page
    /\ None \notin [dev : {"cons", "reader", "writer"}, pipe : Page \cup {None}]

VARIABLES
    alive,      \* the environments
    fd_page,    \* of each environment: the page of each descriptor, or None
    data_page,  \* ... and the first page behind it
    content,    \* of each page: the descriptor in it, with its device, or None;
                \* an end of a pipe also says which: what the mappings show
    task        \* of each environment: the library call it is in

vars == <<alive, fd_page, data_page, content, task>>

Idle == [do |-> "idle", fd |-> 0, other |-> 0, then |-> "idle"]
Cons == [dev |-> "cons", pipe |-> None]
End(e, p) == [dev |-> e, pipe |-> p]
Unmapped == [d \in Fd |-> None]

Init ==
    /\ alive = {First}
    /\ fd_page = [e \in Env |-> Unmapped]
    /\ data_page = [e \in Env |-> Unmapped]
    /\ content = [p \in Page |-> None]
    /\ task = [e \in Env |-> Idle]
-----------------------------------------------------------------------------
(* The system calls                                                        *)

\* The mappings of p, as sys_va_ref counts them.
PageRef(p) ==
      Cardinality({m \in Env \X Fd : fd_page[m[1]][m[2]] = p})
    + Cardinality({m \in Env \X Fd : data_page[m[1]][m[2]] = p})

\* A page for sys_mem_alloc, filled with zeroes: no descriptor.  Any call that
\* maps a page may fail, for want of a page for the table.
Fresh(p) == PageRef(p) = 0

\* What was in pages nobody has any more does not matter.
Keep == content' = [p \in Page |-> IF PageRef(p)' = 0 THEN None ELSE content[p]]

Does(e, what) == e \in alive /\ task[e].do = what
Goes(e, t) == task' = [task EXCEPT ![e] = t]
FdIs(e, d, p) == fd_page' = [fd_page EXCEPT ![e][d] = p]
DataIs(e, d, p) == data_page' = [data_page EXCEPT ![e][d] = p]
Holds(p, c) == content' = [content EXCEPT ![p] = c]

\* fd_alloc: the smallest d that is not mapped; the last one is never found.
FdAlloc(e, d) ==
    /\ d < MAXFD - 1 /\ fd_page[e][d] = None
    /\ \A x \in Fd : x < d => fd_page[e][x] # None

\* What close finds: a descriptor, of a device it knows.
Open(e, d) == fd_page[e][d] # None /\ content[fd_page[e][d]] # None
-----------------------------------------------------------------------------
(* opencons and pipe                                                       *)

OpenCons(e, d, p) ==
    /\ Does(e, "idle")
    /\ FdAlloc(e, d) /\ Fresh(p)
    /\ FdIs(e, d, p) /\ Holds(p, Cons)
    /\ UNCHANGED <<alive, data_page, task>>

\* pipe(): the page of the first descriptor
PipeFd0(e, d, p) ==
    /\ Does(e, "idle")
    /\ FdAlloc(e, d) /\ Fresh(p)
    /\ FdIs(e, d, p) /\ UNCHANGED content
    /\ Goes(e, [Idle EXCEPT !.do = "pipe_fd1", !.fd = d])
    /\ UNCHANGED <<alive, data_page>>

\* of the second; err1 unmaps the first
PipeFd1(e, p) ==
    /\ Does(e, "pipe_fd1")
    /\ \/ \E d \in Fd :
             /\ FdAlloc(e, d) /\ Fresh(p)
             /\ FdIs(e, d, p)
             /\ Goes(e, [task[e] EXCEPT !.do = "pipe_data", !.other = d])
       \/ FdIs(e, task[e].fd, None) /\ Goes(e, Idle)
    /\ UNCHANGED <<alive, data_page, content>>

\* Both descriptors are given up.
NoFds(e) ==
    fd_page' = [fd_page EXCEPT ![e] = [d \in Fd |->
                   IF d \in {task[e].fd, task[e].other} THEN None ELSE @[d]]]

\* of the pipe, behind the first; err2 unmaps both descriptors
PipeData(e, p) ==
    /\ Does(e, "pipe_data")
    /\ \/ /\ Fresh(p) /\ DataIs(e, task[e].fd, p)
          /\ Goes(e, [task[e] EXCEPT !.do = "pipe_map"])
          /\ UNCHANGED fd_page
       \/ NoFds(e) /\ Goes(e, Idle) /\ UNCHANGED data_page
    /\ UNCHANGED <<alive, content>>

\* Mutant: the last error leaves through err2.
PipeMap_Err2(e) ==
    /\ Does(e, "pipe_map")
    /\ \/ LET p == data_page[e][task[e].fd]
          IN  /\ DataIs(e, task[e].other, p)
              /\ content' = [content EXCEPT ![fd_page[e][task[e].fd]] = End("reader", p),
                                            ![fd_page[e][task[e].other]] = End("writer", p)]
              /\ UNCHANGED fd_page
       \/ NoFds(e) /\ UNCHANGED <<data_page, content>>
    /\ Goes(e, Idle)
    /\ UNCHANGED alive

\* and behind the second, which makes them ends of a pipe; err3 unmaps all
PipeMap(e) ==
    /\ Does(e, "pipe_map")
    /\ \/ LET p == data_page[e][task[e].fd]
          IN  /\ DataIs(e, task[e].other, p)
              /\ content' = [content EXCEPT ![fd_page[e][task[e].fd]] = End("reader", p),
                                            ![fd_page[e][task[e].other]] = End("writer", p)]
              /\ UNCHANGED fd_page
       \/ NoFds(e) /\ DataIs(e, task[e].fd, None) /\ UNCHANGED content
    /\ Goes(e, Idle)
    /\ UNCHANGED alive
-----------------------------------------------------------------------------
(* close, dup, close_all, fork and the end of an environment               *)

\* close(d) up to dev_close, in a call that goes on with t: pipeclose unmaps
\* the page of the pipe, cons_close does nothing.
DevClose(e, d, t) ==
    /\ data_page' = IF content[fd_page[e][d]].dev = "cons" THEN data_page
                    ELSE [data_page EXCEPT ![e][d] = None]
    /\ Goes(e, [t EXCEPT !.do = "close", !.fd = d])
    /\ UNCHANGED <<alive, fd_page, content>>

Close(e, d) == Does(e, "idle") /\ Open(e, d) /\ DevClose(e, d, Idle)

\* fd_close, the second half of close
FdClose(e) ==
    /\ Does(e, "close")
    /\ FdIs(e, task[e].fd, None)
    /\ Goes(e, [task[e] EXCEPT !.do = task[e].then,
                               !.fd = IF task[e].then = "idle" THEN 0 ELSE @])
    /\ UNCHANGED <<alive, data_page>> /\ Keep

\* dup(from, to) closes to, if it is open; its error is ignored.
Dup(e, from, to) ==
    LET rest == [do |-> "dup_data", fd |-> to, other |-> from, then |-> "dup_data"]
    IN  /\ Does(e, "idle") /\ fd_page[e][from] # None
        /\ IF Open(e, to) THEN DevClose(e, to, rest)
           ELSE Goes(e, rest) /\ UNCHANGED <<alive, fd_page, data_page, content>>

\* The label err of dup
DupFails(e) == FdIs(e, task[e].fd, None) /\ DataIs(e, task[e].fd, None) /\ Goes(e, Idle)

\* Mutant: the page behind the descriptor is left to the first access.
DupData_FdOnly(e) ==
    /\ Does(e, "dup_data")
    /\ Goes(e, [task[e] EXCEPT !.do = "dup_fd"])
    /\ UNCHANGED <<alive, fd_page, data_page, content>>

\* It maps the page behind the old descriptor behind the new one
DupData(e) ==
    /\ Does(e, "dup_data")
    /\ \/ /\ IF data_page[e][task[e].other] = None THEN UNCHANGED data_page
             ELSE DataIs(e, task[e].fd, data_page[e][task[e].other])
          /\ Goes(e, [task[e] EXCEPT !.do = "dup_fd"])
          /\ UNCHANGED fd_page
       \/ DupFails(e)
    /\ UNCHANGED <<alive, content>>

\* and then the descriptor, which is gone after dup(i, i).
DupFd(e) ==
    LET old == fd_page[e][task[e].other]
    IN  /\ Does(e, "dup_fd")
        /\ \/ /\ old # None /\ FdIs(e, task[e].fd, old)
              /\ Goes(e, Idle) /\ UNCHANGED data_page
           \/ DupFails(e)
        /\ UNCHANGED <<alive, content>>

\* _exit: close_all, then the environment destroys itself.
Exit(e) ==
    LET open == {d \in Fd : Open(e, d)}
    IN  /\ Does(e, "idle") \/ Does(e, "exit")
        /\ open # {}
        /\ DevClose(e, CHOOSE d \in open : \A x \in open : d <= x,
                    [Idle EXCEPT !.then = "exit"])

\* env_free: after close_all, or wherever the parent destroys it
EnvFree(e) ==
    /\ e \in alive /\ alive' = alive \ {e}
    /\ fd_page' = [fd_page EXCEPT ![e] = Unmapped]
    /\ data_page' = [data_page EXCEPT ![e] = Unmapped]
    /\ Goes(e, Idle) /\ Keep

\* fork: the child has every page of its parent, which is between two calls.
Fork(e, c) ==
    /\ Does(e, "idle")
    /\ c \notin alive /\ alive' = alive \cup {c}
    /\ fd_page' = [fd_page EXCEPT ![c] = fd_page[e]]
    /\ data_page' = [data_page EXCEPT ![c] = data_page[e]]
    /\ UNCHANGED <<content, task>>

Next ==
    \E e \in Env :
        \/ PipeMap(e) \/ FdClose(e) \/ DupData(e) \/ DupFd(e) \/ Exit(e) \/ EnvFree(e)
        \/ \E p \in Page :
             \/ PipeFd1(e, p) \/ PipeData(e, p)
             \/ \E d \in Fd : OpenCons(e, d, p) \/ PipeFd0(e, d, p)
        \/ \E d \in Fd :
             \/ Close(e, d)
             \/ \E to \in Fd : Dup(e, d, to)
        \/ \E c \in Env : Fork(e, c)

Spec == Init /\ [][Next]_vars
-----------------------------------------------------------------------------
TypeOK ==
    /\ alive \subseteq Env
    /\ fd_page \in [Env -> [Fd -> Page \cup {None}]]
    /\ data_page \in [Env -> [Fd -> Page \cup {None}]]
    /\ content \in [Page -> {None, Cons} \cup {End(e, p) : e \in {"reader", "writer"}, p \in Page}]
    /\ LET calls == {"idle", "pipe_fd1", "pipe_data", "pipe_map", "close", "dup_data",
                     "dup_fd", "exit"}
       IN  task \in [Env -> [do : calls, fd : Fd, other : Fd, then : calls]]

\* Between two calls a program has whole descriptors only, whatever failed in
\* them: an end of a pipe with its pipe, a console without a page, and
\* nothing behind a descriptor that is closed.  (pipe() with its four labels
\* and dup() give up what they have got.)
DescriptorsWhole ==
    \A e \in alive, d \in Fd : task[e].do = "idle" =>
        IF fd_page[e][d] = None THEN data_page[e][d] = None
        ELSE /\ content[fd_page[e][d]] # None
             /\ data_page[e][d] = content[fd_page[e][d]].pipe

\* The environments that have unmapped the pipe of a descriptor f, and not
\* the descriptor.
Closing(f) == {e \in alive : Does(e, "close") /\ fd_page[e][task[e].fd] = f}
OtherEnd(f) == {g \in Page : /\ content[g] # None /\ content[g].pipe = content[f].pipe
                             /\ content[g].dev # content[f].dev}

\* "pageref(p) is the total number of readers and writers" (the comment of
\* _pipeisclosed, which is not written yet).  An end that has as many mappings
\* as its pipe has lost the other one, but for descriptors of its own that are
\* inside close: pipeclose has unmapped the pipe already, so that the rest of
\* them look like all there are.  And when nobody is inside a call, an end
\* that has lost the other one has as many.
LooksClosed ==
    \A f \in Page :
        content[f] \notin {None, Cons} /\ PageRef(f) > 0 =>
        LET same == PageRef(f) = PageRef(content[f].pipe)
        IN  /\ same => \/ Closing(f) # {}
                       \/ \A g \in OtherEnd(f) : PageRef(g) = Cardinality(Closing(g))
            /\ /\ \A e \in alive : Does(e, "idle")
               /\ \A g \in OtherEnd(f) : PageRef(g) = 0
               => same
=============================================================================
