--------------------------------- MODULE Ipc ---------------------------------
(***************************************************************************)
(* Messages between arbitrary programs, and the trap frames they travel    *)
(* in: sys_ipc_recv and sys_ipc_can_send of lib/svc.c, the loops of        *)
(* user/ipc.c around them, fork() and exit, and what the kernel saves and  *)
(* restores on every entry and exit (lib/svc_entry.S, lib/irq_entry.S,     *)
(* lib/env_pop_tf.S, env_run, lib/irq.c).                                  *)
(*                                                                         *)
(* The register r0 of a saved frame is where a receiver finds the value of *)
(* its message and a child of fork() its 0.  Which environment runs next   *)
(* is left open (EnvSched has the run list), and so is the free slot a new *)
(* environment gets.  What the kernel leaves behind in a frame it has      *)
(* restored or given up counts as garbage, so that a second use would show.*)
(***************************************************************************)
EXTENDS Integers, FiniteSets

CONSTANTS
    NENV,   \* number of slots of envs[]
    IdMod,  \* mkenvid keeps log2(IdMod) bits of its counter
    Boot,   \* how many environments armv7_init creates
    NULL,   \* no environment
    None,   \* no page, no value
    Value,  \* the values programs send
    Page,   \* the pages they send
    Peers,  \* the slots programs send to
    Calls   \* what programs do besides sending and receiving:
            \*   "fork", "exit", "yield", "mem" (map and unmap their buffer)
            \*   and "frame" (sys_set_trapframe, which no library function calls)

Env == 0 .. NENV - 1
Id == 0 .. NENV * IdMod - 1

\* Addresses: 0, where no program asks for a page on purpose, and a buffer.
Va == {"zero", "buffer"}

ASSUME IpcAssumption ==
    /\ NENV \in Nat \ {0} /\ IdMod \in Nat \ {0} /\ Boot \in 0 .. NENV
    /\ Peers \subseteq Env
    /\ Value \subseteq Nat /\ Calls \subseteq {"fork", "exit", "yield", "mem", "frame"}
    /\ NULL \notin Env /\ None \notin Env \cup Value \cup Page /\ None \notin Va
    /\ None \notin [to : Env \cup {None}, value : Value, page : Page \cup {None}]

VARIABLES
    cpu,            \* "user": curenv runs; "idle": the endless loop of armv7_init
    curenv,         \* the current environment, or NULL
    regs,           \* the registers, as an exception would save them
    env_tf,         \* of each slot: its saved frame
    kstack_tf,      \* the frame at KSTACKTOP
    env_status, env_id, env_parent_id, next_env_id,    \* as in EnvSched
    recving,        \* of each slot: env_ipc_dstva if env_ipc_recving, or None
    whom,           \* of each slot: the sender, as sys_ipc_can_send has stored it
                    \* for the receiver, until that one has looked
    pte             \* of each slot: the page at each address programs receive at

envs == <<env_status, env_id, env_parent_id, next_env_id>>
ipc == <<recving, whom>>
vars == <<cpu, curenv, regs, env_tf, kstack_tf, envs, ipc, pte>>

\* The part of a frame that matters: where its program is, what r0 returns,
\* and the arguments of the ipc_send or ipc_recv it is in.
Frame(pc, r0, to, value, va) ==
    [pc |-> pc, r0 |-> r0, to |-> to, value |-> value, va |-> va]

\* Where a program is:
\*   "run"    in code of its own
\*   "fork"   behind the first call of fork(), which returned r0
\*   "poll"   in ipc_send, before the next sys_ipc_can_send
\*   "yield"  in ipc_send, before the sys_yield
\*   "recv"   behind sys_ipc_recv, which returns r0
\*   "panic"  in the endless loop of _panic
At(pc) == Frame(pc, 0, 0, None, "zero")

Runnable(status) == {e \in Env : status[e] = "runnable"}

Init ==
    /\ cpu = "idle" /\ curenv = NULL
    /\ regs = At("idle")
    /\ kstack_tf = At("garbage")
    /\ env_tf = [e \in Env |-> At(IF e < Boot THEN "run" ELSE "garbage")]
    /\ env_status = [e \in Env |-> IF e < Boot THEN "runnable" ELSE "free"]
    /\ env_id = [e \in Env |-> IF e < Boot THEN e * IdMod + ((e + 1) % IdMod) ELSE 0]
    /\ env_parent_id = [e \in Env |-> 0]
    /\ next_env_id = Boot % IdMod
    /\ recving = [e \in Env |-> None]
    /\ whom = [e \in Env |-> NULL]
    /\ \E b \in [Env -> Page \cup {None}] :
           pte = [e \in Env |-> [va \in Va |->
                    IF va = "buffer" /\ e < Boot THEN b[e] ELSE None]]
-----------------------------------------------------------------------------
(* Entering and leaving the kernel                                         *)

\* env_run(e) when curenv is cur and the exception has saved exc: the frame
\* is kept for cur, and the frame of e is restored.
EnvRun(cur, e, exc, tf) ==
    LET saved == IF cur = NULL THEN tf ELSE [tf EXCEPT ![cur] = exc]
    IN  /\ cpu' = "user" /\ curenv' = e
        /\ env_tf' = [saved EXCEPT ![e] = At("garbage")]
        /\ regs' = saved[e]

\* sched_yield: without anybody to run, the frame at KSTACKTOP.
SchedYield(cur, exc, status, tf, idle) ==
    \/ /\ Runnable(status) = {}
       /\ cpu' = "idle" /\ curenv' = cur
       /\ env_tf' = tf /\ regs' = idle
    \/ \E e \in Runnable(status) : EnvRun(cur, e, exc, tf)

\* Mutant: the frame is saved at KSTACKTOP whoever was interrupted.
Timer_SavesAll ==
    /\ kstack_tf' = regs
    /\ SchedYield(curenv, regs, env_status, env_tf, kstack_tf')
    /\ UNCHANGED <<envs, ipc, pte>>

\* irq_handler for the timer: only the idle loop runs in supervisor mode.
Timer ==
    /\ kstack_tf' = IF cpu = "idle" THEN regs ELSE kstack_tf
    /\ SchedYield(curenv, regs, env_status, env_tf, kstack_tf')
    /\ UNCHANGED <<envs, ipc, pte>>

In(pc) == cpu = "user" /\ regs.pc = pc

\* The call returns to curenv, which goes on with frame f.
Return(f) == regs' = f /\ UNCHANGED <<cpu, curenv, kstack_tf>>

\* The call ends in sched_yield; whenever curenv runs again it has frame f.
Yield(f, status) ==
    /\ SchedYield(curenv, f, status, env_tf, kstack_tf)
    /\ UNCHANGED kstack_tf

\* sys_yield from code of the program
SysYield ==
    /\ In("run") /\ "yield" \in Calls
    /\ Yield(regs, env_status)
    /\ UNCHANGED <<envs, ipc, pte>>
-----------------------------------------------------------------------------
(* Environments and pages                                                  *)

\* Mutant: slots are counted from 1.
MkEnvId_OneBased(e, n) == (e + 1) * IdMod + n

\* As in EnvSched: the bits of an identifier.
ENVX(id) == id \div IdMod
MkEnvId(e, n) == e * IdMod + n

\* envid2env(id): the slot, when s calls, and whether there is one.
Slot(s, id) == IF id = 0 THEN s ELSE ENVX(id)
FoundBy(s, id) == env_status[Slot(s, id)] # "free" /\ id \in {0, env_id[Slot(s, id)]}
Found(id) == FoundBy(curenv, id)

\* Mutant: the child resumes with the registers its parent returns with.
ChildFrame_SameR0(id) == [At("fork") EXCEPT !.r0 = id]

\* The frame of the call in the child id of it: r0 is 0.
ChildFrame(id) == At("fork")

\* sys_env_alloc, the first call of fork(): the child gets the pages of its
\* parent.
SysEnvAlloc(c) ==
    LET n  == (next_env_id + 1) % IdMod
        id == MkEnvId(c, n)
    IN  /\ In("run") /\ "fork" \in Calls
        /\ env_status[c] = "free"
        /\ env_status' = [env_status EXCEPT ![c] = "not_runnable"]
        /\ env_id' = [env_id EXCEPT ![c] = id]
        /\ env_parent_id' = [env_parent_id EXCEPT ![c] = env_id[curenv]]
        /\ next_env_id' = n
        /\ pte' = [pte EXCEPT ![c] = pte[curenv]]
        /\ env_tf' = [env_tf EXCEPT ![c] = ChildFrame(id)]
        /\ Return([At("fork") EXCEPT !.r0 = id])
        /\ UNCHANGED ipc

\* Without a free slot the error, as an unsigned number, is not < 0, and
\* fork() panics when it tries to start a child with that identifier.
ForkFails ==
    /\ In("run") /\ "fork" \in Calls
    /\ \A c \in Env : env_status[c] # "free"
    /\ Return(At("panic"))
    /\ UNCHANGED <<env_tf, envs, ipc, pte>>

\* fork() with the result of that call: the child, or a parent whose child
\* has the identifier 0, is done; a parent starts its child.
ForkReturns ==
    /\ In("fork")
    /\ LET child == Slot(curenv, regs.r0)
           wakes == regs.r0 # 0 /\ Found(regs.r0)
       IN  /\ env_status' = IF wakes THEN [env_status EXCEPT ![child] = "runnable"]
                            ELSE env_status
           /\ Return(At(IF regs.r0 = 0 \/ wakes THEN "run" ELSE "panic"))
    /\ UNCHANGED <<env_tf, env_id, env_parent_id, next_env_id, ipc, pte>>

\* sys_env_destroy(0), the end of _exit (EnvSched has the destruction of
\* children)
SysEnvDestroy ==
    LET status == [env_status EXCEPT ![curenv] = "free"]
    IN  /\ In("run") /\ "exit" \in Calls
        /\ env_status' = status
        /\ pte' = [pte EXCEPT ![curenv] = [va \in Va |-> None]]
        /\ SchedYield(NULL, regs, status, env_tf, kstack_tf)
        /\ UNCHANGED <<kstack_tf, env_id, env_parent_id, next_env_id, ipc>>

\* sys_mem_alloc and sys_mem_unmap of the buffer
SysMem(p) ==
    /\ In("run") /\ "mem" \in Calls
    /\ pte' = [pte EXCEPT ![curenv]["buffer"] = p]
    /\ Return(regs)
    /\ UNCHANGED <<env_tf, envs, ipc>>

\* Mutant: envid2env is called without checkperm.
SysSetTrapframe_Unchecked(id) ==
    /\ In("run") /\ "frame" \in Calls
    /\ Found(id)
    /\ env_tf' = [env_tf EXCEPT ![Slot(curenv, id)] = At("run")]
    /\ Return(regs)
    /\ UNCHANGED <<envs, ipc, pte>>

\* sys_set_trapframe(id, tf), with a frame in code of the program's own: the
\* saved frame of a child, wherever it is, is replaced.  That of the caller is
\* saved again before it is used.
SysSetTrapframe(id) ==
    LET e == Slot(curenv, id)
    IN  /\ In("run") /\ "frame" \in Calls
        /\ Found(id) /\ (e = curenv \/ env_parent_id[e] = env_id[curenv])
        /\ env_tf' = [env_tf EXCEPT ![e] = At("run")]
        /\ Return(regs)
        /\ UNCHANGED <<envs, ipc, pte>>
-----------------------------------------------------------------------------
(* Messages                                                                *)

\* ipc_recv(&whom, dstva, &perm) up to the switch in sys_ipc_recv
SysIpcRecv(dstva) ==
    /\ In("run")
    /\ recving' = [recving EXCEPT ![curenv] = dstva]
    /\ env_status' = [env_status EXCEPT ![curenv] = "not_runnable"]
    /\ Yield(Frame("recv", 0, 0, None, dstva), env_status')
    /\ UNCHANGED <<env_id, env_parent_id, next_env_id, whom, pte>>

\* ... and its return: the program looks at r0, *whom and the page.
RecvReturns ==
    /\ In("recv")
    /\ whom' = [whom EXCEPT ![curenv] = NULL]
    /\ Return(At("run"))
    /\ UNCHANGED <<env_tf, envs, recving, pte>>

\* The call of ipc_send(whom, value, srcva, perm)
IpcSend(to, value, srcva) ==
    /\ In("run")
    /\ Return(Frame("poll", 0, to, value, srcva))
    /\ UNCHANGED <<env_tf, envs, ipc, pte>>

\* The result r of sys_ipc_can_send: the loop goes on with -E_IPC_NOT_RECV,
\* ends with "ok" (0), and panics with any other.
Result(r) ==
    CASE r = "ok"                -> Return(At("run"))
      [] r = "E_IPC_NOT_RECV"   -> Return([regs EXCEPT !.pc = "yield"])
      [] r = "E_INVAL"          -> Return(At("panic"))

\* Mutant: the sender is told of success before the receiver is awake.
Deliver_NoWake(t) ==
    /\ recving' = [recving EXCEPT ![t] = None]
    /\ whom' = [whom EXCEPT ![t] = env_id[curenv]]
    /\ env_tf' = [env_tf EXCEPT ![t].r0 = regs.value]
    /\ pte' = IF regs.va = "zero" THEN pte
              ELSE [pte EXCEPT ![t][recving[t]] = pte[curenv][regs.va]]
    /\ UNCHANGED envs

\* sys_ipc_can_send succeeds: the page is mapped at env_ipc_dstva, at 0 too,
\* and the value is put into the saved frame.
Deliver(t) ==
    /\ recving' = [recving EXCEPT ![t] = None]
    /\ whom' = [whom EXCEPT ![t] = env_id[curenv]]
    /\ env_tf' = [env_tf EXCEPT ![t].r0 = regs.value]
    /\ env_status' = [env_status EXCEPT ![t] = "runnable"]
    /\ pte' = IF regs.va = "zero" THEN pte
              ELSE [pte EXCEPT ![t][recving[t]] = pte[curenv][regs.va]]
    /\ UNCHANGED <<env_id, env_parent_id, next_env_id>>

\* sys_ipc_can_send.  A page that is not mapped at srcva makes it return the
\* null pointer, which ipc_send takes for success; page_insert may need a
\* page table when nothing is mapped at dstva, and fail.
SysIpcCanSend ==
    /\ In("poll")
    /\ LET t == Slot(curenv, regs.to)
           sends == Found(regs.to) /\ recving[t] # None
           page == regs.va # "zero"
           unmapped == page /\ pte[curenv][regs.va] = None
           fails(r) == Result(r) /\ UNCHANGED <<env_tf, envs, ipc, pte>>
       IN  \/ ~ Found(regs.to) /\ fails("E_INVAL")
           \/ Found(regs.to) /\ recving[t] = None /\ fails("E_IPC_NOT_RECV")
           \/ sends /\ unmapped /\ fails("ok")
           \/ /\ sends /\ page /\ ~ unmapped /\ pte[t][recving[t]] = None
              /\ fails("E_INVAL")
           \/ sends /\ ~ unmapped /\ Deliver(t) /\ Result("ok")

\* The sys_yield of ipc_send
SendYields ==
    /\ In("yield")
    /\ Yield([regs EXCEPT !.pc = "poll"], env_status)
    /\ UNCHANGED <<envs, ipc, pte>>

Next ==
    \/ Timer \/ SysYield \/ ForkReturns \/ RecvReturns \/ SysIpcCanSend \/ SendYields
    \/ SysEnvDestroy \/ ForkFails
    \/ \E e \in Env : SysEnvAlloc(e) \/ SysSetTrapframe(env_id[e])
    \/ \E p \in Page \cup {None} : SysMem(p)
    \/ \E dstva \in Va : SysIpcRecv(dstva)
    \/ \E e \in Peers, v \in Value, srcva \in Va : IpcSend(env_id[e], v, srcva)

\* An environment that is runnable stays so until it runs, and gets the CPU
\* (FairScheduler of EnvSched), again and again long enough to get on with the
\* library call it is in; in code of its own it owes nothing.
GetsCpu(e) == Timer /\ cpu' = "user" /\ curenv' = e
InLibrary(e) == curenv = e /\ (SysIpcCanSend \/ SendYields \/ RecvReturns)

Spec ==
    /\ Init /\ [][Next]_vars
    /\ \A e \in Env : WF_vars(GetsCpu(e)) /\ SF_vars(InLibrary(e))
-----------------------------------------------------------------------------
TypeOK ==
    LET pcs == {"run", "fork", "poll", "yield", "recv", "panic", "idle", "garbage"}
        frames == [pc : pcs, r0 : Id \cup Value, to : Id, value : Value \cup {None},
                   va : Va]
    IN  /\ cpu \in {"user", "idle"} /\ curenv \in Env \cup {NULL}
        /\ regs \in frames /\ env_tf \in [Env -> frames] /\ kstack_tf \in frames
        /\ env_status \in [Env -> {"free", "runnable", "not_runnable"}]
        /\ env_id \in [Env -> Id] /\ env_parent_id \in [Env -> Id]
        /\ next_env_id \in 0 .. IdMod - 1
        /\ recving \in [Env -> Va \cup {None}] /\ whom \in [Env -> Id \cup {NULL}]
        /\ pte \in [Env -> [Va -> Page \cup {None}]]

\* The frame an environment continues with.
Context(e) == IF cpu = "user" /\ curenv = e THEN regs ELSE env_tf[e]

\* load_trapframe(KSTACKTOP) never restores the frame of a program, nor one
\* that was never saved; the frame of the idle loop never becomes that of a
\* program, although env_run saves whatever was interrupted for curenv; and
\* whoever may run again has a frame of its own.  Only the last environment
\* to block loses its frame: nobody can wake it any more.
FramesSeparate ==
    /\ cpu = "idle" => regs = At("idle")
    /\ \A e \in Env : env_status[e] # "free" =>
           /\ Context(e).pc # "idle"
           /\ Context(e).pc = "garbage" => cpu = "idle" /\ Runnable(env_status) = {}

\* The comment of env_run, "save register state of curenv": an interrupt
\* changes the registers of nobody, and nobody's registers change while
\* another one runs, but r0 of a receiver when its message comes, and those of
\* a child when its own parent sets them.
ContextsKept ==
    [][\A e \in Env :
           env_status[e] # "free" /\ env_status'[e] # "free" =>
               \/ Context(e)' = Context(e)
               \/ cpu = "user" /\ curenv = e /\ ~ Timer
               \/ /\ recving[e] # None /\ recving'[e] = None
                  /\ Context(e)' = [Context(e) EXCEPT !.r0 = Context(e)'.r0]
               \/ SysSetTrapframe(env_id[e]) /\ env_parent_id[e] = env_id[curenv]]_vars

\* Between the two calls of fork(), however long the timer keeps them apart
\* and whoever reuses a slot meanwhile, the child stands behind the same call
\* as its parent, "tweaked so sys_env_alloc returns 0", and no message or
\* start from anybody else has reached it.
ForkSound ==
    \A p \in Env :
        LET id == Context(p).r0
        IN  env_status[p] # "free" /\ Context(p).pc = "fork" /\ id # 0
            => /\ env_id[ENVX(id)] = id /\ env_status[ENVX(id)] = "not_runnable"
               /\ env_tf[ENVX(id)] = At("fork") /\ recving[ENVX(id)] = None

\* What an environment is doing, for the senders of messages.
Phase(e) ==
    CASE env_status[e] = "free" -> "absent"
      [] env_status[e] # "free" /\ recving[e] # None -> "waiting"
      [] OTHER -> IF Context(e).pc = "recv" THEN "served" ELSE "awake"

\* What a receiver e would find: the page it has asked to be replaced, then
\* what sys_ipc_can_send has left for it.
InboxOf(e) ==
    [value |-> IF Phase(e) = "served" THEN Context(e).r0 ELSE None,
     from  |-> IF Phase(e) = "served" THEN ENVX(whom[e]) ELSE None,
     page  |-> IF Phase(e) = "waiting" THEN pte[e][recving[e]]
               ELSE IF Phase(e) = "served" THEN pte[e][Context(e).va]
               ELSE None]

\* What the ipc_send of e, if e is in one, is about to send.
OfferOf(e) ==
    IF Phase(e) # "awake" \/ Context(e).pc \notin {"poll", "yield"} THEN None
    ELSE [to |-> IF FoundBy(e, Context(e).to) THEN Slot(e, Context(e).to) ELSE None,
          value |-> Context(e).value,
          page |-> IF Context(e).va = "zero" THEN None ELSE pte[e][Context(e).va]]

\* Messages are rendezvous: with the fields of struct Env, the saved frames
\* and the polling loop, every message is delivered to one receiver that
\* waits, whole, and found by it; a receiver never sees the value of one
\* sender with the page of another.
Messages == INSTANCE Rendezvous WITH
    phase <- [e \in Env |-> Phase(e)],
    inbox <- [e \in Env |-> InboxOf(e)],
    offer <- [e \in Env |-> OfferOf(e)]
Delivered == Messages!Spec
=============================================================================
