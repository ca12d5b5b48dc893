------------------------------ MODULE EnvSched ------------------------------
(***************************************************************************)
(* Environments and the scheduler: the life cycle of lib/env.c, the list of*)
(* runnable environments, sched_yield of lib/sched.c, the timer interrupt  *)
(* of lib/irq.c and the system calls of lib/svc.c that change env_status,  *)
(* called the way user/fork.c, user/libos.c and user/ipc.c call them.      *)
(*                                                                         *)
(* The kernel runs with interrupts off, so that a handler with the         *)
(* sched_yield that ends it is one action.                                 *)
(***************************************************************************)
EXTENDS Integers, Sequences, FiniteSets

CONSTANTS
    NENV,   \* number of slots of envs[]
    NULL,   \* the null pointer
    HEAD,   \* the address of env_sched_list.lh_first
    IdMod,  \* mkenvid keeps log2(IdMod) bits of its counter (ASIDMASK + 1 = 256)
    Boot,   \* the priorities of the environments armv7_init creates, in order
    Calls   \* what happens besides exit, yield and IPC:
            \*   "fork"   fork()
            \*   "alloc"  sys_env_alloc outside of fork()
            \*   "kill"   sys_env_destroy of a runnable child
            \*   "orphan" sys_env_destroy of a child that is not runnable
            \*   "status" sys_set_env_status with any status
            \*   "nomem"  sys_env_alloc runs out of pages half way

Env == 0 .. NENV - 1

ASSUME EnvSchedAssumption ==
    /\ NENV \in Nat \ {0} /\ IdMod \in Nat \ {0}
    /\ NULL \notin Env \cup 0 .. NENV * IdMod - 1 /\ HEAD \notin Env \cup {NULL}
    /\ Boot \in Seq(Nat) /\ Len(Boot) <= NENV
    /\ Calls \subseteq {"fork", "alloc", "kill", "orphan", "status", "nomem"}

VARIABLES
    cpu,            \* "boot", "user" (curenv runs), "idle" (the loop of armv7_init),
                    \* "panic", or "spin" (sched_yield never returns)
    curenv,         \* the current environment, or NULL
    env_status,     \* of each slot: "free", "runnable" or "not_runnable"
    env_id,         \* of each slot: the identifier of its latest environment
    env_parent_id,  \* the identifier of its parent
    env_pri,        \* its time slices per turn; env_alloc does not set it
    recving,        \* env_ipc_recving; env_alloc does not set it
    env_free_list,  \* the free slots, in list order
    sched,          \* env_sched_list, with the links of all slots
    iter, ts,       \* the static variables of sched_yield
    next_env_id,    \* the static counter of mkenvid, modulo IdMod
    forking,        \* of each slot: the child a fork() between its two calls has
                    \* got, by identifier, or NULL
    lost            \* the children of fork()s that were cut short: nobody starts them

vars == <<cpu, curenv, env_status, env_id, env_parent_id, env_pri, recving,
          env_free_list, sched, iter, ts, next_env_id, forking, lost>>

List == INSTANCE Queue WITH Elem <- Env

Runnable == {e \in Env : env_status[e] = "runnable"}

Init ==
    /\ cpu = "boot"
    /\ curenv = NULL
    /\ env_status = [e \in Env |-> "free"]
    /\ env_id = [e \in Env |-> 0]
    /\ env_parent_id = [e \in Env |-> 0]
    /\ env_pri = [e \in Env |-> 0]
    /\ recving = [e \in Env |-> FALSE]
    /\ env_free_list = [i \in 1 .. NENV |-> i - 1]
    /\ sched = List!ListInit
    /\ iter = NULL /\ ts = 0
    /\ next_env_id = 0
    /\ forking = [e \in Env |-> NULL]
    /\ lost = {}
-----------------------------------------------------------------------------
(* sched_yield                                                             *)

\* Mutant: every turn starts at the head of the list.
Succ_FromHead(L, i) == L.first

\* The environment the next turn goes to: the successor of i, stale or not,
\* and the head of the list at its end.
Succ(L, i) ==
    LET n == IF i = NULL THEN NULL ELSE L.next[i]
    IN  IF n = NULL THEN L.first ELSE n

\* The first runnable environment after i, or NULL: after 2 * NENV more turns
\* every one that can get a turn has had it.
NextTurn(L, status, i) ==
    LET first == Succ(L, i)
        go[n \in 0 .. 2 * NENV, j \in Env] ==
            IF n = 0 THEN NULL
            ELSE LET e == Succ(L, j)
                 IN  IF status[e] = "runnable" THEN e ELSE go[n - 1, e]
    IN  IF status[first] = "runnable" THEN first ELSE go[2 * NENV, first]

\* env_run(e) with s more slices to go.
EnvRun(e, s) == cpu' = "user" /\ curenv' = e /\ iter' = e /\ ts' = s

\* Mutant: slices are left, whatever the environment has done since.
Stays_AnyStatus(status) == ts > 0 /\ iter # NULL

\* iter has slices left and can use them.
Stays(status) == ts > 0 /\ iter # NULL /\ status[iter] = "runnable"

\* sched_yield, when curenv is cur, env_status is status and the list is L.
\* An iter that is not runnable burns its slices in the loop and loses its
\* turn; without a runnable one the loop is endless.  With an empty list the
\* frame of the idle loop is restored.
SchedYield(cur, status, L) ==
    \/ /\ L.first = NULL
       /\ cpu' = "idle" /\ curenv' = cur
       /\ UNCHANGED <<iter, ts>>
    \/ /\ L.first # NULL /\ Stays(status)
       /\ EnvRun(iter, ts - 1)
    \/ /\ L.first # NULL /\ ~ Stays(status)
       /\ \E e \in {NextTurn(L, status, iter)} :
            \/ e \in Env /\ status[e] = "runnable" /\ EnvRun(e, env_pri[e] - 1)
            \/ e = NULL /\ cpu' = "spin" /\ curenv' = cur /\ UNCHANGED <<iter, ts>>

\* The call returns to curenv.
Return == UNCHANGED <<cpu, curenv, iter, ts>>
-----------------------------------------------------------------------------
(* Identifiers and the life cycle                                          *)

\* Mutant: slots are counted from 1.
MkEnvId_OneBased(e, n) == (e + 1) * IdMod + n

\* The bits of an identifier: ENVX, and the masked counter of mkenvid.
ENVX(id) == id \div IdMod
MkEnvId(e, n) == e * IdMod + n

\* The slot that envid2env(id) looks at; 0 stands for the caller.
Slot(id) == IF id = 0 THEN curenv ELSE ENVX(id)
Found(id) == env_status[Slot(id)] # "free" /\ id \in {0, env_id[Slot(id)]}

\* envid2env(id, &e, 1): the caller or a child of it.
MayChange(id) ==
    /\ Found(id)
    /\ Slot(id) = curenv \/ env_parent_id[Slot(id)] = env_id[curenv]

\* The identifiers programs know.
Ids == {env_id[e] : e \in Env} \cup {0}

\* A user program between two calls; one that is inside fork() makes the
\* second call of fork() next.
Acting == cpu = "user" /\ forking[curenv] = NULL

\* Mutant: the slot stays on the free list.
EnvAlloc_StaysFree(e, parent, status) ==
    LET n == (next_env_id + 1) % IdMod
    IN  /\ env_free_list # <<>>
        /\ e = Head(env_free_list)
        /\ next_env_id' = n
        /\ env_id' = [env_id EXCEPT ![e] = MkEnvId(e, n)]
        /\ env_parent_id' = [env_parent_id EXCEPT ![e] = parent]
        /\ env_status' = [env_status EXCEPT ![e] = status]
        /\ UNCHANGED env_free_list

\* env_alloc: the first free slot, with a new identifier.
EnvAlloc(e, parent, status) ==
    LET n == (next_env_id + 1) % IdMod
    IN  /\ env_free_list # <<>>
        /\ e = Head(env_free_list)
        /\ env_free_list' = Tail(env_free_list)
        /\ next_env_id' = n
        /\ env_id' = [env_id EXCEPT ![e] = MkEnvId(e, n)]
        /\ env_parent_id' = [env_parent_id EXCEPT ![e] = parent]
        /\ env_status' = [env_status EXCEPT ![e] = status]

\* env_create_priority: load_icode makes the environment runnable.
EnvCreate(e) ==
    LET created == {x \in Env : env_status[x] # "free"}
    IN  /\ cpu = "boot"
        /\ Cardinality(created) < Len(Boot)
        /\ EnvAlloc(e, 0, "runnable")
        /\ env_pri' = [env_pri EXCEPT ![e] = Boot[Cardinality(created) + 1]]
        /\ sched' = List!InsertHead(sched, e)
        /\ UNCHANGED <<cpu, curenv, recving, iter, ts, forking, lost>>

\* armv7_init ends in its idle loop, with the timer on.
StartTimer ==
    /\ cpu = "boot"
    /\ Cardinality({x \in Env : env_status[x] # "free"}) = Len(Boot)
    /\ cpu' = "idle"
    /\ UNCHANGED <<curenv, env_status, env_id, env_parent_id, env_pri, recving,
                   env_free_list, sched, iter, ts, next_env_id, forking, lost>>

\* irq_handler for the timer, from user mode or from the idle loop.
Timer ==
    /\ cpu \in {"user", "idle"}
    /\ SchedYield(curenv, env_status, sched)
    /\ UNCHANGED <<env_status, env_id, env_parent_id, env_pri, recving,
                   env_free_list, sched, next_env_id, forking, lost>>

\* sys_yield
SysYield ==
    /\ Acting
    /\ SchedYield(curenv, env_status, sched)
    /\ UNCHANGED <<env_status, env_id, env_parent_id, env_pri, recving,
                   env_free_list, sched, next_env_id, forking, lost>>

\* sys_env_alloc, the first call of fork().  A parent that gets the identifier
\* 0 takes itself for the child, and after an error, half way through the copy
\* of the address space, fork() panics in user mode: nobody starts the child.
SysEnvAlloc(c) ==
    /\ Acting
    /\ EnvAlloc(c, env_id[curenv], "not_runnable")
    /\ \/ /\ "fork" \in Calls /\ env_id'[c] # 0
          /\ forking' = [forking EXCEPT ![curenv] = env_id'[c]]
          /\ \/ UNCHANGED lost
             \/ "nomem" \in Calls /\ lost' = lost \cup {c}
       \/ /\ "alloc" \in Calls \/ ("fork" \in Calls /\ env_id'[c] = 0)
          /\ lost' = lost \cup {c}
          /\ UNCHANGED forking
    /\ Return
    /\ UNCHANGED <<env_pri, recving, sched>>

\* my_set_env_status(t, s), for s other than ENV_FREE: the new status and
\* list.
StatusFaults(t, s) ==
    s = "not_runnable" /\ env_status[t] # s /\ List!RemoveFaults(sched, t)
SetStatus(t, s) ==
    /\ ~ StatusFaults(t, s)
    /\ env_status' = [env_status EXCEPT ![t] = s]
    /\ sched' = IF env_status[t] = s THEN sched
                ELSE IF s = "runnable" THEN List!InsertHead(sched, t)
                ELSE List!Remove(sched, t)

\* fork(), second call: sys_set_env_status(child, ENV_RUNNABLE).  A parent
\* that may not change the child panics in user mode: it makes no more calls.
ForkStart ==
    LET id == forking[curenv]
    IN  /\ cpu = "user"
        /\ id # NULL /\ ENVX(id) \notin lost
        /\ MayChange(id)
        /\ SetStatus(Slot(id), "runnable")
        /\ forking' = [forking EXCEPT ![curenv] = NULL]
        /\ Return
        /\ UNCHANGED <<env_id, env_parent_id, env_pri, recving, env_free_list,
                       next_env_id, lost>>

\* A store through a NULL le_prev aborts in the kernel, and pageout panics on
\* the low address.
Panic ==
    /\ cpu' = "panic"
    /\ UNCHANGED <<curenv, env_status, env_id, env_parent_id, env_pri, recving,
                   env_free_list, sched, iter, ts, next_env_id, forking, lost>>

\* Mutant: the environment stays on env_sched_list.
EnvFree_StaysListed(t) ==
    /\ env_status' = [env_status EXCEPT ![t] = "free"]
    /\ env_free_list' = <<t>> \o env_free_list
    /\ forking' = [forking EXCEPT ![t] = NULL]
    /\ lost' = lost \ {t}
    /\ UNCHANGED sched

\* Mutant: the slot is not put on env_free_list.
EnvFree_LosesSlot(t) ==
    /\ env_status' = [env_status EXCEPT ![t] = "free"]
    /\ sched' = List!Remove(sched, t)
    /\ forking' = [forking EXCEPT ![t] = NULL]
    /\ lost' = lost \ {t}
    /\ UNCHANGED env_free_list

\* env_free removes t from the list whatever its status was.
EnvFree(t) ==
    /\ env_status' = [env_status EXCEPT ![t] = "free"]
    /\ env_free_list' = <<t>> \o env_free_list
    /\ sched' = List!Remove(sched, t)
    /\ forking' = [forking EXCEPT ![t] = NULL]
    /\ lost' = IF forking[t] = NULL THEN lost \ {t}
               ELSE (lost \ {t}) \cup {ENVX(forking[t])}

\* sys_env_destroy: env_destroy looks for another environment if it has
\* freed the current one.
SysEnvDestroy(id) ==
    LET t == Slot(id)
    IN  /\ Acting
        /\ MayChange(id)
        /\ \/ t = curenv
           \/ "kill" \in Calls /\ env_status[t] = "runnable"
           \/ "orphan" \in Calls /\ env_status[t] = "not_runnable"
        /\ IF List!RemoveFaults(sched, t)
           THEN Panic
           ELSE /\ EnvFree(t)
                /\ IF t = curenv THEN SchedYield(NULL, env_status', sched') ELSE Return
                /\ UNCHANGED <<env_id, env_parent_id, env_pri, recving, next_env_id>>

\* sys_set_env_status(id, s) from a program of its own.  With ENV_FREE the
\* status is stored first, and sys_env_destroy then finds a free environment:
\* it returns -E_BAD_ENV, which is ignored.
SysSetEnvStatus(id, s) ==
    /\ Acting /\ "status" \in Calls
    /\ MayChange(id)
    /\ IF StatusFaults(Slot(id), s)
       THEN Panic
       ELSE /\ \/ s # "free" /\ SetStatus(Slot(id), s)
               \/ /\ s = "free"
                  /\ env_status' = [env_status EXCEPT ![Slot(id)] = "free"]
                  /\ UNCHANGED sched
            /\ Return
            /\ UNCHANGED <<env_id, env_parent_id, env_pri, recving, env_free_list,
                           next_env_id, forking, lost>>
-----------------------------------------------------------------------------
(* IPC, as far as it changes env_status                                    *)

\* sys_ipc_recv
SysIpcRecv ==
    /\ Acting
    /\ IF StatusFaults(curenv, "not_runnable")
       THEN Panic
       ELSE /\ recving' = [recving EXCEPT ![curenv] = TRUE]
            /\ SetStatus(curenv, "not_runnable")
            /\ SchedYield(curenv, env_status', sched')
            /\ UNCHANGED <<env_id, env_parent_id, env_pri, env_free_list,
                           next_env_id, forking, lost>>

\* Mutant: the receiver gets its message and is not woken.
SysIpcCanSend_NoWake(id) ==
    /\ Acting
    /\ Found(id) /\ recving[Slot(id)]
    /\ recving' = [recving EXCEPT ![Slot(id)] = FALSE]
    /\ Return
    /\ UNCHANGED <<env_status, env_id, env_parent_id, env_pri, env_free_list, sched,
                   next_env_id, forking, lost>>

\* Mutant: the receiver is woken and still counts as receiving.
SysIpcCanSend_StaysReceiving(id) ==
    /\ Acting
    /\ Found(id) /\ recving[Slot(id)]
    /\ SetStatus(Slot(id), "runnable")
    /\ Return
    /\ UNCHANGED <<env_id, env_parent_id, env_pri, recving, env_free_list, next_env_id,
                   forking, lost>>

\* sys_ipc_can_send to a receiver; to others it returns -E_IPC_NOT_RECV.
SysIpcCanSend(id) ==
    /\ Acting
    /\ Found(id) /\ recving[Slot(id)]
    /\ recving' = [recving EXCEPT ![Slot(id)] = FALSE]
    /\ SetStatus(Slot(id), "runnable")
    /\ Return
    /\ UNCHANGED <<env_id, env_parent_id, env_pri, env_free_list, next_env_id,
                   forking, lost>>

Next ==
    \/ StartTimer
    \/ Timer
    \/ SysYield
    \/ ForkStart
    \/ SysIpcRecv
    \/ \E e \in Env :
         \/ EnvCreate(e)
         \/ SysEnvAlloc(e)
    \/ \E id \in Ids :
         \/ SysEnvDestroy(id)
         \/ SysIpcCanSend(id)
         \/ \E s \in {"free", "runnable", "not_runnable"} : SysSetEnvStatus(id, s)

\* The boot code runs to its end, and then the timer interrupts user code
\* again and again (timer2 is periodic and every frame is restored with
\* interrupts on); programs owe nothing.
Machine == Timer \/ StartTimer \/ \E e \in Env : EnvCreate(e)

Spec == Init /\ [][Next]_vars /\ WF_vars(Machine)
-----------------------------------------------------------------------------
TypeOK ==
    /\ cpu \in {"boot", "user", "idle", "panic", "spin"}
    /\ curenv \in Env \cup {NULL} /\ iter \in Env \cup {NULL}
    /\ env_status \in [Env -> {"free", "runnable", "not_runnable"}]
    /\ env_id \in [Env -> 0 .. NENV * IdMod - 1]
    /\ env_parent_id \in [Env -> 0 .. NENV * IdMod - 1]
    /\ env_pri \in [Env -> Nat]
    /\ recving \in [Env -> BOOLEAN]
    /\ env_free_list \in Seq(Env)
    /\ sched \in [first : Env \cup {NULL}, next : [Env -> Env \cup {NULL}],
                  prev : [Env -> Env \cup {NULL, HEAD}]]
    /\ ts \in Int
    /\ next_env_id \in 0 .. IdMod - 1
    /\ forking \in [Env -> (1 .. NENV * IdMod - 1) \cup {NULL}]
    /\ lost \subseteq Env

\* "runnable env list" (env.h): env_sched_list holds exactly the runnable
\* environments, each once and with right back pointers, after any history of
\* inserts and removes at its head and in its middle.
RunListExact ==
    \E s \in UNION {[1 .. n -> Runnable] : n \in {Cardinality(Runnable)}} :
        List!Represents(sched, s)

\* "remove it from runnable list" (env_free) is said of every environment,
\* and my_set_env_status does it for every status that is not runnable.
\* Whatever programs do, a list that was exact stays exact, but in two cases:
\* an environment that is not runnable is removed once more, by its stale
\* links, or a runnable one gets the status ENV_FREE and stays on the list.
ListBreaksOnlyHere ==
    [][RunListExact /\ ~ RunListExact' =>
         \/ \E e \in Env : /\ env_status[e] # "runnable"
                          /\ env_status'[e] \notin {env_status[e], "runnable"}
         \/ \E id \in Ids : SysSetEnvStatus(id, "free")]_vars

\* Whatever programs do with sys_set_env_status and sys_env_destroy, no slot
\* is on env_free_list twice or while it is in use: fork never hands out the
\* slot of an environment that exists, nor one slot to two children.
FreeListSound ==
    /\ \A i \in DOMAIN env_free_list : env_status[env_free_list[i]] = "free"
    /\ \A i, j \in DOMAIN env_free_list : env_free_list[i] = env_free_list[j] => i = j

\* env_free, env_alloc and fork lose no slot: every free one is on the list.
SlotsConserved ==
    \A e \in Env : env_status[e] = "free" =>
        \E i \in DOMAIN env_free_list : env_free_list[i] = e

\* The stale iter of sched_yield is never dereferenced to a wrong turn: user
\* code runs exactly in the environment whose slices are being counted, and
\* that environment is runnable.
RunningOwnsTurn == cpu = "user" => iter = curenv /\ env_status[curenv] = "runnable"

\* sched_yield always finds somebody to run and the kernel never faults on
\* a link.
KernelSurvives == cpu \notin {"panic", "spin"}

\* No lost wake-up: an environment that cannot run is waiting for a message
\* that a sender may still deliver, or is a child of a fork() that is still
\* to start it or was cut short.
BlockedIsWaiting ==
    \A e \in Env : env_status[e] = "not_runnable" =>
        recving[e] \/ e \in lost \/ \E p \in Env : forking[p] = env_id[e]

\* A send "fails with a return value of -E_IPC_NOT_RECV if the target has not
\* requested IPC" (sys_ipc_can_send): a new environment has not.  env_alloc
\* resets nothing, so that whoever gives up a slot must have done it before.
NewAreNotReceiving ==
    [][\A e \in Env : env_status[e] = "free" /\ env_status'[e] # "free"
                        => ~ recving'[e]]_vars

\* The linked list, the stale pointers and the slice counter implement a fair
\* run queue.
Queue == INSTANCE RunQueue WITH
    Nobody <- NULL,
    ready <- Runnable,
    running <- IF cpu = "user" THEN curenv ELSE NULL
FairScheduler == Queue!Spec
=============================================================================
