------------------------------ MODULE IpcProofs ------------------------------
(***************************************************************************)
(* Proofs about Ipc, for every number of slots, values, pages and programs.*)
(* The frame an environment continues with, Context(e), is what the        *)
(* invariant is about: it is in regs or in env_tf[e], and the steps that   *)
(* enter and leave the kernel move it between the two.                     *)
(***************************************************************************)
EXTENDS Ipc, TLAPS

-----------------------------------------------------------------------------
(* Identifiers                                                             *)

\* Identifiers are natural numbers and 0 is one.
LEMMA IdType == 0 \in Id /\ Id \subseteq Nat
<1>1. NENV \in Nat \ {0} /\ IdMod \in Nat \ {0}
  BY IpcAssumption
<1>2. NENV * IdMod \in Nat \ {0}
  BY <1>1, Z3
<1> QED
  BY <1>2 DEF Id

\* ENVX of an identifier is a slot.
LEMMA EnvxSlot ==
  ASSUME NEW id \in Id
  PROVE  ENVX(id) \in Env
<1> DEFINE q == id \div IdMod
           r == id % IdMod
<1>1. NENV \in Nat \ {0} /\ IdMod \in Nat \ {0} /\ id \in Nat
  BY IpcAssumption DEF Id
<1>2. q \in Nat /\ r \in 0 .. IdMod - 1 /\ id = q * IdMod + r
  BY <1>1, Z3
<1>3. q * IdMod < NENV * IdMod
  BY <1>1, <1>2 DEF Id
<1> HIDE DEF q
<1>4. q < NENV
  BY <1>1, <1>2, <1>3, Z3
<1> QED
  BY <1>1, <1>2, <1>4 DEF ENVX, Env, q

\* ENVX takes the slot back out of what mkenvid puts it into.
LEMMA MkEnvIdSlot ==
  ASSUME NEW e \in Env, NEW n \in 0 .. IdMod - 1
  PROVE  MkEnvId(e, n) \in Id /\ ENVX(MkEnvId(e, n)) = e
<1>1. NENV \in Nat \ {0} /\ IdMod \in Nat \ {0} /\ e \in Nat /\ e < NENV
  BY IpcAssumption DEF Env
<1>2. (e * IdMod + n) \div IdMod = e
  BY <1>1, Z3
<1>3. e * IdMod + n \in Nat /\ e * IdMod + n < NENV * IdMod
  BY <1>1, Z3
<1> QED
  BY <1>1, <1>2, <1>3 DEF Id, ENVX, MkEnvId

\* The counter of mkenvid stays below its mask.
LEMMA CounterType ==
  ASSUME NEW n \in Nat
  PROVE  n % IdMod \in 0 .. IdMod - 1
<1>1. IdMod \in Nat \ {0}
  BY IpcAssumption
<1> QED
  BY <1>1, Z3
-----------------------------------------------------------------------------
(* The inductive invariant                                                 *)

Pcs == {"run", "fork", "poll", "yield", "recv", "panic", "idle", "garbage"}
Frames == [pc : Pcs, r0 : Id \cup Value, to : Id, value : Value \cup {None}, va : Va]
Status == {"free", "runnable", "not_runnable"}

\* No program calls sys_set_trapframe.
FramesLeftAlone == "frame" \notin Calls

\* The saved frame of who runs is used up, unless a program has set its own.
Spent == {At("garbage")} \cup (IF FramesLeftAlone THEN {} ELSE {At("run")})

\* Who runs is runnable and its saved frame has been used up, while a frame of
\* the idle loop waits at KSTACKTOP; the idle loop runs first of all and when
\* nobody is runnable.
CpuSound ==
    /\ cpu = "user" => /\ curenv \in Env /\ env_status[curenv] = "runnable"
                       /\ kstack_tf = At("idle")
                       /\ env_tf[curenv] \in Spent
    /\ cpu = "idle" => /\ regs = At("idle")
                       /\ curenv = NULL \/ Runnable(env_status) = {}

\* The frame of e is one of a program, and says what it needs to go on.
FrameSound(e) ==
    env_status[e] # "free" =>
        /\ Context(e).pc # "idle"
        /\ Context(e).pc = "garbage" => cpu = "idle" /\ Runnable(env_status) = {}
        /\ Context(e).pc \in {"poll", "yield"} => Context(e).value \in Value
        /\ Context(e).pc = "fork" => Context(e).r0 \in Id
        /\ ENVX(env_id[e]) = e

\* Who is receiving is blocked, behind the call that said where to, unless its
\* frame is lost or has been set.
RecvSound(e) ==
    recving[e] # None =>
        /\ env_status[e] = "not_runnable"
        /\ \/ Context(e).pc = "recv" /\ Context(e).va = recving[e]
           \/ Context(e) \in Spent

\* p has got a child and is to start it.
Forks(p) == env_status[p] # "free" /\ Context(p).pc = "fork" /\ Context(p).r0 # 0

\* The child of p waits in the frame it got, and is nobody else's; so p is the
\* only one to set its frame, and does not while it is in fork().
ChildSound(p) ==
    Forks(p) =>
        \A c \in Env : ENVX(Context(p).r0) = c =>
            /\ env_id[c] = Context(p).r0 /\ env_status[c] = "not_runnable"
            /\ Context(c) = At("fork") /\ recving[c] = None
            /\ env_parent_id[c] = env_id[p]
            /\ \A q \in Env : Forks(q) /\ Context(q).r0 = Context(p).r0 => q = p

IInv ==
    /\ TypeOK
    /\ CpuSound
    /\ \A e \in Env : FrameSound(e) /\ RecvSound(e) /\ ChildSound(e)

\* What TypeOK says, piece by piece.
LEMMA Types ==
  ASSUME TypeOK
  PROVE  /\ cpu \in {"user", "idle"} /\ curenv \in Env \cup {NULL}
         /\ regs \in Frames /\ env_tf \in [Env -> Frames] /\ kstack_tf \in Frames
         /\ env_status \in [Env -> Status]
         /\ env_id \in [Env -> Id] /\ env_parent_id \in [Env -> Id]
         /\ next_env_id \in 0 .. IdMod - 1
         /\ recving \in [Env -> Va \cup {None}] /\ whom \in [Env -> Id \cup {NULL}]
         /\ pte \in [Env -> [Va -> Page \cup {None}]]
         /\ \A e \in Env : Context(e) \in Frames
BY DEF TypeOK, Frames, Pcs, Status, Context

\* A frame in which only the place matters.
LEMMA AtType ==
  ASSUME NEW pc \in Pcs
  PROVE  At(pc) \in Frames /\ At(pc).pc = pc /\ At(pc).r0 = 0
BY IdType DEF At, Frame, Frames, Va

\* The frames that a call of the kernel leaves to who runs
LEMMA SpentType ==
  ASSUME NEW f \in Spent
  PROVE  /\ f \in Frames /\ f.pc \in {"garbage", "run"}
         /\ f.pc = "garbage" => f = At("garbage")
         /\ FramesLeftAlone => f.pc = "garbage"
<1>1. f = At("garbage") \/ (f = At("run") /\ ~ FramesLeftAlone)
  BY DEF Spent
<1> QED
  BY <1>1, AtType DEF Pcs

\* Saved or running, the frames of all but the current environment are in
\* env_tf.
LEMMA ContextIs ==
  ASSUME IInv, NEW e \in Env
  PROVE  /\ cpu = "user" => Context(curenv) = regs
         /\ e # curenv \/ cpu # "user" => Context(e) = env_tf[e]
         /\ env_status[e] # "runnable" => Context(e) = env_tf[e]
BY DEF Context, IInv, CpuSound

\* The frames of fork(): the child of ForkSound is the one of ChildSound.
LEMMA ForkSoundHolds == IInv => ForkSound
<1> SUFFICES ASSUME IInv, NEW p \in Env, Forks(p)
             PROVE  LET id == Context(p).r0
                    IN  /\ env_id[ENVX(id)] = id /\ env_status[ENVX(id)] = "not_runnable"
                        /\ env_tf[ENVX(id)] = At("fork") /\ recving[ENVX(id)] = None
  BY DEF ForkSound, Forks
<1>1. ENVX(Context(p).r0) \in Env
  BY EnvxSlot DEF IInv, FrameSound, Forks
<1> QED
  BY <1>1, ContextIs DEF IInv, ChildSound
-----------------------------------------------------------------------------
(* What entering and leaving the kernel does to the frames                 *)

\* env_run and load_trapframe, seen from the environments: whoever is switched
\* to goes on with its own frame, and so will everybody else.
Yielded(cur, exc, status, tf, idle) ==
    /\ cpu' \in {"user", "idle"} /\ curenv' \in Env \cup {NULL}
    /\ regs' \in Frames /\ env_tf' \in [Env -> Frames]
    /\ \A e \in Env : e # cur => Context(e)' = tf[e]
    /\ Runnable(status) # {} => /\ cpu' = "user" /\ curenv' \in Runnable(status)
                               /\ (env_tf[curenv] = At("garbage"))'
                               /\ \A e \in Env : e = cur => Context(e)' = exc
    /\ Runnable(status) = {} => /\ cpu' = "idle" /\ curenv' = cur
                               /\ regs' = idle /\ env_tf' = tf

\* sched_yield changes no frame but by saving and restoring it.
LEMMA YieldKeeps ==
  ASSUME NEW cur \in Env \cup {NULL}, NEW exc \in Frames, NEW status \in [Env -> Status],
         NEW tf \in [Env -> Frames], NEW idle \in Frames,
         SchedYield(cur, exc, status, tf, idle)
  PROVE  Yielded(cur, exc, status, tf, idle)
<1>1. CASE Runnable(status) = {} /\ cpu' = "idle" /\ curenv' = cur
           /\ env_tf' = tf /\ regs' = idle
  BY <1>1 DEF Yielded, Context
<1>2. ASSUME NEW e \in Runnable(status), EnvRun(cur, e, exc, tf)
      PROVE  Yielded(cur, exc, status, tf, idle)
  <2> DEFINE saved == IF cur = NULL THEN tf ELSE [tf EXCEPT ![cur] = exc]
  <2>1. e \in Env
    BY DEF Runnable
  <2>2. saved \in [Env -> Frames] /\ \A x \in Env : saved[x] = IF x = cur THEN exc ELSE tf[x]
    BY IpcAssumption
  <2>3. /\ cpu' = "user" /\ curenv' = e
        /\ env_tf' = [saved EXCEPT ![e] = At("garbage")]
        /\ regs' = saved[e]
    BY <1>2 DEF EnvRun
  <2> HIDE DEF saved
  <2>4. regs' \in Frames /\ env_tf' \in [Env -> Frames]
    BY <2>1, <2>2, <2>3, AtType DEF Pcs
  <2>5. \A x \in Env : Context(x)' = saved[x]
    BY <2>1, <2>2, <2>3 DEF Context
  <2> QED
    BY <2>1, <2>2, <2>3, <2>4, <2>5 DEF Yielded
<1> QED
  BY <1>1, <1>2 DEF SchedYield

\* The call returns: only the frame of the caller changes, and what the call
\* writes into saved frames.
LEMMA ReturnKeeps ==
  ASSUME IInv, cpu = "user", NEW f \in Frames, Return(f), env_tf' \in [Env -> Frames]
  PROVE  /\ cpu' \in {"user", "idle"} /\ curenv' \in Env \cup {NULL}
         /\ regs' \in Frames /\ kstack_tf' \in Frames
         /\ \A e \in Env : Context(e)' = IF e = curenv THEN f ELSE env_tf'[e]
<1>1. TypeOK /\ cpu' = "user" /\ curenv' = curenv /\ regs' = f /\ kstack_tf' = kstack_tf
  BY DEF IInv, Return
<1> QED
  BY <1>1, Types DEF Context

\* A step in which only the program that runs gets on, in code of its own or in
\* ipc_send.
LEMMA LocalStep ==
  ASSUME IInv, TypeOK', CpuSound', UNCHANGED <<env_status, env_id, env_parent_id, recving>>,
         cpu = "idle" /\ Runnable(env_status) = {} => cpu' = "idle",
         \A e \in Env : env_status[e] # "free" =>
            \/ Context(e)' = Context(e)
            \/ /\ cpu = "user" /\ e = curenv
               /\ Context(e)'.pc \in {"run", "panic", "poll", "yield"}
               /\ Context(e)'.pc \in {"poll", "yield"} => Context(e)'.value \in Value
  PROVE  IInv'
<1> SUFFICES ASSUME NEW e \in Env
             PROVE  FrameSound(e)' /\ RecvSound(e)' /\ ChildSound(e)'
  BY DEF IInv
<1>1. FrameSound(e) /\ RecvSound(e) /\ ChildSound(e)
  BY DEF IInv
<1>2. FrameSound(e)'
  BY <1>1 DEF FrameSound
<1>3. RecvSound(e)'
  BY <1>1 DEF RecvSound, IInv, CpuSound
<1>4. \A p \in Env : Forks(p)' => Forks(p) /\ Context(p)' = Context(p)
  BY DEF Forks
<1>5. ChildSound(e)'
  <2> SUFFICES ASSUME Forks(e)', NEW c \in Env, ENVX(Context(e)'.r0) = c
               PROVE  /\ env_id'[c] = Context(e)'.r0 /\ env_status'[c] = "not_runnable"
                      /\ Context(c)' = At("fork") /\ recving'[c] = None
                      /\ env_parent_id'[c] = env_id'[e]
                      /\ \A q \in Env : Forks(q)' /\ Context(q)'.r0 = Context(e)'.r0 => q = e
    BY DEF ChildSound
  <2>1. Forks(e) /\ Context(e)' = Context(e)
    BY <1>4
  <2>2. /\ env_id[c] = Context(e).r0 /\ env_status[c] = "not_runnable"
        /\ Context(c) = At("fork") /\ recving[c] = None
        /\ env_parent_id[c] = env_id[e]
        /\ \A q \in Env : Forks(q) /\ Context(q).r0 = Context(e).r0 => q = e
    BY <1>1, <2>1 DEF ChildSound
  <2>3. Context(c)' = Context(c)
    BY <2>2 DEF IInv, CpuSound
  <2> QED
    BY <1>4, <2>1, <2>2, <2>3
<1> QED
  BY <1>2, <1>3, <1>5
-----------------------------------------------------------------------------
(* The steps                                                               *)

\* What a step may do to the frames of environments that exist before and
\* after it.
Kept ==
    \A e \in Env :
        env_status[e] # "free" /\ env_status'[e] # "free" =>
            \/ Context(e)' = Context(e)
            \/ cpu = "user" /\ curenv = e /\ ~ Timer
            \/ /\ recving[e] # None /\ recving'[e] = None
               /\ Context(e)' = [Context(e) EXCEPT !.r0 = Context(e)'.r0]
            \/ SysSetTrapframe(env_id[e]) /\ env_parent_id[e] = env_id[curenv]

\* At boot nobody waits, forks or sends.
LEMMA IpcInit == Init => IInv
<1> SUFFICES ASSUME Init
             PROVE  IInv
  OBVIOUS
<1>1. TypeOK
  <2>1. next_env_id \in 0 .. IdMod - 1
    BY CounterType, IpcAssumption DEF Init
  <2>2. env_id \in [Env -> Id]
    <3> SUFFICES ASSUME NEW e \in Env
                 PROVE  e * IdMod + ((e + 1) % IdMod) \in Id
      BY IdType DEF Init
    <3>1. (e + 1) % IdMod \in 0 .. IdMod - 1
      <4>1. e + 1 \in Nat
        BY DEF Env
      <4> QED
        BY <4>1, CounterType
    <3> QED
      BY <3>1, MkEnvIdSlot DEF MkEnvId
  <2>3. /\ regs \in Frames /\ kstack_tf \in Frames /\ env_tf \in [Env -> Frames]
    BY AtType DEF Init, Pcs
  <2> QED
    BY <2>1, <2>2, <2>3, IdType DEF Init, TypeOK, Frames, Pcs, Va
<1>2. CpuSound
  BY DEF Init, CpuSound
<1>3. ASSUME NEW e \in Env
      PROVE  FrameSound(e) /\ RecvSound(e) /\ ChildSound(e)
  <2>1. Context(e) = At(IF e < Boot THEN "run" ELSE "garbage")
    BY DEF Init, Context
  <2>2. env_status[e] # "free" => Context(e).pc = "run"
    BY <2>1, AtType DEF Init, Pcs
  <2>3. env_status[e] # "free" => ENVX(env_id[e]) = e
    <3>1. e + 1 \in Nat
      BY DEF Env
    <3>2. (e + 1) % IdMod \in 0 .. IdMod - 1
      BY <3>1, CounterType
    <3>3. ENVX(e * IdMod + ((e + 1) % IdMod)) = e
      BY <3>2, MkEnvIdSlot DEF MkEnvId
    <3> QED
      BY <3>3 DEF Init
  <2>4. recving[e] = None
    BY DEF Init
  <2> QED
    BY <2>2, <2>3, <2>4 DEF FrameSound, RecvSound, ChildSound, Forks
<1> QED
  BY <1>1, <1>2, <1>3 DEF IInv

\* An interrupt moves frames and changes none.
LEMMA TimerStep ==
  ASSUME IInv, Timer
  PROVE  /\ IInv'
         /\ \A e \in Env : Context(e)' = Context(e)
<1>1. TypeOK /\ kstack_tf' \in Frames
  BY Types DEF IInv, Timer
<1>2. Yielded(curenv, regs, env_status, env_tf, kstack_tf')
  BY <1>1, Types, YieldKeeps DEF Timer
<1>3. TypeOK'
  BY <1>1, <1>2 DEF Timer, envs, ipc, Yielded, TypeOK, Frames, Pcs
<1>4. UNCHANGED <<env_status, env_id, env_parent_id, recving>>
  BY DEF Timer, envs, ipc
<1>5. CASE cpu = "user"
  <2>1. /\ curenv \in Runnable(env_status) /\ kstack_tf' = At("idle")
    BY <1>5 DEF Timer, IInv, CpuSound, Runnable
  <2>2. \A e \in Env : Context(e)' = Context(e)
    BY <1>2, <1>5, <2>1, ContextIs DEF Yielded
  <2>3. CpuSound'
    BY <1>2, <1>4, <2>1 DEF Yielded, CpuSound, Runnable, Spent
  <2> QED
    BY <1>3, <1>4, <1>5, <2>2, <2>3, LocalStep
<1>6. CASE cpu = "idle"
  <2>1. /\ curenv = NULL \/ Runnable(env_status) = {}
        /\ kstack_tf' = At("idle")
    BY <1>6 DEF Timer, IInv, CpuSound
  <2>2. \A e \in Env : e # NULL
    BY IpcAssumption
  <2>3. \A e \in Env : Context(e)' = Context(e)
    <3>1. CASE Runnable(env_status) = {}
      BY <1>2, <1>6, <3>1 DEF Yielded, Context
    <3>2. CASE Runnable(env_status) # {}
      BY <1>2, <1>6, <2>1, <2>2, <3>2 DEF Yielded, Context
    <3> QED
      BY <3>1, <3>2
  <2>4. CpuSound'
    BY <1>2, <1>4, <2>1 DEF Yielded, CpuSound, Runnable, Spent
  <2>5. Runnable(env_status) = {} => cpu' = "idle"
    BY <1>2 DEF Yielded
  <2> QED
    BY <1>3, <1>4, <1>6, <2>3, <2>4, <2>5, LocalStep
<1> QED
  BY <1>1, <1>5, <1>6 DEF TypeOK

\* The frames a program goes on with behind a call that yields to others.
GoesOn(f) == f = regs \/ (f.pc = "poll" /\ f.value \in Value)

\* A call that yields without a change of status.
LEMMA YieldStep ==
  ASSUME IInv, cpu = "user", NEW f \in Frames, Yield(f, env_status),
         UNCHANGED <<envs, ipc, pte>>, GoesOn(f)
  PROVE  /\ IInv'
         /\ \A e \in Env : Context(e)' = IF e = curenv THEN f ELSE Context(e)
<1>1. TypeOK /\ kstack_tf' = kstack_tf
      /\ UNCHANGED <<env_status, env_id, env_parent_id, recving>>
  BY DEF IInv, Yield, envs, ipc
<1>2. Yielded(curenv, f, env_status, env_tf, kstack_tf)
  BY <1>1, Types, YieldKeeps DEF Yield
<1>3. TypeOK'
  BY <1>1, <1>2 DEF envs, ipc, Yielded, TypeOK, Frames, Pcs
<1>4. curenv \in Runnable(env_status) /\ curenv \in Env /\ kstack_tf' = At("idle")
  BY <1>1 DEF IInv, CpuSound, Runnable
<1>5. Context(curenv) = regs
  BY <1>4, ContextIs
<1>6. \A e \in Env : Context(e)' = IF e = curenv THEN f ELSE Context(e)
  BY <1>2, <1>4, ContextIs DEF Yielded
<1>7. CpuSound'
  BY <1>1, <1>2, <1>4 DEF Yielded, CpuSound, Runnable, Spent
<1>8. IInv'
  BY <1>1, <1>3, <1>5, <1>6, <1>7, LocalStep DEF GoesOn
<1> QED
  BY <1>2, <1>4, <1>6, <1>8 DEF Yielded

\* A call that returns and changes nothing about environments.
LEMMA StayStep ==
  ASSUME IInv, cpu = "user", NEW f \in Frames, Return(f),
         UNCHANGED <<env_tf, envs, recving>>,
         whom' \in [Env -> Id \cup {NULL}], pte' \in [Env -> [Va -> Page \cup {None}]],
         \/ f = regs
         \/ /\ f.pc \in {"run", "panic", "poll", "yield"}
            /\ f.pc \in {"poll", "yield"} => f.value \in Value
  PROVE  /\ IInv'
         /\ \A e \in Env : Context(e)' = IF e = curenv THEN f ELSE Context(e)
<1>1. /\ TypeOK /\ UNCHANGED <<env_status, env_id, env_parent_id, recving>>
      /\ cpu' = "user" /\ curenv' = curenv /\ kstack_tf' = kstack_tf /\ env_tf' = env_tf
  BY DEF IInv, Return, envs
<1>2. TypeOK'
  BY <1>1, Types DEF Return, envs, TypeOK, Frames, Pcs
<1>3. \A e \in Env : Context(e)' = IF e = curenv THEN f ELSE Context(e)
  <2>1. env_tf' \in [Env -> Frames]
    BY <1>1, Types
  <2> QED
    BY <1>1, <2>1, ReturnKeeps, ContextIs
<1>4. CpuSound'
  BY <1>1 DEF IInv, CpuSound
<1>5. Context(curenv) = regs
  BY DEF Context
<1>6. IInv'
  BY <1>1, <1>2, <1>3, <1>4, <1>5, LocalStep
<1> QED
  BY <1>3, <1>6

\* sys_env_alloc: the child is in nobody's way.
LEMMA AllocStep ==
  ASSUME IInv, NEW c \in Env, SysEnvAlloc(c)
  PROVE  /\ IInv'
         /\ c # curenv /\ recving[c] = None
         /\ \A e \in Env : e \notin {curenv, c} => Context(e)' = Context(e)
         /\ \A e \in Env : e \in {curenv, c} => Context(e)'.pc = "fork"
         /\ \A e \in Env : e # c => env_id'[e] = env_id[e] /\ env_status'[e] = env_status[e]
<1> DEFINE n == (next_env_id + 1) % IdMod
<1> PICK id \in Id : id = MkEnvId(c, n) /\ ENVX(id) = c /\ n \in 0 .. IdMod - 1
  <2>1. next_env_id + 1 \in Nat
    BY DEF IInv, TypeOK
  <2>2. n \in 0 .. IdMod - 1
    BY <2>1, CounterType
  <2> HIDE DEF n
  <2> QED
    BY <2>2, MkEnvIdSlot
<1> DEFINE f == [At("fork") EXCEPT !.r0 = id]
<1>1. /\ cpu = "user" /\ regs.pc = "run" /\ env_status[c] = "free"
      /\ env_status' = [env_status EXCEPT ![c] = "not_runnable"]
      /\ env_id' = [env_id EXCEPT ![c] = id]
      /\ env_parent_id' = [env_parent_id EXCEPT ![c] = env_id[curenv]]
      /\ next_env_id' = n
      /\ pte' = [pte EXCEPT ![c] = pte[curenv]]
      /\ env_tf' = [env_tf EXCEPT ![c] = At("fork")]
      /\ Return(f)
      /\ UNCHANGED <<recving, whom>>
  BY DEF SysEnvAlloc, In, ipc, ChildFrame
<1>2. TypeOK /\ curenv \in Env /\ env_status[curenv] = "runnable" /\ c # curenv
  BY <1>1 DEF IInv, CpuSound
<1>3. f \in Frames /\ f.pc = "fork" /\ f.r0 = id
  BY AtType DEF At, Frame, Frames, Pcs
<1> HIDE DEF n, f
<1>4. env_tf' \in [Env -> Frames]
  BY <1>1, <1>2, Types, AtType DEF Pcs
<1>5. \A e \in Env : Context(e)' = IF e = curenv THEN f
                                   ELSE IF e = c THEN At("fork") ELSE Context(e)
  BY <1>1, <1>2, <1>3, <1>4, Types, ReturnKeeps, ContextIs
<1>6. TypeOK'
  <2>1. pte' \in [Env -> [Va -> Page \cup {None}]]
    BY <1>1, <1>2, Types
  <2>2. cpu' \in {"user", "idle"} /\ curenv' \in Env \cup {NULL}
        /\ regs' \in Frames /\ kstack_tf' \in Frames
    BY <1>1, <1>2, <1>3, Types DEF Return
  <2>3. env_parent_id' \in [Env -> Id]
    BY <1>1, <1>2, Types
  <2> QED
    BY <1>1, <1>2, <1>4, <2>1, <2>2, <2>3 DEF TypeOK, Frames, Pcs
<1>7. CpuSound'
  BY <1>1, <1>2 DEF Return, IInv, CpuSound, TypeOK
<1>8. /\ \A e \in Env : e # c => env_status'[e] = env_status[e] /\ env_id'[e] = env_id[e]
      /\ env_status'[c] = "not_runnable" /\ env_id'[c] = id /\ recving' = recving
      /\ \A e \in Env : e # c => env_parent_id'[e] = env_parent_id[e]
      /\ env_parent_id'[c] = env_id[curenv]
  BY <1>1, <1>2 DEF TypeOK
<1>9. recving[c] = None
  BY <1>1 DEF IInv, RecvSound
<1>10. \A p \in Env : Forks(p)' =>
         \/ p = curenv /\ id # 0
         \/ Forks(p) /\ Context(p)' = Context(p) /\ p # curenv /\ p # c
  BY <1>3, <1>5, <1>8, AtType DEF Forks, Pcs
<1>11. \A p \in Env : Forks(p) => Context(p).r0 # id
  <2> SUFFICES ASSUME NEW p \in Env, Forks(p), Context(p).r0 = id
               PROVE  FALSE
    OBVIOUS
  <2>1. ChildSound(p)
    BY DEF IInv
  <2> QED
    BY <1>1, <2>1 DEF ChildSound
<1>12. ASSUME NEW e \in Env
       PROVE  FrameSound(e)' /\ RecvSound(e)' /\ ChildSound(e)'
  <2>1. FrameSound(e) /\ RecvSound(e) /\ ChildSound(e)
    BY DEF IInv
  <2>2. FrameSound(e)'
    <3>1. CASE e = curenv
      BY <1>2, <1>3, <1>5, <1>8, <2>1, <3>1 DEF FrameSound
    <3>2. CASE e = c
      BY <1>2, <1>5, <1>8, <3>2, AtType, IdType DEF FrameSound, Pcs
    <3>3. CASE e # curenv /\ e # c
      BY <1>1, <1>5, <1>8, <2>1, <3>3 DEF FrameSound
    <3> QED
      BY <3>1, <3>2, <3>3
  <2>3. RecvSound(e)'
    BY <1>2, <1>5, <1>8, <1>9, <2>1 DEF RecvSound
  <2>4. ChildSound(e)'
    <3> SUFFICES ASSUME Forks(e)', NEW d \in Env, ENVX(Context(e)'.r0) = d
                 PROVE  /\ env_id'[d] = Context(e)'.r0 /\ env_status'[d] = "not_runnable"
                        /\ Context(d)' = At("fork") /\ recving'[d] = None
                        /\ env_parent_id'[d] = env_id'[e]
                        /\ \A q \in Env : Forks(q)' /\ Context(q)'.r0 = Context(e)'.r0
                                            => q = e
      BY DEF ChildSound
    <3>1. CASE e = curenv
      <4>1. Context(e)'.r0 = id /\ d = c
        BY <1>3, <1>5, <3>1
      <4>2. \A q \in Env : Forks(q)' /\ Context(q)'.r0 = id => q = e
        BY <1>10, <1>11, <3>1
      <4>3. env_parent_id'[c] = env_id'[e] /\ Context(c)' = At("fork")
        BY <1>2, <1>5, <1>8, <3>1
      <4> QED
        BY <1>3, <1>5, <1>8, <1>9, <4>1, <4>2, <4>3
    <3>2. CASE e # curenv
      <4>1. Forks(e) /\ Context(e)' = Context(e)
        BY <1>10, <3>2
      <4>2. /\ env_id[d] = Context(e).r0 /\ env_status[d] = "not_runnable"
            /\ Context(d) = At("fork") /\ recving[d] = None
            /\ env_parent_id[d] = env_id[e]
            /\ \A q \in Env : Forks(q) /\ Context(q).r0 = Context(e).r0 => q = e
        BY <2>1, <4>1 DEF ChildSound
      <4>3. d # c /\ d # curenv /\ e # c
        BY <1>1, <1>2, <4>1, <4>2 DEF Forks
      <4>4. \A q \in Env : Forks(q)' /\ Context(q)'.r0 = Context(e)'.r0 => q = e
        BY <1>3, <1>5, <1>10, <1>11, <4>1, <4>2
      <4> QED
        BY <1>5, <1>8, <4>1, <4>2, <4>3, <4>4
    <3> QED
      BY <3>1, <3>2
  <2> QED
    BY <2>2, <2>3, <2>4
<1>13. At("fork").pc = "fork"
  BY AtType DEF Pcs
<1> QED
  BY <1>2, <1>3, <1>5, <1>6, <1>7, <1>8, <1>9, <1>12, <1>13 DEF IInv

\* A step that starts no fork() and leaves the children of others alone.
ForksKept ==
    /\ \A p \in Env : Forks(p)' => Forks(p) /\ Context(p)' = Context(p)
    /\ \A p, c \in Env :
          Forks(p)' /\ env_id[c] = Context(p).r0 /\ env_status[c] = "not_runnable"
             /\ recving[c] = None /\ env_parent_id[c] = env_id[p]
          => /\ env_status'[c] = env_status[c]
             /\ recving'[c] = None /\ Context(c)' = Context(c)

\* A step that starts no fork leaves parents and children as they are.
LEMMA ForksKeptStep ==
  ASSUME IInv, TypeOK', CpuSound', ForksKept, UNCHANGED <<env_id, env_parent_id>>,
         \A e \in Env : FrameSound(e)' /\ RecvSound(e)'
  PROVE  IInv'
<1> SUFFICES ASSUME NEW e \in Env
             PROVE  ChildSound(e)'
  BY DEF IInv
<1> SUFFICES ASSUME Forks(e)', NEW d \in Env, ENVX(Context(e)'.r0) = d
             PROVE  /\ env_id'[d] = Context(e)'.r0 /\ env_status'[d] = "not_runnable"
                    /\ Context(d)' = At("fork") /\ recving'[d] = None
                    /\ env_parent_id'[d] = env_id'[e]
                    /\ \A q \in Env : Forks(q)' /\ Context(q)'.r0 = Context(e)'.r0
                                        => q = e
  BY DEF ChildSound
<1>1. Forks(e) /\ Context(e)' = Context(e) /\ ChildSound(e)
  BY DEF ForksKept, IInv
<1>2. /\ env_id[d] = Context(e).r0 /\ env_status[d] = "not_runnable"
      /\ Context(d) = At("fork") /\ recving[d] = None
      /\ env_parent_id[d] = env_id[e]
      /\ \A q \in Env : Forks(q) /\ Context(q).r0 = Context(e).r0 => q = e
  BY <1>1 DEF ChildSound
<1>3. /\ env_status'[d] = env_status[d]
      /\ recving'[d] = None /\ Context(d)' = Context(d)
  BY <1>1, <1>2 DEF ForksKept
<1>4. \A q \in Env : Forks(q)' /\ Context(q)'.r0 = Context(e)'.r0 => q = e
  BY <1>1, <1>2 DEF ForksKept
<1> QED
  BY <1>1, <1>2, <1>3, <1>4

\* fork() with its result: a parent finds and starts the child that it got.
LEMMA ForkReturnsStep ==
  ASSUME IInv, ForkReturns
  PROVE  /\ IInv'
         /\ \A e \in Env : (env_status[e] = "free") = (env_status'[e] = "free")
         /\ \A e \in Env : e # curenv => Context(e)' = Context(e)
         /\ \A e \in Env : e = curenv => Context(e)' = At("run")
<1>1. /\ TypeOK /\ cpu = "user" /\ curenv \in Env /\ env_status[curenv] = "runnable"
      /\ regs.pc = "fork"
      /\ UNCHANGED <<env_tf, env_id, env_parent_id, next_env_id, recving, whom, pte>>
      /\ Context(curenv) = regs
  BY ContextIs DEF ForkReturns, In, IInv, CpuSound, ipc
<1>2. regs.r0 \in Id
  BY <1>1 DEF IInv, FrameSound
<1>3. CASE regs.r0 = 0
  <2>1. Return(At("run")) /\ UNCHANGED env_status
    BY <1>3 DEF ForkReturns
  <2>2. /\ whom' \in [Env -> Id \cup {NULL}] /\ pte' \in [Env -> [Va -> Page \cup {None}]]
    BY <1>1, Types
  <2> QED
    BY <1>1, <2>1, <2>2, StayStep, AtType DEF Pcs, envs
<1>4. CASE regs.r0 # 0
  <2> PICK c \in Env : ENVX(regs.r0) = c
    BY <1>2, EnvxSlot
  <2>1. Forks(curenv) /\ ChildSound(curenv)
    BY <1>1, <1>4 DEF Forks, IInv
  <2>2. /\ env_id[c] = regs.r0 /\ env_status[c] = "not_runnable"
        /\ Context(c) = At("fork") /\ recving[c] = None /\ c # curenv
        /\ \A q \in Env : Forks(q) /\ Context(q).r0 = regs.r0 => q = curenv
    BY <1>1, <2>1 DEF ChildSound
  <2>3. env_status' = [env_status EXCEPT ![c] = "runnable"] /\ Return(At("run"))
    BY <1>4, <2>2 DEF ForkReturns, Found, FoundBy, Slot
  <2>4. TypeOK'
    BY <1>1, <2>3, Types, AtType DEF Return, TypeOK, Frames, Pcs
  <2>5. \A e \in Env : Context(e)' = IF e = curenv THEN At("run") ELSE Context(e)
    BY <1>1, <2>3, Types, ReturnKeeps, ContextIs, AtType DEF Pcs
  <2>6. CpuSound'
    BY <1>1, <2>2, <2>3 DEF Return, IInv, CpuSound
  <2>7. /\ \A e \in Env : e # c => env_status'[e] = env_status[e]
        /\ env_status'[c] = "runnable"
    BY <1>1, <2>3, Types
  <2>8. ASSUME NEW e \in Env
        PROVE  FrameSound(e)' /\ RecvSound(e)'
    <3>1. FrameSound(e) /\ RecvSound(e)
      BY DEF IInv
    <3>2. CASE e = curenv
      BY <1>1, <2>2, <2>5, <2>7, <3>1, <3>2, AtType DEF FrameSound, RecvSound, Pcs
    <3>3. CASE e = c
      BY <1>1, <2>2, <2>5, <2>7, <3>3, AtType, IdType DEF FrameSound, RecvSound, Pcs
    <3>4. CASE e # curenv /\ e # c
      BY <1>1, <2>5, <2>7, <3>1, <3>4 DEF FrameSound, RecvSound
    <3> QED
      BY <3>2, <3>3, <3>4
  <2>9. \A p \in Env : Forks(p)' => Forks(p) /\ Context(p)' = Context(p) /\ p # curenv
    BY <2>2, <2>5, <2>7, AtType DEF Forks, Pcs
  <2>10. ForksKept
    BY <1>1, <2>2, <2>5, <2>7, <2>9 DEF ForksKept
  <2> QED
    BY <1>1, <2>2, <2>4, <2>5, <2>6, <2>7, <2>8, <2>10, ForksKeptStep
<1> QED
  BY <1>3, <1>4

\* sys_env_destroy(0): nobody else's frame is touched.
LEMMA DestroyStep ==
  ASSUME IInv, SysEnvDestroy
  PROVE  /\ IInv'
         /\ \A e \in Env : e # curenv => Context(e)' = Context(e)
<1> DEFINE status == [env_status EXCEPT ![curenv] = "free"]
<1>1. /\ TypeOK /\ cpu = "user" /\ curenv \in Env /\ env_status[curenv] = "runnable"
      /\ UNCHANGED <<kstack_tf, env_id, env_parent_id, next_env_id, recving, whom>>
      /\ kstack_tf = At("idle")
      /\ env_status' = status /\ pte' = [pte EXCEPT ![curenv] = [va \in Va |-> None]]
      /\ SchedYield(NULL, regs, status, env_tf, kstack_tf)
  BY DEF SysEnvDestroy, In, IInv, CpuSound, ipc
<1>2. /\ status \in [Env -> Status] /\ status[curenv] = "free"
      /\ \A e \in Env : e # curenv => status[e] = env_status[e]
  BY <1>1, Types DEF Status
<1>3. NULL \notin Env
  BY IpcAssumption
<1> HIDE DEF status
<1>4. Yielded(NULL, regs, status, env_tf, kstack_tf)
  BY <1>1, <1>2, Types, YieldKeeps
<1>5. TypeOK'
  <2>1. pte' \in [Env -> [Va -> Page \cup {None}]]
    BY <1>1, Types
  <2> QED
    BY <1>1, <1>2, <1>4, <2>1, Types DEF Yielded, TypeOK, Frames, Pcs, Status
<1>6. \A e \in Env : e # curenv => Context(e)' = Context(e)
  BY <1>1, <1>3, <1>4, ContextIs DEF Yielded
<1>7. CpuSound'
  BY <1>1, <1>4 DEF Yielded, CpuSound, Runnable, Spent
<1>8. ASSUME NEW e \in Env
      PROVE  FrameSound(e)' /\ RecvSound(e)'
  <2>1. FrameSound(e) /\ RecvSound(e)
    BY DEF IInv
  <2>2. CASE e = curenv
    BY <1>1, <1>2, <2>1, <2>2 DEF FrameSound, RecvSound
  <2>3. CASE e # curenv
    BY <1>1, <1>2, <1>6, <2>1, <2>3 DEF FrameSound, RecvSound
  <2> QED
    BY <2>2, <2>3
<1>9. ForksKept
  BY <1>1, <1>2, <1>6 DEF ForksKept, Forks
<1> QED
  BY <1>1, <1>5, <1>6, <1>7, <1>8, <1>9, ForksKeptStep

\* sys_ipc_recv: the caller blocks behind its call; if nobody is left to run,
\* its frame is lost.
LEMMA RecvStep ==
  ASSUME IInv, NEW dstva \in Va, SysIpcRecv(dstva)
  PROVE  /\ IInv'
         /\ \A e \in Env : e # curenv => Context(e)' = Context(e)
<1> DEFINE status == [env_status EXCEPT ![curenv] = "not_runnable"]
           f == Frame("recv", 0, 0, None, dstva)
<1>1. /\ TypeOK /\ cpu = "user" /\ curenv \in Env /\ env_status[curenv] = "runnable"
      /\ UNCHANGED <<kstack_tf, env_id, env_parent_id, next_env_id, whom, pte>>
      /\ kstack_tf = At("idle") /\ env_tf[curenv] \in Spent
      /\ recving' = [recving EXCEPT ![curenv] = dstva]
      /\ env_status' = status
      /\ SchedYield(curenv, f, status, env_tf, kstack_tf)
  BY DEF SysIpcRecv, In, IInv, CpuSound, Yield
<1>2. /\ status \in [Env -> Status] /\ status[curenv] = "not_runnable"
      /\ \A e \in Env : e # curenv => status[e] = env_status[e]
  BY <1>1, Types DEF Status
<1>3. f \in Frames /\ f.pc = "recv" /\ f.va = dstva
  BY IdType DEF Frame, Frames, Pcs
<1> HIDE DEF status, f
<1>4. Yielded(curenv, f, status, env_tf, kstack_tf)
  BY <1>1, <1>2, <1>3, Types, YieldKeeps
<1>5. TypeOK'
  <2>1. recving' \in [Env -> Va \cup {None}]
    BY <1>1, Types
  <2> QED
    BY <1>1, <1>2, <1>4, <2>1, Types DEF Yielded, TypeOK, Frames, Pcs, Status
<1>6. \A e \in Env : e # curenv => Context(e)' = Context(e)
  BY <1>1, <1>4, ContextIs DEF Yielded
<1>7. CpuSound'
  BY <1>1, <1>4 DEF Yielded, CpuSound, Runnable, Spent
<1>8. \A e \in Env : e = curenv =>
         \/ Context(e)' = f
         \/ Context(e)' \in Spent /\ cpu' = "idle" /\ Runnable(env_status)' = {}
  <2>1. CASE Runnable(status) # {}
    BY <1>4, <2>1 DEF Yielded
  <2>2. CASE Runnable(status) = {}
    BY <1>1, <1>4, <2>2 DEF Yielded, Context, Runnable
  <2> QED
    BY <2>1, <2>2
<1>9. ASSUME NEW e \in Env
      PROVE  FrameSound(e)' /\ RecvSound(e)'
  <2>1. FrameSound(e) /\ RecvSound(e)
    BY DEF IInv
  <2>2. CASE e = curenv
    <3>1. recving'[e] = dstva /\ env_status'[e] = "not_runnable" /\ env_id'[e] = env_id[e]
      BY <1>1, <1>2, <2>2, Types
    <3> QED
      BY <1>1, <1>3, <1>8, <2>1, <2>2, <3>1, SpentType DEF FrameSound, RecvSound
  <2>3. CASE e # curenv
    <3>1. recving'[e] = recving[e]
      BY <1>1, <2>3, Types
    <3> QED
      BY <1>1, <1>2, <1>6, <2>1, <2>3, <3>1 DEF FrameSound, RecvSound
  <2> QED
    BY <2>2, <2>3
<1>10. \A p \in Env : Forks(p)' => p # curenv
  BY <1>3, <1>8, SpentType DEF Forks
<1>11. ForksKept
  <2>1. \A p \in Env : Forks(p)' => Forks(p) /\ Context(p)' = Context(p)
    BY <1>1, <1>2, <1>6, <1>10 DEF Forks
  <2>2. \A c \in Env : env_status[c] = "not_runnable" /\ recving[c] = None
           => /\ env_status'[c] = env_status[c]
              /\ recving'[c] = None /\ Context(c)' = Context(c)
    BY <1>1, <1>2, <1>6, Types
  <2> QED
    BY <2>1, <2>2 DEF ForksKept
<1> QED
  BY <1>1, <1>5, <1>6, <1>7, <1>9, <1>11, ForksKeptStep

\* A message reaches a receiver that waits: r0 of its frame is the value.
LEMMA DeliverStep ==
  ASSUME IInv, In("poll"), NEW t \in Env, t = Slot(curenv, regs.to),
         recving[t] # None, Deliver(t), Return(At("run"))
  PROVE  /\ IInv'
         /\ t # curenv /\ recving'[t] = None
         /\ Context(t)' = [Context(t) EXCEPT !.r0 = regs.value]
         /\ \A e \in Env : e \notin {curenv, t} => Context(e)' = Context(e)
         /\ \A e \in Env : e = curenv => Context(e)' = At("run")
<1>1. /\ TypeOK /\ cpu = "user" /\ curenv \in Env /\ env_status[curenv] = "runnable"
      /\ regs.pc = "poll" /\ Context(curenv) = regs
      /\ recving' = [recving EXCEPT ![t] = None]
      /\ whom' = [whom EXCEPT ![t] = env_id[curenv]]
      /\ env_tf' = [env_tf EXCEPT ![t].r0 = regs.value]
      /\ env_status' = [env_status EXCEPT ![t] = "runnable"]
      /\ pte' = IF regs.va = "zero" THEN pte
                ELSE [pte EXCEPT ![t][recving[t]] = pte[curenv][regs.va]]
      /\ UNCHANGED <<env_id, env_parent_id, next_env_id>>
  BY ContextIs DEF In, IInv, CpuSound, Deliver
<1>2. regs.value \in Value
  BY <1>1 DEF IInv, FrameSound
<1>3. /\ env_status[t] = "not_runnable" /\ t # curenv /\ Context(t) = env_tf[t]
      /\ Context(t).pc \in {"recv", "run"}
  BY <1>1, ContextIs, SpentType DEF IInv, RecvSound, FrameSound
<1>4. /\ env_tf[t] \in Frames
      /\ [env_tf[t] EXCEPT !.r0 = regs.value] \in Frames
      /\ [env_tf[t] EXCEPT !.r0 = regs.value].pc \in {"recv", "run"}
      /\ env_tf' = [env_tf EXCEPT ![t] = [env_tf[t] EXCEPT !.r0 = regs.value]]
  BY <1>1, <1>2, <1>3, Types DEF Frames
<1>5. env_tf' \in [Env -> Frames]
  BY <1>4, Types, <1>1
<1>6. /\ \A e \in Env : e \notin {curenv, t} => Context(e)' = Context(e)
      /\ \A e \in Env : e = curenv => Context(e)' = At("run")
      /\ Context(t)' = [Context(t) EXCEPT !.r0 = regs.value]
      /\ Context(t)'.pc \in {"recv", "run"}
  <2>1. \A e \in Env : Context(e)' = IF e = curenv THEN At("run") ELSE env_tf'[e]
    BY <1>1, <1>5, ReturnKeeps, AtType DEF Pcs
  <2>2. \A e \in Env : env_tf'[e] = IF e = t THEN [env_tf[t] EXCEPT !.r0 = regs.value]
                                     ELSE env_tf[e]
    BY <1>1, <1>4, Types
  <2>3. Context(t)' = env_tf'[t]
    BY <1>3, <2>1
  <2>4. \A e \in Env : e # curenv => Context(e) = env_tf[e]
    BY ContextIs
  <2> QED
    BY <1>3, <1>4, <2>1, <2>2, <2>3, <2>4
<1>7. /\ recving'[t] = None /\ env_status'[t] = "runnable"
      /\ \A e \in Env : e # t => recving'[e] = recving[e] /\ env_status'[e] = env_status[e]
  BY <1>1, Types
<1>8. TypeOK'
  <2>1. pte' \in [Env -> [Va -> Page \cup {None}]]
    <3>1. recving[t] \in Va /\ regs.va \in Va
      BY <1>1, Types DEF Frames
    <3> QED
      BY <1>1, <3>1, Types
  <2>2. /\ env_status' \in [Env -> Status] /\ recving' \in [Env -> Va \cup {None}]
        /\ whom' \in [Env -> Id \cup {NULL}]
    BY <1>1, Types DEF Status
  <2>3. /\ cpu' \in {"user", "idle"} /\ curenv' \in Env \cup {NULL}
        /\ regs' \in Frames /\ kstack_tf' \in Frames
    BY <1>1, <1>5, ReturnKeeps, AtType DEF Pcs
  <2> QED
    BY <1>1, <1>5, <2>1, <2>2, <2>3 DEF TypeOK, Frames, Pcs, Status
<1>9. CpuSound'
  BY <1>1, <1>3, <1>4, <1>7, Types DEF Return, IInv, CpuSound
<1>10. ASSUME NEW e \in Env
       PROVE  FrameSound(e)' /\ RecvSound(e)'
  <2>1. FrameSound(e) /\ RecvSound(e)
    BY DEF IInv
  <2>2. CASE e = curenv
    BY <1>1, <1>3, <1>6, <1>7, <2>1, <2>2, AtType DEF FrameSound, RecvSound, Pcs
  <2>3. CASE e = t
    BY <1>1, <1>3, <1>6, <1>7, <2>1, <2>3 DEF FrameSound, RecvSound
  <2>4. CASE e \notin {curenv, t}
    BY <1>1, <1>6, <1>7, <2>1, <2>4 DEF FrameSound, RecvSound
  <2> QED
    BY <2>2, <2>3, <2>4
<1>11. ForksKept
  <2>1. \A p \in Env : Forks(p)' => p # curenv /\ p # t
    BY <1>6, AtType DEF Forks, Pcs
  <2> QED
    BY <1>1, <1>3, <1>6, <1>7, <2>1 DEF Forks, ForksKept
<1> QED
  BY <1>1, <1>3, <1>6, <1>7, <1>8, <1>9, <1>10, <1>11, ForksKeptStep

\* The program that runs, when it is at pc.
LEMMA Running ==
  ASSUME IInv, NEW pc, In(pc)
  PROVE  /\ TypeOK /\ cpu = "user" /\ curenv \in Env /\ env_status[curenv] = "runnable"
         /\ regs \in Frames /\ regs.pc = pc /\ Context(curenv) = regs
         /\ recving[curenv] = None /\ ENVX(env_id[curenv]) = curenv
         /\ whom \in [Env -> Id \cup {NULL}] /\ pte \in [Env -> [Va -> Page \cup {None}]]
<1>1. TypeOK /\ cpu = "user" /\ curenv \in Env /\ env_status[curenv] = "runnable"
      /\ regs.pc = pc
  BY DEF In, IInv, CpuSound
<1> QED
  BY <1>1, Types, ContextIs DEF IInv, FrameSound, RecvSound

\* sys_ipc_can_send returns without a message sent.
LEMMA RefusedStep ==
  ASSUME IInv, In("poll"), UNCHANGED <<env_tf, envs, ipc, pte>>,
         NEW r \in {"ok", "E_IPC_NOT_RECV", "E_INVAL"}, Result(r)
  PROVE  /\ IInv'
         /\ \A e \in Env : e # curenv => Context(e)' = Context(e)
         /\ \A e \in Env : e = curenv =>
               IF r = "E_IPC_NOT_RECV" THEN Context(e)' = [Context(e) EXCEPT !.pc = "yield"]
               ELSE Context(e)' \in {At("run"), At("panic")}
<1>1. regs.value \in Value
  BY Running DEF IInv, FrameSound
<1>2. PICK f \in Frames : /\ Return(f)
                          /\ f.pc \in {"run", "panic", "poll", "yield"}
                          /\ f.pc \in {"poll", "yield"} => f.value \in Value
                          /\ IF r = "E_IPC_NOT_RECV" THEN f = [regs EXCEPT !.pc = "yield"]
                             ELSE f \in {At("run"), At("panic")}
  <2>1. /\ [regs EXCEPT !.pc = "yield"] \in Frames
        /\ [regs EXCEPT !.pc = "yield"].pc = "yield"
        /\ [regs EXCEPT !.pc = "yield"].value = regs.value
    BY Running DEF Frames, Pcs
  <2>2. At("run") \in Frames /\ At("run").pc = "run" /\ At("panic") \in Frames
        /\ At("panic").pc = "panic"
    BY AtType DEF Pcs
  <2>3. CASE r = "E_IPC_NOT_RECV"
    BY <1>1, <2>1, <2>3 DEF Result
  <2>4. CASE r = "ok"
    BY <2>2, <2>4 DEF Result
  <2>5. CASE r = "E_INVAL"
    BY <2>2, <2>5 DEF Result
  <2> QED
    BY <2>3, <2>4, <2>5
<1>3. /\ whom' \in [Env -> Id \cup {NULL}] /\ pte' \in [Env -> [Va -> Page \cup {None}]]
      /\ UNCHANGED <<env_tf, envs, recving>>
  BY Running DEF ipc
<1>4. IInv' /\ \A e \in Env : Context(e)' = IF e = curenv THEN f ELSE Context(e)
  BY <1>2, <1>3, Running, StayStep
<1> QED
  BY <1>2, <1>4, Running

\* The cases of sys_ipc_can_send: nobody there, nobody receiving, no page at
\* srcva, no table for the page at dstva, and delivery.
LEMMA CanSendCases ==
  ASSUME IInv, SysIpcCanSend
  PROVE  \E t \in Env :
           /\ In("poll") /\ t = Slot(curenv, regs.to)
           /\ \/ /\ UNCHANGED <<env_tf, envs, ipc, pte>>
                 /\ \/ ~ Found(regs.to) /\ Result("E_INVAL")
                    \/ Found(regs.to) /\ recving[t] = None /\ Result("E_IPC_NOT_RECV")
                    \/ Found(regs.to) /\ recving[t] # None /\ Result("ok")
                    \/ Found(regs.to) /\ recving[t] # None /\ Result("E_INVAL")
              \/ /\ Found(regs.to) /\ recving[t] # None
                 /\ regs.va # "zero" => pte[curenv][regs.va] # None
                 /\ Deliver(t) /\ Return(At("run"))
<1>1. In("poll")
  BY DEF SysIpcCanSend
<1>2. Slot(curenv, regs.to) \in Env
  BY <1>1, Running, EnvxSlot DEF Slot, Frames
<1>3. Result("ok") => Return(At("run"))
  BY DEF Result
<1> QED
  BY <1>1, <1>2, <1>3 DEF SysIpcCanSend

\* sys_ipc_can_send delivers, or leaves the frames of the others alone.
LEMMA CanSendStep ==
  ASSUME IInv, SysIpcCanSend
  PROVE  /\ IInv'
         /\ \A e \in Env : e # curenv =>
               \/ Context(e)' = Context(e)
               \/ /\ recving[e] # None /\ recving'[e] = None
                  /\ Context(e)' = [Context(e) EXCEPT !.r0 = Context(e)'.r0]
<1> PICK t \in Env :
      /\ In("poll") /\ t = Slot(curenv, regs.to)
      /\ \/ /\ UNCHANGED <<env_tf, envs, ipc, pte>>
            /\ Result("E_INVAL") \/ Result("E_IPC_NOT_RECV") \/ Result("ok")
         \/ recving[t] # None /\ Deliver(t) /\ Return(At("run"))
  BY CanSendCases
<1>1. CASE UNCHANGED <<env_tf, envs, ipc, pte>> /\ Result("E_INVAL")
  BY <1>1, RefusedStep
<1>2. CASE UNCHANGED <<env_tf, envs, ipc, pte>> /\ Result("E_IPC_NOT_RECV")
  BY <1>2, RefusedStep
<1>3. CASE UNCHANGED <<env_tf, envs, ipc, pte>> /\ Result("ok")
  BY <1>3, RefusedStep
<1>4. CASE recving[t] # None /\ Deliver(t) /\ Return(At("run"))
  <2>1. /\ IInv' /\ recving'[t] = None
        /\ Context(t)' = [Context(t) EXCEPT !.r0 = regs.value]
        /\ \A e \in Env : e \notin {curenv, t} => Context(e)' = Context(e)
    BY <1>4, DeliverStep
  <2>2. Context(t) \in Frames
    BY Types DEF IInv
  <2>3. Context(t)' = [Context(t) EXCEPT !.r0 = Context(t)'.r0]
    BY <2>1, <2>2 DEF Frames
  <2> QED
    BY <1>4, <2>1, <2>3
<1> QED
  BY <1>1, <1>2, <1>3, <1>4

\* The other calls of the program that runs.
LEMMA SysYieldStep ==
  ASSUME IInv, SysYield
  PROVE  IInv' /\ \A e \in Env : Context(e)' = Context(e)
<1>1. Yield(regs, env_status) /\ UNCHANGED <<envs, ipc, pte>> /\ GoesOn(regs)
  BY DEF SysYield, GoesOn
<1>2. In("run")
  BY DEF SysYield
<1> QED
  BY <1>1, <1>2, Running, YieldStep

\* ipc_send polls again after it has yielded.
LEMMA SendYieldsStep ==
  ASSUME IInv, SendYields
  PROVE  /\ IInv'
         /\ \A e \in Env : Context(e)' = IF e = curenv THEN [regs EXCEPT !.pc = "poll"]
                                          ELSE Context(e)
<1>1. In("yield")
  BY DEF SendYields
<1>2. regs.value \in Value
  BY <1>1, Running DEF IInv, FrameSound
<1>3. [regs EXCEPT !.pc = "poll"] \in Frames /\ GoesOn([regs EXCEPT !.pc = "poll"])
  BY <1>1, <1>2, Running DEF Frames, Pcs, GoesOn
<1> QED
  BY <1>1, <1>3, Running, YieldStep DEF SendYields

\* fork without a free slot returns to its program.
LEMMA ForkFailsStep ==
  ASSUME IInv, ForkFails
  PROVE  /\ IInv'
         /\ \A e \in Env : Context(e)' = IF e = curenv THEN At("panic") ELSE Context(e)
<1>1. In("run")
  BY DEF ForkFails
<1> QED
  BY <1>1, Running, StayStep, AtType DEF ForkFails, Pcs, ipc

\* ipc_recv returns to its program with the message.
LEMMA RecvReturnsStep ==
  ASSUME IInv, RecvReturns
  PROVE  /\ IInv'
         /\ \A e \in Env : Context(e)' = IF e = curenv THEN At("run") ELSE Context(e)
<1>1. In("recv")
  BY DEF RecvReturns
<1>2. whom' \in [Env -> Id \cup {NULL}]
  BY <1>1, Running DEF RecvReturns
<1> QED
  BY <1>1, <1>2, Running, StayStep, AtType DEF RecvReturns, Pcs

\* Mapping and unmapping the buffer leave frames and receivers alone.
LEMMA SysMemStep ==
  ASSUME IInv, NEW p \in Page \cup {None}, SysMem(p)
  PROVE  IInv' /\ \A e \in Env : Context(e)' = Context(e)
<1>1. In("run")
  BY DEF SysMem
<1>2. pte' \in [Env -> [Va -> Page \cup {None}]]
  BY <1>1, Running DEF SysMem
<1> QED
  BY <1>1, <1>2, Running, StayStep DEF SysMem, ipc

\* A program enters ipc_send.
LEMMA IpcSendStep ==
  ASSUME IInv, NEW to \in Id, NEW v \in Value, NEW srcva \in Va, IpcSend(to, v, srcva)
  PROVE  /\ IInv'
         /\ \A e \in Env : Context(e)' = IF e = curenv THEN Frame("poll", 0, to, v, srcva)
                                          ELSE Context(e)
<1> DEFINE f == Frame("poll", 0, to, v, srcva)
<1>1. In("run") /\ Return(f) /\ UNCHANGED <<env_tf, envs, recving, whom, pte>>
  BY DEF IpcSend, ipc
<1>2. f \in Frames /\ f.pc = "poll" /\ f.value = v
  BY IdType DEF Frame, Frames, Pcs
<1> HIDE DEF f
<1> QED
  BY <1>1, <1>2, Running, StayStep DEF f

\* sys_set_trapframe: the frame of a child of the caller, which is not in the
\* middle of a fork(), or the frame that the caller's own will overwrite.
LEMMA SetTrapframeStep ==
  ASSUME IInv, NEW id \in Id, SysSetTrapframe(id)
  PROVE  /\ IInv'
         /\ \A e \in Env : \/ Context(e)' = Context(e)
                           \/ e # curenv /\ env_id[e] = id
                              /\ env_parent_id[e] = env_id[curenv]
<1> PICK s \in Env : s = Slot(curenv, id)
  BY Running, EnvxSlot DEF Slot, SysSetTrapframe
<1>1. /\ In("run") /\ ~ FramesLeftAlone /\ env_status[s] # "free"
      /\ s = curenv \/ env_parent_id[s] = env_id[curenv]
      /\ s # curenv => env_id[s] = id
      /\ env_tf' = [env_tf EXCEPT ![s] = At("run")]
      /\ Return(regs)
      /\ UNCHANGED <<env_status, env_id, env_parent_id, next_env_id, recving, whom, pte>>
  BY DEF SysSetTrapframe, Found, FoundBy, Slot, envs, ipc, FramesLeftAlone
<1>2. /\ TypeOK /\ cpu = "user" /\ curenv \in Env /\ env_status[curenv] = "runnable"
      /\ regs \in Frames /\ Context(curenv) = regs /\ regs.pc = "run"
  BY <1>1, Running
<1>3. At("run") \in Frames /\ At("run").pc = "run" /\ At("run") \in Spent
  BY <1>1, AtType DEF Pcs, Spent
<1>4. env_tf' \in [Env -> Frames]
  BY <1>1, <1>3, Types, <1>2
<1>5. \A e \in Env : Context(e)' = IF e = s /\ e # curenv THEN At("run") ELSE Context(e)
  BY <1>1, <1>2, <1>4, Types, ReturnKeeps, ContextIs
<1>6. TypeOK'
  BY <1>1, <1>2, <1>4, Types DEF Return, TypeOK, Frames, Pcs
<1>7. CpuSound'
  BY <1>1, <1>2, <1>3, Types DEF Return, IInv, CpuSound
<1>8. CASE s = curenv
  BY <1>1, <1>2, <1>5, <1>6, <1>7, <1>8, LocalStep
<1>9. CASE s # curenv
  <2>1. ASSUME NEW e \in Env
        PROVE  FrameSound(e)' /\ RecvSound(e)'
    <3>1. FrameSound(e) /\ RecvSound(e)
      BY DEF IInv
    <3>2. CASE e = s
      BY <1>1, <1>3, <1>5, <1>9, <3>1, <3>2 DEF FrameSound, RecvSound
    <3>3. CASE e # s
      BY <1>1, <1>2, <1>5, <3>1, <3>3 DEF FrameSound, RecvSound
    <3> QED
      BY <3>2, <3>3
  <2>2. \A p \in Env : Forks(p)' => Forks(p) /\ Context(p)' = Context(p)
    BY <1>1, <1>3, <1>5 DEF Forks
  <2>3. \A p \in Env : Forks(p) => env_id[p] # env_id[curenv]
    BY <1>2 DEF Forks, IInv, FrameSound
  <2>4. ForksKept
    BY <1>1, <1>5, <1>9, <2>2, <2>3 DEF ForksKept
  <2>5. IInv'
    BY <1>1, <1>6, <1>7, <2>1, <2>4, ForksKeptStep
  <2> QED
    BY <1>1, <1>5, <1>9, <2>5
<1> QED
  BY <1>8, <1>9

\* Every step keeps the invariant and the frames of the others.
LEMMA IpcStep ==
  ASSUME IInv, Next
  PROVE  IInv' /\ Kept
<1>1. CASE Timer
  BY <1>1, TimerStep DEF Kept
<1>2. CASE ~ Timer
  <2>1. cpu = "user"
    BY <1>2 DEF Next, In, SysYield, SendYields, ForkFails, RecvReturns, SysMem, IpcSend,
                ForkReturns, SysIpcCanSend, SysEnvDestroy, SysEnvAlloc, SysIpcRecv,
                SysSetTrapframe
  <2> SUFFICES /\ IInv'
               /\ \A e \in Env : env_status[e] # "free" /\ e # curenv =>
                     \/ Context(e)' = Context(e)
                     \/ /\ recving[e] # None /\ recving'[e] = None
                        /\ Context(e)' = [Context(e) EXCEPT !.r0 = Context(e)'.r0]
                     \/ SysSetTrapframe(env_id[e]) /\ env_parent_id[e] = env_id[curenv]
    BY <1>2, <2>1 DEF Kept
  <2>2. CASE ForkReturns
    BY <2>2, ForkReturnsStep
  <2>3. CASE SysIpcCanSend
    BY <2>3, CanSendStep
  <2>4. CASE SysEnvDestroy
    BY <2>4, DestroyStep
  <2>5. ASSUME NEW c \in Env, SysEnvAlloc(c)
        PROVE  /\ IInv'
               /\ \A e \in Env : env_status[e] # "free" /\ e # curenv
                                  => Context(e)' = Context(e)
    <3>1. env_status[c] = "free"
      BY <2>5 DEF SysEnvAlloc
    <3> QED
      BY <2>5, <3>1, AllocStep
  <2>6. ASSUME NEW dstva \in Va, SysIpcRecv(dstva)
        PROVE  /\ IInv'
               /\ \A e \in Env : e # curenv => Context(e)' = Context(e)
    BY <2>6, RecvStep
  <2>7. ASSUME NEW x \in Peers, NEW v \in Value, NEW srcva \in Va,
               IpcSend(env_id[x], v, srcva)
        PROVE  /\ IInv'
               /\ \A e \in Env : e # curenv => Context(e)' = Context(e)
    <3>1. env_id[x] \in Id
      BY Types, IpcAssumption DEF IInv
    <3> QED
      BY <2>7, <3>1, IpcSendStep
  <2>8. ASSUME NEW x \in Env, SysSetTrapframe(env_id[x])
        PROVE  /\ IInv'
               /\ \A e \in Env : \/ Context(e)' = Context(e)
                                 \/ /\ SysSetTrapframe(env_id[e])
                                    /\ env_parent_id[e] = env_id[curenv]
    <3>1. PICK id \in Id : id = env_id[x]
      BY Types DEF IInv
    <3>2. SysSetTrapframe(id)
      BY <2>8, <3>1
    <3>3. /\ IInv'
          /\ \A e \in Env : \/ Context(e)' = Context(e)
                            \/ env_id[e] = id /\ env_parent_id[e] = env_id[curenv]
      BY <3>2, SetTrapframeStep
    <3> QED
      BY <3>2, <3>3
  <2> QED
    BY <1>2, <2>2, <2>3, <2>4, <2>5, <2>6, <2>7, <2>8, SysYieldStep, SendYieldsStep, ForkFailsStep,
       RecvReturnsStep, SysMemStep DEF Next
<1> QED
  BY <1>1, <1>2

\* Nothing that the invariant is about changes in a stuttering step.
LEMMA IpcStutter ==
  ASSUME IInv, UNCHANGED vars
  PROVE  IInv'
<1>1. /\ cpu' = cpu /\ curenv' = curenv /\ regs' = regs /\ env_tf' = env_tf
      /\ kstack_tf' = kstack_tf /\ env_status' = env_status /\ env_id' = env_id
      /\ env_parent_id' = env_parent_id /\ next_env_id' = next_env_id
      /\ recving' = recving /\ whom' = whom /\ pte' = pte
  BY DEF vars, envs, ipc
<1>2. TypeOK'
  BY <1>1 DEF IInv, TypeOK
<1>3. \A e \in Env : Context(e)' = Context(e)
  BY <1>1 DEF Context
<1>4. CpuSound'
  BY <1>1 DEF IInv, CpuSound, Runnable
<1>5. Runnable(env_status)' = Runnable(env_status)
  BY <1>1 DEF Runnable
<1> QED
  BY <1>1, <1>2, <1>3, <1>4, <1>5, LocalStep DEF IInv, CpuSound

\* The invariant holds in every reachable state.
LEMMA Invariant == Spec => []IInv
BY IpcInit, IpcStep, IpcStutter, PTL DEF Spec
-----------------------------------------------------------------------------
(* Theorems                                                                *)

\* Every variable keeps its type: r0 of a frame is an identifier or a value,
\* however many frames are saved, given up and written to by senders.
THEOREM TypeCorrect == Spec => []TypeOK
BY Invariant, PTL DEF IInv

\* FramesSeparate, the two places of load_trapframe: the frame at KSTACKTOP
\* is the idle loop's, and whoever may run again has a frame of its own.
THEOREM FramesApart == Spec => []FramesSeparate
<1>1. IInv => FramesSeparate
  BY DEF IInv, CpuSound, FrameSound, FramesSeparate
<1> QED
  BY <1>1, Invariant, PTL

\* ForkSound, between sys_env_alloc and sys_set_env_status: the child of a
\* fork() is still there, in the frame it was given, and no one else's.
THEOREM ChildWaits == Spec => []ForkSound
BY Invariant, ForkSoundHolds, PTL

\* ContextsKept, the comment of env_run "save register state of curenv": no
\* step changes the frame of another, but for r0 of who gets its message, and
\* for a child whose own parent calls sys_set_trapframe.
THEOREM FramesKept == Spec => ContextsKept
<1>1. IInv /\ [Next]_vars => [Kept]_vars
  BY IpcStep
<1> QED
  BY <1>1, Invariant, PTL DEF Spec, ContextsKept, Kept
-----------------------------------------------------------------------------
(* The rendezvous: what each step does to phase, inbox and offer, as long  *)
(* as no frame is set that takes a program out of ipc_send or ipc_recv     *)

\* What the other programs see of e, and what e sees of its message.
Seen(e) ==
    /\ Phase(e) = IF env_status[e] = "free" THEN "absent"
                  ELSE IF recving[e] # None THEN "waiting"
                  ELSE IF Context(e).pc = "recv" THEN "served" ELSE "awake"
    /\ InboxOf(e) =
          IF Phase(e) = "waiting" THEN Messages!Empty(pte[e][recving[e]])
          ELSE IF Phase(e) = "served"
          THEN [value |-> Context(e).r0, from |-> ENVX(whom[e]), page |-> pte[e][Context(e).va]]
          ELSE Messages!Empty(None)

\* What the rendezvous sees of an environment, by what it is doing
LEMMA ViewIs == \A e \in Env : Seen(e)
BY DEF Seen, Phase, InboxOf, Messages!Empty

\* ... and the same in the next state.
LEMMA NextViewIs == \A e \in Env : Seen(e)'
<1>1. (\A e \in Env : Seen(e))'
  BY ViewIs, PTL
<1> QED
  BY <1>1

\* An environment that nothing happens to.
Untouched(e) ==
    /\ (env_status'[e] = "free") = (env_status[e] = "free")
    /\ recving'[e] = recving[e] /\ whom'[e] = whom[e]
    /\ pte'[e] = pte[e] /\ Context(e)' = Context(e)

\* Who is left alone is seen as before.
LEMMA SameView ==
  ASSUME NEW e \in Env, Untouched(e)
  PROVE  Phase(e)' = Phase(e) /\ InboxOf(e)' = InboxOf(e)
<1>1. Phase(e)' = Phase(e)
  BY DEF Phase, Untouched
<1> QED
  BY <1>1 DEF InboxOf, Untouched

\* Identifiers mean the same before and after.
SameIds ==
    /\ \A e \in Env : (env_status'[e] = "free") = (env_status[e] = "free")
    /\ env_id' = env_id

\* Who is left alone offers what it did before.
LEMMA SameOffer ==
  ASSUME IInv, SameIds, NEW e \in Env, Untouched(e)
  PROVE  OfferOf(e)' = OfferOf(e)
<1>1. PICK id \in Id : Context(e).to = id /\ Context(e)'.to = id
  BY Types DEF IInv, Frames, Untouched
<1>2. Slot(e, id) \in Env
  BY EnvxSlot DEF Slot
<1>3. FoundBy(e, id)' = FoundBy(e, id)
  BY <1>2 DEF FoundBy, SameIds
<1>4. Phase(e)' = Phase(e)
  BY SameView
<1> QED
  BY <1>1, <1>3, <1>4 DEF OfferOf, Untouched

\* A step that nobody notices.
LEMMA QuietStep ==
  ASSUME IInv, IInv', SameIds, NEW cur \in Env, cur = curenv,
         \A e \in Env : e # cur => Untouched(e),
         \/ Untouched(cur)
         \/ /\ Phase(cur) = "awake" /\ Phase(cur)' = "awake"
            /\ OfferOf(cur)' = OfferOf(cur)
  PROVE  UNCHANGED Messages!vars
<1> SUFFICES ASSUME NEW e \in Env
             PROVE  /\ Phase(e)' = Phase(e) /\ InboxOf(e)' = InboxOf(e)
                    /\ OfferOf(e)' = OfferOf(e)
  BY DEF Messages!vars
<1>1. CASE Untouched(e)
  BY <1>1, SameView, SameOffer
<1>2. CASE ~ Untouched(e)
  <2>1. e = cur
    BY <1>2
  <2>2. Phase(e) = "awake" => InboxOf(e) = Messages!Empty(None)
    BY ViewIs DEF Seen
  <2>3. Phase(e)' = "awake" => InboxOf(e)' = Messages!Empty(None)'
    BY NextViewIs DEF Seen
  <2>4. Messages!Empty(None)' = Messages!Empty(None)
    BY DEF Messages!Empty
  <2> QED
    BY <1>2, <2>1, <2>2, <2>3, <2>4
<1> QED
  BY <1>1, <1>2

\* The environment that was running, in code of its own before and after.
LEMMA SilentStep ==
  ASSUME IInv, IInv', SameIds, In("run") \/ In("fork"),
         recving' = recving,
         \A e \in Env : e # curenv => Untouched(e),
         \A e \in Env : e = curenv => Context(e)'.pc \in {"run", "fork", "panic"}
  PROVE  UNCHANGED Messages!vars
<1> PICK cur \in Env : cur = curenv
  BY Running
<1>1. /\ env_status[cur] # "free" /\ recving[cur] = None
      /\ Context(cur).pc \in {"run", "fork"}
  BY Running
<1>2. /\ env_status'[cur] # "free" /\ recving'[cur] = None
      /\ Context(cur)'.pc \in {"run", "fork", "panic"}
  BY <1>1 DEF SameIds
<1>3. Phase(cur) = "awake" /\ Phase(cur)' = "awake"
  BY <1>1, <1>2 DEF Phase
<1>4. OfferOf(cur) = None /\ OfferOf(cur)' = None
  BY <1>1, <1>2 DEF OfferOf
<1> QED
  BY <1>3, <1>4, QuietStep

\* Interrupts, sys_yield, and the calls of fork() and sys_mem_alloc: no message
\* is on its way.
LEMMA QuietCalls ==
  ASSUME IInv, IInv',
         \/ Timer \/ SysYield \/ SendYields \/ ForkFails \/ ForkReturns
         \/ \E p \in Page \cup {None} : SysMem(p)
  PROVE  UNCHANGED Messages!vars
<1>1. CASE \A e \in Env : Untouched(e) /\ SameIds
  BY <1>1, SameView, SameOffer DEF Messages!vars
<1>2. CASE Timer
  BY <1>1, <1>2, TimerStep DEF Timer, envs, ipc, SameIds, Untouched
<1>3. CASE SysYield
  BY <1>1, <1>3, SysYieldStep DEF SysYield, envs, ipc, SameIds, Untouched
<1>4. CASE SendYields
  <2> PICK cur \in Env : cur = curenv
    BY <1>4, Running DEF SendYields
  <2>1. /\ regs \in Frames /\ Context(cur) = regs /\ regs.pc = "yield"
        /\ env_status[cur] = "runnable" /\ recving[cur] = None
    BY <1>4, Running DEF SendYields
  <2>2. /\ \A e \in Env : e # cur => Untouched(e)
        /\ SameIds /\ Context(cur)' = [regs EXCEPT !.pc = "poll"]
        /\ UNCHANGED <<env_status, env_id, recving, whom, pte>>
    BY <1>4, SendYieldsStep DEF SendYields, envs, ipc, SameIds, Untouched
  <2>3. /\ Context(cur)'.pc = "poll" /\ Context(cur)'.to = Context(cur).to
        /\ Context(cur)'.value = Context(cur).value /\ Context(cur)'.va = Context(cur).va
    BY <2>1, <2>2 DEF Frames
  <2>4. Phase(cur) = "awake" /\ Phase(cur)' = "awake"
    BY <2>1, <2>2, <2>3 DEF Phase
  <2>5. OfferOf(cur)' = OfferOf(cur)
    <3>1. PICK id : id = Context(cur).to /\ id = Context(cur)'.to
      BY <2>3
    <3>2. FoundBy(cur, id)' = FoundBy(cur, id)
      BY <2>2 DEF FoundBy
    <3> QED
      BY <2>1, <2>2, <2>3, <2>4, <3>1, <3>2 DEF OfferOf
  <2> QED
    BY <2>2, <2>4, <2>5, QuietStep
<1>5. CASE ForkFails
  BY <1>5, ForkFailsStep, SilentStep, AtType DEF ForkFails, envs, ipc, SameIds, Untouched, Pcs
<1>6. CASE ForkReturns
  <2>1. \A e \in Env : e # curenv => Untouched(e)
    BY <1>6, ForkReturnsStep DEF ForkReturns, ipc, Untouched
  <2>2. SameIds /\ In("fork") /\ recving' = recving
    BY <1>6, ForkReturnsStep DEF ForkReturns, ipc, SameIds
  <2>3. \A e \in Env : e = curenv => Context(e)'.pc = "run"
    BY <1>6, ForkReturnsStep, AtType DEF Pcs
  <2> QED
    BY <2>1, <2>2, <2>3, SilentStep
<1>7. ASSUME NEW p \in Page \cup {None}, SysMem(p)
      PROVE  UNCHANGED Messages!vars
  <2>1. In("run") /\ SameIds /\ recving' = recving /\ whom' = whom
        /\ pte' = [pte EXCEPT ![curenv]["buffer"] = p]
        /\ env_status' = env_status
    BY <1>7 DEF SysMem, envs, ipc, SameIds
  <2>2. \A e \in Env : Context(e)' = Context(e)
    BY <1>7, SysMemStep
  <2>3. \A e \in Env : e # curenv => Untouched(e)
    BY <2>1, <2>2, Running DEF Untouched
  <2>4. \A e \in Env : e = curenv => Context(e)'.pc = "run"
    BY <2>1, <2>2, Running
  <2> QED
    BY <2>1, <2>3, <2>4, SilentStep
<1> QED
  BY <1>2, <1>3, <1>4, <1>5, <1>6, <1>7

\* A receiver that was served looks at its message.
LEMMA TakeStep ==
  ASSUME IInv, IInv', RecvReturns
  PROVE  \E t \in Env : Messages!Take(t)
<1> PICK cur \in Env : cur = curenv
  BY Running DEF RecvReturns
<1>1. /\ env_status[cur] = "runnable" /\ recving[cur] = None /\ Context(cur).pc = "recv"
      /\ whom' = [whom EXCEPT ![cur] = NULL] /\ whom \in [Env -> Id \cup {NULL}]
      /\ UNCHANGED <<env_status, env_id, recving, pte>>
  BY Running DEF RecvReturns, envs
<1>2. /\ \A e \in Env : e # cur => Untouched(e)
      /\ SameIds /\ Context(cur)'.pc = "run"
  BY <1>1, RecvReturnsStep, AtType DEF SameIds, Untouched, Pcs
<1>3. Phase(cur) = "served" /\ Phase(cur)' = "awake"
  BY <1>1, <1>2 DEF Phase
<1>4. InboxOf(cur)' = Messages!Empty(None)
  BY <1>3, NextViewIs DEF Seen, Messages!Empty
<1>5. OfferOf(cur)' = OfferOf(cur)
  BY <1>2, <1>3 DEF OfferOf
<1>6. \A e \in Env : e # cur => /\ Phase(e)' = Phase(e) /\ InboxOf(e)' = InboxOf(e)
                                /\ OfferOf(e)' = OfferOf(e)
  BY <1>2, SameView, SameOffer
<1> QED
  BY <1>3, <1>4, <1>5, <1>6 DEF Messages!Take, Messages!Turn, Messages!Empty

\* A program starts to wait, with nothing to send.
LEMMA WaitStep ==
  ASSUME IInv, IInv', NEW dstva \in Va, SysIpcRecv(dstva)
  PROVE  \E t \in Env : Messages!Wait(t)
<1> PICK cur \in Env : cur = curenv
  BY Running DEF SysIpcRecv
<1>1. /\ env_status[cur] = "runnable" /\ recving[cur] = None /\ Context(cur).pc = "run"
      /\ recving' = [recving EXCEPT ![cur] = dstva] /\ recving \in [Env -> Va \cup {None}]
      /\ env_status' = [env_status EXCEPT ![cur] = "not_runnable"]
      /\ env_status \in [Env -> Status]
      /\ UNCHANGED <<env_id, whom, pte>> /\ pte \in [Env -> [Va -> Page \cup {None}]]
  BY Running, Types DEF SysIpcRecv
<1>2. /\ \A e \in Env : e # cur => Untouched(e)
      /\ SameIds /\ recving'[cur] = dstva /\ env_status'[cur] # "free"
  BY <1>1, RecvStep DEF SameIds, Untouched
<1>3. dstva # None
  BY IpcAssumption
<1>4. Phase(cur) = "awake" /\ Phase(cur)' = "waiting"
  BY <1>1, <1>2, <1>3 DEF Phase
<1>5. InboxOf(cur)' = Messages!Empty(pte[cur][dstva]) /\ pte[cur][dstva] \in Page \cup {None}
  BY <1>1, <1>2, <1>4, NextViewIs DEF Seen, Messages!Empty
<1>6. OfferOf(cur)' = None /\ OfferOf(cur) = None
  BY <1>1, <1>4 DEF OfferOf
<1>7. \A e \in Env : e # cur => /\ Phase(e)' = Phase(e) /\ InboxOf(e)' = InboxOf(e)
                                /\ OfferOf(e)' = OfferOf(e)
  BY <1>2, SameView, SameOffer
<1> QED
  BY <1>4, <1>5, <1>6, <1>7 DEF Messages!Wait, Messages!Turn

\* The offer of e to the identifier id.
OfferTo(e, id, v, q) ==
    [to |-> IF FoundBy(e, id) THEN Slot(e, id) ELSE None, value |-> v, page |-> q]

\* What e offers, while nothing happens to it.
LEMMA OfferMoves ==
  ASSUME IInv, NEW e \in Env, Untouched(e)
  PROVE  \/ OfferOf(e) = None /\ OfferOf(e)' = None
         \/ \E id \in Id, v \in Value, q \in Page \cup {None} :
               OfferOf(e) = OfferTo(e, id, v, q) /\ OfferOf(e)' = OfferTo(e, id, v, q)'
<1>1. Phase(e)' = Phase(e)
  BY SameView
<1>2. CASE Phase(e) # "awake" \/ Context(e).pc \notin {"poll", "yield"}
  BY <1>1, <1>2 DEF OfferOf, Untouched
<1>3. CASE Phase(e) = "awake" /\ Context(e).pc \in {"poll", "yield"}
  <2>1. env_status[e] # "free" /\ Context(e) \in Frames
        /\ pte \in [Env -> [Va -> Page \cup {None}]]
    BY <1>3, ViewIs, Types DEF Seen, IInv
  <2>2. PICK id \in Id, v \in Value, va \in Va :
               Context(e).to = id /\ Context(e).value = v /\ Context(e).va = va
    BY <1>3, <2>1 DEF IInv, FrameSound, Frames
  <2>3. PICK q \in Page \cup {None} : q = IF va = "zero" THEN None ELSE pte[e][va]
    BY <2>1
  <2>4. OfferOf(e) = OfferTo(e, id, v, q)
    BY <1>3, <2>2, <2>3 DEF OfferOf, OfferTo
  <2>5. OfferOf(e)' = OfferTo(e, id, v, q)'
    BY <1>1, <1>3, <2>2, <2>3 DEF OfferOf, OfferTo, Untouched
  <2> QED
    BY <2>4, <2>5
<1> QED
  BY <1>2, <1>3

\* No offer is None.
LEMMA OfferIsSome ==
  ASSUME NEW e \in Env, NEW id \in Id, NEW v \in Value, NEW q \in Page \cup {None}
  PROVE  OfferTo(e, id, v, q) # None
<1>1. Slot(e, id) \in Env
  BY EnvxSlot DEF Slot
<1>2. OfferTo(e, id, v, q) \in [to : Env \cup {None}, value : Value, page : Page \cup {None}]
  BY <1>1 DEF OfferTo
<1> QED
  BY <1>2, IpcAssumption

\* ipc_send is called.
LEMMA OfferStep ==
  ASSUME IInv, IInv', NEW to \in Id, NEW v \in Value, NEW srcva \in Va,
         IpcSend(to, v, srcva)
  PROVE  \E s \in Env, t \in Env \cup {None} : Messages!Offer(s, t)
<1> PICK cur \in Env : cur = curenv
  BY Running DEF IpcSend
<1>1. /\ env_status[cur] = "runnable" /\ recving[cur] = None /\ Context(cur).pc = "run"
      /\ UNCHANGED <<env_status, env_id, recving, whom, pte>>
      /\ pte \in [Env -> [Va -> Page \cup {None}]]
  BY Running DEF IpcSend, envs, ipc
<1>2. /\ \A e \in Env : e # cur => Untouched(e)
      /\ SameIds /\ Context(cur)' = Frame("poll", 0, to, v, srcva)
  BY <1>1, IpcSendStep DEF SameIds, Untouched
<1>3. Phase(cur) = "awake" /\ Phase(cur)' = "awake"
  BY <1>1, <1>2 DEF Phase, Frame
<1>4. InboxOf(cur)' = InboxOf(cur)
  BY <1>3, ViewIs, NextViewIs DEF Seen, Messages!Empty
<1>5. PICK q \in Page \cup {None} : q = IF srcva = "zero" THEN None ELSE pte[cur][srcva]
  BY <1>1
<1>6. PICK t \in Env \cup {None} : t = IF FoundBy(cur, to) THEN Slot(cur, to) ELSE None
  BY EnvxSlot DEF Slot
<1>7. OfferOf(cur) = None /\ OfferOf(cur)' = [to |-> t, value |-> v, page |-> q]
  <2>1. FoundBy(cur, to)' = FoundBy(cur, to)
    BY <1>1 DEF FoundBy
  <2> QED
    BY <1>1, <1>2, <1>3, <1>5, <1>6, <2>1 DEF OfferOf, Frame
<1>8. t # None => t \in Env /\ Phase(t) # "absent"
  BY <1>6, ViewIs DEF FoundBy, Seen
<1>9. \A e \in Env : e # cur => /\ Phase(e)' = Phase(e) /\ InboxOf(e)' = InboxOf(e)
                                /\ OfferOf(e)' = OfferOf(e)
  BY <1>2, SameView, SameOffer
<1>10. Messages!Offer(cur, t)
  <2>1. [e \in Env |-> OfferOf(e)]' =
          [[e \in Env |-> OfferOf(e)] EXCEPT ![cur] = [to |-> t, value |-> v, page |-> q]]
    BY <1>7, <1>9
  <2>2. /\ [e \in Env |-> Phase(e)]' = [e \in Env |-> Phase(e)]
        /\ [e \in Env |-> InboxOf(e)]' = [e \in Env |-> InboxOf(e)]
    BY <1>3, <1>4, <1>9
  <2>3. t = None \/ [e \in Env |-> Phase(e)][t] # "absent"
    BY <1>8
  <2>4. [e \in Env |-> Phase(e)][cur] = "awake" /\ [e \in Env |-> OfferOf(e)][cur] = None
    BY <1>3, <1>7
  <2> QED
    BY <2>1, <2>2, <2>3, <2>4 DEF Messages!Offer
<1> QED
  BY <1>10

\* What the sender offers when it calls sys_ipc_can_send.
LEMMA SenderOffers ==
  ASSUME IInv, In("poll"), NEW cur \in Env, cur = curenv
  PROVE  /\ Phase(cur) = "awake" /\ regs.to \in Id /\ regs.value \in Value
         /\ OfferOf(cur) = OfferTo(cur, regs.to, regs.value,
                                   IF regs.va = "zero" THEN None ELSE pte[cur][regs.va])
         /\ OfferOf(cur) # None
<1>1. /\ env_status[cur] = "runnable" /\ recving[cur] = None /\ Context(cur) = regs
      /\ regs.pc = "poll" /\ regs \in Frames /\ pte \in [Env -> [Va -> Page \cup {None}]]
  BY Running
<1>2. regs.to \in Id /\ regs.value \in Value /\ regs.va \in Va
  BY <1>1 DEF IInv, FrameSound, Frames
<1>3. Phase(cur) = "awake"
  BY <1>1 DEF Phase
<1>4. PICK q \in Page \cup {None} : q = IF regs.va = "zero" THEN None ELSE pte[cur][regs.va]
  BY <1>1, <1>2
<1>5. OfferOf(cur) = OfferTo(cur, regs.to, regs.value, q)
  BY <1>1, <1>3, <1>4 DEF OfferOf, OfferTo
<1> QED
  BY <1>2, <1>3, <1>4, <1>5, OfferIsSome

\* sys_ipc_can_send ends a call of ipc_send without a message, or has it try
\* again.
LEMMA RefusedMaps ==
  ASSUME IInv, IInv', In("poll"), UNCHANGED <<env_tf, envs, ipc, pte>>,
         NEW r \in {"ok", "E_IPC_NOT_RECV", "E_INVAL"}, Result(r),
         NEW t \in Env, t = Slot(curenv, regs.to),
         r = "E_IPC_NOT_RECV" \/ ~ Found(regs.to) \/ recving[t] # None
  PROVE  (\E s \in Env : Messages!GiveUp(s)) \/ UNCHANGED Messages!vars
<1> PICK cur \in Env : cur = curenv
  BY Running
<1>1. /\ env_status[cur] = "runnable" /\ recving[cur] = None /\ Context(cur) = regs
      /\ regs.pc = "poll" /\ regs \in Frames
      /\ UNCHANGED <<env_status, env_id, recving, whom, pte>>
  BY Running DEF envs, ipc
<1>2. SameIds /\ \A e \in Env : e # cur => Untouched(e)
  BY <1>1, RefusedStep DEF SameIds, Untouched
<1>3. CASE r = "E_IPC_NOT_RECV"
  <2>1. Context(cur)' = [regs EXCEPT !.pc = "yield"]
    BY <1>1, <1>3, RefusedStep
  <2>2. /\ Context(cur)'.pc = "yield" /\ Context(cur)'.to = Context(cur).to
        /\ Context(cur)'.value = Context(cur).value /\ Context(cur)'.va = Context(cur).va
    BY <1>1, <2>1 DEF Frames
  <2>3. Phase(cur) = "awake" /\ Phase(cur)' = "awake"
    BY <1>1, <2>2 DEF Phase
  <2>4. PICK id : id = Context(cur).to /\ id = Context(cur)'.to
    BY <2>2
  <2>5. FoundBy(cur, id)' = FoundBy(cur, id)
    BY <1>1 DEF FoundBy
  <2>6. OfferOf(cur)' = OfferOf(cur)
    BY <1>1, <2>2, <2>3, <2>4, <2>5 DEF OfferOf
  <2> QED
    BY <1>2, <2>3, <2>6, QuietStep
<1>4. CASE r # "E_IPC_NOT_RECV"
  <2>1. Context(cur)' \in {At("run"), At("panic")}
    BY <1>4, RefusedStep
  <2>2. Context(cur)'.pc \in {"run", "panic"}
    BY <2>1, AtType DEF Pcs
  <2>3. Phase(cur) = "awake" /\ Phase(cur)' = "awake" /\ OfferOf(cur)' = None
    BY <1>1, <2>2 DEF Phase, OfferOf
  <2>4. InboxOf(cur)' = InboxOf(cur)
    BY <2>3, ViewIs, NextViewIs DEF Seen, Messages!Empty
  <2>5. /\ OfferOf(cur) # None
        /\ OfferOf(cur).to = IF FoundBy(cur, regs.to) THEN t ELSE None
    BY SenderOffers DEF OfferTo
  <2>6. ~ Found(regs.to) \/ Phase(t) = "waiting"
    BY <1>4, ViewIs DEF Seen, Found, FoundBy
  <2>7. \A e \in Env : e # cur => /\ Phase(e)' = Phase(e) /\ InboxOf(e)' = InboxOf(e)
                                  /\ OfferOf(e)' = OfferOf(e)
    BY <1>2, SameView, SameOffer
  <2>8. Messages!GiveUp(cur)
    BY <2>3, <2>4, <2>5, <2>6, <2>7 DEF Messages!GiveUp, Messages!Lost, Found
  <2> QED
    BY <2>8
<1> QED
  BY <1>3, <1>4

\* sys_ipc_can_send puts the whole offer into the inbox of who waits for it.
LEMMA DeliverMaps ==
  ASSUME FramesLeftAlone, IInv, IInv', In("poll"), NEW t \in Env, t = Slot(curenv, regs.to),
         Found(regs.to), recving[t] # None,
         regs.va # "zero" => pte[curenv][regs.va] # None,
         Deliver(t), Return(At("run"))
  PROVE  \E s \in Env : Messages!Deliver(s, t)
<1> PICK cur \in Env : cur = curenv
  BY Running
<1>1. /\ env_status[cur] = "runnable" /\ recving[cur] = None /\ Context(cur) = regs
      /\ ENVX(env_id[cur]) = cur /\ regs \in Frames /\ regs.pc = "poll"
      /\ pte \in [Env -> [Va -> Page \cup {None}]] /\ whom \in [Env -> Id \cup {NULL}]
      /\ env_status \in [Env -> Status] /\ recving \in [Env -> Va \cup {None}]
  BY Running, Types
<1>2. /\ t # cur /\ recving'[t] = None
      /\ Context(t)' = [Context(t) EXCEPT !.r0 = regs.value]
      /\ \A e \in Env : e \notin {cur, t} => Context(e)' = Context(e)
      /\ Context(cur)' = At("run")
  BY DeliverStep
<1>3. /\ recving' = [recving EXCEPT ![t] = None]
      /\ whom' = [whom EXCEPT ![t] = env_id[cur]]
      /\ env_status' = [env_status EXCEPT ![t] = "runnable"]
      /\ pte' = IF regs.va = "zero" THEN pte
                ELSE [pte EXCEPT ![t][recving[t]] = pte[cur][regs.va]]
      /\ env_id' = env_id
  BY DEF Deliver
<1>4. /\ recving[t] \in Va /\ regs.va \in Va /\ env_status[t] = "not_runnable"
      /\ Context(t).pc = "recv" /\ Context(t).va = recving[t] /\ Context(t) \in Frames
  BY <1>1, Running, Types, SpentType DEF Frames, IInv, RecvSound, FrameSound
<1>5. SameIds /\ \A e \in Env : e \notin {cur, t} => Untouched(e)
  BY <1>1, <1>2, <1>3, <1>4 DEF SameIds, Untouched
<1>6. /\ Context(t)'.pc = "recv" /\ Context(t)'.va = recving[t]
      /\ Context(t)'.r0 = regs.value /\ Context(cur)'.pc = "run"
  BY <1>2, <1>4, AtType DEF Frames, Pcs
<1>7. /\ Phase(t) = "waiting" /\ Phase(t)' = "served"
      /\ Phase(cur) = "awake" /\ Phase(cur)' = "awake"
  BY <1>1, <1>2, <1>3, <1>4, <1>6 DEF Phase
<1>8. /\ InboxOf(cur)' = InboxOf(cur)
      /\ InboxOf(t) = Messages!Empty(pte[t][recving[t]])
  BY <1>7, ViewIs, NextViewIs DEF Seen, Messages!Empty
<1>9. InboxOf(t)' = [value |-> regs.value, from |-> cur, page |-> pte'[t][recving[t]]]
  <2>1. ENVX(whom'[t]) = cur
    BY <1>1, <1>3
  <2>2. InboxOf(t)' = [value |-> Context(t)'.r0, from |-> ENVX(whom'[t]),
                       page |-> pte'[t][Context(t)'.va]]
    BY <1>7, NextViewIs DEF Seen
  <2> QED
    BY <1>6, <2>1, <2>2
<1>10. /\ OfferOf(cur) # None
       /\ OfferOf(cur) = [to |-> t, value |-> regs.value,
                          page |-> IF regs.va = "zero" THEN None ELSE pte[cur][regs.va]]
  BY SenderOffers DEF OfferTo, Found
<1>11. pte'[t][recving[t]] = IF OfferOf(cur).page = None THEN InboxOf(t).page
                             ELSE OfferOf(cur).page
  <2>1. InboxOf(t).page = pte[t][recving[t]]
    BY <1>8 DEF Messages!Empty
  <2> QED
    BY <1>1, <1>3, <1>4, <1>10, <2>1
<1>12. /\ OfferOf(cur)' = None /\ OfferOf(t) = None /\ OfferOf(t)' = None
  BY <1>6, <1>7 DEF OfferOf
<1>13. \A e \in Env : e \notin {cur, t} => /\ Phase(e)' = Phase(e)
                                           /\ InboxOf(e)' = InboxOf(e)
                                           /\ OfferOf(e)' = OfferOf(e)
  BY <1>5, SameView, SameOffer
<1>14. Messages!Deliver(cur, t)
  <2>1. [e \in Env |-> Phase(e)]' = [[e \in Env |-> Phase(e)] EXCEPT ![t] = "served"]
    BY <1>2, <1>7, <1>13
  <2>2. InboxOf(t)' =
          [value |-> OfferOf(cur).value, from |-> cur,
           page |-> IF OfferOf(cur).page = None THEN [e \in Env |-> InboxOf(e)][t].page
                    ELSE OfferOf(cur).page]
    BY <1>9, <1>10, <1>11
  <2>4. \A e \in Env : e # t => InboxOf(e)' = InboxOf(e)
    BY <1>8, <1>13
  <2>5. [e \in Env |-> InboxOf(e)]' =
          [[e \in Env |-> InboxOf(e)] EXCEPT ![t] = InboxOf(t)']
    BY <2>4
  <2>6. /\ [e \in Env |-> OfferOf(e)][cur] = OfferOf(cur)
        /\ [e \in Env |-> Phase(e)][t] = "waiting"
    BY <1>7
  <2>3. [e \in Env |-> OfferOf(e)]' = [[e \in Env |-> OfferOf(e)] EXCEPT ![cur] = None]
    BY <1>2, <1>12, <1>13
  <2> QED
    <3>1. Messages!Turn(t, {"waiting"}, "served")
      BY <2>1, <2>6 DEF Messages!Turn
    <3>2. /\ [e \in Env |-> OfferOf(e)][cur] # None
          /\ [e \in Env |-> OfferOf(e)][cur].to = t
      BY <1>10, <2>6
    <3>3. [e \in Env |-> InboxOf(e)]' =
            [[e \in Env |-> InboxOf(e)] EXCEPT ![t] =
                [value |-> [e \in Env |-> OfferOf(e)][cur].value, from |-> cur,
                 page |-> IF [e \in Env |-> OfferOf(e)][cur].page = None THEN @.page
                          ELSE [e \in Env |-> OfferOf(e)][cur].page]]
      BY <2>2, <2>5, <2>6
    <3> QED
      BY <2>3, <3>1, <3>2, <3>3 DEF Messages!Deliver
<1> QED
  BY <1>14

\* A program is gone, and with it what was offered to it.
LEMMA DieStep ==
  ASSUME IInv, IInv', SysEnvDestroy
  PROVE  \E e \in Env : Messages!Die(e)
<1> PICK cur \in Env : cur = curenv
  BY Running DEF SysEnvDestroy
<1>1. /\ env_status[cur] = "runnable" /\ recving[cur] = None /\ Context(cur).pc = "run"
      /\ env_status' = [env_status EXCEPT ![cur] = "free"] /\ env_status \in [Env -> Status]
      /\ UNCHANGED <<env_id, recving, whom>>
      /\ pte' = [pte EXCEPT ![cur] = [va \in Va |-> None]]
      /\ pte \in [Env -> [Va -> Page \cup {None}]]
  BY Running, Types DEF SysEnvDestroy, ipc
<1>2. /\ env_status'[cur] = "free"
      /\ \A e \in Env : e # cur => Untouched(e) /\ env_status'[e] = env_status[e]
  BY <1>1, DestroyStep DEF Untouched
<1>3. Phase(cur) = "awake" /\ Phase(cur)' = "absent"
  BY <1>1, <1>2 DEF Phase
<1>4. InboxOf(cur)' = Messages!Empty(None)
  BY <1>3, NextViewIs DEF Seen, Messages!Empty
<1>5. OfferOf(cur)' = None
  BY <1>3 DEF OfferOf
<1>6. ASSUME NEW s \in Env, s # cur
      PROVE  OfferOf(s)' = IF OfferOf(s) = None THEN None
                           ELSE IF OfferOf(s).to = cur THEN [OfferOf(s) EXCEPT !.to = None]
                           ELSE OfferOf(s)
  <2>1. CASE OfferOf(s) = None /\ OfferOf(s)' = None
    BY <2>1
  <2>2. ASSUME NEW id \in Id, NEW v \in Value, NEW q \in Page \cup {None},
               OfferOf(s) = OfferTo(s, id, v, q), OfferOf(s)' = OfferTo(s, id, v, q)'
        PROVE  OfferOf(s)' = IF OfferOf(s) = None THEN None
                             ELSE IF OfferOf(s).to = cur THEN [OfferOf(s) EXCEPT !.to = None]
                             ELSE OfferOf(s)
    <3>1. PICK d \in Env : d = Slot(s, id)
      BY EnvxSlot DEF Slot
    <3>2. FoundBy(s, id)' = (FoundBy(s, id) /\ d # cur)
      BY <1>1, <1>2, <3>1 DEF FoundBy
    <3>3. /\ OfferOf(s) = [to |-> IF FoundBy(s, id) THEN d ELSE None,
                           value |-> v, page |-> q]
          /\ OfferOf(s)' = [to |-> IF FoundBy(s, id) /\ d # cur THEN d ELSE None,
                            value |-> v, page |-> q]
      BY <2>2, <3>1, <3>2 DEF OfferTo
    <3>4. OfferOf(s) # None /\ None # cur
      BY <2>2, OfferIsSome, IpcAssumption
    <3>5. CASE FoundBy(s, id) /\ d = cur
      BY <3>3, <3>4, <3>5
    <3>6. CASE ~ (FoundBy(s, id) /\ d = cur)
      BY <3>3, <3>4, <3>6
    <3> QED
      BY <3>5, <3>6
  <2>3. Untouched(s)
    BY <1>2, <1>6
  <2>4. \/ OfferOf(s) = None /\ OfferOf(s)' = None
        \/ \E id \in Id, v \in Value, q \in Page \cup {None} :
              OfferOf(s) = OfferTo(s, id, v, q) /\ OfferOf(s)' = OfferTo(s, id, v, q)'
    BY <2>3, OfferMoves
  <2> QED
    BY <2>1, <2>2, <2>4
<1>7. \A e \in Env : e # cur => Phase(e)' = Phase(e) /\ InboxOf(e)' = InboxOf(e)
  BY <1>2, SameView
<1>8. Messages!Die(cur)
  <2>1. [e \in Env |-> Phase(e)]' = [[e \in Env |-> Phase(e)] EXCEPT ![cur] = "absent"]
    BY <1>3, <1>7
  <2>2. [e \in Env |-> InboxOf(e)]' =
          [[e \in Env |-> InboxOf(e)] EXCEPT ![cur] = Messages!Empty(None)]
    BY <1>4, <1>7
  <2>3. [e \in Env |-> OfferOf(e)]' =
          [s \in Env |->
              IF s = cur \/ OfferOf(s) = None THEN None
              ELSE IF OfferOf(s).to = cur THEN [OfferOf(s) EXCEPT !.to = None] ELSE OfferOf(s)]
    BY <1>5, <1>6
  <2> QED
    BY <1>3, <2>1, <2>2, <2>3 DEF Messages!Die, Messages!Turn, Messages!Empty
<1> QED
  BY <1>8

\* A new environment may be taken for one that is gone, and for no other.
LEMMA CreateStep ==
  ASSUME IInv, IInv', NEW c \in Env, SysEnvAlloc(c)
  PROVE  \E e \in Env : Messages!Create(e)
<1> PICK cur \in Env : cur = curenv
  BY Running DEF SysEnvAlloc
<1>1. /\ env_status[cur] = "runnable" /\ recving[cur] = None /\ Context(cur).pc = "run"
      /\ env_status[c] = "free" /\ env_status' = [env_status EXCEPT ![c] = "not_runnable"]
      /\ env_status \in [Env -> Status]
      /\ UNCHANGED <<recving, whom>>
      /\ pte' = [pte EXCEPT ![c] = pte[cur]] /\ pte \in [Env -> [Va -> Page \cup {None}]]
  BY Running, Types DEF SysEnvAlloc, ipc
<1>2. /\ c # cur /\ recving[c] = None
      /\ \A e \in Env : e \notin {cur, c} => Context(e)' = Context(e)
      /\ \A e \in Env : e \in {cur, c} => Context(e)'.pc = "fork"
      /\ \A e \in Env : e # c => env_id'[e] = env_id[e] /\ env_status'[e] = env_status[e]
  BY AllocStep
<1>3. /\ env_status'[c] = "not_runnable" /\ recving'[c] = None /\ recving'[cur] = None
      /\ env_status'[cur] = "runnable"
      /\ \A e \in Env : e \notin {cur, c} => Untouched(e)
  BY <1>1, <1>2 DEF Untouched
<1>4. /\ Phase(c) = "absent" /\ Phase(c)' = "awake"
      /\ Phase(cur) = "awake" /\ Phase(cur)' = "awake"
  BY <1>1, <1>2, <1>3 DEF Phase
<1>5. /\ InboxOf(c)' = InboxOf(c) /\ InboxOf(cur)' = InboxOf(cur)
  BY <1>4, ViewIs, NextViewIs DEF Seen, Messages!Empty
<1>6. /\ OfferOf(c) = None /\ OfferOf(c)' = None
      /\ OfferOf(cur) = None /\ OfferOf(cur)' = None
  BY <1>1, <1>2, <1>4 DEF OfferOf
<1>7. ASSUME NEW s \in Env
      PROVE  \/ OfferOf(s)' = OfferOf(s)
             \/ /\ OfferOf(s) # None /\ OfferOf(s).to = None
                /\ OfferOf(s)' = [OfferOf(s) EXCEPT !.to = c]
  <2>1. CASE s \in {cur, c}
    BY <1>6, <2>1
  <2>2. CASE s \notin {cur, c}
    <3>1. CASE OfferOf(s) = None /\ OfferOf(s)' = None
      BY <3>1
    <3>2. ASSUME NEW id \in Id, NEW v \in Value, NEW q \in Page \cup {None},
                 OfferOf(s) = OfferTo(s, id, v, q), OfferOf(s)' = OfferTo(s, id, v, q)'
          PROVE  \/ OfferOf(s)' = OfferOf(s)
                 \/ /\ OfferOf(s) # None /\ OfferOf(s).to = None
                    /\ OfferOf(s)' = [OfferOf(s) EXCEPT !.to = c]
      <4>1. PICK d \in Env : d = Slot(s, id)
        BY EnvxSlot DEF Slot
      <4>2. d # c => FoundBy(s, id)' = FoundBy(s, id)
        BY <1>2, <4>1 DEF FoundBy
      <4>3. d = c => ~ FoundBy(s, id)
        BY <1>1, <4>1 DEF FoundBy
      <4>4. /\ OfferOf(s) = [to |-> IF FoundBy(s, id) THEN d ELSE None,
                             value |-> v, page |-> q]
            /\ OfferOf(s)' = [to |-> IF FoundBy(s, id)' THEN d ELSE None,
                              value |-> v, page |-> q]
        BY <3>2, <4>1 DEF OfferTo
      <4>5. OfferOf(s) # None
        BY <3>2, OfferIsSome
      <4>6. CASE FoundBy(s, id)' = FoundBy(s, id)
        BY <4>4, <4>6
      <4>7. CASE d = c /\ ~ FoundBy(s, id) /\ FoundBy(s, id)'
        BY <4>4, <4>5, <4>7
      <4> QED
        BY <4>2, <4>3, <4>6, <4>7 DEF FoundBy
    <3>3. \/ OfferOf(s) = None /\ OfferOf(s)' = None
          \/ \E id \in Id, v \in Value, q \in Page \cup {None} :
                OfferOf(s) = OfferTo(s, id, v, q) /\ OfferOf(s)' = OfferTo(s, id, v, q)'
      BY <1>3, <2>2, OfferMoves
    <3> QED
      BY <3>1, <3>2, <3>3
  <2> QED
    BY <2>1, <2>2
<1>8. \A e \in Env : e \notin {cur, c} => Phase(e)' = Phase(e) /\ InboxOf(e)' = InboxOf(e)
  BY <1>3, SameView
<1>9. Messages!Create(c)
  <2>1. [e \in Env |-> Phase(e)]' = [[e \in Env |-> Phase(e)] EXCEPT ![c] = "awake"]
    BY <1>2, <1>4, <1>8
  <2>2. [e \in Env |-> InboxOf(e)]' = [e \in Env |-> InboxOf(e)]
    BY <1>5, <1>8
  <2>3. PICK S : S = {s \in Env : OfferOf(s)' # OfferOf(s)}
    OBVIOUS
  <2>4. S \in SUBSET {s \in Env : Messages!Lost(s)}
    BY <1>7, <2>3 DEF Messages!Lost
  <2>5. [e \in Env |-> OfferOf(e)]' =
          [s \in Env |-> IF s \in S THEN [[e \in Env |-> OfferOf(e)][s] EXCEPT !.to = c]
                        ELSE [e \in Env |-> OfferOf(e)][s]]
    BY <1>7, <2>3
  <2>6. Messages!Turn(c, {"absent"}, "awake")
    BY <1>4, <2>1 DEF Messages!Turn
  <2> QED
    BY <2>2, <2>4, <2>5, <2>6 DEF Messages!Create
<1> QED
  BY <1>9

\* Every step of the kernel and the programs is one of the rendezvous, or none.
LEMMA MessagesStep ==
  FramesLeftAlone /\ IInv /\ IInv' /\ [Next]_vars => [Messages!Next]_Messages!vars
<1> SUFFICES ASSUME FramesLeftAlone, IInv, IInv', [Next]_vars
             PROVE  Messages!Next \/ UNCHANGED Messages!vars
  OBVIOUS
<1>1. CASE UNCHANGED vars
  <2>1. SameIds /\ \A e \in Env : Untouched(e)
    BY <1>1 DEF vars, envs, ipc, SameIds, Untouched, Context
  <2> QED
    BY <2>1, SameView, SameOffer DEF Messages!vars
<1>2. CASE \/ Timer \/ SysYield \/ SendYields \/ ForkFails \/ ForkReturns
           \/ \E p \in Page \cup {None} : SysMem(p)
  BY <1>2, QuietCalls
<1>3. CASE RecvReturns
  BY <1>3, TakeStep DEF Messages!Next
<1>4. CASE SysEnvDestroy
  BY <1>4, DieStep DEF Messages!Next
<1>5. ASSUME NEW c \in Env, SysEnvAlloc(c)
      PROVE  Messages!Next
  BY <1>5, CreateStep DEF Messages!Next
<1>6. ASSUME NEW dstva \in Va, SysIpcRecv(dstva)
      PROVE  Messages!Next
  BY <1>6, WaitStep DEF Messages!Next
<1>7. ASSUME NEW x \in Peers, NEW v \in Value, NEW srcva \in Va, IpcSend(env_id[x], v, srcva)
      PROVE  Messages!Next
  <2>1. env_id[x] \in Id
    BY Types, IpcAssumption DEF IInv
  <2> QED
    BY <1>7, <2>1, OfferStep DEF Messages!Next
<1>8. CASE SysIpcCanSend
  <2>1. PICK t \in Env :
           /\ In("poll") /\ t = Slot(curenv, regs.to)
           /\ \/ /\ UNCHANGED <<env_tf, envs, ipc, pte>>
                 /\ \/ ~ Found(regs.to) /\ Result("E_INVAL")
                    \/ Found(regs.to) /\ recving[t] = None /\ Result("E_IPC_NOT_RECV")
                    \/ Found(regs.to) /\ recving[t] # None /\ Result("ok")
                    \/ Found(regs.to) /\ recving[t] # None /\ Result("E_INVAL")
              \/ /\ Found(regs.to) /\ recving[t] # None
                 /\ regs.va # "zero" => pte[curenv][regs.va] # None
                 /\ Deliver(t) /\ Return(At("run"))
    BY <1>8, CanSendCases
  <2>2. ASSUME UNCHANGED <<env_tf, envs, ipc, pte>>,
               NEW r \in {"ok", "E_IPC_NOT_RECV", "E_INVAL"}, Result(r),
               r = "E_IPC_NOT_RECV" \/ ~ Found(regs.to) \/ recving[t] # None
        PROVE  Messages!Next \/ UNCHANGED Messages!vars
    <3>1. (\E s \in Env : Messages!GiveUp(s)) \/ UNCHANGED Messages!vars
      BY <2>1, <2>2, RefusedMaps
    <3> QED
      BY <3>1 DEF Messages!Next
  <2>3. ASSUME Found(regs.to), recving[t] # None,
               regs.va # "zero" => pte[curenv][regs.va] # None,
               Deliver(t), Return(At("run"))
        PROVE  Messages!Next
    <3>1. \E s \in Env : Messages!Deliver(s, t)
      BY <2>1, <2>3, DeliverMaps
    <3> QED
      BY <3>1 DEF Messages!Next
  <2> QED
    BY <2>1, <2>2, <2>3
<1>9. \A x \in Env : ~ SysSetTrapframe(env_id[x])
  BY DEF SysSetTrapframe, FramesLeftAlone
<1> QED
  BY <1>1, <1>2, <1>3, <1>4, <1>5, <1>6, <1>7, <1>8, <1>9 DEF Next

\* Nobody sends or receives at first.
LEMMA MessagesInit == Init => Messages!Init
<1> SUFFICES ASSUME Init
             PROVE  Messages!Init
  OBVIOUS
<1>1. \A e \in Env : /\ Context(e).pc \in {"run", "garbage"} /\ recving[e] = None
                     /\ env_status[e] # "free" => Context(e).pc = "run"
  BY AtType DEF Init, Context, Pcs
<1>2. \A e \in Env : Phase(e) \in {"absent", "awake"} /\ OfferOf(e) = None
  BY <1>1 DEF Phase, OfferOf
<1>3. \A e \in Env : InboxOf(e) = Messages!Empty(None)
  BY <1>2, ViewIs DEF Seen
<1> QED
  BY <1>2, <1>3 DEF Messages!Init

\* The safety half of Delivered: with the fields of struct Env, the saved frames
\* and the polling loop, a message goes from the program that sends it to one
\* that waits, whole, and stays until it is looked at, as long as nobody calls
\* sys_set_trapframe, which no library function does.
THEOREM SafeMessages ==
  ASSUME FramesLeftAlone
  PROVE  Spec => Messages!Init /\ [][Messages!Next]_Messages!vars
<1>1. IInv /\ IInv' /\ [Next]_vars => [Messages!Next]_Messages!vars
  BY MessagesStep
<1> QED
  BY <1>1, Invariant, MessagesInit, PTL DEF Spec
=============================================================================
