----------------------------- MODULE PipeProofs -----------------------------
(***************************************************************************)
(* Proofs about Pipe, for every number of environments, descriptors and    *)
(* pages.  pipe, dup and close take several system calls, and other        *)
(* environments run between them: the invariant says what a descriptor may *)
(* look like in the middle of each call, and that the pages of a pipe that *)
(* is not complete are nobody else's.                                      *)
(***************************************************************************)
EXTENDS Pipe, FiniteSetTheorems, NaturalsInduction, WellFoundedInduction, TLAPS

Contents == {Cons} \cup {End(x, p) : x \in {"reader", "writer"}, p \in Page}
Steps == {"idle", "pipe_fd1", "pipe_data", "pipe_map", "close", "dup_data", "dup_fd", "exit"}
Tasks == [do : Steps, fd : Fd, other : Fd, then : Steps]

-----------------------------------------------------------------------------
(* The inductive invariant                                                 *)

\* A descriptor as a program has it between two calls.
Whole(e, d) ==
    IF fd_page[e][d] = None THEN data_page[e][d] = None
    ELSE /\ content[fd_page[e][d]] # None
         /\ data_page[e][d] = content[fd_page[e][d]].pipe

\* A page that pipe() has got and not written to yet.
Private(e, d) ==
    /\ fd_page[e][d] # None /\ content[fd_page[e][d]] = None
    /\ \A y \in Env, z \in Fd : fd_page[y][z] = fd_page[e][d] => y = e /\ z = d

\* The pipe of one that is not complete.
Sole(e, d) ==
    /\ data_page[e][d] # None
    /\ \A y \in Env, z \in Fd : data_page[y][z] = data_page[e][d] => y = e /\ z = d

\* The descriptors that the call in which e is has in work.
Busy(e) ==
    IF task[e].do \in {"idle", "exit"} THEN {}
    ELSE IF task[e].do \in {"pipe_data", "pipe_map"} THEN {task[e].fd, task[e].other}
    ELSE {task[e].fd}

\* What dup needs to go on; dup(i, i) has closed what it copies.
DupSound(e) == task[e].other = task[e].fd \/ fd_page[e][task[e].other] # None

\* The call in which e is finds its descriptors as it left them.
TaskSound(e) ==
    LET fd == task[e].fd
        other == task[e].other
    IN  /\ \A d \in Fd : d \notin Busy(e) => Whole(e, d)
        /\ task[e].do = "close" =>
               /\ Open(e, fd) /\ data_page[e][fd] = None
               /\ task[e].then \in {"idle", "exit", "dup_data"}
               /\ (task[e].then = "dup_data" => DupSound(e))
        /\ task[e].do = "pipe_fd1" => Private(e, fd) /\ data_page[e][fd] = None
        /\ task[e].do \in {"pipe_data", "pipe_map"} =>
               /\ fd # other /\ Private(e, fd) /\ Private(e, other)
               /\ data_page[e][other] = None
        /\ task[e].do = "pipe_data" => data_page[e][fd] = None
        /\ task[e].do = "pipe_map" => Sole(e, fd)
        /\ task[e].do \in {"dup_data", "dup_fd"} => fd_page[e][fd] = None /\ DupSound(e)
        /\ task[e].do = "dup_data" => data_page[e][fd] = None
        /\ task[e].do = "dup_fd" => data_page[e][fd] = data_page[e][other]
        /\ task[e].do = "dup_fd" /\ other = fd => data_page[e][fd] = None

\* Who is not there has nothing.
Gone ==
    \A e \in Env \ alive :
        fd_page[e] = Unmapped /\ data_page[e] = Unmapped /\ task[e] = Idle

\* The page of a descriptor is not that of a pipe.
Apart ==
    \A e, y \in Env, d, z \in Fd : fd_page[e][d] # None => fd_page[e][d] # data_page[y][z]

\* A page in which a descriptor is written is mapped as one.
Clean == \A p \in Page : content[p] # None => \E e \in Env, d \in Fd : fd_page[e][d] = p

\* An end of a pipe, with the pipe.
Paired(e, d) ==
    fd_page[e][d] # None /\ content[fd_page[e][d]] # None /\ data_page[e][d] # None

\* A pipe has one page for its readers and one for its writers.
TwoEnds ==
    \A e, y \in Env, d, z \in Fd :
        Paired(e, d) /\ Paired(y, z) /\ data_page[e][d] = data_page[y][z] =>
            \/ fd_page[e][d] = fd_page[y][z]
            \/ content[fd_page[e][d]].dev # content[fd_page[y][z]].dev

PipeInv ==
    /\ TypeOK /\ Gone /\ Apart /\ Clean /\ TwoEnds
    /\ \A e \in alive : TaskSound(e)
-----------------------------------------------------------------------------
(* What the kernel counts, and what descriptors there are                  *)

\* No environment has p.
Unused(p) == \A y \in Env, z \in Fd : fd_page[y][z] # p /\ data_page[y][z] # p

\* The slots where p is mapped as a descriptor, and behind one.
FdSlots(p) == {m \in Env \X Fd : fd_page[m[1]][m[2]] = p}
DataSlots(p) == {m \in Env \X Fd : data_page[m[1]][m[2]] = p}

\* sys_va_ref counts two finite sets of mappings.
LEMMA SlotsFinite ==
    \A p : /\ IsFiniteSet(FdSlots(p)) /\ IsFiniteSet(DataSlots(p))
           /\ Cardinality(FdSlots(p)) \in Nat /\ Cardinality(DataSlots(p)) \in Nat
           /\ PageRef(p) = Cardinality(FdSlots(p)) + Cardinality(DataSlots(p))
<1>1. IsFiniteSet(Fd)
  BY PipeAssumption, FS_Interval DEF Fd
<1>2. IsFiniteSet(Env \X Fd)
  BY <1>1, PipeAssumption, FS_Product
<1> TAKE p
<1>3. FdSlots(p) \in SUBSET (Env \X Fd) /\ DataSlots(p) \in SUBSET (Env \X Fd)
  BY DEF FdSlots, DataSlots
<1>4. IsFiniteSet(FdSlots(p)) /\ IsFiniteSet(DataSlots(p))
  BY <1>2, <1>3, FS_Subset
<1>5. Cardinality(FdSlots(p)) \in Nat /\ Cardinality(DataSlots(p)) \in Nat
  BY <1>4, FS_CardinalityType
<1>6. PageRef(p) = Cardinality(FdSlots(p)) + Cardinality(DataSlots(p))
  BY DEF PageRef, FdSlots, DataSlots
<1> QED
  BY <1>4, <1>5, <1>6

\* A page has no reference exactly if nobody has it mapped.
LEMMA RefIs == \A p : PageRef(p) = 0 <=> Unused(p)
<1> TAKE p
<1>1. PageRef(p) = 0 <=> Cardinality(FdSlots(p)) = 0 /\ Cardinality(DataSlots(p)) = 0
  BY SlotsFinite
<1>2. PageRef(p) = 0 <=> FdSlots(p) = {} /\ DataSlots(p) = {}
  BY <1>1, SlotsFinite, FS_EmptySet
<1>3. FdSlots(p) = {} /\ DataSlots(p) = {} <=>
      \A m \in Env \X Fd : fd_page[m[1]][m[2]] # p /\ data_page[m[1]][m[2]] # p
  BY DEF FdSlots, DataSlots
<1>4. Unused(p) <=>
      \A m \in Env \X Fd : fd_page[m[1]][m[2]] # p /\ data_page[m[1]][m[2]] # p
  <2>1. ASSUME Unused(p), NEW m \in Env \X Fd
        PROVE  fd_page[m[1]][m[2]] # p /\ data_page[m[1]][m[2]] # p
    <3>1. m[1] \in Env /\ m[2] \in Fd
      OBVIOUS
    <3> QED BY <2>1, <3>1 DEF Unused
  <2>2. ASSUME \A m \in Env \X Fd : fd_page[m[1]][m[2]] # p /\ data_page[m[1]][m[2]] # p,
               NEW y \in Env, NEW z \in Fd
        PROVE  fd_page[y][z] # p /\ data_page[y][z] # p
    <3>1. <<y, z>> \in Env \X Fd /\ <<y, z>>[1] = y /\ <<y, z>>[2] = z
      OBVIOUS
    <3> QED BY <2>2, <3>1
  <2> QED BY <2>1, <2>2 DEF Unused
<1> QED
  BY <1>2, <1>3, <1>4

\* The same of the mappings after a step.
LEMMA RefIsNext == \A p : PageRef(p)' = 0 <=> Unused(p)'
<1>1. (\A p : PageRef(p) = 0 <=> Unused(p))'
  BY RefIs, PTL
<1> QED BY <1>1

\* The devices, and which of them has a pipe.
LEMMA ContentIs ==
    /\ None \notin Contents /\ Cons \in Contents /\ Cons.dev = "cons" /\ Cons.pipe = None
    /\ \A c \in Contents : /\ c.dev \in {"cons", "reader", "writer"}
                           /\ c.dev = "cons" => c = Cons /\ c.pipe = None
                           /\ c.dev # "cons" => c.pipe \in Page /\ c.pipe # None
<1>1. Contents \subseteq [dev : {"cons", "reader", "writer"}, pipe : Page \cup {None}]
  BY DEF Contents, Cons, End
<1>2. None \notin Contents
  BY <1>1, PipeAssumption
<1> QED
  BY <1>2, PipeAssumption DEF Contents, Cons, End

\* The invariant's types, with names for the sets.
LEMMA Types ==
    TypeOK <=> /\ alive \subseteq Env
               /\ fd_page \in [Env -> [Fd -> Page \cup {None}]]
               /\ data_page \in [Env -> [Fd -> Page \cup {None}]]
               /\ content \in [Page -> {None} \cup Contents]
               /\ task \in [Env -> Tasks]
  BY DEF TypeOK, Contents, Tasks, Steps

\* The same after a step.
LEMMA TypesNext ==
    TypeOK' <=> /\ alive' \subseteq Env
                /\ fd_page' \in [Env -> [Fd -> Page \cup {None}]]
                /\ data_page' \in [Env -> [Fd -> Page \cup {None}]]
                /\ content' \in [Page -> {None} \cup Contents]
                /\ task' \in [Env -> Tasks]
<1>1. (TypeOK <=> /\ alive \subseteq Env
                  /\ fd_page \in [Env -> [Fd -> Page \cup {None}]]
                  /\ data_page \in [Env -> [Fd -> Page \cup {None}]]
                  /\ content \in [Page -> {None} \cup Contents]
                  /\ task \in [Env -> Tasks])'
  BY Types, PTL
<1> QED BY <1>1
-----------------------------------------------------------------------------
(* What a step of one environment leaves to the others                     *)

\* The descriptors of x change; the pages x has then are some of those e had,
\* or pages that nobody had (x is e, but for fork).  What is in the pages of
\* the others stays.
FdTaken(x, e) ==
    \A d \in Fd : fd_page'[x][d] = None \/ (\E z \in Fd : fd_page'[x][d] = fd_page[e][z])
                  \/ (Unused(fd_page'[x][d]) /\ data_page'[x] = data_page[x])
DataTaken(x, e) ==
    \A d \in Fd : data_page'[x][d] = None \/ (\E z \in Fd : data_page'[x][d] = data_page[e][z])
                  \/ (Unused(data_page'[x][d]) /\ fd_page'[x] = fd_page[x])
Frame(x) ==
    /\ alive' \subseteq alive \cup {x} /\ alive \subseteq alive' \cup {x}
    /\ \A y \in Env : y # x =>
          /\ fd_page'[y] = fd_page[y] /\ data_page'[y] = data_page[y] /\ task'[y] = task[y]
          /\ \A d \in Fd : fd_page[y][d] # None =>
                             content'[fd_page[y][d]] = content[fd_page[y][d]]
\* An end that x has then was there before, with the same pipe.
PairsTaken(x, e) ==
    \A d \in Fd :
        /\ fd_page'[x][d] # None /\ content'[fd_page'[x][d]] # None /\ data_page'[x][d] # None
        => \E z \in Fd : /\ fd_page'[x][d] = fd_page[e][z] /\ data_page'[x][d] = data_page[e][z]
                         /\ content'[fd_page'[x][d]] = content[fd_page[e][z]]
\* Who ends leaves nothing.
Leaves(x) ==
    x \notin alive' => fd_page'[x] = Unmapped /\ data_page'[x] = Unmapped /\ task'[x] = Idle

\* The descriptors of the others stay as the calls they are in left them.
LEMMA OthersSound ==
    ASSUME PipeInv, NEW x \in Env, NEW e \in Env, Frame(x), FdTaken(x, e), DataTaken(x, e),
           NEW y \in Env, y \in alive, y # x, y # e
    PROVE  TaskSound(y)'
<1> DEFINE do == task[y].do fd == task[y].fd other == task[y].other
<1>1. /\ task[y] \in Tasks /\ fd \in Fd /\ other \in Fd
      /\ task'[y] = task[y] /\ fd_page'[y] = fd_page[y] /\ data_page'[y] = data_page[y]
  BY Types DEF PipeInv, Tasks, Frame
<1>2. TaskSound(y)
  BY DEF PipeInv
<1>3. \A d \in Fd : Whole(y, d) => Whole(y, d)'
  BY <1>1 DEF Whole, Frame
<1>4. \A d \in Fd : Private(y, d) => Private(y, d)'
  <2> SUFFICES ASSUME NEW d \in Fd, Private(y, d) PROVE Private(y, d)'
    OBVIOUS
  <2> DEFINE p == fd_page[y][d]
  <2>1. p # None /\ content'[p] = None
    BY <1>1 DEF Private, Frame
  <2>2. \A w \in Env, z \in Fd : fd_page[w][z] = p => w = y /\ z = d
    BY DEF Private
  <2>3. \A z \in Fd : fd_page'[x][z] # p
    <3> SUFFICES ASSUME NEW z \in Fd, fd_page'[x][z] = p PROVE FALSE
      OBVIOUS
    <3>1. \A v \in Fd : fd_page[e][v] # p
      BY <2>2
    <3>2. Unused(p)
      BY <2>1, <3>1 DEF FdTaken
    <3> QED BY <3>2 DEF Unused
  <2>4. \A w \in Env, z \in Fd : fd_page'[w][z] = p => w = y /\ z = d
    BY <2>2, <2>3 DEF Frame
  <2>5. fd_page'[y][d] = p
    BY <1>1
  <2> QED BY <2>1, <2>4, <2>5 DEF Private
<1>5. \A d \in Fd : Sole(y, d) => Sole(y, d)'
  <2> SUFFICES ASSUME NEW d \in Fd, Sole(y, d) PROVE Sole(y, d)'
    OBVIOUS
  <2> DEFINE p == data_page[y][d]
  <2>2. p # None /\ \A w \in Env, z \in Fd : data_page[w][z] = p => w = y /\ z = d
    BY DEF Sole
  <2>3. \A z \in Fd : data_page'[x][z] # p
    <3> SUFFICES ASSUME NEW z \in Fd, data_page'[x][z] = p PROVE FALSE
      OBVIOUS
    <3>1. \A v \in Fd : data_page[e][v] # p
      BY <2>2
    <3>2. Unused(p)
      BY <2>2, <3>1 DEF DataTaken
    <3> QED BY <3>2 DEF Unused
  <2>4. \A w \in Env, z \in Fd : data_page'[w][z] = p => w = y /\ z = d
    BY <2>2, <2>3 DEF Frame
  <2>5. data_page'[y][d] = p
    BY <1>1
  <2> QED BY <2>2, <2>4, <2>5 DEF Sole
<1>6. \A d \in Fd : Open(y, d) => Open(y, d)'
  BY <1>1 DEF Open, Frame
<1>7. DupSound(y) => DupSound(y)'
  BY <1>1 DEF DupSound
<1>8. \A d \in Fd : d \notin Busy(y)' => d \notin Busy(y)
  BY <1>1 DEF Busy
<1> HIDE DEF do, fd, other
<1> QED
  BY <1>1, <1>2, <1>3, <1>4, <1>5, <1>6, <1>7, <1>8 DEF TaskSound, do, fd, other

\* The pages of descriptors and those of pipes stay apart.
LEMMA ApartKept ==
    ASSUME PipeInv, NEW x \in Env, NEW e \in Env, Frame(x), FdTaken(x, e), DataTaken(x, e)
    PROVE  Apart'
<1> SUFFICES ASSUME NEW y \in Env, NEW w \in Env, NEW d \in Fd, NEW z \in Fd,
                    fd_page'[y][d] # None, fd_page'[y][d] = data_page'[w][z]
             PROVE  FALSE
  BY DEF Apart
<1> DEFINE p == fd_page'[y][d]
<1>1. \A f, g \in Env, u, v \in Fd : fd_page[f][u] = p => data_page[g][v] # p
  BY DEF PipeInv, Apart
<1>2. \/ \E f \in Env, u \in Fd : fd_page[f][u] = p
      \/ Unused(p) /\ y = x
  <2>1. CASE y # x
    BY <2>1 DEF Frame
  <2>2. CASE y = x
    BY <2>2 DEF FdTaken
  <2> QED BY <2>1, <2>2
<1>3. \/ \E g \in Env, v \in Fd : data_page[g][v] = p
      \/ Unused(p) /\ w = x /\ fd_page'[x] = fd_page[x]
  <2>1. CASE w # x
    BY <2>1 DEF Frame
  <2>2. CASE w = x
    BY <2>2 DEF DataTaken
  <2> QED BY <2>1, <2>2
<1>4. CASE Unused(p)
  <2>1. y = x /\ w = x /\ fd_page'[x] = fd_page[x]
    BY <1>2, <1>3, <1>4 DEF Unused
  <2>2. fd_page[x][d] = p
    BY <2>1
  <2> QED BY <1>4, <2>2 DEF Unused
<1>5. CASE ~Unused(p)
  BY <1>1, <1>2, <1>3, <1>5
<1> HIDE DEF p
<1> QED
  BY <1>4, <1>5

\* A pipe keeps one page for its readers and one for its writers.
LEMMA EndsKept ==
    ASSUME PipeInv, NEW x \in Env, NEW e \in Env, Frame(x), PairsTaken(x, e)
    PROVE  TwoEnds'
<1>1. ASSUME NEW y \in Env, NEW d \in Fd, fd_page'[y][d] # None,
             content'[fd_page'[y][d]] # None, data_page'[y][d] # None
      PROVE  \E w \in Env, z \in Fd :
                /\ Paired(w, z)
                /\ fd_page'[y][d] = fd_page[w][z] /\ data_page'[y][d] = data_page[w][z]
                /\ content'[fd_page'[y][d]] = content[fd_page[w][z]]
  <2>1. CASE y # x
    BY <1>1, <2>1 DEF Frame, Paired
  <2>2. CASE y = x
    <3>1. PICK z \in Fd : /\ fd_page'[x][d] = fd_page[e][z] /\ data_page'[x][d] = data_page[e][z]
                          /\ content'[fd_page'[x][d]] = content[fd_page[e][z]]
      BY <1>1, <2>2 DEF PairsTaken
    <3>2. Paired(e, z)
      BY <1>1, <2>2, <3>1 DEF Paired
    <3> QED BY <2>2, <3>1, <3>2
  <2> QED BY <2>1, <2>2
<1> SUFFICES ASSUME NEW y \in Env, NEW w \in Env, NEW d \in Fd, NEW z \in Fd,
                    Paired(y, d)', Paired(w, z)', data_page'[y][d] = data_page'[w][z],
                    content'[fd_page'[y][d]].dev = content'[fd_page'[w][z]].dev
             PROVE  fd_page'[y][d] = fd_page'[w][z]
  BY DEF TwoEnds
<1>2. PICK y1 \in Env, d1 \in Fd :
         /\ Paired(y1, d1)
         /\ fd_page'[y][d] = fd_page[y1][d1] /\ data_page'[y][d] = data_page[y1][d1]
         /\ content'[fd_page'[y][d]] = content[fd_page[y1][d1]]
  BY <1>1 DEF Paired
<1>3. PICK w1 \in Env, z1 \in Fd :
         /\ Paired(w1, z1)
         /\ fd_page'[w][z] = fd_page[w1][z1] /\ data_page'[w][z] = data_page[w1][z1]
         /\ content'[fd_page'[w][z]] = content[fd_page[w1][z1]]
  BY <1>1 DEF Paired
<1>4. data_page[y1][d1] = data_page[w1][z1]
  BY <1>2, <1>3
<1>5. content[fd_page[y1][d1]].dev = content[fd_page[w1][z1]].dev
  <2>1. content'[fd_page'[y][d]].dev = content[fd_page[y1][d1]].dev
    BY <1>2
  <2>2. content'[fd_page'[w][z]].dev = content[fd_page[w1][z1]].dev
    BY <1>3
  <2> QED BY <2>1, <2>2
<1>6. TwoEnds
  BY DEF PipeInv
<1>7. fd_page[y1][d1] = fd_page[w1][z1]
  BY <1>2, <1>3, <1>4, <1>5, <1>6 DEF TwoEnds
<1> QED
  BY <1>2, <1>3, <1>7

\* Who is not there has nothing.
LEMMA GoneKept ==
    ASSUME PipeInv, NEW x \in Env, Frame(x), Leaves(x)
    PROVE  Gone'
<1> SUFFICES ASSUME NEW y \in Env, y \notin alive'
             PROVE  fd_page'[y] = Unmapped /\ data_page'[y] = Unmapped /\ task'[y] = Idle
  BY DEF Gone, Unmapped, Idle
<1>1. CASE y = x
  BY <1>1 DEF Leaves
<1>2. CASE y # x
  BY <1>2 DEF PipeInv, Gone, Frame
<1> QED BY <1>1, <1>2

\* So much for the others: what is left to a step is its own descriptors.
LEMMA Preserved ==
    ASSUME PipeInv, NEW x \in Env, TypeOK', Frame(x), Leaves(x), FdTaken(x, x), DataTaken(x, x),
           PairsTaken(x, x) \/ TwoEnds', Clean', x \in alive' => TaskSound(x)'
    PROVE  PipeInv'
<1>1. \A y \in alive' : TaskSound(y)'
  <2> SUFFICES ASSUME NEW y \in alive', y # x PROVE TaskSound(y)'
    OBVIOUS
  <2>1. y \in alive /\ y \in Env
    BY DEF Frame, PipeInv, TypeOK
  <2> QED BY <2>1, OthersSound
<1> QED
  BY <1>1, ApartKept, EndsKept, GoneKept DEF PipeInv
-----------------------------------------------------------------------------
(* One lemma per step                                                      *)

\* sys_mem_alloc gets a page nobody has, in which is no descriptor.
LEMMA FreshIs ==
    ASSUME PipeInv, NEW p \in Page, Fresh(p)
    PROVE  p # None /\ Unused(p) /\ content[p] = None
  BY RefIs, PipeAssumption DEF Fresh, Unused, PipeInv, Clean

\* What an environment that is there has, in any call.
LEMMA Mine ==
    ASSUME PipeInv, NEW e \in Env, e \in alive
    PROVE  /\ TaskSound(e) /\ task[e] \in Tasks /\ task[e].fd \in Fd /\ task[e].other \in Fd
           /\ fd_page \in [Env -> [Fd -> Page \cup {None}]] /\ data_page \in [Env -> [Fd -> Page \cup {None}]]
           /\ content \in [Page -> {None} \cup Contents] /\ task \in [Env -> Tasks]
           /\ alive \subseteq Env /\ None \notin Page /\ Idle \in Tasks
           /\ Unmapped \in [Fd -> Page \cup {None}]
<1>1. Idle \in Tasks
  BY PipeAssumption DEF Idle, Tasks, Steps, Fd
<1> QED
  BY <1>1, Types, PipeAssumption DEF PipeInv, Tasks, Unmapped

\* opencons
LEMMA OpenConsStep ==
    ASSUME PipeInv, NEW e \in Env, NEW d \in Fd, NEW p \in Page, OpenCons(e, d, p)
    PROVE  PipeInv'
<1>1. /\ e \in alive /\ task[e].do = "idle" /\ fd_page[e][d] = None
      /\ p # None /\ Unused(p) /\ content[p] = None
      /\ fd_page' = [fd_page EXCEPT ![e][d] = p] /\ content' = [content EXCEPT ![p] = Cons]
      /\ alive' = alive /\ data_page' = data_page /\ task' = task
  BY FreshIs DEF OpenCons, Does, FdAlloc, FdIs, Holds
<1>2. /\ TaskSound(e) /\ task[e] \in Tasks /\ None \notin Page
      /\ fd_page \in [Env -> [Fd -> Page \cup {None}]] /\ data_page \in [Env -> [Fd -> Page \cup {None}]]
      /\ content \in [Page -> {None} \cup Contents] /\ task \in [Env -> Tasks] /\ alive \subseteq Env
  BY <1>1, Mine
<1>3. \A z \in Fd : Whole(e, z)
  BY <1>1, <1>2 DEF TaskSound, Busy
<1>4. TypeOK'
  BY <1>1, <1>2, ContentIs, TypesNext
<1>5. Frame(e)
  BY <1>1, <1>2 DEF Frame, Unused
<1>6. FdTaken(e, e) /\ DataTaken(e, e) /\ Leaves(e)
  BY <1>1, <1>2 DEF FdTaken, DataTaken, Leaves
<1>7. PairsTaken(e, e)
  BY <1>1, <1>2, <1>3 DEF PairsTaken, Whole, Unused
<1>8. Clean'
  BY <1>1, <1>2 DEF PipeInv, Clean
<1>9. TaskSound(e)'
  <2>1. \A z \in Fd : z # d => Whole(e, z)'
    BY <1>1, <1>2, <1>3 DEF Whole, Unused
  <2>2. Whole(e, d)'
    BY <1>1, <1>2, <1>3, ContentIs DEF Whole
  <2> QED BY <1>1, <2>1, <2>2 DEF TaskSound
<1> QED
  BY <1>1, <1>4, <1>5, <1>6, <1>7, <1>8, <1>9, Preserved

\* pipe, to the first descriptor
LEMMA PipeFd0Step ==
    ASSUME PipeInv, NEW e \in Env, NEW d \in Fd, NEW p \in Page, PipeFd0(e, d, p)
    PROVE  PipeInv'
<1>1. /\ e \in alive /\ task[e].do = "idle" /\ fd_page[e][d] = None
      /\ p # None /\ Unused(p) /\ content[p] = None
      /\ fd_page' = [fd_page EXCEPT ![e][d] = p] /\ content' = content
      /\ alive' = alive /\ data_page' = data_page
      /\ task' = [task EXCEPT ![e] = [Idle EXCEPT !.do = "pipe_fd1", !.fd = d]]
  BY FreshIs DEF PipeFd0, Does, FdAlloc, FdIs, Goes
<1>2. /\ TaskSound(e) /\ task[e] \in Tasks /\ None \notin Page /\ Idle \in Tasks
      /\ fd_page \in [Env -> [Fd -> Page \cup {None}]] /\ data_page \in [Env -> [Fd -> Page \cup {None}]]
      /\ content \in [Page -> {None} \cup Contents] /\ task \in [Env -> Tasks] /\ alive \subseteq Env
  BY <1>1, Mine
<1>3. \A z \in Fd : Whole(e, z)
  BY <1>1, <1>2 DEF TaskSound, Busy
<1>t. task'[e].do = "pipe_fd1" /\ task'[e].fd = d /\ task'[e] \in Tasks
  BY <1>1, <1>2 DEF Idle, Tasks, Steps
<1>4. TypeOK'
  BY <1>1, <1>2, <1>t, TypesNext
<1>5. Frame(e)
  BY <1>1, <1>2 DEF Frame, Unused
<1>6. FdTaken(e, e) /\ DataTaken(e, e) /\ Leaves(e)
  BY <1>1, <1>2 DEF FdTaken, DataTaken, Leaves
<1>7. PairsTaken(e, e)
  BY <1>1, <1>2, <1>3 DEF PairsTaken, Whole, Unused
<1>8. Clean'
  BY <1>1, <1>2 DEF PipeInv, Clean
<1>9. TaskSound(e)'
  <2>1. \A z \in Fd : z # d => Whole(e, z)'
    BY <1>1, <1>2, <1>3 DEF Whole
  <2>2. Private(e, d)' /\ data_page'[e][d] = None
    BY <1>1, <1>2, <1>3 DEF Private, Whole, Unused
  <2> QED BY <1>t, <2>1, <2>2 DEF TaskSound, Busy
<1> QED
  BY <1>1, <1>4, <1>5, <1>6, <1>7, <1>8, <1>9, Preserved

\* pipe, to the second descriptor, or err1
LEMMA PipeFd1Step ==
    ASSUME PipeInv, NEW e \in Env, NEW p \in Page, PipeFd1(e, p)
    PROVE  PipeInv'
<1>1. /\ e \in alive /\ task[e].do = "pipe_fd1"
      /\ alive' = alive /\ data_page' = data_page /\ content' = content
  BY DEF PipeFd1, Does
<1>2. /\ TaskSound(e) /\ task[e] \in Tasks /\ task[e].fd \in Fd /\ task[e].other \in Fd
      /\ fd_page \in [Env -> [Fd -> Page \cup {None}]] /\ data_page \in [Env -> [Fd -> Page \cup {None}]]
      /\ content \in [Page -> {None} \cup Contents] /\ task \in [Env -> Tasks] /\ alive \subseteq Env
      /\ None \notin Page /\ Idle \in Tasks
  BY <1>1, Mine
<1>f. PICK fd \in Fd, other \in Fd : fd = task[e].fd /\ other = task[e].other
  BY <1>2
<1>3. /\ \A z \in Fd : z # fd => Whole(e, z)
      /\ Private(e, fd) /\ data_page[e][fd] = None
  BY <1>1, <1>2, <1>f DEF TaskSound, Busy
<1>4. ASSUME NEW d \in Fd, FdAlloc(e, d), Fresh(p), FdIs(e, d, p),
             Goes(e, [task[e] EXCEPT !.do = "pipe_data", !.other = d])
      PROVE  PipeInv'
  <2>1. /\ fd_page[e][d] = None /\ p # None /\ Unused(p) /\ content[p] = None
        /\ fd_page' = [fd_page EXCEPT ![e][d] = p]
    BY <1>4, FreshIs DEF FdAlloc, FdIs
  <2>2. d # fd
    BY <1>3, <2>1 DEF Private
  <2>3. /\ task' = [task EXCEPT ![e] = task'[e]] /\ task'[e] \in Tasks
        /\ task'[e].do = "pipe_data" /\ task'[e].fd = fd /\ task'[e].other = d
    BY <1>2, <1>f, <1>4 DEF Goes, Tasks, Steps
  <2>4. TypeOK'
    BY <1>1, <1>2, <1>f, <2>1, <2>3, TypesNext
  <2>5. Frame(e)
    BY <1>1, <1>2, <1>f, <2>1, <2>3 DEF Frame
  <2>6. FdTaken(e, e) /\ DataTaken(e, e) /\ Leaves(e)
    BY <1>1, <1>2, <1>f, <2>1 DEF FdTaken, DataTaken, Leaves
  <2>7. PairsTaken(e, e)
    BY <1>1, <1>2, <1>f, <1>3, <2>1, <2>2 DEF PairsTaken, Whole
  <2>8. Clean'
    BY <1>1, <1>2, <1>f, <2>1 DEF PipeInv, Clean
  <2>9. TaskSound(e)'
    <3>1. \A z \in Fd : z # d /\ z # fd => Whole(e, z)'
      BY <1>1, <1>2, <1>f, <1>3, <2>1 DEF Whole
    <3>2. Private(e, d)' /\ data_page'[e][d] = None
      BY <1>1, <1>2, <1>f, <1>3, <2>1, <2>2 DEF Private, Whole, Unused
    <3>3. Private(e, fd)' /\ data_page'[e][fd] = None
      BY <1>1, <1>2, <1>f, <1>3, <2>1, <2>2 DEF Private, Unused
    <3> QED BY <2>2, <2>3, <3>1, <3>2, <3>3 DEF TaskSound, Busy
  <2> QED
    BY <1>1, <2>4, <2>5, <2>6, <2>7, <2>8, <2>9, Preserved
<1>5. ASSUME FdIs(e, task[e].fd, None), Goes(e, Idle)
      PROVE  PipeInv'
  <2>1. /\ fd_page' = [fd_page EXCEPT ![e][fd] = None] /\ task' = [task EXCEPT ![e] = Idle]
    BY <1>5, <1>f DEF FdIs, Goes
  <2>3. fd \in Fd /\ task'[e].do = "idle"
    BY <1>2, <1>f, <2>1 DEF Idle
  <2>4. TypeOK'
    BY <1>1, <1>2, <1>f, <2>1, <2>3, TypesNext
  <2>5. Frame(e)
    BY <1>1, <1>2, <1>f, <2>1, <2>3 DEF Frame
  <2>6. FdTaken(e, e) /\ DataTaken(e, e) /\ Leaves(e)
    BY <1>1, <1>2, <1>f, <2>1, <2>3 DEF FdTaken, DataTaken, Leaves
  <2>7. PairsTaken(e, e)
    BY <1>1, <1>2, <1>f, <2>1, <2>3 DEF PairsTaken
  <2>8. Clean'
    BY <1>1, <1>2, <1>f, <1>3, <2>1, <2>3 DEF PipeInv, Clean, Private
  <2>9. TaskSound(e)'
    <3>1. \A z \in Fd : z # fd => Whole(e, z)'
      BY <1>1, <1>2, <1>f, <1>3, <2>1 DEF Whole
    <3>2. Whole(e, fd)'
      BY <1>1, <1>2, <1>f, <1>3, <2>1, <2>3 DEF Whole
    <3> QED BY <2>3, <3>1, <3>2 DEF TaskSound
  <2> QED
    BY <1>1, <2>4, <2>5, <2>6, <2>7, <2>8, <2>9, Preserved
<1> QED
  BY <1>4, <1>5 DEF PipeFd1

\* Both descriptors of a pipe that does not come about are given up.
LEMMA NoFdsStep ==
    ASSUME PipeInv, NEW e \in Env, e \in alive, task[e].do \in {"pipe_data", "pipe_map"},
           NoFds(e), Goes(e, Idle), alive' = alive, content' = content,
           data_page' = [data_page EXCEPT ![e][task[e].fd] = None]
    PROVE  PipeInv'
<1>2. /\ TaskSound(e) /\ task[e] \in Tasks /\ task[e].fd \in Fd /\ task[e].other \in Fd
      /\ fd_page \in [Env -> [Fd -> Page \cup {None}]] /\ data_page \in [Env -> [Fd -> Page \cup {None}]]
      /\ content \in [Page -> {None} \cup Contents] /\ task \in [Env -> Tasks] /\ alive \subseteq Env
      /\ None \notin Page /\ Idle \in Tasks
  BY Mine
<1>f. PICK fd \in Fd, other \in Fd : fd = task[e].fd /\ other = task[e].other
  BY <1>2
<1>3. /\ \A z \in Fd : z \notin {fd, other} => Whole(e, z)
      /\ Private(e, fd) /\ Private(e, other) /\ data_page[e][other] = None
  BY <1>2, <1>f DEF TaskSound, Busy
<1>5. /\ fd_page' = [fd_page EXCEPT ![e] = [d \in Fd |-> IF d \in {fd, other} THEN None
                                                          ELSE fd_page[e][d]]]
      /\ task' = [task EXCEPT ![e] = Idle]
      /\ data_page' = [data_page EXCEPT ![e][fd] = None]
  BY <1>2, <1>f DEF NoFds, Goes
<1>6. task'[e].do = "idle"
  BY <1>2, <1>f, <1>5 DEF Idle
<1>7. TypeOK'
  BY <1>2, <1>f, <1>5, TypesNext
<1>8. Frame(e)
  BY <1>2, <1>f, <1>5 DEF Frame
<1>9. FdTaken(e, e) /\ DataTaken(e, e) /\ Leaves(e)
  BY <1>2, <1>f, <1>5 DEF FdTaken, DataTaken, Leaves
<1>10. PairsTaken(e, e)
  BY <1>2, <1>f, <1>5 DEF PairsTaken
<1>11. Clean'
  <2> SUFFICES ASSUME NEW q \in Page, content[q] # None
               PROVE  \E y \in Env, z \in Fd : fd_page'[y][z] = q
    BY DEF Clean
  <2>1. PICK y \in Env, z \in Fd : fd_page[y][z] = q
    BY DEF PipeInv, Clean
  <2>2. ~(y = e /\ z \in {fd, other})
    BY <1>3, <2>1 DEF Private
  <2>3. fd_page'[y][z] = q
    BY <1>2, <1>f, <1>5, <2>1, <2>2
  <2> QED BY <2>3
<1>12. TaskSound(e)'
  <2>1. \A z \in Fd : z \notin {fd, other} => Whole(e, z)'
    BY <1>2, <1>f, <1>3, <1>5 DEF Whole
  <2>2. Whole(e, fd)' /\ Whole(e, other)'
    BY <1>2, <1>f, <1>3, <1>5 DEF Whole
  <2> QED BY <1>6, <2>1, <2>2 DEF TaskSound
<1> QED
  BY <1>7, <1>8, <1>9, <1>10, <1>11, <1>12, Preserved

\* pipe, to the page of the pipe, or err2
LEMMA PipeDataStep ==
    ASSUME PipeInv, NEW e \in Env, NEW p \in Page, PipeData(e, p)
    PROVE  PipeInv'
<1>1. /\ e \in alive /\ task[e].do = "pipe_data"
      /\ alive' = alive /\ content' = content
  BY DEF PipeData, Does
<1>2. /\ TaskSound(e) /\ task[e] \in Tasks /\ task[e].fd \in Fd /\ task[e].other \in Fd
      /\ fd_page \in [Env -> [Fd -> Page \cup {None}]] /\ data_page \in [Env -> [Fd -> Page \cup {None}]]
      /\ content \in [Page -> {None} \cup Contents] /\ task \in [Env -> Tasks] /\ alive \subseteq Env
      /\ None \notin Page /\ Idle \in Tasks
  BY <1>1, Mine
<1>f. PICK fd \in Fd, other \in Fd : fd = task[e].fd /\ other = task[e].other
  BY <1>2
<1>3. /\ \A z \in Fd : z \notin {fd, other} => Whole(e, z)
      /\ fd # other /\ Private(e, fd) /\ Private(e, other)
      /\ data_page[e][other] = None /\ data_page[e][fd] = None
  BY <1>1, <1>2, <1>f DEF TaskSound, Busy
<1>4. ASSUME Fresh(p), DataIs(e, task[e].fd, p), Goes(e, [task[e] EXCEPT !.do = "pipe_map"]),
             UNCHANGED fd_page
      PROVE  PipeInv'
  <2>1. /\ p # None /\ Unused(p) /\ content[p] = None
        /\ data_page' = [data_page EXCEPT ![e][fd] = p] /\ fd_page' = fd_page
    BY <1>4, <1>f, FreshIs DEF DataIs
  <2>3. /\ task' = [task EXCEPT ![e] = task'[e]] /\ task'[e] \in Tasks
        /\ task'[e].do = "pipe_map" /\ task'[e].fd = fd /\ task'[e].other = other
    BY <1>2, <1>f, <1>4 DEF Goes, Tasks, Steps
  <2>4. TypeOK'
    BY <1>1, <1>2, <1>f, <2>1, <2>3, TypesNext
  <2>5. Frame(e)
    BY <1>1, <1>2, <1>f, <2>1, <2>3 DEF Frame
  <2>6. FdTaken(e, e) /\ DataTaken(e, e) /\ Leaves(e)
    BY <1>1, <1>2, <1>f, <2>1 DEF FdTaken, DataTaken, Leaves
  <2>7. PairsTaken(e, e)
    BY <1>1, <1>2, <1>f, <1>3, <2>1 DEF PairsTaken, Private
  <2>8. Clean'
    BY <1>1, <2>1 DEF PipeInv, Clean
  <2>9. TaskSound(e)'
    <3>1. \A z \in Fd : z \notin {fd, other} => Whole(e, z)'
      BY <1>1, <1>2, <1>f, <1>3, <2>1 DEF Whole
    <3>2. Private(e, fd)' /\ Private(e, other)' /\ data_page'[e][other] = None
      BY <1>1, <1>2, <1>f, <1>3, <2>1 DEF Private
    <3>3. Sole(e, fd)'
      BY <1>1, <1>2, <1>f, <2>1 DEF Sole, Unused
    <3> QED BY <1>3, <2>3, <3>1, <3>2, <3>3 DEF TaskSound, Busy
  <2> QED
    BY <1>1, <2>4, <2>5, <2>6, <2>7, <2>8, <2>9, Preserved
<1>5. ASSUME NoFds(e), Goes(e, Idle), UNCHANGED data_page
      PROVE  PipeInv'
  <2>1. data_page' = [data_page EXCEPT ![e][task[e].fd] = None]
    BY <1>2, <1>f, <1>3, <1>5
  <2> QED BY <1>1, <1>5, <2>1, NoFdsStep
<1> QED
  BY <1>1, <1>4, <1>5 DEF PipeData

\* pipe, when all is there: the two descriptors become ends of the pipe; or err3
LEMMA PipeMapStep ==
    ASSUME PipeInv, NEW e \in Env, PipeMap(e)
    PROVE  PipeInv'
<1>1. e \in alive /\ task[e].do = "pipe_map" /\ alive' = alive /\ Goes(e, Idle)
  BY DEF PipeMap, Does
<1>2. /\ TaskSound(e) /\ task[e] \in Tasks /\ task[e].fd \in Fd /\ task[e].other \in Fd
      /\ fd_page \in [Env -> [Fd -> Page \cup {None}]] /\ data_page \in [Env -> [Fd -> Page \cup {None}]]
      /\ content \in [Page -> {None} \cup Contents] /\ task \in [Env -> Tasks] /\ alive \subseteq Env
      /\ None \notin Page /\ Idle \in Tasks
  BY <1>1, Mine
<1>f. PICK fd \in Fd, other \in Fd : fd = task[e].fd /\ other = task[e].other
  BY <1>2
<1>3. /\ \A z \in Fd : z \notin {fd, other} => Whole(e, z)
      /\ fd # other /\ Private(e, fd) /\ Private(e, other) /\ Sole(e, fd)
      /\ data_page[e][other] = None
  BY <1>1, <1>2, <1>f DEF TaskSound, Busy
<1>4. CASE NoFds(e) /\ DataIs(e, task[e].fd, None) /\ UNCHANGED content
  BY <1>1, <1>4, NoFdsStep DEF DataIs
<1>5. ASSUME LET p == data_page[e][task[e].fd]
             IN  /\ DataIs(e, task[e].other, p)
                 /\ content' = [content EXCEPT ![fd_page[e][task[e].fd]] = End("reader", p),
                                               ![fd_page[e][task[e].other]] = End("writer", p)]
                 /\ UNCHANGED fd_page
      PROVE  PipeInv'
  <2>p. PICK p \in Page : p = data_page[e][fd]
    BY <1>2, <1>3 DEF Sole
  <2>r. PICK r \in Page, w \in Page : r = fd_page[e][fd] /\ w = fd_page[e][other]
    BY <1>2, <1>3 DEF Private
  <2>1. /\ data_page' = [data_page EXCEPT ![e][other] = p] /\ fd_page' = fd_page
        /\ content' = [content EXCEPT ![r] = End("reader", p), ![w] = End("writer", p)]
        /\ task' = [task EXCEPT ![e] = Idle]
    BY <1>1, <1>5, <1>f, <2>p, <2>r DEF DataIs, Goes
  <2>2. /\ \A y \in Env, z \in Fd : fd_page[y][z] = r => y = e /\ z = fd
        /\ \A y \in Env, z \in Fd : fd_page[y][z] = w => y = e /\ z = other
        /\ \A y \in Env, z \in Fd : data_page[y][z] = p => y = e /\ z = fd
    BY <1>3, <2>p, <2>r DEF Private, Sole
  <2>3. r # w
    BY <1>3, <2>2, <2>r
  <2>c. /\ End("reader", p) \in Contents /\ End("writer", p) \in Contents
        /\ End("reader", p).dev = "reader" /\ End("writer", p).dev = "writer"
        /\ End("reader", p).pipe = p /\ End("writer", p).pipe = p
        /\ End("reader", p) # None /\ End("writer", p) # None
    <3>1. End("reader", p) \in Contents /\ End("writer", p) \in Contents
      BY DEF Contents
    <3> QED BY <3>1, ContentIs DEF End
  <2>d. content'[r] = End("reader", p) /\ content'[w] = End("writer", p)
        /\ \A q \in Page : q \notin {r, w} => content'[q] = content[q]
    BY <1>2, <2>1, <2>3
  <2>4. TypeOK'
    BY <1>1, <1>2, <2>1, <2>c, TypesNext
  <2>5. Frame(e)
    BY <1>1, <1>2, <2>1, <2>2, <2>d DEF Frame
  <2>6. FdTaken(e, e) /\ DataTaken(e, e) /\ Leaves(e)
    BY <1>1, <1>2, <2>1, <2>p DEF FdTaken, DataTaken, Leaves
  <2>7. TwoEnds'
    <3>1. ASSUME NEW y \in Env, NEW z \in Fd, Paired(y, z)', data_page'[y][z] = p
          PROVE  \/ fd_page'[y][z] = r /\ content'[fd_page'[y][z]].dev = "reader"
                 \/ fd_page'[y][z] = w /\ content'[fd_page'[y][z]].dev = "writer"
      <4>1. y = e /\ z \in {fd, other}
        BY <1>2, <2>1, <2>2, <3>1
      <4> QED BY <4>1, <2>1, <2>r, <2>c, <2>d
    <3>2. ASSUME NEW y \in Env, NEW z \in Fd, Paired(y, z)', data_page'[y][z] # p
          PROVE  /\ Paired(y, z) /\ data_page'[y][z] = data_page[y][z]
                 /\ content'[fd_page'[y][z]] = content[fd_page[y][z]]
      <4>1. ~(y = e /\ z = other) /\ ~(y = e /\ z = fd)
        BY <1>2, <2>1, <3>2, <2>p
      <4>2. data_page'[y][z] = data_page[y][z]
        BY <1>2, <2>1, <4>1
      <4>3. fd_page[y][z] \notin {r, w}
        BY <2>2, <4>1
      <4>4. fd_page[y][z] \in Page
        BY <1>2, <2>1, <3>2 DEF Paired
      <4> QED BY <2>1, <2>d, <3>2, <4>2, <4>3, <4>4 DEF Paired
    <3> SUFFICES ASSUME NEW y \in Env, NEW v \in Env, NEW d \in Fd, NEW z \in Fd,
                        Paired(y, d)', Paired(v, z)', data_page'[y][d] = data_page'[v][z],
                        content'[fd_page'[y][d]].dev = content'[fd_page'[v][z]].dev
                 PROVE  fd_page'[y][d] = fd_page'[v][z]
      BY DEF TwoEnds
    <3>3. CASE data_page'[y][d] = p
      BY <3>1, <3>3
    <3>4. CASE data_page'[y][d] # p
      <4>1. Paired(y, d) /\ Paired(v, z) /\ data_page[y][d] = data_page[v][z]
        BY <3>2, <3>4
      <4>2. content[fd_page[y][d]].dev = content[fd_page[v][z]].dev
        BY <3>2, <3>4
      <4>3. fd_page[y][d] = fd_page[v][z]
        BY <4>1, <4>2 DEF PipeInv, TwoEnds
      <4> QED BY <2>1, <4>3
    <3> QED BY <3>3, <3>4
  <2>8. Clean'
    <3> SUFFICES ASSUME NEW q \in Page, content'[q] # None
                 PROVE  \E y \in Env, z \in Fd : fd_page'[y][z] = q
      BY DEF Clean
    <3>1. CASE q \in {r, w}
      BY <2>1, <2>r, <3>1
    <3>2. CASE q \notin {r, w}
      BY <2>1, <2>d, <3>2 DEF PipeInv, Clean
    <3> QED BY <3>1, <3>2
  <2>9. TaskSound(e)'
    <3>1. \A z \in Fd : z \notin {fd, other} => Whole(e, z)'
      <4> SUFFICES ASSUME NEW z \in Fd, z \notin {fd, other} PROVE Whole(e, z)'
        OBVIOUS
      <4>1. fd_page'[e][z] = fd_page[e][z] /\ data_page'[e][z] = data_page[e][z]
        BY <1>2, <2>1
      <4>2. fd_page[e][z] \notin {r, w}
        BY <2>2
      <4>3. fd_page[e][z] # None => content'[fd_page[e][z]] = content[fd_page[e][z]]
        BY <1>2, <2>d, <4>2
      <4> QED BY <1>3, <4>1, <4>3 DEF Whole
    <3>2. Whole(e, fd)' /\ Whole(e, other)'
      BY <1>2, <1>3, <2>1, <2>p, <2>r, <2>c, <2>d DEF Whole
    <3>3. task'[e].do = "idle"
      BY <1>2, <2>1 DEF Idle
    <3> QED BY <3>1, <3>2, <3>3 DEF TaskSound
  <2> QED
    BY <1>1, <2>4, <2>5, <2>6, <2>7, <2>8, <2>9, Preserved
<1> QED
  BY <1>1, <1>4, <1>5 DEF PipeMap

\* close up to dev_close, in close, dup or close_all
LEMMA DevCloseStep ==
    ASSUME PipeInv, NEW e \in Env, e \in alive, task[e].do \in {"idle", "exit"},
           NEW d \in Fd, Open(e, d), NEW t \in Tasks, DevClose(e, d, t),
           t.then \in {"idle", "exit", "dup_data"},
           t.then = "dup_data" => t.other = d \/ fd_page[e][t.other] # None
    PROVE  PipeInv'
<1>1. /\ alive' = alive /\ fd_page' = fd_page /\ content' = content
      /\ task' = [task EXCEPT ![e] = [t EXCEPT !.do = "close", !.fd = d]]
      /\ fd_page[e][d] # None /\ content[fd_page[e][d]] # None
  BY DEF DevClose, Goes, Open
<1>2. /\ TaskSound(e) /\ task[e] \in Tasks /\ task[e].fd \in Fd /\ task[e].other \in Fd
      /\ fd_page \in [Env -> [Fd -> Page \cup {None}]] /\ data_page \in [Env -> [Fd -> Page \cup {None}]]
      /\ content \in [Page -> {None} \cup Contents] /\ task \in [Env -> Tasks] /\ alive \subseteq Env
      /\ None \notin Page /\ Idle \in Tasks
  BY Mine
<1>3. \A z \in Fd : Whole(e, z)
  BY <1>2 DEF TaskSound, Busy
<1>t. /\ task'[e] \in Tasks /\ task'[e].do = "close" /\ task'[e].fd = d
      /\ task'[e].then = t.then /\ task'[e].other = t.other
  BY <1>1, <1>2 DEF Tasks, Steps
<1>4. data_page' = [data_page EXCEPT ![e][d] = None]
  <2>1. CASE content[fd_page[e][d]].dev = "cons"
    <3>1. content[fd_page[e][d]] \in Contents
      BY <1>1, <1>2
    <3>2. data_page[e][d] = None
      BY <1>1, <1>3, <2>1, <3>1, ContentIs DEF Whole
    <3>3. data_page' = data_page
      BY <2>1 DEF DevClose
    <3> QED BY <1>2, <3>2, <3>3
  <2>2. CASE content[fd_page[e][d]].dev # "cons"
    BY <2>2 DEF DevClose
  <2> QED BY <2>1, <2>2
<1>5. TypeOK'
  BY <1>1, <1>2, <1>t, <1>4, TypesNext
<1>6. Frame(e)
  BY <1>1, <1>2, <1>4 DEF Frame
<1>7. FdTaken(e, e) /\ DataTaken(e, e) /\ Leaves(e)
  BY <1>1, <1>2, <1>4 DEF FdTaken, DataTaken, Leaves
<1>8. PairsTaken(e, e)
  BY <1>1, <1>2, <1>4 DEF PairsTaken
<1>9. Clean'
  BY <1>1 DEF PipeInv, Clean
<1>10. TaskSound(e)'
  <2>1. \A z \in Fd : z # d => Whole(e, z)'
    BY <1>1, <1>2, <1>3, <1>4 DEF Whole
  <2>2. Open(e, d)' /\ data_page'[e][d] = None
    BY <1>1, <1>2, <1>4 DEF Open
  <2>3. t.then = "dup_data" => DupSound(e)'
    BY <1>1, <1>t DEF DupSound
  <2> QED BY <1>t, <2>1, <2>2, <2>3 DEF TaskSound, Busy
<1> QED
  BY <1>1, <1>5, <1>6, <1>7, <1>8, <1>9, <1>10, Preserved

\* A page that is given up by its last holder is forgotten with what is in it,
\* and only such a page is.
LEMMA KeepClean ==
    ASSUME PipeInv, NEW x \in Env, Keep,
           \A y \in Env : y # x => fd_page'[y] = fd_page[y] /\ data_page'[y] = data_page[y],
           \A z \in Fd : data_page'[x][z] = None \/ data_page'[x][z] = data_page[x][z]
    PROVE  /\ Clean' /\ content' \in [Page -> {None} \cup Contents]
           /\ \A y \in Env, z \in Fd : fd_page'[y][z] \in Page =>
                 content'[fd_page'[y][z]] = content[fd_page'[y][z]]
<1>0. content \in [Page -> {None} \cup Contents] /\ None \notin Page
  BY Types, PipeAssumption DEF PipeInv
<1>1. \A q \in Page : content'[q] = IF Unused(q)' THEN None ELSE content[q]
  BY RefIsNext DEF Keep
<1>2. content' \in [Page -> {None} \cup Contents]
  <2>1. content' = [q \in Page |-> IF Unused(q)' THEN None ELSE content[q]]
    BY RefIsNext DEF Keep
  <2> QED BY <1>0, <2>1
<1>4. \A y \in Env, z \in Fd : fd_page'[y][z] \in Page =>
         content'[fd_page'[y][z]] = content[fd_page'[y][z]]
  <2> SUFFICES ASSUME NEW y \in Env, NEW z \in Fd, fd_page'[y][z] \in Page
               PROVE  content'[fd_page'[y][z]] = content[fd_page'[y][z]]
    OBVIOUS
  <2>1. PICK q \in Page : q = fd_page'[y][z]
    OBVIOUS
  <2>2. ~Unused(q)'
    BY <2>1 DEF Unused
  <2> QED BY <1>1, <2>1, <2>2
<1>5. Clean'
  <2> SUFFICES ASSUME NEW q \in Page, content'[q] # None
               PROVE  \E y \in Env, z \in Fd : fd_page'[y][z] = q
    BY DEF Clean
  <2>1. content[q] # None /\ ~Unused(q)'
    BY <1>1
  <2>2. PICK y \in Env, z \in Fd : fd_page[y][z] = q
    BY <2>1 DEF PipeInv, Clean
  <2>3. \A w \in Env, u \in Fd : data_page[w][u] # q
    BY <1>0, <2>2 DEF PipeInv, Apart
  <2>4. \A w \in Env, u \in Fd : data_page'[w][u] # q
    BY <1>0, <2>3
  <2> QED BY <2>1, <2>4 DEF Unused
<1> QED BY <1>2, <1>4, <1>5

\* The second half of close
LEMMA FdCloseStep ==
    ASSUME PipeInv, NEW e \in Env, FdClose(e)
    PROVE  PipeInv'
<1>1. /\ e \in alive /\ task[e].do = "close" /\ Keep
      /\ alive' = alive /\ data_page' = data_page
  BY DEF FdClose, Does
<1>2. /\ TaskSound(e) /\ task[e] \in Tasks /\ task[e].fd \in Fd /\ task[e].other \in Fd
      /\ fd_page \in [Env -> [Fd -> Page \cup {None}]] /\ data_page \in [Env -> [Fd -> Page \cup {None}]]
      /\ content \in [Page -> {None} \cup Contents] /\ task \in [Env -> Tasks] /\ alive \subseteq Env
      /\ None \notin Page /\ Idle \in Tasks
  BY <1>1, Mine
<1>f. PICK fd \in Fd, other \in Fd : fd = task[e].fd /\ other = task[e].other
  BY <1>2
<1>3. /\ \A z \in Fd : z # fd => Whole(e, z)
      /\ data_page[e][fd] = None
      /\ task[e].then \in {"idle", "exit", "dup_data"}
      /\ task[e].then = "dup_data" => DupSound(e)
  BY <1>1, <1>2, <1>f DEF TaskSound, Busy
<1>4. fd_page' = [fd_page EXCEPT ![e][fd] = None]
  BY <1>f DEF FdClose, FdIs
<1>z. 0 \in Fd
  BY PipeAssumption DEF Fd
<1>5. PICK t \in Tasks : t = [task[e] EXCEPT !.do = task[e].then,
                                             !.fd = IF task[e].then = "idle" THEN 0 ELSE @]
  <2>1. [task[e] EXCEPT !.do = task[e].then,
                        !.fd = IF task[e].then = "idle" THEN 0 ELSE @] \in Tasks
    BY <1>2, <1>z DEF Tasks
  <2> QED BY <2>1
<1>6. /\ task' = [task EXCEPT ![e] = t] /\ task'[e] = t /\ t.do = task[e].then
      /\ t.do = "dup_data" => t.fd = fd /\ t.other = other
  BY <1>2, <1>3, <1>5, <1>f DEF FdClose, Goes, Tasks
<1>7. /\ Clean' /\ content' \in [Page -> {None} \cup Contents]
      /\ \A y \in Env, z \in Fd : fd_page'[y][z] \in Page =>
            content'[fd_page'[y][z]] = content[fd_page'[y][z]]
  BY <1>1, <1>2, <1>4, KeepClean
<1>8. TypeOK'
  BY <1>1, <1>2, <1>4, <1>6, <1>7, TypesNext
<1>9. Frame(e)
  BY <1>1, <1>2, <1>4, <1>6, <1>7 DEF Frame
<1>10. FdTaken(e, e) /\ DataTaken(e, e) /\ Leaves(e)
  BY <1>1, <1>2, <1>4 DEF FdTaken, DataTaken, Leaves
<1>11. PairsTaken(e, e)
  BY <1>1, <1>2, <1>4, <1>7 DEF PairsTaken
<1>12. TaskSound(e)'
  <2>1. \A z \in Fd : z # fd => Whole(e, z)'
    BY <1>1, <1>2, <1>3, <1>4, <1>7 DEF Whole
  <2>2. Whole(e, fd)' /\ fd_page'[e][fd] = None /\ data_page'[e][fd] = None
    BY <1>1, <1>2, <1>3, <1>4 DEF Whole
  <2>3. \A z \in Fd : Whole(e, z)'
    BY <2>1, <2>2
  <2>4. ASSUME t.do = "dup_data" PROVE DupSound(e)'
    BY <1>2, <1>3, <1>4, <1>6, <1>f, <2>4 DEF DupSound
  <2> QED BY <1>3, <1>6, <2>2, <2>3, <2>4 DEF TaskSound
<1> QED
  BY <1>1, <1>7, <1>8, <1>9, <1>10, <1>11, <1>12, Preserved

\* The end of an environment
LEMMA EnvFreeStep ==
    ASSUME PipeInv, NEW e \in Env, EnvFree(e)
    PROVE  PipeInv'
<1>1. /\ e \in alive /\ Keep /\ alive' = alive \ {e}
      /\ fd_page' = [fd_page EXCEPT ![e] = Unmapped]
      /\ data_page' = [data_page EXCEPT ![e] = Unmapped]
      /\ task' = [task EXCEPT ![e] = Idle]
  BY DEF EnvFree, Goes
<1>2. /\ TaskSound(e) /\ task[e] \in Tasks /\ task[e].fd \in Fd /\ task[e].other \in Fd
      /\ fd_page \in [Env -> [Fd -> Page \cup {None}]] /\ data_page \in [Env -> [Fd -> Page \cup {None}]]
      /\ content \in [Page -> {None} \cup Contents] /\ task \in [Env -> Tasks] /\ alive \subseteq Env
      /\ None \notin Page /\ Idle \in Tasks /\ Unmapped \in [Fd -> Page \cup {None}] /\ \A z \in Fd : Unmapped[z] = None
  BY <1>1, Mine DEF Unmapped
<1>7. /\ Clean' /\ content' \in [Page -> {None} \cup Contents]
      /\ \A y \in Env, z \in Fd : fd_page'[y][z] \in Page =>
            content'[fd_page'[y][z]] = content[fd_page'[y][z]]
  BY <1>1, <1>2, KeepClean
<1>8. TypeOK'
  BY <1>1, <1>2, <1>7, TypesNext
<1>9. Frame(e)
  BY <1>1, <1>2, <1>7 DEF Frame
<1>10. FdTaken(e, e) /\ DataTaken(e, e) /\ Leaves(e)
  BY <1>1, <1>2 DEF FdTaken, DataTaken, Leaves
<1>11. PairsTaken(e, e)
  BY <1>1, <1>2, <1>7 DEF PairsTaken
<1> QED
  BY <1>1, <1>7, <1>8, <1>9, <1>10, <1>11, Preserved

\* dup
LEMMA DupStep ==
    ASSUME PipeInv, NEW e \in Env, NEW from \in Fd, NEW to \in Fd, Dup(e, from, to)
    PROVE  PipeInv'
<1>r. PICK rest \in Tasks :
         rest = [do |-> "dup_data", fd |-> to, other |-> from, then |-> "dup_data"]
  BY DEF Tasks, Steps
<1>1. /\ e \in alive /\ task[e].do = "idle" /\ fd_page[e][from] # None
      /\ IF Open(e, to) THEN DevClose(e, to, rest)
         ELSE Goes(e, rest) /\ UNCHANGED <<alive, fd_page, data_page, content>>
  BY <1>r DEF Dup, Does
<1>2. /\ TaskSound(e) /\ task[e] \in Tasks /\ task[e].fd \in Fd /\ task[e].other \in Fd
      /\ fd_page \in [Env -> [Fd -> Page \cup {None}]] /\ data_page \in [Env -> [Fd -> Page \cup {None}]]
      /\ content \in [Page -> {None} \cup Contents] /\ task \in [Env -> Tasks] /\ alive \subseteq Env
      /\ None \notin Page /\ Idle \in Tasks
  BY <1>1, Mine
<1>3. \A z \in Fd : Whole(e, z)
  BY <1>1, <1>2 DEF TaskSound, Busy
<1>4. CASE Open(e, to)
  BY <1>1, <1>r, <1>4, DevCloseStep
<1>5. CASE ~Open(e, to)
  <2>1. /\ task' = [task EXCEPT ![e] = rest] /\ alive' = alive /\ fd_page' = fd_page
        /\ data_page' = data_page /\ content' = content
    BY <1>1, <1>5 DEF Goes
  <2>2. fd_page[e][to] = None /\ data_page[e][to] = None
    BY <1>3, <1>5 DEF Whole, Open
  <2>3. task'[e] = rest
    BY <1>2, <2>1
  <2>4. TypeOK'
    BY <1>2, <2>1, TypesNext
  <2>5. Frame(e)
    BY <1>2, <2>1 DEF Frame
  <2>6. FdTaken(e, e) /\ DataTaken(e, e) /\ Leaves(e) /\ PairsTaken(e, e)
    BY <1>1, <2>1 DEF FdTaken, DataTaken, Leaves, PairsTaken
  <2>7. Clean'
    BY <2>1 DEF PipeInv, Clean
  <2>8. TaskSound(e)'
    <3>1. \A z \in Fd : Whole(e, z)'
      BY <1>3, <2>1 DEF Whole
    <3>2. DupSound(e)'
      BY <1>1, <1>r, <2>1, <2>3 DEF DupSound
    <3> QED BY <1>r, <2>1, <2>2, <2>3, <3>1, <3>2 DEF TaskSound
  <2> QED
    BY <2>1, <2>4, <2>5, <2>6, <2>7, <2>8, Preserved
<1> QED
  BY <1>4, <1>5

\* The label err of dup
LEMMA DupFailsStep ==
    ASSUME PipeInv, NEW e \in Env, e \in alive, task[e].do \in {"dup_data", "dup_fd"},
           DupFails(e), alive' = alive, content' = content
    PROVE  PipeInv'
<1>2. /\ TaskSound(e) /\ task[e] \in Tasks /\ task[e].fd \in Fd /\ task[e].other \in Fd
      /\ fd_page \in [Env -> [Fd -> Page \cup {None}]] /\ data_page \in [Env -> [Fd -> Page \cup {None}]]
      /\ content \in [Page -> {None} \cup Contents] /\ task \in [Env -> Tasks] /\ alive \subseteq Env
      /\ None \notin Page /\ Idle \in Tasks
  BY Mine
<1>f. PICK fd \in Fd, other \in Fd : fd = task[e].fd /\ other = task[e].other
  BY <1>2
<1>3. /\ \A z \in Fd : z # fd => Whole(e, z)
      /\ fd_page[e][fd] = None
  BY <1>2, <1>f DEF TaskSound, Busy
<1>4. /\ fd_page' = [fd_page EXCEPT ![e][fd] = None]
      /\ data_page' = [data_page EXCEPT ![e][fd] = None] /\ task' = [task EXCEPT ![e] = Idle]
  BY <1>f DEF DupFails, FdIs, DataIs, Goes
<1>5. fd_page' = fd_page
  BY <1>2, <1>3, <1>4
<1>6. TypeOK'
  BY <1>2, <1>4, TypesNext
<1>7. Frame(e)
  BY <1>2, <1>4 DEF Frame
<1>8. FdTaken(e, e) /\ DataTaken(e, e) /\ Leaves(e) /\ PairsTaken(e, e)
  BY <1>2, <1>4, <1>5 DEF FdTaken, DataTaken, Leaves, PairsTaken
<1>9. Clean'
  BY <1>5 DEF PipeInv, Clean
<1>10. TaskSound(e)'
  <2>1. \A z \in Fd : z # fd => Whole(e, z)'
    BY <1>2, <1>3, <1>4, <1>5 DEF Whole
  <2>2. Whole(e, fd)'
    BY <1>2, <1>3, <1>4, <1>5 DEF Whole
  <2>3. task'[e].do = "idle"
    BY <1>2, <1>4 DEF Idle
  <2> QED BY <2>1, <2>2, <2>3 DEF TaskSound
<1> QED
  BY <1>6, <1>7, <1>8, <1>9, <1>10, Preserved

\* dup, to the page behind the descriptor
LEMMA DupDataStep ==
    ASSUME PipeInv, NEW e \in Env, DupData(e)
    PROVE  PipeInv'
<1>1. e \in alive /\ task[e].do = "dup_data" /\ alive' = alive /\ content' = content
  BY DEF DupData, Does
<1>2. /\ TaskSound(e) /\ task[e] \in Tasks /\ task[e].fd \in Fd /\ task[e].other \in Fd
      /\ fd_page \in [Env -> [Fd -> Page \cup {None}]] /\ data_page \in [Env -> [Fd -> Page \cup {None}]]
      /\ content \in [Page -> {None} \cup Contents] /\ task \in [Env -> Tasks] /\ alive \subseteq Env
      /\ None \notin Page /\ Idle \in Tasks
  BY <1>1, Mine
<1>f. PICK fd \in Fd, other \in Fd : fd = task[e].fd /\ other = task[e].other
  BY <1>2
<1>3. /\ \A z \in Fd : z # fd => Whole(e, z)
      /\ fd_page[e][fd] = None /\ data_page[e][fd] = None /\ DupSound(e)
  BY <1>1, <1>2, <1>f DEF TaskSound, Busy
<1>4. ASSUME IF data_page[e][task[e].other] = None THEN UNCHANGED data_page
             ELSE DataIs(e, task[e].fd, data_page[e][task[e].other]),
             Goes(e, [task[e] EXCEPT !.do = "dup_fd"]), UNCHANGED fd_page
      PROVE  PipeInv'
  <2>1. data_page' = [data_page EXCEPT ![e][fd] = data_page[e][other]] /\ fd_page' = fd_page
    BY <1>2, <1>3, <1>4, <1>f DEF DataIs
  <2>3. /\ task' = [task EXCEPT ![e] = task'[e]] /\ task'[e] \in Tasks
        /\ task'[e].do = "dup_fd" /\ task'[e].fd = fd /\ task'[e].other = other
    BY <1>2, <1>4, <1>f DEF Goes, Tasks, Steps
  <2>4. TypeOK'
    BY <1>1, <1>2, <2>1, <2>3, TypesNext
  <2>5. Frame(e)
    BY <1>1, <1>2, <2>1, <2>3 DEF Frame
  <2>6. FdTaken(e, e) /\ DataTaken(e, e) /\ Leaves(e)
    BY <1>1, <1>2, <2>1 DEF FdTaken, DataTaken, Leaves
  <2>7. PairsTaken(e, e)
    BY <1>1, <1>2, <1>3, <2>1 DEF PairsTaken
  <2>8. Clean'
    BY <1>1, <2>1 DEF PipeInv, Clean
  <2>9. TaskSound(e)'
    <3>1. \A z \in Fd : z # fd => Whole(e, z)'
      BY <1>1, <1>2, <1>3, <2>1 DEF Whole
    <3>2. /\ fd_page'[e][fd] = None /\ data_page'[e][fd] = data_page'[e][other]
          /\ other = fd => data_page'[e][fd] = None
      BY <1>2, <1>3, <2>1
    <3>3. DupSound(e)'
      BY <1>3, <1>f, <2>1, <2>3 DEF DupSound
    <3> QED BY <2>3, <3>1, <3>2, <3>3 DEF TaskSound, Busy
  <2> QED
    BY <1>1, <2>4, <2>5, <2>6, <2>7, <2>8, <2>9, Preserved
<1> QED
  BY <1>1, <1>4, DupFailsStep DEF DupData

\* dup, to the descriptor itself
LEMMA DupFdStep ==
    ASSUME PipeInv, NEW e \in Env, DupFd(e)
    PROVE  PipeInv'
<1>1. e \in alive /\ task[e].do = "dup_fd" /\ alive' = alive /\ content' = content
  BY DEF DupFd, Does
<1>2. /\ TaskSound(e) /\ task[e] \in Tasks /\ task[e].fd \in Fd /\ task[e].other \in Fd
      /\ fd_page \in [Env -> [Fd -> Page \cup {None}]] /\ data_page \in [Env -> [Fd -> Page \cup {None}]]
      /\ content \in [Page -> {None} \cup Contents] /\ task \in [Env -> Tasks] /\ alive \subseteq Env
      /\ None \notin Page /\ Idle \in Tasks
  BY <1>1, Mine
<1>f. PICK fd \in Fd, other \in Fd : fd = task[e].fd /\ other = task[e].other
  BY <1>2
<1>3. /\ \A z \in Fd : z # fd => Whole(e, z)
      /\ fd_page[e][fd] = None /\ data_page[e][fd] = data_page[e][other] /\ DupSound(e)
  BY <1>1, <1>2, <1>f DEF TaskSound, Busy
<1>4. ASSUME fd_page[e][task[e].other] # None, FdIs(e, task[e].fd, fd_page[e][task[e].other]),
             Goes(e, Idle), UNCHANGED data_page
      PROVE  PipeInv'
  <2>1. /\ fd_page' = [fd_page EXCEPT ![e][fd] = fd_page[e][other]] /\ data_page' = data_page
        /\ task' = [task EXCEPT ![e] = Idle]
    BY <1>4, <1>f DEF FdIs, Goes
  <2>2. other # fd /\ Whole(e, other)
    BY <1>3, <1>4, <1>f
  <2>4. TypeOK'
    BY <1>1, <1>2, <2>1, TypesNext
  <2>5. Frame(e)
    BY <1>1, <1>2, <2>1 DEF Frame
  <2>6. FdTaken(e, e) /\ DataTaken(e, e) /\ Leaves(e)
    BY <1>1, <1>2, <2>1 DEF FdTaken, DataTaken, Leaves
  <2>7. PairsTaken(e, e)
    BY <1>1, <1>2, <1>3, <2>1 DEF PairsTaken
  <2>8. Clean'
    BY <1>1, <1>2, <1>3, <2>1 DEF PipeInv, Clean
  <2>9. TaskSound(e)'
    <3>1. \A z \in Fd : z # fd => Whole(e, z)'
      BY <1>1, <1>2, <1>3, <2>1 DEF Whole
    <3>2. Whole(e, fd)'
      BY <1>1, <1>2, <1>3, <2>1, <2>2 DEF Whole
    <3>3. task'[e].do = "idle"
      BY <1>2, <2>1 DEF Idle
    <3> QED BY <3>1, <3>2, <3>3 DEF TaskSound
  <2> QED
    BY <1>1, <2>4, <2>5, <2>6, <2>7, <2>8, <2>9, Preserved
<1> QED
  BY <1>1, <1>4, DupFailsStep DEF DupFd

\* A set of descriptors that is not empty has a smallest one.
LEMMA Smallest ==
    ASSUME NEW S \in SUBSET Fd, S # {}
    PROVE  \E d \in S : \A x \in S : d <= x
<1>1. S \in SUBSET Nat
  BY PipeAssumption DEF Fd
<1>2. PICK d \in S : \A x \in S : ~(<<x, d>> \in OpToRel(<, Nat))
  BY <1>1, NatLessThanWellFounded, WFMin
<1>3. \A x \in S : ~(x < d)
  BY <1>1, <1>2 DEF OpToRel
<1> QED
  BY <1>1, <1>3

\* close_all
LEMMA ExitStep ==
    ASSUME PipeInv, NEW e \in Env, Exit(e)
    PROVE  PipeInv'
<1>1. e \in alive /\ task[e].do \in {"idle", "exit"} /\ Idle \in Tasks
  BY Mine DEF Exit, Does
<1> DEFINE open == {d \in Fd : Open(e, d)}
<1>2. PICK d \in open : d = CHOOSE z \in open : \A x \in open : z <= x
  BY Smallest DEF Exit
<1>3. PICK t \in Tasks : t = [Idle EXCEPT !.then = "exit"]
  BY <1>1 DEF Tasks, Steps
<1>4. DevClose(e, d, t)
  BY <1>2, <1>3 DEF Exit
<1>5. t.then = "exit"
  BY <1>1, <1>3 DEF Tasks
<1> QED
  BY <1>1, <1>4, <1>5, DevCloseStep

\* fork
LEMMA ForkStep ==
    ASSUME PipeInv, NEW e \in Env, NEW c \in Env, Fork(e, c)
    PROVE  PipeInv'
<1>1. /\ e \in alive /\ task[e].do = "idle" /\ c \notin alive /\ alive' = alive \cup {c} /\ c # e
      /\ fd_page' = [fd_page EXCEPT ![c] = fd_page[e]]
      /\ data_page' = [data_page EXCEPT ![c] = data_page[e]]
      /\ content' = content /\ task' = task
  BY DEF Fork, Does
<1>2. /\ TaskSound(e) /\ task[e] \in Tasks /\ task[e].fd \in Fd /\ task[e].other \in Fd
      /\ fd_page \in [Env -> [Fd -> Page \cup {None}]] /\ data_page \in [Env -> [Fd -> Page \cup {None}]]
      /\ content \in [Page -> {None} \cup Contents] /\ task \in [Env -> Tasks] /\ alive \subseteq Env
      /\ None \notin Page /\ Idle \in Tasks
  BY <1>1, Mine
<1>3. \A z \in Fd : Whole(e, z)
  BY <1>1, <1>2 DEF TaskSound, Busy
<1>4. task[c] = Idle /\ fd_page[c] = Unmapped /\ data_page[c] = Unmapped
  BY <1>1 DEF PipeInv, Gone
<1>5. TypeOK'
  BY <1>1, <1>2, TypesNext
<1>6. Frame(c)
  BY <1>1, <1>2 DEF Frame
<1>7. FdTaken(c, e) /\ DataTaken(c, e) /\ Leaves(c) /\ PairsTaken(c, e)
  BY <1>1, <1>2 DEF FdTaken, DataTaken, Leaves, PairsTaken
<1>8. Clean'
  <2> SUFFICES ASSUME NEW q \in Page, content[q] # None
               PROVE  \E y \in Env, z \in Fd : fd_page'[y][z] = q
    BY <1>1 DEF Clean
  <2>1. PICK y \in Env, z \in Fd : fd_page[y][z] = q
    BY DEF PipeInv, Clean
  <2>2. y # c
    BY <1>2, <1>4, <2>1 DEF Unmapped
  <2> QED BY <1>1, <2>1, <2>2
<1>9. TaskSound(e)' /\ TaskSound(c)'
  <2>1. \A z \in Fd : Whole(e, z)' /\ Whole(c, z)'
    BY <1>1, <1>2, <1>3 DEF Whole
  <2>2. task'[e].do = "idle" /\ task'[c].do = "idle"
    BY <1>1, <1>4 DEF Idle
  <2> QED BY <2>1, <2>2 DEF TaskSound
<1>10. \A y \in alive' : TaskSound(y)'
  <2> SUFFICES ASSUME NEW y \in alive', y # e, y # c PROVE TaskSound(y)'
    BY <1>9
  <2>1. y \in alive /\ y \in Env
    BY <1>1, <1>2
  <2> QED BY <1>6, <1>7, <2>1, OthersSound
<1> QED
  BY <1>5, <1>6, <1>7, <1>8, <1>10, ApartKept, EndsKept, GoneKept DEF PipeInv

-----------------------------------------------------------------------------
(* The invariant, and what follows from it                                 *)

\* The first program has no descriptors and is in no call.
LEMMA PipeInvInit == Init => PipeInv
<1> SUFFICES ASSUME Init PROVE PipeInv
  OBVIOUS
<1>1. First \in Env /\ None \notin Page /\ 0 \in Fd
  BY PipeAssumption DEF Fd
<1>2. TypeOK
  BY <1>1, Types DEF Init, Unmapped, Idle, Tasks, Steps
<1>3. \A e \in Env, d \in Fd : fd_page[e][d] = None /\ data_page[e][d] = None
  BY DEF Init, Unmapped
<1>4. Gone
  BY DEF Init, Gone
<1>5. Apart /\ Clean /\ TwoEnds
  BY <1>3 DEF Apart, Clean, TwoEnds, Paired, Init
<1>6. \A e \in alive : TaskSound(e)
  BY <1>1, <1>3 DEF TaskSound, Whole, Init, Idle
<1> QED
  BY <1>2, <1>4, <1>5, <1>6 DEF PipeInv

\* The invariant speaks of the variables of the module only.
LEMMA PipeInvStutter == PipeInv /\ UNCHANGED vars => PipeInv'
<1> SUFFICES ASSUME PipeInv, UNCHANGED vars PROVE PipeInv'
  OBVIOUS
<1>1. /\ alive' = alive /\ fd_page' = fd_page /\ data_page' = data_page
      /\ content' = content /\ task' = task
  BY DEF vars
<1>2. TypeOK' /\ Gone' /\ Apart' /\ Clean'
  BY <1>1 DEF PipeInv, TypeOK, Gone, Apart, Clean
<1>3. TwoEnds'
  BY <1>1 DEF PipeInv, TwoEnds, Paired
<1>4. \A e \in alive' : TaskSound(e)'
  <2> SUFFICES ASSUME NEW e \in alive PROVE TaskSound(e)'
    BY <1>1
  <2>1. TaskSound(e)
    BY DEF PipeInv
  <2> QED
    BY <1>1, <2>1 DEF TaskSound, Whole, Private, Sole, Busy, DupSound, Open
<1> QED BY <1>2, <1>3, <1>4 DEF PipeInv

\* Every step keeps the invariant.
LEMMA PipeInvNext == PipeInv /\ [Next]_vars => PipeInv'
<1> SUFFICES ASSUME PipeInv, Next PROVE PipeInv'
  BY PipeInvStutter
<1>1. PICK e \in Env :
        \/ PipeMap(e) \/ FdClose(e) \/ DupData(e) \/ DupFd(e) \/ Exit(e) \/ EnvFree(e)
        \/ \E p \in Page :
             \/ PipeFd1(e, p) \/ PipeData(e, p)
             \/ \E d \in Fd : OpenCons(e, d, p) \/ PipeFd0(e, d, p)
        \/ \E d \in Fd :
             \/ Close(e, d)
             \/ \E to \in Fd : Dup(e, d, to)
        \/ \E c \in Env : Fork(e, c)
  BY DEF Next
<1>2. CASE PipeMap(e)
  BY <1>2, PipeMapStep
<1>3. CASE FdClose(e)
  BY <1>3, FdCloseStep
<1>4. CASE DupData(e)
  BY <1>4, DupDataStep
<1>5. CASE DupFd(e)
  BY <1>5, DupFdStep
<1>6. CASE Exit(e)
  BY <1>6, ExitStep
<1>7. CASE EnvFree(e)
  BY <1>7, EnvFreeStep
<1>8. ASSUME NEW p \in Page, PipeFd1(e, p) PROVE PipeInv'
  BY <1>8, PipeFd1Step
<1>9. ASSUME NEW p \in Page, PipeData(e, p) PROVE PipeInv'
  BY <1>9, PipeDataStep
<1>10. ASSUME NEW p \in Page, NEW d \in Fd, OpenCons(e, d, p) PROVE PipeInv'
  BY <1>10, OpenConsStep
<1>11. ASSUME NEW p \in Page, NEW d \in Fd, PipeFd0(e, d, p) PROVE PipeInv'
  BY <1>11, PipeFd0Step
<1>12. ASSUME NEW d \in Fd, Close(e, d) PROVE PipeInv'
  <2>1. e \in alive /\ Idle \in Tasks
    BY <1>12, Mine DEF Close, Does
  <2>2. PICK t \in Tasks : t = Idle
    BY <2>1
  <2>3. t.then = "idle"
    BY <2>2 DEF Idle
  <2> QED BY <1>12, <2>1, <2>2, <2>3, DevCloseStep DEF Close, Does
<1>13. ASSUME NEW d \in Fd, NEW to \in Fd, Dup(e, d, to) PROVE PipeInv'
  BY <1>13, DupStep
<1>14. ASSUME NEW c \in Env, Fork(e, c) PROVE PipeInv'
  BY <1>14, ForkStep
<1> QED
  BY <1>1, <1>2, <1>3, <1>4, <1>5, <1>6, <1>7, <1>8, <1>9, <1>10, <1>11, <1>12, <1>13, <1>14

\* TaskSound and its kin: pipe() with its error labels, dup and close find their
\* descriptors as they left them, whoever ran in between.
THEOREM Invariant == Spec => []PipeInv
<1> QED
  BY PipeInvInit, PipeInvNext, PTL DEF Spec

\* Whatever fails in pipe() or dup(), and wherever other environments run
\* between the calls of the kernel that they and close are made of, a program
\* finds whole descriptors only when the call is done: the labels err1 to err3
\* of pipe() and err of dup() give up exactly what was there.
THEOREM WholeDescriptors == Spec => []DescriptorsWhole
<1>1. PipeInv => DescriptorsWhole
  <2> SUFFICES ASSUME PipeInv, NEW e \in alive, NEW d \in Fd, task[e].do = "idle"
               PROVE  Whole(e, d)
    BY DEF DescriptorsWhole, Whole
  <2>1. TaskSound(e)
    BY DEF PipeInv
  <2> QED BY <2>1 DEF TaskSound, Busy
<1> QED
  BY <1>1, Invariant, PTL

\* A descriptor that is written is whole, or in the middle of close.
LEMMA WrittenIsWhole ==
    ASSUME PipeInv, NEW e \in Env, NEW d \in Fd, fd_page[e][d] # None,
           content[fd_page[e][d]] # None
    PROVE  \/ data_page[e][d] = content[fd_page[e][d]].pipe
           \/ e \in alive /\ task[e].do = "close" /\ task[e].fd = d
<1>1. e \in alive
  BY DEF PipeInv, Gone, Unmapped
<1>2. /\ TaskSound(e) /\ task[e] \in Tasks /\ task[e].fd \in Fd /\ task[e].other \in Fd
      /\ fd_page \in [Env -> [Fd -> Page \cup {None}]] /\ data_page \in [Env -> [Fd -> Page \cup {None}]]
      /\ content \in [Page -> {None} \cup Contents] /\ task \in [Env -> Tasks] /\ alive \subseteq Env
      /\ None \notin Page /\ Idle \in Tasks
  BY <1>1, Mine
<1>3. CASE Whole(e, d)
  BY <1>3 DEF Whole
<1>4. CASE ~Whole(e, d)
  <2>1. d \in Busy(e)
    BY <1>2, <1>4 DEF TaskSound
  <2>2. task[e].do \in Steps
    BY <1>2 DEF Tasks
  <2>3. CASE task[e].do \in {"pipe_data", "pipe_map"}
    BY <1>2, <2>1, <2>3 DEF Busy, TaskSound, Private
  <2>4. CASE task[e].do = "pipe_fd1"
    BY <1>2, <2>1, <2>4 DEF Busy, TaskSound, Private
  <2>5. CASE task[e].do \in {"dup_data", "dup_fd"}
    BY <1>2, <2>1, <2>5 DEF Busy, TaskSound
  <2>6. CASE task[e].do = "close"
    BY <1>1, <2>1, <2>6 DEF Busy
  <2> QED BY <2>1, <2>2, <2>3, <2>4, <2>5, <2>6 DEF Busy, Steps
<1> QED BY <1>3, <1>4

\* A page in which a descriptor is written has as many references as
\* descriptors, and a page behind one has as many as there are such.
LEMMA RefCounts ==
    ASSUME PipeInv, NEW p \in Page
    PROVE  /\ content[p] # None => PageRef(p) = Cardinality(FdSlots(p))
           /\ DataSlots(p) # {} => PageRef(p) = Cardinality(DataSlots(p))
<1>0. p # None
  BY PipeAssumption
<1>1. ASSUME content[p] # None PROVE PageRef(p) = Cardinality(FdSlots(p))
  <2>1. \A w \in Env, u \in Fd : data_page[w][u] # p
    BY <1>0, <1>1 DEF PipeInv, Clean, Apart
  <2>2. DataSlots(p) = {}
    BY <2>1 DEF DataSlots
  <2>3. Cardinality(DataSlots(p)) = 0
    BY <2>2, FS_EmptySet
  <2> QED BY <2>3, SlotsFinite
<1>2. ASSUME DataSlots(p) # {} PROVE PageRef(p) = Cardinality(DataSlots(p))
  <2>1. \A w \in Env, u \in Fd : fd_page[w][u] # p
    BY <1>0, <1>2 DEF PipeInv, Apart, DataSlots
  <2>2. FdSlots(p) = {}
    BY <2>1 DEF FdSlots
  <2>3. Cardinality(FdSlots(p)) = 0
    BY <2>2, FS_EmptySet
  <2> QED BY <2>3, SlotsFinite
<1> QED BY <1>1, <1>2

\* Descriptors that are all inside close are counted by who closes them.
LEMMA ClosingCounts ==
    ASSUME PipeInv, NEW g \in Page, content[g] # None,
           \A y \in Env, z \in Fd : fd_page[y][z] = g =>
               y \in alive /\ task[y].do = "close" /\ task[y].fd = z
    PROVE  PageRef(g) = Cardinality(Closing(g))
<1> DEFINE S == FdSlots(g)
           T == Closing(g)
           h == [m \in S |-> m[1]]
<1>1. \A m \in S : /\ m \in Env \X Fd /\ m[1] \in T /\ m = <<m[1], task[m[1]].fd>>
  <2> SUFFICES ASSUME NEW m \in S
               PROVE  m \in Env \X Fd /\ m[1] \in T /\ m = <<m[1], task[m[1]].fd>>
    OBVIOUS
  <2>1. /\ m \in Env \X Fd /\ m[1] \in Env /\ m[2] \in Fd /\ m = <<m[1], m[2]>>
        /\ fd_page[m[1]][m[2]] = g
    BY DEF FdSlots
  <2>2. m[1] \in alive /\ task[m[1]].do = "close" /\ task[m[1]].fd = m[2]
    BY <2>1
  <2> QED BY <2>1, <2>2 DEF Closing, Does
<1>2. \A e \in T : <<e, task[e].fd>> \in S /\ <<e, task[e].fd>>[1] = e
  <2> SUFFICES ASSUME NEW e \in T PROVE <<e, task[e].fd>> \in S
    OBVIOUS
  <2>1. e \in alive /\ e \in Env /\ fd_page[e][task[e].fd] = g
    BY DEF Closing, PipeInv, TypeOK
  <2>2. task[e].fd \in Fd
    BY <2>1, Mine
  <2> QED BY <2>1, <2>2 DEF FdSlots
<1>3. h \in Bijection(S, T)
  <2>1. h \in [S -> T]
    BY <1>1
  <2>2. \A a, b \in S : h[a] = h[b] => a = b
    BY <1>1
  <2>3. \A e \in T : \E m \in S : h[m] = e
    BY <1>2
  <2> HIDE DEF h, S, T
  <2> QED BY <2>1, <2>2, <2>3 DEF Bijection, Injection, Surjection, IsInjective
<1>4. IsFiniteSet(S) /\ ExistsBijection(S, T)
  BY <1>3, SlotsFinite DEF ExistsBijection
<1>5. Cardinality(T) = Cardinality(S)
  BY <1>4, FS_Bijection
<1> QED
  BY <1>5, RefCounts

\* An end counts its descriptors: as many as its pipe, unless there are others
\* or one of them is inside close.
LEMMA LooksClosedHolds == PipeInv => LooksClosed
<1> SUFFICES ASSUME PipeInv, NEW f \in Page, content[f] \notin {None, Cons}, PageRef(f) > 0
             PROVE  LET same == PageRef(f) = PageRef(content[f].pipe)
                    IN  /\ same => \/ Closing(f) # {}
                                   \/ \A g \in OtherEnd(f) : PageRef(g) = Cardinality(Closing(g))
                        /\ /\ \A e \in alive : Does(e, "idle")
                           /\ \A g \in OtherEnd(f) : PageRef(g) = 0
                           => same
  BY DEF LooksClosed
<1> DEFINE p == content[f].pipe
<1>1. /\ content \in [Page -> {None} \cup Contents] /\ alive \subseteq Env /\ None \notin Page
      /\ fd_page \in [Env -> [Fd -> Page \cup {None}]] /\ data_page \in [Env -> [Fd -> Page \cup {None}]]
  BY Types, PipeAssumption DEF PipeInv
<1>2. p \in Page /\ p # None /\ f # None
  BY <1>1, ContentIs
<1>3. PageRef(f) = Cardinality(FdSlots(f)) /\ FdSlots(f) # {}
  <2>1. PageRef(f) = Cardinality(FdSlots(f))
    BY RefCounts
  <2>2. FdSlots(f) # {}
    BY <2>1, FS_EmptySet, SlotsFinite
  <2> QED BY <2>1, <2>2
<1>4. \A g \in Page, m \in Env \X Fd :
         fd_page[m[1]][m[2]] = g /\ content[g] # None /\ content[g].pipe = p =>
            \/ m \in DataSlots(p)
            \/ m[1] \in alive /\ task[m[1]].do = "close" /\ task[m[1]].fd = m[2]
  <2> SUFFICES ASSUME NEW g \in Page, NEW m \in Env \X Fd, fd_page[m[1]][m[2]] = g,
                      content[g] # None, content[g].pipe = p
               PROVE  \/ m \in DataSlots(p)
                      \/ m[1] \in alive /\ task[m[1]].do = "close" /\ task[m[1]].fd = m[2]
    OBVIOUS
  <2>1. PICK y \in Env, z \in Fd : y = m[1] /\ z = m[2]
    OBVIOUS
  <2>2. data_page[y][z] = p \/ (y \in alive /\ task[y].do = "close" /\ task[y].fd = z)
    BY <1>1, <2>1, WrittenIsWhole
  <2> QED BY <2>1, <2>2 DEF DataSlots
<1> HIDE DEF p
<1>5. ASSUME PageRef(f) = PageRef(p), Closing(f) = {}, NEW g \in OtherEnd(f)
      PROVE  PageRef(g) = Cardinality(Closing(g))
  <2>1. FdSlots(f) \subseteq DataSlots(p)
    <3> SUFFICES ASSUME NEW m \in FdSlots(f) PROVE m \in DataSlots(p)
      OBVIOUS
    <3>1. m \in Env \X Fd /\ fd_page[m[1]][m[2]] = f
      BY DEF FdSlots
    <3>2. ~(m[1] \in alive /\ task[m[1]].do = "close" /\ task[m[1]].fd = m[2])
      BY <1>5, <3>1 DEF Closing, Does
    <3> QED BY <1>4, <3>1, <3>2 DEF p
  <2>2. PageRef(p) = Cardinality(DataSlots(p))
    BY <1>2, <1>3, <2>1, RefCounts
  <2>3. FdSlots(f) = DataSlots(p)
    BY <1>3, <1>5, <2>1, <2>2, SlotsFinite, FS_Subset
  <2>4. g \in Page /\ content[g] # None /\ content[g].pipe = p /\ g # f
    BY DEF OtherEnd, p
  <2>5. ASSUME NEW y \in Env, NEW z \in Fd, fd_page[y][z] = g
        PROVE  y \in alive /\ task[y].do = "close" /\ task[y].fd = z
    <3>1. PICK m \in Env \X Fd : m[1] = y /\ m[2] = z
      <4>1. <<y, z>> \in Env \X Fd /\ <<y, z>>[1] = y /\ <<y, z>>[2] = z
        OBVIOUS
      <4> QED BY <4>1
    <3>2. m \notin FdSlots(f)
      BY <2>4, <2>5, <3>1 DEF FdSlots
    <3> QED BY <1>4, <2>3, <2>4, <2>5, <3>1, <3>2
  <2> QED BY <2>4, <2>5, ClosingCounts
<1>6. ASSUME \A e \in alive : Does(e, "idle"), \A g \in OtherEnd(f) : PageRef(g) = 0
      PROVE  PageRef(f) = PageRef(p)
  <2>0. \A e \in alive : task[e].do # "close"
    BY <1>6 DEF Does
  <2>1. FdSlots(f) \subseteq DataSlots(p)
    BY <1>4, <2>0 DEF FdSlots, p
  <2>2. DataSlots(p) \subseteq FdSlots(f)
    <3> SUFFICES ASSUME NEW m \in DataSlots(p) PROVE m \in FdSlots(f)
      OBVIOUS
    <3>1. PICK y \in Env, z \in Fd :
             y = m[1] /\ z = m[2] /\ data_page[y][z] = p /\ m \in Env \X Fd
      BY DEF DataSlots
    <3>2. y \in alive
      BY <1>2, <3>1 DEF PipeInv, Gone, Unmapped
    <3>3. Whole(y, z)
      <4>1. TaskSound(y) /\ task[y].do = "idle"
        BY <1>6, <3>2 DEF PipeInv, Does
      <4> QED BY <4>1 DEF TaskSound, Busy
    <3>4. PICK g \in Page : /\ g = fd_page[y][z] /\ content[g] # None
                            /\ content[g].pipe = p
      BY <1>1, <1>2, <3>1, <3>3 DEF Whole
    <3>5. ~Unused(g) /\ PageRef(g) # 0
      BY <3>4, RefIs DEF Unused
    <3>6. content[g].dev = content[f].dev
      BY <1>6, <3>4, <3>5 DEF OtherEnd, p
    <3>7. PICK n \in FdSlots(f) : n \in DataSlots(p)
      BY <1>3, <2>1
    <3>8. PICK w \in Env, v \in Fd : fd_page[w][v] = f /\ data_page[w][v] = p
      BY <3>7 DEF FdSlots, DataSlots
    <3>9. Paired(w, v) /\ Paired(y, z)
      BY <1>1, <1>2, <3>1, <3>4, <3>8 DEF Paired
    <3>10. g = f
      BY <3>1, <3>4, <3>6, <3>8, <3>9 DEF PipeInv, TwoEnds
    <3> QED BY <3>1, <3>4, <3>10 DEF FdSlots
  <2>3. PageRef(p) = Cardinality(DataSlots(p))
    BY <1>2, <1>3, <2>1, RefCounts
  <2> QED BY <1>3, <2>1, <2>2, <2>3
<1> QED
  BY <1>5, <1>6 DEF p

\* "pageref(p) is the total number of readers and writers": an end with as
\* many mappings as its pipe has lost the other one, except while descriptors
\* are inside close, where pipeclose has unmapped the pipe and fd_close not yet
\* the descriptor.  An end that has lost the other one looks so, when nobody is
\* inside a call.
THEOREM PipeLooksClosed == Spec => []LooksClosed
<1> QED
  BY LooksClosedHolds, Invariant, PTL
=============================================================================
