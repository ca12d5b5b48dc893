-------------------------------- MODULE Pmap --------------------------------
(***************************************************************************)
(* Physical pages and address spaces: mm/pmap.c, the address-space half of *)
(* lib/env.c and the memory system calls of lib/svc.c.                     *)
(*                                                                         *)
(* Everything in the kernel that refers to a page is a POINTER <<e, s>>:   *)
(* environment e's slot s is its page directory (env_pgdir), a page        *)
(* directory entry, or a page table entry.  At(e, s) is the page referred *)
(* to, or NULL.  The kernel runs with interrupts off, so a handler is one  *)
(* atomic action.                                                          *)
(***************************************************************************)
EXTENDS Naturals, FiniteSets

CONSTANTS
    Page,    \* the pages on page_free_list when the first environment is created
    Env,     \* the slots of envs[]
    NULL,    \* no page
    Va,      \* the virtual pages in use, as virtual page numbers below ULIM
    NPTE,    \* entries of a page table (256 in the code)
    UTop,    \* UTOP, as a virtual page number
    Stack,   \* virtual page of the initial stack (USTACKTOP - BY2PG)
    Text,    \* virtual pages of the segments of a program image
    RefMod,  \* pp_ref is a u_short: 2^16 in the code
    CapRefs  \* TRUE: consider only the behaviours where no pp_ref overflows

PDX(va) == va \div NPTE
Pdx     == {PDX(va) : va \in Va}
UserVa  == {va \in Va : va < UTop}

pgdir   == <<"pgdir", 0>>
pde(x)  == <<"pde", x>>
pte(va) == <<"pte", va>>
Slot    == {pgdir} \cup {pde(x) : x \in Pdx} \cup {pte(va) : va \in Va}
Pointer == Env \X Slot

ASSUME PmapAssumption ==
    /\ IsFiniteSet(Page) /\ IsFiniteSet(Env) /\ IsFiniteSet(Va)
    /\ NULL \notin Page
    /\ Va \subseteq Nat /\ NPTE \in Nat \ {0} /\ UTop \in Nat
    /\ Text \subseteq UserVa /\ Stack \in UserVa \ Text
    /\ RefMod \in Nat \ {0, 1, 2}
    /\ CapRefs \in BOOLEAN

VARIABLES
    mode,    \* "boot" (armv7_init), "run" (user code runs) or "panic"
    free,    \* page_free_list, as a set
    pp_ref,  \* the reference count of each page
    ptr      \* who refers to which page

vars == <<mode, free, pp_ref, ptr>>

\* The page that slot s of environment e refers to.
At(e, s) == ptr[<<e, s>>]

Live == {e \in Env : At(e, pgdir) # NULL}

\* The pointers to page p: what pp_ref is meant to count.
Refs(p) == {x \in Pointer : ptr[x] = p}

Init ==
    /\ mode = "boot"
    /\ free = Page
    /\ pp_ref = [p \in Page |-> 0]
    /\ ptr = [x \in Pointer |-> NULL]
-----------------------------------------------------------------------------
Injections(S, T) == {f \in [S -> T] : \A a, b \in S : f[a] = f[b] => a = b}

\* The pointers in DOMAIN new change to new.  The pages of the pointers in
\* `released` go through page_remove or page_decref, the pages of new through
\* ++pp_ref, those of `twice` once more.  `taken` are the pages page_alloc
\* took off the free list.
Gain_NoIncrement(p, new, twice) ==  \* mutant: page_insert without pp_ref++
    IF p \in twice THEN 1 ELSE 0
Gain(p, new, twice) == Cardinality({x \in DOMAIN new : new[x] = p})
                       + IF p \in twice THEN 1 ELSE 0
Loss(p, released)   == Cardinality({x \in released : ptr[x] = p})

\* The two halves of Update: the counts, and the pages that fall to count 0.
Counted(new, released, twice) == [p \in Page |->
    (pp_ref[p] + Gain(p, new, twice) + RefMod - Loss(p, released)) % RefMod]

Freed_OneEarly(released) ==  \* mutant: page_remove tests the count before --
    {p \in Page : Loss(p, released) > 0 /\ pp_ref[p] <= Loss(p, released) + 1}
Freed(released) == {p \in Page : 0 < pp_ref[p] /\ pp_ref[p] <= Loss(p, released)}

Update_NoUnlink(new, released, taken, twice) ==  \* mutant: page_alloc without LIST_REMOVE
    /\ ptr' = [x \in Pointer |-> IF x \in DOMAIN new THEN new[x] ELSE ptr[x]]
    /\ pp_ref' = Counted(new, released, twice)
    /\ free' = free \cup Freed(released)
Update(new, released, taken, twice) ==
    /\ CapRefs => \A p \in Page : pp_ref[p] + Gain(p, new, twice) < RefMod
    /\ ptr' = [x \in Pointer |-> IF x \in DOMAIN new THEN new[x] ELSE ptr[x]]
    /\ pp_ref' = Counted(new, released, twice)
    /\ free' = (free \ taken) \cup Freed(released)

PageInsert_SamePage(e, p, va, taken, twice) ==  \* mutant: the table is the page itself
    LET x == <<e, pte(va)>>
        d == <<e, pde(PDX(va))>>
    IN  Update([y \in {x, d} |-> p], {}, taken, twice)

PageInsert_Unchecked(e, p, va, taken, twice) ==  \* mutant: pgdir_walk ignores page_alloc's error
    LET x == <<e, pte(va)>>
        d == <<e, pde(PDX(va))>>
        t == CHOOSE q \in (IF free \ taken = {} THEN {"wild"} ELSE free \ taken) : TRUE
    IN  IF ptr[d] # NULL
        THEN Update([y \in {x} |-> p], {x}, taken, twice)
        ELSE Update([y \in {x, d} |-> IF y = x THEN p ELSE t], {},
                    (taken \cup {t}) \cap Page, twice)

\* page_insert(e->env_pgdir, p, va): re-mapping the same page changes
\* nothing, another page is removed first, a missing table is allocated; with
\* no page left for the table the call fails after the caller's page_alloc
\* (`taken`) and ++pp_ref (`twice`) have been done.
PageInsert(e, p, va, taken, twice) ==
    LET x == <<e, pte(va)>>
        d == <<e, pde(PDX(va))>>
    IN  \/ /\ ptr[x] = p
           /\ UNCHANGED <<free, pp_ref, ptr>>
        \/ /\ ptr[x] # p
           /\ ptr[d] # NULL
           /\ Update([y \in {x} |-> p], {x}, taken, twice)
        \/ /\ ptr[d] = NULL
           /\ \E t \in free \ taken :
                Update([y \in {x, d} |-> IF y = x THEN p ELSE t], {},
                       taken \cup {t}, twice)
        \/ /\ ptr[d] = NULL
           /\ free \ taken = {}
           /\ Update([y \in {} |-> NULL], {}, taken, twice)
-----------------------------------------------------------------------------
\* env_create_priority: env_setup_vm takes a page directory, load_icode maps
\* the stack (one count) and the image, whose pages load_icode_mapper counts
\* itself before page_insert counts them again.  The images fit at boot.
EnvCreate(e) ==
    LET slots == {pgdir} \cup {pte(va) : va \in Text \cup {Stack}}
                         \cup {pde(PDX(va)) : va \in Text \cup {Stack}}
    IN  /\ mode = "boot"
        /\ e \notin Live
        /\ \E f \in Injections(slots, free) :
             Update([x \in {e} \X slots |-> f[x[2]]], {},
                    {f[s] : s \in slots}, {f[pte(va)] : va \in Text})
        /\ UNCHANGED mode

\* armv7_init ends: the timer is on, environments run from now on.
StartTimer ==
    /\ mode = "boot"
    /\ mode' = "run"
    /\ UNCHANGED <<free, pp_ref, ptr>>

\* sys_mem_alloc(e, va): page_insert may fail after page_alloc succeeded; the
\* handler returns the error and forgets the page.
SysMemAlloc(e, va) ==
    /\ mode = "run"
    /\ e \in Live /\ va \in UserVa
    /\ \E p \in free : PageInsert(e, p, va, {p}, {})
    /\ UNCHANGED mode

\* sys_mem_map(src, srcva, dst, dstva), and the page sys_ipc_can_send maps
\* for the receiver.
SysMemMap(src, srcva, dst, dstva) ==
    /\ mode = "run"
    /\ src \in Live /\ dst \in Live /\ srcva \in UserVa /\ dstva \in UserVa
    /\ At(src, pte(srcva)) # NULL
    /\ PageInsert(dst, At(src, pte(srcva)), dstva, {}, {})
    /\ UNCHANGED mode

\* sys_mem_unmap(e, va)
SysMemUnmap(e, va) ==
    LET x == <<e, pte(va)>>
    IN  /\ mode = "run"
        /\ e \in Live /\ va \in UserVa
        /\ ptr[x] # NULL
        /\ Update([y \in {x} |-> NULL], {x}, {}, {})
        /\ UNCHANGED mode

\* pageout: the data abort handler maps a fresh page at the faulting address,
\* mapped read-only there or not at all.  It counts the page itself and lets
\* page_insert, whose result it ignores, count it again.  It panics when
\* memory is exhausted and on the first megabyte.
Pageout(e, va) ==
    /\ mode = "run"
    /\ e \in Live /\ va \in Va
    /\ IF PDX(va) = 0 \/ free = {}
       THEN /\ mode' = "panic"
            /\ UNCHANGED <<free, pp_ref, ptr>>
       ELSE /\ \E p \in free : PageInsert(e, p, va, {p}, {p})
            /\ UNCHANGED mode

\* sys_env_alloc by e: env_setup_vm takes a directory for the child c (and
\* panics without memory); every valid entry of e below ULIM is inserted in
\* c, in the order of addresses, which allocates a table for each new index.
\* Copying instead of sharing needs PG_ADDR_OFFSET(va) = PTE_V | PTE_R where
\* va is page aligned: that branch is never taken.  `served` are the tables
\* built before memory ran out; c keeps them when the call fails.
SysEnvAlloc(e, c) ==
    LET mapped == {va \in Va : At(e, pte(va)) # NULL}
        needed == {PDX(va) : va \in mapped}
    IN  /\ mode = "run"
        /\ e \in Live /\ c \in Env \ Live
        /\ IF free = {}
           THEN /\ mode' = "panic"
                /\ UNCHANGED <<free, pp_ref, ptr>>
           ELSE \E served \in SUBSET needed :
                LET new   == {pgdir} \cup {pde(x) : x \in served}
                    share == {pte(va) : va \in {w \in mapped : PDX(w) \in served}}
                IN  /\ \A x \in served, y \in needed \ served : x < y
                    /\ \E f \in Injections(new, free) :
                         /\ served = needed \/ free = {f[s] : s \in new}
                         /\ Update([x \in {c} \X (new \cup share) |->
                                      IF x[2] \in new THEN f[x[2]] ELSE At(e, x[2])],
                                   {}, {f[s] : s \in new}, {})
                    /\ UNCHANGED mode

EnvFree_KeepsTables(e) ==  \* mutant: page_decref of the page tables dropped
    LET released == {e} \X ({pgdir} \cup {pte(va) : va \in UserVa})
    IN  /\ mode = "run"
        /\ e \in Live
        /\ Update([x \in {e} \X Slot |-> NULL], released, {}, {})
        /\ UNCHANGED mode

\* env_free(e), from sys_env_destroy: pages and tables below UTOP and the
\* directory are released; what lies in [UTOP, ULIM) is only forgotten.
EnvFree(e) ==
    LET released == {e} \X ({pgdir} \cup {pte(va) : va \in UserVa}
                                    \cup {pde(PDX(va)) : va \in UserVa})
    IN  /\ mode = "run"
        /\ e \in Live
        /\ Update([x \in {e} \X Slot |-> NULL], released, {}, {})
        /\ UNCHANGED mode

Next ==
    \/ StartTimer
    \/ \E e \in Env :
         \/ EnvCreate(e)
         \/ EnvFree(e)
         \/ \E c \in Env : SysEnvAlloc(e, c)
         \/ \E va \in Va : SysMemAlloc(e, va) \/ SysMemUnmap(e, va) \/ Pageout(e, va)
         \/ \E d \in Env, sva, dva \in Va : SysMemMap(e, sva, d, dva)

Spec == Init /\ [][Next]_vars
-----------------------------------------------------------------------------
\* The values each variable takes; pp_ref stays in the range of a u_short.
TypeOK ==
    /\ mode \in {"boot", "run", "panic"}
    /\ free \subseteq Page
    /\ pp_ref \in [Page -> 0 .. RefMod - 1]
    /\ ptr \in [Pointer -> Page \cup {NULL}]

\* pp_ref is never less than the number of pointers to the page, so that the
\* decrements of page_remove, page_decref and env_free cannot bring it to 0,
\* and the page to the free list, while a pointer is left.
RefCovers == \A p \in Page : Cardinality(Refs(p)) <= pp_ref[p]

\* A page on page_free_list, which page_alloc may hand out, is counted zero
\* times: page_free, pageout and sys_env_alloc agree on who owns it.
FreeUncounted == \A p \in free : pp_ref[p] = 0

\* No page that page_alloc may hand out is still the directory, a table or a
\* mapping of some environment: whatever the order of map, unmap, fork and
\* destroy, nobody can reach memory that is given to somebody else.
FreeUnreferenced == \A x \in Pointer : ptr[x] \notin free

\* A page used as a page directory or page table has that one use: no address
\* space maps it and no two directories share it, so that the memory calls of
\* an environment never write a translation.
TablesExclusive ==
    \A x, y \in Pointer :
        ptr[x] # NULL /\ ptr[x] = ptr[y] /\ x[2][1] # "pte" => x = y

\* Page p is neither lost nor kept by a count too high: pp_ref is the number of
\* pointers to it, and it is on the free list exactly when that is 0.
Accounted(p) ==
    /\ pp_ref[p] = Cardinality(Refs(p))
    /\ pp_ref[p] = 0 <=> p \in free

\* What environment e refers to in [UTOP, ULIM): mappings, and tables for
\* these addresses alone.
Upper(e) == {At(e, pte(va)) : va \in Va \ UserVa}
              \cup {At(e, pde(x)) : x \in Pdx \ {PDX(va) : va \in UserVa}}

\* The four leaks of the code, for page p: a page of an image and a page of
\* pageout are counted twice, sys_mem_alloc forgets its page when that was the
\* last one and a table is missing, and env_free forgets what lies above UTOP.
Leak(p) ==
    \/ \E e \in Env, va \in Text : EnvCreate(e) /\ At(e, pte(va))' = p
    \/ \E e \in Env, va \in Va :
         Pageout(e, va) /\ p \in free /\ At(e, pde(PDX(va)))' # p
    \/ free = {p} /\ \E e \in Env, va \in Va : SysMemAlloc(e, va)
    \/ \E e \in Env : EnvFree(e) /\ p \in Upper(e)

\* Memory leaks in these places and nowhere else, whatever is mapped, shared,
\* half forked and destroyed in whatever order: a fork cut short, above all,
\* leaks nothing once its child is destroyed.
NothingElseLeaks == [][\A p \in Page : Accounted(p) /\ ~Accounted(p)' => Leak(p)]_vars

\* With reference counts, pp_ref and all, the kernel keeps the promises of
\* the allocator it stands for.
Store == INSTANCE PageStore WITH avail <- free, users <- [p \in Page |-> Refs(p)]
ImplementsPageStore == Store!Spec
=============================================================================
