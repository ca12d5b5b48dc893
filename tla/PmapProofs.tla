----------------------------- MODULE PmapProofs -----------------------------
(***************************************************************************)
(* Proofs about Pmap, for all sets of pages, environments and addresses.   *)
(* CapRefs is assumed: pp_ref is a u_short that page_insert increments     *)
(* without a check, so that it wraps to 0 after 2^16 pointers, and a page  *)
(* that is still mapped is freed.                                          *)
(***************************************************************************)
EXTENDS Pmap, FiniteSetTheorems, TLAPS

\* The inductive invariant: the counts cover the pointers, and what is on the
\* free list is counted zero times.
IInv == TypeOK /\ RefCovers /\ FreeUncounted

USE PmapAssumption

-----------------------------------------------------------------------------
(* Finite sets of pointers                                                 *)

\* There are finitely many pointers, so that their number is defined.
LEMMA PointerFinite == IsFiniteSet(Pointer)
<1>1. IsFiniteSet(Pdx)
  <2> DEFINE f == [va \in Va |-> PDX(va)]
  <2>1. f \in Surjection(Va, Pdx)
    BY DEF Surjection, Pdx
  <2> QED
    BY <2>1, FS_Surjection
<1>2. IsFiniteSet({pde(x) : x \in Pdx})
  <2> DEFINE f == [x \in Pdx |-> pde(x)]
  <2>1. f \in Surjection(Pdx, {pde(x) : x \in Pdx})
    BY DEF Surjection
  <2> QED
    BY <1>1, <2>1, FS_Surjection
<1>3. IsFiniteSet({pte(va) : va \in Va})
  <2> DEFINE f == [va \in Va |-> pte(va)]
  <2>1. f \in Surjection(Va, {pte(va) : va \in Va})
    BY DEF Surjection
  <2> QED
    BY <2>1, FS_Surjection
<1>4. IsFiniteSet(Slot)
  <2>1. IsFiniteSet({pgdir} \cup {pde(x) : x \in Pdx})
    BY <1>2, FS_Singleton, FS_Union
  <2> QED
    BY <2>1, <1>3, FS_Union DEF Slot
<1> QED
  BY <1>4, FS_Product DEF Pointer

\* A set of pointers is finite and its cardinality is a natural number, at
\* most that of a set of pointers it is part of.
LEMMA PointerSets ==
  ASSUME NEW S \in SUBSET Pointer, NEW T \in SUBSET S
  PROVE  /\ IsFiniteSet(S) /\ IsFiniteSet(T)
         /\ Cardinality(S) \in Nat /\ Cardinality(T) \in Nat
         /\ Cardinality(T) <= Cardinality(S)
<1>1. IsFiniteSet(S) /\ IsFiniteSet(T)
  BY PointerFinite, FS_Subset
<1> QED
  BY <1>1, FS_Subset, FS_CardinalityType

\* Moving pointers: those of `gone` leave R, those of `come` join it.
LEMMA MovePointers ==
  ASSUME NEW R \in SUBSET Pointer, NEW gone \in SUBSET R, NEW come \in SUBSET Pointer
  PROVE  Cardinality((R \ gone) \cup come)
           <= Cardinality(R) - Cardinality(gone) + Cardinality(come)
<1>1. /\ IsFiniteSet(R \ gone)
      /\ Cardinality(R \ gone) = Cardinality(R) - Cardinality(gone)
  <2>1. R \cap gone = gone
    OBVIOUS
  <2> QED
    BY <2>1, PointerSets, FS_Difference
<1>2. /\ Cardinality((R \ gone) \cup come) =
           Cardinality(R \ gone) + Cardinality(come) - Cardinality((R \ gone) \cap come)
  BY <1>1, PointerSets, FS_Union
<1>3. Cardinality((R \ gone) \cap come) \in Nat
  BY PointerSets
<1> QED
  BY <1>1, <1>2, <1>3, PointerSets

\* x % m is x when it is in range: no pp_ref wraps around.
LEMMA ModInRange ==
  ASSUME NEW k \in Nat, NEW m \in Nat \ {0}, k < m
  PROVE  (k + m) % m = k
  BY SMT

\* What a reference count becomes is again a u_short.
LEMMA ModRange ==
  ASSUME NEW k \in Nat, NEW m \in Nat \ {0}
  PROVE  k % m \in 0 .. m - 1
  BY SMT
-----------------------------------------------------------------------------
(* Every handler changes memory through Update                             *)

\* The part of the invariant that Update can disturb.
MemInv ==
    /\ free \subseteq Page
    /\ pp_ref \in [Page -> 0 .. RefMod - 1]
    /\ ptr \in [Pointer -> Page \cup {NULL}]
    /\ RefCovers
    /\ FreeUncounted

\* What a handler must get right for its Update to be harmless: it names
\* pointers, releases only pointers it changes, takes pages off the free list
\* before it uses or counts them, maps no other page than these and those
\* somebody refers to, and does not map a page it releases.
Proper(new, released, taken, twice) ==
    /\ DOMAIN new \subseteq Pointer
    /\ new \in [DOMAIN new -> Page \cup {NULL}]
    /\ released \subseteq DOMAIN new
    /\ taken \subseteq free
    /\ twice \subseteq taken
    /\ \A x \in DOMAIN new :
         new[x] # NULL => new[x] \in taken \/ (new[x] \notin free /\ Refs(new[x]) # {})
    /\ \A x \in DOMAIN new, y \in released : ptr[y] # NULL => new[x] # ptr[y]

\* No page on the free list has a pointer, by its count.
LEMMA FreeHasNoRefs ==
  ASSUME MemInv
  PROVE  \A x \in Pointer : ptr[x] \notin free
<1> SUFFICES ASSUME NEW x \in Pointer, ptr[x] \in free
             PROVE  FALSE
  OBVIOUS
<1>1. Cardinality(Refs(ptr[x])) = 0
  <2>1. Refs(ptr[x]) \in SUBSET Pointer /\ ptr[x] \in Page
    BY DEF Refs, MemInv
  <2> QED
    BY <2>1, PointerSets DEF MemInv, RefCovers, FreeUncounted
<1>2. IsFiniteSet(Refs(ptr[x]))
  BY PointerSets DEF Refs
<1> QED
  BY <1>1, <1>2, FS_EmptySet DEF Refs

\* The same in the state after a step.
LEMMA FreeHasNoRefsNext ==
  ASSUME MemInv'
  PROVE  \A x \in Pointer : ptr'[x] \notin free'
<1> SUFFICES ASSUME NEW x \in Pointer, ptr'[x] \in free'
             PROVE  FALSE
  OBVIOUS
<1>1. Cardinality(Refs(ptr[x])') = 0
  <2>1. Refs(ptr[x])' \in SUBSET Pointer /\ ptr'[x] \in Page
    BY DEF Refs, MemInv
  <2> QED
    BY <2>1, PointerSets DEF MemInv, RefCovers, FreeUncounted
<1>2. IsFiniteSet(Refs(ptr[x])')
  BY PointerSets DEF Refs
<1> QED
  BY <1>1, <1>2, FS_EmptySet DEF Refs

\* The new count of a page, and the bound that makes it cover the pointers.
LEMMA UpdateCount ==
  ASSUME CapRefs, MemInv,
         NEW new, NEW released, NEW taken, NEW twice,
         Proper(new, released, taken, twice),
         Update(new, released, taken, twice),
         NEW p \in Page
  PROVE  /\ Gain(p, new, twice) \in Nat /\ Loss(p, released) \in Nat
         /\ Loss(p, released) <= Cardinality(Refs(p))
         /\ Cardinality(Refs(p)) \in Nat
         /\ pp_ref'[p] = pp_ref[p] + Gain(p, new, twice) - Loss(p, released)
         /\ Cardinality(Refs(p)')
              <= Cardinality(Refs(p)) + Gain(p, new, twice) - Loss(p, released)
         /\ Cardinality(Refs(p)') \in Nat
<1> DEFINE R    == Refs(p)
           gone == {x \in DOMAIN new : ptr[x] = p}
           come == {x \in DOMAIN new : new[x] = p}
           lost == {x \in released : ptr[x] = p}
<1>1. /\ R \in SUBSET Pointer /\ gone \in SUBSET R /\ come \in SUBSET Pointer
      /\ lost \in SUBSET gone
  BY DEF Refs, Proper
<1>2. Refs(p)' = (R \ gone) \cup come
  BY DEF Refs, Update, Proper
<1>3. /\ Cardinality(R) \in Nat /\ Cardinality(gone) \in Nat
      /\ Cardinality(come) \in Nat /\ Cardinality(lost) \in Nat
      /\ Cardinality(lost) <= Cardinality(gone)
      /\ Cardinality(lost) <= Cardinality(R)
  BY <1>1, PointerSets
<1>4. Cardinality(Refs(p)') <= Cardinality(R) - Cardinality(gone) + Cardinality(come)
  BY <1>1, <1>2, MovePointers
<1>5. Cardinality(Refs(p)') \in Nat
  <2>1. (R \ gone) \cup come \in SUBSET Pointer
    BY <1>1
  <2> QED
    BY <2>1, <1>2, PointerSets
<1> DEFINE c == Cardinality(come)
           l == Cardinality(lost)
           t == IF p \in twice THEN 1 ELSE 0
<1>6. Gain(p, new, twice) = c + t /\ Loss(p, released) = l
  BY DEF Gain, Loss
<1>7. t \in Nat /\ c \in Nat /\ l \in Nat
  BY <1>3
<1>8. pp_ref[p] \in Nat /\ Cardinality(R) <= pp_ref[p]
  BY DEF MemInv, RefCovers
<1>9. pp_ref[p] + (c + t) < RefMod
  BY <1>6 DEF Update, Counted, Freed
<1>10. pp_ref'[p] = (pp_ref[p] + (c + t) + RefMod - l) % RefMod
  BY <1>6 DEF Update, Counted, Freed
<1>11. pp_ref'[p] = pp_ref[p] + (c + t) - l
  <2> HIDE DEF c, t, l, R
  <2> DEFINE k == pp_ref[p] + (c + t) - l
  <2>1. l <= pp_ref[p]
    BY <1>3, <1>7, <1>8 DEF l, R
  <2>2. k \in Nat /\ k < RefMod
    BY <2>1, <1>7, <1>8, <1>9
  <2>3. pp_ref[p] + (c + t) + RefMod - l = k + RefMod
    BY <1>7, <1>8
  <2> HIDE DEF k
  <2>4. (k + RefMod) % RefMod = k
    BY <2>2, ModInRange
  <2> QED
    BY <2>3, <2>4, <1>10 DEF k
<1> QED
  BY <1>3, <1>4, <1>5, <1>6, <1>7, <1>11

\* A proper Update keeps the counts above the pointers, and the free list
\* uncounted.
LEMMA UpdateInv ==
  ASSUME CapRefs, MemInv,
         NEW new, NEW released, NEW taken, NEW twice,
         Proper(new, released, taken, twice),
         Update(new, released, taken, twice)
  PROVE  MemInv'
<1>1. free' \subseteq Page
  BY DEF Update, Counted, Freed, MemInv
<1>2. ptr' \in [Pointer -> Page \cup {NULL}]
  BY DEF Update, Counted, Freed, MemInv, Proper
<1>3. pp_ref' \in [Page -> 0 .. RefMod - 1]
  <2>1. /\ pp_ref' = [p \in Page |-> pp_ref'[p]]
        /\ \A p \in Page : pp_ref'[p] =
             (pp_ref[p] + Gain(p, new, twice) + RefMod - Loss(p, released)) % RefMod
    BY DEF Update, Counted, Freed
  <2>2. \A p \in Page : pp_ref'[p] \in 0 .. RefMod - 1
    <3> SUFFICES ASSUME NEW p \in Page
                 PROVE  pp_ref'[p] \in 0 .. RefMod - 1
      OBVIOUS
    <3> DEFINE k == pp_ref[p] + Gain(p, new, twice) + RefMod - Loss(p, released)
    <3>1. k \in Nat
      BY UpdateCount DEF MemInv, RefCovers
    <3>2. pp_ref'[p] = k % RefMod
      BY <2>1
    <3> HIDE DEF k
    <3> QED
      BY <3>1, <3>2, ModRange
  <2> QED
    BY <2>1, <2>2
<1>4. RefCovers'
  <2> SUFFICES ASSUME NEW p \in Page
               PROVE  Cardinality(Refs(p)') <= pp_ref'[p]
    BY DEF RefCovers
  <2> QED
    BY UpdateCount DEF MemInv, RefCovers
<1>5. FreeUncounted'
  <2> SUFFICES ASSUME NEW p \in free'
               PROVE  pp_ref'[p] = 0
    BY DEF FreeUncounted
  <2>0. p \in Page /\ pp_ref[p] \in Nat
    BY <1>1 DEF MemInv
  <2>1. CASE p \in free \ taken
    \* it had no pointer and gets none
    <3>1. pp_ref[p] = 0
      BY <2>1 DEF MemInv, FreeUncounted
    <3>2. Gain(p, new, twice) = 0
      <4>1. {x \in DOMAIN new : new[x] = p} = {} /\ p \notin twice
        BY <2>0, <2>1 DEF Proper
      <4> QED
        BY <4>1, FS_EmptySet DEF Gain
    <3> QED
      BY <3>1, <3>2, <2>0, UpdateCount DEF MemInv, RefCovers
  <2>2. CASE 0 < pp_ref[p] /\ pp_ref[p] <= Loss(p, released)
    \* its last pointers are released, and none is added
    <3>1. {x \in released : ptr[x] = p} # {}
      <4>1. Loss(p, released) # 0
        BY <2>2, <2>0, UpdateCount
      <4> QED
        BY <4>1, FS_EmptySet DEF Loss
    <3>2. Gain(p, new, twice) = 0
      <4>1. PICK y \in released : ptr[y] = p
        BY <3>1
      <4>2. p # NULL
        BY <2>0
      <4>3. {x \in DOMAIN new : new[x] = p} = {}
        BY <4>1, <4>2 DEF Proper
      <4>4. p \notin twice
        BY <2>2 DEF Proper, MemInv, FreeUncounted
      <4> QED
        BY <4>3, <4>4, FS_EmptySet DEF Gain
    <3> QED
      BY <3>2, <2>2, <2>0, UpdateCount DEF MemInv, RefCovers
  <2> QED
    BY <2>1, <2>2 DEF Update, Counted, Freed
<1> QED
  BY <1>1, <1>2, <1>3, <1>4, <1>5 DEF MemInv
\* What a kernel entry does to memory: nothing, or one proper Update.
MemStep ==
    \/ UNCHANGED <<free, pp_ref, ptr>>
    \/ \E new, released, taken, twice :
         Proper(new, released, taken, twice) /\ Update(new, released, taken, twice)

\* A step on memory keeps the counts right.
LEMMA MemStepInv ==
  ASSUME CapRefs, MemInv, MemStep
  PROVE  MemInv'
<1>1. CASE UNCHANGED <<free, pp_ref, ptr>>
  BY <1>1 DEF MemInv, RefCovers, FreeUncounted, Refs
<1> QED
  BY <1>1, UpdateInv DEF MemStep

\* A step on memory is a step of the abstract allocator.
LEMMA MemStepStore ==
  ASSUME CapRefs, MemInv, MemStep
  PROVE  Store!Step \/ UNCHANGED <<free, [p \in Page |-> Refs(p)]>>
<1>1. CASE UNCHANGED <<free, pp_ref, ptr>>
  BY <1>1 DEF Refs
<1>2. ASSUME NEW new, NEW released, NEW taken, NEW twice,
             Proper(new, released, taken, twice),
             Update(new, released, taken, twice)
      PROVE  Store!Step
  <2>1. MemInv'
    BY <1>2, UpdateInv
  <2>2. free' \subseteq Page
    BY <2>1 DEF MemInv
  <2>3. [p \in Page |-> Refs(p)]' \in [Page -> SUBSET Pointer]
    BY DEF Refs
  <2>4. \A p \in Page : Refs(p)' # {} => p \notin free'
    <3>1. \A x \in Pointer : ptr'[x] \notin free'
      BY <2>1, FreeHasNoRefsNext
    <3> QED
      BY <3>1 DEF Refs
  <2>5. \A p \in Page : Refs(p)' # {} /\ Refs(p) = {} => p \in free
    <3> SUFFICES ASSUME NEW p \in Page, NEW x \in Pointer, ptr'[x] = p, Refs(p) = {}
                 PROVE  p \in free
      BY DEF Refs
    <3>1. x \in DOMAIN new /\ new[x] = p
      BY <1>2 DEF Update, Counted, Freed, Refs
    <3>2. p # NULL
      OBVIOUS
    <3> QED
      BY <1>2, <3>1, <3>2 DEF Proper
  <2>6. \A p \in free' \ free : Refs(p) # {}
    <3> SUFFICES ASSUME NEW p \in free' \ free
                 PROVE  Refs(p) # {}
      OBVIOUS
    <3>1. p \in Page /\ 0 < pp_ref[p] /\ pp_ref[p] <= Loss(p, released)
      BY <1>2 DEF Update, Counted, Freed
    <3>2. Loss(p, released) # 0
      BY <1>2, <3>1, UpdateCount DEF MemInv
    <3>3. {x \in released : ptr[x] = p} # {}
      BY <3>2, FS_EmptySet DEF Loss
    <3> QED
      BY <1>2, <3>3 DEF Refs, Proper
  <2> QED
    BY <2>2, <2>3, <2>4, <2>5, <2>6 DEF Store!Step
<1> QED
  BY <1>1, <1>2 DEF MemStep
-----------------------------------------------------------------------------
(* The handlers                                                            *)

\* What pte, pde and pgdir select are slots, and different ones.
LEMMA Slots ==
  /\ pgdir \in Slot
  /\ \A va \in Va : pte(va) \in Slot /\ PDX(va) \in Pdx /\ pde(PDX(va)) \in Slot
  /\ \A x \in Pdx : pde(x) \in Slot
  /\ \A a, b : pte(a) # pde(b) /\ pte(a) # pgdir /\ pde(a) # pgdir
  /\ \A a, b : (pte(a) = pte(b) => a = b) /\ (pde(a) = pde(b) => a = b)
  BY DEF Slot, pte, pde, pgdir, Pdx

\* page_insert is a step on memory when the page it maps is referenced, or has been
\* allocated by the caller.
LEMMA PageInsertStep ==
  ASSUME CapRefs, MemInv,
         NEW e \in Env, NEW va \in Va, NEW p \in Page,
         NEW taken \in SUBSET free, NEW twice \in SUBSET taken,
         p \in taken \/ (p \notin free /\ Refs(p) # {}),
         PageInsert(e, p, va, taken, twice)
  PROVE  MemStep
<1> DEFINE x == <<e, pte(va)>>
           d == <<e, pde(PDX(va))>>
<1>0. x \in Pointer /\ d \in Pointer /\ x # d
  BY Slots DEF Pointer
<1>1. CASE UNCHANGED <<free, pp_ref, ptr>>
  BY <1>1 DEF MemStep
<1>2. CASE /\ ptr[x] # p
           /\ Update([y \in {x} |-> p], {x}, taken, twice)
  <2>1. Proper([y \in {x} |-> p], {x}, taken, twice)
    BY <1>0, <1>2 DEF Proper
  <2> QED
    BY <1>2, <2>1 DEF MemStep
<1>3. ASSUME NEW t \in free \ taken,
             Update([y \in {x, d} |-> IF y = x THEN p ELSE t], {},
                    taken \cup {t}, twice)
      PROVE  MemStep
  <2>1. Proper([y \in {x, d} |-> IF y = x THEN p ELSE t], {}, taken \cup {t}, twice)
    BY <1>0, <1>3 DEF Proper, MemInv
  <2> QED
    BY <1>3, <2>1 DEF MemStep
<1>4. CASE Update([y \in {} |-> NULL], {}, taken, twice)
  <2>1. Proper([y \in {} |-> NULL], {}, taken, twice)
    BY DEF Proper
  <2> QED
    BY <1>4, <2>1 DEF MemStep
<1> QED
  BY <1>1, <1>2, <1>3, <1>4 DEF PageInsert

\* env_create_priority is a step on memory.
LEMMA EnvCreateStep ==
  ASSUME CapRefs, MemInv, NEW e \in Env, EnvCreate(e)
  PROVE  MemStep
<1> DEFINE slots == {pgdir} \cup {pte(va) : va \in Text \cup {Stack}}
                            \cup {pde(PDX(va)) : va \in Text \cup {Stack}}
<1>1. PICK f \in Injections(slots, free) :
        Update([x \in {e} \X slots |-> f[x[2]]], {},
               {f[s] : s \in slots}, {f[pte(va)] : va \in Text})
  BY DEF EnvCreate
<1>2. slots \subseteq Slot
  BY Slots DEF UserVa
<1>3. f \in [slots -> free]
  BY DEF Injections
<1> DEFINE new == [x \in {e} \X slots |-> f[x[2]]]
<1>4. /\ DOMAIN new \subseteq Pointer
      /\ \A x \in DOMAIN new : x[2] \in slots /\ new[x] = f[x[2]] /\ new[x] \in free
  BY <1>2, <1>3 DEF Pointer
<1>5. {f[pte(va)] : va \in Text} \subseteq {f[s] : s \in slots}
  OBVIOUS
<1>6. {f[s] : s \in slots} \subseteq free
  BY <1>3
<1>7. Proper(new, {}, {f[s] : s \in slots}, {f[pte(va)] : va \in Text})
  <2> HIDE DEF slots
  <2> QED
    BY <1>4, <1>5, <1>6 DEF Proper, MemInv
<1> QED
  BY <1>1, <1>7 DEF MemStep

\* sys_env_alloc is a step on memory: what the child shares is referenced by
\* the parent, what it gets of its own comes from the free list.
LEMMA SysEnvAllocStep ==
  ASSUME CapRefs, MemInv, NEW e \in Env, NEW c \in Env, SysEnvAlloc(e, c)
  PROVE  MemStep
<1> DEFINE mapped == {va \in Va : At(e, pte(va)) # NULL}
           needed == {PDX(va) : va \in mapped}
<1>1. CASE UNCHANGED <<free, pp_ref, ptr>>
  BY <1>1 DEF MemStep
<1>2. CASE ~ UNCHANGED <<free, pp_ref, ptr>>
  <2>1. PICK served \in SUBSET needed :
          \E f \in Injections({pgdir} \cup {pde(x) : x \in served}, free) :
            Update([x \in {c} \X (({pgdir} \cup {pde(y) : y \in served})
                                  \cup {pte(va) : va \in {w \in mapped : PDX(w) \in served}}) |->
                      IF x[2] \in {pgdir} \cup {pde(y) : y \in served}
                      THEN f[x[2]] ELSE At(e, x[2])],
                   {}, {f[s] : s \in {pgdir} \cup {pde(x) : x \in served}}, {})
    BY <1>2 DEF SysEnvAlloc
  <2> DEFINE own   == {pgdir} \cup {pde(x) : x \in served}
             share == {pte(va) : va \in {w \in mapped : PDX(w) \in served}}
  <2>2. PICK f \in Injections(own, free) :
          Update([x \in {c} \X (own \cup share) |->
                    IF x[2] \in own THEN f[x[2]] ELSE At(e, x[2])],
                 {}, {f[s] : s \in own}, {})
    BY <2>1
  <2> DEFINE new == [x \in {c} \X (own \cup share) |->
                       IF x[2] \in own THEN f[x[2]] ELSE At(e, x[2])]
  <2>3. own \subseteq Slot /\ share \subseteq Slot
    <3>1. needed \subseteq Pdx
      BY Slots
    <3> QED
      BY <3>1, Slots
  <2>4. f \in [own -> free]
    BY DEF Injections
  <2>5. {f[s] : s \in own} \subseteq free
    BY <2>4
  <2>6. \A s \in Slot : /\ At(e, s) \in Page \cup {NULL} /\ At(e, s) \notin free
                        /\ Refs(At(e, s)) # {}
    BY FreeHasNoRefs DEF MemInv, Pointer, At, Refs
  <2>7. Proper(new, {}, {f[s] : s \in own}, {})
    <3> HIDE DEF own, share
    <3>1. DOMAIN new \subseteq Pointer
      BY <2>3 DEF Pointer
    <3>2. \A x \in DOMAIN new : \/ x[2] \in own /\ new[x] = f[x[2]]
                                \/ x[2] \in Slot /\ new[x] = At(e, x[2])
      BY <2>3
    <3>3. \A x \in DOMAIN new :
            /\ new[x] \in Page \cup {NULL}
            /\ new[x] # NULL => \/ new[x] \in {f[s] : s \in own}
                                \/ (new[x] \notin free /\ Refs(new[x]) # {})
      BY <3>2, <2>4, <2>6 DEF MemInv
    <3> QED
      BY <3>1, <3>3, <2>5 DEF Proper
  <2> QED
    BY <2>2, <2>7 DEF MemStep
<1> QED
  BY <1>1, <1>2

\* env_free is a step on memory.
LEMMA EnvFreeStep ==
  ASSUME CapRefs, MemInv, NEW e \in Env, EnvFree(e)
  PROVE  MemStep
<1> DEFINE released == {e} \X ({pgdir} \cup {pte(va) : va \in UserVa}
                                        \cup {pde(PDX(va)) : va \in UserVa})
           new == [x \in {e} \X Slot |-> NULL]
<1>1. Update(new, released, {}, {})
  BY DEF EnvFree
<1>2. released \subseteq {e} \X Slot /\ {e} \X Slot \subseteq Pointer
  BY Slots DEF UserVa, Pointer
<1>3. Proper(new, released, {}, {})
  <2> HIDE DEF released
  <2> QED
    BY <1>2 DEF Proper, MemInv
<1> QED
  BY <1>1, <1>3 DEF MemStep

\* sys_mem_unmap is a step on memory.
LEMMA SysMemUnmapStep ==
  ASSUME CapRefs, MemInv, NEW e \in Env, NEW va \in Va, SysMemUnmap(e, va)
  PROVE  MemStep
<1> DEFINE x == <<e, pte(va)>>
<1>1. Update([y \in {x} |-> NULL], {x}, {}, {})
  BY DEF SysMemUnmap
<1>2. Proper([y \in {x} |-> NULL], {x}, {}, {})
  BY Slots DEF Proper, MemInv, Pointer
<1> QED
  BY <1>1, <1>2 DEF MemStep

\* Every kernel entry is a step on memory.
LEMMA NextMemStep ==
  ASSUME CapRefs, MemInv, [Next]_vars
  PROVE  MemStep
<1>1. CASE StartTimer
  BY <1>1 DEF StartTimer, MemStep
<1>2. ASSUME NEW e \in Env, NEW va \in Va, SysMemAlloc(e, va)
      PROVE  MemStep
  <2>1. PICK p \in free : PageInsert(e, p, va, {p}, {})
    BY <1>2 DEF SysMemAlloc
  <2> QED
    BY <2>1, PageInsertStep DEF MemInv
<1>3. ASSUME NEW e \in Env, NEW va \in Va, Pageout(e, va)
      PROVE  MemStep
  <2>1. CASE UNCHANGED <<free, pp_ref, ptr>>
    BY <2>1 DEF MemStep
  <2>2. CASE \E p \in free : PageInsert(e, p, va, {p}, {p})
    BY <2>2, PageInsertStep DEF MemInv
  <2> QED
    BY <1>3, <2>1, <2>2 DEF Pageout
<1>4. ASSUME NEW src \in Env, NEW srcva \in Va, NEW dst \in Env, NEW dstva \in Va,
             SysMemMap(src, srcva, dst, dstva)
      PROVE  MemStep
  <2>1. <<src, pte(srcva)>> \in Pointer
    BY Slots DEF Pointer
  <2>2. At(src, pte(srcva)) \in Page \ free /\ Refs(At(src, pte(srcva))) # {}
    BY <1>4, <2>1, FreeHasNoRefs DEF SysMemMap, At, MemInv, Refs
  <2>3. PageInsert(dst, At(src, pte(srcva)), dstva, {}, {})
    BY <1>4 DEF SysMemMap
  <2> QED
    BY <2>2, <2>3, PageInsertStep
<1>5. CASE UNCHANGED vars
  BY <1>5 DEF vars, MemStep
<1> QED
  BY <1>1, <1>2, <1>3, <1>4, <1>5, EnvCreateStep, SysEnvAllocStep, EnvFreeStep,
     SysMemUnmapStep DEF Next
-----------------------------------------------------------------------------
(* Tables: what the pointers that Update moves do to address spaces        *)

IsPte(x) == x[2][1] = "pte"

\* A mapping lives in a table and a table in a directory: pgdir_walk creates
\* them in this order and env_free takes all of them away together.
Walkable ==
    /\ \A e \in Env, va \in Va :
         At(e, pte(va)) # NULL => At(e, pde(PDX(va))) # NULL
    /\ \A e \in Env, x \in Pdx : At(e, pde(x)) # NULL => At(e, pgdir) # NULL

\* A table entry is neither a directory entry nor a directory.
LEMMA PteSlots ==
  \A e, v : IsPte(<<e, pte(v)>>) /\ ~ IsPte(<<e, pde(v)>>) /\ ~ IsPte(<<e, pgdir>>)
BY DEF IsPte, pte, pde, pgdir

\* A table that Update puts somewhere comes off the free list and goes nowhere
\* else, and what it maps is fresh, or mapped already.
Exclusive(new) ==
    /\ DOMAIN new \subseteq Pointer
    /\ \A x \in DOMAIN new :
         ~ IsPte(x) /\ new[x] # NULL =>
            /\ new[x] \in free
            /\ \A y \in DOMAIN new : new[y] = new[x] => y = x
    /\ \A x \in DOMAIN new :
         IsPte(x) /\ new[x] # NULL =>
            \/ new[x] \in free
            \/ \E z \in Pointer : ptr[z] = new[x] /\ IsPte(z)

\* What a kernel entry does to address spaces.
TreeStep ==
    \/ UNCHANGED ptr
    \/ \E new, released, taken, twice :
         Exclusive(new) /\ Update(new, released, taken, twice) /\ Walkable'

TreeInv == TablesExclusive /\ Walkable

\* Tables stay out of address spaces, and address spaces hang together.
LEMMA TreeStepInv ==
  ASSUME MemInv, TreeInv, TreeStep
  PROVE  TreeInv'
<1>1. CASE UNCHANGED ptr
  BY <1>1 DEF TreeInv, TablesExclusive, Walkable, At
<1>2. ASSUME NEW new, NEW released, NEW taken, NEW twice,
             Exclusive(new), Update(new, released, taken, twice), Walkable'
      PROVE  TreeInv'
  <2> SUFFICES ASSUME NEW x \in Pointer, NEW y \in Pointer,
                      ptr'[x] # NULL, ptr'[x] = ptr'[y], ~ IsPte(x)
               PROVE  x = y
    BY <1>2 DEF TreeInv, TablesExclusive, IsPte
  <2>1. \A z \in Pointer : ptr'[z] = IF z \in DOMAIN new THEN new[z] ELSE ptr[z]
    BY <1>2 DEF Update
  <2>2. \A z \in Pointer : ptr[z] \notin free
    BY FreeHasNoRefs
  <2>3. \A z \in Pointer : ptr[x] # NULL /\ ptr[x] = ptr[z] => x = z
    BY DEF TreeInv, TablesExclusive, IsPte
  <2>4. CASE x \in DOMAIN new
    BY <1>2, <2>1, <2>2, <2>4 DEF Exclusive
  <2>5. CASE x \notin DOMAIN new /\ y \notin DOMAIN new
    BY <2>1, <2>3, <2>5
  <2>6. CASE x \notin DOMAIN new /\ y \in DOMAIN new
    <3>1. new[y] = ptr[x] /\ ptr[x] # NULL
      BY <2>1, <2>6
    <3>2. new[y] \in free \/ \E z \in Pointer : ptr[z] = new[y] /\ IsPte(z)
      BY <1>2, <2>6, <3>1 DEF Exclusive
    <3> QED
      BY <2>2, <2>3, <3>1, <3>2
  <2> QED
    BY <2>4, <2>5, <2>6
<1> QED
  BY <1>1, <1>2 DEF TreeStep

\* Pointers that are only set, each below one that is set, leave every mapping
\* in a table and every table in a directory.
LEMMA GrowWalkable ==
  ASSUME Walkable, NEW new, NEW released, NEW taken, NEW twice,
         Update(new, released, taken, twice),
         \A x \in DOMAIN new : new[x] # NULL,
         \A e \in Env, va \in Va : <<e, pte(va)>> \in DOMAIN new =>
            <<e, pde(PDX(va))>> \in DOMAIN new \/ ptr[<<e, pde(PDX(va))>>] # NULL,
         \A e \in Env, i \in Pdx : <<e, pde(i)>> \in DOMAIN new =>
            <<e, pgdir>> \in DOMAIN new \/ ptr[<<e, pgdir>>] # NULL
  PROVE  Walkable'
<1>1. \A z \in Pointer : ptr'[z] = IF z \in DOMAIN new THEN new[z] ELSE ptr[z]
  BY DEF Update
<1>2. \A e \in Env, va \in Va :
        ptr'[<<e, pte(va)>>] # NULL => ptr'[<<e, pde(PDX(va))>>] # NULL
  <2> SUFFICES ASSUME NEW e \in Env, NEW va \in Va, ptr'[<<e, pte(va)>>] # NULL
               PROVE  ptr'[<<e, pde(PDX(va))>>] # NULL
    OBVIOUS
  <2>1. <<e, pte(va)>> \in Pointer /\ <<e, pde(PDX(va))>> \in Pointer
    BY Slots DEF Pointer
  <2>2. ptr[<<e, pte(va)>>] # NULL => ptr[<<e, pde(PDX(va))>>] # NULL
    BY DEF Walkable, At
  <2> QED
    BY <1>1, <2>1, <2>2
<1>3. \A e \in Env, i \in Pdx :
        ptr'[<<e, pde(i)>>] # NULL => ptr'[<<e, pgdir>>] # NULL
  <2> SUFFICES ASSUME NEW e \in Env, NEW i \in Pdx, ptr'[<<e, pde(i)>>] # NULL
               PROVE  ptr'[<<e, pgdir>>] # NULL
    OBVIOUS
  <2>1. <<e, pde(i)>> \in Pointer /\ <<e, pgdir>> \in Pointer
    BY Slots DEF Pointer
  <2>2. ptr[<<e, pde(i)>>] # NULL => ptr[<<e, pgdir>>] # NULL
    BY DEF Walkable, At
  <2> QED
    BY <1>1, <2>1, <2>2
<1> QED
  BY <1>2, <1>3 DEF Walkable, At

\* page_insert, into the address space of an environment that exists.
LEMMA PageInsertTree ==
  ASSUME MemInv, TreeInv,
         NEW e \in Live, NEW va \in Va, NEW p \in Page,
         NEW taken \in SUBSET free, NEW twice \in SUBSET taken,
         p \in taken \/ (p \notin free /\ \E z \in Pointer : ptr[z] = p /\ IsPte(z)),
         PageInsert(e, p, va, taken, twice)
  PROVE  TreeStep
<1> DEFINE x == <<e, pte(va)>>
           d == <<e, pde(PDX(va))>>
<1>0. /\ x \in Pointer /\ d \in Pointer /\ x # d /\ IsPte(x) /\ ~ IsPte(d)
      /\ e \in Env /\ ptr[<<e, pgdir>>] # NULL
  BY Slots DEF Pointer, IsPte, pte, pde, Live, At
<1>1. CASE UNCHANGED <<free, pp_ref, ptr>>
  BY <1>1 DEF TreeStep
<1>2. CASE ptr[d] # NULL /\ Update([y \in {x} |-> p], {x}, taken, twice)
  <2> DEFINE new == [y \in {x} |-> p]
  <2>1. Exclusive(new)
    BY <1>0 DEF Exclusive
  <2>2. Walkable'
    <3>1. DOMAIN new = {x} /\ \A y \in DOMAIN new : new[y] # NULL
      OBVIOUS
    <3>2. \A a \in Env, b \in Va : <<a, pte(b)>> \in DOMAIN new =>
            ptr[<<a, pde(PDX(b))>>] # NULL
      BY <1>2, <3>1, Slots
    <3>3. \A a \in Env, i \in Pdx : <<a, pde(i)>> \notin DOMAIN new
      BY <3>1, Slots
    <3> QED
      BY <1>2, <3>1, <3>2, <3>3, GrowWalkable DEF TreeInv
  <2> QED
    BY <1>2, <2>1, <2>2 DEF TreeStep
<1>3. ASSUME NEW t \in free \ taken,
             Update([y \in {x, d} |-> IF y = x THEN p ELSE t], {}, taken \cup {t}, twice)
      PROVE  TreeStep
  <2> DEFINE new == [y \in {x, d} |-> IF y = x THEN p ELSE t]
  <2>1. Exclusive(new)
    BY <1>0, <1>3 DEF Exclusive
  <2>2. Walkable'
    <3>1. DOMAIN new = {x, d} /\ \A y \in DOMAIN new : new[y] # NULL
      BY <1>0 DEF MemInv
    <3>2. \A a \in Env, b \in Va : <<a, pte(b)>> \in DOMAIN new =>
            <<a, pde(PDX(b))>> \in DOMAIN new
      BY <3>1, Slots
    <3>3. \A a \in Env, i \in Pdx : <<a, pde(i)>> \in DOMAIN new =>
            ptr[<<a, pgdir>>] # NULL
      BY <1>0, <3>1, Slots
    <3> QED
      BY <1>3, <3>1, <3>2, <3>3, GrowWalkable DEF TreeInv
  <2> QED
    BY <1>3, <2>1, <2>2 DEF TreeStep
<1>4. CASE Update([y \in {} |-> NULL], {}, taken, twice)
  <2>1. ptr' = ptr
    BY <1>4 DEF Update, MemInv
  <2> QED
    BY <2>1 DEF TreeStep
<1> QED
  BY <1>1, <1>2, <1>3, <1>4 DEF PageInsert

\* env_create_priority: every table and page of the new environment is its own.
LEMMA EnvCreateTree ==
  ASSUME MemInv, TreeInv, NEW e \in Env, EnvCreate(e)
  PROVE  TreeStep
<1> DEFINE slots == {pgdir} \cup {pte(va) : va \in Text \cup {Stack}}
                            \cup {pde(PDX(va)) : va \in Text \cup {Stack}}
<1>1. PICK f \in Injections(slots, free) :
        Update([x \in {e} \X slots |-> f[x[2]]], {},
               {f[s] : s \in slots}, {f[pte(va)] : va \in Text})
  BY DEF EnvCreate
<1> DEFINE new == [x \in {e} \X slots |-> f[x[2]]]
<1>2. slots \subseteq Slot
  BY Slots DEF UserVa
<1>3. f \in [slots -> free] /\ \A a, b \in slots : f[a] = f[b] => a = b
  BY DEF Injections
<1>4. /\ pgdir \in slots
      /\ \A va \in Va : pte(va) \in slots => pde(PDX(va)) \in slots
  BY Slots
<1> HIDE DEF slots
<1>5. /\ DOMAIN new = {e} \X slots /\ DOMAIN new \subseteq Pointer
      /\ \A x \in DOMAIN new : new[x] \in free /\ new[x] # NULL
  BY <1>2, <1>3 DEF Pointer, MemInv
<1>6. \A x, y \in DOMAIN new : new[x] = new[y] => x = y
  BY <1>3, <1>5
<1> HIDE DEF new
<1>7. Exclusive(new)
  BY <1>5, <1>6 DEF Exclusive
<1>8. Walkable'
  BY <1>1, <1>4, <1>5, GrowWalkable DEF TreeInv, new
<1> QED
  BY <1>1, <1>7, <1>8 DEF TreeStep, new

\* sys_env_alloc: the child shares pages with its parent and has tables of its
\* own.
LEMMA SysEnvAllocTree ==
  ASSUME MemInv, TreeInv, NEW e \in Env, NEW c \in Env, SysEnvAlloc(e, c)
  PROVE  TreeStep
<1> DEFINE mapped == {va \in Va : At(e, pte(va)) # NULL}
           needed == {PDX(va) : va \in mapped}
<1>1. CASE UNCHANGED <<free, pp_ref, ptr>>
  BY <1>1 DEF TreeStep
<1>2. CASE ~ UNCHANGED <<free, pp_ref, ptr>>
  <2>1. PICK served \in SUBSET needed :
          \E f \in Injections({pgdir} \cup {pde(x) : x \in served}, free) :
            Update([x \in {c} \X (({pgdir} \cup {pde(y) : y \in served})
                                  \cup {pte(va) : va \in {w \in mapped : PDX(w) \in served}}) |->
                      IF x[2] \in {pgdir} \cup {pde(y) : y \in served}
                      THEN f[x[2]] ELSE At(e, x[2])],
                   {}, {f[s] : s \in {pgdir} \cup {pde(x) : x \in served}}, {})
    BY <1>2 DEF SysEnvAlloc
  <2> DEFINE own   == {pgdir} \cup {pde(x) : x \in served}
             share == {pte(va) : va \in {w \in mapped : PDX(w) \in served}}
  <2>2. PICK f \in Injections(own, free) :
          Update([x \in {c} \X (own \cup share) |->
                    IF x[2] \in own THEN f[x[2]] ELSE At(e, x[2])],
                 {}, {f[s] : s \in own}, {})
    BY <2>1
  <2> DEFINE new == [x \in {c} \X (own \cup share) |->
                       IF x[2] \in own THEN f[x[2]] ELSE At(e, x[2])]
  <2>3. own \subseteq Slot /\ share \subseteq Slot /\ pgdir \in own
    <3>1. needed \subseteq Pdx
      BY Slots
    <3> QED
      BY <3>1, Slots
  <2>4. f \in [own -> free] /\ \A a, b \in own : f[a] = f[b] => a = b
    BY DEF Injections
  <2>5. /\ \A s \in own : ~ IsPte(<<c, s>>) /\ s \notin share
        /\ \A s \in share : IsPte(<<c, s>>) /\ IsPte(<<e, s>>) /\ ptr[<<e, s>>] # NULL
        /\ \A va \in Va : pte(va) \in own \cup share => pde(PDX(va)) \in own
    <3>1. \A s \in own : ~ IsPte(<<c, s>>) /\ s \notin share
      BY Slots, PteSlots
    <3>2. \A s \in share : IsPte(<<c, s>>) /\ IsPte(<<e, s>>) /\ ptr[<<e, s>>] # NULL
      BY PteSlots DEF At
    <3>3. \A va \in Va : pte(va) \in own \cup share => pde(PDX(va)) \in own
      <4>1. \A va \in Va : pte(va) \notin own
        BY Slots
      <4>2. \A va \in Va : pte(va) \in share => PDX(va) \in served
        BY Slots
      <4> QED
        BY <4>1, <4>2
    <3> QED
      BY <3>1, <3>2, <3>3
  <2>6. \A s \in Slot : <<c, s>> \in Pointer /\ <<e, s>> \in Pointer
                        /\ ptr[<<e, s>>] \notin free
    BY FreeHasNoRefs DEF Pointer
  <2> HIDE DEF own, share
  <2>7. /\ DOMAIN new = {c} \X (own \cup share) /\ DOMAIN new \subseteq Pointer
        /\ \A s \in own : <<c, s>> \in DOMAIN new /\ new[<<c, s>>] = f[s] /\ f[s] \in free
        /\ \A s \in share : <<c, s>> \in DOMAIN new /\ new[<<c, s>>] = ptr[<<e, s>>]
    BY <2>3, <2>4, <2>5 DEF Pointer, At
  <2>8. \A x \in DOMAIN new : \E s \in own \cup share : x = <<c, s>>
    BY <2>7
  <2> HIDE DEF new
  <2>9. Exclusive(new)
    <3>1. ASSUME NEW x \in DOMAIN new, ~ IsPte(x), NEW y \in DOMAIN new, new[y] = new[x]
          PROVE  y = x
      <4>1. PICK a \in own : x = <<c, a>>
        BY <2>5, <2>8, <3>1
      <4>2. PICK b \in own \cup share : y = <<c, b>>
        BY <2>8
      <4>3. new[x] \in free
        BY <2>7, <4>1
      <4>4. b \in own
        BY <2>3, <2>6, <2>7, <3>1, <4>2, <4>3
      <4> QED
        BY <2>4, <2>7, <3>1, <4>1, <4>2, <4>4
    <3>2. ASSUME NEW x \in DOMAIN new
          PROVE  /\ ~ IsPte(x) => new[x] \in free
                 /\ IsPte(x) => \E z \in Pointer : ptr[z] = new[x] /\ IsPte(z)
      <4>1. PICK a \in own \cup share : x = <<c, a>>
        BY <2>8
      <4> QED
        BY <2>3, <2>5, <2>6, <2>7, <4>1
    <3> QED
      BY <2>7, <3>1, <3>2 DEF Exclusive
  <2>10. Walkable'
    <3>1. \A x \in DOMAIN new : new[x] # NULL
      <4>1. NULL \notin free
        BY DEF MemInv
      <4> QED
        <5> SUFFICES ASSUME NEW x \in DOMAIN new
                     PROVE  new[x] # NULL
          OBVIOUS
        <5>1. PICK a \in own \cup share : x = <<c, a>>
          BY <2>8
        <5>2. CASE a \in own
          BY <2>7, <4>1, <5>1, <5>2
        <5>3. CASE a \in share
          BY <2>5, <2>7, <5>1, <5>3
        <5> QED
          BY <5>2, <5>3
    <3>2. \A a \in Env, b \in Va : <<a, pte(b)>> \in DOMAIN new =>
            <<a, pde(PDX(b))>> \in DOMAIN new
      BY <2>5, <2>7
    <3>3. \A a \in Env, i \in Pdx : <<a, pde(i)>> \in DOMAIN new =>
            <<a, pgdir>> \in DOMAIN new
      BY <2>3, <2>7
    <3> QED
      BY <2>2, <3>1, <3>2, <3>3, GrowWalkable DEF TreeInv, new
  <2> QED
    BY <2>2, <2>9, <2>10 DEF TreeStep, new
<1> QED
  BY <1>1, <1>2

\* env_free: the whole address space goes.
LEMMA EnvFreeTree ==
  ASSUME MemInv, TreeInv, NEW e \in Env, EnvFree(e)
  PROVE  TreeStep
<1> DEFINE released == {e} \X ({pgdir} \cup {pte(va) : va \in UserVa}
                                        \cup {pde(PDX(va)) : va \in UserVa})
           new == [x \in {e} \X Slot |-> NULL]
<1>1. Update(new, released, {}, {})
  BY DEF EnvFree
<1>2. Exclusive(new)
  BY DEF Exclusive, Pointer
<1>3. \A a \in Env, s \in Slot : At(a, s)' = IF a = e THEN NULL ELSE At(a, s)
  BY <1>1 DEF Update, At, Pointer
<1>4. Walkable'
  BY <1>3, Slots DEF TreeInv, Walkable
<1> QED
  BY <1>1, <1>2, <1>4 DEF TreeStep

\* sys_mem_unmap: a mapping goes, its table stays.
LEMMA SysMemUnmapTree ==
  ASSUME MemInv, TreeInv, NEW e \in Env, NEW va \in Va, SysMemUnmap(e, va)
  PROVE  TreeStep
<1> DEFINE x == <<e, pte(va)>>
           new == [y \in {x} |-> NULL]
<1>1. Update(new, {x}, {}, {})
  BY DEF SysMemUnmap
<1>2. x \in Pointer
  BY Slots DEF Pointer
<1>3. Exclusive(new)
  BY <1>2 DEF Exclusive
<1>4. \A a \in Env, s \in Slot :
        At(a, s)' = IF a = e /\ s = pte(va) THEN NULL ELSE At(a, s)
  BY <1>1 DEF Update, At, Pointer
<1>5. Walkable'
  BY <1>4, Slots DEF TreeInv, Walkable
<1> QED
  BY <1>1, <1>3, <1>5 DEF TreeStep

\* Every kernel entry keeps address spaces apart and whole.
LEMMA NextTreeStep ==
  ASSUME MemInv, TreeInv, [Next]_vars
  PROVE  TreeStep
<1>1. CASE StartTimer
  BY <1>1 DEF StartTimer, TreeStep
<1>2. ASSUME NEW e \in Env, NEW va \in Va, SysMemAlloc(e, va)
      PROVE  TreeStep
  <2>1. e \in Live /\ \E p \in free : PageInsert(e, p, va, {p}, {})
    BY <1>2 DEF SysMemAlloc
  <2> QED
    BY <2>1, PageInsertTree DEF MemInv
<1>3. ASSUME NEW e \in Env, NEW va \in Va, Pageout(e, va)
      PROVE  TreeStep
  <2>1. CASE UNCHANGED <<free, pp_ref, ptr>>
    BY <2>1 DEF TreeStep
  <2>2. CASE e \in Live /\ \E p \in free : PageInsert(e, p, va, {p}, {p})
    BY <2>2, PageInsertTree DEF MemInv
  <2> QED
    BY <1>3, <2>1, <2>2 DEF Pageout
<1>4. ASSUME NEW src \in Env, NEW srcva \in Va, NEW dst \in Env, NEW dstva \in Va,
             SysMemMap(src, srcva, dst, dstva)
      PROVE  TreeStep
  <2> PICK z \in Pointer : z = <<src, pte(srcva)>>
    BY Slots DEF Pointer
  <2>1. IsPte(z) /\ ptr[z] \in Page \ free
    BY <1>4, FreeHasNoRefs DEF SysMemMap, At, MemInv, IsPte, pte
  <2>2. dst \in Live /\ PageInsert(dst, ptr[z], dstva, {}, {})
    BY <1>4 DEF SysMemMap, At
  <2> QED
    BY <2>1, <2>2, PageInsertTree
<1>5. CASE UNCHANGED vars
  BY <1>5 DEF vars, TreeStep
<1> QED
  BY <1>1, <1>2, <1>3, <1>4, <1>5, EnvCreateTree, SysEnvAllocTree, EnvFreeTree,
     SysMemUnmapTree DEF Next
-----------------------------------------------------------------------------
(* Leaks                                                                   *)

\* An Update keeps a page accounted for when it counts it once for each new
\* pointer, releases each pointer it clears, and uses the page if it takes it.
LEMMA UpdateAccounts ==
  ASSUME CapRefs, MemInv,
         NEW new, NEW released, NEW taken, NEW twice,
         Proper(new, released, taken, twice),
         Update(new, released, taken, twice),
         NEW p \in Page, Accounted(p),
         p \notin twice,
         \A x \in DOMAIN new : ptr[x] = p => x \in released,
         p \in taken => \E x \in DOMAIN new : new[x] = p
  PROVE  Accounted(p)'
<1> DEFINE R    == Refs(p)
           come == {x \in DOMAIN new : new[x] = p}
           lost == {x \in released : ptr[x] = p}
           c == Cardinality(come)
           l == Cardinality(lost)
<1>1. /\ R \in SUBSET Pointer /\ come \in SUBSET Pointer
      /\ lost \in SUBSET R
  BY DEF Refs, Proper
<1>2. Refs(p)' = (R \ lost) \cup come /\ (R \ lost) \cap come = {}
  BY DEF Refs, Update, Proper
<1>3. /\ IsFiniteSet(R) /\ IsFiniteSet(come) /\ IsFiniteSet(lost)
      /\ Cardinality(R) \in Nat /\ c \in Nat /\ l \in Nat /\ l <= Cardinality(R)
  BY <1>1, PointerSets
<1>4. Cardinality(Refs(p)') = Cardinality(R) - l + c
  <2>1. IsFiniteSet(R \ lost) /\ Cardinality(R \ lost) = Cardinality(R) - l
    <3>1. R \cap lost = lost
      BY <1>1
    <3> QED
      BY <3>1, <1>3, FS_Difference
  <2>2. Cardinality((R \ lost) \cap come) = 0
    BY <1>2, FS_EmptySet
  <2>3. Cardinality((R \ lost) \cup come)
          = Cardinality(R \ lost) + c - Cardinality((R \ lost) \cap come)
    BY <1>3, <2>1, FS_Union
  <2>4. Cardinality(Refs(p)') = Cardinality((R \ lost) \cup come)
    BY <1>2
  <2> HIDE DEF R, lost, come, c, l
  <2> QED
    BY <1>3, <2>1, <2>2, <2>3, <2>4
<1>5. Gain(p, new, twice) = c /\ Loss(p, released) = l
  BY <1>3 DEF Gain, Loss
<1>6. pp_ref'[p] = pp_ref[p] + c - l
  BY <1>5, UpdateCount
<1>7. pp_ref[p] = Cardinality(R) /\ (pp_ref[p] = 0 <=> p \in free)
  BY DEF Accounted
<1>8. pp_ref'[p] = Cardinality(Refs(p)')
  BY <1>3, <1>4, <1>6, <1>7
<1>9. c = 0 <=> come = {}
  BY <1>3, FS_EmptySet
<1>10. l = 0 <=> lost = {}
  BY <1>3, FS_EmptySet
<1>11. p \in free' <=> (p \in free /\ p \notin taken) \/ (0 < pp_ref[p] /\ pp_ref[p] <= l)
  BY <1>5 DEF Update, Freed
<1>12. lost # {} => come = {}
  <2>1. p # NULL
    BY DEF MemInv
  <2> QED
    BY <2>1 DEF Proper
<1>13. p \in taken => come # {} /\ p \in free
  BY DEF Proper
<1>14. p \in free /\ p \notin taken => come = {}
  <2>1. p \in free => Refs(p) = {}
    BY FreeHasNoRefs DEF Refs
  <2> QED
    BY <2>1 DEF Proper
<1> HIDE DEF c, l, come, lost, R
<1>15. pp_ref'[p] = 0 <=> p \in free'
  BY <1>3, <1>6, <1>7, <1>9, <1>10, <1>11, <1>12, <1>13, <1>14
<1> QED
  BY <1>8, <1>15 DEF Accounted

\* Nothing happens to a page when memory is left alone.
LEMMA StutterAccounts ==
  ASSUME UNCHANGED <<free, pp_ref, ptr>>, NEW p \in Page, Accounted(p)
  PROVE  Accounted(p)'
  BY DEF Accounted, Refs

\* page_insert loses a page only if its caller took it, and either counted it
\* as well or left none for the table.
LEMMA PageInsertAccounts ==
  ASSUME CapRefs, MemInv, TreeInv,
         NEW e \in Live, NEW va \in Va, NEW q \in Page,
         NEW taken \in SUBSET free, NEW twice \in SUBSET taken,
         (q \in free /\ taken = {q}) \/ (q \notin free /\ Refs(q) # {} /\ taken = {}),
         PageInsert(e, q, va, taken, twice),
         NEW p \in Page, Accounted(p),
         p \in taken => p \notin twice /\ free # {p}
  PROVE  Accounted(p)'
<1> DEFINE x == <<e, pte(va)>>
           d == <<e, pde(PDX(va))>>
<1>0. /\ x \in Pointer /\ d \in Pointer /\ x # d /\ e \in Env
      /\ ptr[x] # NULL => ptr[d] # NULL
  BY Slots DEF Pointer, TreeInv, Walkable, At, Live
<1>1. CASE UNCHANGED <<free, pp_ref, ptr>>
  BY <1>1, StutterAccounts
<1>2. CASE ptr[x] # q /\ Update([y \in {x} |-> q], {x}, taken, twice)
  <2> DEFINE new == [y \in {x} |-> q]
  <2>1. Proper(new, {x}, taken, twice)
    BY <1>0, <1>2 DEF Proper
  <2>2. p \in taken => \E y \in DOMAIN new : new[y] = p
    OBVIOUS
  <2>3. \A y \in DOMAIN new : ptr[y] = p => y \in {x}
    OBVIOUS
  <2> HIDE DEF new
  <2> QED
    BY <1>2, <2>1, <2>2, <2>3, UpdateAccounts DEF new
<1>3. ASSUME ptr[d] = NULL, NEW t \in free \ taken,
             Update([y \in {x, d} |-> IF y = x THEN q ELSE t], {}, taken \cup {t}, twice)
      PROVE  Accounted(p)'
  <2> DEFINE new == [y \in {x, d} |-> IF y = x THEN q ELSE t]
  <2>1. Proper(new, {}, taken \cup {t}, twice)
    BY <1>0, <1>3 DEF Proper, MemInv
  <2>2. p \in taken \cup {t} => \E y \in DOMAIN new : new[y] = p
    BY <1>0
  <2>3. p \notin twice /\ \A y \in DOMAIN new : ptr[y] # p
    BY <1>0, <1>3 DEF MemInv
  <2>4. Update(new, {}, taken \cup {t}, twice)
    BY <1>3
  <2> HIDE DEF new
  <2> QED
    BY <2>1, <2>2, <2>3, <2>4, UpdateAccounts
<1>4. CASE free \ taken = {} /\ Update([y \in {} |-> NULL], {}, taken, twice)
  <2> DEFINE new == [y \in {} |-> NULL]
  <2>1. Proper(new, {}, taken, twice) /\ DOMAIN new = {}
    BY DEF Proper
  <2>2. p \notin taken
    BY <1>4
  <2> HIDE DEF new
  <2> QED
    BY <1>4, <2>1, <2>2, UpdateAccounts DEF new
<1> QED
  BY <1>1, <1>2, <1>3, <1>4 DEF PageInsert

\* sys_mem_alloc leaks only its page, the last one.
LEMMA SysMemAllocAccounts ==
  ASSUME CapRefs, MemInv, TreeInv, NEW e \in Env, NEW va \in Va, SysMemAlloc(e, va),
         NEW p \in Page, Accounted(p), free # {p}
  PROVE  Accounted(p)'
<1>1. e \in Live
  BY DEF SysMemAlloc
<1>2. PICK q \in free : PageInsert(e, q, va, {q}, {})
  BY DEF SysMemAlloc
<1>3. q \in Page /\ {q} \in SUBSET free /\ {} \in SUBSET {q}
  BY DEF MemInv
<1>4. \A t \in SUBSET {q} :
        PageInsert(e, q, va, {q}, t) /\ (p \in {q} => p \notin t /\ free # {p})
          => Accounted(p)'
  BY <1>1, <1>3, PageInsertAccounts
<1>5. p \in {q} => p \notin {} /\ free # {p}
  OBVIOUS
<1> QED
  BY <1>2, <1>3, <1>4, <1>5

\* sys_mem_map leaks nothing.
LEMMA SysMemMapAccounts ==
  ASSUME CapRefs, MemInv, TreeInv,
         NEW src \in Env, NEW srcva \in Va, NEW dst \in Env, NEW dstva \in Va,
         SysMemMap(src, srcva, dst, dstva),
         NEW p \in Page, Accounted(p)
  PROVE  Accounted(p)'
<1>1. <<src, pte(srcva)>> \in Pointer
  BY Slots DEF Pointer
<1> DEFINE q == At(src, pte(srcva))
<1>2. q \in Page \ free /\ Refs(q) # {}
  BY <1>1, FreeHasNoRefs DEF SysMemMap, At, MemInv, Refs
<1>3. dst \in Live /\ PageInsert(dst, q, dstva, {}, {})
  BY DEF SysMemMap
<1> HIDE DEF q
<1>4. q \in Page /\ q \notin free /\ Refs(q) # {} /\ p \notin {}
  BY <1>2
<1>5. {} \in SUBSET free /\ {} \in SUBSET {}
  OBVIOUS
<1> QED
  BY <1>3, <1>4, <1>5, PageInsertAccounts

\* pageout leaks only the page it maps, not the table it makes.
LEMMA PageoutAccounts ==
  ASSUME CapRefs, MemInv, TreeInv, NEW e \in Env, NEW va \in Va, Pageout(e, va),
         NEW p \in Page, Accounted(p), ~ Accounted(p)'
  PROVE  p \in free /\ At(e, pde(PDX(va)))' # p
<1> DEFINE x == <<e, pte(va)>>
           d == <<e, pde(PDX(va))>>
<1>1. ~ UNCHANGED <<free, pp_ref, ptr>>
  BY StutterAccounts
<1>2. e \in Live /\ \E q \in free : PageInsert(e, q, va, {q}, {q})
  BY <1>1 DEF Pageout
<1>3. PICK q \in free : PageInsert(e, q, va, {q}, {q})
  BY <1>2
<1>4. q \in Page
  BY DEF MemInv
<1>5. p = q
  <2> SUFFICES ASSUME p # q PROVE FALSE
    OBVIOUS
  <2>1. p \notin {q} /\ {q} \in SUBSET free /\ {q} \in SUBSET {q}
    OBVIOUS
  <2> QED
    BY <1>2, <1>3, <1>4, <2>1, PageInsertAccounts
<1>6. /\ x \in Pointer /\ d \in Pointer /\ x # d
      /\ ptr[d] # q /\ q # NULL
  BY <1>4, Slots, FreeHasNoRefs DEF Pointer, MemInv
<1>7. ptr'[d] # q
  <2>1. CASE Update([y \in {x} |-> q], {x}, {q}, {q})
    BY <1>6, <2>1 DEF Update
  <2>2. ASSUME NEW t \in free \ {q},
               Update([y \in {x, d} |-> IF y = x THEN q ELSE t], {}, {q} \cup {t}, {q})
        PROVE  ptr'[d] # q
    <3>1. ptr'[d] = t
      BY <1>6, <2>2 DEF Update
    <3> QED
      BY <3>1
  <2>3. CASE Update([y \in {} |-> NULL], {}, {q}, {q})
    BY <1>6, <2>3 DEF Update
  <2> QED
    BY <1>1, <1>3, <2>1, <2>2, <2>3 DEF PageInsert
<1> QED
  BY <1>5, <1>7 DEF At

\* sys_mem_unmap leaks nothing.
LEMMA SysMemUnmapAccounts ==
  ASSUME CapRefs, MemInv, NEW e \in Env, NEW va \in Va, SysMemUnmap(e, va),
         NEW p \in Page, Accounted(p)
  PROVE  Accounted(p)'
<1> DEFINE x == <<e, pte(va)>>
           new == [y \in {x} |-> NULL]
<1>1. Update(new, {x}, {}, {})
  BY DEF SysMemUnmap
<1>2. Proper(new, {x}, {}, {}) /\ DOMAIN new = {x}
  BY Slots DEF Proper, MemInv, Pointer
<1> HIDE DEF new
<1> QED
  BY <1>1, <1>2, UpdateAccounts

\* An environment without a directory has no table and no mapping.
LEMMA NotLive ==
  ASSUME TreeInv, NEW e \in Env \ Live, NEW s \in Slot
  PROVE  ptr[<<e, s>>] = NULL
<1>1. ptr[<<e, pgdir>>] = NULL
  BY DEF Live, At
<1>2. \A x \in Pdx : ptr[<<e, pde(x)>>] = NULL
  BY <1>1 DEF TreeInv, Walkable, At
<1>3. \A va \in Va : ptr[<<e, pte(va)>>] = NULL
  BY <1>2, Slots DEF TreeInv, Walkable, At
<1> QED
  BY <1>1, <1>2, <1>3 DEF Slot

\* env_create_priority leaks only pages of the image.
LEMMA EnvCreateAccounts ==
  ASSUME CapRefs, MemInv, TreeInv, NEW e \in Env, EnvCreate(e),
         NEW p \in Page, Accounted(p), ~ Accounted(p)'
  PROVE  \E va \in Text : At(e, pte(va))' = p
<1> DEFINE slots == {pgdir} \cup {pte(va) : va \in Text \cup {Stack}}
                            \cup {pde(PDX(va)) : va \in Text \cup {Stack}}
<1>1. PICK f \in Injections(slots, free) :
        Update([x \in {e} \X slots |-> f[x[2]]], {},
               {f[s] : s \in slots}, {f[pte(va)] : va \in Text})
  BY DEF EnvCreate
<1> DEFINE new == [x \in {e} \X slots |-> f[x[2]]]
           twice == {f[pte(va)] : va \in Text}
           taken == {f[s] : s \in slots}
<1>2. slots \subseteq Slot /\ \A va \in Text : pte(va) \in slots
  BY Slots DEF UserVa
<1>3. f \in [slots -> free]
  BY DEF Injections
<1>4. twice \subseteq taken
  OBVIOUS
<1>5. \A va \in Text : At(e, pte(va))' = f[pte(va)]
  <2> SUFFICES ASSUME NEW va \in Text
               PROVE  ptr'[<<e, pte(va)>>] = f[pte(va)]
    BY DEF At
  <2> HIDE DEF slots
  <2>1. <<e, pte(va)>> \in Pointer /\ <<e, pte(va)>> \in {e} \X slots
    BY <1>2 DEF Pointer
  <2> QED
    BY <1>1, <2>1 DEF Update
<1>6. p \in twice => \E va \in Text : At(e, pte(va))' = p
  BY <1>5
<1> HIDE DEF slots
<1>7. /\ DOMAIN new \subseteq Pointer
      /\ \A x \in DOMAIN new : new[x] = f[x[2]] /\ new[x] \in free /\ ptr[x] = NULL
  <2>1. e \in Env \ Live
    BY DEF EnvCreate
  <2> QED
    BY <1>2, <1>3, <2>1, NotLive DEF Pointer
<1>8. taken \subseteq free
  BY <1>3
<1>9. Proper(new, {}, taken, twice)
  BY <1>4, <1>7, <1>8 DEF Proper, MemInv
<1>10. p \in taken => \E x \in DOMAIN new : new[x] = p
  <2> SUFFICES ASSUME NEW s \in slots, p = f[s]
               PROVE  \E x \in DOMAIN new : new[x] = p
    OBVIOUS
  <2>1. <<e, s>> \in DOMAIN new /\ new[<<e, s>>] = p
    OBVIOUS
  <2> QED
    BY <2>1
<1>11. \A x \in DOMAIN new : ptr[x] # p
  BY <1>7 DEF MemInv
<1>12. p \in twice
  <2> SUFFICES ASSUME p \notin twice PROVE FALSE
    OBVIOUS
  <2> HIDE DEF new, taken, twice
  <2> QED
    BY <1>1, <1>9, <1>10, <1>11, UpdateAccounts DEF new, taken, twice
<1> QED
  BY <1>6, <1>12

\* sys_env_alloc leaks nothing, even cut short: every page it took is the
\* child's directory or one of its tables.
LEMMA SysEnvAllocAccounts ==
  ASSUME CapRefs, MemInv, TreeInv, NEW e \in Env, NEW c \in Env, SysEnvAlloc(e, c),
         NEW p \in Page, Accounted(p)
  PROVE  Accounted(p)'
<1> DEFINE mapped == {va \in Va : At(e, pte(va)) # NULL}
           needed == {PDX(va) : va \in mapped}
<1>1. CASE UNCHANGED <<free, pp_ref, ptr>>
  BY <1>1, StutterAccounts
<1>2. CASE ~ UNCHANGED <<free, pp_ref, ptr>>
  <2>1. PICK served \in SUBSET needed :
          \E f \in Injections({pgdir} \cup {pde(x) : x \in served}, free) :
            Update([x \in {c} \X (({pgdir} \cup {pde(y) : y \in served})
                                  \cup {pte(va) : va \in {w \in mapped : PDX(w) \in served}}) |->
                      IF x[2] \in {pgdir} \cup {pde(y) : y \in served}
                      THEN f[x[2]] ELSE At(e, x[2])],
                   {}, {f[s] : s \in {pgdir} \cup {pde(x) : x \in served}}, {})
    BY <1>2 DEF SysEnvAlloc
  <2> DEFINE own   == {pgdir} \cup {pde(x) : x \in served}
             share == {pte(va) : va \in {w \in mapped : PDX(w) \in served}}
  <2>2. PICK f \in Injections(own, free) :
          Update([x \in {c} \X (own \cup share) |->
                    IF x[2] \in own THEN f[x[2]] ELSE At(e, x[2])],
                 {}, {f[s] : s \in own}, {})
    BY <2>1
  <2> DEFINE new == [x \in {c} \X (own \cup share) |->
                       IF x[2] \in own THEN f[x[2]] ELSE At(e, x[2])]
             taken == {f[s] : s \in own}
  <2>3. own \subseteq Slot /\ share \subseteq Slot
    <3>1. needed \subseteq Pdx
      BY Slots
    <3> QED
      BY <3>1, Slots
  <2>4. f \in [own -> free]
    BY DEF Injections
  <2> HIDE DEF own, share
  <2>5. taken \subseteq free
    BY <2>4
  <2>6. \A s \in Slot : /\ At(e, s) \in Page \cup {NULL} /\ At(e, s) \notin free
                        /\ Refs(At(e, s)) # {}
    BY FreeHasNoRefs DEF MemInv, Pointer, At, Refs
  <2>7. /\ DOMAIN new \subseteq Pointer
        /\ \A x \in DOMAIN new : ptr[x] = NULL
    <3>1. c \in Env \ Live
      BY <1>2 DEF SysEnvAlloc
    <3> QED
      BY <2>3, <3>1, NotLive DEF Pointer
  <2>8. Proper(new, {}, taken, {})
    <3>1. \A x \in DOMAIN new : \/ x[2] \in own /\ new[x] = f[x[2]]
                                \/ x[2] \in Slot /\ new[x] = At(e, x[2])
      BY <2>3
    <3>2. \A x \in DOMAIN new :
            /\ new[x] \in Page \cup {NULL}
            /\ new[x] # NULL => new[x] \in taken \/ (new[x] \notin free /\ Refs(new[x]) # {})
      BY <3>1, <2>4, <2>6 DEF MemInv
    <3> QED
      BY <2>7, <3>2, <2>5 DEF Proper
  <2>9. p \in taken => \E x \in DOMAIN new : new[x] = p
    <3> SUFFICES ASSUME NEW s \in own, p = f[s]
                 PROVE  \E x \in DOMAIN new : new[x] = p
      OBVIOUS
    <3>1. <<c, s>> \in DOMAIN new /\ new[<<c, s>>] = p
      OBVIOUS
    <3> QED
      BY <3>1
  <2>10. p \notin {} /\ \A x \in DOMAIN new : ptr[x] # p
    BY <2>7 DEF MemInv
  <2>11. Update(new, {}, taken, {})
    BY <2>2
  <2> HIDE DEF new, taken
  <2> QED
    BY <2>8, <2>9, <2>10, <2>11, UpdateAccounts
<1> QED
  BY <1>1, <1>2

\* env_free leaks only what lies above UTOP.
LEMMA EnvFreeAccounts ==
  ASSUME CapRefs, MemInv, NEW e \in Env, EnvFree(e),
         NEW p \in Page, Accounted(p), p \notin Upper(e)
  PROVE  Accounted(p)'
<1> DEFINE released == {e} \X ({pgdir} \cup {pte(va) : va \in UserVa}
                                        \cup {pde(PDX(va)) : va \in UserVa})
           new == [x \in {e} \X Slot |-> NULL]
<1>1. Update(new, released, {}, {})
  BY DEF EnvFree
<1>2. released \subseteq {e} \X Slot /\ {e} \X Slot \subseteq Pointer
  BY Slots DEF UserVa, Pointer
<1>3. \A s \in Slot : ptr[<<e, s>>] = p => <<e, s>> \in released
  <2> SUFFICES ASSUME NEW s \in Slot, ptr[<<e, s>>] = p, <<e, s>> \notin released
               PROVE  FALSE
    OBVIOUS
  <2>1. s # pgdir
    OBVIOUS
  <2>2. CASE \E x \in Pdx : s = pde(x)
    BY <2>2 DEF Upper, At
  <2>3. CASE \E va \in Va : s = pte(va)
    BY <2>3 DEF Upper, At
  <2> QED
    BY <2>1, <2>2, <2>3 DEF Slot
<1>4. DOMAIN new = {e} \X Slot
  OBVIOUS
<1> HIDE DEF released
<1>5. Proper(new, released, {}, {})
  BY <1>2 DEF Proper, MemInv
<1>6. \A x \in DOMAIN new : ptr[x] = p => x \in released
  BY <1>3, <1>4
<1> HIDE DEF new
<1> QED
  BY <1>1, <1>5, <1>6, UpdateAccounts

\* A step that is none of the four leaks keeps every page accounted for.
LEMMA NextAccounts ==
  ASSUME CapRefs, MemInv, TreeInv, [Next]_vars,
         NEW p \in Page, Accounted(p), ~ Accounted(p)'
  PROVE  Leak(p)
<1>1. CASE StartTimer
  BY <1>1, StutterAccounts DEF StartTimer
<1>2. ASSUME NEW e \in Env, EnvCreate(e) PROVE Leak(p)
  BY <1>2, EnvCreateAccounts DEF Leak
<1>3. ASSUME NEW e \in Env, EnvFree(e) PROVE Leak(p)
  BY <1>3, EnvFreeAccounts DEF Leak
<1>4. ASSUME NEW e \in Env, NEW c \in Env, SysEnvAlloc(e, c) PROVE Leak(p)
  BY <1>4, SysEnvAllocAccounts
<1>5. ASSUME NEW e \in Env, NEW va \in Va, SysMemAlloc(e, va) PROVE Leak(p)
  BY <1>5, SysMemAllocAccounts DEF Leak
<1>6. ASSUME NEW e \in Env, NEW va \in Va, SysMemUnmap(e, va) PROVE Leak(p)
  BY <1>6, SysMemUnmapAccounts
<1>7. ASSUME NEW e \in Env, NEW va \in Va, Pageout(e, va) PROVE Leak(p)
  BY <1>7, PageoutAccounts DEF Leak
<1>8. ASSUME NEW e \in Env, NEW d \in Env, NEW sva \in Va, NEW dva \in Va,
             SysMemMap(e, sva, d, dva)
      PROVE  Leak(p)
  BY <1>8, SysMemMapAccounts
<1>9. CASE UNCHANGED vars
  BY <1>9, StutterAccounts DEF vars
<1> QED
  BY <1>1, <1>2, <1>3, <1>4, <1>5, <1>6, <1>7, <1>8, <1>9 DEF Next

-----------------------------------------------------------------------------
(* The theorems                                                            *)

\* The invariant holds when the first environment is about to be created.
LEMMA InitInv == Init => IInv
<1> SUFFICES ASSUME Init PROVE IInv
  OBVIOUS
<1>1. TypeOK /\ FreeUncounted
  BY DEF Init, TypeOK, FreeUncounted
<1>2. \A p \in Page : Refs(p) = {}
  BY DEF Init, Refs
<1>3. RefCovers
  BY <1>2, FS_EmptySet DEF Init, RefCovers
<1> QED
  BY <1>1, <1>3 DEF IInv

\* Every kernel entry keeps it.
LEMMA NextInv == ASSUME CapRefs PROVE IInv /\ [Next]_vars => IInv'
<1> SUFFICES ASSUME IInv, [Next]_vars PROVE IInv'
  OBVIOUS
<1>1. MemInv
  BY DEF IInv, TypeOK, MemInv
<1>2. MemInv'
  BY <1>1, NextMemStep, MemStepInv
<1>3. mode' \in {"boot", "run", "panic"}
  <2>1. mode \in {"boot", "run", "panic"}
    BY DEF IInv, TypeOK
  <2>2. CASE StartTimer
    BY <2>2 DEF StartTimer
  <2>3. CASE \E e \in Env : EnvCreate(e) \/ EnvFree(e) \/ \E x \in Env : SysEnvAlloc(e, x)
    BY <2>1, <2>3 DEF EnvCreate, EnvFree, SysEnvAlloc
  <2>4. CASE \E e \in Env, va \in Va : SysMemAlloc(e, va) \/ SysMemUnmap(e, va) \/ Pageout(e, va)
    BY <2>1, <2>4 DEF SysMemAlloc, SysMemUnmap, Pageout
  <2>5. CASE \E e, dst \in Env, va, dstva \in Va : SysMemMap(e, va, dst, dstva)
    BY <2>1, <2>5 DEF SysMemMap
  <2>6. CASE UNCHANGED vars
    BY <2>1, <2>6 DEF vars
  <2> QED
    BY <2>2, <2>3, <2>4, <2>5, <2>6 DEF Next
<1> QED
  BY <1>2, <1>3 DEF IInv, TypeOK, MemInv

\* For any number of pages, environments and addresses, as long as no pp_ref
\* overflows: types, and counts that cover the pointers (page_insert,
\* page_remove, page_decref, env_free, pageout).
THEOREM Invariant == ASSUME CapRefs PROVE Spec => []IInv
<1>1. Init => IInv
  BY InitInv
<1>2. IInv /\ [Next]_vars => IInv'
  BY NextInv
<1> QED
  BY <1>1, <1>2, PTL DEF Spec

\* Type correctness of the page tables, counts and free list.
THEOREM TypeCorrect == ASSUME CapRefs PROVE Spec => []TypeOK
<1>1. IInv => TypeOK
  BY DEF IInv
<1> QED
  BY <1>1, Invariant, PTL

\* pp_ref never falls below the number of pointers to a page.
THEOREM CountsCover == ASSUME CapRefs PROVE Spec => []RefCovers
<1>1. IInv => RefCovers
  BY DEF IInv
<1> QED
  BY <1>1, Invariant, PTL

\* page_alloc never hands out a page that somebody can still reach.
THEOREM NoUseAfterFree == ASSUME CapRefs PROVE Spec => []FreeUnreferenced
<1>1. IInv => FreeUnreferenced
  BY FreeHasNoRefs DEF IInv, TypeOK, MemInv, FreeUnreferenced
<1> QED
  BY <1>1, Invariant, PTL

\* Address spaces stay apart and whole in every state.
LEMMA TreeInvariant == ASSUME CapRefs PROVE Spec => []TreeInv
<1>1. Init => TreeInv
  <2>1. \A e \in Env, s \in Slot : <<e, s>> \in Pointer
    BY DEF Pointer
  <2>2. Init => \A x \in Pointer : ptr[x] = NULL
    BY DEF Init
  <2> QED
    BY <2>1, <2>2, Slots DEF TreeInv, TablesExclusive, Walkable, At
<1>2. IInv /\ TreeInv /\ [Next]_vars => TreeInv'
  BY NextTreeStep, TreeStepInv DEF IInv, TypeOK, MemInv
<1> QED
  BY <1>1, <1>2, Invariant, PTL DEF Spec

\* No directory and no page table is mapped by anybody or shared: in whatever
\* order page_insert, sys_env_alloc and env_free run, a table has one user.
THEOREM TablesApart == ASSUME CapRefs PROVE Spec => []TablesExclusive
BY TreeInvariant, PTL DEF TreeInv

\* Memory leaks in the image loader, pageout, sys_mem_alloc and env_free as
\* NothingElseLeaks says, and nowhere else: page_insert, page_remove, fork and
\* destroy account for every other page in whatever order they run.
THEOREM LeaksNowhereElse == ASSUME CapRefs PROVE Spec => NothingElseLeaks
<1>1. IInv /\ TreeInv /\ [Next]_vars
        => [\A p \in Page : Accounted(p) /\ ~Accounted(p)' => Leak(p)]_vars
  BY NextAccounts DEF IInv, TypeOK, MemInv
<1> QED
  BY <1>1, Invariant, TreeInvariant, PTL DEF Spec, NothingElseLeaks

\* The kernel implements the abstract allocator.
THEOREM Refinement == ASSUME CapRefs PROVE Spec => ImplementsPageStore
<1>1. Init => Store!Init
  BY DEF Init, Store!Init, Refs
<1>2. IInv /\ [Next]_vars
        => [Store!Step]_<<free, [p \in Page |-> Refs(p)]>>
  <2> SUFFICES ASSUME IInv, [Next]_vars
               PROVE  [Store!Step]_<<free, [p \in Page |-> Refs(p)]>>
    OBVIOUS
  <2>1. MemInv
    BY DEF IInv, TypeOK, MemInv
  <2> QED
    BY <2>1, NextMemStep, MemStepStore
<1> QED
  BY <1>1, <1>2, Invariant, PTL DEF Spec, ImplementsPageStore, Store!Spec
=============================================================================
