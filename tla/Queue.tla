-------------------------------- MODULE Queue --------------------------------
(***************************************************************************)
(* The doubly linked lists of include/queue.h, pointer by pointer.  A list *)
(* is a record: first is lh_first, next[e] is e's le_next and prev[e] its  *)
(* le_prev, the address of the pointer that points to e: HEAD for lh_first,*)
(* d for the le_next of element d.                                         *)
(***************************************************************************)
EXTENDS Naturals, Sequences

CONSTANTS
    Elem,  \* the structures that carry the LIST_ENTRY
    NULL,  \* the null pointer, for a structure and for a le_prev
    HEAD   \* the address of lh_first

\* LIST_INIT over structures that alloc has cleared.
ListInit == [first |-> NULL, next |-> [e \in Elem |-> NULL], prev |-> [e \in Elem |-> NULL]]

\* *addr = val, where addr is the value of a le_prev other than NULL.
Store(L, addr, val) ==
    IF addr = HEAD THEN [L EXCEPT !.first = val] ELSE [L EXCEPT !.next[addr] = val]

\* LIST_INSERT_HEAD
InsertHead(L, e) ==
    LET second == L.first
    IN  [first |-> e,
         next  |-> [L.next EXCEPT ![e] = second],
         prev  |-> [x \in Elem |-> IF x = e THEN HEAD
                                   ELSE IF x = second THEN e ELSE L.prev[x]]]

\* LIST_REMOVE, which leaves the pointers of e itself as they are.  Its store
\* through a NULL le_prev faults: RemoveFaults is the case it has no result.
RemoveFaults(L, e) == L.prev[e] = NULL

\* Mutant: the back pointer of the next element is not corrected.
Remove_StaleBack(L, e) == Store(L, L.prev[e], L.next[e])

Remove(L, e) ==
    LET after == L.next[e]
        fixed == IF after = NULL THEN L ELSE [L EXCEPT !.prev[after] = L.prev[e]]
    IN  Store(fixed, L.prev[e], after)

\* s is the sequence of elements that LIST_FOREACH visits, and every back
\* pointer on the way is right.
Represents(L, s) ==
    /\ \A i, j \in DOMAIN s : s[i] = s[j] => i = j
    /\ L.first = IF s = <<>> THEN NULL ELSE s[1]
    /\ \A i \in DOMAIN s :
         /\ L.next[s[i]] = IF i = Len(s) THEN NULL ELSE s[i + 1]
         /\ L.prev[s[i]] = IF i = 1 THEN HEAD ELSE s[i - 1]
=============================================================================
