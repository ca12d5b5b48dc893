------------------------------ MODULE PageStore ------------------------------
(***************************************************************************)
(* What the page allocator promises to its callers, without reference      *)
(* counts: which pages may be handed out, and who refers to each page.     *)
(***************************************************************************)
CONSTANTS Page, Pointer

VARIABLES
    avail,  \* the pages page_alloc may hand out
    users   \* for each page, the pointers to it

Init ==
    /\ avail = Page
    /\ users = [p \in Page |-> {}]

\* One kernel entry: some pages are handed out, some pointers move, some
\* pages come back.
\*  - a page that gets a pointer is handed out in the same step or has one
\*    already: a page that was lost stays lost;
\*  - a page comes back only in the step that drops its last pointer.
Step ==
    /\ avail' \subseteq Page
    /\ users' \in [Page -> SUBSET Pointer]
    /\ \A p \in Page : users'[p] # {} => p \notin avail'
    /\ \A p \in Page : users'[p] # {} /\ users[p] = {} => p \in avail
    /\ \A p \in avail' \ avail : users[p] # {}

Spec == Init /\ [][Step]_<<avail, users>>
=============================================================================
