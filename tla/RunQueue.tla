------------------------------ MODULE RunQueue ------------------------------
(***************************************************************************)
(* What the scheduler promises: the CPU runs a ready process whenever there*)
(* is one, and no process that stays ready waits for ever.                 *)
(***************************************************************************)
CONSTANTS Env, Nobody

VARIABLES
    ready,    \* the processes that can run
    running   \* the process the CPU runs, or Nobody

Init == ready = {} /\ running = Nobody

\* One process becomes ready or stops being so; the CPU stays or switches to
\* a ready one.  It is left idle only when nothing is ready, or before the
\* timer has ticked for the first time.
Step ==
    /\ \E e \in Env : ready' \in {ready, ready \cup {e}, ready \ {e}}
    /\ \/ running' \in ready'
       \/ running' = Nobody /\ (running = Nobody \/ ready' = {})

Fair == \A e \in Env : []<>(running = e \/ e \notin ready)

Spec == Init /\ [][Step]_<<ready, running>> /\ Fair
=============================================================================
