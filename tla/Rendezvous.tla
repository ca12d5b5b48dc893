----------------------------- MODULE Rendezvous -----------------------------
(***************************************************************************)
(* What the two IPC calls and their library loops promise to programs: a   *)
(* receiver that waits is given one offer, whole and unchanged, from the   *)
(* environment that made it, and finds it when it runs again; nothing else *)
(* changes its inbox.  There is no queue: a sender keeps offering.         *)
(***************************************************************************)
CONSTANTS Env, Value, Page, None

VARIABLES
    phase,      \* of each receiver: "absent", "awake", "waiting" or "served"
    inbox,      \* what a receiver that is waiting or served would find: the
                \* value, who sent it, and the page it has asked to be replaced
    offer       \* what each sender offers, and to whom (None: somebody who is
                \* gone); or None

vars == <<phase, inbox, offer>>

Empty(p) == [value |-> None, from |-> None, page |-> p]

Init ==
    /\ phase \in [Env -> {"absent", "awake"}]
    /\ inbox = [e \in Env |-> Empty(None)]
    /\ offer = [e \in Env |-> None]

Turn(e, from, to) == phase[e] \in from /\ phase' = [phase EXCEPT ![e] = to]

Lost(s) == offer[s] # None /\ offer[s].to = None

\* Identifiers repeat: a sender who has not noticed that its receiver is gone
\* may find another one in its place.
Create(e) ==
    /\ Turn(e, {"absent"}, "awake")
    /\ \E S \in SUBSET {s \in Env : Lost(s)} :
           offer' = [s \in Env |-> IF s \in S THEN [offer[s] EXCEPT !.to = e] ELSE offer[s]]
    /\ UNCHANGED inbox

\* Who sends does not receive.
Wait(e) ==
    /\ offer[e] = None
    /\ Turn(e, {"awake"}, "waiting")
    /\ \E p \in Page \cup {None} : inbox' = [inbox EXCEPT ![e] = Empty(p)]
    /\ UNCHANGED offer

\* Who waits does not go away, and who goes leaves nothing behind.
Die(e) ==
    /\ Turn(e, {"awake", "served"}, "absent")
    /\ inbox' = [inbox EXCEPT ![e] = Empty(None)]
    /\ offer' = [s \in Env |->
           IF s = e \/ offer[s] = None THEN None
           ELSE IF offer[s].to = e THEN [offer[s] EXCEPT !.to = None] ELSE offer[s]]

Offer(s, t) ==
    /\ phase[s] = "awake" /\ offer[s] = None
    /\ t = None \/ phase[t] # "absent"
    /\ \E v \in Value, p \in Page \cup {None} :
           offer' = [offer EXCEPT ![s] = [to |-> t, value |-> v, page |-> p]]
    /\ UNCHANGED <<phase, inbox>>

\* The receiver is gone, or waits and the page cannot be mapped.
GiveUp(s) ==
    /\ offer[s] # None
    /\ Lost(s) \/ phase[offer[s].to] = "waiting"
    /\ offer' = [offer EXCEPT ![s] = None]
    /\ UNCHANGED <<phase, inbox>>

Deliver(s, t) ==
    /\ offer[s] # None /\ offer[s].to = t
    /\ Turn(t, {"waiting"}, "served")
    /\ inbox' = [inbox EXCEPT ![t] =
           [value |-> offer[s].value, from |-> s,
            page |-> IF offer[s].page = None THEN @.page ELSE offer[s].page]]
    /\ offer' = [offer EXCEPT ![s] = None]

Take(t) ==
    /\ Turn(t, {"served"}, "awake")
    /\ inbox' = [inbox EXCEPT ![t] = Empty(None)]
    /\ UNCHANGED offer

Next ==
    \E e \in Env :
        \/ Create(e) \/ Wait(e) \/ Die(e) \/ GiveUp(e) \/ Take(e)
        \/ \E t \in Env \cup {None} : Offer(e, t)
        \/ \E t \in Env : Deliver(e, t)

\* An offer to a receiver that goes on waiting is not made for ever, and a
\* receiver that was served runs again.
Spec ==
    /\ Init /\ [][Next]_vars
    /\ \A t \in Env : WF_vars(Take(t)) /\ \A s \in Env \ {t} : WF_vars(Deliver(s, t))
=============================================================================
