----------------------------- MODULE RemoteCall -----------------------------
(***************************************************************************)
(* What the file server promises its clients: calls are served one at a    *)
(* time, each exactly once and answered exactly once, and while somebody   *)
(* wants to be served somebody is.                                         *)
(***************************************************************************)
CONSTANT Client

VARIABLE phase  \* of each client's call

Init == phase = [c \in Client |-> "none"]

Turn(c, from, to) == phase[c] = from /\ phase' = [phase EXCEPT ![c] = to]

Try(c)    == Turn(c, "none", "trying")
Accept(c) == /\ \A d \in Client : phase[d] \in {"none", "trying"}
             /\ Turn(c, "trying", "accepted")
Handle(c) == Turn(c, "accepted", "handled")
Return(c) == Turn(c, "handled", "none")

Next == \E c \in Client : Try(c) \/ Accept(c) \/ Handle(c) \/ Return(c)

Fairness ==
    /\ WF_phase(\E c \in Client : Accept(c))
    /\ \A c \in Client : WF_phase(Handle(c)) /\ WF_phase(Return(c))

Spec == Init /\ [][Next]_phase /\ Fairness
=============================================================================
