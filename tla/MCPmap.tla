------------------------------- MODULE MCPmap -------------------------------
(* Pmap on a small instance: pages and environments are interchangeable.   *)
EXTENDS Pmap, TLC

Symmetry == Permutations(Page) \cup Permutations(Env)
=============================================================================
