------------------------------- MODULE MCPipe -------------------------------
(* Pipe on a small instance; pages are interchangeable, and so are the     *)
(* environments but for the first one.                                     *)
EXTENDS Pipe, TLC

MCSymmetry == Permutations(Page)
=============================================================================
