------------------------------ MODULE MCFsServ ------------------------------
(* FsServ with two clients and two files.                                   *)
EXTENDS FsServ, TLC

CONSTANTS ca, cb, f1, f2

MCClient == {ca, cb}
MCFile   == {f1, f2}
MCSmall  == (f1 :> 1) @@ (f2 :> 0)
MCLarge  == (f1 :> 1) @@ (f2 :> 2)

\* One client shares descriptors and exits, another one opens and closes.
MCShare  == (ca :> {"open", "close", "dup", "exit"}) @@ (cb :> {"open", "close"})
\* One client changes sizes while another one removes files.
MCResize == (ca :> {"open", "close", "ftruncate"}) @@ (cb :> {"sync", "remove"})
\* A program opens a file that may have been removed.
MCRemove == (ca :> {"open", "close"}) @@ (cb :> {"remove"})
=============================================================================
