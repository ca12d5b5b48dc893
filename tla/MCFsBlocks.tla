----------------------------- MODULE MCFsBlocks -----------------------------
(* FsBlocks on a small disk: the reserved blocks, one block of the root     *)
(* directory, two files, one of them with an indirect block, and free ones. *)
EXTENDS FsBlocks, TLC

CONSTANTS root, motd, big

MCFile   == {motd, big}
MCSource == <<[file |-> motd, dir |-> root, size |-> 1],
              [file |-> big,  dir |-> root, size |-> 3]>>
=============================================================================
