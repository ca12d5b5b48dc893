----------------------------- MODULE MCEnvSched -----------------------------
(* EnvSched on a small instance: the boot environments and their priorities.*)
EXTENDS EnvSched, TLC

MCBoot == <<2, 1>>
=============================================================================
