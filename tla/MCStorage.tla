----------------------------- MODULE MCStorage ------------------------------
(* Storage for TLC: the programs on the disk, in order. *)
EXTENDS Storage

MCPrograms == <<"sh", "ls">>
=============================================================================
