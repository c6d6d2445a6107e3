------------------------------ MODULE MCStartup ------------------------------
(***************************************************************************)
(* Three instances, two migrations: one may be applied and the next not.   *)
(***************************************************************************)
EXTENDS Startup, TLC

Symmetric == Permutations(Instance)
=============================================================================
