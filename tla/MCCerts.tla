-------------------------------- MODULE MCCerts --------------------------------
(***************************************************************************)
(* Certs with commands that may change places.                              *)
(***************************************************************************)
EXTENDS Certs, TLC

Swap == Permutations(Procs)
================================================================================
