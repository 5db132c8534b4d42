------------------------------- MODULE MCISOCache -------------------------------
(***************************************************************************)
(* ISOCache with runs that may change places.                               *)
(***************************************************************************)
EXTENDS ISOCache, TLC

Swap == Permutations(Procs)
=================================================================================
