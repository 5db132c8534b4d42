----------------------------- MODULE MCListHosts ------------------------------
(* Hosts and the order of their names for the run of ListHosts. *)
EXTENDS ListHosts, TLC

CONSTANTS h1, h2, h3

InOrder == (h1 :> 3) @@ (h2 :> 1) @@ (h3 :> 2)
=============================================================================
