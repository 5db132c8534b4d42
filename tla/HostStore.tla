------------------------------- MODULE HostStore -------------------------------
(***************************************************************************)
(* What persist.Store promises of one machine to commands that run one     *)
(* after another: a cell that Save overwrites and Remove clears.           *)
(* Filestore implements it with files.                                     *)
(***************************************************************************)
CONSTANT Configs     \* complete configs

VARIABLES host,      \* "none", "unreadable" or a config
          removing,  \* a removal is under way
          atomic     \* commands run one after another to their end; if not,
                     \* nothing is promised

vars == <<host, removing, atomic>>

Init == host \in {"none"} \union Configs /\ removing = FALSE /\ atomic \in BOOLEAN

\* The machine's directory is made, its config is not there yet.
Reserve == host = "none" /\ host' = "unreadable" /\ UNCHANGED removing

Put == ~removing /\ host # "none" /\ host' \in Configs /\ UNCHANGED removing

BeginRemove == ~removing /\ removing' = TRUE /\ UNCHANGED host

RemoveConfig == removing /\ host # "none" /\ host' = "unreadable" /\ UNCHANGED removing

EndRemove == removing /\ host' = "none" /\ removing' = FALSE

Next ==
  /\ UNCHANGED atomic
  /\ atomic => Reserve \/ Put \/ BeginRemove \/ RemoveConfig \/ EndRemove

Spec == Init /\ [][Next]_vars
=============================================================================
