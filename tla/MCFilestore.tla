----------------------------- MODULE MCFilestore ------------------------------
(* The settings for the run of Filestore: one command after another with deaths *)
(* and failing writes, the same without deaths, two processes at once with      *)
(* everything that can go wrong, and two processes at once undisturbed.         *)
EXTENDS Filestore

Case(exclusive, crashes, removes, faults, found) ==
  [exclusive |-> exclusive, crashes |-> crashes, removes |-> removes,
   faults |-> faults, found |-> found]

AllSettings ==
  {Case(TRUE, TRUE, TRUE, {"write"}, {"absent", "v0", "v3"}),
   Case(TRUE, FALSE, TRUE, {"write"}, {"absent", "v0", "v3"}),
   Case(FALSE, TRUE, TRUE, {"write", "rename"}, {"absent", "v0"}),
   Case(FALSE, FALSE, FALSE, {}, {"v0", "v3"})}
=============================================================================
