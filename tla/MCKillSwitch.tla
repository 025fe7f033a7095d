----------------------------- MODULE MCKillSwitch -----------------------------
(***************************************************************************)
(* Small instances of the kill-switch: the constants are given in the      *)
(* configurations.  Connection tasks are interchangeable.                  *)
(***************************************************************************)
EXTENDS KillSwitch, TLC

ClientSymmetry == Permutations(Clients)
=============================================================================
