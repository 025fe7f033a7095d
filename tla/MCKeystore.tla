----------------------------- MODULE MCKeystore -----------------------------
(* Three ids in two files, all with an extension. *)
EXTENDS PqcKeystore, TLC

CONSTANTS a, b, c, f1, f2

\* The ids b and c differ only in a character that no file name keeps.
MCFileOf == a :> f1 @@ b :> f2 @@ c :> f2
=============================================================================
