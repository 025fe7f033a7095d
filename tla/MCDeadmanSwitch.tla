--------------------------- MODULE MCDeadmanSwitch ---------------------------
(***************************************************************************)
(* Four configurations that Configure accepts.  The first warns three      *)
(* periods and more ahead of the deadline, the second half a period; the   *)
(* third warns from the start (warning > interval); the last has no        *)
(* interval at all, so that the ticks a failed wipe left behind lead it    *)
(* through every stage at once.                                            *)
(***************************************************************************)
EXTENDS DeadmanSwitch

CONSTANTS keys1, keys2, tok1, tok2

EnvCfg == [interval |-> 9, warning |-> 7, token |-> tok1, path |-> keys1]
LateCfg == [interval |-> 3, warning |-> 1, token |-> tok1, path |-> keys2]
LongCfg == [interval |-> 4, warning |-> 6, token |-> tok2, path |-> keys2]
NilCfg == [interval |-> 0, warning |-> 0, token |-> tok2, path |-> keys1]
MCConfigs == {EnvCfg, LateCfg, LongCfg, NilCfg}
=============================================================================
