--------------------------- MODULE DeadmanPromise ---------------------------
(***************************************************************************)
(* What the dead-man switch promises its owner, without the daemon: data   *)
(* is erased only after the owner has been silent for the agreed limit.    *)
(* Renewing (a heartbeat, a new configuration, a daemon restart) starts    *)
(* the silence again.                                                      *)
(***************************************************************************)
EXTENDS Naturals

CONSTANTS
  Limits,      \* the intervals that can be agreed, in time units
  Erasable,    \* the paths a wipe may remove
  MaxSilence   \* longest silence that is told apart (no limit is longer)

VARIABLES
  silence,     \* time since the last renewal
  limit,       \* the agreed interval
  erased       \* paths removed so far

vars == <<silence, limit, erased>>

Init ==
  /\ silence = 0
  /\ limit \in Limits
  /\ erased = {}

Wait ==
  /\ silence' \in silence .. MaxSilence
  /\ UNCHANGED <<limit, erased>>

Renew ==
  /\ silence' = 0
  /\ limit' \in Limits
  /\ UNCHANGED erased

Erase ==
  /\ silence >= limit
  /\ erased' \in SUBSET Erasable
  /\ erased \subseteq erased'
  /\ UNCHANGED <<silence, limit>>

Next == Wait \/ Renew \/ Erase

Spec == Init /\ [][Next]_vars
=============================================================================
