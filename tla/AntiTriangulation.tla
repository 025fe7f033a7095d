-------------------------- MODULE AntiTriangulation --------------------------
(***************************************************************************)
(* services/esim-manager-rs, triangulation.rs: the risk computed from the  *)
(* record of rotations.  The record is a sequence of prefixes with the     *)
(* time each was the last one, the final entry's running on.  Reasons and  *)
(* recommendations are texts and left out, and with them the note about    *)
(* short intervals, which never raises the level.                          *)
(***************************************************************************)
EXTENDS Naturals, Sequences, Functions

CONSTANTS
  StreakLimit,  \* two hours, in minutes
  SilenceLimit, \* twenty-four hours
  Prefixes,
  MaxHistory    \* bound on the record, which the code never cuts

VARIABLE rotation_history

\* The limits and the bound are numbers, and a day is longer than two hours.
ConstantsOK ==
  /\ StreakLimit \in Nat /\ SilenceLimit \in Nat /\ MaxHistory \in Nat
  /\ StreakLimit <= SilenceLimit

Low == 0
Medium == 1
High == 2
Critical == 3

Lasted(history) == [k \in DOMAIN history |-> history[k].lasted]

\* Faulty: only the prefix in use now is looked at.
StreakNow(history, i, j) ==
  j = Len(history) /\ \A k \in i .. j : history[k].prefix = history[j].prefix

\* Entries i to j are one prefix without interruption.
Streak(history, i, j) == \A k \in i .. j : history[k].prefix = history[j].prefix

\* longest_same_prefix_streak, against its threshold.
LongStreak(history) ==
  \E j \in DOMAIN history : \E i \in 1 .. j :
    /\ Streak(history, i, j)
    /\ SumFunctionOnSet(Lasted(history), i .. j) > StreakLimit

\* Coefficient of variation below 5 % over at least three intervals with a mean
\* of one minute or more, without the roots and quotients:
\* n * sum(x^2) - sum(x)^2 < sum(x)^2 / 400.
TooRegular(history) ==
  LET n == Len(history) - 1
      total == SumFunctionOnSet(Lasted(history), 1 .. n)
      squares == SumFunctionOnSet([k \in 1 .. n |-> history[k].lasted * history[k].lasted], 1 .. n)
  IN  n >= 3 /\ total >= n /\ 400 * (n * squares - total * total) < total * total

AssessRisk(history) ==
  IF history = <<>> \/ history[Len(history)].lasted > SilenceLimit THEN Critical
  ELSE IF LongStreak(history) THEN High
  ELSE IF TooRegular(history) THEN Medium ELSE Low

-----------------------------------------------------------------------------
\* The same prefix may come again: profiles of one operator share it.
RecordRotation(prefix) ==
  /\ Len(rotation_history) < MaxHistory
  /\ rotation_history' = Append(rotation_history, [prefix |-> prefix, lasted |-> 0])

Elapses ==
  LET n == Len(rotation_history) IN
  /\ n > 0 /\ rotation_history[n].lasted <= SilenceLimit
  /\ rotation_history' = [rotation_history EXCEPT ![n].lasted = @ + 1]

\* The record is kept in memory only.
Crash == rotation_history' = <<>>

Init == rotation_history = <<>>

Next == (\E p \in Prefixes : RecordRotation(p)) \/ Elapses \/ Crash

Spec == Init /\ [][Next]_rotation_history

-----------------------------------------------------------------------------
(* Properties *)

\* The variable has its type.
TypeOK ==
  /\ rotation_history \in Seq([prefix : Prefixes, lasted : 0 .. SilenceLimit + 1])
  /\ Len(rotation_history) <= MaxHistory

\* A stay of more than two hours under one prefix is never forgotten: while the
\* daemon lives, the risk does not fall below High again, however often and to
\* whatever prefix it rotates afterwards (triangulation.rs:168-205).
LongStayIsRemembered ==
  [][ AssessRisk(rotation_history) >= High /\ rotation_history # <<>> /\ ~Crash
        => AssessRisk(rotation_history') >= High ]_rotation_history
=============================================================================
