----------------------------- MODULE MCAutoReboot -----------------------------
(***************************************************************************)
(* Days of a few seconds: a countdown, a shutdown wait and a manual        *)
(* trigger's delay all fit into one, as they do in a real day.  The file's *)
(* time may lie beyond the day (hour 24 and later).                        *)
(***************************************************************************)
EXTENDS AutoReboot

Daily == [enabled |-> TRUE, frequency |-> "daily", at |-> 1, dow |-> 0]
DailyMidnight == [Daily EXCEPT !.at = 0]
Weekly == [enabled |-> TRUE, frequency |-> "weekly", at |-> 2, dow |-> 3]
DailyBeyond == [Daily EXCEPT !.at = 8]
Off == [Daily EXCEPT !.enabled = FALSE]

MCSchedules == {Daily, DailyMidnight, DailyBeyond, Weekly, Off}
=============================================================================
