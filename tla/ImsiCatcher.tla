----------------------------- MODULE ImsiCatcher -----------------------------
(***************************************************************************)
(* services/baseband-firmware-guard-rs, imsi_catcher.rs: a window of cell  *)
(* observations and the score computed from it after each of them.  An     *)
(* observation carries what the heuristics tell apart.                     *)
(***************************************************************************)
EXTENDS Naturals, Sequences, FiniteSets

CONSTANTS
  Observations,  \* what a client may report
  MAX_HISTORY, RAPID_CHANGE_COUNT, RAPID_CHANGE_WINDOW_SECS

VARIABLE history

\* The window holds at least the last observation.
ConstantsOK == MAX_HISTORY \in Nat \ {0}

Recent == 10
Last == history[Len(history)]

\* The cell of the last observation occurs in no earlier one of the window.
Unseen == \A k \in 1 .. Len(history) - 1 : history[k].cell_id # Last.cell_id

\* Stronger than -60 dBm, stronger than -50 dBm.
Strong == {"strong", "extreme"}

Downgrade ==
  /\ Last.tech = "GSM"
  /\ \E k \in 1 .. Len(history) - 1 :
       k > Len(history) - Recent /\ history[k].tech \in {"UMTS", "LTE", "NR"}

StrongUnknown == Last.rssi = "extreme" /\ Unseen

\* Timestamps come from the clients, in any order.
RapidChanges ==
  LET recent == {k \in DOMAIN history :
                   history[k].timestamp + RAPID_CHANGE_WINDOW_SECS >= Last.timestamp}
  IN  Cardinality({history[k].cell_id : k \in recent}) >= RAPID_CHANGE_COUNT

\* 0, 65535 and everything above 60000.
UnusualLac == Last.lac = "unusual"

\* Cells 0 and 1, and on GSM those above 65535.
SuspiciousCell == Last.cell_id \in {0, 1} \/ (Last.tech = "GSM" /\ Last.cell_id > 65535)

NoEncryption == Last.tech = "GSM" /\ Last.rssi \in Strong /\ Unseen

Points(found, points) == IF found THEN points ELSE 0

\* analyze()
Score ==
  LET total == Points(Downgrade, 35) + Points(StrongUnknown, 30) + Points(RapidChanges, 20)
               + Points(UnusualLac, 15) + Points(SuspiciousCell, 10) + Points(NoEncryption, 20)
  IN  IF history = <<>> THEN 0 ELSE IF total > 100 THEN 100 ELSE total

\* Faulty: a full window is emptied.
WindowEmptied(obs) ==
  IF Len(history) >= MAX_HISTORY THEN <<obs>> ELSE Append(history, obs)

\* The oldest observation leaves a full window.
Window(obs) ==
  Append(IF Len(history) >= MAX_HISTORY THEN Tail(history) ELSE history, obs)

\* AnalyzeSignal: observe and analyze under one lock.
AnalyzeSignal(obs) == history' = Window(obs)

Init == history = <<>>

Next == \E obs \in Observations : AnalyzeSignal(obs)

Spec == Init /\ [][Next]_history

-----------------------------------------------------------------------------
(* Properties *)

\* The variable has its type.
TypeOK == history \in Seq(Observations) /\ Len(history) <= MAX_HISTORY

\* A cell that was reported is known for the rest of the window: reported again
\* within the next MAX_HISTORY - 1 observations it is never taken for a strong
\* or unencrypted unknown one, whatever was reported in between, and its score
\* reaches that of a high risk, 70, only by a downgrade (imsi_catcher.rs:93-180).
KnownWhileInWindow ==
  [][ \A obs \in Observations :
        (AnalyzeSignal(obs) /\ \E k \in DOMAIN history :
            history[k].cell_id = obs.cell_id /\ (k > 1 \/ Len(history) < MAX_HISTORY))
        => ~(StrongUnknown' \/ NoEncryption') /\ (Score' >= 70 => Downgrade') ]_history
=============================================================================
