---------------------------- MODULE FirmwareGuard ----------------------------
(***************************************************************************)
(* services/baseband-firmware-guard-rs, main.rs and firmware.rs: the known *)
(* firmware files are verified one after the other, at the start, once per *)
(* interval and for every CheckIntegrity, with the mutex held.  Results    *)
(* are stored under the mutex taken anew, so that other checks may come in *)
(* between.  The start's check and the periodic ones are the task "bg":    *)
(* both tell the duress daemon when they find a file tampered with, the    *)
(* clients' do not.                                                        *)
(***************************************************************************)
EXTENDS Naturals, Sequences

CONSTANTS
  Clients,
  Blobs,    \* number of entries in the hash database
  Readings  \* outcomes of verify_one

VARIABLES
  disk,          \* what verifying each file would find
  serving,       \* the start is over, clients are heard
  last_results,
  check,         \* each task: how far it is and what it has found
  (* History, read by properties only: *)
  steady         \* files that have been tampered with ever since the task began

vars == <<disk, serving, last_results, check, steady>>

\* A file that is as it should be is one of the outcomes.
ConstantsOK == Blobs \in Nat /\ "ok" \in Readings

Tasks == Clients \cup {"bg"}
Idle == [stage |-> "idle", found |-> <<>>]

LockFree == \A t \in Tasks : check[t].stage # "verifying"

Has(found, status) == \E k \in DOMAIN found : found[k] = status

\* Faulty: what is missing is looked at first.
OverallStatusMissingFirst(found) ==
  IF Has(found, "missing") \/ found = <<>> THEN "unknown"
  ELSE IF Has(found, "tampered") THEN "tampered" ELSE "ok"

\* A file that cannot be read is no reason for concern here.
OverallStatus(found) ==
  IF Has(found, "tampered") THEN "tampered"
  ELSE IF Has(found, "missing") \/ found = <<>> THEN "unknown" ELSE "ok"

Begins(t) ==
  /\ check[t] = Idle /\ LockFree
  /\ t = "bg" \/ serving
  /\ check' = [check EXCEPT ![t].stage = "verifying"]
  /\ steady' = [steady EXCEPT ![t] = {k \in 1 .. Blobs : disk[k] = "tampered"}]
  /\ UNCHANGED <<disk, serving, last_results>>

Reads(t) ==
  LET n == Len(check[t].found) IN
  /\ check[t].stage = "verifying" /\ n < Blobs
  /\ check' = [check EXCEPT ![t].found = Append(@, disk[n + 1])]
  /\ UNCHANGED <<disk, serving, last_results, steady>>

AlertNeeded(found) == Has(found, "tampered")

\* The mutex is given back.
Verified(t) ==
  /\ check[t].stage = "verifying" /\ Len(check[t].found) = Blobs
  /\ check' = [check EXCEPT ![t].stage =
                 IF t = "bg" /\ AlertNeeded(check[t].found) THEN "alerting" ELSE "storing"]
  /\ UNCHANGED <<disk, serving, last_results, steady>>

\* Whether the duress daemon can be reached is only logged.
Alerts ==
  /\ check["bg"].stage = "alerting"
  /\ check' = [check EXCEPT !["bg"].stage = "storing"]
  /\ UNCHANGED <<disk, serving, last_results, steady>>

Stores(t) ==
  /\ check[t].stage = "storing" /\ LockFree
  /\ last_results' = check[t].found
  /\ check' = [check EXCEPT ![t] = Idle]
  /\ steady' = [steady EXCEPT ![t] = {}]
  /\ serving' = (serving \/ t = "bg")
  /\ UNCHANGED disk

Crash ==
  /\ serving' = FALSE
  /\ last_results' = <<>>
  /\ check' = [t \in Tasks |-> Idle]
  /\ steady' = [t \in Tasks |-> {}]
  /\ UNCHANGED disk

FileChanges ==
  /\ \E k \in 1 .. Blobs, r \in Readings :
       /\ disk' = [disk EXCEPT ![k] = r]
       /\ steady' = [t \in Tasks |-> steady[t] \ (IF r = "tampered" THEN {} ELSE {k})]
  /\ UNCHANGED <<serving, last_results, check>>

Init ==
  /\ disk = [k \in 1 .. Blobs |-> "ok"]
  /\ serving = FALSE
  /\ last_results = <<>>
  /\ check = [t \in Tasks |-> Idle]
  /\ steady = [t \in Tasks |-> {}]

GoesOn(t) == Reads(t) \/ Verified(t) \/ (t = "bg" /\ Alerts)

Next ==
  \/ \E t \in Tasks : Begins(t) \/ GoesOn(t) \/ Stores(t)
  \/ FileChanges
  \/ Crash

\* init restarts the daemon, its timer fires and the mutex, which is fair, comes
\* to the periodic task; whoever holds it can read the files and gives it back.
CheckStep == Begins("bg") \/ Stores("bg")
Progress == \A t \in Tasks : WF_vars(GoesOn(t))
Fairness == SF_vars(CheckStep) /\ Progress

Spec == Init /\ [][Next]_vars

FairSpec == Spec /\ Fairness

-----------------------------------------------------------------------------
(* Properties *)

\* The variables have their types; one check at a time holds the mutex.
TypeOK ==
  /\ disk \in [1 .. Blobs -> Readings]
  /\ serving \in BOOLEAN
  /\ last_results \in Seq(Readings) /\ Len(last_results) <= Blobs
  /\ \A t \in Tasks :
       /\ check[t].stage \in {"idle", "verifying", "alerting", "storing"}
       /\ check[t].found \in Seq(Readings) /\ Len(check[t].found) <= Blobs
       /\ \A s \in Tasks \ {t} :
            check[t].stage = "verifying" => check[s].stage # "verifying"
       /\ steady[t] \subseteq 1 .. Blobs

\* No check misses a file that was tampered with all the time it took, whatever the
\* other files and the other tasks do meanwhile: what it stores says so, and the
\* background's check takes the way to the alert.  So a check that stores over
\* another's newer results can only hide what came after it began (main.rs:95-118,
\* 165-180).
TamperIsNotMissed ==
  [][\A t \in Tasks :
       steady[t] # {} =>
         /\ Stores(t) => OverallStatus(last_results') = "tampered"
         /\ t = "bg" /\ Verified(t) => check'[t].stage = "alerting"]_vars

StaysUp == <>[][~Crash]_vars

\* A file that stays tampered with is eventually what GetLastResults tells, and
\* for good, whatever the other files do: a check that verified earlier may still
\* store over a newer one (main.rs:97-118, 165-180), but only for a while.  And
\* the duress daemon is told of it at every interval, although clients' checks
\* store the same results without telling anybody.
TamperIsReported ==
  StaysUp => \A k \in 1 .. Blobs : <>[](disk[k] = "tampered") =>
    /\ <>[](OverallStatus(last_results) = "tampered")
    /\ []<><<Alerts>>_vars
=============================================================================
