------------------------------- MODULE Daemons -------------------------------
(***************************************************************************)
(* Thirteen daemons side by side: those that keep files (the keystore, the *)
(* settings store, the attestation's trusted servers, the network policy)  *)
(* and those that keep what they know in memory only.  They share no state *)
(* and no file, and every step is a step of one of them.  Daemons_proofs   *)
(* shows that each keeps its promises among the others; the modules with   *)
(* proofs of their own are instantiated with their theorems.               *)
(***************************************************************************)
EXTENDS PqcKeystore

CONSTANTS
  Keys, BootKeys, Values, Default, Provisioned,               \* settings
  Servers, Certs, KnownDaemons, Paths, NamedIn,               \* attest
  Uids, Destinations, RuleFiles, Unreadable,                  \* policy
  Sensors, PermissionFiles, MaxTtl, MaxToken, NoAnswer,       \* sensor
  Pids, MaxRestarts, MaxId,                                   \* media, attest
  Profiles, PrefixOf, Configured, MaxProfiles, NoRecord,      \* esim
  Prefixes, StreakLimit, SilenceLimit, MaxHistory,            \* risk
  Words, Upper, Allowlist, Blocklist, MaxLength,              \* at
  Pins, PanicPin, WipeTasks, Size,                            \* duress
  Clients, Blobs, Readings,                                   \* firmware
  Observations, MAX_HISTORY, RAPID_CHANGE_COUNT, RAPID_CHANGE_WINDOW_SECS, \* imsi
  Endpoints, GmsAllowlist, GmsBlocklist, Fields, Positions,   \* gms
  TELEMETRY_FIELDS, SameText, Depth

VARIABLES
  stage, mem, db, tmp, bootTodo, op, kept, fixed, hollow,     \* settings
  attestUp, servers, store, storeTmp, saving, report, exe,    \* attest
  added, blind, throughout, ever, stale, faulted,
  policyUp, rules, rulesFile, loaded,                         \* policy
  guardUp, permissions, active_tokens, next_token_id, answer, \* sensor
  reaping, processes, last_id, sweep, table, killed,          \* media
  manager, profiles, current, due, recorded, exchange, failed,\* esim
  rotation_history,                                           \* risk
  text, verdict,                                              \* at
  task, list, keys, doomed,                                   \* duress
  disk, serving, last_results, check, steady,                 \* firmware
  history,                                                    \* imsi
  request, response                                           \* gms

Store == INSTANCE SecureSettings_proofs

Attest == INSTANCE RemoteAttestation_proofs WITH
  Daemons <- KnownDaemons, up <- attestUp, file <- store, tmp <- storeTmp, kept <- added

Policy == INSTANCE NetworkPolicy WITH Files <- RuleFiles, up <- policyUp, file <- rulesFile

Sensor == INSTANCE SensorGuard_proofs WITH up <- guardUp

Media == INSTANCE MediaCoordinator

Esim == INSTANCE EsimManager WITH Ids <- Profiles

Risk == INSTANCE AntiTriangulation

At == INSTANCE AtProxy WITH Tokens <- Words, response <- verdict

Duress == INSTANCE DuressPin WITH Tasks <- WipeTasks

Firmware == INSTANCE FirmwareGuard

Imsi == INSTANCE ImsiCatcher

Gms == INSTANCE GmsProxy WITH Allowlist <- GmsAllowlist, Blocklist <- GmsBlocklist

\* What the theorems assume of the constants.
ASSUME ConstantsAssumption ==
  /\ Store!ConstantsOK /\ Attest!ConstantsOK /\ Policy!ConstantsOK /\ Sensor!ConstantsOK
  /\ Media!ConstantsOK /\ Esim!ConstantsOK /\ Risk!ConstantsOK /\ At!ConstantsOK
  /\ Duress!ConstantsOK /\ Firmware!ConstantsOK /\ Imsi!ConstantsOK /\ Gms!ConstantsOK

-----------------------------------------------------------------------------
settingsVars == <<stage, mem, db, tmp, bootTodo, op, kept, fixed, hollow>>
attestVars == <<attestUp, servers, store, storeTmp, saving, report, exe,
                added, blind, throughout, ever, stale, faulted>>
policyVars == <<policyUp, rules, rulesFile, loaded>>
sensorVars == <<guardUp, permissions, active_tokens, next_token_id, answer>>
mediaVars == <<reaping, processes, last_id, sweep, table, killed>>
esimVars == <<manager, profiles, current, due, recorded, exchange, failed>>
textVars == <<text, verdict>>
duressVars == <<task, list, keys, doomed>>
firmwareVars == <<disk, serving, last_results, check, steady>>
gmsVars == <<request, response>>

daemonsVars ==
  <<vars, settingsVars, attestVars, policyVars, sensorVars, mediaVars, esimVars,
    rotation_history, textVars, duressVars, firmwareVars, history, gmsVars>>

Names ==
  {"keystore", "settings", "attest", "policy", "sensor", "media", "esim", "risk", "at",
   "duress", "firmware", "imsi", "gms"}

Step(d) ==
  CASE d = "keystore" -> Next
    [] d = "settings" -> Store!Next
    [] d = "attest" -> Attest!Next
    [] d = "policy" -> Policy!Next
    [] d = "sensor" -> Sensor!Next
    [] d = "media" -> Media!Next
    [] d = "esim" -> Esim!Next
    [] d = "risk" -> Risk!Next
    [] d = "at" -> At!Next
    [] d = "duress" -> Duress!Next
    [] d = "firmware" -> Firmware!Next
    [] d = "imsi" -> Imsi!Next
    [] d = "gms" -> Gms!Next

Stays(d) ==
  CASE d = "keystore" -> UNCHANGED vars
    [] d = "settings" -> UNCHANGED settingsVars
    [] d = "attest" -> UNCHANGED attestVars
    [] d = "policy" -> UNCHANGED policyVars
    [] d = "sensor" -> UNCHANGED sensorVars
    [] d = "media" -> UNCHANGED mediaVars
    [] d = "esim" -> UNCHANGED esimVars
    [] d = "risk" -> UNCHANGED rotation_history
    [] d = "at" -> UNCHANGED textVars
    [] d = "duress" -> UNCHANGED duressVars
    [] d = "firmware" -> UNCHANGED firmwareVars
    [] d = "imsi" -> UNCHANGED history
    [] d = "gms" -> UNCHANGED gmsVars

Only(d) == Step(d) /\ \A e \in Names \ {d} : Stays(e)

DaemonsInit ==
  /\ Init /\ Store!Init /\ Attest!Init /\ Policy!Init
  /\ Sensor!Init /\ Media!Init /\ Esim!Init /\ Risk!Init /\ At!Init /\ Duress!Init
  /\ Firmware!Init /\ Imsi!Init /\ Gms!Init

DaemonsNext == \E d \in Names : Only(d)

DaemonsSpec == DaemonsInit /\ [][DaemonsNext]_daemonsVars

-----------------------------------------------------------------------------
(* Properties: those of the instances, under names of their own. *)

\* The daemons keep their types.
DaemonsTypeOK ==
  /\ TypeOK /\ Store!TypeOK /\ Attest!TypeOK /\ Policy!TypeOK
  /\ Sensor!TypeOK /\ Media!TypeOK /\ Esim!TypeOK /\ Risk!TypeOK /\ At!TypeOK
  /\ Duress!TypeOK /\ Firmware!TypeOK /\ Imsi!TypeOK /\ Gms!TypeOK

\* Writes and deletes of settings acknowledged after a flush survive failed flushes,
\* deaths and restarts; a delete acknowledged without one may not.
AcknowledgedIsKept == Store!AcknowledgedIsKept

\* Acknowledged locks hold, and no client meets an unlocked boot key.
LocksHold == Store!LocksHold

\* Acknowledged servers survive failed saves, deaths and restarts, as long as every
\* start could read the stored list.
ServersLast == Attest!ServersLast

\* Reports name processes that ran under a daemon's name, and, when nothing failed
\* to be read, every daemon that ran throughout and was not replaced.
ReportCovers == Attest!ReportCovers

\* The sensor guard implements the book of grants.
KeepsTheBook == Sensor!KeepsTheBook

\* Running codecs are known and not killed.
CodecsAreWanted == Media!CodecsAreWanted

\* The record of rotations follows the profile in use.
RecordFollows == Esim!RecordFollows

\* A stay of more than two hours under one prefix is never forgotten.
LongStayIsRemembered == Risk!LongStayIsRemembered

\* The way an AT command is written makes no difference.
FormDoesNotMatter == At!FormDoesNotMatter

\* A reported cell is known for the rest of the window.
KnownWhileInWindow == Imsi!KnownWhileInWindow

\* No check of the firmware misses what was there all the time.
TamperIsNotMissed == Firmware!TamperIsNotMissed

\* Destinations are decided as one text of the rules file says.
DecidesAsOneText == Policy!DecidesAsOneText

\* A wipe that will get at all doomed keys is always under way.
DoomIsPursued == Duress!DoomIsPursued

\* No telemetry field is left in a body and nothing else is lost.
StripIsComplete == Gms!StripIsComplete
=============================================================================
