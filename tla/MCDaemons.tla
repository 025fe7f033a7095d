------------------------------ MODULE MCDaemons -----------------------------
(***************************************************************************)
(* Small instances of the daemons of Daemons.  They share no state, so the *)
(* run follows one of them at a time: `daemon` says which, the others stay *)
(* as they were before their start.                                        *)
(***************************************************************************)
EXTENDS Daemons, TLC

CONSTANTS
  a, b, c, empty, f1, f2, bare, boot, other, strict, lax

VARIABLE daemon

\* The ids b and c differ only in a character that no file name keeps, and one id
\* is the empty text.
MCFileOf == a :> f1 @@ b :> f2 @@ c :> f2 @@ empty :> bare

\* First start, a store provisioned with a value, one with a locked key.
MCProvisioned ==
  { Absent,
    [settings |-> boot :> lax @@ other :> Absent, locked |-> {}],
    [settings |-> boot :> strict @@ other :> lax, locked |-> {other}] }

\* Paths with the name of the daemon in them, and others.
MCNamedIn == {<<"own", "d">>}

Pattern(wildcard, name) == [wildcard |-> wildcard, name |-> name]
Rule(uid, allow, deny, deny_all) ==
  [uid |-> uid, allow |-> allow, deny |-> deny, deny_all |-> deny_all]
Ads == <<"ads", ".", "com">>

\* The last one, "xcom", is no domain under "com" but ends like one.
MCDestinations == {<<"com">>, Ads, <<"x", "com">>}

\* No rules, an allowed domain with an exception and a uid without network, and
\* two rules for one uid.
MCRules ==
  { <<>>,
    << Rule(1, {Pattern(TRUE, <<"com">>)}, {Pattern(FALSE, Ads)}, FALSE),
       Rule(2, {Pattern(FALSE, <<"com">>)}, {}, TRUE) >>,
    << Rule(1, {Pattern(FALSE, <<"com">>)}, {}, FALSE),
       Rule(1, {Pattern(FALSE, Ads)}, {}, FALSE) >> }

\* A uid with one sensor and a longer time, one with no time at all.
MCPermissions ==
  { 1 :> [sensors |-> {"camera"}, ttl |-> 2] @@ 2 :> [sensors |-> {"camera"}, ttl |-> 0],
    2 :> [sensors |-> {"camera"}, ttl |-> 1] }

MCPrefixOf == "e" :> 1 @@ "f" :> 2
MCConfigured == {<<>>, <<"e", "f">>, <<"f", "e", "f">>}

\* Tokens that upper case leaves alone, and small letters.
MCUpper ==
  [t \in {"AT", "+CSQ", "E", "=", "?"} |-> t] @@ "at" :> "AT" @@ "+csq" :> "+CSQ"
MCWords == DOMAIN MCUpper
MCAllowlist == {<<"+CSQ">>, <<"E">>, <<>>}
MCBlocklist == {<<"+CSQ", "E">>}

Cell(cell, tech, rssi, lac, at) ==
  [cell_id |-> cell, tech |-> tech, rssi |-> rssi, lac |-> lac, timestamp |-> at]

\* Ordinary cells, strong ones, small and large identifiers, on old and new nets.
MCCells ==
  { Cell(7, "LTE", "extreme", "usual", 0), Cell(7, "GSM", "strong", "usual", 1),
    Cell(70000, "GSM", "extreme", "unusual", 1), Cell(1, "GSM", "weak", "usual", 0),
    Cell(8, "NR", "weak", "usual", 0), Cell(9, "GSM", "strong", "unusual", 0) }

\* Parts of endpoints; keys of which two spell a telemetry field.
MCEndpoints == {{"log"}, {"log", "batch"}, {"other"}}
MCSameText == "gaid" :> "gaid" @@ "Gaid" :> "gaid" @@ "note" :> "note"

-----------------------------------------------------------------------------
\* As they all are before their start.
FollowedInit ==
  /\ daemon \in Names
  /\ DaemonsInit
  /\ daemon # "settings" => db = Absent
  /\ daemon # "media" => reaping

\* A bound: attestation reports are made before the first addition only.  They
\* neither read nor change the trust store, and exclude additions by the mutex.
ReportsFirst == report'.on => added = Attest!Nobody /\ storeTmp = Absent

FollowedNext == Only(daemon) /\ UNCHANGED daemon /\ ReportsFirst

FollowedSpec == FollowedInit /\ [][FollowedNext]_<<daemon, daemonsVars>>

\* The fairness of the daemon that is followed.  Only starts and checks of the
\* firmware are enabled in the ones that are not.
FairFollowedSpec ==
  /\ FollowedSpec
  /\ WF_settingsVars(daemon = "settings" /\ Store!Start) /\ Store!Progress
  /\ WF_policyVars(daemon = "policy" /\ Policy!Start) /\ Policy!Progress
  /\ Media!Fairness
  /\ Esim!Fairness
  /\ Duress!Fairness
  /\ SF_firmwareVars(daemon = "firmware" /\ Firmware!CheckStep) /\ Firmware!Progress

-----------------------------------------------------------------------------
(* Properties of instances that Daemons does not name: liveness *)

\* File and memory of the settings meet again.
ComesBack == daemon = "settings" => Store!ComesBack

\* An edit of the rules file takes effect.
EditTakesEffect == daemon = "policy" => Policy!EditTakesEffect

\* Dead codecs are replaced or given up.
DeadAreNoticed == Media!DeadAreNoticed

\* A rotation that is due is carried out.
DueIsRotated == Esim!DueIsRotated

\* Keys that a duress PIN dooms are removed.
DuressWipes == Duress!DuressWipes

\* A tampered file is shown and reported for good.
TamperIsReported == Firmware!TamperIsReported
=============================================================================
