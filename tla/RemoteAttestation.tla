-------------------------- MODULE RemoteAttestation --------------------------
(***************************************************************************)
(* services/remote-attestation-rs: the trusted servers and their file, and *)
(* the reports on the running daemons.  One mutex is held through each     *)
(* request; a report awaits file operations while it holds it, so the      *)
(* system changes under it.  Verifying a server only changes last_seen,    *)
(* which nobody reads, and is left out with the signature, the nonce and   *)
(* the other fields that are copied into a report.                         *)
(***************************************************************************)
EXTENDS Naturals, FiniteSets

CONSTANTS
  Servers, Certs,
  Daemons,        \* known_daemons
  Pids, Paths,    \* numbers of processes, paths of the files they run
  NamedIn,        \* the pairs of a path and a daemon whose name is found in it
  Absent, Torn

VARIABLES
  up,
  servers,   \* TrustStore.trusted_servers
  file, tmp, \* trust-store.json and its .tmp
  saving,    \* the server that is being added, and how far save() is
  report,    \* how far hash_running_daemons is: the processes not looked at yet,
             \* the links read, the daemons to hash and those hashed, with pids
  exe,       \* what each process runs, while a report is made: nobody looks at
             \* processes but for one
  (* History, read by properties only: *)
  kept,      \* what the last addition of a server stored; Torn: it was not
  blind,     \* some start could not read the store
  (* and of the report that is being made: *)
  throughout, \* processes that ran a daemon's file, and no other, all the time
  ever,       \* those that ran a file named like a daemon at some time
  stale,      \* daemons after which a replaced file was named that still ran
  faulted     \* /proc, a link or a file could not be read

storeVars == <<servers, file, tmp, saving, kept, blind>>
reportVars == <<report, throughout, ever, stale, faulted>>
vars == <<up, storeVars, reportVars, exe>>

Known == [Servers -> Certs \cup {Absent}]

\* The link /proc/<pid>/exe: once the file is removed or replaced, the path in it
\* has " (deleted)" at its end.
Links == [path : Paths, there : BOOLEAN]

\* Absent and Torn are no certificates, servers, links or contents of the store.
ConstantsOK ==
  /\ Absent \notin Certs /\ Torn \notin Certs /\ Torn # Absent
  /\ Absent \notin Known /\ Torn \notin Known
  /\ Absent \notin Servers /\ Absent \notin Links

Unseen == [p \in Pids |-> Absent]
Nobody == [s \in Servers |-> Absent]
NoReport == [on |-> FALSE, unread |-> {}, links |-> Unseen, todo |-> {}, hashed |-> {}]
Quiet == [server |-> Absent, stage |-> "none"]

Free == up /\ ~report.on /\ saving = Quiet

-----------------------------------------------------------------------------
(* trust_store.rs *)

Stored == IF file = Absent THEN Nobody ELSE file

\* An unreadable store is taken for an empty one.
Start ==
  /\ ~up
  /\ up' = TRUE
  /\ \/ servers' = Stored /\ UNCHANGED blind
     \/ servers' = Nobody /\ file # Absent /\ blind' = TRUE
  /\ UNCHANGED <<file, tmp, saving, kept, reportVars, exe>>

\* An entry is added or replaced, and save() begins.
AddServer(s, cert) ==
  /\ Free
  /\ servers' = [servers EXCEPT ![s] = cert]
  /\ saving' = [server |-> s, stage |-> "write"]
  /\ tmp' = Torn
  /\ kept' = [kept EXCEPT ![s] = Torn]
  /\ UNCHANGED <<up, file, blind, reportVars, exe>>

\* Faulty: a store with the new entry only.
SavedAlone == [Nobody EXCEPT ![saving.server] = servers[saving.server]]

Saved == servers

TmpWritten ==
  /\ saving.stage = "write"
  /\ tmp' = Saved
  /\ saving' = [saving EXCEPT !.stage = "rename"]
  /\ UNCHANGED <<up, servers, file, kept, blind, reportVars, exe>>

Renamed ==
  /\ saving.stage = "rename"
  /\ file' = tmp
  /\ tmp' = Absent
  /\ saving' = Quiet
  /\ kept' = [kept EXCEPT ![saving.server] = servers[saving.server]]
  /\ UNCHANGED <<up, servers, blind, reportVars, exe>>

\* Only logged: the addition is answered "ok" and lost at the next start.
SaveFails ==
  /\ saving # Quiet
  /\ saving' = Quiet
  /\ UNCHANGED <<up, servers, file, tmp, kept, blind, reportVars, exe>>

-----------------------------------------------------------------------------
(* attestation.rs *)

\* The name is looked for in the whole path, whatever program it belongs to.
Fits(link, d) == <<link.path, d>> \in NamedIn

Named == {r \in Pids \X Daemons : exe[r[1]] # Absent /\ Fits(exe[r[1]], r[2])}
Healthy == {r \in Named : exe[r[1]].there}
Replaced == {d \in Daemons : \E p \in Pids : <<p, d>> \in Named \ Healthy}

GetAttestation ==
  /\ Free
  /\ report' = [on |-> TRUE, unread |-> Pids, links |-> Unseen, todo |-> Daemons, hashed |-> {}]
  /\ exe' \in [Pids -> Links \cup {Absent}]
  /\ throughout' = Healthy' /\ ever' = Named' /\ stale' = Replaced' /\ faulted' = FALSE
  /\ UNCHANGED <<up, storeVars>>

\* The processes are looked at one after the other; a link that cannot be read is
\* passed over.
LinkRead(p) ==
  /\ p \in report.unread
  /\ \E link \in {exe[p], Absent} :
       /\ report' = [report EXCEPT !.unread = @ \ {p}, !.links[p] = link]
       /\ faulted' = (faulted \/ link # exe[p])
  /\ UNCHANGED <<up, storeVars, exe, throughout, ever, stale>>

\* /proc cannot be listed, or not to its end.
ListingFails ==
  /\ report.unread # {}
  /\ report' = [report EXCEPT !.unread = {}]
  /\ faulted' = TRUE
  /\ UNCHANGED <<up, storeVars, exe, throughout, ever, stale>>

\* Faulty: any process will do.
FoundAny(d) == {p \in Pids : report.links[p] # Absent}

Found(d) == {p \in Pids : report.links[p] # Absent /\ Fits(report.links[p], d)}

\* The processes are in no order: one of those found is taken, and the file under
\* the name that was read is hashed, a newer one by now perhaps.  There is none
\* under the name of a replaced file.
Hashed(d) ==
  /\ report.unread = {} /\ d \in report.todo
  /\ \E p \in Found(d) :
       /\ report.links[p].there
       /\ report' = [report EXCEPT !.todo = @ \ {d}, !.hashed = @ \cup {<<p, d>>}]
  /\ UNCHANGED <<up, storeVars, exe, throughout, ever, stale, faulted>>

\* No process is found, or the file of the one taken cannot be read, which is only
\* logged: the daemon is left out.
NotHashed(d) ==
  /\ report.unread = {} /\ d \in report.todo
  /\ report' = [report EXCEPT !.todo = @ \ {d}]
  /\ \/ Found(d) = {} /\ UNCHANGED faulted
     \/ \E p \in Found(d) : faulted' = (faulted \/ report.links[p].there)
  /\ UNCHANGED <<up, storeVars, exe, throughout, ever, stale>>

Complete == report.on /\ report.unread = {} /\ report.todo = {}

\* The report is signed, with a key from the file or a derived one, and sent.
Signed ==
  /\ Complete
  /\ report' = NoReport
  /\ exe' = Unseen
  /\ throughout' = {} /\ ever' = {} /\ stale' = {} /\ faulted' = FALSE
  /\ UNCHANGED <<up, storeVars>>

\* While a report is made, a process starts or becomes another one; its file is
\* replaced while it runs; or it ends.
ProcessChanges(p, link) ==
  /\ report.on
  /\ exe[p] # link
  /\ link # Absent /\ ~link.there => exe[p] = [link EXCEPT !.there = TRUE]
  /\ exe' = [exe EXCEPT ![p] = link]
  /\ throughout' = throughout \ ({p} \X Daemons)
  /\ ever' = ever \cup Named' /\ stale' = stale \cup Replaced'
  /\ UNCHANGED <<up, storeVars, report, faulted>>

-----------------------------------------------------------------------------
Crash ==
  /\ up
  /\ up' = FALSE
  /\ servers' = Nobody
  /\ saving' = Quiet
  /\ report' = NoReport
  /\ exe' = Unseen
  /\ throughout' = {} /\ ever' = {} /\ stale' = {} /\ faulted' = FALSE
  /\ UNCHANGED <<file, tmp, kept, blind>>

Init ==
  /\ up = FALSE
  /\ servers = Nobody
  /\ file = Absent /\ tmp = Absent
  /\ saving = Quiet
  /\ report = NoReport
  /\ exe = Unseen
  /\ kept = Nobody
  /\ blind = FALSE
  /\ throughout = {} /\ ever = {} /\ stale = {} /\ faulted = FALSE

Next ==
  \/ Start
  \/ \E s \in Servers, cert \in Certs : AddServer(s, cert)
  \/ TmpWritten
  \/ Renamed
  \/ SaveFails
  \/ GetAttestation
  \/ \E p \in Pids : LinkRead(p)
  \/ ListingFails
  \/ \E d \in Daemons : Hashed(d) \/ NotHashed(d)
  \/ Signed
  \/ \E p \in Pids, link \in Links \cup {Absent} : ProcessChanges(p, link)
  \/ Crash

Spec == Init /\ [][Next]_vars

-----------------------------------------------------------------------------
(* Properties *)

\* The variables have their types; a report and an addition exclude each other.
TypeOK ==
  /\ up \in BOOLEAN /\ blind \in BOOLEAN
  /\ servers \in Known
  /\ file \in Known \cup {Absent} /\ tmp \in Known \cup {Absent, Torn}
  /\ saving \in [server : Servers, stage : {"write", "rename"}] \cup {Quiet}
  /\ report \in [on : BOOLEAN, unread : SUBSET Pids, links : [Pids -> Links \cup {Absent}],
                 todo : SUBSET Daemons, hashed : SUBSET (Pids \X Daemons)]
  /\ exe \in [Pids -> Links \cup {Absent}]
  /\ faulted \in BOOLEAN
  /\ kept \in [Servers -> Certs \cup {Absent, Torn}]
  /\ saving # Quiet => up /\ ~report.on

\* A server whose addition was stored keeps the fingerprint it was added with
\* through failed saves of others, deaths at every file operation and restarts,
\* as long as every start could read the store: one that could not takes it for
\* empty, and the next addition replaces it (main.rs:33-40, 200-220).
ServersLast ==
  ~blind => \A s \in Servers : kept[s] # Torn =>
    /\ Stored[s] = kept[s]
    /\ up => servers[s] = kept[s]

\* A report about to be signed names, for a daemon, a process that ran a file with
\* that name in its path while the report was made (of another program, perhaps);
\* and unless something could not be read, it leaves out no daemon whose process
\* ran throughout, but for one after which a replaced file was named that still
\* ran: that one's process may be taken instead (attestation.rs:118-176).
ReportCovers ==
  Complete =>
    /\ report.hashed \subseteq ever
    /\ ~faulted => \A p \in Pids, d \in Daemons :
         <<p, d>> \in throughout => d \in stale \/ \E q \in Pids : <<q, d>> \in report.hashed
=============================================================================
