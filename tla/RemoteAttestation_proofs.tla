----------------------- MODULE RemoteAttestation_proofs -----------------------
(***************************************************************************)
(* Theorems about RemoteAttestation for all servers, certificates and      *)
(* daemons, as long as Absent and Torn are none of the certificates.       *)
(***************************************************************************)
EXTENDS RemoteAttestation, TLAPS

\* The file that is renamed is complete.
SaveOrder == saving.stage = "rename" => tmp = servers

\* What ran throughout is read and hashed, nothing else is.
ReportOrder ==
  /\ throughout \subseteq Pids \X Daemons
  /\ ever \subseteq Pids \X Daemons
  /\ stale \subseteq Daemons
  /\ report.on =>
       /\ throughout \subseteq Healthy /\ Named \subseteq ever /\ Replaced \subseteq stale
       /\ \A p \in Pids, d \in Daemons :
            report.links[p] # Absent /\ Fits(report.links[p], d) =>
              <<p, d>> \in ever /\ (report.links[p].there \/ d \in stale)
       /\ report.hashed \subseteq ever
       /\ ~faulted => \A p \in Pids, d \in Daemons : <<p, d>> \in throughout =>
            /\ p \in report.unread \/ (report.links[p] # Absent /\ Fits(report.links[p], d))
            /\ d \in report.todo \/ d \in stale \/ \E q \in Pids : <<q, d>> \in report.hashed

Inv == TypeOK /\ SaveOrder /\ ServersLast /\ ReportOrder /\ ReportCovers

-----------------------------------------------------------------------------

LEMMA InitInv == ConstantsOK /\ Init => Inv
<1> SUFFICES ASSUME ConstantsOK, Init PROVE Inv
  OBVIOUS
<1>1. /\ Nobody \in Known /\ Nobody \in [Servers -> Certs \cup {Absent, Torn}]
      /\ Unseen \in [Pids -> Links \cup {Absent}]
  BY DEF Nobody, Known, Unseen
<1>2. TypeOK
  BY <1>1 DEF Init, TypeOK, NoReport, Quiet
<1>3. Stored = Nobody
  BY DEF Init, Stored
<1> QED BY <1>2, <1>3 DEF Init, Inv, SaveOrder, ServersLast, ReportOrder, ReportCovers,
                          Complete, NoReport, Quiet

-----------------------------------------------------------------------------
(* The trusted servers *)

LEMMA StoreStartInv ==
  ASSUME ConstantsOK, Inv, Start
  PROVE  Inv'
<1> USE DEF Inv
<1>1. Nobody \in Known /\ Stored \in Known
  BY DEF Nobody, Known, Stored, TypeOK
<1>2. /\ up' = TRUE /\ ~up /\ blind' \in BOOLEAN
      /\ \/ servers' = Stored /\ blind' = blind
         \/ servers' = Nobody /\ blind' = TRUE
      /\ UNCHANGED <<file, tmp, saving, kept, reportVars, exe>> /\ Stored' = Stored
  BY DEF Start, Stored, TypeOK
<1>3. saving = Quiet
  BY <1>2 DEF TypeOK
<1>4. TypeOK'
  BY <1>1, <1>2, <1>3 DEF TypeOK, reportVars
<1>5. SaveOrder'
  BY <1>2, <1>3 DEF SaveOrder, Quiet
<1>6. ServersLast'
  BY <1>2 DEF ServersLast
<1>7. ReportOrder' /\ ReportCovers'
  BY <1>2 DEF ReportOrder, ReportCovers, reportVars, Healthy, Named, Replaced, Complete
<1> QED BY <1>4, <1>5, <1>6, <1>7

LEMMA AddServerInv ==
  ASSUME ConstantsOK, Inv, NEW s \in Servers, NEW cert \in Certs, AddServer(s, cert)
  PROVE  Inv'
<1> USE DEF Inv
<1>1. /\ up /\ ~report.on
      /\ servers' = [servers EXCEPT ![s] = cert]
      /\ saving' = [server |-> s, stage |-> "write"]
      /\ tmp' = Torn
      /\ kept' = [kept EXCEPT ![s] = Torn]
      /\ UNCHANGED <<up, file, blind, reportVars, exe>> /\ Stored' = Stored
  BY DEF AddServer, Free, Stored
<1>2. /\ servers' \in Known
      /\ kept' \in [Servers -> Certs \cup {Absent, Torn}]
      /\ kept'[s] = Torn
      /\ \A j \in Servers \ {s} : kept'[j] = kept[j] /\ servers'[j] = servers[j]
  BY <1>1 DEF TypeOK, Known
<1>3. TypeOK'
  BY <1>1, <1>2 DEF TypeOK, reportVars
<1>4. SaveOrder'
  BY <1>1 DEF SaveOrder
<1>5. ServersLast'
  BY <1>1, <1>2 DEF ServersLast
<1>6. ReportOrder' /\ ReportCovers'
  BY <1>1 DEF ReportOrder, ReportCovers, reportVars, Healthy, Named, Replaced, Complete
<1> QED BY <1>3, <1>4, <1>5, <1>6

LEMMA SaveStepInv ==
  ASSUME ConstantsOK, Inv, TmpWritten \/ SaveFails
  PROVE  Inv'
<1> USE DEF Inv
<1>1. UNCHANGED <<up, servers, file, kept, blind, reportVars, exe>> /\ Stored' = Stored
  BY DEF TmpWritten, SaveFails, Stored
<1>2. ServersLast' /\ ReportOrder' /\ ReportCovers'
  BY <1>1 DEF ServersLast, ReportOrder, ReportCovers, reportVars, Healthy, Named, Replaced, Complete
<1>3. CASE TmpWritten
  <2>1. /\ saving \in [server : Servers, stage : {"write", "rename"}]
        /\ saving # Quiet
        /\ saving' = [saving EXCEPT !.stage = "rename"] /\ tmp' = servers
    BY <1>3 DEF TmpWritten, Saved, TypeOK, Quiet
  <2>2. saving' \in [server : Servers, stage : {"write", "rename"}]
    BY <2>1
  <2>3. TypeOK'
    BY <1>1, <2>1, <2>2 DEF TypeOK, reportVars
  <2> QED BY <1>1, <1>2, <2>1, <2>3 DEF SaveOrder
<1>4. CASE SaveFails
  <2>1. saving' = Quiet /\ tmp' = tmp
    BY <1>4 DEF SaveFails
  <2>2. TypeOK'
    BY <1>1, <2>1 DEF TypeOK, reportVars
  <2> QED BY <1>2, <2>1, <2>2 DEF SaveOrder, Quiet
<1> QED BY <1>3, <1>4

LEMMA RenamedInv ==
  ASSUME ConstantsOK, Inv, Renamed
  PROVE  Inv'
<1> USE DEF Inv
<1> DEFINE s == saving.server
<1>1. /\ saving.stage = "rename" /\ file' = servers /\ tmp' = Absent /\ saving' = Quiet
      /\ kept' = [kept EXCEPT ![s] = servers[s]]
      /\ UNCHANGED <<up, servers, blind, reportVars, exe>>
  BY DEF Renamed, SaveOrder
<1>2. saving # Quiet /\ up /\ s \in Servers /\ servers \in Known
  BY <1>1 DEF TypeOK, Quiet
<1>3. Stored' = servers
  BY <1>1, <1>2 DEF Stored, ConstantsOK
<1>4. /\ kept' \in [Servers -> Certs \cup {Absent, Torn}]
      /\ kept'[s] = servers[s]
      /\ \A j \in Servers \ {s} : kept'[j] = kept[j]
  BY <1>1, <1>2 DEF TypeOK, Known
<1>5. TypeOK'
  BY <1>1, <1>2, <1>4 DEF TypeOK, reportVars
<1>6. SaveOrder'
  BY <1>1 DEF SaveOrder, Quiet
<1>7. ServersLast'
  BY <1>1, <1>2, <1>3, <1>4 DEF ServersLast
<1>8. ReportOrder' /\ ReportCovers'
  BY <1>1 DEF ReportOrder, ReportCovers, reportVars, Healthy, Named, Replaced, Complete
<1> QED BY <1>5, <1>6, <1>7, <1>8

-----------------------------------------------------------------------------
(* Reports *)

\* The steps of a report leave the servers and their files alone.
LEMMA ReportKeepsServers ==
  ASSUME Inv, UNCHANGED <<up, storeVars>>
  PROVE  ServersLast' /\ SaveOrder'
BY DEF Inv, storeVars, ServersLast, SaveOrder, Stored

\* What a process runs now, and what is said of it.
LEMMA NamedFacts ==
  ASSUME NEW p \in Pids, NEW d \in Daemons
  PROVE  /\ <<p, d>> \in Named <=> exe[p] # Absent /\ Fits(exe[p], d)
         /\ <<p, d>> \in Healthy <=> exe[p] # Absent /\ Fits(exe[p], d) /\ exe[p].there
         /\ exe[p] # Absent /\ Fits(exe[p], d) /\ ~exe[p].there => d \in Replaced
<1>1. <<p, d>> \in Pids \X Daemons /\ <<p, d>>[1] = p /\ <<p, d>>[2] = d
  OBVIOUS
<1>2. <<p, d>> \in Named <=> exe[p] # Absent /\ Fits(exe[p], d)
  BY <1>1 DEF Named
<1>3. <<p, d>> \in Healthy <=> exe[p] # Absent /\ Fits(exe[p], d) /\ exe[p].there
  BY <1>1, <1>2 DEF Healthy
<1> QED BY <1>2, <1>3 DEF Replaced

\* The sets are of processes and daemons.
LEMMA NamedTypes ==
  /\ Healthy \subseteq Named /\ Named \subseteq Pids \X Daemons
  /\ Replaced \subseteq Daemons
BY DEF Healthy, Named, Replaced

LEMMA GetAttestationInv ==
  ASSUME Inv, GetAttestation
  PROVE  Inv'
<1> USE DEF Inv
<1>1. /\ saving = Quiet /\ up
      /\ report' = [on |-> TRUE, unread |-> Pids, links |-> Unseen, todo |-> Daemons, hashed |-> {}]
      /\ exe' \in [Pids -> Links \cup {Absent}]
      /\ throughout' = Healthy' /\ ever' = Named' /\ stale' = Replaced' /\ faulted' = FALSE
      /\ UNCHANGED <<up, servers, file, tmp, saving, kept, blind>>
  BY DEF GetAttestation, Free, storeVars
<1>2. Unseen \in [Pids -> Links \cup {Absent}] /\ \A p \in Pids : Unseen[p] = Absent
  BY DEF Unseen
<1>3. TypeOK'
  BY <1>1, <1>2 DEF TypeOK
<1>4. /\ Healthy' \subseteq Named' /\ Named' \subseteq Pids \X Daemons
      /\ Replaced' \subseteq Daemons
  BY DEF Healthy, Named, Replaced
<1>5. ReportOrder'
  <2>1. /\ report'.on /\ report'.unread = Pids /\ report'.todo = Daemons /\ report'.hashed = {}
        /\ \A p \in Pids : report'.links[p] = Absent
    BY <1>1, <1>2
  <2> QED BY <1>1, <1>4, <2>1 DEF ReportOrder
<1>6. ReportCovers'
  BY <1>1, <1>4, NamedFacts DEF ReportCovers, Complete
<1> QED BY <1>1, <1>3, <1>5, <1>6, ReportKeepsServers DEF storeVars

LEMMA LinkReadInv ==
  ASSUME Inv, NEW p \in Pids, LinkRead(p)
  PROVE  Inv'
<1> USE DEF Inv
<1>1. PICK link \in {exe[p], Absent} :
        /\ report' = [report EXCEPT !.unread = @ \ {p}, !.links[p] = link]
        /\ faulted' = (faulted \/ link # exe[p])
  BY DEF LinkRead
<1>2. /\ p \in report.unread
      /\ UNCHANGED <<up, servers, file, tmp, saving, kept, blind, exe, throughout, ever, stale>>
  BY DEF LinkRead, storeVars
<1>3. /\ report' = [on |-> report.on, unread |-> report.unread \ {p},
                    links |-> [report.links EXCEPT ![p] = link],
                    todo |-> report.todo, hashed |-> report.hashed]
      /\ report'.links \in [Pids -> Links \cup {Absent}]
      /\ report'.links[p] = link
      /\ \A q \in Pids \ {p} : report'.links[q] = report.links[q]
  BY <1>1 DEF TypeOK
<1>4. TypeOK'
  BY <1>1, <1>2, <1>3 DEF TypeOK
<1>5. Healthy' = Healthy /\ Named' = Named /\ Replaced' = Replaced
  BY <1>2 DEF Healthy, Named, Replaced
<1>6. ReportOrder'
  <2> SUFFICES ASSUME report.on PROVE ReportOrder'
    BY <1>2, <1>3 DEF ReportOrder
  <2>1. ASSUME NEW q \in Pids, NEW d \in Daemons, report'.links[q] # Absent,
               Fits(report'.links[q], d)
        PROVE  <<q, d>> \in ever /\ (report'.links[q].there \/ d \in stale)
    <3>1. CASE q = p
      <4>1. exe[p] # Absent /\ Fits(exe[p], d) /\ report'.links[q] = exe[p]
        BY <2>1, <3>1, <1>1, <1>3
      <4> QED BY <4>1, <3>1, NamedFacts DEF ReportOrder
    <3>2. CASE q # p
      BY <2>1, <3>2, <1>3 DEF ReportOrder
    <3> QED BY <3>1, <3>2
  <2>2. ASSUME ~faulted', NEW q \in Pids, NEW d \in Daemons, <<q, d>> \in throughout
        PROVE  /\ q \in report'.unread \/ (report'.links[q] # Absent /\ Fits(report'.links[q], d))
               /\ d \in report'.todo \/ d \in stale \/ \E j \in Pids : <<j, d>> \in report'.hashed
    <3>1. ~faulted /\ link = exe[p]
      BY <2>2, <1>1 DEF TypeOK
    <3>2. <<q, d>> \in Healthy
      BY <2>2 DEF ReportOrder
    <3>3. CASE q = p
      BY <2>2, <3>1, <3>2, <3>3, <1>3, NamedFacts DEF ReportOrder
    <3>4. CASE q # p
      BY <2>2, <3>1, <3>4, <1>3 DEF ReportOrder
    <3> QED BY <3>3, <3>4
  <2>3. report'.on = report.on /\ report'.hashed = report.hashed
    BY <1>3
  <2> QED BY <2>1, <2>2, <2>3, <1>2, <1>5 DEF ReportOrder, Fits
<1>7. ReportCovers'
  BY <1>6 DEF ReportCovers, ReportOrder, Complete
<1> QED BY <1>2, <1>4, <1>6, <1>7, ReportKeepsServers DEF storeVars

LEMMA ListingFailsInv ==
  ASSUME Inv, ListingFails
  PROVE  Inv'
<1> USE DEF Inv
<1>1. /\ report' = [on |-> report.on, unread |-> {}, links |-> report.links,
                    todo |-> report.todo, hashed |-> report.hashed]
      /\ faulted' = TRUE
      /\ UNCHANGED <<up, servers, file, tmp, saving, kept, blind, exe, throughout, ever, stale>>
  BY DEF ListingFails, storeVars, TypeOK
<1>2. TypeOK'
  BY <1>1 DEF TypeOK
<1>3. Healthy' = Healthy /\ Named' = Named /\ Replaced' = Replaced
  BY <1>1 DEF Healthy, Named, Replaced
<1>4. ReportOrder'
  BY <1>1, <1>3 DEF ReportOrder, Fits
<1>5. ReportCovers'
  BY <1>1 DEF ReportCovers, ReportOrder, Complete
<1> QED BY <1>1, <1>2, <1>4, <1>5, ReportKeepsServers DEF storeVars

\* Hashing a daemon or leaving it out.
LEMMA HashedInv ==
  ASSUME Inv, NEW d \in Daemons, Hashed(d) \/ NotHashed(d)
  PROVE  Inv'
<1> USE DEF Inv
<1>1. /\ report.unread = {} /\ d \in report.todo
      /\ UNCHANGED <<up, servers, file, tmp, saving, kept, blind, exe, throughout, ever, stale>>
  BY DEF Hashed, NotHashed, storeVars
<1>2. PICK more \in SUBSET (Pids \X Daemons) :
        /\ report' = [on |-> report.on, unread |-> report.unread, links |-> report.links,
                      todo |-> report.todo \ {d}, hashed |-> report.hashed \cup more]
        /\ faulted' \in BOOLEAN /\ (faulted => faulted')
        /\ \A q \in more : \E p \in Found(d) : q = <<p, d>>
        /\ \/ faulted' \/ Found(d) = {}
           \/ \E p \in Found(d) : report.links[p].there /\ <<p, d>> \in more
           \/ \E p \in Found(d) : ~report.links[p].there
  <2>1. CASE Hashed(d)
    <3>1. PICK p \in Found(d) :
            /\ report.links[p].there
            /\ report' = [report EXCEPT !.todo = @ \ {d}, !.hashed = @ \cup {<<p, d>>}]
      BY <2>1 DEF Hashed
    <3>2. faulted' = faulted /\ p \in Pids
      BY <2>1 DEF Hashed, Found
    <3>3. {<<p, d>>} \in SUBSET (Pids \X Daemons)
      BY <3>2
    <3> DEFINE one == {<<p, d>>}
    <3>4. one \in SUBSET (Pids \X Daemons) /\ <<p, d>> \in one
      BY <3>3
    <3>5. report' = [on |-> report.on, unread |-> report.unread, links |-> report.links,
                     todo |-> report.todo \ {d}, hashed |-> report.hashed \cup one]
      BY <3>1 DEF TypeOK
    <3>6. \A q \in one : q = <<p, d>>
      OBVIOUS
    <3> HIDE DEF one
    <3> QED BY <3>1, <3>2, <3>4, <3>5, <3>6 DEF TypeOK
  <2>2. CASE NotHashed(d)
    <3>1. /\ report' = [report EXCEPT !.todo = @ \ {d}]
          /\ \/ Found(d) = {} /\ faulted' = faulted
             \/ \E p \in Found(d) : faulted' = (faulted \/ report.links[p].there)
      BY <2>2 DEF NotHashed
    <3> WITNESS {} \in SUBSET (Pids \X Daemons)
    <3>2. report' = [on |-> report.on, unread |-> report.unread, links |-> report.links,
                     todo |-> report.todo \ {d}, hashed |-> report.hashed \cup {}]
      BY <3>1 DEF TypeOK
    <3>3. /\ faulted' \in BOOLEAN /\ (faulted => faulted')
          /\ faulted' \/ Found(d) = {} \/ \E p \in Found(d) : ~report.links[p].there
      <4>1. CASE Found(d) = {} /\ faulted' = faulted
        BY <4>1 DEF TypeOK
      <4>2. ASSUME NEW p \in Found(d), faulted' = (faulted \/ report.links[p].there)
            PROVE  /\ faulted' \in BOOLEAN /\ (faulted => faulted')
                   /\ faulted' \/ \E q \in Found(d) : ~report.links[q].there
        <5>1. report.links[p].there \in BOOLEAN
          BY DEF Found, TypeOK, Links
        <5> QED BY <4>2, <5>1 DEF TypeOK
      <4> QED BY <3>1, <4>1, <4>2
    <3> QED BY <3>2, <3>3
  <2> QED BY <2>1, <2>2
<1>3. TypeOK'
  BY <1>1, <1>2 DEF TypeOK
<1>4. /\ Healthy' = Healthy /\ Named' = Named /\ Replaced' = Replaced
      /\ report'.on = report.on /\ report'.links = report.links /\ report'.unread = {}
      /\ report'.todo = report.todo \ {d} /\ report'.hashed = report.hashed \cup more
  BY <1>1, <1>2 DEF Healthy, Named, Replaced
<1>5. ReportOrder'
  <2> SUFFICES ASSUME report.on PROVE ReportOrder'
    BY <1>1, <1>4 DEF ReportOrder
  <2>1. more \subseteq ever
    <3> SUFFICES ASSUME NEW q \in more PROVE q \in ever
      OBVIOUS
    <3>1. PICK p \in Found(d) : q = <<p, d>>
      BY <1>2
    <3> QED BY <3>1 DEF Found, ReportOrder
  <2>2. ASSUME ~faulted', NEW p \in Pids, NEW e \in Daemons, <<p, e>> \in throughout
        PROVE  /\ report'.links[p] # Absent /\ Fits(report'.links[p], e)
               /\ e \in report'.todo \/ e \in stale \/ \E q \in Pids : <<q, e>> \in report'.hashed
    <3>1. ~faulted /\ report.links[p] # Absent /\ Fits(report.links[p], e)
      BY <2>2, <1>1, <1>2 DEF ReportOrder
    <3>2. CASE e = d
      <4>1. p \in Found(d)
        BY <3>1, <3>2 DEF Found
      <4>2. CASE \E q \in Found(d) : report.links[q].there /\ <<q, d>> \in more
        BY <4>2, <3>1, <3>2, <1>4 DEF Found
      <4>3. CASE \E q \in Found(d) : ~report.links[q].there
        BY <4>3, <3>1, <3>2, <1>4 DEF Found, ReportOrder
      <4> QED BY <2>2, <4>1, <4>2, <4>3, <1>2
    <3>3. CASE e # d
      BY <2>2, <3>1, <3>3, <1>4 DEF ReportOrder
    <3> QED BY <3>2, <3>3
  <2>3. report'.hashed \subseteq ever
    BY <1>4, <2>1 DEF ReportOrder
  <2> QED BY <2>2, <2>3, <1>1, <1>4 DEF ReportOrder, Fits
<1>6. ReportCovers'
  BY <1>5 DEF ReportCovers, ReportOrder, Complete
<1> QED BY <1>1, <1>3, <1>5, <1>6, ReportKeepsServers DEF storeVars

LEMMA SignedInv ==
  ASSUME Inv, Signed
  PROVE  Inv'
<1> USE DEF Inv
<1>1. /\ report' = NoReport /\ exe' = Unseen
      /\ throughout' = {} /\ ever' = {} /\ stale' = {} /\ faulted' = FALSE
      /\ UNCHANGED <<up, servers, file, tmp, saving, kept, blind>>
  BY DEF Signed, storeVars
<1>2. Unseen \in [Pids -> Links \cup {Absent}] /\ ~report'.on
  BY <1>1 DEF Unseen, NoReport
<1>3. TypeOK'
  BY <1>1, <1>2 DEF TypeOK, NoReport
<1>4. ReportOrder' /\ ReportCovers'
  BY <1>1, <1>2 DEF ReportOrder, ReportCovers, Complete
<1> QED BY <1>1, <1>3, <1>4, ReportKeepsServers DEF storeVars

LEMMA ProcessChangesInv ==
  ASSUME Inv, NEW p \in Pids, NEW link \in Links \cup {Absent}, ProcessChanges(p, link)
  PROVE  Inv'
<1> USE DEF Inv
<1>1. /\ report.on
      /\ exe' = [exe EXCEPT ![p] = link]
      /\ throughout' = throughout \ ({p} \X Daemons)
      /\ ever' = ever \cup Named' /\ stale' = stale \cup Replaced'
      /\ UNCHANGED <<up, servers, file, tmp, saving, kept, blind, report, faulted>>
  BY DEF ProcessChanges, storeVars
<1>2. /\ exe' \in [Pids -> Links \cup {Absent}]
      /\ \A q \in Pids \ {p} : exe'[q] = exe[q]
  BY <1>1 DEF TypeOK
<1>3. TypeOK'
  BY <1>1, <1>2 DEF TypeOK
<1>4. throughout' \subseteq Healthy'
  <2> SUFFICES ASSUME NEW r \in throughout' PROVE r \in Healthy'
    OBVIOUS
  <2>1. r \in throughout /\ r \in Healthy /\ r \in Pids \X Daemons /\ r[1] # p
    <3>1. r \in throughout /\ r \notin {p} \X Daemons
      BY <1>1
    <3>2. r \in Pids \X Daemons /\ r \in Healthy
      BY <3>1, <1>1 DEF ReportOrder
    <3> QED BY <3>1, <3>2
  <2>2. exe'[r[1]] = exe[r[1]]
    BY <2>1, <1>2
  <2> QED BY <2>1, <2>2 DEF Healthy, Named, Fits
<1>5. ever' \subseteq Pids \X Daemons /\ stale' \subseteq Daemons
  <2>1. Named' \subseteq Pids \X Daemons /\ Replaced' \subseteq Daemons
    BY DEF Named, Replaced
  <2> QED BY <2>1, <1>1 DEF ReportOrder
<1>6. ReportOrder'
  BY <1>1, <1>4, <1>5 DEF ReportOrder, Fits
<1>7. ReportCovers'
  BY <1>1, <1>6 DEF ReportCovers, ReportOrder, Complete
<1> QED BY <1>1, <1>3, <1>6, <1>7, ReportKeepsServers DEF storeVars

LEMMA CrashInv ==
  ASSUME Inv, Crash
  PROVE  Inv'
<1> USE DEF Inv
<1>1. Nobody \in Known /\ Unseen \in [Pids -> Links \cup {Absent}]
  BY DEF Nobody, Known, Unseen
<1>2. /\ up' = FALSE /\ servers' = Nobody /\ saving' = Quiet /\ report' = NoReport /\ exe' = Unseen
      /\ throughout' = {} /\ ever' = {} /\ stale' = {} /\ faulted' = FALSE
      /\ UNCHANGED <<file, tmp, kept, blind>> /\ Stored' = Stored
  BY DEF Crash, Stored, TypeOK
<1>3. TypeOK'
  BY <1>1, <1>2 DEF TypeOK, NoReport
<1>4. ServersLast'
  BY <1>2 DEF ServersLast
<1> QED BY <1>2, <1>3, <1>4
        DEF SaveOrder, Quiet, ReportOrder, ReportCovers, Complete, NoReport

-----------------------------------------------------------------------------

LEMMA StepInv == ConstantsOK /\ Inv /\ [Next]_vars => Inv'
<1> SUFFICES ASSUME ConstantsOK, Inv, [Next]_vars PROVE Inv'
  OBVIOUS
<1>1. CASE Start
  BY <1>1, StoreStartInv
<1>2. ASSUME NEW s \in Servers, NEW cert \in Certs, AddServer(s, cert) PROVE Inv'
  BY <1>2, AddServerInv
<1>3. CASE TmpWritten \/ SaveFails
  BY <1>3, SaveStepInv
<1>4. CASE Renamed
  BY <1>4, RenamedInv
<1>5. CASE GetAttestation
  BY <1>5, GetAttestationInv
<1>6. ASSUME NEW p \in Pids, LinkRead(p) PROVE Inv'
  BY <1>6, LinkReadInv
<1>7. CASE ListingFails
  BY <1>7, ListingFailsInv
<1>8. ASSUME NEW d \in Daemons, Hashed(d) \/ NotHashed(d) PROVE Inv'
  BY <1>8, HashedInv
<1>9. CASE Signed
  BY <1>9, SignedInv
<1>10. ASSUME NEW p \in Pids, NEW link \in Links \cup {Absent}, ProcessChanges(p, link)
       PROVE  Inv'
  BY <1>10, ProcessChangesInv
<1>11. CASE Crash
  BY <1>11, CrashInv
<1>12. CASE UNCHANGED vars
  BY <1>12 DEF vars, storeVars, reportVars, Inv, TypeOK, SaveOrder, ServersLast, Stored,
               ReportOrder, Healthy, Named, Replaced, Fits, ReportCovers, Complete
<1> QED BY <1>1, <1>2, <1>3, <1>4, <1>5, <1>6, <1>7, <1>8, <1>9, <1>10, <1>11, <1>12 DEF Next

\* The invariant holds throughout.
THEOREM Invariance == ConstantsOK => (Spec => []Inv)
<1> SUFFICES ASSUME ConstantsOK PROVE Spec => []Inv
  OBVIOUS
<1>1. Init => Inv
  BY InitInv
<1>2. Inv /\ [Next]_vars => Inv'
  BY StepInv
<1> QED BY <1>1, <1>2, PTL DEF Spec

\* The variables keep their types, and a report never overlaps an addition.
THEOREM TypeCorrect == ConstantsOK => (Spec => []TypeOK)
<1> SUFFICES ASSUME ConstantsOK PROVE Spec => []TypeOK
  OBVIOUS
<1>1. Inv => TypeOK
  BY DEF Inv
<1> QED BY <1>1, Invariance, PTL

\* Any number of servers keep the fingerprints they were stored with, through
\* failed saves, deaths and restarts, as long as every start read the store.
THEOREM ServersAreKept == ConstantsOK => (Spec => []ServersLast)
<1> SUFFICES ASSUME ConstantsOK PROVE Spec => []ServersLast
  OBVIOUS
<1>1. Inv => ServersLast
  BY DEF Inv
<1> QED BY <1>1, Invariance, PTL

\* For any processes, paths and daemons, and wherever the names are found in the
\* paths: a report about to be signed names, for a daemon, a process that ran under
\* its name while it was made; and unless /proc, a link or a file could not be read,
\* it leaves out no daemon whose process ran throughout, but for one whose name a
\* process with a replaced file carried too.
THEOREM ReportIsComplete == ConstantsOK => (Spec => []ReportCovers)
<1> SUFFICES ASSUME ConstantsOK PROVE Spec => []ReportCovers
  OBVIOUS
<1>1. Inv => ReportCovers
  BY DEF Inv
<1> QED BY <1>1, Invariance, PTL
=============================================================================
