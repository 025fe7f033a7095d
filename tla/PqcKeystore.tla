---------------------------- MODULE PqcKeystore ----------------------------
(***************************************************************************)
(* services/pqc-keystore-rs: the map of key pairs behind one mutex, the    *)
(* JSON file of each entry, and the master key (KEK) in its own file       *)
(* (keystore.rs, main.rs).                                                 *)
(*                                                                         *)
(* File I/O is synchronous under the mutex, so requests do not interleave, *)
(* but the process can die between any two steps and a write may fail.     *)
(* std::fs::write truncates the file and then fills it: in between it holds*)
(* no JSON, and an open skips it.  Reads of intact files do not fail.      *)
(* A secret and a KEK are values told apart by equality only; requests that*)
(* change nothing (sign, encapsulate, decapsulate, list) are left out.     *)
(***************************************************************************)
CONSTANTS
  KeyIds,   \* key ids of requests
  Files,    \* names of entry files
  FileOf,   \* entry_path: the file of each id, its sanitised form and ".json"
  Bare,     \* the name that is all suffix, ".json": a file without extension
  Secrets,  \* secret keys that can be generated
  Keks,     \* KEKs that can be generated
  Absent,   \* no such file or entry
  Torn      \* a file that was truncated and not filled

ASSUME NamesAssumption ==
  /\ FileOf \in [KeyIds -> Files]
  /\ Absent # Torn
  /\ {Absent, Torn} \cap (Secrets \cup Keks) = {}

Entries == [id : KeyIds, secret : Secrets, kek : Keks]

ASSUME EntryAssumption == {Absent, Torn} \cap Entries = {}

VARIABLES
  up,      \* the daemon serves requests
  master,  \* master_key in memory
  held,    \* PqcKeystore.entries
  kekFile, \* <store_dir>/.kek
  file,    \* the entry files
  job,     \* file operation under way, under the mutex or in main()
  (* History, read by properties only: *)
  acked,   \* secret of the key pair whose generation was acknowledged, until a delete
  gone     \* ids whose file a delete has removed and that were not asked for again

vars == <<up, master, held, kekFile, file, job, acked, gone>>

NoJob == [kind |-> "none"]
Idle == job.kind = "none"

\* A fresh secret or KEK: one that is in use nowhere.
UsedSecrets ==
  {held[id].secret : id \in {i \in KeyIds : held[i] # Absent}}
    \cup {file[f].secret : f \in {g \in Files : file[g] \notin {Absent, Torn}}}
    \cup {acked[id] : id \in KeyIds}

UsedKeks ==
  {kekFile} \cup {file[f].kek : f \in {g \in Files : file[g] \notin {Absent, Torn}}}

-----------------------------------------------------------------------------
(* Start: derive_master_key, then open *)

\* A file that has the extension and parses.
Readable(f) == f # Bare /\ file[f] \notin {Absent, Torn}

\* Every such file is entered under the id it names.
Loaded ==
  [id \in KeyIds |->
     IF \E f \in Files : Readable(f) /\ file[f].id = id
       THEN file[CHOOSE f \in Files : Readable(f) /\ file[f].id = id]
       ELSE Absent]

Serves(k) ==
  /\ up' = TRUE
  /\ master' = k
  /\ held' = Loaded
  /\ job' = NoJob

\* A KEK file that is too short ends every start with an error.
StartRefused ==
  /\ ~up /\ Idle
  /\ kekFile = Torn
  /\ UNCHANGED vars

\* The KEK of an earlier run.
StartReadsKek ==
  /\ ~up /\ Idle
  /\ kekFile \in Keks
  /\ Serves(kekFile)
  /\ UNCHANGED <<kekFile, file, acked, gone>>

NeedsKek == kekFile = Absent

\* First run: the file of a random KEK is created...
StartMakesKek ==
  /\ ~up /\ Idle
  /\ NeedsKek
  /\ \E k \in Keks \ UsedKeks : job' = [kind |-> "kek", kek |-> k]
  /\ kekFile' = Torn
  /\ UNCHANGED <<up, master, held, file, acked, gone>>

\* ... and filled.
KekWritten ==
  /\ job.kind = "kek"
  /\ kekFile' = job.kek
  /\ Serves(job.kek)
  /\ UNCHANGED <<file, acked, gone>>

\* Faulty: the daemon serves with a KEK it could not store.
KekFailsUnnoticed ==
  /\ job.kind = "kek"
  /\ Serves(job.kek)
  /\ UNCHANGED <<kekFile, file, acked, gone>>

\* Or not: the process ends with an error.
KekFails ==
  /\ job.kind = "kek"
  /\ job' = NoJob
  /\ UNCHANGED <<up, master, held, kekFile, file, acked, gone>>

-----------------------------------------------------------------------------
(* generate_keypair *)

\* Faulty: an id in use may be generated again.
MayGenerateAgain(id) == TRUE

MayGenerate(id) == held[id] = Absent

\* The key pair is made and wrapped, its file truncated.
Generate(id) ==
  /\ up /\ Idle
  /\ MayGenerate(id)
  /\ \E s \in Secrets \ UsedSecrets :
       job' = [kind |-> "write", entry |-> [id |-> id, secret |-> s, kek |-> master]]
  /\ file' = [file EXCEPT ![FileOf[id]] = Torn]
  /\ gone' = gone \ {id}
  /\ UNCHANGED <<up, master, held, kekFile, acked>>

EntryWritten ==
  /\ job.kind = "write"
  /\ file' = [file EXCEPT ![FileOf[job.entry.id]] = job.entry]
  /\ job' = [kind |-> "insert", entry |-> job.entry]
  /\ UNCHANGED <<up, master, held, kekFile, acked, gone>>

\* Only a key that is stored enters the map and is acknowledged.
EntryInserted ==
  /\ job.kind = "insert"
  /\ held' = [held EXCEPT ![job.entry.id] = job.entry]
  /\ acked' = [acked EXCEPT ![job.entry.id] = job.entry.secret]
  /\ job' = NoJob
  /\ UNCHANGED <<up, master, kekFile, file, gone>>

\* The error is returned and the file left as it is.
WriteFails ==
  /\ job.kind = "write"
  /\ job' = NoJob
  /\ UNCHANGED <<up, master, held, kekFile, file, acked, gone>>

-----------------------------------------------------------------------------
(* delete_key *)

\* Faulty: the entry is looked up and stays in the map.
HeldWithoutKept(id) == held

HeldWithout(id) == [held EXCEPT ![id] = Absent]

Delete(id) ==
  /\ up /\ Idle
  /\ held[id] # Absent
  /\ held' = HeldWithout(id)
  /\ acked' = [acked EXCEPT ![id] = Absent]
  /\ job' = [kind |-> "remove", id |-> id]
  /\ UNCHANGED <<up, master, kekFile, file, gone>>

FileRemoved ==
  /\ job.kind = "remove"
  /\ file[FileOf[job.id]] # Absent
  /\ file' = [file EXCEPT ![FileOf[job.id]] = Absent]
  /\ gone' = gone \cup {job.id}
  /\ job' = NoJob
  /\ UNCHANGED <<up, master, held, kekFile, acked>>

\* The failure is logged; the reply is the same.
RemoveFails ==
  /\ job.kind = "remove"
  /\ job' = NoJob
  /\ UNCHANGED <<up, master, held, kekFile, file, acked, gone>>

-----------------------------------------------------------------------------
\* The process dies: the files stay as they are at that moment.
Crash ==
  /\ up \/ ~Idle
  /\ up' = FALSE
  /\ master' = Absent
  /\ held' = [id \in KeyIds |-> Absent]
  /\ job' = NoJob
  /\ UNCHANGED <<kekFile, file, acked, gone>>

Init ==
  /\ up = FALSE
  /\ master = Absent
  /\ held = [id \in KeyIds |-> Absent]
  /\ kekFile = Absent
  /\ file = [f \in Files |-> Absent]
  /\ job = NoJob
  /\ acked = [id \in KeyIds |-> Absent]
  /\ gone = {}

Next ==
  \/ StartRefused
  \/ StartReadsKek
  \/ StartMakesKek
  \/ KekWritten
  \/ KekFails
  \/ \E id \in KeyIds : Generate(id) \/ Delete(id)
  \/ EntryWritten
  \/ EntryInserted
  \/ WriteFails
  \/ FileRemoved
  \/ RemoveFails
  \/ Crash

Spec == Init /\ [][Next]_vars

-----------------------------------------------------------------------------
(* Properties *)

Jobs ==
  [kind : {"none"}] \cup [kind : {"kek"}, kek : Keks]
    \cup [kind : {"write", "insert"}, entry : Entries] \cup [kind : {"remove"}, id : KeyIds]

\* The variables have their types; a serving daemon has the stored KEK, and
\* an entry file is the one of the id it names.
TypeOK ==
  /\ up \in BOOLEAN
  /\ master \in Keks \cup {Absent}
  /\ held \in [KeyIds -> Entries \cup {Absent}]
  /\ kekFile \in Keks \cup {Absent, Torn}
  /\ file \in [Files -> Entries \cup {Absent, Torn}]
  /\ job \in Jobs
  /\ acked \in [KeyIds -> Secrets \cup {Absent}]
  /\ gone \in SUBSET KeyIds
  /\ up => master = kekFile /\ master \in Keks
  /\ \A f \in Files : file[f] \notin {Absent, Torn} => FileOf[file[f].id] = f

\* No other id has the file of id.
Alone(id) == \A other \in KeyIds \ {id} : FileOf[other] # FileOf[id]

\* Every start reads the file of id, which is no other id's.
HasFile(id) == FileOf[id] # Bare /\ Alone(id)

\* A key pair whose generation was acknowledged is served, the same one, until
\* somebody asks to delete it: through deaths, restarts and failed writes of
\* this and other keys.  Two kinds of ids are left out, since their keys are lost:
\* those that share a file, and the empty one, which generate_keypair accepts and
\* whose file ".json" has no extension, so that no start reads it.
KeysLast ==
  up => \A id \in KeyIds :
    HasFile(id) /\ acked[id] # Absent =>
      held[id] # Absent /\ held[id].secret = acked[id]

\* Every entry in the map was wrapped with the KEK that will unwrap it: the
\* XOR wrapping would not notice another one and sign with a wrong key.
EntriesUnwrap ==
  up => \A id \in KeyIds : held[id] # Absent => held[id].kek = master

\* A key whose file a delete removed is not in the map and does not come back
\* at any later start, unless it is generated again.
DeletedStayGone ==
  \A id \in gone : Alone(id) => held[id] = Absent /\ file[FileOf[id]] = Absent

\* A daemon that refuses to start for ever, its KEK file being too short, has
\* not lost a single acknowledged key.
TornKekLosesNothing ==
  kekFile = Torn => \A id \in KeyIds : acked[id] = Absent

\* keystore.rs:21 says an entry is stored as "<store_dir>/<key_id>.json": then
\* no acknowledged key can be lost to another one's id.
EveryKeyLasts ==
  up => \A id \in KeyIds : acked[id] # Absent => held[id] # Absent /\ held[id].secret = acked[id]
=============================================================================
