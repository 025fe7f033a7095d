--------------------------- MODULE Daemons_proofs ---------------------------
(***************************************************************************)
(* Each of the daemons of Daemons keeps its promises among the others, for *)
(* any values of the constants.  Where a daemon's invariant is not         *)
(* inductive by itself, <Daemon>Inv is the strengthening that is; the last *)
(* sections show that a step of all is a step or a stutter of each, and    *)
(* state the theorems.  SecureSettings_proofs, RemoteAttestation_proofs    *)
(* and SensorGuard_proofs prove theirs standing alone, and only their      *)
(* theorems are used here.                                                 *)
(***************************************************************************)
EXTENDS Daemons, SequenceTheorems, FiniteSetTheorems, WellFoundedInduction, TLAPS

-----------------------------------------------------------------------------
(* Numbers. *)

\* Nonempty sets of naturals have a least element.
LEMMA LeastExists ==
  ASSUME NEW I, I \subseteq Nat, I # {}
  PROVE  \E x \in I : \A y \in I : x <= y
<1>1. IsWellFoundedOn(OpToRel(<, Nat), Nat)
  BY NatLessThanWellFounded
<1>2. PICK x \in I : \A y \in I : ~(<<y, x>> \in OpToRel(<, Nat))
  BY <1>1, WFMin
<1>3. ASSUME NEW y \in I PROVE x <= y
  <2>1. x \in Nat /\ y \in Nat /\ ~(y < x)
    BY <1>2 DEF OpToRel
  <2> QED BY <2>1
<1> QED BY <1>3

\* A set of naturals without zero that contains, with each number, the one
\* before it is empty: induction, with a set for what is to be proved.
LEMMA NoneByDescent ==
  ASSUME NEW I, I \subseteq Nat, 0 \notin I, \A n \in Nat : n + 1 \in I => n \in I
  PROVE  I = {}
<1> SUFFICES ASSUME I # {} PROVE FALSE
  OBVIOUS
<1>1. PICK m \in I : \A n \in I : m <= n
  BY LeastExists
<1>2. m \in Nat /\ m - 1 \in Nat /\ (m - 1) + 1 = m /\ ~(m <= m - 1)
  BY <1>1
<1> QED BY <1>1, <1>2

-----------------------------------------------------------------------------
(* The keystore.  KeystoreInv says what the files know: every entry file is *)
(* wrapped with the stored KEK, an acknowledged key that has its file to     *)
(* itself is in it, and what the operation under way is about to write was   *)
(* never promised.                                                           *)

\* A file that holds an entry.
IsEntry(f) == file[f] \notin {Absent, Torn}

\* There are entries and promises only once the KEK is stored, and every
\* entry file is wrapped with it.
OneKek ==
  /\ \A f \in Files : IsEntry(f) => file[f].kek = kekFile
  /\ kekFile \notin Keks =>
       /\ \A f \in Files : ~IsEntry(f)
       /\ \A id \in KeyIds : acked[id] = Absent

\* The operation under way belongs to the process that is there, and nothing
\* was promised about its id or, for a removal, is served under it.
JobFits ==
  /\ job.kind = "kek" => ~up /\ kekFile = Torn
  /\ job.kind \in {"write", "insert"} =>
       /\ up
       /\ job.entry.kek = master
       /\ job.entry.id \notin gone
       /\ HasFile(job.entry.id) => acked[job.entry.id] = Absent
  /\ job.kind = "insert" => file[FileOf[job.entry.id]] = job.entry
  /\ job.kind = "remove" =>
       /\ up
       /\ held[job.id] = Absent
       /\ acked[job.id] = Absent

\* A promised key with a file of its own that starts read is in it, and served from it.
OnDisk ==
  \A id \in KeyIds : HasFile(id) /\ acked[id] # Absent =>
    /\ IsEntry(FileOf[id])
    /\ file[FileOf[id]].id = id /\ file[FileOf[id]].secret = acked[id]
    /\ up => held[id] = file[FileOf[id]]

KeystoreInv == TypeOK /\ OneKek /\ JobFits /\ OnDisk /\ EntriesUnwrap /\ DeletedStayGone

-----------------------------------------------------------------------------
\* What an open loads under an id comes from the file of that id.
LEMMA LoadedIsFile ==
  ASSUME TypeOK, NEW id \in KeyIds
  PROVE  /\ Loaded[id] \in Entries \cup {Absent}
         /\ Loaded[id] # Absent => Loaded[id] = file[FileOf[id]] /\ IsEntry(FileOf[id])
         /\ IsEntry(FileOf[id]) /\ FileOf[id] # Bare /\ file[FileOf[id]].id = id =>
              Loaded[id] = file[FileOf[id]]
<1> DEFINE Has(f) == Readable(f) /\ file[f].id = id
<1>1. FileOf[id] \in Files
  BY NamesAssumption
<1>2. CASE \E f \in Files : Has(f)
  <2>1. PICK g \in Files : g = (CHOOSE f \in Files : Has(f)) /\ Has(g)
    BY <1>2
  <2>2. Loaded[id] = file[g]
    BY <1>2, <2>1 DEF Loaded
  <2>3. FileOf[id] = g
    BY <2>1 DEF TypeOK, Readable
  <2>4. file[g] \in Entries
    BY <2>1 DEF TypeOK, Readable
  <2> QED
    BY <2>1, <2>2, <2>3, <2>4 DEF IsEntry, Readable
<1>3. CASE ~ \E f \in Files : Has(f)
  <2>1. Loaded[id] = Absent
    BY <1>3 DEF Loaded
  <2> QED
    BY <2>1, <1>1, <1>3 DEF IsEntry, Readable
<1> QED
  BY <1>2, <1>3

\* The keystore starts with nothing stored and nothing promised.
LEMMA KeystoreInitInv == Init => KeystoreInv
<1> SUFFICES ASSUME Init PROVE KeystoreInv
  OBVIOUS
<1> USE NamesAssumption DEF Init, NoJob
<1>1. TypeOK
  BY DEF TypeOK, Jobs
<1>2. OneKek /\ JobFits /\ OnDisk /\ EntriesUnwrap /\ DeletedStayGone
  BY DEF OneKek, JobFits, OnDisk, EntriesUnwrap, DeletedStayGone, IsEntry
<1> QED
  BY <1>1, <1>2 DEF KeystoreInv

-----------------------------------------------------------------------------
\* A start that serves with the stored KEK.
LEMMA StartKeeps ==
  ASSUME KeystoreInv, NEW k \in Keks, Serves(k), kekFile' = k, UNCHANGED <<file, acked, gone>>,
         kekFile \in Keks => k = kekFile
  PROVE  KeystoreInv'
<1> USE NamesAssumption, EntryAssumption
<1>1. \A id \in KeyIds : held'[id] = Loaded[id]
  BY DEF Serves, Loaded
<1>2. TypeOK'
  <2>1. held' \in [KeyIds -> Entries \cup {Absent}]
    <3>1. held' = [id \in KeyIds |-> held'[id]]
      BY DEF Serves, Loaded
    <3> QED
      BY <1>1, <3>1, LoadedIsFile DEF KeystoreInv
  <2> QED
    BY <2>1 DEF KeystoreInv, TypeOK, Serves, NoJob, Jobs
<1>3. OneKek'
  BY DEF KeystoreInv, OneKek, IsEntry
<1>4. JobFits'
  BY DEF Serves, NoJob, JobFits
<1>5. OnDisk'
  BY <1>1, LoadedIsFile DEF KeystoreInv, OnDisk, HasFile, Alone, IsEntry, Serves
<1>6. EntriesUnwrap'
  BY <1>1, <1>3, LoadedIsFile DEF KeystoreInv, EntriesUnwrap, OneKek, IsEntry, Serves, TypeOK
<1>7. DeletedStayGone'
  BY <1>1, LoadedIsFile DEF KeystoreInv, DeletedStayGone, HasFile, Alone, IsEntry, TypeOK
<1> QED
  BY <1>2, <1>3, <1>4, <1>5, <1>6, <1>7 DEF KeystoreInv

\* No operation, failure or death of the keystore breaks its invariant.
LEMMA KeystoreStepInv == KeystoreInv /\ [Next]_vars => KeystoreInv'
<1> SUFFICES ASSUME KeystoreInv, [Next]_vars PROVE KeystoreInv'
  OBVIOUS
<1> USE NamesAssumption, EntryAssumption
<1>1. CASE StartRefused \/ UNCHANGED vars
  BY <1>1 DEF StartRefused, vars, KeystoreInv, TypeOK, OneKek, JobFits, OnDisk, EntriesUnwrap,
     DeletedStayGone, IsEntry, HasFile, Alone
<1>2. CASE StartReadsKek
  BY <1>2, StartKeeps DEF StartReadsKek
<1>3. CASE StartMakesKek
  <2> USE <1>3 DEF StartMakesKek, NeedsKek
  <2>1. TypeOK'
    BY DEF KeystoreInv, TypeOK, Jobs
  <2>2. OneKek' /\ JobFits'
    BY DEF KeystoreInv, OneKek, JobFits, IsEntry
  <2>3. OnDisk' /\ EntriesUnwrap' /\ DeletedStayGone'
    BY DEF KeystoreInv, OnDisk, EntriesUnwrap, DeletedStayGone, IsEntry, HasFile, Alone
  <2> QED
    BY <2>1, <2>2, <2>3 DEF KeystoreInv
<1>4. CASE KekWritten
  <2>1. job.kek \in Keks /\ kekFile = Torn
    BY <1>4 DEF KekWritten, KeystoreInv, TypeOK, Jobs, JobFits
  <2> QED
    BY <1>4, <2>1, StartKeeps DEF KekWritten
<1>5. CASE KekFails \/ WriteFails \/ RemoveFails
  BY <1>5 DEF KekFails, WriteFails, RemoveFails, NoJob, KeystoreInv, TypeOK, Jobs, OneKek, JobFits,
     OnDisk, EntriesUnwrap, DeletedStayGone, IsEntry, HasFile, Alone
<1>6. ASSUME NEW id \in KeyIds, Generate(id) PROVE KeystoreInv'
  <2>1. PICK s \in Secrets \ UsedSecrets :
          job' = [kind |-> "write", entry |-> [id |-> id, secret |-> s, kek |-> master]]
    BY <1>6 DEF Generate
  <2> USE <1>6, <2>1 DEF Generate
  <2>2. TypeOK'
    BY DEF KeystoreInv, TypeOK, Jobs, Entries
  <2>3. OneKek'
    BY DEF KeystoreInv, OneKek, IsEntry, TypeOK
  <2>4. HasFile(id) => acked[id] = Absent
    BY DEF MayGenerate, KeystoreInv, OnDisk, IsEntry
  <2>5. JobFits'
    BY <2>4 DEF JobFits, HasFile, Alone
  <2>6. OnDisk'
    BY <2>4 DEF KeystoreInv, OnDisk, IsEntry, HasFile, Alone, TypeOK
  <2>7. EntriesUnwrap' /\ DeletedStayGone'
    BY DEF KeystoreInv, EntriesUnwrap, DeletedStayGone, HasFile, Alone, TypeOK
  <2> QED
    BY <2>2, <2>3, <2>5, <2>6, <2>7 DEF KeystoreInv
<1>7. ASSUME NEW id \in KeyIds, Delete(id) PROVE KeystoreInv'
  <2> USE <1>7 DEF Delete, HeldWithout
  <2>1. TypeOK'
    BY DEF KeystoreInv, TypeOK, Jobs
  <2>2. OneKek' /\ JobFits'
    BY DEF KeystoreInv, OneKek, JobFits, IsEntry, TypeOK
  <2>3. OnDisk' /\ EntriesUnwrap' /\ DeletedStayGone'
    BY DEF KeystoreInv, OnDisk, EntriesUnwrap, DeletedStayGone, IsEntry, HasFile, Alone, TypeOK
  <2> QED
    BY <2>1, <2>2, <2>3 DEF KeystoreInv
<1>8. CASE EntryWritten
  <2> DEFINE e == job.entry
  <2>1. job \in [kind : {"write", "insert"}, entry : Entries] /\ job.kind = "write"
    BY <1>8 DEF EntryWritten, KeystoreInv, TypeOK, Jobs
  <2>2. e \in Entries /\ e.id \in KeyIds /\ FileOf[e.id] \in Files
    BY <2>1 DEF Entries
  <2> USE <1>8, <2>1, <2>2 DEF EntryWritten
  <2>3. TypeOK'
    BY DEF KeystoreInv, TypeOK, Jobs
  <2>4. OneKek'
    BY DEF KeystoreInv, OneKek, IsEntry, TypeOK, JobFits
  <2>5. JobFits'
    BY DEF KeystoreInv, JobFits, HasFile, Alone, TypeOK
  <2>6. OnDisk'
    BY DEF KeystoreInv, OnDisk, IsEntry, HasFile, Alone, TypeOK, JobFits
  <2>7. EntriesUnwrap' /\ DeletedStayGone'
    BY DEF KeystoreInv, EntriesUnwrap, DeletedStayGone, HasFile, Alone, TypeOK, JobFits
  <2> QED
    BY <2>3, <2>4, <2>5, <2>6, <2>7 DEF KeystoreInv
<1>9. CASE EntryInserted
  <2> DEFINE e == job.entry
  <2>1. job \in [kind : {"write", "insert"}, entry : Entries] /\ job.kind = "insert"
    BY <1>9 DEF EntryInserted, KeystoreInv, TypeOK, Jobs
  <2>2. e \in Entries /\ e.id \in KeyIds /\ FileOf[e.id] \in Files /\ e.secret \in Secrets
    BY <2>1 DEF Entries
  <2> USE <1>9, <2>1, <2>2 DEF EntryInserted
  <2>3. TypeOK'
    BY DEF KeystoreInv, TypeOK, Jobs, NoJob
  <2>4. OneKek' /\ JobFits'
    BY DEF KeystoreInv, OneKek, IsEntry, TypeOK, JobFits, NoJob
  <2>5. OnDisk'
    BY DEF KeystoreInv, OnDisk, IsEntry, HasFile, Alone, TypeOK, JobFits
  <2>6. EntriesUnwrap' /\ DeletedStayGone'
    BY DEF KeystoreInv, EntriesUnwrap, DeletedStayGone, HasFile, Alone, TypeOK, JobFits
  <2> QED
    BY <2>3, <2>4, <2>5, <2>6 DEF KeystoreInv
<1>10. CASE FileRemoved
  <2>1. job \in [kind : {"remove"}, id : KeyIds]
    BY <1>10 DEF FileRemoved, KeystoreInv, TypeOK, Jobs
  <2>2. job.id \in KeyIds /\ FileOf[job.id] \in Files
    BY <2>1
  <2> USE <1>10, <2>1, <2>2 DEF FileRemoved
  <2>3. TypeOK'
    BY DEF KeystoreInv, TypeOK, Jobs, NoJob
  <2>4. OneKek' /\ JobFits'
    BY DEF KeystoreInv, OneKek, IsEntry, TypeOK, JobFits, NoJob
  <2>5. OnDisk' /\ EntriesUnwrap' /\ DeletedStayGone'
    BY DEF KeystoreInv, OnDisk, EntriesUnwrap, DeletedStayGone, IsEntry, HasFile, Alone, TypeOK, JobFits
  <2> QED
    BY <2>3, <2>4, <2>5 DEF KeystoreInv
<1>11. CASE Crash
  BY <1>11 DEF Crash, NoJob, KeystoreInv, TypeOK, Jobs, OneKek, JobFits,
     OnDisk, EntriesUnwrap, DeletedStayGone, IsEntry, HasFile, Alone
<1> QED
  BY <1>1, <1>2, <1>3, <1>4, <1>5, <1>6, <1>7, <1>8, <1>9, <1>10, <1>11 DEF Next

\* Every behaviour keeps the inductive invariant.
LEMMA KeystoreAlways == Spec => []KeystoreInv
BY KeystoreInitInv, KeystoreStepInv, PTL DEF Spec

-----------------------------------------------------------------------------
(* The network policy: its types, and what an engine made of a file decides. *)

\* The policy daemon starts with its variables in their types.
LEMMA PolicyInitType == Policy!Init => Policy!TypeOK
BY DEF Policy!Init, Policy!TypeOK, Policy!Engines

\* Starts, reloads, edits and deaths keep the types: what a file gives is an
\* engine.
LEMMA PolicyStepType == Policy!TypeOK /\ [Policy!Next]_(Policy!vars) => Policy!TypeOK'
<1> SUFFICES ASSUME Policy!TypeOK, [Policy!Next]_(Policy!vars) PROVE Policy!TypeOK'
  OBVIOUS
<1>1. rulesFile # Unreadable => Policy!LoadFromFile(rulesFile) \in Policy!Engines
  BY DEF Policy!TypeOK, Policy!Engines
<1>2. <<>> \in Policy!Engines
  BY DEF Policy!Engines
<1>3. CASE Policy!Start
  BY <1>1, <1>2, <1>3 DEF Policy!Start, Policy!TypeOK
<1>4. CASE Policy!ReloadReads
  BY <1>1, <1>4 DEF Policy!ReloadReads, Policy!TypeOK
<1>5. CASE Policy!ReloadInstalls
  <2>1. PICK e \in Policy!Engines : loaded = <<e>>
    BY <1>5 DEF Policy!ReloadInstalls, Policy!TypeOK
  <2>2. Head(loaded) = e
    BY <2>1
  <2> QED BY <1>5, <2>2 DEF Policy!ReloadInstalls, Policy!TypeOK
<1>6. CASE Policy!Edit
  BY <1>6 DEF Policy!Edit, Policy!TypeOK
<1>7. CASE Policy!Crash
  BY <1>2, <1>7 DEF Policy!Crash, Policy!TypeOK
<1>8. CASE UNCHANGED Policy!vars
  BY <1>8 DEF Policy!vars, Policy!TypeOK
<1> QED BY <1>3, <1>4, <1>5, <1>6, <1>7, <1>8 DEF Policy!Next

\* A rule of a file that counts is the only one for its uid that does.
LEMMA PolicyOneRuleWins ==
  ASSUME NEW l, DOMAIN l = 1 .. Len(l), Len(l) \in Nat,
         NEW j \in DOMAIN l, NEW k \in DOMAIN l,
         l[j].uid = l[k].uid, Policy!Wins(l, j), Policy!Wins(l, k)
  PROVE  j = k
<1>1. ~(j < k) /\ ~(k < j)
  BY DEF Policy!Wins
<1> QED BY <1>1

\* A list of patterns matches a destination where one of them does.
LEMMA PolicyPatternByPattern ==
  \A patterns, d : Policy!Matches(patterns, d) <=> \E p \in patterns : Policy!Matches({p}, d)
BY DEF Policy!Matches

\* The engine made of a file allows what the file permits: the last rule of an
\* uid counts, unless it denies all or a pattern it denies matches, as
\* load_from_file inserts the rules into a map one after another.
LEMMA PolicyDecidedAsWritten ==
  ASSUME NEW l, DOMAIN l = 1 .. Len(l), Len(l) \in Nat, NEW u, NEW d
  PROVE  (Policy!Evaluate(Policy!LoadFromFile(l), u, d) = "allow") <=> Policy!Permits(l, u, d)
<1> DEFINE engine == Policy!LoadFromFile(l)
           Counts(k) == l[k].uid = u /\ Policy!Wins(l, k)
<1>1. DOMAIN engine = {l[k].uid : k \in DOMAIN l}
  BY DEF Policy!LoadFromFile
<1>2. Policy!Permits(l, u, d) <=> \E k \in DOMAIN l :
        /\ Counts(k) /\ ~l[k].deny_all
        /\ Policy!Matches(l[k].allow, d) /\ ~Policy!Matches(l[k].deny, d)
  <2>1. \A k \in DOMAIN l : Policy!Wins(l, k) <=> \A j \in DOMAIN l : j > k => l[j].uid # l[k].uid
    BY DEF Policy!Wins
  <2> QED BY <2>1, PolicyPatternByPattern DEF Policy!Permits
<1>3. CASE ~\E k \in DOMAIN l : l[k].uid = u
  BY <1>1, <1>2, <1>3 DEF Policy!Evaluate
<1>4. CASE \E k \in DOMAIN l : l[k].uid = u
  <2>1. \E k \in DOMAIN l : Counts(k)
    <3> DEFINE I == {m \in Nat : \E k \in DOMAIN l : l[k].uid = u /\ m = Len(l) - k}
    <3>1. I \subseteq Nat /\ I # {}
      BY <1>4
    <3>2. PICK m \in I : \A o \in I : m <= o
      <4> HIDE DEF I
      <4> QED BY <3>1, LeastExists
    <3>3. PICK k \in DOMAIN l : l[k].uid = u /\ m = Len(l) - k
      BY <3>2
    <3>4. ASSUME NEW j \in k + 1 .. Len(l), l[j].uid = u PROVE FALSE
      <4>1. j \in DOMAIN l /\ Len(l) - j \in Nat /\ ~(m <= Len(l) - j)
        BY <3>3
      <4>2. Len(l) - j \in I
        BY <3>4, <4>1
      <4> HIDE DEF I
      <4> QED BY <3>2, <4>1, <4>2
    <3> QED BY <3>3, <3>4 DEF Policy!Wins
  <2>2. PICK k \in DOMAIN l : Counts(k)
    BY <2>1
  <2>3. engine[u] = l[k]
    <3>1. u \in {l[j].uid : j \in DOMAIN l}
      BY <1>4
    <3>2. engine[u] = l[CHOOSE j \in DOMAIN l : Counts(j)]
      BY <3>1 DEF Policy!LoadFromFile
    <3>3. (CHOOSE j \in DOMAIN l : Counts(j)) = k
      BY <2>2, PolicyOneRuleWins
    <3> QED BY <3>2, <3>3
  <2>4. \A j \in DOMAIN l : Counts(j) => j = k
    BY <2>2, PolicyOneRuleWins
  <2> QED BY <1>1, <1>2, <2>2, <2>3, <2>4 DEF Policy!Evaluate
<1> QED BY <1>3, <1>4

-----------------------------------------------------------------------------
(* The media coordinator.  That running codecs are wanted is not inductive:  *)
(* a kill makes the codec of its entry an unwanted one, so that no other     *)
(* entry may stand for it, and a codec that is started must not be one that  *)
(* was killed.                                                               *)

\* Each entry stands for a codec of its own, given out in this life and not killed.
MediaRootsDiffer ==
  /\ killed \subseteq 1 .. last_id
  /\ \A i \in DOMAIN processes :
       /\ processes[i].root \in (1 .. last_id) \ killed
       /\ \A j \in DOMAIN processes : processes[j].root = processes[i].root => i = j

MediaInv == Media!TypeOK /\ MediaRootsDiffer /\ Media!CodecsAreWanted

\* What can stand in the table of processes.
MediaRoles == [role : {"codec", "zombie"}, root : Media!Ids] \cup {Media!Free, Media!Stranger}

\* Entries of the process table, and what becomes of them.
LEMMA MediaRoleParts ==
  ASSUME NEW e \in MediaRoles
  PROVE  /\ e.role \in {"free", "stranger", "codec", "zombie"}
         /\ e.role = "free" => e = Media!Free
         /\ e.role = "stranger" => e = Media!Stranger
         /\ e.role = "codec" => Media!Leaves(e) \in MediaRoles /\ Media!Leaves(e).role # "codec"
<1>1. e.role \in {"free", "stranger", "codec", "zombie"}
  BY DEF MediaRoles, Media!Free, Media!Stranger
<1>2. (e.role = "free" => e = Media!Free) /\ (e.role = "stranger" => e = Media!Stranger)
  BY DEF MediaRoles, Media!Free, Media!Stranger
<1>3. ASSUME e.role = "codec" PROVE Media!Leaves(e) \in MediaRoles /\ Media!Leaves(e).role # "codec"
  <2>1. PICK r \in {"codec", "zombie"}, n \in Media!Ids : e = [role |-> r, root |-> n]
    BY <1>3 DEF MediaRoles, Media!Free, Media!Stranger
  <2>2. [e EXCEPT !.role = "zombie"] = [role |-> "zombie", root |-> n]
    BY <2>1
  <2> QED BY <2>2 DEF Media!Leaves, MediaRoles, Media!Free
<1> QED BY <1>1, <1>2, <1>3

\* A coordinator that starts has no entries and runs no codec.
LEMMA MediaInitInv == Media!ConstantsOK /\ Media!Init => MediaInv
<1> SUFFICES ASSUME Media!ConstantsOK, Media!Init PROVE MediaInv
  OBVIOUS
<1>1. DOMAIN processes = {}
  BY DEF Media!Init
<1>2. processes \in [DOMAIN processes -> Media!Procs]
  BY <1>1 DEF Media!Init
<1>3. Media!TypeOK
  BY <1>1, <1>2 DEF Media!Init, Media!TypeOK, Media!ConstantsOK
<1>4. \A pid \in Pids : table[pid].role = "free"
  BY DEF Media!Init, Media!Free
<1> QED BY <1>1, <1>3, <1>4 DEF Media!Init, MediaInv, MediaRootsDiffer, Media!CodecsAreWanted

\* The entries without one of them.
LEMMA MediaRemoved ==
  ASSUME NEW id
  PROVE  LET rest == Media!Restrict(processes, DOMAIN processes \ {id}) IN
         /\ DOMAIN rest = DOMAIN processes \ {id}
         /\ \A i \in DOMAIN processes \ {id} : rest[i] = processes[i]
         /\ rest = [i \in DOMAIN processes \ {id} |-> processes[i]]
BY DEF Media!Restrict

\* A child that is started under the next id keeps the invariant, when its root
\* stands for nobody else that is left.
LEMMA MediaStartsInv ==
  ASSUME Media!ConstantsOK, MediaInv,
         NEW lost, NEW root \in 1 .. last_id', NEW n \in 0 .. MaxRestarts,
         last_id < MaxId, last_id' = last_id + 1, root \notin killed,
         \A i \in DOMAIN processes \ lost : processes[i].root # root,
         \A i \in DOMAIN processes \cap lost : table[processes[i].pid].role # "codec",
         Media!Starts([i \in DOMAIN processes \ lost |-> processes[i]], root, n),
         UNCHANGED <<reaping, killed>>, sweep' \subseteq sweep
  PROVE  MediaInv'
<1> DEFINE known == [i \in DOMAIN processes \ lost |-> processes[i]]
           new == last_id + 1
<1>1. PICK pid \in Pids :
        /\ table[pid] = Media!Free
        /\ table' = [table EXCEPT ![pid] = Media!Codec(root)]
        /\ processes' = [i \in DOMAIN known \cup {new} |->
             IF i = new THEN [pid |-> pid, restarts |-> n, root |-> root] ELSE known[i]]
  BY DEF Media!Starts
<1>2. /\ last_id \in Nat /\ MaxId \in Nat /\ new \in Media!Ids /\ root \in Media!Ids
      /\ DOMAIN processes \subseteq 1 .. last_id /\ new \notin DOMAIN processes
  BY DEF MediaInv, Media!TypeOK, Media!ConstantsOK, Media!Ids
<1>3. /\ DOMAIN processes' = (DOMAIN processes \ lost) \cup {new}
      /\ processes'[new] = [pid |-> pid, restarts |-> n, root |-> root]
      /\ \A i \in DOMAIN processes \ lost : processes'[i] = processes[i]
  BY <1>1, <1>2
<1>4. Media!TypeOK'
  <2>1. processes' \in [DOMAIN processes' -> Media!Procs]
    <3>1. \A i \in DOMAIN processes' : processes'[i] \in Media!Procs
      BY <1>2, <1>3 DEF MediaInv, Media!TypeOK, Media!Procs
    <3>2. processes' = [i \in DOMAIN processes' |-> processes'[i]]
      BY <1>1
    <3> QED BY <3>1, <3>2
  <2>2. table' \in [Pids -> [role : {"codec", "zombie"}, root : Media!Ids]
                               \cup {Media!Free, Media!Stranger}]
    BY <1>1, <1>2 DEF MediaInv, Media!TypeOK, Media!Codec
  <2>3. /\ DOMAIN processes' \subseteq 1 .. last_id' /\ last_id' \in 0 .. MaxId
        /\ sweep' \subseteq 1 .. last_id'
    BY <1>2, <1>3 DEF MediaInv, Media!TypeOK
  <2> QED BY <2>1, <2>2, <2>3 DEF MediaInv, Media!TypeOK
<1>5. MediaRootsDiffer'
  <2>1. killed' \subseteq 1 .. last_id'
    BY <1>2 DEF MediaInv, MediaRootsDiffer
  <2>2. \A i \in DOMAIN processes' : processes'[i].root \in (1 .. last_id') \ killed'
    BY <1>2, <1>3 DEF MediaInv, MediaRootsDiffer
  <2>3. \A i, j \in DOMAIN processes' : processes'[j].root = processes'[i].root => i = j
    BY <1>3 DEF MediaInv, MediaRootsDiffer
  <2> QED BY <2>1, <2>2, <2>3 DEF MediaRootsDiffer
<1>6. Media!CodecsAreWanted'
  <2> SUFFICES ASSUME NEW q \in Pids, table'[q].role = "codec"
               PROVE  /\ table'[q].root \notin killed
                      /\ \E i \in DOMAIN processes' :
                           processes'[i].pid = q /\ processes'[i].root = table'[q].root
    BY DEF Media!CodecsAreWanted
  <2>1. CASE q = pid
    BY <1>1, <1>3, <2>1 DEF MediaInv, Media!TypeOK, Media!Codec
  <2>2. CASE q # pid
    <3>1. table'[q] = table[q]
      BY <1>1, <2>2 DEF MediaInv, Media!TypeOK
    <3>2. PICK i \in DOMAIN processes : processes[i].pid = q /\ processes[i].root = table[q].root
      BY <3>1 DEF MediaInv, Media!CodecsAreWanted
    <3>3. i \notin lost
      BY <3>1, <3>2
    <3>4. table[q].root \notin killed
      BY <3>1 DEF MediaInv, Media!CodecsAreWanted
    <3> QED BY <1>3, <3>1, <3>2, <3>3, <3>4
  <2> QED BY <2>1, <2>2
<1> QED BY <1>4, <1>5, <1>6 DEF MediaInv

\* Entries whose pid runs no codec can be taken away.
LEMMA MediaLossInv ==
  ASSUME Media!ConstantsOK, MediaInv,
         NEW id \in DOMAIN processes, table[processes[id].pid].role # "codec",
         processes' = Media!Restrict(processes, DOMAIN processes \ {id}),
         last_id' \in {last_id, last_id + 1}, last_id' <= MaxId,
         UNCHANGED <<reaping, killed, table>>, sweep' \subseteq sweep
  PROVE  MediaInv'
<1>1. /\ DOMAIN processes' = DOMAIN processes \ {id}
      /\ \A i \in DOMAIN processes' : processes'[i] = processes[i]
      /\ processes' = [i \in DOMAIN processes' |-> processes'[i]]
  BY MediaRemoved
<1>2. /\ last_id \in Nat /\ MaxId \in Nat /\ last_id' \in Nat /\ last_id <= last_id'
      /\ \A n \in 1 .. last_id : n \in 1 .. last_id'
  BY DEF MediaInv, Media!TypeOK, Media!ConstantsOK
<1>3. Media!TypeOK'
  <2>1. processes' \in [DOMAIN processes' -> Media!Procs]
    <3>1. \A i \in DOMAIN processes' : processes'[i] \in Media!Procs
      BY <1>1 DEF MediaInv, Media!TypeOK
    <3> QED BY <1>1, <3>1
  <2>2. DOMAIN processes' \subseteq 1 .. last_id' /\ sweep' \subseteq 1 .. last_id'
    BY <1>1, <1>2 DEF MediaInv, Media!TypeOK
  <2>3. last_id' \in 0 .. MaxId
    BY <1>2
  <2> QED BY <2>1, <2>2, <2>3 DEF MediaInv, Media!TypeOK
<1>4. MediaRootsDiffer'
  <2>1. killed' \subseteq 1 .. last_id'
    BY <1>2 DEF MediaInv, MediaRootsDiffer
  <2>2. \A i \in DOMAIN processes' : processes'[i].root \in (1 .. last_id') \ killed'
    BY <1>1, <1>2 DEF MediaInv, MediaRootsDiffer
  <2>3. \A i, j \in DOMAIN processes' : processes'[j].root = processes'[i].root => i = j
    BY <1>1 DEF MediaInv, MediaRootsDiffer
  <2> QED BY <2>1, <2>2, <2>3 DEF MediaRootsDiffer
<1>5. Media!CodecsAreWanted'
  <2> SUFFICES ASSUME NEW q \in Pids, table[q].role = "codec"
               PROVE  /\ table[q].root \notin killed
                      /\ \E i \in DOMAIN processes' :
                           processes'[i].pid = q /\ processes'[i].root = table[q].root
    BY DEF Media!CodecsAreWanted
  <2>1. PICK i \in DOMAIN processes : processes[i].pid = q /\ processes[i].root = table[q].root
    BY DEF MediaInv, Media!CodecsAreWanted
  <2>2. i # id /\ table[q].root \notin killed
    BY <2>1 DEF MediaInv, Media!CodecsAreWanted
  <2> QED BY <1>1, <2>1, <2>2
<1> QED BY <1>3, <1>4, <1>5 DEF MediaInv

\* A check of an entry loses it, or starts its codec again under a new id.
LEMMA MediaRestartInv ==
  ASSUME Media!ConstantsOK, MediaInv,
         NEW id \in Nat, Media!CheckAndRestart(id), sweep' \subseteq sweep
  PROVE  MediaInv'
<1> DEFINE p == processes[id]
           rest == Media!Restrict(processes, DOMAIN processes \ {id})
<1>1. id \in DOMAIN processes /\ table[p.pid].role = "free" /\ UNCHANGED <<reaping, killed>>
  BY DEF Media!CheckAndRestart, Media!IsPidAlive
<1>2. /\ p \in Media!Procs /\ last_id \in Nat /\ last_id <= MaxId
      /\ MaxId \in Nat /\ MaxRestarts \in Nat
  BY <1>1 DEF MediaInv, Media!TypeOK, Media!ConstantsOK
<1>3. CASE /\ processes' = rest /\ table' = table
           /\ last_id' \in {last_id, last_id + 1} /\ last_id' <= MaxId
  BY <1>1, <1>3, MediaLossInv
<1>4. CASE /\ p.restarts < MaxRestarts /\ last_id < MaxId /\ last_id' = last_id + 1
           /\ Media!Starts(rest, p.root, p.restarts + 1)
  <2>1. rest = [i \in DOMAIN processes \ {id} |-> processes[i]]
    BY MediaRemoved
  <2>2. p.root \in 1 .. last_id' /\ p.restarts + 1 \in 0 .. MaxRestarts
    BY <1>1, <1>2, <1>4 DEF Media!Procs, MediaInv, MediaRootsDiffer
  <2>3. p.root \notin killed /\ \A i \in DOMAIN processes \ {id} : processes[i].root # p.root
    BY <1>1 DEF MediaInv, MediaRootsDiffer
  <2> QED BY <1>1, <1>4, <2>1, <2>2, <2>3, MediaStartsInv
<1> QED BY <1>2, <1>3, <1>4 DEF Media!CheckAndRestart

\* A kill takes the entry away and signals its pid, whoever has it by then.
LEMMA MediaKillInv ==
  ASSUME Media!ConstantsOK, MediaInv, NEW id \in Nat, Media!KillCodec(id)
  PROVE  MediaInv'
<1> DEFINE p == processes[id]
           e == table[p.pid]
           after == CASE e.role = "codec" -> Media!Leaves(e)
                      [] e.role = "stranger" -> Media!Free
                      [] OTHER -> e
<1>1. /\ id \in DOMAIN processes /\ killed' = killed \cup {p.root}
      /\ UNCHANGED <<reaping, last_id, sweep>>
  BY DEF Media!KillCodec
<1>2. /\ p \in Media!Procs /\ p.pid \in Pids /\ e \in MediaRoles
      /\ p.root \in 1 .. last_id /\ p.root \in Media!Ids
  BY <1>1 DEF MediaInv, Media!TypeOK, Media!Procs, MediaRoles, MediaRootsDiffer
<1>3. after \in MediaRoles /\ after.role # "codec"
  BY <1>2, MediaRoleParts DEF MediaRoles, Media!Free
<1>4. /\ table' \in [Pids -> MediaRoles] /\ table'[p.pid] = after
      /\ \A q \in Pids \ {p.pid} : table'[q] = table[q]
  BY <1>2, <1>3 DEF Media!KillCodec, MediaInv, Media!TypeOK, MediaRoles
<1>5. /\ DOMAIN processes' = DOMAIN processes \ {id}
      /\ \A i \in DOMAIN processes' : processes'[i] = processes[i]
      /\ processes' = [i \in DOMAIN processes' |-> processes'[i]]
  BY MediaRemoved DEF Media!KillCodec, Media!Without
<1>6. Media!TypeOK'
  <2>1. processes' \in [DOMAIN processes' -> Media!Procs]
    <3>1. \A i \in DOMAIN processes' : processes'[i] \in Media!Procs
      BY <1>5 DEF MediaInv, Media!TypeOK
    <3> QED BY <1>5, <3>1
  <2>2. DOMAIN processes' \subseteq 1 .. last_id'
    BY <1>1, <1>5 DEF MediaInv, Media!TypeOK
  <2> QED BY <1>1, <1>2, <1>4, <2>1, <2>2 DEF MediaInv, Media!TypeOK, MediaRoles
<1>7. MediaRootsDiffer'
  BY <1>1, <1>2, <1>5 DEF MediaInv, MediaRootsDiffer
<1>8. Media!CodecsAreWanted'
  <2> SUFFICES ASSUME NEW q \in Pids, table'[q].role = "codec"
               PROVE  /\ table'[q].root \notin killed'
                      /\ \E i \in DOMAIN processes' :
                           processes'[i].pid = q /\ processes'[i].root = table'[q].root
    BY DEF Media!CodecsAreWanted
  <2>1. q # p.pid /\ table'[q] = table[q]
    BY <1>3, <1>4
  <2>2. PICK i \in DOMAIN processes : processes[i].pid = q /\ processes[i].root = table[q].root
    BY <2>1 DEF MediaInv, Media!CodecsAreWanted
  <2>3. i # id /\ table[q].root # p.root
    BY <1>1, <2>1, <2>2 DEF MediaInv, MediaRootsDiffer
  <2>4. table[q].root \notin killed
    BY <2>1 DEF MediaInv, Media!CodecsAreWanted
  <2> QED BY <1>1, <1>5, <2>1, <2>2, <2>3, <2>4
<1> QED BY <1>6, <1>7, <1>8 DEF MediaInv

\* Whatever happens to a process by itself makes no codec.
LEMMA MediaTableInv ==
  ASSUME MediaInv, table' \in [Pids -> MediaRoles],
         UNCHANGED <<reaping, processes, last_id, sweep, killed>>,
         \A q \in Pids : table'[q].role = "codec" => table'[q] = table[q]
  PROVE  MediaInv'
BY DEF MediaInv, Media!TypeOK, MediaRootsDiffer, Media!CodecsAreWanted, MediaRoles

\* The codecs of a coordinator that dies are nobody's.
LEMMA MediaCrashInv ==
  ASSUME Media!ConstantsOK, MediaInv, Media!Crash
  PROVE  MediaInv'
<1>1. DOMAIN processes' = {} /\ last_id' = 0 /\ sweep' = {} /\ killed' = {} /\ reaping' = reaping
  BY DEF Media!Crash
<1>2. \A q \in Pids : table'[q] \in MediaRoles /\ table'[q].role # "codec"
  <2> SUFFICES ASSUME NEW q \in Pids PROVE table'[q] \in MediaRoles /\ table'[q].role # "codec"
    OBVIOUS
  <2>1. table[q] \in MediaRoles
    BY DEF MediaInv, Media!TypeOK, MediaRoles
  <2>2. table'[q] = CASE table[q].role = "codec" -> Media!Stranger
                      [] table[q].role = "zombie" -> Media!Free
                      [] OTHER -> table[q]
    BY DEF Media!Crash
  <2> QED BY <2>1, <2>2, MediaRoleParts DEF MediaRoles, Media!Free, Media!Stranger
<1>3. table' \in [Pids -> MediaRoles]
  BY <1>2 DEF Media!Crash
<1>4. processes' \in [DOMAIN processes' -> Media!Procs]
  BY <1>1 DEF Media!Crash
<1>5. Media!TypeOK'
  BY <1>1, <1>3, <1>4 DEF MediaInv, Media!TypeOK, MediaRoles, Media!ConstantsOK
<1> QED BY <1>1, <1>2, <1>5 DEF MediaInv, MediaRootsDiffer, Media!CodecsAreWanted

\* No operation, sweep, exit or death breaks the coordinator's invariant.
LEMMA MediaStepInv == Media!ConstantsOK /\ MediaInv /\ [Media!Next]_(Media!vars) => MediaInv'
<1> SUFFICES ASSUME Media!ConstantsOK, MediaInv, [Media!Next]_(Media!vars) PROVE MediaInv'
  OBVIOUS
<1>1. CASE Media!SpawnCodec
  <2>1. /\ last_id < MaxId /\ last_id' = last_id + 1 /\ UNCHANGED <<reaping, sweep, killed>>
        /\ last_id \in Nat /\ MaxId \in Nat /\ MaxRestarts \in Nat
    BY <1>1 DEF Media!SpawnCodec, MediaInv, Media!TypeOK, Media!ConstantsOK
  <2>2. CASE Media!Starts(processes, last_id + 1, 0)
    <3>1. processes = [i \in DOMAIN processes \ {} |-> processes[i]]
      BY DEF MediaInv, Media!TypeOK
    <3>2. last_id + 1 \in 1 .. last_id' /\ 0 \in 0 .. MaxRestarts /\ last_id + 1 \notin killed
      BY <2>1 DEF MediaInv, MediaRootsDiffer
    <3>3. \A i \in DOMAIN processes \ {} : processes[i].root # last_id + 1
      BY <2>1 DEF MediaInv, MediaRootsDiffer
    <3>4. Media!Starts([i \in DOMAIN processes \ {} |-> processes[i]], last_id + 1, 0)
      BY <2>2, <3>1
    <3>5. \A i \in DOMAIN processes \cap {} : table[processes[i].pid].role # "codec"
      OBVIOUS
    <3>6. sweep' \subseteq sweep /\ UNCHANGED <<reaping, killed>>
      BY <2>1
    <3> QED BY <2>1, <3>2, <3>3, <3>4, <3>5, <3>6, MediaStartsInv
  <2>3. CASE UNCHANGED <<processes, table>>
    BY <2>1, <2>3 DEF MediaInv, Media!TypeOK, MediaRootsDiffer, Media!CodecsAreWanted
  <2> QED BY <1>1, <2>2, <2>3 DEF Media!SpawnCodec
<1>2. ASSUME NEW id \in Media!Ids, Media!KillCodec(id) \/ Media!CheckHealth(id) PROVE MediaInv'
  BY <1>2, MediaKillInv, MediaRestartInv DEF Media!Ids, Media!CheckHealth
<1>3. CASE Media!SweepBegins
  BY <1>3 DEF Media!SweepBegins, MediaInv, Media!TypeOK, MediaRootsDiffer, Media!CodecsAreWanted
<1>4. CASE Media!SweepChecks
  <2>1. PICK id \in sweep : /\ sweep' = sweep \ {id}
                            /\ \/ Media!CheckAndRestart(id)
                               \/ UNCHANGED <<reaping, processes, last_id, table, killed>>
    BY <1>4 DEF Media!SweepChecks
  <2>2. id \in Nat /\ sweep' \subseteq sweep
    BY <2>1 DEF MediaInv, Media!TypeOK
  <2>3. CASE UNCHANGED <<reaping, processes, last_id, table, killed>>
    BY <2>2, <2>3 DEF MediaInv, Media!TypeOK, MediaRootsDiffer, Media!CodecsAreWanted
  <2> QED BY <2>1, <2>2, <2>3, MediaRestartInv
<1>5. ASSUME NEW pid \in Pids, Media!Exits(pid) PROVE MediaInv'
  <2>1. table[pid] \in MediaRoles
    BY DEF MediaInv, Media!TypeOK, MediaRoles
  <2>2. Media!Free \in MediaRoles /\ Media!Free.role # "codec"
    BY DEF MediaRoles, Media!Free
  <2>3. /\ table' \in [Pids -> MediaRoles] /\ table'[pid].role # "codec"
        /\ \A q \in Pids \ {pid} : table'[q] = table[q]
    BY <1>5, <2>1, <2>2, MediaRoleParts DEF Media!Exits, MediaInv, Media!TypeOK, MediaRoles
  <2> QED BY <1>5, <2>3, MediaTableInv DEF Media!Exits
<1>6. ASSUME NEW pid \in Pids, Media!Arrives(pid) PROVE MediaInv'
  <2>1. Media!Stranger \in MediaRoles /\ Media!Stranger.role # "codec"
    BY DEF MediaRoles, Media!Stranger
  <2>2. /\ table' \in [Pids -> MediaRoles] /\ table'[pid].role # "codec"
        /\ \A q \in Pids \ {pid} : table'[q] = table[q]
    BY <1>6, <2>1 DEF Media!Arrives, MediaInv, Media!TypeOK, MediaRoles
  <2> QED BY <1>6, <2>2, MediaTableInv DEF Media!Arrives
<1>7. CASE Media!Crash
  BY <1>7, MediaCrashInv
<1>8. CASE UNCHANGED Media!vars
  BY <1>8 DEF Media!vars, MediaInv, Media!TypeOK, MediaRootsDiffer, Media!CodecsAreWanted
<1> QED BY <1>1, <1>2, <1>3, <1>4, <1>5, <1>6, <1>7, <1>8 DEF Media!Next

-----------------------------------------------------------------------------
(* The eSIM manager.  The record follows an exchange that succeeded only     *)
(* because there is a profile in use after one.                              *)

\* After an exchange that succeeded there is a profile in use.
EsimSuccessHasProfile == ~failed => manager /\ profiles # <<>>

EsimInv == Esim!TypeOK /\ EsimSuccessHasProfile /\ Esim!RecordFollows

-----------------------------------------------------------------------------

\* Lists of no profile and of one.
LEMMA EsimShortLists ==
  /\ <<>> \in Seq(Profiles) /\ Len(<<>>) = 0
  /\ \A id \in Profiles : <<id>> \in Seq(Profiles) /\ Len(<<id>>) = 1
OBVIOUS

\* A daemon that starts has no manager and nothing recorded.
LEMMA EsimInitInv == Esim!ConstantsOK /\ Esim!Init => EsimInv
<1> SUFFICES ASSUME Esim!ConstantsOK, Esim!Init PROVE EsimInv
  OBVIOUS
<1>1. 1 \in 1 .. IF profiles = <<>> THEN 1 ELSE Len(profiles)
  BY DEF Esim!Init
<1>2. profiles \in Seq(Profiles) /\ Len(profiles) <= MaxProfiles
  <2>1. profiles \in Seq(Profiles) /\ Len(profiles) = 0
    BY EsimShortLists DEF Esim!Init
  <2> QED BY <2>1 DEF Esim!ConstantsOK
<1>3. Esim!TypeOK
  BY <1>1, <1>2 DEF Esim!Init, Esim!TypeOK
<1> QED BY <1>3 DEF Esim!Init, EsimInv, EsimSuccessHasProfile, Esim!RecordFollows

\* The next index is one of the list.
LEMMA EsimNextIndexInRange ==
  ASSUME Esim!TypeOK, Len(profiles) >= 2
  PROVE  Esim!NextIndex \in 1 .. Len(profiles)
<1>1. Len(profiles) \in Nat /\ current \in Nat
  BY DEF Esim!TypeOK
<1> QED BY <1>1 DEF Esim!NextIndex

\* A rotation chooses a profile of the list and is under way.
LEMMA EsimRotatesInv ==
  ASSUME EsimInv, manager, ~exchange, Len(profiles) >= 2, Esim!Rotates
  PROVE  EsimInv'
<1>1. current' \in 1 .. Len(profiles) /\ exchange'
  BY EsimNextIndexInRange DEF EsimInv, Esim!Rotates
<1>2. profiles # <<>>
  BY DEF EsimInv, Esim!TypeOK
<1> QED BY <1>1, <1>2
     DEF EsimInv, Esim!TypeOK, Esim!Rotates, EsimSuccessHasProfile, Esim!RecordFollows

\* A new manager begins with the first profile of its list.
LEMMA EsimNewManagerInv ==
  ASSUME EsimInv, ~exchange, NEW l \in Seq(Profiles), Len(l) <= MaxProfiles, Esim!NewManager(l)
  PROVE  EsimInv'
<1>1. 1 \in 1 .. IF l = <<>> THEN 1 ELSE Len(l)
  <2>1. l # <<>> => Len(l) >= 1
    OBVIOUS
  <2> QED BY <2>1
<1> QED BY <1>1 DEF EsimInv, Esim!TypeOK, Esim!NewManager, EsimSuccessHasProfile, Esim!RecordFollows

\* A profile that is added changes nothing for those before it.
LEMMA EsimAddProfileInv ==
  ASSUME Esim!ConstantsOK, EsimInv, NEW id \in Profiles, Esim!AddProfile(id)
  PROVE  EsimInv'
<1>1. CASE ~manager /\ Esim!NewManager(<<id>>)
  <2>1. ~exchange /\ Len(<<id>>) <= MaxProfiles /\ <<id>> \in Seq(Profiles)
    BY EsimShortLists DEF Esim!AddProfile, Esim!Free, Esim!ConstantsOK
  <2> QED BY <1>1, <2>1, EsimNewManagerInv
<1>2. CASE /\ manager /\ Len(profiles) < MaxProfiles
           /\ profiles' = Append(profiles, id)
           /\ UNCHANGED <<manager, current, due, recorded, exchange, failed>>
  <2>1. profiles \in Seq(Profiles) /\ Len(profiles) \in Nat
    BY DEF EsimInv, Esim!TypeOK
  <2>2. /\ profiles' \in Seq(Profiles) /\ Len(profiles') = Len(profiles) + 1
        /\ \A i \in 1 .. Len(profiles) : profiles'[i] = profiles[i]
        /\ profiles' # <<>>
    BY <1>2, <2>1
  <2>3. current \in 1 .. Len(profiles')
    BY <2>1, <2>2 DEF EsimInv, Esim!TypeOK
  <2>4. Esim!TypeOK'
    <3>1. Len(profiles') <= MaxProfiles
      BY <1>2, <2>1, <2>2 DEF Esim!ConstantsOK
    <3>2. exchange' = FALSE
      BY <1>2 DEF Esim!AddProfile, Esim!Free, EsimInv, Esim!TypeOK
    <3> QED BY <1>2, <2>2, <2>3, <3>1, <3>2 DEF EsimInv, Esim!TypeOK
  <2>5. profiles # <<>> => profiles'[current] = profiles[current]
    BY <2>2 DEF EsimInv, Esim!TypeOK
  <2> QED BY <1>2, <2>2, <2>4, <2>5 DEF EsimInv, EsimSuccessHasProfile, Esim!RecordFollows
<1> QED BY <1>1, <1>2 DEF Esim!AddProfile

\* The record is written when the modem has acknowledged.
LEMMA EsimAcknowledgedInv ==
  ASSUME EsimInv, Esim!Acknowledged
  PROVE  EsimInv'
<1>1. exchange /\ manager /\ Len(profiles) >= 2 /\ profiles # <<>>
  BY DEF Esim!Acknowledged, EsimInv, Esim!TypeOK
<1>2. profiles[current] \in Profiles
  BY <1>1 DEF EsimInv, Esim!TypeOK
<1> QED BY <1>1, <1>2
     DEF EsimInv, Esim!TypeOK, Esim!Acknowledged, Esim!RecordedProfile,
         EsimSuccessHasProfile, Esim!RecordFollows

\* No rotation, request, failure or death breaks the manager's invariant.
LEMMA EsimStepInv == Esim!ConstantsOK /\ EsimInv /\ [Esim!Next]_(Esim!vars) => EsimInv'
<1> SUFFICES ASSUME Esim!ConstantsOK, EsimInv, [Esim!Next]_(Esim!vars) PROVE EsimInv'
  OBVIOUS
<1>1. CASE Esim!Rotate
  BY <1>1, EsimRotatesInv DEF Esim!Rotate, Esim!Free
<1>2. CASE Esim!ScheduledRotation
  <2>1. Len(profiles) \in Nat
    BY DEF EsimInv, Esim!TypeOK
  <2> QED BY <1>2, <2>1, EsimRotatesInv DEF Esim!ScheduledRotation, Esim!ShouldRotate, Esim!Free
<1>3. CASE Esim!Acknowledged
  BY <1>3, EsimAcknowledgedInv
<1>4. CASE Esim!ExchangeFails
  BY <1>4 DEF Esim!ExchangeFails, EsimInv, Esim!TypeOK, EsimSuccessHasProfile, Esim!RecordFollows
<1>5. ASSUME NEW l \in Configured, Esim!Configure(l) PROVE EsimInv'
  BY <1>5, EsimNewManagerInv DEF Esim!Configure, Esim!Free, Esim!ConstantsOK
<1>6. ASSUME NEW id \in Profiles, Esim!AddProfile(id) PROVE EsimInv'
  BY <1>6, EsimAddProfileInv
<1>7. CASE Esim!Elapses
  BY <1>7 DEF Esim!Elapses, EsimInv, Esim!TypeOK, EsimSuccessHasProfile, Esim!RecordFollows
<1>8. CASE Esim!Crash
  <2>1. current' \in 1 .. IF profiles' = <<>> THEN 1 ELSE Len(profiles')
    BY <1>8 DEF Esim!Crash
  <2>2. profiles' \in Seq(Profiles) /\ Len(profiles') <= MaxProfiles
    <3>1. profiles' \in Seq(Profiles) /\ Len(profiles') = 0
      BY <1>8, EsimShortLists DEF Esim!Crash
    <3> QED BY <3>1 DEF Esim!ConstantsOK
  <2>3. Esim!TypeOK'
    BY <1>8, <2>1, <2>2 DEF Esim!Crash, Esim!TypeOK
  <2> QED BY <1>8, <2>3 DEF Esim!Crash, EsimInv, EsimSuccessHasProfile, Esim!RecordFollows
<1>9. CASE UNCHANGED Esim!vars
  BY <1>9 DEF Esim!vars, EsimInv, Esim!TypeOK, EsimSuccessHasProfile, Esim!RecordFollows
<1> QED BY <1>1, <1>2, <1>3, <1>4, <1>5, <1>6, <1>7, <1>8, <1>9 DEF Esim!Next

-----------------------------------------------------------------------------
(* The triangulation analyzer.  A long streak stays one because the sum of   *)
(* larger stays is no smaller; SumFunctionOnSet is a fold, whose recursion   *)
(* is solved here by descent on the size of the set.                         *)

\* The element the fold takes first.
RiskSome(s) == CHOOSE x \in s : TRUE

\* One step of the summation over a subset, and the function it defines.
RiskSum(f, g, s) == IF s = {} THEN 0 ELSE f[RiskSome(s)] + g[s \ {RiskSome(s)}]
RiskSolves(g, f, S) == g = [s \in SUBSET S |-> RiskSum(f, g, s)]
RiskTotals(f, S) == CHOOSE g : RiskSolves(g, f, S)

\* The fold of the library is this function at the whole set.
LEMMA RiskSumIsTotal == \A f, S : Risk!SumFunctionOnSet(f, S) = RiskTotals(f, S)[S]
BY DEF Risk!SumFunctionOnSet, Risk!FoldFunctionOnSet, Risk!MapThenFoldSet,
   RiskTotals, RiskSolves, RiskSome, RiskSum

\* Every set of S but the empty one is one larger than without its element.
RiskShrinks(S) ==
  \A s \in SUBSET S :
    /\ Cardinality(s) \in Nat /\ (Cardinality(s) = 0 <=> s = {})
    /\ s # {} => /\ RiskSome(s) \in s /\ s \ {RiskSome(s)} \in SUBSET S
                 /\ Cardinality(s \ {RiskSome(s)}) = Cardinality(s) - 1

\* Finite sets shrink.
LEMMA RiskLessOne ==
  ASSUME NEW S, IsFiniteSet(S)
  PROVE  RiskShrinks(S)
<1> SUFFICES ASSUME NEW s \in SUBSET S
             PROVE  /\ Cardinality(s) \in Nat /\ (Cardinality(s) = 0 <=> s = {})
                    /\ s # {} => /\ RiskSome(s) \in s /\ s \ {RiskSome(s)} \in SUBSET S
                                 /\ Cardinality(s \ {RiskSome(s)}) = Cardinality(s) - 1
  BY DEF RiskShrinks
<1>1. IsFiniteSet(s)
  BY FS_Subset
<1>2. Cardinality(s) \in Nat /\ (Cardinality(s) = 0 <=> s = {})
  BY <1>1, FS_CardinalityType, FS_EmptySet
<1>3. ASSUME s # {} PROVE /\ RiskSome(s) \in s /\ s \ {RiskSome(s)} \in SUBSET S
                          /\ Cardinality(s \ {RiskSome(s)}) = Cardinality(s) - 1
  <2>1. RiskSome(s) \in s
    BY <1>3 DEF RiskSome
  <2>2. Cardinality(s \ {RiskSome(s)}) = Cardinality(s) - 1
    BY <1>1, <2>1, FS_RemoveElement
  <2> QED BY <2>1, <2>2
<1> QED BY <1>2, <1>3

\* The recursion has a solution for the subsets of each size, and so for all.
LEMMA RiskTotalsExist ==
  ASSUME NEW S, IsFiniteSet(S), NEW f, \A x \in S : f[x] \in Nat
  PROVE  \E g : RiskSolves(g, f, S)
<1> DEFINE Upto(n) == \E g \in [SUBSET S -> Nat] :
             \A s \in SUBSET S : Cardinality(s) <= n => g[s] = RiskSum(f, g, s)
           Bad == {n \in Nat : ~Upto(n)}
<1>0. RiskShrinks(S)
  BY RiskLessOne
<1>1. Upto(0)
  <2> DEFINE g == [s \in SUBSET S |-> 0]
  <2>1. g \in [SUBSET S -> Nat]
    OBVIOUS
  <2>2. ASSUME NEW s \in SUBSET S, Cardinality(s) <= 0 PROVE g[s] = RiskSum(f, g, s)
    <3>1. Cardinality(s) \in Nat /\ (Cardinality(s) = 0 <=> s = {})
      BY <1>0 DEF RiskShrinks
    <3>2. s = {}
      BY <2>2, <3>1
    <3> QED BY <3>2 DEF RiskSum
  <2> QED BY <2>1, <2>2
<1>2. ASSUME NEW n \in Nat, Upto(n) PROVE Upto(n + 1)
  <2>1. PICK g \in [SUBSET S -> Nat] :
          \A s \in SUBSET S : Cardinality(s) <= n => g[s] = RiskSum(f, g, s)
    BY <1>2
  <2> DEFINE h == [s \in SUBSET S |-> RiskSum(f, g, s)]
  <2>2. h \in [SUBSET S -> Nat]
    <3> SUFFICES ASSUME NEW s \in SUBSET S PROVE RiskSum(f, g, s) \in Nat
      OBVIOUS
    <3>1. CASE s = {}
      BY <3>1 DEF RiskSum
    <3>2. CASE s # {}
      <4>1. f[RiskSome(s)] \in Nat /\ g[s \ {RiskSome(s)}] \in Nat
        BY <3>2, <1>0 DEF RiskShrinks
      <4> QED BY <3>2, <4>1 DEF RiskSum
    <3> QED BY <3>1, <3>2
  <2>3. ASSUME NEW s \in SUBSET S, Cardinality(s) <= n + 1 PROVE h[s] = RiskSum(f, h, s)
    <3>1. CASE s = {}
      BY <3>1 DEF RiskSum
    <3>2. CASE s # {}
      <4> DEFINE r == s \ {RiskSome(s)}
      <4>1. r \in SUBSET S /\ Cardinality(r) <= n
        BY <2>3, <3>2, <1>0 DEF RiskShrinks
      <4>2. h[r] = g[r]
        BY <2>1, <4>1
      <4> QED BY <3>2, <4>2 DEF RiskSum
    <3> QED BY <3>1, <3>2
  <2> HIDE DEF h
  <2> QED BY <2>2, <2>3
<1>3. \A n \in Nat : Upto(n)
  <2> SUFFICES ASSUME Bad # {} PROVE FALSE
    OBVIOUS
  <2>1. PICK m \in Bad : \A k \in Bad : m <= k
    <3> HIDE DEF Upto
    <3> QED BY LeastExists
  <2>2. m \in Nat /\ ~Upto(m)
    OBVIOUS
  <2>3. m # 0 /\ m - 1 \in Nat /\ m - 1 + 1 = m
    <3> HIDE DEF Upto
    <3> QED BY <1>1, <2>2
  <2>4. Upto(m - 1)
    <3> HIDE DEF Upto
    <3> QED BY <2>1, <2>2, <2>3
  <2> HIDE DEF Upto
  <2>5. Upto(m - 1 + 1)
    BY <1>2, <2>3, <2>4
  <2> QED BY <2>2, <2>3, <2>5
<1>4. Cardinality(S) \in Nat
  BY FS_CardinalityType
<1>5. PICK g \in [SUBSET S -> Nat] :
        \A s \in SUBSET S : Cardinality(s) <= Cardinality(S) => g[s] = RiskSum(f, g, s)
  BY <1>3, <1>4
<1>6. \A s \in SUBSET S : g[s] = RiskSum(f, g, s)
  BY <1>5, FS_Subset
<1>7. RiskSolves(g, f, S)
  BY <1>6 DEF RiskSolves
<1> QED BY <1>7

\* The function sums: it is a natural number at each subset, by that step.
LEMMA RiskTotalsSum ==
  ASSUME NEW S, IsFiniteSet(S), NEW f, \A x \in S : f[x] \in Nat
  PROVE  /\ RiskTotals(f, S) \in [SUBSET S -> Nat]
         /\ \A s \in SUBSET S : RiskTotals(f, S)[s] = RiskSum(f, RiskTotals(f, S), s)
<1>0. RiskShrinks(S)
  BY RiskLessOne
<1>1. RiskSolves(RiskTotals(f, S), f, S)
  BY RiskTotalsExist DEF RiskTotals
<1> DEFINE t == RiskTotals(f, S)
<1>2. t = [s \in SUBSET S |-> RiskSum(f, t, s)]
  BY <1>1 DEF RiskSolves
<1> HIDE DEF t
<1>3. \A s \in SUBSET S : t[s] = RiskSum(f, t, s)
  BY <1>2
<1> DEFINE Bad == {n \in Nat : \E s \in SUBSET S : Cardinality(s) = n /\ t[s] \notin Nat}
<1>4. Bad = {}
  <2> SUFFICES ASSUME Bad # {} PROVE FALSE
    OBVIOUS
  <2>1. Bad \subseteq Nat
    OBVIOUS
  <2>2. PICK c \in Bad : \A d \in Bad : c <= d
    <3> HIDE DEF Bad
    <3> QED BY <2>1, LeastExists
  <2>3. PICK s \in SUBSET S : t[s] \notin Nat /\ c = Cardinality(s)
    BY <2>2
  <2>4. s # {}
    <3>1. t[{}] = 0
      BY <1>3 DEF RiskSum
    <3> QED BY <2>3, <3>1
  <2> DEFINE r == s \ {RiskSome(s)}
  <2>5. r \in SUBSET S /\ Cardinality(r) = c - 1 /\ c \in Nat /\ f[RiskSome(s)] \in Nat
    BY <2>3, <2>4, <1>0 DEF RiskShrinks
  <2>6. t[r] \in Nat
    <3>1. Cardinality(r) \notin Bad
      <4> HIDE DEF Bad, r
      <4> QED BY <2>2, <2>5
    <3> QED BY <1>0, <2>5, <3>1 DEF RiskShrinks
  <2>7. t[s] = f[RiskSome(s)] + t[r]
    BY <1>3, <2>4 DEF RiskSum
  <2> HIDE DEF r
  <2> QED BY <2>3, <2>5, <2>6, <2>7
<1>5. \A s \in SUBSET S : t[s] \in Nat
  BY <1>0, <1>4 DEF RiskShrinks
<1>6. t \in [SUBSET S -> Nat]
  BY <1>2, <1>5
<1> QED BY <1>3, <1>6 DEF t

\* Larger addends make no smaller sums.
LEMMA RiskSumGrows ==
  ASSUME NEW S, IsFiniteSet(S), NEW f, NEW h,
         \A x \in S : f[x] \in Nat /\ h[x] \in Nat /\ f[x] <= h[x]
  PROVE  /\ Risk!SumFunctionOnSet(f, S) \in Nat /\ Risk!SumFunctionOnSet(h, S) \in Nat
         /\ Risk!SumFunctionOnSet(f, S) <= Risk!SumFunctionOnSet(h, S)
<1> DEFINE t == RiskTotals(f, S)
           u == RiskTotals(h, S)
<1>0. RiskShrinks(S)
  BY RiskLessOne
<1>1. t \in [SUBSET S -> Nat] /\ \A s \in SUBSET S : t[s] = RiskSum(f, t, s)
  BY RiskTotalsSum
<1>2. u \in [SUBSET S -> Nat] /\ \A s \in SUBSET S : u[s] = RiskSum(h, u, s)
  BY RiskTotalsSum
<1>3. Risk!SumFunctionOnSet(f, S) = t[S] /\ Risk!SumFunctionOnSet(h, S) = u[S]
  BY RiskSumIsTotal
<1> HIDE DEF t, u
<1> DEFINE Bad == {n \in Nat : \E s \in SUBSET S : Cardinality(s) = n /\ ~(t[s] <= u[s])}
<1>4. Bad = {}
  <2> SUFFICES ASSUME Bad # {} PROVE FALSE
    OBVIOUS
  <2>1. Bad \subseteq Nat
    OBVIOUS
  <2>2. PICK c \in Bad : \A d \in Bad : c <= d
    <3> HIDE DEF Bad
    <3> QED BY <2>1, LeastExists
  <2>3. PICK s \in SUBSET S : ~(t[s] <= u[s]) /\ c = Cardinality(s)
    BY <2>2
  <2>4. s # {}
    <3>1. t[{}] = 0 /\ u[{}] = 0
      BY <1>1, <1>2 DEF RiskSum
    <3> QED BY <2>3, <3>1
  <2> DEFINE r == s \ {RiskSome(s)}
  <2>5. r \in SUBSET S /\ Cardinality(r) = c - 1 /\ c \in Nat /\ RiskSome(s) \in S
    BY <2>3, <2>4, <1>0 DEF RiskShrinks
  <2>6. t[r] <= u[r]
    <3>1. Cardinality(r) \notin Bad
      <4> HIDE DEF Bad, r
      <4> QED BY <2>2, <2>5
    <3> QED BY <1>0, <2>5, <3>1 DEF RiskShrinks
  <2>7. t[s] = f[RiskSome(s)] + t[r] /\ u[s] = h[RiskSome(s)] + u[r]
    BY <1>1, <1>2, <2>4 DEF RiskSum
  <2>8. t[r] \in Nat /\ u[r] \in Nat
    BY <1>1, <1>2, <2>5
  <2> HIDE DEF r
  <2> QED BY <2>3, <2>5, <2>6, <2>7, <2>8
<1>5. t[S] <= u[S]
  BY <1>0, <1>4 DEF RiskShrinks
<1>6. t[S] \in Nat /\ u[S] \in Nat
  BY <1>1, <1>2
<1> QED BY <1>3, <1>5, <1>6

\* The sum over one element is its addend.
LEMMA RiskSumOfOne ==
  ASSUME NEW x, NEW f, f[x] \in Nat
  PROVE  Risk!SumFunctionOnSet(f, {x}) = f[x]
<1> DEFINE t == RiskTotals(f, {x})
<1>1. IsFiniteSet({x})
  BY FS_Singleton
<1>2. \A s \in SUBSET {x} : t[s] = RiskSum(f, t, s)
  BY <1>1, RiskTotalsSum
<1> HIDE DEF t
<1>3. RiskSome({x}) = x /\ {x} \ {x} = {}
  BY DEF RiskSome
<1>4. t[{}] = 0
  BY <1>2 DEF RiskSum
<1>5. t[{x}] = f[x]
  BY <1>2, <1>3, <1>4 DEF RiskSum
<1> QED BY <1>5, RiskSumIsTotal DEF t

-----------------------------------------------------------------------------
\* A record starts empty.
LEMMA RiskInitType == Risk!ConstantsOK /\ Risk!Init => Risk!TypeOK
<1> SUFFICES ASSUME Risk!ConstantsOK, Risk!Init PROVE Risk!TypeOK
  OBVIOUS
<1>1. /\ rotation_history \in Seq([prefix : Prefixes, lasted : 0 .. SilenceLimit + 1])
      /\ Len(rotation_history) = 0
  BY DEF Risk!Init
<1> QED BY <1>1 DEF Risk!TypeOK, Risk!ConstantsOK

\* Rotations, time and deaths keep the record's type.
LEMMA RiskStepType ==
  Risk!ConstantsOK /\ Risk!TypeOK /\ [Risk!Next]_rotation_history => Risk!TypeOK'
<1> SUFFICES ASSUME Risk!ConstantsOK, Risk!TypeOK, [Risk!Next]_rotation_history PROVE Risk!TypeOK'
  OBVIOUS
<1> DEFINE E == [prefix : Prefixes, lasted : 0 .. SilenceLimit + 1]
           n == Len(rotation_history)
<1>1. ASSUME NEW p \in Prefixes, Risk!RecordRotation(p) PROVE Risk!TypeOK'
  <2>1. [prefix |-> p, lasted |-> 0] \in E
    BY DEF Risk!ConstantsOK
  <2>2. rotation_history \in Seq(E) /\ n \in Nat /\ n < MaxHistory /\ MaxHistory \in Nat
    BY <1>1 DEF Risk!TypeOK, Risk!RecordRotation, Risk!ConstantsOK
  <2>3. rotation_history' = Append(rotation_history, [prefix |-> p, lasted |-> 0])
    BY <1>1 DEF Risk!RecordRotation
  <2> HIDE DEF E
  <2>4. rotation_history' \in Seq(E) /\ Len(rotation_history') = n + 1
    BY <2>1, <2>2, <2>3
  <2> QED BY <2>2, <2>4 DEF Risk!TypeOK, E
<1>2. CASE Risk!Elapses
  <2>1. rotation_history \in Seq(E) /\ n \in 1 .. n /\ n <= MaxHistory
    BY <1>2 DEF Risk!TypeOK, Risk!Elapses
  <2>2. PICK p \in Prefixes, l \in 0 .. SilenceLimit + 1 :
          rotation_history[n] = [prefix |-> p, lasted |-> l]
    <3>1. rotation_history[n] \in E
      <4> HIDE DEF E
      <4> QED BY <2>1, ElementOfSeq
    <3> QED BY <3>1
  <2>3. l <= SilenceLimit
    BY <1>2, <2>2 DEF Risk!Elapses
  <2>4. [rotation_history[n] EXCEPT !.lasted = @ + 1] = [prefix |-> p, lasted |-> l + 1]
    BY <2>2
  <2>5. [prefix |-> p, lasted |-> l + 1] \in E
    BY <2>3 DEF Risk!ConstantsOK
  <2>6. rotation_history' = [rotation_history EXCEPT ![n] = [prefix |-> p, lasted |-> l + 1]]
    BY <1>2, <2>4 DEF Risk!Elapses
  <2> HIDE DEF E
  <2>7. rotation_history' \in Seq(E) /\ Len(rotation_history') = n
    BY <2>1, <2>5, <2>6, ExceptSeq
  <2> QED BY <2>1, <2>7 DEF Risk!TypeOK, E
<1>3. CASE Risk!Crash
  <2>1. rotation_history' \in Seq(E) /\ Len(rotation_history') = 0
    BY <1>3 DEF Risk!Crash
  <2> QED BY <2>1 DEF Risk!TypeOK, Risk!ConstantsOK
<1>4. CASE UNCHANGED rotation_history
  BY <1>4 DEF Risk!TypeOK
<1> QED BY <1>1, <1>2, <1>3, <1>4 DEF Risk!Next

-----------------------------------------------------------------------------
\* The entries of a record.
RiskEntries == [prefix : Prefixes, lasted : 0 .. SilenceLimit + 1]

\* What an entry adds to a streak is the time of its stay.
LEMMA RiskEntryIsCounted ==
  ASSUME Risk!ConstantsOK, NEW h \in Seq(RiskEntries), NEW k \in DOMAIN h
  PROVE  Risk!Lasted(h)[k] = h[k].lasted /\ h[k].lasted \in Nat
<1>1. h[k] \in RiskEntries
  OBVIOUS
<1> QED BY <1>1 DEF Risk!Lasted, RiskEntries, Risk!ConstantsOK

\* A long streak stays one when entries are added or the stay goes on.
LEMMA RiskStreakStays ==
  ASSUME Risk!ConstantsOK, NEW h \in Seq(RiskEntries), NEW g \in Seq(RiskEntries), Len(h) <= Len(g),
         \A k \in DOMAIN h : g[k].prefix = h[k].prefix /\ h[k].lasted <= g[k].lasted,
         Risk!LongStreak(h)
  PROVE  Risk!LongStreak(g)
<1>1. PICK j \in DOMAIN h : \E i \in 1 .. j :
        Risk!Streak(h, i, j) /\ Risk!SumFunctionOnSet(Risk!Lasted(h), i .. j) > StreakLimit
  BY DEF Risk!LongStreak
<1>2. PICK i \in 1 .. j :
        Risk!Streak(h, i, j) /\ Risk!SumFunctionOnSet(Risk!Lasted(h), i .. j) > StreakLimit
  BY <1>1
<1>3. /\ j \in Nat /\ i \in Nat /\ j \in i .. j /\ j \in DOMAIN g
      /\ \A k \in i .. j : k \in DOMAIN h /\ k \in DOMAIN g
  OBVIOUS
<1>4. IsFiniteSet(i .. j)
  BY <1>3, FS_Interval
<1>5. \A k \in i .. j : /\ Risk!Lasted(h)[k] \in Nat /\ Risk!Lasted(g)[k] \in Nat
                        /\ Risk!Lasted(h)[k] <= Risk!Lasted(g)[k]
  BY <1>3, RiskEntryIsCounted
<1>6. /\ Risk!SumFunctionOnSet(Risk!Lasted(h), i .. j) \in Nat
      /\ Risk!SumFunctionOnSet(Risk!Lasted(g), i .. j) \in Nat
      /\ Risk!SumFunctionOnSet(Risk!Lasted(h), i .. j)
           <= Risk!SumFunctionOnSet(Risk!Lasted(g), i .. j)
  BY <1>4, <1>5, RiskSumGrows
<1>7. Risk!SumFunctionOnSet(Risk!Lasted(g), i .. j) > StreakLimit
  BY <1>2, <1>6 DEF Risk!ConstantsOK
<1>8. Risk!Streak(g, i, j)
  BY <1>2, <1>3 DEF Risk!Streak
<1> QED BY <1>3, <1>7, <1>8 DEF Risk!LongStreak

\* One entry above the limit is a streak of its own.
LEMMA RiskOneIsStreak ==
  ASSUME Risk!ConstantsOK, NEW h \in Seq(RiskEntries), NEW k \in DOMAIN h, h[k].lasted > StreakLimit
  PROVE  Risk!LongStreak(h)
<1>1. k \in 1 .. k /\ k .. k = {k} /\ k \in Nat
  OBVIOUS
<1>2. Risk!SumFunctionOnSet(Risk!Lasted(h), {k}) = h[k].lasted
  BY RiskEntryIsCounted, RiskSumOfOne
<1>3. Risk!Streak(h, k, k)
  BY <1>1 DEF Risk!Streak
<1> QED BY <1>1, <1>2, <1>3 DEF Risk!LongStreak

\* The risk is high after a long silence or a long streak.
LEMMA RiskHighRisk ==
  \A h : h # <<>> =>
    (Risk!AssessRisk(h) >= Risk!High <=> h[Len(h)].lasted > SilenceLimit \/ Risk!LongStreak(h))
BY DEF Risk!AssessRisk, Risk!High, Risk!Critical, Risk!Medium, Risk!Low

\* No rotation and no passing of time makes a high risk lower.
LEMMA RiskStepRemembers ==
  Risk!ConstantsOK /\ Risk!TypeOK /\ [Risk!Next]_rotation_history =>
    [ Risk!AssessRisk(rotation_history) >= Risk!High /\ rotation_history # <<>> /\ ~Risk!Crash
        => Risk!AssessRisk(rotation_history') >= Risk!High ]_rotation_history
<1> SUFFICES ASSUME Risk!ConstantsOK, Risk!TypeOK, Risk!Next,
                    Risk!AssessRisk(rotation_history) >= Risk!High,
                    rotation_history # <<>>, ~Risk!Crash
             PROVE  Risk!AssessRisk(rotation_history') >= Risk!High
  OBVIOUS
<1> DEFINE h == rotation_history
           n == Len(h)
           last == h[n].lasted
<1>1. h \in Seq(RiskEntries) /\ n \in Nat /\ n >= 1 /\ n \in DOMAIN h
  BY DEF Risk!TypeOK, RiskEntries
<1>2. last > SilenceLimit \/ Risk!LongStreak(h)
  BY RiskHighRisk
<1>3. rotation_history' \in Seq(RiskEntries)
  BY RiskStepType DEF Risk!TypeOK, RiskEntries
<1>4. last \in Nat /\ StreakLimit \in Nat /\ SilenceLimit \in Nat /\ StreakLimit <= SilenceLimit
  BY <1>1, RiskEntryIsCounted DEF Risk!ConstantsOK
<1>5. Risk!LongStreak(h)' /\ rotation_history' # <<>>
  <2>1. ASSUME NEW p \in Prefixes, Risk!RecordRotation(p)
        PROVE  Risk!LongStreak(h)' /\ rotation_history' # <<>>
    <3>1. rotation_history' = Append(h, [prefix |-> p, lasted |-> 0])
      BY <2>1 DEF Risk!RecordRotation
    <3>2. /\ Len(rotation_history') = n + 1 /\ rotation_history' # <<>>
          /\ \A k \in DOMAIN h : rotation_history'[k] = h[k]
          /\ n \in DOMAIN rotation_history'
      BY <1>1, <3>1
    <3>3. CASE Risk!LongStreak(h)
      <4>1. \A k \in DOMAIN h : /\ rotation_history'[k].prefix = h[k].prefix
                               /\ h[k].lasted <= rotation_history'[k].lasted
        BY <1>1, <3>2, RiskEntryIsCounted
      <4> QED BY <1>1, <1>3, <3>2, <3>3, <4>1, RiskStreakStays
    <3>4. CASE last > SilenceLimit
      <4>1. rotation_history'[n].lasted > StreakLimit
        BY <1>1, <1>4, <3>2, <3>4
      <4> QED BY <1>3, <3>2, <4>1, RiskOneIsStreak
    <3> QED BY <1>2, <3>3, <3>4
  <2>2. CASE Risk!Elapses
    <3>1. Risk!LongStreak(h) /\ last <= SilenceLimit
      BY <1>2, <1>4, <2>2 DEF Risk!Elapses
    <3>2. /\ Len(rotation_history') = n /\ rotation_history' # <<>>
          /\ \A k \in DOMAIN h : /\ rotation_history'[k].prefix = h[k].prefix
                               /\ h[k].lasted <= rotation_history'[k].lasted
      <4>1. h[n] \in RiskEntries
        BY <1>1
      <4>2. PICK p \in Prefixes, l \in 0 .. SilenceLimit + 1 : h[n] = [prefix |-> p, lasted |-> l]
        BY <4>1 DEF RiskEntries
      <4>3. rotation_history' = [h EXCEPT ![n] = [prefix |-> p, lasted |-> l + 1]]
        <5>1. [h[n] EXCEPT !.lasted = @ + 1] = [prefix |-> p, lasted |-> l + 1]
          BY <4>2
        <5> QED BY <2>2, <5>1 DEF Risk!Elapses
      <4>4. /\ Len(rotation_history') = n /\ DOMAIN rotation_history' = DOMAIN h
            /\ \A k \in DOMAIN h : rotation_history'[k] =
                 IF k = n THEN [prefix |-> p, lasted |-> l + 1] ELSE h[k]
        BY <1>1, <1>3, <4>3
      <4>5. \A k \in DOMAIN h : h[k].lasted \in Nat
        BY <1>1, RiskEntryIsCounted
      <4>6. rotation_history' # <<>>
        BY <1>1, <4>4
      <4> QED BY <4>2, <4>4, <4>5, <4>6
    <3> QED BY <1>1, <1>3, <3>1, <3>2, RiskStreakStays
  <2> QED BY <2>1, <2>2 DEF Risk!Next
<1> QED BY <1>5, RiskHighRisk

-----------------------------------------------------------------------------
(* The AT proxy.  The verdict on a text is that on its upper case, and that  *)
(* on the text with an equals mark, the mark of a query or both behind it.   *)

\* Where a text has equals marks.
AtMarks(r) == {k \in DOMAIN r : r[k] = "="}

\* What Command makes of the text behind the letters AT.
AtCut(r) ==
  IF AtMarks(r) = {} THEN r
  ELSE SubSeq(r, 1, (CHOOSE k \in AtMarks(r) : \A j \in AtMarks(r) : k <= j) - 1)

\* A command is what is before the first equals mark, without a query.
LEMMA AtCommandIsCut == \A s : At!Command(s) = AtCut(At!WithoutQuery(Tail(s)))
BY DEF At!Command, AtCut, AtMarks

\* A text has a first equals mark if it has any.
LEMMA AtFirstMark ==
  ASSUME NEW r \in Seq(Words), AtMarks(r) # {}
  PROVE  \E k \in 1 .. Len(r) :
           /\ r[k] = "=" /\ \A j \in 1 .. k - 1 : r[j] # "="
           /\ AtCut(r) = SubSeq(r, 1, k - 1)
<1>1. AtMarks(r) \subseteq Nat
  BY DEF AtMarks
<1>2. \E x \in AtMarks(r) : \A y \in AtMarks(r) : x <= y
  BY <1>1, LeastExists
<1> DEFINE k == CHOOSE m \in AtMarks(r) : \A j \in AtMarks(r) : m <= j
<1>5. k \in AtMarks(r) /\ \A j \in AtMarks(r) : k <= j
  BY <1>2
<1> HIDE DEF k
<1>6. k \in 1 .. Len(r) /\ r[k] = "="
  BY <1>5 DEF AtMarks
<1>7. \A j \in 1 .. k - 1 : r[j] # "="
  BY <1>5, <1>6 DEF AtMarks
<1>8. AtCut(r) = SubSeq(r, 1, k - 1)
  BY DEF AtCut, k
<1> QED BY <1>6, <1>7, <1>8

\* The cut is before the first mark, wherever it comes from.
LEMMA AtCutAt ==
  ASSUME NEW r \in Seq(Words), NEW k \in 1 .. Len(r), r[k] = "=",
         \A j \in 1 .. k - 1 : r[j] # "="
  PROVE  AtCut(r) = SubSeq(r, 1, k - 1)
<1>1. AtMarks(r) # {}
  BY DEF AtMarks
<1>2. PICK m \in 1 .. Len(r) :
        /\ r[m] = "=" /\ \A j \in 1 .. m - 1 : r[j] # "="
        /\ AtCut(r) = SubSeq(r, 1, m - 1)
  BY <1>1, AtFirstMark
<1>3. ~(m < k) /\ ~(k < m)
  BY <1>2
<1> QED BY <1>2, <1>3

\* Beginnings of a text, element by element.
LEMMA AtBeginning ==
  ASSUME NEW r \in Seq(Words), NEW n \in 0 .. Len(r)
  PROVE  /\ SubSeq(r, 1, n) \in Seq(Words) /\ Len(SubSeq(r, 1, n)) = n
         /\ \A i \in 1 .. n : SubSeq(r, 1, n)[i] = r[i]
<1>1. \A i \in 1 .. n : r[i] \in Words
  OBVIOUS
<1>2. /\ SubSeq(r, 1, n) \in Seq(Words)
      /\ Len(SubSeq(r, 1, n)) = IF 1 <= n THEN n - 1 + 1 ELSE 0
      /\ \A i \in 1 .. n - 1 + 1 : SubSeq(r, 1, n)[i] = r[1 + i - 1]
  BY <1>1, SubSeqProperties
<1> QED BY <1>2

-----------------------------------------------------------------------------
\* Upper case keeps the shape of a text and its marks, and is final.
LEMMA AtUpperText ==
  ASSUME At!ConstantsOK, NEW r \in Seq(Words)
  PROVE  /\ At!UpperCase(r) \in Seq(Words) /\ Len(At!UpperCase(r)) = Len(r)
         /\ \A i \in 1 .. Len(r) : At!UpperCase(r)[i] = Upper[r[i]]
         /\ At!UpperCase(At!UpperCase(r)) = At!UpperCase(r)
<1>1. DOMAIN r = 1 .. Len(r) /\ \A i \in 1 .. Len(r) : Upper[r[i]] \in Words
  BY DEF At!ConstantsOK
<1>2. /\ At!UpperCase(r) \in Seq(Words) /\ Len(At!UpperCase(r)) = Len(r)
      /\ \A i \in 1 .. Len(r) : At!UpperCase(r)[i] = Upper[r[i]]
  BY <1>1 DEF At!UpperCase
<1>3. \A i \in 1 .. Len(r) : Upper[Upper[r[i]]] = Upper[r[i]]
  BY DEF At!ConstantsOK
<1>4. DOMAIN At!UpperCase(r) = DOMAIN r
  BY DEF At!UpperCase
<1>5. At!UpperCase(At!UpperCase(r)) = At!UpperCase(r)
  BY <1>1, <1>2, <1>3, <1>4 DEF At!UpperCase
<1> QED BY <1>2, <1>5

\* Upper case commutes with the beginning of a text,
LEMMA AtUpperBeginning ==
  ASSUME At!ConstantsOK, NEW r \in Seq(Words), NEW n \in 0 .. Len(r)
  PROVE  SubSeq(At!UpperCase(r), 1, n) = At!UpperCase(SubSeq(r, 1, n))
<1> DEFINE u == At!UpperCase(r)
           b == SubSeq(r, 1, n)
<1>1. u \in Seq(Words) /\ Len(u) = Len(r) /\ \A i \in 1 .. Len(r) : u[i] = Upper[r[i]]
  BY AtUpperText
<1>2. b \in Seq(Words) /\ Len(b) = n /\ \A i \in 1 .. n : b[i] = r[i]
  BY AtBeginning
<1>3. At!UpperCase(b) \in Seq(Words) /\ Len(At!UpperCase(b)) = n
      /\ \A i \in 1 .. n : At!UpperCase(b)[i] = Upper[b[i]]
  BY <1>2, AtUpperText
<1> HIDE DEF u, b
<1>4. /\ SubSeq(u, 1, n) \in Seq(Words) /\ Len(SubSeq(u, 1, n)) = n
      /\ \A i \in 1 .. n : SubSeq(u, 1, n)[i] = u[i]
  BY <1>1, AtBeginning
<1>5. \A i \in 1 .. n : SubSeq(u, 1, n)[i] = At!UpperCase(b)[i]
  BY <1>1, <1>2, <1>3, <1>4
<1>6. SubSeq(u, 1, n) = At!UpperCase(b)
  BY <1>3, <1>4, <1>5, SeqEqual
<1> QED BY <1>6 DEF u, b

\* with what is behind the first token,
LEMMA AtUpperTail ==
  ASSUME At!ConstantsOK, NEW s \in Seq(Words), s # <<>>
  PROVE  Tail(At!UpperCase(s)) = At!UpperCase(Tail(s))
<1> DEFINE u == At!UpperCase(s)
           t == Tail(s)
<1>1. u \in Seq(Words) /\ Len(u) = Len(s) /\ \A i \in 1 .. Len(s) : u[i] = Upper[s[i]]
  BY AtUpperText
<1>2. t \in Seq(Words) /\ Len(t) = Len(s) - 1 /\ \A i \in 1 .. Len(t) : t[i] = s[i + 1]
  BY HeadTailProperties
<1>3. At!UpperCase(t) \in Seq(Words) /\ Len(At!UpperCase(t)) = Len(t)
      /\ \A i \in 1 .. Len(t) : At!UpperCase(t)[i] = Upper[t[i]]
  BY <1>2, AtUpperText
<1>4. u # <<>>
  BY <1>1
<1> HIDE DEF u, t
<1>5. /\ Tail(u) \in Seq(Words) /\ Len(Tail(u)) = Len(u) - 1
      /\ \A i \in 1 .. Len(Tail(u)) : Tail(u)[i] = u[i + 1]
  BY <1>1, <1>4, HeadTailProperties
<1>6. \A i \in 1 .. Len(t) : i + 1 \in 1 .. Len(s)
  BY <1>2
<1>7. ASSUME NEW i \in 1 .. Len(t) PROVE Tail(u)[i] = At!UpperCase(t)[i]
  <2>1. Len(Tail(u)) = Len(t) /\ Tail(u)[i] = u[i + 1]
    BY <1>1, <1>2, <1>5
  <2>2. u[i + 1] = Upper[s[i + 1]] /\ At!UpperCase(t)[i] = Upper[t[i]] /\ t[i] = s[i + 1]
    BY <1>1, <1>2, <1>3, <1>6
  <2> QED BY <2>1, <2>2
<1>8. Tail(u) = At!UpperCase(t)
  BY <1>1, <1>2, <1>3, <1>5, <1>7, SeqEqual
<1> QED BY <1>8 DEF u, t

\* with taking off the mark of a query
LEMMA AtUpperWithoutQuery ==
  ASSUME At!ConstantsOK, NEW r \in Seq(Words)
  PROVE  /\ At!WithoutQuery(r) \in Seq(Words)
         /\ At!WithoutQuery(At!UpperCase(r)) = At!UpperCase(At!WithoutQuery(r))
<1>1. At!UpperCase(r) \in Seq(Words) /\ Len(At!UpperCase(r)) = Len(r)
      /\ \A i \in 1 .. Len(r) : At!UpperCase(r)[i] = Upper[r[i]]
  BY AtUpperText
<1>2. CASE r = <<>>
  <2>1. At!UpperCase(r) = <<>>
    BY <1>1, <1>2
  <2> QED BY <1>2, <2>1 DEF At!WithoutQuery
<1>3. CASE r # <<>>
  <2>1. Len(r) \in 1 .. Len(r) /\ At!UpperCase(r) # <<>> /\ Len(r) - 1 \in 0 .. Len(r)
    BY <1>1, <1>3
  <2>2. r[Len(r)] \in Words
    BY <2>1
  <2>3. At!UpperCase(r)[Len(At!UpperCase(r))] = "?" <=> r[Len(r)] = "?"
    BY <1>1, <2>1, <2>2 DEF At!ConstantsOK
  <2>4. SubSeq(r, 1, Len(r) - 1) \in Seq(Words)
    BY <2>1, AtBeginning
  <2>5. SubSeq(At!UpperCase(r), 1, Len(At!UpperCase(r)) - 1) = At!UpperCase(SubSeq(r, 1, Len(r) - 1))
    BY <1>1, <2>1, AtUpperBeginning
  <2> QED BY <1>3, <2>1, <2>3, <2>4, <2>5 DEF At!WithoutQuery, At!Last, At!Front
<1> QED BY <1>2, <1>3

\* and with the cut at the first equals mark.
LEMMA AtUpperCut ==
  ASSUME At!ConstantsOK, NEW r \in Seq(Words)
  PROVE  /\ AtCut(r) \in Seq(Words)
         /\ AtCut(At!UpperCase(r)) = At!UpperCase(AtCut(r))
<1> DEFINE u == At!UpperCase(r)
<1>1. u \in Seq(Words) /\ Len(u) = Len(r) /\ \A i \in 1 .. Len(r) : u[i] = Upper[r[i]]
  BY AtUpperText
<1>2. \A i \in 1 .. Len(r) : u[i] = "=" <=> r[i] = "="
  BY <1>1 DEF At!ConstantsOK
<1>3. AtMarks(u) = AtMarks(r)
  BY <1>1, <1>2 DEF AtMarks
<1>4. CASE AtMarks(r) = {}
  BY <1>3, <1>4 DEF AtCut
<1>5. CASE AtMarks(r) # {}
  <2>1. PICK k \in 1 .. Len(r) :
          /\ r[k] = "=" /\ \A j \in 1 .. k - 1 : r[j] # "="
          /\ AtCut(r) = SubSeq(r, 1, k - 1)
    BY <1>5, AtFirstMark
  <2>2. k - 1 \in 0 .. Len(r) /\ k \in 1 .. Len(u) /\ \A j \in 1 .. k - 1 : j \in 1 .. Len(r)
    BY <1>1, <2>1
  <2>3. u[k] = "=" /\ \A j \in 1 .. k - 1 : u[j] # "="
    BY <1>2, <2>1, <2>2
  <2> HIDE DEF u
  <2>4. AtCut(u) = SubSeq(u, 1, k - 1)
    BY <1>1, <2>2, <2>3, AtCutAt
  <2>5. SubSeq(At!UpperCase(r), 1, k - 1) = At!UpperCase(SubSeq(r, 1, k - 1))
    BY <2>2, AtUpperBeginning
  <2>6. SubSeq(r, 1, k - 1) \in Seq(Words)
    BY <2>2, AtBeginning
  <2> QED BY <2>1, <2>4, <2>5, <2>6 DEF u
<1> QED BY <1>4, <1>5

\* Small letters make no difference.
LEMMA AtCaseDoesNotMatter ==
  ASSUME At!ConstantsOK, NEW s \in Seq(Words), s # <<>>
  PROVE  At!Allowed(At!UpperCase(s)) = At!Allowed(s)
<1> DEFINE u == At!UpperCase(s)
           r == At!WithoutQuery(Tail(s))
<1>1. u \in Seq(Words) /\ Len(u) = Len(s) /\ \A i \in 1 .. Len(s) : u[i] = Upper[s[i]]
  BY AtUpperText
<1>2. Tail(s) \in Seq(Words) /\ s[1] \in Words /\ u # <<>> /\ u[1] = Upper[s[1]]
  BY <1>1
<1>3. At!WellFormed(u) <=> At!WellFormed(s)
  <2>1. Upper[Upper[s[1]]] = Upper[s[1]]
    BY <1>2 DEF At!ConstantsOK
  <2> QED BY <1>2, <2>1 DEF At!WellFormed
<1>4. At!WithoutQuery(Tail(u)) = At!UpperCase(r) /\ r \in Seq(Words)
  BY <1>2, AtUpperTail, AtUpperWithoutQuery
<1>5. At!Command(u) = At!UpperCase(At!Command(s)) /\ At!Command(s) \in Seq(Words)
  BY <1>4, AtCommandIsCut, AtUpperCut
<1>6. At!UpperCase(At!Command(u)) = At!UpperCase(At!Command(s))
  BY <1>5, AtUpperText
<1> QED BY <1>3, <1>6 DEF At!Allowed

-----------------------------------------------------------------------------
\* A text with a token behind it.
LEMMA AtAppended ==
  ASSUME NEW s \in Seq(Words), NEW e \in Words
  PROVE  /\ Append(s, e) \in Seq(Words) /\ Append(s, e) # <<>>
         /\ Len(Append(s, e)) = Len(s) + 1
         /\ Append(s, e)[Len(s) + 1] = e
         /\ \A i \in 1 .. Len(s) : Append(s, e)[i] = s[i]
OBVIOUS

\* Taking the front of a text undoes an addition.
LEMMA AtBeginningOfAppended ==
  ASSUME NEW s \in Seq(Words), NEW e \in Words, NEW n \in 0 .. Len(s)
  PROVE  SubSeq(Append(s, e), 1, n) = SubSeq(s, 1, n)
<1> DEFINE a == Append(s, e)
<1>1. a \in Seq(Words) /\ Len(a) = Len(s) + 1 /\ \A i \in 1 .. Len(s) : a[i] = s[i]
  BY AtAppended
<1>2. n \in 0 .. Len(a) /\ \A i \in 1 .. n : i \in 1 .. Len(s)
  BY <1>1
<1> HIDE DEF a
<1>3. /\ SubSeq(a, 1, n) \in Seq(Words) /\ Len(SubSeq(a, 1, n)) = n
      /\ \A i \in 1 .. n : SubSeq(a, 1, n)[i] = a[i]
  BY <1>1, <1>2, AtBeginning
<1>4. /\ SubSeq(s, 1, n) \in Seq(Words) /\ Len(SubSeq(s, 1, n)) = n
      /\ \A i \in 1 .. n : SubSeq(s, 1, n)[i] = s[i]
  BY AtBeginning
<1>5. \A i \in 1 .. n : SubSeq(a, 1, n)[i] = SubSeq(s, 1, n)[i]
  BY <1>1, <1>2, <1>3, <1>4
<1>6. SubSeq(a, 1, n) = SubSeq(s, 1, n)
  BY <1>3, <1>4, <1>5, SeqEqual
<1> QED BY <1>6 DEF a

\* What is behind the first token of such a text.
LEMMA AtTailOfAppended ==
  ASSUME NEW s \in Seq(Words), s # <<>>, NEW e \in Words
  PROVE  /\ Tail(s) \in Seq(Words)
         /\ Tail(Append(s, e)) = Append(Tail(s), e)
<1> DEFINE a == Append(s, e)
           t == Tail(s)
           b == Append(t, e)
<1>1. a \in Seq(Words) /\ a # <<>> /\ Len(a) = Len(s) + 1 /\ a[Len(s) + 1] = e
      /\ \A i \in 1 .. Len(s) : a[i] = s[i]
  BY AtAppended
<1>2. t \in Seq(Words) /\ Len(t) = Len(s) - 1 /\ \A i \in 1 .. Len(t) : t[i] = s[i + 1]
  BY HeadTailProperties
<1>3. b \in Seq(Words) /\ Len(b) = Len(t) + 1 /\ b[Len(t) + 1] = e
      /\ \A i \in 1 .. Len(t) : b[i] = t[i]
  BY <1>2, AtAppended
<1> HIDE DEF a, t, b
<1>4. Tail(a) \in Seq(Words) /\ Len(Tail(a)) = Len(a) - 1
      /\ \A i \in 1 .. Len(Tail(a)) : Tail(a)[i] = a[i + 1]
  BY <1>1, HeadTailProperties
<1>5. Len(s) \in Nat /\ Len(b) = Len(s) /\ Len(Tail(a)) = Len(s)
  BY <1>1, <1>2, <1>3, <1>4
<1>6. ASSUME NEW i \in 1 .. Len(s) PROVE Tail(a)[i] = b[i]
  <2>1. CASE i = Len(s)
    BY <1>1, <1>2, <1>3, <1>4, <1>5, <2>1
  <2>2. CASE i # Len(s)
    <3>1. i \in 1 .. Len(t) /\ i + 1 \in 1 .. Len(s)
      BY <1>2, <1>5, <2>2
    <3> QED BY <1>1, <1>2, <1>3, <1>4, <1>5, <3>1
  <2> QED BY <2>1, <2>2
<1>7. Tail(a) = b
  BY <1>3, <1>4, <1>5, <1>6, SeqEqual
<1> QED BY <1>2, <1>7 DEF a, b, t

\* The mark of a query is taken off, another end stays.
LEMMA AtQueryTakenOff ==
  ASSUME NEW r \in Seq(Words), NEW e \in Words
  PROVE  At!WithoutQuery(Append(r, e)) = IF e = "?" THEN r ELSE Append(r, e)
<1>1. Append(r, e) # <<>> /\ Len(Append(r, e)) = Len(r) + 1 /\ Append(r, e)[Len(r) + 1] = e
  BY AtAppended
<1>2. SubSeq(Append(r, e), 1, Len(r) + 1 - 1) = r
  <2>1. Len(r) \in 0 .. Len(r) /\ Len(r) + 1 - 1 = Len(r)
    OBVIOUS
  <2>2. SubSeq(Append(r, e), 1, Len(r)) = SubSeq(r, 1, Len(r))
    BY <2>1, AtBeginningOfAppended
  <2> QED BY <2>1, <2>2, SubSeqFull
<1> DEFINE a == Append(r, e)
<1>3. At!Last(a) = e /\ At!Front(a) = r
  BY <1>1, <1>2 DEF At!Last, At!Front
<1> QED BY <1>1, <1>3 DEF At!WithoutQuery

\* The beginning of a beginning.
LEMMA AtBeginningOfBeginning ==
  ASSUME NEW r \in Seq(Words), NEW n \in 0 .. Len(r), NEW m \in 0 .. n
  PROVE  SubSeq(SubSeq(r, 1, n), 1, m) = SubSeq(r, 1, m)
<1> DEFINE b == SubSeq(r, 1, n)
<1>1. b \in Seq(Words) /\ Len(b) = n /\ \A i \in 1 .. n : b[i] = r[i]
  BY AtBeginning
<1>2. m \in 0 .. Len(b) /\ m \in 0 .. Len(r) /\ \A i \in 1 .. m : i \in 1 .. n
  BY <1>1
<1> HIDE DEF b
<1>3. /\ SubSeq(b, 1, m) \in Seq(Words) /\ Len(SubSeq(b, 1, m)) = m
      /\ \A i \in 1 .. m : SubSeq(b, 1, m)[i] = b[i]
  BY <1>1, <1>2, AtBeginning
<1>4. /\ SubSeq(r, 1, m) \in Seq(Words) /\ Len(SubSeq(r, 1, m)) = m
      /\ \A i \in 1 .. m : SubSeq(r, 1, m)[i] = r[i]
  BY <1>2, AtBeginning
<1>5. \A i \in 1 .. m : SubSeq(b, 1, m)[i] = SubSeq(r, 1, m)[i]
  BY <1>1, <1>2, <1>3, <1>4
<1>6. SubSeq(b, 1, m) = SubSeq(r, 1, m)
  BY <1>3, <1>4, <1>5, SeqEqual
<1> QED BY <1>6 DEF b

\* What is behind an equals mark is cut off with it, whatever it is.
LEMMA AtCutOfBeginning ==
  ASSUME NEW r \in Seq(Words), NEW k \in 1 .. Len(r), r[k] = "="
  PROVE  AtCut(SubSeq(r, 1, k - 1)) = AtCut(r)
<1> DEFINE b == SubSeq(r, 1, k - 1)
<1>1. b \in Seq(Words) /\ Len(b) = k - 1 /\ \A i \in 1 .. k - 1 : b[i] = r[i]
  BY AtBeginning
<1>2. PICK m \in 1 .. Len(r) :
        /\ r[m] = "=" /\ \A j \in 1 .. m - 1 : r[j] # "="
        /\ AtCut(r) = SubSeq(r, 1, m - 1)
  <2>1. AtMarks(r) # {}
    BY DEF AtMarks
  <2> QED BY <2>1, AtFirstMark
<1>3. ~(k < m)
  BY <1>2
<1>4. CASE m = k
  <2>1. \A j \in 1 .. Len(b) : b[j] # "="
    BY <1>1, <1>2, <1>4
  <2>2. AtMarks(b) = {}
    BY <1>1, <2>1 DEF AtMarks
  <2> QED BY <1>2, <1>4, <2>2 DEF AtCut
<1>5. CASE m < k
  <2>1. /\ m \in 1 .. Len(b) /\ b[m] = "=" /\ \A j \in 1 .. m - 1 : b[j] # "="
        /\ k - 1 \in 0 .. Len(r) /\ m - 1 \in 0 .. k - 1
    BY <1>1, <1>2, <1>5
  <2>2. SubSeq(SubSeq(r, 1, k - 1), 1, m - 1) = SubSeq(r, 1, m - 1)
    BY <2>1, AtBeginningOfBeginning
  <2> HIDE DEF b
  <2>3. AtCut(b) = SubSeq(b, 1, m - 1)
    BY <1>1, <2>1, AtCutAt
  <2> QED BY <1>2, <2>2, <2>3 DEF b
<1> QED BY <1>3, <1>4, <1>5

\* The mark of a query behind a text that has none.
LEMMA AtQueryDoesNotMatter ==
  ASSUME At!ConstantsOK, NEW s \in Seq(Words), At!WellFormed(s), At!Last(s) # "?"
  PROVE  At!Allowed(Append(s, "?")) = At!Allowed(s)
<1> DEFINE r == Tail(s)
<1>1. s # <<>> /\ {"AT", "=", "?"} \subseteq Words
  BY DEF At!WellFormed, At!ConstantsOK
<1>2. r \in Seq(Words)
  BY <1>1
<1>3. At!WithoutQuery(r) = r
  <2>1. r # <<>> => r[Len(r)] = s[Len(s)]
    <3>1. Len(r) = Len(s) - 1 /\ \A i \in 1 .. Len(r) : r[i] = s[i + 1]
      BY <1>1, HeadTailProperties
    <3>2. r # <<>> => Len(r) \in 1 .. Len(r)
      BY <1>2
    <3> QED BY <3>1, <3>2
  <2> QED BY <2>1 DEF At!WithoutQuery, At!Last
<1>4. Tail(Append(s, "?")) = Append(r, "?")
  BY <1>1, AtTailOfAppended
<1>5. At!WithoutQuery(Append(r, "?")) = r
  BY <1>1, <1>2, AtQueryTakenOff
<1>6. At!Command(s) = AtCut(r) /\ At!Command(Append(s, "?")) = AtCut(r)
  BY <1>3, <1>4, <1>5, AtCommandIsCut
<1>7. At!WellFormed(Append(s, "?"))
  <2>1. Append(s, "?") # <<>> /\ Head(Append(s, "?")) = Head(s)
    BY <1>1
  <2> QED BY <2>1 DEF At!WellFormed
<1> QED BY <1>6, <1>7 DEF At!Allowed

\* Without its parameters a text is decided in the same way.
LEMMA AtParametersDoNotMatter ==
  ASSUME At!ConstantsOK, NEW s \in Seq(Words), At!WellFormed(s),
         NEW k \in 1 .. Len(s), s[k] = "=", s[k - 1] # "?"
  PROVE  At!Allowed(SubSeq(s, 1, k - 1)) = At!Allowed(s)
<1> DEFINE b == SubSeq(s, 1, k - 1)
           r == Tail(s)
           q == At!WithoutQuery(r)
           t == Tail(b)
<1>1. k >= 2
  <2>1. s[1] \in Words /\ Upper[s[1]] = "AT"
    BY DEF At!WellFormed
  <2>2. s[1] # "="
    BY <2>1 DEF At!ConstantsOK
  <2> QED BY <2>2
<1>2. /\ b \in Seq(Words) /\ Len(b) = k - 1 /\ b # <<>>
      /\ \A i \in 1 .. k - 1 : b[i] = s[i]
  <2>1. k - 1 \in 0 .. Len(s)
    OBVIOUS
  <2>2. b \in Seq(Words) /\ Len(b) = k - 1 /\ \A i \in 1 .. k - 1 : b[i] = s[i]
    BY <2>1, AtBeginning
  <2> QED BY <1>1, <2>2
<1>3. /\ r \in Seq(Words) /\ Len(r) = Len(s) - 1
      /\ \A i \in 1 .. Len(r) : r[i] = s[i + 1]
  BY <1>1, HeadTailProperties
<1>4. k - 1 \in 1 .. Len(r) /\ r[k - 1] = "="
  BY <1>1, <1>3
<1> HIDE DEF r
<1>5. /\ q \in Seq(Words) /\ Len(q) \in 0 .. Len(r) /\ k - 1 \in 1 .. Len(q)
      /\ q = SubSeq(r, 1, Len(q))
  <2>1. r # <<>> /\ Len(r) - 1 \in 0 .. Len(r) /\ Len(r) \in 0 .. Len(r)
    BY <1>3, <1>4
  <2>2. CASE r[Len(r)] = "?"
    <3>1. q = SubSeq(r, 1, Len(r) - 1) /\ k - 1 # Len(r)
      BY <2>1, <2>2, <1>4 DEF At!WithoutQuery, At!Last, At!Front
    <3>2. q \in Seq(Words) /\ Len(q) = Len(r) - 1
      BY <3>1, <2>1, <1>3, AtBeginning
    <3> QED BY <3>1, <3>2, <2>1, <1>4
  <2>3. CASE r[Len(r)] # "?"
    <3>1. q = r
      BY <2>1, <2>3 DEF At!WithoutQuery, At!Last
    <3> QED BY <3>1, <2>1, <1>3, <1>4, SubSeqFull
  <2> QED BY <2>2, <2>3
<1>6. \A i \in 1 .. Len(q) : q[i] = r[i]
  BY <1>3, <1>5, AtBeginning
<1> HIDE DEF b, q
<1>7. /\ t \in Seq(Words) /\ Len(t) = k - 2
      /\ \A i \in 1 .. Len(t) : t[i] = b[i + 1]
  BY <1>2, HeadTailProperties
<1> HIDE DEF t
<1>8. t = SubSeq(q, 1, k - 2)
  <2>1. k - 2 \in 0 .. Len(q)
    BY <1>1, <1>5
  <2>2. /\ SubSeq(q, 1, k - 2) \in Seq(Words) /\ Len(SubSeq(q, 1, k - 2)) = k - 2
        /\ \A i \in 1 .. k - 2 : SubSeq(q, 1, k - 2)[i] = q[i]
    BY <2>1, <1>5, AtBeginning
  <2>3. ASSUME NEW i \in 1 .. k - 2 PROVE t[i] = SubSeq(q, 1, k - 2)[i]
    <3>1. i \in 1 .. Len(q) /\ i \in 1 .. Len(r) /\ i + 1 \in 1 .. k - 1 /\ i \in 1 .. Len(t)
      BY <1>1, <1>3, <1>4, <1>5, <1>7
    <3>2. t[i] = b[i + 1] /\ b[i + 1] = s[i + 1] /\ r[i] = s[i + 1] /\ q[i] = r[i]
      BY <3>1, <1>2, <1>3, <1>6, <1>7
    <3> QED BY <2>2, <3>2
  <2> QED BY <1>7, <2>2, <2>3, SeqEqual
<1>9. At!WithoutQuery(t) = t
  <2>1. t # <<>> => t[Len(t)] # "?"
    <3> SUFFICES ASSUME t # <<>> PROVE t[Len(t)] # "?"
      OBVIOUS
    <3>1. Len(t) \in 1 .. Len(t) /\ Len(t) + 1 = k - 1 /\ k - 1 \in 1 .. k - 1
      BY <1>1, <1>7
    <3>2. t[Len(t)] = b[k - 1] /\ b[k - 1] = s[k - 1]
      BY <3>1, <1>2, <1>7
    <3> QED BY <3>2
  <2> QED BY <2>1 DEF At!WithoutQuery, At!Last
<1>10. AtCut(t) = AtCut(q)
  <2>1. q[k - 1] = "=" /\ k - 1 - 1 = k - 2
    BY <1>4, <1>5, <1>6
  <2>2. AtCut(SubSeq(q, 1, k - 1 - 1)) = AtCut(q)
    BY <2>1, <1>5, AtCutOfBeginning
  <2> QED BY <1>8, <2>1, <2>2
<1>11. At!Command(b) = AtCut(t) /\ At!Command(s) = AtCut(q)
  BY <1>9, AtCommandIsCut DEF t, q, r
<1>12. At!WellFormed(b)
  <2>1. Head(b) = Head(s)
    BY <1>1, <1>2
  <2> QED BY <1>2, <2>1 DEF At!WellFormed
<1> QED BY <1>10, <1>11, <1>12 DEF At!Allowed, b

-----------------------------------------------------------------------------
\* The last verdict is that of the text it was asked for.
AtInv ==
  /\ At!TypeOK
  /\ text # <<>> => verdict.allowed = At!Allowed(text)

\* The texts that are sent are not empty.
LEMMA AtTextsAreSequences == \A s \in At!Texts : s \in Seq(Words) /\ s # <<>>
<1> SUFFICES ASSUME NEW s \in At!Texts PROVE s \in Seq(Words) /\ s # <<>>
  OBVIOUS
<1>1. PICK n \in 1 .. MaxLength : s \in [1 .. n -> Words]
  BY DEF At!Texts
<1>2. n \in Nat /\ n >= 1
  BY <1>1
<1> QED BY <1>1, <1>2

\* A recorded verdict that is the text's own is that of its other forms.
LEMMA AtInvSuffices == At!ConstantsOK /\ AtInv => At!TypeOK /\ At!FormDoesNotMatter
<1> SUFFICES ASSUME At!ConstantsOK, AtInv PROVE At!FormDoesNotMatter
  BY DEF AtInv
<1>1. text # <<>> => text \in Seq(Words)
  BY AtTextsAreSequences DEF AtInv, At!TypeOK
<1>2. At!WellFormed(text) => text # <<>>
  BY DEF At!WellFormed
<1>3. text # <<>> => At!Allowed(At!UpperCase(text)) = At!Allowed(text)
  BY <1>1, AtCaseDoesNotMatter
<1>4. At!WellFormed(text) /\ At!Last(text) # "?" =>
        At!Allowed(Append(text, "?")) = At!Allowed(text)
  BY <1>1, <1>2, AtQueryDoesNotMatter
<1>5. ASSUME At!WellFormed(text), NEW k \in DOMAIN text, text[k] = "=", text[k - 1] # "?"
      PROVE  At!Allowed(SubSeq(text, 1, k - 1)) = At!Allowed(text)
  <2>1. text \in Seq(Words) /\ k \in 1 .. Len(text)
    BY <1>1, <1>2, <1>5
  <2> QED BY <2>1, <1>5, AtParametersDoNotMatter
<1> QED BY <1>2, <1>3, <1>4, <1>5 DEF At!FormDoesNotMatter, AtInv

\* Before the first request there is no verdict.
LEMMA AtInitInv == At!Init => AtInv
BY DEF At!Init, AtInv, At!TypeOK

\* A reply is the verdict on the text that was sent.
LEMMA AtStepInv == AtInv /\ [At!Next]_<<text, verdict>> => AtInv'
<1> SUFFICES ASSUME AtInv, [At!Next]_<<text, verdict>> PROVE AtInv'
  OBVIOUS
<1>1. CASE At!Request
  <2>1. At!Allowed(text') \in BOOLEAN
    BY DEF At!Allowed
  <2> QED BY <1>1, <2>1 DEF At!Request, AtInv, At!TypeOK
<1>2. CASE At!Replied
  BY <1>2 DEF At!Replied, AtInv, At!TypeOK
<1>3. CASE UNCHANGED <<text, verdict>>
  BY <1>3 DEF AtInv, At!TypeOK
<1> QED BY <1>1, <1>2, <1>3 DEF At!Next

-----------------------------------------------------------------------------
(* The duress PIN daemon.  Every wipe has all that is doomed on its list, and  *)
(* whoever removed an entry ahead of another wipe is further on than it, so   *)
(* that the wipe that is the furthest stumbles over nothing.                  *)

\* The duress daemon starts with its variables in their types.
LEMMA DuressInitType == Duress!Init => Duress!TypeOK
BY DEF Duress!Init, Duress!TypeOK

\* Verifications, beacons, removals, failures and deaths keep the types.
LEMMA DuressStepType == Duress!TypeOK /\ [Duress!Next]_(Duress!vars) => Duress!TypeOK'
<1> SUFFICES ASSUME Duress!TypeOK, [Duress!Next]_(Duress!vars) PROVE Duress!TypeOK'
  OBVIOUS
<1>1. ASSUME NEW pin \in Pins, Duress!VerifyPin(pin) PROVE Duress!TypeOK'
  BY <1>1 DEF Duress!VerifyPin, Duress!TypeOK
<1>2. ASSUME NEW t \in WipeTasks, Duress!TaskStep(t) \/ Duress!WipeFails(t) PROVE Duress!TypeOK'
  <2>1. CASE Duress!BeaconEnds(t)
    BY <2>1 DEF Duress!BeaconEnds, Duress!AfterBeacon, Duress!TypeOK
  <2>2. CASE Duress!Removes(t)
    BY <2>2 DEF Duress!Removes, Duress!TypeOK
  <2>3. CASE Duress!Skips(t)
    BY <2>3 DEF Duress!Skips, Duress!TypeOK
  <2>4. CASE Duress!WipeEnds(t)
    BY <2>4 DEF Duress!WipeEnds, Duress!TypeOK
  <2>5. CASE Duress!WipeFails(t)
    BY <2>5 DEF Duress!WipeFails, Duress!TypeOK
  <2> QED BY <1>2, <2>1, <2>2, <2>3, <2>4, <2>5 DEF Duress!TaskStep
<1>3. CASE Duress!KeysStored
  BY <1>3 DEF Duress!KeysStored, Duress!TypeOK
<1>4. CASE Duress!Crash
  BY <1>4 DEF Duress!Crash, Duress!TypeOK
<1>5. CASE UNCHANGED Duress!vars
  BY <1>5 DEF Duress!vars, Duress!TypeOK
<1> QED BY <1>1, <1>2, <1>3, <1>4, <1>5 DEF Duress!Next

\* A wipe lists whatever is doomed.
DuressLists == \A t \in WipeTasks : task[t] = "wipe" => doomed \subseteq list[t]

\* An entry that was removed ahead of a wipe was so by one that has only later
\* entries left, or whose work was taken over by such a one.
DuressOvertaken ==
  \A t \in WipeTasks : task[t] = "wipe" =>
    \A g \in list[t] \ keys :
      \E s \in WipeTasks : task[s] = "wipe" /\ \A x \in list[s] : g < x

\* As long as anything is doomed somebody is at it.
DuressInv ==
  /\ Duress!TypeOK
  /\ DuressLists
  /\ doomed # {} => DuressOvertaken /\ \E t \in WipeTasks : task[t] # "none"

\* A wipe's next entry is the least on its list.
LEMMA DuressFirst ==
  ASSUME NEW set \in SUBSET Duress!Entries, set # {}
  PROVE  Duress!First(set) \in set /\ \A f \in set : Duress!First(set) <= f
<1>1. set \subseteq Nat
  BY DEF Duress!Entries
<1>2. \E e \in set : \A f \in set : e <= f
  BY <1>1, LeastExists
<1> QED BY <1>2 DEF Duress!First

\* At the start nothing is doomed.
LEMMA DuressInitInv == Duress!Init => DuressInv
BY DuressInitType DEF DuressInv, DuressLists, Duress!Init

\* A PIN dooms what is there when nobody has a list yet.
LEMMA DuressVerifyInv ==
  ASSUME DuressInv, Duress!TypeOK', NEW pin \in Pins, Duress!VerifyPin(pin)
  PROVE  DuressInv'
<1>1. PICK t \in WipeTasks : task[t] = "none" /\ task' = [task EXCEPT ![t] = "beacon"]
  BY DEF Duress!VerifyPin
<1>2. /\ \A s \in WipeTasks : task'[s] = "wipe" <=> task[s] = "wipe"
      /\ task'[t] # "none" /\ list' = list /\ keys' = keys
  BY <1>1 DEF Duress!VerifyPin, DuressInv, Duress!TypeOK
<1>3. CASE \E s \in WipeTasks : task[s] = "wipe"
  <2>1. doomed' = doomed
    BY <1>3 DEF Duress!VerifyPin
  <2> QED BY <1>2, <2>1 DEF DuressInv, DuressLists, DuressOvertaken
<1>4. CASE \A s \in WipeTasks : task[s] # "wipe"
  BY <1>2, <1>4 DEF DuressInv, DuressLists, DuressOvertaken
<1> QED BY <1>3, <1>4

\* A wipe begins with a list of all there is.
LEMMA DuressBeaconInv ==
  ASSUME DuressInv, Duress!TypeOK', NEW t \in WipeTasks, Duress!BeaconEnds(t)
  PROVE  DuressInv'
<1>1. /\ task[t] = "beacon" /\ task' = [task EXCEPT ![t] = "wipe"]
      /\ list' = [list EXCEPT ![t] = keys] /\ keys' = keys /\ doomed' = doomed
      /\ doomed \subseteq keys
  BY DEF Duress!BeaconEnds, Duress!AfterBeacon, DuressInv, Duress!TypeOK
<1>2. /\ task'[t] = "wipe" /\ list'[t] = keys
      /\ \A s \in WipeTasks \ {t} : task'[s] = task[s] /\ list'[s] = list[s]
  BY <1>1 DEF DuressInv, Duress!TypeOK
<1>3. DuressLists'
  BY <1>1, <1>2 DEF DuressInv, DuressLists
<1>4. ASSUME DuressOvertaken PROVE DuressOvertaken'
  <2> SUFFICES ASSUME NEW s \in WipeTasks, task'[s] = "wipe", NEW g \in list'[s] \ keys
               PROVE  \E r \in WipeTasks : task'[r] = "wipe" /\ \A x \in list'[r] : g < x
    BY <1>1 DEF DuressOvertaken
  <2>1. s # t
    BY <1>2
  <2>2. PICK r \in WipeTasks : task[r] = "wipe" /\ \A x \in list[r] : g < x
    BY <1>2, <1>4, <2>1 DEF DuressOvertaken
  <2>3. r # t
    BY <1>1, <2>2
  <2> QED BY <1>2, <2>2, <2>3
<1> QED BY <1>1, <1>2, <1>3, <1>4 DEF DuressInv

\* Whoever removes an entry is ahead of all that still list it.
LEMMA DuressRemovesInv ==
  ASSUME DuressInv, Duress!TypeOK', NEW t \in WipeTasks, Duress!Removes(t)
  PROVE  DuressInv'
<1> DEFINE e == Duress!First(list[t])
<1>1. /\ task[t] = "wipe" /\ list[t] # {} /\ task' = task
      /\ keys' = keys \ {e} /\ doomed' = doomed \ {e} /\ list' = [list EXCEPT ![t] = @ \ {e}]
  BY DEF Duress!Removes
<1>2. list[t] \in SUBSET Duress!Entries
  BY DEF DuressInv, Duress!TypeOK
<1>3. e \in list[t] /\ \A x \in list[t] : e <= x
  BY <1>1, <1>2, DuressFirst
<1> HIDE DEF e
<1>4. list'[t] = list[t] \ {e} /\ \A s \in WipeTasks \ {t} : list'[s] = list[s]
  BY <1>1 DEF DuressInv, Duress!TypeOK
<1>5. \A x \in list'[t] : e < x
  <2>1. list[t] \subseteq Int
    BY <1>2 DEF Duress!Entries
  <2> QED BY <1>3, <1>4, <2>1
<1>6. DuressLists'
  BY <1>1, <1>4 DEF DuressInv, DuressLists
<1>7. ASSUME DuressOvertaken PROVE DuressOvertaken'
  <2> SUFFICES ASSUME NEW s \in WipeTasks, task'[s] = "wipe", NEW g \in list'[s] \ keys'
               PROVE  \E r \in WipeTasks : task'[r] = "wipe" /\ \A x \in list'[r] : g < x
    BY DEF DuressOvertaken
  <2>1. CASE g = e
    BY <1>1, <1>5, <2>1
  <2>2. CASE g # e
    <3>1. g \in list[s] \ keys /\ task[s] = "wipe"
      BY <1>1, <1>4, <2>2
    <3>2. PICK r \in WipeTasks : task[r] = "wipe" /\ \A x \in list[r] : g < x
      BY <1>7, <3>1 DEF DuressOvertaken
    <3>3. list'[r] \subseteq list[r]
      BY <1>4
    <3> QED BY <1>1, <3>2, <3>3
  <2> QED BY <2>1, <2>2
<1>8. doomed' # {} => doomed # {}
  BY <1>1
<1> QED BY <1>1, <1>6, <1>7, <1>8 DEF DuressInv

\* What is skipped is not there, and so not doomed.
LEMMA DuressSkipsInv ==
  ASSUME DuressInv, Duress!TypeOK', NEW t \in WipeTasks, Duress!Skips(t)
  PROVE  DuressInv'
<1> DEFINE e == Duress!First(list[t])
<1>1. /\ task' = task /\ keys' = keys /\ doomed' = doomed
      /\ list' = [list EXCEPT ![t] = @ \ {e}] /\ e \notin keys /\ doomed \subseteq keys
  BY DEF Duress!Skips, Duress!Stumbles, DuressInv, Duress!TypeOK
<1> HIDE DEF e
<1>2. list'[t] = list[t] \ {e} /\ \A s \in WipeTasks \ {t} : list'[s] = list[s]
  BY <1>1 DEF DuressInv, Duress!TypeOK
<1>3. DuressLists'
  BY <1>1, <1>2 DEF DuressInv, DuressLists
<1>4. ASSUME DuressOvertaken PROVE DuressOvertaken'
  <2> SUFFICES ASSUME NEW s \in WipeTasks, task'[s] = "wipe", NEW g \in list'[s] \ keys'
               PROVE  \E r \in WipeTasks : task'[r] = "wipe" /\ \A x \in list'[r] : g < x
    BY DEF DuressOvertaken
  <2>1. g \in list[s] \ keys /\ task[s] = "wipe"
    BY <1>1, <1>2
  <2>2. PICK r \in WipeTasks : task[r] = "wipe" /\ \A x \in list[r] : g < x
    BY <1>4, <2>1 DEF DuressOvertaken
  <2> QED BY <1>1, <1>2, <2>2
<1> QED BY <1>1, <1>3, <1>4 DEF DuressInv

\* A wipe that stumbles leaves the rest to the one that overtook it.
LEMMA DuressEndsInv ==
  ASSUME DuressInv, Duress!TypeOK', NEW t \in WipeTasks, Duress!WipeEnds(t)
  PROVE  DuressInv'
<1> DEFINE e == Duress!First(list[t])
<1>1. /\ task[t] = "wipe" /\ (list[t] = {} \/ (list[t] # {} /\ e \notin keys))
      /\ task' = [task EXCEPT ![t] = "none"] /\ list' = [list EXCEPT ![t] = {}]
      /\ keys' = keys /\ doomed' = doomed
  BY DEF Duress!WipeEnds, Duress!Stumbles
<1>2. /\ task'[t] = "none"
      /\ \A s \in WipeTasks \ {t} : task'[s] = task[s] /\ list'[s] = list[s]
  BY <1>1 DEF DuressInv, Duress!TypeOK
<1>3. DuressLists'
  BY <1>1, <1>2 DEF DuressInv, DuressLists
<1>4. ASSUME doomed # {}, DuressOvertaken
      PROVE  DuressOvertaken' /\ \E s \in WipeTasks : task'[s] # "none"
  <2>0. task[t] = "wipe"
    BY DEF Duress!WipeEnds
  <2>1. list[t] # {} /\ e \notin keys
    BY <1>1, <1>4, <2>0 DEF DuressInv, DuressLists
  <2>2. list[t] \in SUBSET Duress!Entries
    BY DEF DuressInv, Duress!TypeOK
  <2>3. e \in list[t] /\ \A x \in list[t] : e <= x
    BY <2>1, <2>2, DuressFirst
  <2> HIDE DEF e
  <2>4. PICK s \in WipeTasks : task[s] = "wipe" /\ \A x \in list[s] : e < x
    BY <1>4, <2>0, <2>1, <2>3 DEF DuressOvertaken
  <2>5. s # t
    BY <2>2, <2>3, <2>4 DEF Duress!Entries
  <2>6. ASSUME NEW r \in WipeTasks, task'[r] = "wipe", NEW g \in list'[r] \ keys'
        PROVE  \E q \in WipeTasks : task'[q] = "wipe" /\ \A x \in list'[q] : g < x
    <3>1. task[r] = "wipe" /\ g \in list[r] \ keys
      BY <1>1, <1>2, <2>6
    <3>2. PICK q \in WipeTasks : task[q] = "wipe" /\ \A x \in list[q] : g < x
      BY <1>4, <3>1 DEF DuressOvertaken
    <3>3. CASE q = t
      <4>1. g < e /\ g \in Int /\ e \in Int
        BY <2>2, <2>3, <3>1, <3>2, <3>3 DEF DuressInv, Duress!TypeOK, Duress!Entries
      <4>2. \A x \in list[s] : x \in Int
        BY DEF DuressInv, Duress!TypeOK, Duress!Entries
      <4>3. \A x \in list[s] : g < x
        BY <2>4, <4>1, <4>2
      <4> QED BY <1>2, <2>4, <2>5, <4>3
    <3>4. CASE q # t
      BY <1>2, <3>2, <3>4
    <3> QED BY <3>3, <3>4
  <2>7. DuressOvertaken'
    BY <2>6 DEF DuressOvertaken
  <2> QED BY <1>2, <2>4, <2>5, <2>7
<1> QED BY <1>1, <1>3, <1>4 DEF DuressInv

\* Every step of the daemon, and of those that store keys, keeps the invariant.
LEMMA DuressStepInv == DuressInv /\ [Duress!Next]_(Duress!vars) => DuressInv'
<1> SUFFICES ASSUME DuressInv, [Duress!Next]_(Duress!vars) PROVE DuressInv'
  OBVIOUS
<1>0. Duress!TypeOK'
  BY DuressStepType DEF DuressInv
<1>1. ASSUME NEW pin \in Pins, Duress!VerifyPin(pin) PROVE DuressInv'
  BY <1>0, <1>1, DuressVerifyInv
<1>2. ASSUME NEW t \in WipeTasks, Duress!TaskStep(t) PROVE DuressInv'
  BY <1>0, <1>2, DuressBeaconInv, DuressRemovesInv, DuressSkipsInv, DuressEndsInv
     DEF Duress!TaskStep
<1>3. ASSUME NEW t \in WipeTasks, Duress!WipeFails(t) PROVE DuressInv'
  BY <1>0, <1>3 DEF Duress!WipeFails, DuressInv, DuressLists
<1>4. CASE Duress!KeysStored
  BY <1>0, <1>4 DEF Duress!KeysStored, DuressInv, DuressLists, DuressOvertaken
<1>5. CASE Duress!Crash
  BY <1>0, <1>5 DEF Duress!Crash, DuressInv, DuressLists
<1>6. CASE UNCHANGED Duress!vars
  BY <1>0, <1>6 DEF Duress!vars, DuressInv, DuressLists, DuressOvertaken
<1> QED BY <1>1, <1>2, <1>3, <1>4, <1>5, <1>6 DEF Duress!Next

\* Of the wipes under way the one that is furthest does not stumble: what it
\* would stumble over was removed by one that is further.
LEMMA DuressInvSuffices == Duress!ConstantsOK /\ DuressInv => Duress!DoomIsPursued
<1> SUFFICES ASSUME Duress!ConstantsOK, DuressInv, doomed # {},
                    \A t \in WipeTasks : task[t] # "beacon"
             PROVE  \E t \in WipeTasks :
                      task[t] = "wipe" /\ doomed \subseteq list[t] /\ ~Duress!Stumbles(t)
  BY DEF Duress!DoomIsPursued
<1> DEFINE Wiping == {t \in WipeTasks : task[t] = "wipe"}
           Left(t) == Size - Duress!First(list[t])
           I == {Left(t) : t \in Wiping}
<1>1. Wiping # {}
  BY DEF DuressInv, Duress!TypeOK
<1>2. ASSUME NEW t \in Wiping
      PROVE  /\ doomed \subseteq list[t] /\ Duress!First(list[t]) \in list[t]
             /\ Duress!First(list[t]) \in Nat /\ Left(t) \in Nat
  <2>1. doomed \subseteq list[t] /\ list[t] \in SUBSET Duress!Entries /\ list[t] # {}
    BY DEF DuressInv, DuressLists, Duress!TypeOK
  <2>2. Duress!First(list[t]) \in list[t]
    BY <2>1, DuressFirst
  <2>3. Duress!First(list[t]) \in 1 .. Size
    BY <2>1, <2>2 DEF Duress!Entries
  <2> QED BY <2>1, <2>2, <2>3 DEF Duress!ConstantsOK
<1>3. PICK n \in I : \A m \in I : n <= m
  <2>1. I \subseteq Nat /\ I # {}
    BY <1>1, <1>2
  <2> HIDE DEF I
  <2> QED BY <2>1, LeastExists
<1>4. PICK t \in Wiping : n = Left(t)
  BY <1>3
<1>5. ASSUME Duress!Stumbles(t) PROVE FALSE
  <2>1. Duress!First(list[t]) \in list[t] \ keys
    BY <1>2, <1>5 DEF Duress!Stumbles
  <2>2. PICK s \in Wiping : \A x \in list[s] : Duress!First(list[t]) < x
    BY <2>1 DEF DuressInv, DuressOvertaken
  <2>3. Duress!First(list[t]) < Duress!First(list[s])
    BY <1>2, <2>2
  <2>4. Left(s) \in I /\ Size \in Nat
    BY DEF Duress!ConstantsOK
  <2>5. Left(t) <= Left(s)
    BY <1>3, <1>4, <2>4
  <2> QED BY <1>2, <2>3, <2>4, <2>5
<1> QED BY <1>2, <1>5

-----------------------------------------------------------------------------
(* The firmware guard.  At most one check has the mutex and reads files, so  *)
(* that the results are those of one reading of every blob at most; and what *)
(* was tampered with before a check began is found where it has read.        *)

\* A check of one task: how far it is and what it has read.
FirmwareChecks ==
  [stage : {"idle", "verifying", "alerting", "storing"},
   found : {s \in Seq(Readings) : Len(s) <= Blobs}]

\* One check at a time has the mutex.
FirmwareAlone ==
  \A s, t \in Firmware!Tasks : check[s].stage = "verifying" /\ check[t].stage = "verifying" => s = t

\* The files, and what was last stored of them.
FirmwareStored ==
  /\ disk \in [1 .. Blobs -> Readings] /\ serving \in BOOLEAN
  /\ last_results \in Seq(Readings) /\ Len(last_results) <= Blobs

FirmwareInv == FirmwareStored /\ check \in [Firmware!Tasks -> FirmwareChecks] /\ FirmwareAlone

\* A check has found what has been tampered with ever since it began, as far as
\* it has read, and it has read all before it alerts or stores.
FirmwareSeen ==
  /\ steady \in [Firmware!Tasks -> SUBSET (1 .. Blobs)]
  /\ \A t \in Firmware!Tasks : \A k \in steady[t] :
       disk[k] = "tampered" /\ (k <= Len(check[t].found) => check[t].found[k] = "tampered")
  /\ \A t \in Firmware!Tasks :
       check[t].stage \in {"alerting", "storing"} => Len(check[t].found) = Blobs

\* The invariant has the types of TypeOK, and the mutex.
LEMMA FirmwareInvTypes == FirmwareInv /\ FirmwareSeen => Firmware!TypeOK
<1> SUFFICES ASSUME FirmwareInv, FirmwareSeen PROVE Firmware!TypeOK
  OBVIOUS
<1>1. \A t \in Firmware!Tasks :
        /\ check[t].stage \in {"idle", "verifying", "alerting", "storing"}
        /\ check[t].found \in Seq(Readings) /\ Len(check[t].found) <= Blobs
        /\ steady[t] \subseteq 1 .. Blobs
  BY DEF FirmwareInv, FirmwareChecks, FirmwareSeen
<1> QED BY <1>1 DEF FirmwareInv, FirmwareStored, Firmware!TypeOK, FirmwareAlone

\* A check that has not begun.
LEMMA FirmwareIdleIsCheck ==
  Firmware!ConstantsOK =>
    Firmware!Idle \in FirmwareChecks /\ <<>> \in Seq(Readings) /\ Len(<<>>) <= Blobs
<1> SUFFICES ASSUME Firmware!ConstantsOK
             PROVE  Firmware!Idle \in FirmwareChecks /\ <<>> \in Seq(Readings) /\ Len(<<>>) <= Blobs
  OBVIOUS
<1>1. <<>> \in Seq(Readings) /\ Len(<<>>) = 0
  OBVIOUS
<1> QED BY <1>1 DEF Firmware!Idle, FirmwareChecks, Firmware!ConstantsOK

\* The guard starts with all files unread and no check under way.
LEMMA FirmwareInitInv == Firmware!ConstantsOK /\ Firmware!Init => FirmwareInv /\ FirmwareSeen
<1> SUFFICES ASSUME Firmware!ConstantsOK, Firmware!Init PROVE FirmwareInv /\ FirmwareSeen
  OBVIOUS
<1>1. check \in [Firmware!Tasks -> FirmwareChecks] /\ FirmwareAlone
  BY FirmwareIdleIsCheck DEF Firmware!Init, FirmwareAlone, Firmware!Idle
<1>2. /\ disk \in [1 .. Blobs -> Readings] /\ serving \in BOOLEAN
      /\ last_results \in Seq(Readings) /\ Len(last_results) <= Blobs
  BY FirmwareIdleIsCheck DEF Firmware!Init, Firmware!ConstantsOK
<1>3. FirmwareSeen
  BY DEF Firmware!Init, FirmwareSeen, Firmware!Idle
<1> QED BY <1>1, <1>2, <1>3 DEF FirmwareInv, FirmwareStored

\* What a task has read and is about.
LEMMA FirmwareCheckParts ==
  ASSUME NEW c \in FirmwareChecks
  PROVE  /\ c = [stage |-> c.stage, found |-> c.found]
         /\ c.found \in Seq(Readings) /\ Len(c.found) \in Nat /\ Len(c.found) <= Blobs
         /\ \A s \in {"idle", "verifying", "alerting", "storing"} :
              [c EXCEPT !.stage = s] = [stage |-> s, found |-> c.found]
         /\ \A f : [c EXCEPT !.found = f] = [stage |-> c.stage, found |-> f]
BY DEF FirmwareChecks

\* A task that goes on to a stage without the mutex.
LEMMA FirmwareStageInv ==
  ASSUME Firmware!ConstantsOK, FirmwareInv, NEW t \in Firmware!Tasks,
         NEW c \in FirmwareChecks, check' = [check EXCEPT ![t] = c],
         c.stage = "verifying" => Firmware!LockFree \/ check[t].stage = "verifying"
  PROVE  check' \in [Firmware!Tasks -> FirmwareChecks] /\ FirmwareAlone'
<1>1. /\ check' \in [Firmware!Tasks -> FirmwareChecks] /\ check'[t] = c
      /\ \A s \in Firmware!Tasks \ {t} : check'[s] = check[s]
  BY DEF FirmwareInv
<1> QED BY <1>1 DEF FirmwareInv, FirmwareAlone, Firmware!LockFree

\* No check, alert, change of a file or death breaks the guard's invariant.
LEMMA FirmwareStepInv ==
  Firmware!ConstantsOK /\ FirmwareInv /\ [Firmware!Next]_(Firmware!vars) => FirmwareInv'
<1> SUFFICES ASSUME Firmware!ConstantsOK, FirmwareInv, [Firmware!Next]_(Firmware!vars)
             PROVE  FirmwareInv'
  OBVIOUS
<1> USE DEF FirmwareInv
<1>0. /\ disk \in [1 .. Blobs -> Readings] /\ serving \in BOOLEAN
      /\ last_results \in Seq(Readings) /\ Len(last_results) <= Blobs
      /\ check \in [Firmware!Tasks -> FirmwareChecks]
  BY DEF FirmwareStored
<1>1. ASSUME NEW t \in Firmware!Tasks, Firmware!Begins(t) PROVE FirmwareInv'
  <2> DEFINE c == [check[t] EXCEPT !.stage = "verifying"]
  <2>1. c \in FirmwareChecks
    BY <1>0 DEF FirmwareChecks
  <2>2. check' = [check EXCEPT ![t] = c] /\ Firmware!LockFree
    BY <1>1 DEF Firmware!Begins
  <2>3. check' \in [Firmware!Tasks -> FirmwareChecks] /\ FirmwareAlone'
    BY <2>1, <2>2, FirmwareStageInv
  <2> QED BY <1>0, <1>1, <2>3 DEF FirmwareStored, Firmware!Begins
<1>2. ASSUME NEW t \in Firmware!Tasks, Firmware!Reads(t) PROVE FirmwareInv'
  <2> DEFINE c == [check[t] EXCEPT !.found = Append(@, disk[Len(check[t].found) + 1])]
  <2>1. check[t] \in FirmwareChecks /\ Len(check[t].found) < Blobs /\ check[t].stage = "verifying"
    BY <1>2 DEF Firmware!Reads
  <2>2. disk[Len(check[t].found) + 1] \in Readings
    BY <1>0, <2>1, FirmwareCheckParts DEF Firmware!ConstantsOK
  <2> DEFINE f == Append(check[t].found, disk[Len(check[t].found) + 1])
  <2>3. c \in FirmwareChecks
    <3>1. f \in Seq(Readings) /\ Len(f) <= Blobs
      <4>1. check[t].found \in Seq(Readings) /\ Len(check[t].found) < Blobs
        BY <2>1, FirmwareCheckParts
      <4> QED BY <2>2, <4>1 DEF Firmware!ConstantsOK
    <3>2. c = [stage |-> check[t].stage, found |-> f]
      BY <2>1, FirmwareCheckParts
    <3> HIDE DEF f
    <3> QED BY <2>1, <3>1, <3>2 DEF FirmwareChecks
  <2>4. check' = [check EXCEPT ![t] = c]
    BY <1>2 DEF Firmware!Reads
  <2>5. check' \in [Firmware!Tasks -> FirmwareChecks] /\ FirmwareAlone'
    BY <2>1, <2>3, <2>4, FirmwareStageInv
  <2> QED BY <1>0, <1>2, <2>5 DEF FirmwareStored, Firmware!Reads
<1>3. ASSUME NEW t \in Firmware!Tasks, NEW s \in {"alerting", "storing"},
             check' = [check EXCEPT ![t].stage = s], UNCHANGED <<disk, serving, last_results>>
      PROVE  FirmwareInv'
  <2> DEFINE c == [check[t] EXCEPT !.stage = s]
  <2>1. c \in FirmwareChecks /\ c.stage # "verifying"
    BY <1>0 DEF FirmwareChecks
  <2>2. check' \in [Firmware!Tasks -> FirmwareChecks] /\ FirmwareAlone'
    BY <1>3, <2>1, FirmwareStageInv
  <2> QED BY <1>0, <1>3, <2>2 DEF FirmwareStored
<1>4. ASSUME NEW t \in Firmware!Tasks, Firmware!Verified(t) PROVE FirmwareInv'
  BY <1>3, <1>4 DEF Firmware!Verified
<1>5. ASSUME Firmware!Alerts PROVE FirmwareInv'
  BY <1>3, <1>5 DEF Firmware!Alerts, Firmware!Tasks
<1>6. ASSUME NEW t \in Firmware!Tasks, Firmware!Stores(t) PROVE FirmwareInv'
  <2>1. check' = [check EXCEPT ![t] = Firmware!Idle] /\ Firmware!Idle.stage # "verifying"
    BY <1>6 DEF Firmware!Stores, Firmware!Idle
  <2>2. check' \in [Firmware!Tasks -> FirmwareChecks] /\ FirmwareAlone'
    BY <2>1, FirmwareIdleIsCheck, FirmwareStageInv
  <2>3. /\ last_results' \in Seq(Readings) /\ Len(last_results') <= Blobs
        /\ disk' = disk /\ serving' \in BOOLEAN
    BY <1>0, <1>6, FirmwareCheckParts DEF Firmware!Stores
  <2> QED BY <1>0, <2>2, <2>3 DEF FirmwareStored
<1>7. CASE Firmware!FileChanges
  <2>1. disk' \in [1 .. Blobs -> Readings]
    BY <1>0, <1>7 DEF Firmware!FileChanges
  <2> QED BY <1>0, <1>7, <2>1 DEF FirmwareStored, Firmware!FileChanges, FirmwareAlone
<1>8. CASE Firmware!Crash
  <2>1. check' \in [Firmware!Tasks -> FirmwareChecks] /\ FirmwareAlone'
    BY <1>8, FirmwareIdleIsCheck DEF Firmware!Crash, FirmwareAlone, Firmware!Idle
  <2> QED BY <1>0, <1>8, <2>1, FirmwareIdleIsCheck DEF FirmwareStored, Firmware!Crash
<1>9. CASE UNCHANGED Firmware!vars
  BY <1>0, <1>9 DEF FirmwareStored, Firmware!vars, FirmwareAlone
<1> QED BY <1>1, <1>2, <1>4, <1>5, <1>6, <1>7, <1>8, <1>9 DEF Firmware!Next, Firmware!GoesOn

\* Nor does any step make a check lose what it has found.
LEMMA FirmwareStepSeen ==
  Firmware!ConstantsOK /\ FirmwareInv /\ FirmwareSeen /\ [Firmware!Next]_(Firmware!vars)
    => FirmwareSeen'
<1> SUFFICES ASSUME Firmware!ConstantsOK, FirmwareInv, FirmwareSeen,
                    [Firmware!Next]_(Firmware!vars)
             PROVE  FirmwareSeen'
  OBVIOUS
<1>0. /\ check \in [Firmware!Tasks -> FirmwareChecks]
      /\ disk \in [1 .. Blobs -> Readings] /\ Blobs \in Nat
  BY DEF FirmwareInv, FirmwareStored, Firmware!ConstantsOK
<1>1. ASSUME NEW t \in Firmware!Tasks, Firmware!Begins(t) PROVE FirmwareSeen'
  <2>1. /\ check[t].found = <<>> /\ disk' = disk
        /\ steady' = [steady EXCEPT ![t] = {k \in 1 .. Blobs : disk[k] = "tampered"}]
    BY <1>1 DEF Firmware!Begins, Firmware!Idle
  <2>2. check'[t].found = <<>> /\ check'[t].stage = "verifying"
    BY <1>0, <1>1, <2>1, FirmwareCheckParts DEF Firmware!Begins
  <2>3. \A s \in Firmware!Tasks \ {t} : check'[s] = check[s] /\ steady'[s] = steady[s]
    BY <1>0, <1>1, <2>1 DEF Firmware!Begins, FirmwareSeen
  <2>4. \A k \in steady'[t] : k \in 1 .. Blobs /\ disk[k] = "tampered"
    BY <2>1 DEF FirmwareSeen
  <2> QED BY <1>0, <2>1, <2>2, <2>3, <2>4 DEF FirmwareSeen
<1>2. ASSUME NEW t \in Firmware!Tasks, Firmware!Reads(t) PROVE FirmwareSeen'
  <2> DEFINE f == check[t].found
  <2>1. /\ f \in Seq(Readings) /\ Len(f) \in Nat /\ Len(f) < Blobs
        /\ check[t].stage = "verifying" /\ disk' = disk /\ steady' = steady
    BY <1>0, <1>2, FirmwareCheckParts DEF Firmware!Reads
  <2>2. /\ check'[t].found = Append(f, disk[Len(f) + 1]) /\ check'[t].stage = "verifying"
        /\ \A s \in Firmware!Tasks \ {t} : check'[s] = check[s]
    BY <1>0, <1>2, <2>1, FirmwareCheckParts DEF Firmware!Reads
  <2>3. ASSUME NEW k \in steady[t], k <= Len(check'[t].found)
        PROVE  check'[t].found[k] = "tampered"
    <3>1. k \in 1 .. Blobs /\ disk[k] = "tampered" /\ (k <= Len(f) => f[k] = "tampered")
      BY DEF FirmwareSeen
    <3>2. disk[Len(f) + 1] \in Readings
      BY <1>0, <2>1
    <3>3. k <= Len(f) + 1
      BY <2>1, <2>2, <2>3, <3>2
    <3>4. CASE k <= Len(f)
      BY <2>1, <2>2, <3>1, <3>2, <3>4
    <3>5. CASE k = Len(f) + 1
      BY <2>1, <2>2, <3>1, <3>2, <3>5
    <3> QED BY <2>1, <3>1, <3>3, <3>4, <3>5
  <2> HIDE DEF f
  <2> QED BY <2>1, <2>2, <2>3 DEF FirmwareSeen
<1>3. ASSUME NEW t \in Firmware!Tasks, NEW s \in {"alerting", "storing"},
             Len(check[t].found) = Blobs, check' = [check EXCEPT ![t].stage = s],
             UNCHANGED <<disk, steady>>
      PROVE  FirmwareSeen'
  <2>1. check'[t].found = check[t].found /\ \A u \in Firmware!Tasks \ {t} : check'[u] = check[u]
    BY <1>0, <1>3, FirmwareCheckParts
  <2>2. \A u \in Firmware!Tasks : check'[u].found = check[u].found
    BY <2>1
  <2> QED BY <1>3, <2>1, <2>2 DEF FirmwareSeen
<1>4. ASSUME NEW t \in Firmware!Tasks, Firmware!Verified(t) PROVE FirmwareSeen'
  BY <1>3, <1>4 DEF Firmware!Verified
<1>5. ASSUME Firmware!Alerts PROVE FirmwareSeen'
  BY <1>3, <1>5 DEF Firmware!Alerts, Firmware!Tasks, FirmwareSeen
<1>6. ASSUME NEW t \in Firmware!Tasks, Firmware!Stores(t) PROVE FirmwareSeen'
  <2>1. /\ disk' = disk /\ check'[t].stage = "idle" /\ steady'[t] = {}
        /\ \A s \in Firmware!Tasks \ {t} : check'[s] = check[s] /\ steady'[s] = steady[s]
        /\ steady' \in [Firmware!Tasks -> SUBSET (1 .. Blobs)]
    BY <1>0, <1>6 DEF Firmware!Stores, Firmware!Idle, FirmwareSeen
  <2> QED BY <2>1 DEF FirmwareSeen
<1>7. CASE Firmware!FileChanges
  <2>1. PICK k \in 1 .. Blobs, r \in Readings :
          /\ disk' = [disk EXCEPT ![k] = r]
          /\ steady' = [t \in Firmware!Tasks |->
                          steady[t] \ (IF r = "tampered" THEN {} ELSE {k})]
    BY <1>7 DEF Firmware!FileChanges
  <2>2. check' = check
    BY <1>7 DEF Firmware!FileChanges
  <2>3. \A t \in Firmware!Tasks : \A j \in steady'[t] :
          j \in steady[t] /\ (j = k => r = "tampered") /\ disk'[j] = "tampered"
    BY <1>0, <2>1 DEF FirmwareSeen
  <2>4. steady' \in [Firmware!Tasks -> SUBSET (1 .. Blobs)]
    BY <2>1 DEF FirmwareSeen
  <2> QED BY <2>2, <2>3, <2>4 DEF FirmwareSeen
<1>8. CASE Firmware!Crash
  BY <1>8 DEF Firmware!Crash, FirmwareSeen, Firmware!Idle
<1>9. CASE UNCHANGED Firmware!vars
  BY <1>9 DEF Firmware!vars, FirmwareSeen
<1> QED BY <1>1, <1>2, <1>4, <1>5, <1>6, <1>7, <1>8, <1>9 DEF Firmware!Next, Firmware!GoesOn

\* So what was there all the time is stored, and alerted by the background's task.
LEMMA FirmwareStepNotMissed ==
  Firmware!ConstantsOK /\ FirmwareInv /\ FirmwareSeen =>
    [ \A t \in Firmware!Tasks :
        steady[t] # {} =>
          /\ Firmware!Stores(t) => Firmware!OverallStatus(last_results') = "tampered"
          /\ t = "bg" /\ Firmware!Verified(t) => check'[t].stage = "alerting" ]_(Firmware!vars)
<1> SUFFICES ASSUME Firmware!ConstantsOK, FirmwareInv, FirmwareSeen,
                    NEW t \in Firmware!Tasks, steady[t] # {}
             PROVE  /\ Firmware!Stores(t) => Firmware!OverallStatus(last_results') = "tampered"
                    /\ t = "bg" /\ Firmware!Verified(t) => check'[t].stage = "alerting"
  OBVIOUS
<1>1. check[t] \in FirmwareChecks /\ check \in [Firmware!Tasks -> FirmwareChecks]
  BY DEF FirmwareInv
<1>2. PICK k \in steady[t] : TRUE
  OBVIOUS
<1>3. ASSUME Len(check[t].found) = Blobs PROVE Firmware!Has(check[t].found, "tampered")
  <2>1. /\ k \in 1 .. Blobs /\ check[t].found \in Seq(Readings)
        /\ k <= Len(check[t].found) => check[t].found[k] = "tampered"
    BY <1>1, FirmwareCheckParts DEF FirmwareSeen
  <2>2. k \in DOMAIN check[t].found /\ check[t].found[k] = "tampered"
    BY <1>3, <2>1 DEF Firmware!ConstantsOK
  <2> QED BY <2>2 DEF Firmware!Has
<1>4. ASSUME Firmware!Stores(t) PROVE Firmware!OverallStatus(last_results') = "tampered"
  BY <1>3, <1>4 DEF Firmware!Stores, Firmware!OverallStatus, FirmwareSeen
<1>5. ASSUME t = "bg", Firmware!Verified(t) PROVE check'[t].stage = "alerting"
  BY <1>1, <1>3, <1>5, FirmwareCheckParts DEF Firmware!Verified, Firmware!AlertNeeded
<1> QED BY <1>4, <1>5

-----------------------------------------------------------------------------
(* The IMSI catcher detector.  An observation stays in the window until      *)
(* MAX_HISTORY newer ones have come.                                         *)

\* The window after an observation: what of it stays, and the end.
LEMMA ImsiWindowParts ==
  ASSUME Imsi!ConstantsOK, Imsi!TypeOK, NEW obs \in Observations, Imsi!AnalyzeSignal(obs)
  PROVE  LET lost == IF Len(history) >= MAX_HISTORY THEN 1 ELSE 0
             n == Len(history) - lost + 1
         IN  /\ Imsi!TypeOK' /\ Len(history') = n /\ n \in Nat /\ history'[n] = obs
             /\ \A k \in DOMAIN history : k > lost => history'[k - lost] = history[k]
<1>1. history \in Seq(Observations) /\ Len(history) \in Nat /\ Len(history) <= MAX_HISTORY
  BY DEF Imsi!TypeOK
<1>2. MAX_HISTORY \in Nat /\ MAX_HISTORY >= 1
  BY DEF Imsi!ConstantsOK
<1>3. CASE Len(history) >= MAX_HISTORY
  <2>1. history # <<>>
    BY <1>1, <1>2, <1>3
  <2>2. /\ Tail(history) \in Seq(Observations) /\ Len(Tail(history)) = Len(history) - 1
        /\ \A i \in 1 .. Len(Tail(history)) : Tail(history)[i] = history[i + 1]
    BY <1>1, <2>1, HeadTailProperties
  <2>3. history' = Append(Tail(history), obs)
    BY <1>3 DEF Imsi!AnalyzeSignal, Imsi!Window
  <2>4. /\ history' \in Seq(Observations) /\ Len(history') = Len(history)
        /\ history'[Len(history)] = obs
        /\ \A i \in 1 .. Len(history) - 1 : history'[i] = Tail(history)[i]
    BY <1>1, <2>2, <2>3
  <2>5. ASSUME NEW k \in DOMAIN history, k > 1 PROVE history'[k - 1] = history[k]
    <3>1. k \in 2 .. Len(history) /\ k - 1 \in 1 .. Len(history) - 1
      BY <1>1, <2>5
    <3> QED BY <2>2, <2>4, <3>1
  <2> QED BY <1>1, <1>3, <2>4, <2>5 DEF Imsi!TypeOK
<1>4. CASE ~(Len(history) >= MAX_HISTORY)
  <2>1. history' = Append(history, obs)
    BY <1>4 DEF Imsi!AnalyzeSignal, Imsi!Window
  <2>2. /\ history' \in Seq(Observations) /\ Len(history') = Len(history) + 1
        /\ history'[Len(history) + 1] = obs
        /\ \A i \in 1 .. Len(history) : history'[i] = history[i]
    BY <1>1, <2>1
  <2>3. Len(history') <= MAX_HISTORY
    BY <1>1, <1>2, <1>4, <2>2
  <2>4. \A k \in DOMAIN history : history'[k - 0] = history[k]
    BY <1>1, <2>2
  <2> QED BY <1>1, <1>4, <2>2, <2>3, <2>4 DEF Imsi!TypeOK
<1> QED BY <1>3, <1>4

\* The window starts empty.
LEMMA ImsiInitType == Imsi!ConstantsOK /\ Imsi!Init => Imsi!TypeOK
<1> SUFFICES ASSUME Imsi!ConstantsOK, Imsi!Init PROVE Imsi!TypeOK
  OBVIOUS
<1>1. history \in Seq(Observations) /\ Len(history) = 0
  BY DEF Imsi!Init
<1> QED BY <1>1 DEF Imsi!TypeOK, Imsi!ConstantsOK

\* Observations keep the window's type.
LEMMA ImsiStepType == Imsi!ConstantsOK /\ Imsi!TypeOK /\ [Imsi!Next]_history => Imsi!TypeOK'
<1> SUFFICES ASSUME Imsi!ConstantsOK, Imsi!TypeOK, [Imsi!Next]_history PROVE Imsi!TypeOK'
  OBVIOUS
<1>1. ASSUME NEW obs \in Observations, Imsi!AnalyzeSignal(obs) PROVE Imsi!TypeOK'
  BY <1>1, ImsiWindowParts
<1>2. CASE UNCHANGED history
  BY <1>2 DEF Imsi!TypeOK
<1> QED BY <1>1, <1>2 DEF Imsi!Next

\* A cell that is in the window, and not the one that falls out of it, does
\* not count as unknown: its score reaches the alert only by a downgrade.
LEMMA ImsiStaysKnown ==
  ASSUME Imsi!ConstantsOK, Imsi!TypeOK, NEW obs \in Observations, Imsi!AnalyzeSignal(obs),
         NEW k \in DOMAIN history, history[k].cell_id = obs.cell_id,
         k > 1 \/ Len(history) < MAX_HISTORY
  PROVE  ~(Imsi!StrongUnknown' \/ Imsi!NoEncryption') /\ (Imsi!Score' >= 70 => Imsi!Downgrade')
<1> DEFINE lost == IF Len(history) >= MAX_HISTORY THEN 1 ELSE 0
           n == Len(history) - lost + 1
<1>1. /\ Len(history') = n /\ n \in Nat /\ history'[n] = obs /\ k > lost
      /\ history'[k - lost] = history[k]
  <2>1. k > lost
    <3>1. Len(history) \in Nat /\ MAX_HISTORY \in Nat /\ k \in 1 .. Len(history)
      BY DEF Imsi!TypeOK, Imsi!ConstantsOK
    <3> QED BY <3>1
  <2> QED BY <2>1, ImsiWindowParts
<1>2. k - lost \in 1 .. Len(history') - 1
  <2>1. Len(history) \in Nat /\ k \in 1 .. Len(history)
    BY DEF Imsi!TypeOK
  <2> QED BY <1>1, <2>1
<1>3. ~Imsi!Unseen'
  <2>1. history'[k - lost].cell_id = history'[Len(history')].cell_id
    BY <1>1
  <2> QED BY <1>2, <2>1 DEF Imsi!Unseen, Imsi!Last
<1>4. ~Imsi!StrongUnknown' /\ ~Imsi!NoEncryption'
  BY <1>3 DEF Imsi!StrongUnknown, Imsi!NoEncryption
<1>5. ASSUME ~Imsi!Downgrade' PROVE ~(Imsi!Score' >= 70)
  <2>1. /\ Imsi!Points(Imsi!Downgrade, 35)' = 0 /\ Imsi!Points(Imsi!StrongUnknown, 30)' = 0
        /\ Imsi!Points(Imsi!NoEncryption, 20)' = 0
    BY <1>4, <1>5 DEF Imsi!Points
  <2>2. /\ Imsi!Points(Imsi!RapidChanges, 20)' \in {0, 20}
        /\ Imsi!Points(Imsi!UnusualLac, 15)' \in {0, 15}
        /\ Imsi!Points(Imsi!SuspiciousCell, 10)' \in {0, 10}
    BY DEF Imsi!Points
  <2> QED BY <2>1, <2>2 DEF Imsi!Score
<1> QED BY <1>4, <1>5

\* So the detector knows it, whatever is observed.
LEMMA ImsiStepKnown ==
  Imsi!ConstantsOK /\ Imsi!TypeOK /\ [Imsi!Next]_history =>
    [ \A obs \in Observations :
        (Imsi!AnalyzeSignal(obs) /\ \E k \in DOMAIN history :
            history[k].cell_id = obs.cell_id /\ (k > 1 \/ Len(history) < MAX_HISTORY))
        => ~(Imsi!StrongUnknown' \/ Imsi!NoEncryption')
           /\ (Imsi!Score' >= 70 => Imsi!Downgrade') ]_history
<1> SUFFICES ASSUME Imsi!ConstantsOK, Imsi!TypeOK, NEW obs \in Observations,
                    Imsi!AnalyzeSignal(obs), \E k \in DOMAIN history :
                      history[k].cell_id = obs.cell_id /\ (k > 1 \/ Len(history) < MAX_HISTORY)
             PROVE  /\ ~(Imsi!StrongUnknown' \/ Imsi!NoEncryption')
                    /\ Imsi!Score' >= 70 => Imsi!Downgrade'
  OBVIOUS
<1>1. PICK k \in DOMAIN history :
        history[k].cell_id = obs.cell_id /\ (k > 1 \/ Len(history) < MAX_HISTORY)
  OBVIOUS
<1> QED BY <1>1, ImsiStaysKnown

-----------------------------------------------------------------------------
(* The GMS proxy.  Bodies, Strip and Ways are recursive functions; each of  *)
(* the first lemmas shows that the recursion has a solution, by descent     *)
(* over the depth, and the later ones compare the solutions.                *)

\* The body of each recursion, applied to what it is to define.
GmsBodiesStep(b, d) == IF d = 0 THEN {Gms!Leaf} ELSE Gms!Trees(b[d - 1])

GmsWaysInto(k, ways) == {<<k>> \o x : x \in ways}
GmsWaysStep(w, v) ==
  {<<v.kind>>} \cup UNION {GmsWaysInto(k, w[v.in[k]]) : k \in DOMAIN v.in}

\* Bodies of each depth are leaves, or trees over the bodies one less deep.
LEMMA GmsBodiesUnfold ==
  ASSUME Depth \in Nat
  PROVE  \A d \in 0 .. Depth : Gms!Bodies[d] = GmsBodiesStep(Gms!Bodies, d)
<1> DEFINE Solves(b) == b = [d \in 0 .. Depth |-> GmsBodiesStep(b, d)]
           Upto(n) == n <= Depth =>
             \E b : /\ b = [d \in 0 .. Depth |-> b[d]]
                    /\ \A d \in 0 .. n : b[d] = GmsBodiesStep(b, d)
           Bad == {n \in Nat : ~Upto(n)}
<1>1. 0 \notin Bad
  <2> DEFINE b == [d \in 0 .. Depth |-> {Gms!Leaf}]
  <2>1. b = [d \in 0 .. Depth |-> b[d]] /\ \A d \in 0 .. 0 : b[d] = GmsBodiesStep(b, d)
    BY DEF GmsBodiesStep
  <2> QED BY <2>1
<1>2. ASSUME NEW n \in Nat, Upto(n) PROVE Upto(n + 1)
  <2> SUFFICES ASSUME n + 1 <= Depth
               PROVE  \E c : /\ c = [d \in 0 .. Depth |-> c[d]]
                             /\ \A d \in 0 .. n + 1 : c[d] = GmsBodiesStep(c, d)
    OBVIOUS
  <2>1. PICK b : /\ b = [d \in 0 .. Depth |-> b[d]]
                 /\ \A d \in 0 .. n : b[d] = GmsBodiesStep(b, d)
    BY <1>2
  <2> DEFINE c == [d \in 0 .. Depth |-> IF d = n + 1 THEN GmsBodiesStep(b, d) ELSE b[d]]
  <2>2. \A d \in 0 .. n : c[d] = b[d]
    OBVIOUS
  <2>3. c[n + 1] = GmsBodiesStep(b, n + 1)
    OBVIOUS
  <2>4. c = [d \in 0 .. Depth |-> c[d]]
    OBVIOUS
  <2> HIDE DEF c
  <2>5. ASSUME NEW d \in 0 .. n + 1 PROVE GmsBodiesStep(c, d) = GmsBodiesStep(b, d)
    <3>1. d = 0 \/ d - 1 \in 0 .. n
      OBVIOUS
    <3> QED BY <2>2, <3>1 DEF GmsBodiesStep
  <2>6. ASSUME NEW d \in 0 .. n + 1 PROVE c[d] = GmsBodiesStep(c, d)
    <3>1. d \in 0 .. n \/ d = n + 1
      OBVIOUS
    <3> QED BY <2>1, <2>2, <2>3, <2>5, <3>1
  <2> QED BY <2>4, <2>6
<1>3. Upto(Depth)
  <2> HIDE DEF Upto
  <2>1. Bad = {}
    BY <1>1, <1>2, NoneByDescent
  <2> QED BY <2>1
<1>4. \E b : Solves(b)
  <2>1. PICK b : /\ b = [d \in 0 .. Depth |-> b[d]]
                 /\ \A d \in 0 .. Depth : b[d] = GmsBodiesStep(b, d)
    BY <1>3
  <2> QED BY <2>1
<1>5. Gms!Bodies = CHOOSE b : Solves(b)
  BY DEF Gms!Bodies, GmsBodiesStep
<1>6. Solves(Gms!Bodies)
  <2> HIDE DEF Solves
  <2> QED BY <1>4, <1>5
<1> QED BY <1>6

\* What a node holds: values, under the names its kind has.
GmsHolds(v, values) ==
  /\ v.in = [k \in DOMAIN v.in |-> v.in[k]] /\ \A k \in DOMAIN v.in : v.in[k] \in values
  /\ v = [kind |-> v.kind, in |-> v.in]
  /\ \/ v.kind = "leaf" /\ v = Gms!Leaf /\ DOMAIN v.in = {}
     \/ v.kind = "object" /\ DOMAIN v.in \subseteq Fields
     \/ v.kind = "array" /\ DOMAIN v.in \subseteq Positions

\* Trees are the records that hold such values.
LEMMA GmsTreesHold ==
  ASSUME NEW values, NEW v \in Gms!Trees(values)
  PROVE  GmsHolds(v, values)
<1>1. CASE v = Gms!Leaf
  BY <1>1 DEF GmsHolds, Gms!Leaf
<1>2. ASSUME NEW n \in SUBSET Fields, NEW f \in [n -> values], v = [kind |-> "object", in |-> f]
      PROVE  GmsHolds(v, values)
  BY <1>2 DEF GmsHolds
<1>3. ASSUME NEW n \in SUBSET Positions, NEW f \in [n -> values], v = [kind |-> "array", in |-> f]
      PROVE  GmsHolds(v, values)
  BY <1>3 DEF GmsHolds
<1> QED BY <1>1, <1>2, <1>3 DEF Gms!Trees, Gms!Node

\* An object and an array of values are trees.
LEMMA GmsTreesBuilt ==
  ASSUME NEW values
  PROVE  /\ \A n \in SUBSET Fields : \A f \in [n -> values] :
              [kind |-> "object", in |-> f] \in Gms!Trees(values)
         /\ \A n \in SUBSET Positions : \A f \in [n -> values] :
              [kind |-> "array", in |-> f] \in Gms!Trees(values)
BY DEF Gms!Trees, Gms!Node

\* Trees over more values are more.
LEMMA GmsTreesGrow ==
  ASSUME NEW few, NEW many, few \subseteq many
  PROVE  Gms!Trees(few) \subseteq Gms!Trees(many)
<1> SUFFICES ASSUME NEW v \in Gms!Trees(few) PROVE v \in Gms!Trees(many)
  OBVIOUS
<1>1. GmsHolds(v, few)
  BY GmsTreesHold
<1>2. v.in \in [DOMAIN v.in -> many] /\ v = [kind |-> v.kind, in |-> v.in]
  BY <1>1 DEF GmsHolds
<1>3. CASE v = Gms!Leaf
  BY <1>3 DEF Gms!Trees
<1>4. CASE v.kind = "object" /\ DOMAIN v.in \subseteq Fields
  BY <1>2, <1>4, GmsTreesBuilt
<1>5. CASE v.kind = "array" /\ DOMAIN v.in \subseteq Positions
  BY <1>2, <1>5, GmsTreesBuilt
<1> QED BY <1>1, <1>3, <1>4, <1>5 DEF GmsHolds

\* Bodies of some depth are bodies of the next,
LEMMA GmsBodiesGrow ==
  ASSUME Depth \in Nat, NEW d \in Nat, d + 1 <= Depth
  PROVE  Gms!Bodies[d] \subseteq Gms!Bodies[d + 1] /\ Gms!Bodies[d + 1] = Gms!Trees(Gms!Bodies[d])
<1> DEFINE Grows(n) == n + 1 <= Depth => Gms!Bodies[n] \subseteq Gms!Bodies[n + 1]
           Bad == {n \in Nat : ~Grows(n)}
<1>1. \A n \in Nat : n + 1 <= Depth => Gms!Bodies[n + 1] = Gms!Trees(Gms!Bodies[n])
  <2> TAKE n \in Nat
  <2>1. n + 1 <= Depth => n + 1 \in 0 .. Depth /\ n + 1 # 0 /\ (n + 1) - 1 = n
    OBVIOUS
  <2> QED BY <2>1, GmsBodiesUnfold DEF GmsBodiesStep
<1>2. 0 \notin Bad
  <2>1. Gms!Bodies[0] = {Gms!Leaf}
    BY GmsBodiesUnfold DEF GmsBodiesStep
  <2>2. Gms!Leaf \in Gms!Trees(Gms!Bodies[0])
    BY DEF Gms!Trees
  <2> QED BY <1>1, <2>1, <2>2
<1>3. ASSUME NEW n \in Nat, Grows(n) PROVE Grows(n + 1)
  <2> SUFFICES ASSUME (n + 1) + 1 <= Depth
               PROVE  Gms!Bodies[n + 1] \subseteq Gms!Bodies[(n + 1) + 1]
    OBVIOUS
  <2>1. n + 1 \in Nat /\ n + 1 <= Depth
    OBVIOUS
  <2>2. /\ Gms!Bodies[n + 1] = Gms!Trees(Gms!Bodies[n])
        /\ Gms!Bodies[(n + 1) + 1] = Gms!Trees(Gms!Bodies[n + 1])
    BY <1>1, <2>1
  <2>3. Gms!Bodies[n] \subseteq Gms!Bodies[n + 1]
    BY <1>3, <2>1
  <2> QED BY <2>2, <2>3, GmsTreesGrow
<1>4. Bad = {}
  <2> HIDE DEF Grows
  <2> QED BY <1>2, <1>3, NoneByDescent
<1> QED BY <1>1, <1>4

\* and of the greatest.
LEMMA GmsBodiesWithin ==
  ASSUME Depth \in Nat, NEW d \in 0 .. Depth
  PROVE  Gms!Bodies[d] \subseteq Gms!Bodies[Depth]
<1> DEFINE Within(n) == n <= Depth => Gms!Bodies[Depth - n] \subseteq Gms!Bodies[Depth]
           Bad == {n \in Nat : ~Within(n)}
<1>1. 0 \notin Bad
  OBVIOUS
<1>2. ASSUME NEW n \in Nat, Within(n) PROVE Within(n + 1)
  <2> SUFFICES ASSUME n + 1 <= Depth
               PROVE  Gms!Bodies[Depth - (n + 1)] \subseteq Gms!Bodies[Depth]
    OBVIOUS
  <2>1. Depth - (n + 1) \in Nat /\ (Depth - (n + 1)) + 1 = Depth - n /\ Depth - n <= Depth
    OBVIOUS
  <2>2. Gms!Bodies[Depth - (n + 1)] \subseteq Gms!Bodies[Depth - n]
    BY <2>1, GmsBodiesGrow
  <2> QED BY <1>2, <2>2
<1>3. Bad = {}
  <2> HIDE DEF Within
  <2> QED BY <1>1, <1>2, NoneByDescent
<1>4. Depth - d \in Nat /\ Depth - d <= Depth /\ Depth - (Depth - d) = d
  OBVIOUS
<1> QED BY <1>3, <1>4

\* A body holds bodies, of a smaller depth when it has one.
LEMMA GmsBodiesHold ==
  ASSUME Depth \in Nat
  PROVE  /\ \A v \in Gms!Bodies[Depth] : GmsHolds(v, Gms!Bodies[Depth])
         /\ \A v \in Gms!Bodies[0] : v = Gms!Leaf
         /\ \A d \in Nat : d + 1 <= Depth =>
              \A v \in Gms!Bodies[d + 1] : GmsHolds(v, Gms!Bodies[d])
<1>1. Gms!Bodies[0] = {Gms!Leaf}
  BY GmsBodiesUnfold DEF GmsBodiesStep
<1>2. \A d \in Nat : d + 1 <= Depth =>
        \A v \in Gms!Bodies[d + 1] : GmsHolds(v, Gms!Bodies[d])
  BY GmsBodiesGrow, GmsTreesHold
<1>3. ASSUME NEW v \in Gms!Bodies[Depth] PROVE GmsHolds(v, Gms!Bodies[Depth])
  <2>1. CASE Depth = 0
    BY <1>1, <2>1 DEF GmsHolds, Gms!Leaf
  <2>2. CASE Depth # 0
    <3>1. Depth - 1 \in Nat /\ (Depth - 1) + 1 = Depth /\ Depth - 1 \in 0 .. Depth
      BY <2>2
    <3>2. GmsHolds(v, Gms!Bodies[Depth - 1])
      BY <1>2, <3>1
    <3>3. Gms!Bodies[Depth - 1] \subseteq Gms!Bodies[Depth]
      BY <3>1, GmsBodiesWithin
    <3> QED BY <3>2, <3>3 DEF GmsHolds
  <2> QED BY <2>1, <2>2
<1> QED BY <1>1, <1>2, <1>3

\* Strip is what its recursion says, for all bodies,
LEMMA GmsStripUnfold ==
  ASSUME Depth \in Nat
  PROVE  /\ Gms!Strip = [v \in Gms!Bodies[Depth] |-> Gms!Strip[v]]
         /\ \A v \in Gms!Bodies[Depth] : Gms!Strip[v] = Gms!Stripped(Gms!Strip, v)
<1> DEFINE T == Gms!Bodies[Depth]
           Solves(s) == s = [v \in T |-> Gms!Stripped(s, v)]
           Upto(n) == n <= Depth =>
             \E s : s = [v \in T |-> s[v]] /\ \A v \in Gms!Bodies[n] : s[v] = Gms!Stripped(s, v)
           Bad == {n \in Nat : ~Upto(n)}
<1>1. 0 \notin Bad
  <2> DEFINE s == [v \in T |-> Gms!Stripped(<<>>, v)]
  <2>1. Gms!Bodies[0] \subseteq T
    BY GmsBodiesWithin
  <2>2. s = [v \in T |-> s[v]]
    OBVIOUS
  <2>3. \A v \in Gms!Bodies[0] : s[v] = Gms!Stripped(<<>>, v)
    BY <2>1
  <2> HIDE DEF s
  <2>4. ASSUME NEW v \in Gms!Bodies[0] PROVE Gms!Stripped(<<>>, v) = Gms!Stripped(s, v)
    <3>1. v = Gms!Leaf
      BY GmsBodiesHold
    <3> QED BY <3>1 DEF Gms!Stripped, Gms!Leaf, Gms!Inspected
  <2> QED BY <2>2, <2>3, <2>4
<1>2. ASSUME NEW n \in Nat, Upto(n) PROVE Upto(n + 1)
  <2> SUFFICES ASSUME n + 1 <= Depth
               PROVE  \E c : /\ c = [v \in T |-> c[v]]
                             /\ \A v \in Gms!Bodies[n + 1] : c[v] = Gms!Stripped(c, v)
    OBVIOUS
  <2>1. PICK s : s = [v \in T |-> s[v]] /\ \A v \in Gms!Bodies[n] : s[v] = Gms!Stripped(s, v)
    BY <1>2
  <2> DEFINE c == [v \in T |-> IF v \in Gms!Bodies[n + 1] THEN Gms!Stripped(s, v) ELSE s[v]]
  <2>2. Gms!Bodies[n + 1] \subseteq T /\ Gms!Bodies[n] \subseteq Gms!Bodies[n + 1]
    BY GmsBodiesWithin, GmsBodiesGrow
  <2>3. \A v \in Gms!Bodies[n + 1] : c[v] = Gms!Stripped(s, v)
    BY <2>2
  <2>4. \A v \in Gms!Bodies[n] : c[v] = s[v]
    BY <2>1, <2>2, <2>3
  <2>5. c = [v \in T |-> c[v]]
    OBVIOUS
  <2> HIDE DEF c
  <2>6. ASSUME NEW v \in Gms!Bodies[n + 1] PROVE Gms!Stripped(c, v) = Gms!Stripped(s, v)
    <3>1. \A k \in DOMAIN v.in : v.in[k] \in Gms!Bodies[n]
      BY GmsBodiesHold DEF GmsHolds
    <3>2. \A k \in DOMAIN v.in : c[v.in[k]] = s[v.in[k]]
      BY <2>4, <3>1
    <3> QED BY <3>2 DEF Gms!Stripped, Gms!Left
  <2> QED BY <2>3, <2>5, <2>6
<1>3. Upto(Depth)
  <2> HIDE DEF Upto
  <2>1. Bad = {}
    BY <1>1, <1>2, NoneByDescent
  <2> QED BY <2>1
<1>4. \E s : Solves(s)
  <2>1. PICK s : s = [v \in T |-> s[v]] /\ \A v \in T : s[v] = Gms!Stripped(s, v)
    BY <1>3
  <2> QED BY <2>1
<1>5. Gms!Strip = CHOOSE s : Solves(s)
  BY DEF Gms!Strip, Gms!Stripped
<1>6. Solves(Gms!Strip)
  <2> HIDE DEF Solves
  <2> QED BY <1>4, <1>5
<1> HIDE DEF T
<1>7. Gms!Strip = [v \in T |-> Gms!Strip[v]]
  BY <1>6
<1> QED BY <1>6, <1>7 DEF T

\* and so is Ways.
LEMMA GmsWaysUnfold ==
  ASSUME Depth \in Nat
  PROVE  /\ Gms!Ways = [v \in Gms!Bodies[Depth] |-> Gms!Ways[v]]
         /\ \A v \in Gms!Bodies[Depth] : Gms!Ways[v] = GmsWaysStep(Gms!Ways, v)
<1> DEFINE T == Gms!Bodies[Depth]
           Solves(s) == s = [v \in T |-> GmsWaysStep(s, v)]
           Upto(n) == n <= Depth =>
             \E s : s = [v \in T |-> s[v]] /\ \A v \in Gms!Bodies[n] : s[v] = GmsWaysStep(s, v)
           Bad == {n \in Nat : ~Upto(n)}
<1>1. 0 \notin Bad
  <2> DEFINE s == [v \in T |-> GmsWaysStep(<<>>, v)]
  <2>1. Gms!Bodies[0] \subseteq T
    BY GmsBodiesWithin
  <2>2. s = [v \in T |-> s[v]]
    OBVIOUS
  <2>3. \A v \in Gms!Bodies[0] : s[v] = GmsWaysStep(<<>>, v)
    BY <2>1
  <2> HIDE DEF s
  <2>4. ASSUME NEW v \in Gms!Bodies[0] PROVE GmsWaysStep(<<>>, v) = GmsWaysStep(s, v)
    <3>1. v = Gms!Leaf
      BY GmsBodiesHold
    <3> QED BY <3>1 DEF GmsWaysStep, Gms!Leaf, Gms!Inspected
  <2> QED BY <2>2, <2>3, <2>4
<1>2. ASSUME NEW n \in Nat, Upto(n) PROVE Upto(n + 1)
  <2> SUFFICES ASSUME n + 1 <= Depth
               PROVE  \E c : /\ c = [v \in T |-> c[v]]
                             /\ \A v \in Gms!Bodies[n + 1] : c[v] = GmsWaysStep(c, v)
    OBVIOUS
  <2>1. PICK s : s = [v \in T |-> s[v]] /\ \A v \in Gms!Bodies[n] : s[v] = GmsWaysStep(s, v)
    BY <1>2
  <2> DEFINE c == [v \in T |-> IF v \in Gms!Bodies[n + 1] THEN GmsWaysStep(s, v) ELSE s[v]]
  <2>2. Gms!Bodies[n + 1] \subseteq T /\ Gms!Bodies[n] \subseteq Gms!Bodies[n + 1]
    BY GmsBodiesWithin, GmsBodiesGrow
  <2>3. \A v \in Gms!Bodies[n + 1] : c[v] = GmsWaysStep(s, v)
    BY <2>2
  <2>4. \A v \in Gms!Bodies[n] : c[v] = s[v]
    BY <2>1, <2>2, <2>3
  <2>5. c = [v \in T |-> c[v]]
    OBVIOUS
  <2> HIDE DEF c
  <2>6. ASSUME NEW v \in Gms!Bodies[n + 1] PROVE GmsWaysStep(c, v) = GmsWaysStep(s, v)
    <3>1. \A k \in DOMAIN v.in : v.in[k] \in Gms!Bodies[n]
      BY GmsBodiesHold DEF GmsHolds
    <3>2. \A k \in DOMAIN v.in : c[v.in[k]] = s[v.in[k]]
      BY <2>4, <3>1
    <3> QED BY <3>2 DEF GmsWaysStep
  <2> QED BY <2>3, <2>5, <2>6
<1>3. Upto(Depth)
  <2> HIDE DEF Upto
  <2>1. Bad = {}
    BY <1>1, <1>2, NoneByDescent
  <2> QED BY <2>1
<1>4. \E s : Solves(s)
  <2>1. PICK s : s = [v \in T |-> s[v]] /\ \A v \in T : s[v] = GmsWaysStep(s, v)
    BY <1>3
  <2> QED BY <2>1
<1>5. Gms!Ways = CHOOSE s : Solves(s)
  BY DEF Gms!Ways, GmsWaysStep, GmsWaysInto
<1>6. Solves(Gms!Ways)
  <2> HIDE DEF Solves
  <2> QED BY <1>4, <1>5
<1> HIDE DEF T
<1>7. Gms!Ways = [v \in T |-> Gms!Ways[v]]
  BY <1>6
<1> QED BY <1>6, <1>7 DEF T

\* What is left of a body is a body of the same depth.
LEMMA GmsStripIsBody ==
  ASSUME Gms!ConstantsOK, NEW v \in Gms!Bodies[Depth]
  PROVE  Gms!Strip[v] \in Gms!Bodies[Depth]
<1> USE DEF Gms!ConstantsOK
<1> DEFINE Kept(n) == n <= Depth => \A x \in Gms!Bodies[n] : Gms!Strip[x] \in Gms!Bodies[n]
           Bad == {n \in Nat : ~Kept(n)}
<1>1. ASSUME NEW n \in Nat, n <= Depth, NEW x \in Gms!Bodies[n]
      PROVE  x \in Gms!Bodies[Depth] /\ Gms!Strip[x] = Gms!Stripped(Gms!Strip, x)
  BY <1>1, GmsBodiesWithin, GmsStripUnfold
<1>2. 0 \notin Bad
  <2>1. ASSUME NEW x \in Gms!Bodies[0] PROVE Gms!Strip[x] \in Gms!Bodies[0]
    <3>1. x = Gms!Leaf
      BY GmsBodiesHold
    <3>2. Gms!Stripped(Gms!Strip, x) = x
      BY <3>1 DEF Gms!Stripped, Gms!Leaf, Gms!Inspected
    <3>3. Gms!Strip[x] = Gms!Stripped(Gms!Strip, x)
      BY <1>1
    <3> QED BY <3>2, <3>3
  <2> QED BY <2>1
<1>3. ASSUME NEW n \in Nat, Kept(n) PROVE Kept(n + 1)
  <2> SUFFICES ASSUME n + 1 <= Depth, NEW x \in Gms!Bodies[n + 1]
               PROVE  Gms!Strip[x] \in Gms!Bodies[n + 1]
    OBVIOUS
  <2>1. Gms!Strip[x] = Gms!Stripped(Gms!Strip, x)
    BY <1>1
  <2>2. GmsHolds(x, Gms!Bodies[n])
    BY GmsBodiesHold
  <2>3. CASE ~Gms!Inspected(x.kind)
    BY <2>1, <2>3 DEF Gms!Stripped
  <2>4. CASE Gms!Inspected(x.kind)
    <3> DEFINE f == [k \in Gms!Left(x) |-> Gms!Strip[x.in[k]]]
    <3>1. Gms!Strip[x] = [kind |-> x.kind, in |-> f]
      BY <2>1, <2>4 DEF Gms!Stripped
    <3>2. Gms!Left(x) \subseteq DOMAIN x.in
      BY DEF Gms!Left
    <3>3. f \in [Gms!Left(x) -> Gms!Bodies[n]]
      BY <1>3, <2>2, <3>2 DEF GmsHolds
    <3> HIDE DEF f
    <3>4. Gms!Bodies[n + 1] = Gms!Trees(Gms!Bodies[n])
      BY GmsBodiesGrow
    <3>5. CASE x.kind = "object" /\ DOMAIN x.in \subseteq Fields
      BY <3>1, <3>2, <3>3, <3>4, <3>5, GmsTreesBuilt
    <3>6. CASE x.kind = "array" /\ DOMAIN x.in \subseteq Positions
      BY <3>1, <3>2, <3>3, <3>4, <3>6, GmsTreesBuilt
    <3> QED BY <2>2, <2>4, <3>5, <3>6 DEF GmsHolds, Gms!Inspected
  <2> QED BY <2>3, <2>4
<1>4. Bad = {}
  <2> HIDE DEF Kept
  <2> QED BY <1>2, <1>3, NoneByDescent
<1> QED BY <1>4

\* A way into a node's value is clean when its first name is and the rest is.
LEMMA GmsCleanStep ==
  ASSUME NEW k, NEW x, DOMAIN x = 1 .. Len(x), Len(x) \in Nat \ {0}, x \in Seq({x[i] : i \in DOMAIN x})
  PROVE  Gms!Clean(<<k>> \o x) <=> (k \in Positions \/ ~Gms!Telemetry(k)) /\ Gms!Clean(x)
<1>1. /\ Len(<<k>> \o x) = Len(x) + 1
      /\ (<<k>> \o x)[1] = k
      /\ \A i \in 1 .. Len(x) : (<<k>> \o x)[i + 1] = x[i]
  OBVIOUS
<1> DEFINE y == <<k>> \o x
           Passes(z) == z \in Positions \/ ~Gms!Telemetry(z)
<1> HIDE DEF y, Passes
<1>2. (\A i \in 1 .. Len(y) - 1 : Passes(y[i]))
         <=> Passes(k) /\ \A i \in 1 .. Len(x) - 1 : Passes(x[i])
  <2>1. ASSUME \A i \in 1 .. Len(y) - 1 : Passes(y[i])
        PROVE  Passes(k) /\ \A i \in 1 .. Len(x) - 1 : Passes(x[i])
    <3>1. Passes(k)
      BY <1>1, <2>1 DEF y
    <3>2. ASSUME NEW i \in 1 .. Len(x) - 1 PROVE Passes(x[i])
      <4>1. i + 1 \in 1 .. Len(y) - 1 /\ y[i + 1] = x[i]
        BY <1>1 DEF y
      <4> QED BY <2>1, <4>1
    <3> QED BY <3>1, <3>2
  <2>2. ASSUME Passes(k) /\ \A i \in 1 .. Len(x) - 1 : Passes(x[i])
        PROVE  \A i \in 1 .. Len(y) - 1 : Passes(y[i])
    <3> TAKE i \in 1 .. Len(y) - 1
    <3>1. CASE i = 1
      BY <1>1, <2>2, <3>1 DEF y
    <3>2. CASE i # 1
      <4>1. i - 1 \in 1 .. Len(x) - 1 /\ y[(i - 1) + 1] = x[i - 1] /\ (i - 1) + 1 = i
        BY <1>1, <3>2 DEF y
      <4> QED BY <2>2, <4>1
    <3> QED BY <3>1, <3>2
  <2> QED BY <2>1, <2>2
<1> QED BY <1>2 DEF y, Passes, Gms!Clean

\* A name that is no telemetry field of an object.
GmsPasses(k) == k \in Positions \/ ~Gms!Telemetry(k)

\* Names, and the kind at the end of a way.
GmsMarks == Fields \cup Positions \cup {"leaf", "object", "array"}
GmsIsWay(x) == x \in Seq(GmsMarks) /\ Len(x) >= 1

\* Ways are nonempty sequences.
LEMMA GmsWaysAreWays ==
  ASSUME Gms!ConstantsOK
  PROVE  \A v \in Gms!Bodies[Depth] : \A x \in Gms!Ways[v] : GmsIsWay(x)
<1> USE DEF Gms!ConstantsOK
<1> DEFINE Typed(n) == n <= Depth => \A v \in Gms!Bodies[n] : \A x \in Gms!Ways[v] : GmsIsWay(x)
           Bad == {n \in Nat : ~Typed(n)}
<1>1. ASSUME NEW n \in Nat, n <= Depth, NEW v \in Gms!Bodies[n]
      PROVE  /\ Gms!Ways[v] = GmsWaysStep(Gms!Ways, v) /\ GmsIsWay(<<v.kind>>)
             /\ DOMAIN v.in \subseteq GmsMarks
  <2>1. v \in Gms!Bodies[Depth]
    BY <1>1, GmsBodiesWithin
  <2>2. GmsHolds(v, Gms!Bodies[Depth])
    BY <2>1, GmsBodiesHold
  <2>3. v.kind \in GmsMarks /\ DOMAIN v.in \subseteq GmsMarks
    BY <2>2 DEF GmsHolds, GmsMarks
  <2> QED BY <2>1, <2>3, GmsWaysUnfold DEF GmsIsWay
<1>2. 0 \notin Bad
  <2>1. ASSUME NEW v \in Gms!Bodies[0], NEW x \in Gms!Ways[v] PROVE GmsIsWay(x)
    <3>1. DOMAIN v.in = {}
      BY GmsBodiesHold DEF Gms!Leaf
    <3>2. Gms!Ways[v] = GmsWaysStep(Gms!Ways, v) /\ GmsIsWay(<<v.kind>>)
      BY <1>1
    <3>3. x = <<v.kind>>
      BY <2>1, <3>1, <3>2 DEF GmsWaysStep
    <3> QED BY <3>2, <3>3
  <2> QED BY <2>1
<1>3. ASSUME NEW n \in Nat, Typed(n) PROVE Typed(n + 1)
  <2> SUFFICES ASSUME n + 1 <= Depth, NEW v \in Gms!Bodies[n + 1], NEW x \in Gms!Ways[v]
               PROVE  GmsIsWay(x)
    OBVIOUS
  <2>1. /\ Gms!Ways[v] = GmsWaysStep(Gms!Ways, v) /\ GmsIsWay(<<v.kind>>)
        /\ DOMAIN v.in \subseteq GmsMarks
    BY <1>1
  <2>2. GmsHolds(v, Gms!Bodies[n])
    BY GmsBodiesHold
  <2>3. ASSUME NEW k \in DOMAIN v.in, x \in GmsWaysInto(k, Gms!Ways[v.in[k]])
        PROVE  GmsIsWay(x)
    <3>1. PICK z \in Gms!Ways[v.in[k]] : x = <<k>> \o z
      BY <2>3 DEF GmsWaysInto
    <3>2. z \in Seq(GmsMarks) /\ Len(z) >= 1
      BY <1>3, <2>2 DEF GmsHolds, GmsIsWay
    <3>3. k \in GmsMarks
      BY <2>1
    <3> QED BY <3>1, <3>2, <3>3 DEF GmsIsWay
  <2> QED BY <2>1, <2>3 DEF GmsWaysStep
<1>4. Bad = {}
  <2> HIDE DEF Typed
  <2> QED BY <1>2, <1>3, NoneByDescent
<1> QED BY <1>4

\* The ways into what Strip leaves are the clean ones, at every depth.
LEMMA GmsStripKeepsClean ==
  ASSUME Gms!ConstantsOK
  PROVE  \A v \in Gms!Bodies[Depth] :
           Gms!Ways[Gms!Strip[v]] = {x \in Gms!Ways[v] : Gms!Clean(x)}
<1> USE DEF Gms!ConstantsOK
<1> DEFINE Kept(n) == n <= Depth => \A v \in Gms!Bodies[n] :
             Gms!Ways[Gms!Strip[v]] = {x \in Gms!Ways[v] : Gms!Clean(x)}
           Bad == {n \in Nat : ~Kept(n)}
<1>1. \A m : Gms!Clean(<<m>>)
  BY DEF Gms!Clean
<1>2. 0 \notin Bad
  <2>1. ASSUME NEW v \in Gms!Bodies[0]
        PROVE  Gms!Ways[Gms!Strip[v]] = {x \in Gms!Ways[v] : Gms!Clean(x)}
    <3>1. v = Gms!Leaf /\ v \in Gms!Bodies[Depth]
      BY GmsBodiesHold, GmsBodiesWithin
    <3>2. Gms!Stripped(Gms!Strip, v) = v /\ GmsWaysStep(Gms!Ways, v) = {<<v.kind>>}
      BY <3>1 DEF Gms!Stripped, GmsWaysStep, Gms!Leaf, Gms!Inspected
    <3>3. Gms!Strip[v] = v /\ Gms!Ways[v] = {<<v.kind>>}
      BY <3>1, <3>2, GmsStripUnfold, GmsWaysUnfold
    <3> QED BY <1>1, <3>3
  <2> QED BY <2>1
<1>3. ASSUME NEW n \in Nat, Kept(n) PROVE Kept(n + 1)
  <2> SUFFICES ASSUME n + 1 <= Depth, NEW v \in Gms!Bodies[n + 1]
               PROVE  Gms!Ways[Gms!Strip[v]] = {x \in Gms!Ways[v] : Gms!Clean(x)}
    OBVIOUS
  <2>1. v \in Gms!Bodies[Depth] /\ GmsHolds(v, Gms!Bodies[n]) /\ Gms!Bodies[n] \subseteq Gms!Bodies[Depth]
    BY GmsBodiesHold, GmsBodiesWithin
  <2>2. Gms!Strip[v] = Gms!Stripped(Gms!Strip, v) /\ Gms!Ways[v] = GmsWaysStep(Gms!Ways, v)
    BY <2>1, GmsStripUnfold, GmsWaysUnfold
  <2>3. Gms!Ways[Gms!Strip[v]] = GmsWaysStep(Gms!Ways, Gms!Strip[v])
    BY <2>1, GmsStripIsBody, GmsWaysUnfold
  <2>4. CASE ~Gms!Inspected(v.kind)
    <3>1. DOMAIN v.in = {} /\ Gms!Strip[v] = v
      BY <2>1, <2>2, <2>4 DEF GmsHolds, Gms!Inspected, Gms!Stripped
    <3>2. Gms!Ways[v] = {<<v.kind>>}
      BY <2>2, <3>1 DEF GmsWaysStep
    <3> QED BY <1>1, <3>1, <3>2
  <2>5. CASE Gms!Inspected(v.kind)
    <3> DEFINE f == [k \in Gms!Left(v) |-> Gms!Strip[v.in[k]]]
    <3>1. Gms!Strip[v] = [kind |-> v.kind, in |-> f]
      BY <2>2, <2>5 DEF Gms!Stripped
    <3>2. DOMAIN f = Gms!Left(v) /\ \A k \in Gms!Left(v) : f[k] = Gms!Strip[v.in[k]]
      OBVIOUS
    <3> HIDE DEF f
    <3>3. \A k \in DOMAIN v.in : k \in Gms!Left(v) <=> GmsPasses(k)
      BY <2>1, <2>5 DEF GmsHolds, Gms!Inspected, Gms!Left, GmsPasses
    <3>4. Gms!Left(v) \subseteq DOMAIN v.in
      BY DEF Gms!Left
    <3>5. \A k \in DOMAIN v.in :
            Gms!Ways[Gms!Strip[v.in[k]]] = {x \in Gms!Ways[v.in[k]] : Gms!Clean(x)}
      BY <1>3, <2>1 DEF GmsHolds
    <3>6. Gms!Ways[Gms!Strip[v]] =
            {<<v.kind>>} \cup UNION {GmsWaysInto(k, Gms!Ways[f[k]]) : k \in Gms!Left(v)}
      BY <2>3, <3>1, <3>2 DEF GmsWaysStep
    <3>7. ASSUME NEW k \in DOMAIN v.in, NEW z \in Gms!Ways[v.in[k]]
          PROVE  Gms!Clean(<<k>> \o z) <=> k \in Gms!Left(v) /\ Gms!Clean(z)
      <4>1. GmsIsWay(z)
        BY <2>1, GmsWaysAreWays DEF GmsHolds
      <4>2. DOMAIN z = 1 .. Len(z) /\ Len(z) \in Nat \ {0} /\ z \in Seq({z[i] : i \in DOMAIN z})
        BY <4>1 DEF GmsIsWay
      <4> QED BY <3>3, <4>2, GmsCleanStep DEF GmsPasses
    <3>8. ASSUME NEW x \in Gms!Ways[Gms!Strip[v]] PROVE x \in Gms!Ways[v] /\ Gms!Clean(x)
      <4>1. CASE x = <<v.kind>>
        BY <1>1, <2>2, <4>1 DEF GmsWaysStep
      <4>2. ASSUME NEW k \in Gms!Left(v), x \in GmsWaysInto(k, Gms!Ways[f[k]])
            PROVE  x \in Gms!Ways[v] /\ Gms!Clean(x)
        <5>1. PICK z \in Gms!Ways[f[k]] : x = <<k>> \o z
          BY <4>2 DEF GmsWaysInto
        <5>2. z \in Gms!Ways[v.in[k]] /\ Gms!Clean(z)
          BY <3>2, <3>4, <3>5
        <5>3. x \in GmsWaysInto(k, Gms!Ways[v.in[k]])
          BY <5>1, <5>2 DEF GmsWaysInto
        <5>4. Gms!Clean(x)
          BY <3>4, <3>7, <5>1, <5>2
        <5> QED BY <2>2, <3>4, <5>3, <5>4 DEF GmsWaysStep
      <4> QED BY <3>6, <4>1, <4>2
    <3>9. ASSUME NEW x \in Gms!Ways[v], Gms!Clean(x) PROVE x \in Gms!Ways[Gms!Strip[v]]
      <4>1. CASE x = <<v.kind>>
        BY <3>6, <4>1
      <4>2. ASSUME NEW k \in DOMAIN v.in, x \in GmsWaysInto(k, Gms!Ways[v.in[k]])
            PROVE  x \in Gms!Ways[Gms!Strip[v]]
        <5>1. PICK z \in Gms!Ways[v.in[k]] : x = <<k>> \o z
          BY <4>2 DEF GmsWaysInto
        <5>2. k \in Gms!Left(v) /\ Gms!Clean(z)
          BY <3>7, <3>9, <5>1
        <5>3. z \in Gms!Ways[f[k]]
          BY <3>2, <3>5, <5>2
        <5>4. x \in GmsWaysInto(k, Gms!Ways[f[k]])
          BY <5>1, <5>3 DEF GmsWaysInto
        <5> QED BY <3>6, <5>2, <5>4
      <4> QED BY <2>2, <4>1, <4>2 DEF GmsWaysStep
    <3> QED BY <3>8, <3>9
  <2> QED BY <2>4, <2>5
<1>4. Bad = {}
  <2> HIDE DEF Kept
  <2> QED BY <1>2, <1>3, NoneByDescent
<1> QED BY <1>4

\* What the invariant says: an allowed request's body was stripped.
GmsInv ==
  Gms!TypeOK /\ (response.allowed => response.body = Gms!Strip[request.body])

\* The proxy starts without a request.
LEMMA GmsInitInv == Gms!ConstantsOK /\ Gms!Init => GmsInv
<1> SUFFICES ASSUME Gms!ConstantsOK, Gms!Init PROVE GmsInv
  OBVIOUS
<1>1. Gms!Leaf \in Gms!Bodies[Depth]
  <2>1. Gms!Leaf \in Gms!Bodies[0]
    BY GmsBodiesUnfold DEF GmsBodiesStep, Gms!ConstantsOK
  <2> QED BY <2>1, GmsBodiesWithin DEF Gms!ConstantsOK
<1> QED BY <1>1 DEF GmsInv, Gms!Init, Gms!TypeOK, Gms!NoRequest, Gms!NoResponse

\* Requests and replies keep that.
LEMMA GmsStepInv == Gms!ConstantsOK /\ GmsInv /\ [Gms!Next]_gmsVars => GmsInv'
<1> SUFFICES ASSUME Gms!ConstantsOK, GmsInv, [Gms!Next]_gmsVars PROVE GmsInv'
  OBVIOUS
<1>1. Gms!Leaf \in Gms!Bodies[Depth]
  <2>1. Gms!Leaf \in Gms!Bodies[0]
    BY GmsBodiesUnfold DEF GmsBodiesStep, Gms!ConstantsOK
  <2> QED BY <2>1, GmsBodiesWithin DEF Gms!ConstantsOK
<1>2. CASE Gms!Request
  <2>1. PICK endpoint \in Endpoints, body \in Gms!Bodies[Depth] :
          /\ request' = [endpoint |-> endpoint, body |-> body]
          /\ response' = IF Gms!Allowed(endpoint) THEN [allowed |-> TRUE, body |-> Gms!Strip[body]]
                         ELSE [allowed |-> FALSE, body |-> Gms!Leaf]
    BY <1>2 DEF Gms!Request
  <2>2. Gms!Strip[body] \in Gms!Bodies[Depth]
    BY GmsStripIsBody
  <2> QED BY <1>1, <2>1, <2>2 DEF GmsInv, Gms!TypeOK
<1>3. CASE Gms!Replied
  BY <1>1, <1>3 DEF Gms!Replied, GmsInv, Gms!TypeOK, Gms!NoRequest, Gms!NoResponse
<1>4. CASE UNCHANGED gmsVars
  BY <1>4 DEF gmsVars, GmsInv, Gms!TypeOK
<1> QED BY <1>2, <1>3, <1>4 DEF Gms!Next

\* A body that was stripped has the clean ways.
LEMMA GmsInvSuffices == Gms!ConstantsOK /\ GmsInv => Gms!TypeOK /\ Gms!StripIsComplete
BY GmsStripKeepsClean DEF GmsInv, Gms!TypeOK, Gms!StripIsComplete

-----------------------------------------------------------------------------
(* Composition.  A step of all is, for each daemon, one of its own or none. *)

\* One daemon takes the step and the others stay, or all of them stay.
LEMMA StepsOrStays == [DaemonsNext]_daemonsVars => \A d \in Names : Step(d) \/ Stays(d)
<1> SUFFICES ASSUME [DaemonsNext]_daemonsVars, NEW d \in Names PROVE Step(d) \/ Stays(d)
  OBVIOUS
<1>1. CASE DaemonsNext
  <2>1. PICK e \in Names : Only(e)
    BY <1>1 DEF DaemonsNext
  <2> QED BY <2>1 DEF Only
<1>2. CASE UNCHANGED daemonsVars
  BY <1>2 DEF daemonsVars, Names, Stays, vars, settingsVars, attestVars, policyVars, sensorVars,
     mediaVars, esimVars, textVars, duressVars, firmwareVars, gmsVars
<1> QED BY <1>1, <1>2

\* The behaviours of all are behaviours of each.
LEMMA KeystoreRuns == DaemonsSpec => Spec
<1>1. [DaemonsNext]_daemonsVars => [Next]_vars
  BY StepsOrStays DEF Names, Step, Stays
<1> QED BY <1>1, PTL DEF DaemonsSpec, DaemonsInit, Spec

\* So are those of the settings store,
LEMMA SettingsRun == DaemonsSpec => Store!Spec
<1>1. [DaemonsNext]_daemonsVars => [Store!Next]_(Store!vars)
  BY StepsOrStays DEF Names, Step, Stays, settingsVars, Store!vars
<1> QED BY <1>1, PTL DEF DaemonsSpec, DaemonsInit, Store!Spec

\* of the attestation
LEMMA AttestationRuns == DaemonsSpec => Attest!Spec
<1>1. [DaemonsNext]_daemonsVars => [Attest!Next]_(Attest!vars)
  BY StepsOrStays DEF Names, Step, Stays, attestVars, Attest!vars,
     Attest!storeVars, Attest!reportVars
<1> QED BY <1>1, PTL DEF DaemonsSpec, DaemonsInit, Attest!Spec

\* and of the sensor guard.
LEMMA SensorGuardRuns == DaemonsSpec => Sensor!Spec
<1>1. [DaemonsNext]_daemonsVars => [Sensor!Next]_(Sensor!vars)
  BY StepsOrStays DEF Names, Step, Stays, sensorVars, Sensor!vars
<1> QED BY <1>1, PTL DEF DaemonsSpec, DaemonsInit, Sensor!Spec

\* The invariants of the others hold among them.
LEMMA PolicyAlways == DaemonsSpec => []Policy!TypeOK
<1>1. [DaemonsNext]_daemonsVars => [Policy!Next]_(Policy!vars)
  BY StepsOrStays DEF Names, Step, Stays, policyVars, Policy!vars
<1> QED BY <1>1, PolicyInitType, PolicyStepType, PTL DEF DaemonsSpec, DaemonsInit

\* The coordinator's, with the codecs wanted.
LEMMA MediaAlways == DaemonsSpec => []MediaInv
<1>1. [DaemonsNext]_daemonsVars => [Media!Next]_(Media!vars)
  BY StepsOrStays DEF Names, Step, Stays, mediaVars, Media!vars
<1>2. Media!ConstantsOK
  BY ConstantsAssumption
<1>3. Media!Init => MediaInv
  BY <1>2, MediaInitInv
<1>4. MediaInv /\ [Media!Next]_(Media!vars) => MediaInv'
  BY <1>2, MediaStepInv
<1> QED BY <1>1, <1>3, <1>4, PTL DEF DaemonsSpec, DaemonsInit

\* The eSIM manager's, with the record.
LEMMA EsimAlways == DaemonsSpec => []EsimInv
<1>1. [DaemonsNext]_daemonsVars => [Esim!Next]_(Esim!vars)
  BY StepsOrStays DEF Names, Step, Stays, esimVars, Esim!vars
<1>2. Esim!ConstantsOK
  BY ConstantsAssumption
<1>3. Esim!Init => EsimInv
  BY <1>2, EsimInitInv
<1>4. EsimInv /\ [Esim!Next]_(Esim!vars) => EsimInv'
  BY <1>2, EsimStepInv
<1> QED BY <1>1, <1>3, <1>4, PTL DEF DaemonsSpec, DaemonsInit

\* The analyzer's, and what it remembers.
LEMMA RiskAlways == DaemonsSpec => []Risk!TypeOK /\ Risk!LongStayIsRemembered
<1>1. [DaemonsNext]_daemonsVars => [Risk!Next]_rotation_history
  BY StepsOrStays DEF Names, Step, Stays
<1>2. Risk!ConstantsOK
  BY ConstantsAssumption
<1>3. Risk!Init => Risk!TypeOK
  BY <1>2, RiskInitType
<1>4. Risk!TypeOK /\ [Risk!Next]_rotation_history => Risk!TypeOK'
  BY <1>2, RiskStepType
<1>5. Risk!TypeOK /\ [Risk!Next]_rotation_history =>
    [ Risk!AssessRisk(rotation_history) >= Risk!High /\ rotation_history # <<>> /\ ~Risk!Crash
        => Risk!AssessRisk(rotation_history') >= Risk!High ]_rotation_history
  BY <1>2, RiskStepRemembers
<1> QED BY <1>1, <1>3, <1>4, <1>5, PTL DEF DaemonsSpec, DaemonsInit, Risk!LongStayIsRemembered

\* The AT proxy's verdict.
LEMMA AtAlways == DaemonsSpec => []AtInv
<1>1. [DaemonsNext]_daemonsVars => [At!Next]_<<text, verdict>>
  BY StepsOrStays DEF Names, Step, Stays, textVars
<1> QED BY <1>1, AtInitInv, AtStepInv, PTL DEF DaemonsSpec, DaemonsInit

\* The duress daemon's, with what its wipes list.
LEMMA DuressAlways == DaemonsSpec => []DuressInv
<1>1. [DaemonsNext]_daemonsVars => [Duress!Next]_(Duress!vars)
  BY StepsOrStays DEF Names, Step, Stays, duressVars, Duress!vars
<1> QED BY <1>1, DuressInitInv, DuressStepInv, PTL DEF DaemonsSpec, DaemonsInit

\* The guard's, with the mutex, and what its checks cannot miss.
LEMMA FirmwareAlways ==
  DaemonsSpec => [](FirmwareInv /\ FirmwareSeen) /\ Firmware!TamperIsNotMissed
<1>1. [DaemonsNext]_daemonsVars => [Firmware!Next]_(Firmware!vars)
  BY StepsOrStays DEF Names, Step, Stays, firmwareVars, Firmware!vars
<1>2. Firmware!ConstantsOK
  BY ConstantsAssumption
<1>3. Firmware!Init => FirmwareInv /\ FirmwareSeen
  BY <1>2, FirmwareInitInv
<1>4. FirmwareInv /\ FirmwareSeen /\ [Firmware!Next]_(Firmware!vars) => FirmwareInv' /\ FirmwareSeen'
  BY <1>2, FirmwareStepInv, FirmwareStepSeen
<1>5. FirmwareInv /\ FirmwareSeen =>
    [ \A t \in Firmware!Tasks :
        steady[t] # {} =>
          /\ Firmware!Stores(t) => Firmware!OverallStatus(last_results') = "tampered"
          /\ t = "bg" /\ Firmware!Verified(t) => check'[t].stage = "alerting" ]_(Firmware!vars)
  BY <1>2, FirmwareStepNotMissed
<1> QED BY <1>1, <1>3, <1>4, <1>5, PTL DEF DaemonsSpec, DaemonsInit, Firmware!TamperIsNotMissed

\* The detector's types, and what it knows.
LEMMA ImsiAlways == DaemonsSpec => []Imsi!TypeOK /\ Imsi!KnownWhileInWindow
<1>1. [DaemonsNext]_daemonsVars => [Imsi!Next]_history
  BY StepsOrStays DEF Names, Step, Stays
<1>2. Imsi!ConstantsOK
  BY ConstantsAssumption
<1>3. Imsi!Init => Imsi!TypeOK
  BY <1>2, ImsiInitType
<1>4. Imsi!TypeOK /\ [Imsi!Next]_history => Imsi!TypeOK'
  BY <1>2, ImsiStepType
<1>5. Imsi!TypeOK /\ [Imsi!Next]_history =>
    [ \A obs \in Observations :
        (Imsi!AnalyzeSignal(obs) /\ \E k \in DOMAIN history :
            history[k].cell_id = obs.cell_id /\ (k > 1 \/ Len(history) < MAX_HISTORY))
        => ~(Imsi!StrongUnknown' \/ Imsi!NoEncryption')
           /\ (Imsi!Score' >= 70 => Imsi!Downgrade') ]_history
  BY <1>2, ImsiStepKnown
<1> QED BY <1>1, <1>3, <1>4, <1>5, PTL DEF DaemonsSpec, DaemonsInit, Imsi!KnownWhileInWindow

\* The GMS proxy's, with the stripped body.
LEMMA GmsAlways == DaemonsSpec => []GmsInv
<1>1. [DaemonsNext]_daemonsVars => [Gms!Next]_gmsVars
  BY StepsOrStays DEF Names, Step, Stays
<1>2. Gms!ConstantsOK
  BY ConstantsAssumption
<1>3. Gms!Init => GmsInv
  BY <1>2, GmsInitInv
<1>4. GmsInv /\ [Gms!Next]_gmsVars => GmsInv'
  BY <1>2, GmsStepInv
<1> QED BY <1>1, <1>3, <1>4, PTL DEF DaemonsSpec, DaemonsInit

-----------------------------------------------------------------------------
(* Theorems. *)

\* All of them keep their types, whichever of them runs: among others, the
\* firmware checks exclude each other, a codec's entry is one of this life and
\* a wipe removes only entries that were there.
THEOREM TypesHold == DaemonsSpec => []DaemonsTypeOK
<1>1. DaemonsSpec => []TypeOK
  <2>1. KeystoreInv => TypeOK
    BY DEF KeystoreInv
  <2> QED BY <2>1, KeystoreRuns, KeystoreAlways, PTL
<1>2. DaemonsSpec => []Store!TypeOK
  <2>1. Store!Spec => []Store!TypeOK
    BY ConstantsAssumption, Store!TypeCorrect
  <2> QED BY <2>1, SettingsRun, PTL
<1>3. DaemonsSpec => []Attest!TypeOK
  <2>1. Attest!Spec => []Attest!TypeOK
    BY ConstantsAssumption, Attest!TypeCorrect
  <2> QED BY <2>1, AttestationRuns, PTL
<1>4. DaemonsSpec => []Sensor!TypeOK
  <2>1. Sensor!Spec => []Sensor!TypeOK
    BY ConstantsAssumption, Sensor!TypeCorrect
  <2> QED BY <2>1, SensorGuardRuns, PTL
<1>5. (MediaInv => Media!TypeOK) /\ (EsimInv => Esim!TypeOK) /\ (AtInv => At!TypeOK)
  BY DEF MediaInv, EsimInv, AtInv
<1>6. FirmwareInv /\ FirmwareSeen => Firmware!TypeOK
  BY FirmwareInvTypes
<1>7. (DuressInv => Duress!TypeOK) /\ (GmsInv => Gms!TypeOK)
  BY DEF DuressInv, GmsInv
<1> QED BY <1>1, <1>2, <1>3, <1>4, <1>5, <1>6, <1>7, PolicyAlways, MediaAlways, EsimAlways,
         RiskAlways, AtAlways, DuressAlways, FirmwareAlways, ImsiAlways, GmsAlways, PTL
         DEF DaemonsTypeOK

\* Acknowledged keys with a file of their own that has an extension (ids other than
\* the empty one, and not sharing a sanitised form) outlive any number of deaths,
\* restarts and failed operations, whatever the other daemons do meanwhile
\* (generate_and_store persists, then inserts).
THEOREM AcknowledgedKeysLast == DaemonsSpec => []KeysLast
<1>1. KeystoreInv => KeysLast
  BY NamesAssumption, EntryAssumption DEF KeystoreInv, OnDisk, KeysLast, IsEntry
<1> QED BY <1>1, KeystoreRuns, KeystoreAlways, PTL

\* No entry is ever unwrapped with a KEK other than its own (derive_master_key
\* makes one only when none is stored).
THEOREM SecretsUnwrap == DaemonsSpec => []EntriesUnwrap
<1>1. KeystoreInv => EntriesUnwrap
  BY DEF KeystoreInv
<1> QED BY <1>1, KeystoreRuns, KeystoreAlways, PTL

\* A key that was removed with its file stays away (delete, open).
THEOREM DeletedKeysStayGone == DaemonsSpec => []DeletedStayGone
<1>1. KeystoreInv => DeletedStayGone
  BY DEF KeystoreInv
<1> QED BY <1>1, KeystoreRuns, KeystoreAlways, PTL

\* A KEK file that stops every start was never used (derive_master_key).
THEOREM UnreadableKekIsUnused == DaemonsSpec => []TornKekLosesNothing
<1>1. KeystoreInv => TornKekLosesNothing
  BY NamesAssumption DEF KeystoreInv, OneKek, TornKekLosesNothing
<1> QED BY <1>1, KeystoreRuns, KeystoreAlways, PTL

\* What a client is told is what the rules file says, for any list of rules:
\* the policy of policy.rs, load_from_file and then evaluate, is the reading of
\* the list in which the last rule of an uid counts and denying goes first.
THEOREM RulesDecideAsWritten ==
  ASSUME NEW l, DOMAIN l = 1 .. Len(l), Len(l) \in Nat, NEW u, NEW d
  PROVE  (Policy!Evaluate(Policy!LoadFromFile(l), u, d) = "allow") <=> Policy!Permits(l, u, d)
BY PolicyDecidedAsWritten

\* And the daemon never decides otherwise than one text of the file says, or none,
\* for all uids and destinations together: a reload that waits for the lock, a
\* failed one or a death brings no rules of two texts together (main.rs:40-59).
THEOREM DecisionsFollowOneText == DaemonsSpec => []DecidesAsOneText
<1>1. Policy!TypeOK => DecidesAsOneText
  <2> SUFFICES ASSUME Policy!TypeOK PROVE Policy!DecidesAsOneText
    BY DEF DecidesAsOneText
  <2>1. CASE rules = <<>>
    <3>1. \A u, d : Policy!Evaluate(rules, u, d) = "default_deny" /\ ~Policy!Permits(<<>>, u, d)
      BY <2>1 DEF Policy!Evaluate, Policy!Permits
    <3> QED BY <3>1 DEF Policy!DecidesAsOneText
  <2>2. ASSUME NEW f \in RuleFiles, rules = Policy!LoadFromFile(f)
        PROVE  Policy!DecidesAsOneText
    <3>1. Len(f) \in Nat /\ DOMAIN f = 1 .. Len(f)
      BY ConstantsAssumption DEF Policy!ConstantsOK
    <3>2. \A u, d : (Policy!Evaluate(rules, u, d) = "allow") <=> Policy!Permits(f, u, d)
      BY <2>2, <3>1, PolicyDecidedAsWritten
    <3> QED BY <3>2 DEF Policy!DecidesAsOneText
  <2> QED BY <2>1, <2>2 DEF Policy!TypeOK, Policy!Engines
<1> QED BY <1>1, PolicyAlways, PTL

\* Writes and deletes of settings that were acknowledged after a flush survive failed
\* flushes, deaths and restarts, whatever the other daemons do meanwhile; a delete
\* acknowledged without a flush, because a failed one already took the key out of
\* the map, does not: the key is still stored (store.rs:81-91, flush).
THEOREM SettingsAreKept == DaemonsSpec => []AcknowledgedIsKept
<1>1. Store!Spec => []Store!AcknowledgedIsKept
  BY ConstantsAssumption, Store!WritesAreKept
<1> QED BY <1>1, SettingsRun, PTL DEF AcknowledgedIsKept

\* Acknowledged locks hold, and no client meets a boot key that is not locked.
THEOREM SettingsStayLocked == DaemonsSpec => []LocksHold
<1>1. Store!Spec => []Store!LocksHold
  BY ConstantsAssumption, Store!LocksAreKept
<1> QED BY <1>1, SettingsRun, PTL DEF LocksHold

\* Servers whose addition was stored keep their fingerprints as long as every start
\* could read the store (trust_store.rs, save and load; main.rs:33-40).
THEOREM ServersAreKept == DaemonsSpec => []ServersLast
<1>1. Attest!Spec => []Attest!ServersLast
  BY ConstantsAssumption, Attest!ServersAreKept
<1> QED BY <1>1, AttestationRuns, PTL DEF ServersLast

\* A report about to be signed names, for a daemon, processes that ran under its name
\* while it was made, and leaves out no daemon that ran throughout unless /proc, a
\* link or a file could not be read, or a process with a replaced file carried the
\* name too (attestation.rs:118-176).
THEOREM ReportIsComplete == DaemonsSpec => []ReportCovers
<1>1. Attest!Spec => []Attest!ReportCovers
  BY ConstantsAssumption, Attest!ReportIsComplete
<1> QED BY <1>1, AttestationRuns, PTL DEF ReportCovers

\* The sensor guard implements the book of grants.
THEOREM GrantsAreBooked == DaemonsSpec => KeepsTheBook
<1>1. Sensor!Spec => Sensor!KeepsTheBook
  BY ConstantsAssumption, Sensor!DaemonKeepsTheBook
<1> QED BY <1>1, SensorGuardRuns, PTL DEF KeepsTheBook

\* Every running codec stands under an entry, with its pid, and no kill of that
\* entry was answered "ok" before, for any number of pids, restarts and ids.  It
\* says nothing of a codec killed by mistake: an entry keeps the pid of a process
\* that ended, and a signal to it may reach the codec of another entry that has
\* the pid now (coordinator.rs:160-262).
THEOREM RunningCodecsAreWanted == DaemonsSpec => []CodecsAreWanted
<1>1. MediaInv => CodecsAreWanted
  BY DEF MediaInv, CodecsAreWanted
<1> QED BY <1>1, MediaAlways, PTL

\* The record of rotations follows the profile in use, for any lists of
\* profiles, requests, scheduled rotations and failures (main.rs:147-178).
THEOREM RecordIsCurrent == DaemonsSpec => []RecordFollows
<1>1. EsimInv => RecordFollows
  BY DEF EsimInv, RecordFollows
<1> QED BY <1>1, EsimAlways, PTL

\* A stay of more than two hours is never forgotten, for records of any length
\* and stays of any duration (triangulation.rs:168-205).
THEOREM LongStaysCount == DaemonsSpec => LongStayIsRemembered
BY RiskAlways, PTL DEF LongStayIsRemembered

\* Case, the mark of a query and parameters, empty or not, make no difference, for
\* any tokens, lists and texts of any length: nothing is open to queries only, in
\* spite of the comment on +COPS (at_filter.rs:29-62, 93).
THEOREM VerdictIsOfTheName == DaemonsSpec => []FormDoesNotMatter
<1>1. AtInv => FormDoesNotMatter
  BY ConstantsAssumption, AtInvSuffices DEF FormDoesNotMatter
<1> QED BY <1>1, AtAlways, PTL

\* A reported cell is known for the rest of the window, for windows of any size
\* (imsi_catcher.rs:93-180).
THEOREM ReportedCellsAreKnown == DaemonsSpec => KnownWhileInWindow
BY ImsiAlways, PTL DEF KnownWhileInWindow

\* No check misses a file tampered with all the time it took: what is stored says
\* so, and the background's check alerts, for any files, clients and interleavings
\* of their checks (main.rs:95-118, 165-180).
THEOREM TamperIsSeen == DaemonsSpec => TamperIsNotMissed
BY FirmwareAlways, PTL DEF TamperIsNotMissed

\* No telemetry field is left in a body that is sent on and nothing else is
\* lost, for bodies of any depth and any fields (proxy.rs:119-143).
THEOREM BodiesAreStripped == DaemonsSpec => []StripIsComplete
<1>1. GmsInv => StripIsComplete
  BY ConstantsAssumption, GmsInvSuffices DEF StripIsComplete
<1> QED BY <1>1, GmsAlways, PTL

\* What a duress PIN dooms is pursued until it is removed, by any number of
\* tasks and over any number of entries: a wipe with all of it on its list that
\* stumbles over nothing is under way, or about to begin (duress.rs:88-115).
THEOREM DoomedKeysArePursued == DaemonsSpec => []DoomIsPursued
<1>1. DuressInv => DoomIsPursued
  BY ConstantsAssumption, DuressInvSuffices DEF DoomIsPursued
<1> QED BY <1>1, DuressAlways, PTL
=============================================================================
