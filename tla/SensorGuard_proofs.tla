-------------------------- MODULE SensorGuard_proofs --------------------------
(***************************************************************************)
(* Theorems about SensorGuard for all uids, sensors, permission files,     *)
(* lifetimes and numbers of tokens that satisfy ConstantsOK.               *)
(***************************************************************************)
EXTENDS SensorGuard, TLAPS

\* A daemon that is down has no tokens.
DownIsEmpty == ~up => active_tokens = <<>> /\ next_token_id = 1 /\ answer = NoAnswer

Inv == TypeOK /\ DownIsEmpty

-----------------------------------------------------------------------------

\* The empty function has no arguments.
LEMMA EmptyDomain == DOMAIN <<>> = {}
OBVIOUS

\* A token with its parts.
LEMMA TokenParts ==
  ASSUME ConstantsOK, NEW t \in Tokens
  PROVE  /\ t.left \in 0 .. MaxTtl /\ t.left \in Nat
         /\ t = [uid |-> t.uid, sensor |-> t.sensor, left |-> t.left]
         /\ \A n \in 0 .. MaxTtl : [t EXCEPT !.left = n] \in Tokens
BY DEF ConstantsOK, Tokens

LEMMA InitInv == ConstantsOK /\ Init => Inv
<1> SUFFICES ASSUME ConstantsOK, Init PROVE Inv
  OBVIOUS
<1>1. DOMAIN active_tokens = {} /\ active_tokens \in [DOMAIN active_tokens -> Tokens]
  BY EmptyDomain DEF Init
<1>2. next_token_id \in 1 .. MaxToken + 1
  BY DEF Init, ConstantsOK
<1> QED BY <1>1, <1>2 DEF Init, Inv, TypeOK, DownIsEmpty

LEMMA RequestInv ==
  ASSUME ConstantsOK, Inv, NEW u \in Uids, NEW s \in Sensors, RequestAccess(u, s)
  PROVE  /\ Inv'
         /\ [uid |-> u, sensor |-> s, left |-> permissions[u].ttl] \in Tokens
<1> DEFINE new == [uid |-> u, sensor |-> s, left |-> permissions[u].ttl]
<1>1. permissions[u].ttl \in 0 .. MaxTtl
  <2>1. u \in DOMAIN permissions /\ permissions \in PermissionFiles \cup {<<>>}
    BY DEF RequestAccess, Allowed, Inv, TypeOK
  <2>2. permissions # <<>>
    BY <2>1, EmptyDomain
  <2> QED BY <2>1, <2>2 DEF ConstantsOK
<1>2. new \in Tokens
  BY <1>1 DEF Tokens
<1>3. /\ up /\ next_token_id \in 1 .. MaxToken /\ next_token_id' = next_token_id + 1
      /\ answer' = NoAnswer /\ UNCHANGED <<up, permissions>>
  BY DEF RequestAccess, TakesId, Inv, TypeOK, ConstantsOK
<1>4. /\ DOMAIN active_tokens' = DOMAIN active_tokens \cup {next_token_id}
      /\ active_tokens' \in [DOMAIN active_tokens' -> Tokens]
  BY <1>2 DEF RequestAccess, Inv, TypeOK
<1>5. DOMAIN active_tokens' \subseteq 1 .. next_token_id' - 1
  BY <1>3, <1>4 DEF Inv, TypeOK
<1>6. next_token_id' \in 1 .. MaxToken + 1
  BY <1>3 DEF ConstantsOK
<1>7. Inv'
  BY <1>3, <1>4, <1>5, <1>6 DEF Inv, TypeOK, DownIsEmpty
<1> QED BY <1>2, <1>7

\* Dropping tokens keeps the type.
LEMMA DropInv ==
  ASSUME Inv, up, NEW gone, active_tokens' = Restrict(active_tokens, DOMAIN active_tokens \ gone),
         answer' \in {answer, NoAnswer}, UNCHANGED <<up, permissions, next_token_id>>
  PROVE  Inv'
<1>1. /\ DOMAIN active_tokens' = DOMAIN active_tokens \ gone
      /\ active_tokens' \in [DOMAIN active_tokens' -> Tokens]
  BY DEF Inv, TypeOK, Restrict
<1> QED BY <1>1 DEF Inv, TypeOK, DownIsEmpty

LEMMA ElapsesInv ==
  ASSUME ConstantsOK, Inv, Elapses
  PROVE  Inv'
<1>1. /\ DOMAIN active_tokens' = DOMAIN active_tokens
      /\ \A i \in DOMAIN active_tokens : active_tokens'[i] =
           [active_tokens[i] EXCEPT !.left = IF @ = 0 THEN 0 ELSE @ - 1]
      /\ active_tokens' \in [DOMAIN active_tokens -> Tokens]
  <2>1. ASSUME NEW i \in DOMAIN active_tokens
        PROVE  [active_tokens[i] EXCEPT !.left = IF @ = 0 THEN 0 ELSE @ - 1] \in Tokens
    <3>1. active_tokens[i] \in Tokens
      BY DEF Inv, TypeOK
    <3>2. (IF active_tokens[i].left = 0 THEN 0 ELSE active_tokens[i].left - 1) \in 0 .. MaxTtl
      BY <3>1, TokenParts DEF ConstantsOK
    <3> QED BY <3>1, <3>2, TokenParts
  <2> QED BY <2>1 DEF Elapses
<1>2. TypeOK'
  BY <1>1 DEF Elapses, Inv, TypeOK
<1>3. DownIsEmpty'
  <2>1. ~up => active_tokens' = <<>>
    <3>1. SUFFICES ASSUME ~up PROVE active_tokens' = active_tokens
      BY DEF Inv, DownIsEmpty
    <3>2. DOMAIN active_tokens = {}
      BY <3>1, EmptyDomain DEF Inv, DownIsEmpty
    <3>3. active_tokens' = [i \in {} |-> active_tokens[i]]
      BY <3>2 DEF Elapses
    <3>4. active_tokens = [i \in {} |-> active_tokens[i]]
      BY <3>2 DEF Inv, TypeOK
    <3> QED BY <3>3, <3>4
  <2> QED BY <2>1 DEF Elapses, Inv, DownIsEmpty
<1> QED BY <1>2, <1>3 DEF Inv

LEMMA StepInv == ConstantsOK /\ Inv /\ [Next]_vars => Inv'
<1> SUFFICES ASSUME ConstantsOK, Inv, [Next]_vars PROVE Inv'
  OBVIOUS
<1>1. ASSUME NEW u \in Uids, NEW s \in Sensors, RequestAccess(u, s) PROVE Inv'
  BY <1>1, RequestInv
<1>2. ASSUME NEW id \in Ids, ValidateToken(id) PROVE Inv'
  BY <1>2 DEF ValidateToken, Inv, TypeOK, DownIsEmpty, IsValid
<1>3. ASSUME NEW id \in Ids, RevokeToken(id) PROVE Inv'
  BY <1>3, DropInv DEF RevokeToken
<1>4. CASE PurgeExpired
  BY <1>4, DropInv DEF PurgeExpired
<1>5. CASE Start
  BY <1>5 DEF Start, Inv, TypeOK, DownIsEmpty
<1>6. CASE Crash
  <2>1. DOMAIN active_tokens' = {} /\ active_tokens' \in [DOMAIN active_tokens' -> Tokens]
    BY <1>6, EmptyDomain DEF Crash
  <2>2. next_token_id' \in 1 .. MaxToken + 1
    BY <1>6 DEF Crash, ConstantsOK
  <2> QED BY <1>6, <2>1, <2>2 DEF Crash, Inv, TypeOK, DownIsEmpty
<1>7. CASE Elapses
  BY <1>7, ElapsesInv
<1>8. CASE UNCHANGED vars
  BY <1>8 DEF vars, Inv, TypeOK, DownIsEmpty
<1> QED BY <1>1, <1>2, <1>3, <1>4, <1>5, <1>6, <1>7, <1>8 DEF Next

\* The invariant holds throughout.
THEOREM Invariance == ConstantsOK => (Spec => []Inv)
<1> SUFFICES ASSUME ConstantsOK PROVE Spec => []Inv
  OBVIOUS
<1>1. Init => Inv
  BY InitInv
<1>2. Inv /\ [Next]_vars => Inv'
  BY StepInv
<1> QED BY <1>1, <1>2, PTL DEF Spec

\* The variables keep their types: tokens are numbered below the counter, and
\* none lives longer than a file allows.
THEOREM TypeCorrect == ConstantsOK => (Spec => []TypeOK)
<1> SUFFICES ASSUME ConstantsOK PROVE Spec => []TypeOK
  OBVIOUS
<1>1. Inv => TypeOK
  BY DEF Inv
<1> QED BY <1>1, Invariance, PTL
-----------------------------------------------------------------------------
(* The daemon keeps the book of grants *)

\* What stands is the live tokens.
LEMMA Standing ==
  ASSUME Inv
  PROVE  /\ standing = [i \in Live |-> active_tokens[i]]
         /\ DOMAIN standing = Live
         /\ \A i \in Live : /\ standing[i] = active_tokens[i] /\ standing[i] \in Tokens
                            /\ i \in DOMAIN active_tokens /\ standing[i].left > 0
BY DEF standing, Restrict, Live, IsValid, Inv, TypeOK

\* The same after a step.
LEMMA StandingNext == standing' = [i \in Live' |-> active_tokens'[i]]
BY DEF standing, Restrict

\* Without tokens nothing stands.
LEMMA NothingStands ==
  ASSUME active_tokens = <<>>, next_token_id = 1
  PROVE  standing = <<>> /\ spent = {}
<1>1. Live = {}
  BY EmptyDomain DEF Live
<1>2. standing = [i \in {} |-> active_tokens[i]]
  BY <1>1 DEF standing, Restrict
<1>3. <<>> = [i \in {} |-> active_tokens[i]]
  BY EmptyDomain
<1> QED BY <1>2, <1>3 DEF spent

LEMMA BookInit == Init => Book!Init
BY NothingStands DEF Init, Book!Init

LEMMA RequestGrants ==
  ASSUME ConstantsOK, Inv, NEW u \in Uids, NEW s \in Sensors, RequestAccess(u, s)
  PROVE  Book!Next
<1> DEFINE new == [uid |-> u, sensor |-> s, left |-> permissions[u].ttl]
           id == next_token_id
<1>1. new \in Tokens /\ new.left \in Nat
  BY RequestInv, TokenParts
<1>2. /\ id \in Ids /\ id \in Nat /\ id \notin spent /\ id \notin DOMAIN active_tokens
      /\ next_token_id' = id + 1 /\ answer' = NoAnswer
      /\ active_tokens' = [i \in DOMAIN active_tokens \cup {id} |->
                             IF i = id THEN new ELSE active_tokens[i]]
  BY DEF RequestAccess, TakesId, Inv, TypeOK, ConstantsOK, Ids, spent
<1>3. spent' = spent \cup {id}
  <2>1. id \in Nat \ {0} /\ (id + 1) - 1 = id
    BY <1>2 DEF Ids
  <2>2. 1 .. id = (1 .. id - 1) \cup {id}
    BY <2>1
  <2> QED BY <1>2, <2>1, <2>2 DEF spent
<1>4. Live' = Live \cup IF new.left > 0 THEN {id} ELSE {}
  BY <1>1, <1>2 DEF Live, IsValid
<1>5. \A i \in Live' : active_tokens'[i] = IF i = id THEN new ELSE standing[i]
  BY <1>2, <1>4, Standing
<1>6. standing' = [i \in DOMAIN standing \cup IF new.left > 0 THEN {id} ELSE {} |->
                     IF i = id THEN new ELSE standing[i]]
  BY <1>4, <1>5, Standing, StandingNext
<1>7. Book!Grant(id, new)
  BY <1>2, <1>3, <1>6 DEF Book!Grant
<1> QED BY <1>1, <1>2, <1>7 DEF Book!Next

LEMMA RevokeWithdraws ==
  ASSUME Inv, NEW id \in Ids, RevokeToken(id)
  PROVE  Book!Next
<1>1. /\ active_tokens' = [i \in DOMAIN active_tokens \ {id} |-> active_tokens[i]]
      /\ answer' = NoAnswer /\ next_token_id' = next_token_id
  BY DEF RevokeToken, Restrict
<1>2. Live' = Live \ {id} /\ \A i \in Live' : active_tokens'[i] = standing[i]
  BY <1>1, Standing DEF Live, IsValid
<1>3. standing' = [i \in DOMAIN standing \ {id} |-> standing[i]]
  BY <1>2, Standing, StandingNext
<1>4. Book!Withdraw(id)
  BY <1>1, <1>3 DEF Book!Withdraw, Book!Without, spent
<1> QED BY <1>4 DEF Book!Next

LEMMA ValidateConfirms ==
  ASSUME Inv, NEW id \in Ids, ValidateToken(id)
  PROVE  Book!Next
<1>1. standing' = standing /\ spent' = spent
  BY DEF ValidateToken, standing, Live, IsValid, spent
<1>2. (id \in DOMAIN active_tokens /\ IsValid(active_tokens[id])) <=> id \in DOMAIN standing
  BY Standing DEF Live
<1>3. Book!Confirm(id)
  BY <1>1, <1>2 DEF ValidateToken, Book!Confirm
<1> QED BY <1>3 DEF Book!Next

LEMMA PurgeChangesNothing ==
  ASSUME Inv, PurgeExpired
  PROVE  UNCHANGED <<standing, spent, answer>>
<1>1. /\ active_tokens' = [i \in DOMAIN active_tokens \ Purged |-> active_tokens[i]]
      /\ UNCHANGED <<next_token_id, answer>>
  BY DEF PurgeExpired, Restrict
<1>2. Live' = Live /\ \A i \in Live' : active_tokens'[i] = active_tokens[i]
  BY <1>1 DEF Live, Purged, IsValid
<1> QED BY <1>1, <1>2, Standing, StandingNext DEF spent

LEMMA TimeElapses ==
  ASSUME ConstantsOK, Inv, Elapses
  PROVE  Book!Next
<1>1. \A i \in DOMAIN active_tokens : /\ active_tokens[i] \in Tokens
                                      /\ active_tokens[i].left \in Nat
  BY TokenParts DEF Inv, TypeOK
<1>2. /\ DOMAIN active_tokens' = DOMAIN active_tokens
      /\ \A i \in DOMAIN active_tokens : active_tokens'[i] =
           [active_tokens[i] EXCEPT !.left = IF @ = 0 THEN 0 ELSE @ - 1]
      /\ answer' = NoAnswer /\ next_token_id' = next_token_id
  BY DEF Elapses
<1>3. \A i \in DOMAIN active_tokens :
        active_tokens'[i].left = IF active_tokens[i].left = 0 THEN 0
                                 ELSE active_tokens[i].left - 1
  BY <1>1, <1>2 DEF Tokens
<1>4. Live' = {j \in DOMAIN standing : standing[j].left > 1}
  BY <1>1, <1>2, <1>3, Standing DEF Live, IsValid
<1>5. \A i \in Live' : active_tokens'[i] = [standing[i] EXCEPT !.left = @ - 1]
  BY <1>1, <1>2, <1>4, Standing
<1>6. standing' = [i \in {j \in DOMAIN standing : standing[j].left > 1} |->
                     [standing[i] EXCEPT !.left = @ - 1]]
  BY <1>4, <1>5, StandingNext
<1>7. Book!Elapse
  BY <1>2, <1>6 DEF Book!Elapse, spent
<1> QED BY <1>7 DEF Book!Next

LEMMA CrashForgets ==
  ASSUME Crash
  PROVE  Book!Next
<1>1. active_tokens' = <<>> /\ next_token_id' = 1 /\ answer' = NoAnswer
  BY DEF Crash
<1>2. Live' = {}
  BY <1>1, EmptyDomain DEF Live
<1>3. standing' = [i \in {} |-> active_tokens'[i]]
  BY <1>2, StandingNext
<1>4. <<>> = [i \in {} |-> active_tokens'[i]]
  BY EmptyDomain
<1>5. Book!Forget
  BY <1>1, <1>3, <1>4 DEF Book!Forget, spent
<1> QED BY <1>5 DEF Book!Next

\* Every step of the daemon is one of the book, or leaves it alone.
LEMMA BookStep ==
  ConstantsOK /\ Inv /\ [Next]_vars => [Book!Next]_<<standing, spent, answer>>
<1> SUFFICES ASSUME ConstantsOK, Inv, [Next]_vars
             PROVE  [Book!Next]_<<standing, spent, answer>>
  OBVIOUS
<1>1. ASSUME NEW u \in Uids, NEW s \in Sensors, RequestAccess(u, s) PROVE Book!Next
  BY <1>1, RequestGrants
<1>2. ASSUME NEW id \in Ids, ValidateToken(id) \/ RevokeToken(id) PROVE Book!Next
  BY <1>2, ValidateConfirms, RevokeWithdraws
<1>3. CASE PurgeExpired
  BY <1>3, PurgeChangesNothing
<1>4. CASE Start
  BY <1>4 DEF Start, standing, Live, IsValid, spent
<1>5. CASE Crash
  BY <1>5, CrashForgets
<1>6. CASE Elapses
  BY <1>6, TimeElapses
<1>7. CASE UNCHANGED vars
  BY <1>7 DEF vars, standing, Live, IsValid, spent
<1> QED BY <1>1, <1>2, <1>3, <1>4, <1>5, <1>6, <1>7 DEF Next

\* For any files, lifetimes and numbers of tokens the daemon, with its purge that
\* comes round late, keeps the book of grants: a token is confirmed exactly while
\* its grant stands.
THEOREM DaemonKeepsTheBook == ConstantsOK => (Spec => KeepsTheBook)
<1> SUFFICES ASSUME ConstantsOK PROVE Spec => KeepsTheBook
  OBVIOUS
<1>1. Inv /\ [Next]_vars => [Book!Next]_<<standing, spent, answer>>
  BY BookStep
<1> QED BY <1>1, BookInit, Invariance, PTL DEF Spec, KeepsTheBook, Book!Spec
=============================================================================
