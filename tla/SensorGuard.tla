----------------------------- MODULE SensorGuard -----------------------------
(***************************************************************************)
(* services/sensor-guard-rs: tokens that give a uid access to a sensor for *)
(* a time.  Requests and the periodic purge take one mutex, so each is one *)
(* step.  A token carries the time it has left instead of the instant it   *)
(* was granted at.                                                         *)
(***************************************************************************)
EXTENDS Naturals, Functions

CONSTANTS
  Uids, Sensors,
  PermissionFiles,  \* what a start may read: [uids it names -> [sensors, ttl]]
  MaxTtl,           \* the longest lifetime in a permissions file
  MaxToken,         \* bound on the tokens granted in one life of the daemon
  NoAnswer

VARIABLES
  up,             \* the daemon is running
  permissions,    \* SensorGuard.permissions
  active_tokens,  \* SensorGuard.active_tokens
  next_token_id,
  answer          \* the last reply to ValidateToken

vars == <<up, permissions, active_tokens, next_token_id, answer>>

Tokens == [uid : Uids, sensor : Sensors, left : 0 .. MaxTtl]
Ids == 1 .. MaxToken

\* No permission lasts longer than MaxTtl.
ConstantsOK ==
  /\ MaxTtl \in Nat /\ MaxToken \in Nat
  /\ \A file \in PermissionFiles : \A u \in DOMAIN file : file[u].ttl \in 0 .. MaxTtl

-----------------------------------------------------------------------------
(* guard.rs *)

IsValid(token) == token.left > 0

Allowed(uid, sensor) ==
  uid \in DOMAIN permissions /\ sensor \in permissions[uid].sensors

TakesId == next_token_id' = next_token_id + 1

\* A refused request changes nothing and is left out.
RequestAccess(uid, sensor) ==
  /\ up /\ next_token_id <= MaxToken
  /\ Allowed(uid, sensor)
  /\ active_tokens' = [i \in DOMAIN active_tokens \cup {next_token_id} |->
       IF i = next_token_id
       THEN [uid |-> uid, sensor |-> sensor, left |-> permissions[uid].ttl]
       ELSE active_tokens[i]]
  /\ TakesId
  /\ answer' = NoAnswer
  /\ UNCHANGED <<up, permissions>>

\* By the identifier alone: the caller names no uid and no sensor.
ValidateToken(id) ==
  /\ up
  /\ answer' = [id |-> id,
                ok |-> id \in DOMAIN active_tokens /\ IsValid(active_tokens[id])]
  /\ UNCHANGED <<up, permissions, active_tokens, next_token_id>>

RevokeToken(id) ==
  /\ up /\ id \in DOMAIN active_tokens
  /\ active_tokens' = Restrict(active_tokens, DOMAIN active_tokens \ {id})
  /\ answer' = NoAnswer
  /\ UNCHANGED <<up, permissions, next_token_id>>

\* Faulty: the garbage collector goes by position, not by what has expired.
PurgedOldest == {i \in DOMAIN active_tokens : \A j \in DOMAIN active_tokens : i <= j}

Purged == {i \in DOMAIN active_tokens : ~IsValid(active_tokens[i])}

PurgeExpired ==
  /\ up /\ Purged # {}
  /\ active_tokens' = Restrict(active_tokens, DOMAIN active_tokens \ Purged)
  /\ UNCHANGED <<up, permissions, next_token_id, answer>>

-----------------------------------------------------------------------------
(* main.rs *)

\* A file that cannot be read or parsed leaves no permissions at all.
Start ==
  /\ ~up
  /\ up' = TRUE
  /\ permissions' \in PermissionFiles \cup {<<>>}
  /\ UNCHANGED <<active_tokens, next_token_id, answer>>

\* Nothing is stored: tokens and the counter are lost.
Crash ==
  /\ up
  /\ up' = FALSE
  /\ permissions' = <<>>
  /\ active_tokens' = <<>>
  /\ next_token_id' = 1
  /\ answer' = NoAnswer

Elapses ==
  /\ active_tokens' = [i \in DOMAIN active_tokens |->
       [active_tokens[i] EXCEPT !.left = IF @ = 0 THEN 0 ELSE @ - 1]]
  /\ answer' = NoAnswer
  /\ UNCHANGED <<up, permissions, next_token_id>>

Init ==
  /\ up = FALSE
  /\ permissions = <<>>
  /\ active_tokens = <<>>
  /\ next_token_id = 1
  /\ answer = NoAnswer

Next ==
  \/ \E u \in Uids, s \in Sensors : RequestAccess(u, s)
  \/ \E id \in Ids : ValidateToken(id) \/ RevokeToken(id)
  \/ PurgeExpired
  \/ Start
  \/ Crash
  \/ Elapses

Spec == Init /\ [][Next]_vars

-----------------------------------------------------------------------------
(* Properties *)

\* The variables have their types; tokens are numbered below the counter.
TypeOK ==
  /\ up \in BOOLEAN
  /\ permissions \in PermissionFiles \cup {<<>>}
  /\ next_token_id \in 1 .. MaxToken + 1
  /\ DOMAIN active_tokens \subseteq 1 .. next_token_id - 1
  /\ active_tokens \in [DOMAIN active_tokens -> Tokens]
  /\ answer \in [id : Ids, ok : BOOLEAN] \cup {NoAnswer}

\* What the book of grants sees: the tokens whose time is not over, and the
\* identifiers below the counter.
Live == {i \in DOMAIN active_tokens : IsValid(active_tokens[i])}
standing == Restrict(active_tokens, Live)
spent == 1 .. next_token_id - 1

Book == INSTANCE GrantBook WITH Grants <- Tokens

\* The daemon keeps the book of grants: whether the purge has come round or not,
\* a token is confirmed exactly while its grant stands, never after it expired
\* or was revoked (guard.rs:156-175), and no identifier is given out twice.
KeepsTheBook == Book!Spec
=============================================================================
