---------------------------- MODULE EsimManager ----------------------------
(***************************************************************************)
(* services/esim-manager-rs: the profiles, the rotation from one to the    *)
(* next, by request or by the scheduler, and the record of rotations.      *)
(*                                                                         *)
(* One mutex guards everything and is held while the AT command is sent to *)
(* the baseband proxy and its answer read, without a timeout, so nothing   *)
(* but time passes during an exchange.  Status and AssessRisk change       *)
(* nothing.  A restart forgets everything; so does Configure, but for the  *)
(* record.  The flags that clients send with their profiles are only shown *)
(* and left out.                                                           *)
(***************************************************************************)
EXTENDS Naturals, Sequences

CONSTANTS
  Ids,           \* profiles
  PrefixOf,      \* the first six characters of their ICCIDs
  Configured,    \* profile lists clients configure
  MaxProfiles,   \* bound on the list of profiles
  NoRecord

VARIABLES
  manager,   \* DaemonState.manager is there
  profiles, current,   \* its profiles, and the index of the one in use
  due,       \* next_interval, with its jitter, is over since last_rotation
  recorded,  \* the prefix recorded last in the anti-triangulation engine
  exchange,  \* an AT exchange is under way
  (* History, read by properties only: *)
  failed     \* the last exchange failed, or there was none since Configure

vars == <<manager, profiles, current, due, recorded, exchange, failed>>

\* Clients configure lists of profiles, within the bound.
ConstantsOK ==
  /\ MaxProfiles \in Nat \ {0}
  /\ \A list \in Configured : list \in Seq(Ids) /\ Len(list) <= MaxProfiles

-----------------------------------------------------------------------------
(* esim.rs *)

NextIndex == (current % Len(profiles)) + 1

\* The next profile is taken before the modem is asked to switch.
Rotates ==
  /\ current' = NextIndex
  /\ due' = FALSE
  /\ exchange' = TRUE
  /\ UNCHANGED <<manager, profiles, recorded, failed>>

\* Faulty: two profiles are not enough.
ShouldRotateLater == Len(profiles) > 2 /\ due

ShouldRotate == Len(profiles) > 1 /\ due

\* Faulty: the profile that the rotation left is recorded.
RecordedProfileOld == profiles[IF current = 1 THEN Len(profiles) ELSE current - 1]

RecordedProfile == profiles[current]

\* Nobody listens (the command is "queued (simulated)"), or any answer, or
\* the end of the stream: all of them count as acknowledged, and recorded.
Acknowledged ==
  /\ exchange
  /\ exchange' = FALSE
  /\ failed' = FALSE
  /\ recorded' = PrefixOf[RecordedProfile]
  /\ UNCHANGED <<manager, profiles, current, due>>

\* Writing or reading fails: an error is answered or logged.  The profile
\* stays the next one.
ExchangeFails ==
  /\ exchange
  /\ exchange' = FALSE
  /\ failed' = TRUE
  /\ UNCHANGED <<manager, profiles, current, due, recorded>>

-----------------------------------------------------------------------------
(* main.rs *)

Free == ~exchange

Rotate == Free /\ manager /\ Len(profiles) >= 2 /\ Rotates

ScheduledRotation == Free /\ manager /\ ShouldRotate /\ Rotates

\* EsimManager::new
NewManager(list) ==
  /\ manager' = TRUE
  /\ profiles' = list
  /\ current' = 1
  /\ due' = FALSE
  /\ failed' = TRUE
  /\ UNCHANGED <<recorded, exchange>>

Configure(list) == Free /\ NewManager(list)

AddProfile(id) ==
  /\ Free
  /\ \/ ~manager /\ NewManager(<<id>>)
     \/ /\ manager /\ Len(profiles) < MaxProfiles
        /\ profiles' = Append(profiles, id)
        /\ UNCHANGED <<manager, current, due, recorded, exchange, failed>>

Elapses ==
  /\ ~due /\ due' = TRUE
  /\ UNCHANGED <<manager, profiles, current, recorded, exchange, failed>>

Crash ==
  /\ manager' = FALSE
  /\ profiles' = <<>>
  /\ current' = 1
  /\ due' = FALSE
  /\ recorded' = NoRecord
  /\ exchange' = FALSE
  /\ failed' = TRUE

Init ==
  /\ manager = FALSE
  /\ profiles = <<>>
  /\ current = 1
  /\ due = FALSE
  /\ recorded = NoRecord
  /\ exchange = FALSE
  /\ failed = TRUE

Next ==
  \/ Rotate
  \/ ScheduledRotation
  \/ Acknowledged
  \/ ExchangeFails
  \/ \E list \in Configured : Configure(list)
  \/ \E id \in Ids : AddProfile(id)
  \/ Elapses
  \/ Crash

\* The scheduler's timer goes on firing.  Nothing is assumed of the other end
\* of the baseband socket.
Fairness == WF_vars(ScheduledRotation)

Spec == Init /\ [][Next]_vars

FairSpec == Spec /\ Fairness

-----------------------------------------------------------------------------
(* Properties *)

\* The variables have their types, and an exchange has a profile to switch to.
TypeOK ==
  /\ manager \in BOOLEAN /\ due \in BOOLEAN /\ exchange \in BOOLEAN /\ failed \in BOOLEAN
  /\ profiles \in Seq(Ids) /\ Len(profiles) <= MaxProfiles
  /\ current \in 1 .. IF profiles = <<>> THEN 1 ELSE Len(profiles)
  /\ recorded \in {PrefixOf[id] : id \in Ids} \cup {NoRecord}
  /\ exchange => manager /\ Len(profiles) >= 2

\* The last record is of the profile in use, unless the last exchange failed or
\* is under way, or there was none since the manager was configured: a failure
\* leaves the manager ahead of the record until a later rotation succeeds, and
\* nothing else makes them differ (esim.rs:114-123, main.rs:147-178, 270-282).
RecordFollows ==
  manager /\ ~exchange /\ ~failed => recorded = PrefixOf[profiles[current]]

\* A rotation that is due is carried out, by the scheduler if nobody asks for
\* it, however many exchanges fail, unless one never ends: the mutex is held
\* while the answer of the socket's other end is awaited (esim.rs:176-186).
DueIsRotated ==
  []<>(~exchange) => (manager /\ Len(profiles) > 1 /\ due ~> ~(manager /\ Len(profiles) > 1 /\ due))
=============================================================================
