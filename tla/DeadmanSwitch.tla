---------------------------- MODULE DeadmanSwitch ----------------------------
(***************************************************************************)
(* services/deadman-switch-rs: the switch (switch.rs) behind one mutex,    *)
(* the background task that ticks it once per period, the socket handlers, *)
(* the `rm -rf` child that carries out the wipe, and the daemon's crashes  *)
(* and restarts (main.rs).                                                 *)
(*                                                                         *)
(* Time is a count of units; the switch reads only how long ago the last   *)
(* heartbeat was, so that is the variable.  The tokio interval bursts: a   *)
(* tick that was missed stays due and is delivered as soon as the task     *)
(* runs.  The lock is held while the child runs (main.rs:73-80): no        *)
(* handler runs meanwhile, but the ticks keep coming due, and a child that *)
(* fails late leaves all of them behind, to be taken in one burst.  With   *)
(* the lock free the task is never more than MaxDue ticks late, and takes  *)
(* a longer burst before another tick comes due.                           *)
(* Rejected heartbeats, status requests and parse errors change nothing of *)
(* the switch; the first is kept because the owner may be the sender.      *)
(***************************************************************************)
EXTENDS Naturals

CONSTANTS
  Configs,     \* DeadmanConfig values that can be in force
  EnvConfig,   \* the one read from the environment at every start
  SettingsDb,  \* the settings path execute_wipe removes with the keys
  Period,      \* units between two ticks of the background task (60 s)
  MaxDue,      \* ticks the task may be late by while the lock is free
  MaxBurst,    \* most ticks a wipe leaves behind that are told apart
  MaxSilence   \* longest silence told apart

Tokens == {c.token : c \in Configs}
Intervals == {c.interval : c \in Configs}
Paths == {c.path : c \in Configs} \cup {SettingsDb}

ASSUME ConfigAssumption ==
  /\ EnvConfig \in Configs
  /\ \A c \in Configs :
       /\ DOMAIN c = {"interval", "warning", "token", "path"}
       /\ c.interval \in Nat /\ c.warning \in Nat

ASSUME TimeAssumption ==
  /\ Period \in Nat \ {0}
  /\ MaxDue \in Nat \ {0}
  /\ MaxBurst \in Nat /\ MaxBurst >= MaxDue
  /\ MaxSilence \in Nat /\ MaxSilence >= 3 * Period
  /\ \A c \in Configs : c.interval <= MaxSilence

VARIABLES
  alive,    \* the daemon process runs
  state,    \* SwitchState
  elapsed,  \* units since last_heartbeat
  cfg,      \* the switch's configuration
  phase,    \* units since the interval's last tick became due
  due,      \* ticks due and not yet taken by background_tick
  wiping,   \* background_tick holds the lock and awaits the rm child
  erased,   \* paths the rm child has removed
  (* The owner's view, read by properties only: *)
  owner,    \* configuration last acknowledged to the owner
  checkin,  \* units since the owner last checked in with its token
  notice    \* units since the switch left the active state

vars == <<alive, state, elapsed, cfg, phase, due, wiping, erased,
          owner, checkin, notice>>

Stages == {"active", "warning", "locked", "wipe_pending"}

Capped(n) == IF n <= MaxSilence THEN n ELSE MaxSilence

-----------------------------------------------------------------------------
(* switch.rs *)

\* saturating_sub: past the deadline nothing remains.
SecondsRemaining ==
  IF elapsed <= cfg.interval THEN cfg.interval - elapsed ELSE 0

\* Faulty: the warning stage escalates without waiting for the deadline.
NextStageIgnoresDeadline ==
  CASE state = "active" /\ SecondsRemaining <= cfg.warning -> "warning"
    [] state = "warning" -> "locked"
    [] state = "locked" -> "wipe_pending"
    [] OTHER -> state

\* Faulty: a locked device waits for a confirmation that no request carries.
NextStageStaysLocked ==
  CASE state = "active" /\ SecondsRemaining <= cfg.warning -> "warning"
    [] state = "warning" /\ SecondsRemaining = 0 -> "locked"
    [] OTHER -> state

\* Faulty: an active switch found past its deadline is locked at once.
NextStageSkipsWarning ==
  CASE state = "active" /\ SecondsRemaining = 0 -> "locked"
    [] state = "active" /\ SecondsRemaining <= cfg.warning -> "warning"
    [] state = "warning" /\ SecondsRemaining = 0 -> "locked"
    [] state = "locked" -> "wipe_pending"
    [] OTHER -> state

\* The state after one tick: one stage at most, and locked never waits.
NextStage ==
  CASE state = "active" /\ SecondsRemaining <= cfg.warning -> "warning"
    [] state = "warning" /\ SecondsRemaining = 0 -> "locked"
    [] state = "locked" -> "wipe_pending"
    [] OTHER -> state

\* A heartbeat or a new configuration leads back to active from any stage.
RenewedStage == "active"

\* Timer and stage as heartbeat() and reconfigure() leave them.
RenewTimer ==
  /\ elapsed' = 0
  /\ state' = RenewedStage
  /\ notice' = 0

\* What one run of execute_wipe removes.
WipeTargets == {cfg.path, SettingsDb}

-----------------------------------------------------------------------------
(* main.rs: socket handlers, each atomic under the lock *)

LockFree == alive /\ ~wiping

\* Heartbeat with a token: accepted when it equals the configured one.
Heartbeat(token) ==
  /\ LockFree
  /\ IF token = cfg.token
       THEN RenewTimer
       ELSE UNCHANGED <<elapsed, state, notice>>
  /\ checkin' = IF token = owner.token THEN 0 ELSE checkin
  /\ UNCHANGED <<alive, cfg, phase, due, wiping, erased, owner>>

\* Configure needs no token; omitted fields keep their value, so any member
\* of Configs may result.
Configure(c) ==
  /\ LockFree
  /\ cfg' = c
  /\ RenewTimer
  /\ owner' = c
  /\ checkin' = 0
  /\ UNCHANGED <<alive, phase, due, wiping, erased>>

-----------------------------------------------------------------------------
(* main.rs: background_tick, and the child of execute_wipe *)

\* Faulty: the wipe starts one stage early.
LaunchesWipeEarly(stage) == stage \in {"locked", "wipe_pending"}

\* Faulty: the wipe is started on entering the stage only, never retried.
LaunchesWipeOnce(stage) == stage = "wipe_pending" /\ state # "wipe_pending"

\* Every tick that ends in WipePending runs the wipe, a retry included.
LaunchesWipe(stage) == stage = "wipe_pending"

\* One round of the loop up to the await of the child.
Tick ==
  /\ LockFree
  /\ due > 0
  /\ due' = due - 1
  /\ state' = NextStage
  /\ wiping' = LaunchesWipe(NextStage)
  /\ UNCHANGED <<alive, elapsed, cfg, phase, erased, owner, checkin, notice>>

\* The child removes its targets one at a time.
RmRemoves(p) ==
  /\ wiping
  /\ p \in WipeTargets \ erased
  /\ erased' = erased \cup {p}
  /\ UNCHANGED <<alive, state, elapsed, cfg, phase, due, wiping,
                 owner, checkin, notice>>

\* It succeeds when all are gone: the process exits.
WipeSucceeds ==
  /\ wiping
  /\ WipeTargets \subseteq erased
  /\ wiping' = FALSE
  /\ alive' = FALSE
  /\ UNCHANGED <<state, elapsed, cfg, phase, due, erased, owner, checkin, notice>>

\* It fails, before or after removing some: the error is logged, the lock
\* released, and the next tick tries again.
WipeFails ==
  /\ wiping
  /\ wiping' = FALSE
  /\ UNCHANGED <<alive, state, elapsed, cfg, phase, due, erased,
                 owner, checkin, notice>>

-----------------------------------------------------------------------------
(* The process and the clock *)

\* The process ends at any point; init kills the child with its service.
Crash ==
  /\ alive
  /\ alive' = FALSE
  /\ wiping' = FALSE
  /\ UNCHANGED <<state, elapsed, cfg, phase, due, erased, owner, checkin, notice>>

\* main(): nothing is persisted, so a start is a fresh switch with the
\* environment's configuration.  The first tick of an interval is immediate.
Restart ==
  /\ ~alive
  /\ alive' = TRUE
  /\ cfg' = EnvConfig
  /\ elapsed' = 0
  /\ state' = "active"
  /\ notice' = 0
  /\ phase' = 0
  /\ due' = 1
  /\ UNCHANGED <<wiping, erased, owner, checkin>>

\* One unit passes for a running daemon, and with the last one of a period a
\* tick comes due.  With the lock free that waits until fewer than MaxDue are
\* outstanding; while the child runs nothing takes them, and they pile up.
TimePasses ==
  LET wraps == phase + 1 = Period IN
  /\ alive
  /\ wraps /\ ~wiping => due < MaxDue
  /\ phase' = IF wraps THEN 0 ELSE phase + 1
  /\ due' = IF wraps /\ due < MaxBurst THEN due + 1 ELSE due
  /\ elapsed' = Capped(elapsed + 1)
  /\ checkin' = Capped(checkin + 1)
  /\ notice' = IF state = "active" THEN 0 ELSE Capped(notice + 1)
  /\ UNCHANGED <<alive, state, cfg, wiping, erased, owner>>

\* While the daemon is down only the owner's clock runs.
DowntimePasses ==
  /\ ~alive
  /\ checkin' = Capped(checkin + 1)
  /\ UNCHANGED <<alive, state, elapsed, cfg, phase, due, wiping, erased,
                 owner, notice>>

-----------------------------------------------------------------------------
Init ==
  /\ alive = TRUE
  /\ state = "active"
  /\ elapsed = 0
  /\ cfg = EnvConfig
  /\ phase = 0
  /\ due = 1
  /\ wiping = FALSE
  /\ erased = {}
  /\ owner = EnvConfig
  /\ checkin = 0
  /\ notice = 0

RmStep == \E p \in Paths : RmRemoves(p)

Next ==
  \/ \E token \in Tokens : Heartbeat(token)
  \/ \E c \in Configs : Configure(c)
  \/ Tick
  \/ RmStep
  \/ WipeSucceeds
  \/ WipeFails
  \/ Crash
  \/ Restart
  \/ TimePasses
  \/ DowntimePasses

\* The tokio timer fires, the task it wakes runs, and a child process runs
\* to its end.  Nothing is assumed of clients, of crashes or of init.
Fairness ==
  /\ WF_vars(TimePasses)
  /\ WF_vars(Tick)
  /\ WF_vars(RmStep)
  /\ WF_vars(WipeSucceeds)

Spec == Init /\ [][Next]_vars

FairSpec == Spec /\ Fairness

-----------------------------------------------------------------------------
(* Properties *)

\* The variables have their types, and a child only runs for a live daemon
\* whose switch is in its last stage (main.rs:75).
TypeOK ==
  /\ alive \in BOOLEAN
  /\ state \in Stages
  /\ elapsed \in 0..MaxSilence
  /\ cfg \in Configs
  /\ phase \in 0..(Period - 1)
  /\ due \in 0..MaxBurst
  /\ wiping \in BOOLEAN
  /\ erased \in SUBSET Paths
  /\ owner \in Configs
  /\ checkin \in 0..MaxSilence
  /\ notice \in 0..MaxSilence
  /\ wiping => alive /\ state = "wipe_pending"

\* The daemon keeps the promise: a wipe removes data only while the whole
\* configured interval has gone by since the last accepted heartbeat,
\* configuration or start, whatever ticks, failures and requests came between.
Promise == INSTANCE DeadmanPromise WITH
  Limits <- Intervals, Erasable <- Paths,
  silence <- elapsed, limit <- cfg.interval

KeepsPromise == Promise!Spec

\* An owner whose configuration is the one in force is not wiped within its
\* interval after a check-in, across crashes, restarts and rejected
\* heartbeats.  (A restart that falls back to another configuration is the
\* case left out: the owner's token is then refused.)
CheckInRespected ==
  wiping /\ cfg = owner => checkin >= cfg.interval

\* MaxDue + 3 periods after the deadline a running daemon is in the stage that
\* wipes: three ticks (tick() moves one stage at a time) of which the last MaxDue
\* may be late.
WipeIsTimely ==
  alive /\ elapsed >= cfg.interval + (MaxDue + 3) * Period
    => state = "wipe_pending"

\* Ticks left behind by a failed wipe are taken within a period of the renewal
\* that follows it: a warning that starts later than that meets none of them.
WarnsAfterBurst(c) == c.warning + Period <= c.interval

\* Where the warning starts at least a period after a renewal, the owner has
\* had two things before the child starts, less what late ticks take away:
\* more than two periods of warning and locked stages, less MaxDue of them,
\* and the warning time of the configuration, less MaxDue + 1 periods.
\* With a shorter interval the code promises no notice at all: the ticks a
\* failed wipe left behind lead a renewed switch from active to the next wipe in
\* an instant.
NoticeBeforeWipe ==
  wiping /\ WarnsAfterBurst(cfg) =>
    /\ notice + MaxDue * Period > 2 * Period
    /\ notice + (MaxDue + 1) * Period > cfg.warning

\* Once nobody renews the switch, no crash comes and the child no longer
\* fails, the daemon completes a wipe and exits.  Failed wipes are retried.
SilenceLeadsToWipe ==
  <>[][Tick \/ RmStep \/ WipeSucceeds \/ TimePasses]_vars => <>[]~alive
=============================================================================
