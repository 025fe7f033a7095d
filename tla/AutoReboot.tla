------------------------------ MODULE AutoReboot ------------------------------
(***************************************************************************)
(* services/auto-reboot-daemon-rs: the scheduler loop (run_scheduler), the *)
(* reboot sequence (perform_reboot), the control socket (handle_control)   *)
(* with its manual triggers, and the wall-clock arithmetic that picks the  *)
(* next reboot (seconds_until_next_reboot).                                *)
(*                                                                         *)
(* The daemon reads the UTC clock (main.rs:291-299), so that is the clock  *)
(* of the model: the second within the week, of days that are DaySecs      *)
(* long, with Sunday's midnight as 0.  The clock on the owner's wall is    *)
(* UtcOffset ahead of it.  A task whose timer has run out takes its step   *)
(* before the clock moves on; requests arrive at any moment.               *)
(***************************************************************************)
EXTENDS Naturals

CONSTANTS
  DaySecs,       \* seconds of a day (86400)
  UtcOffset,     \* seconds of a day that local time is ahead of UTC
  Window,        \* maintenance_window_secs
  ShutdownWait,  \* SHUTDOWN_WAIT_SECS (10)
  TriggerDelay,  \* delay of a manual trigger (2)
  Schedules,     \* schedules the file may hold when the daemon starts
  Triggers       \* manual triggers, each spawns a task of its own

WeekSecs == 7 * DaySecs

ASSUME TimingAssumption ==
  /\ DaySecs \in Nat \ {0}
  /\ UtcOffset \in Nat
  /\ Window \in Nat
  /\ ShutdownWait \in Nat \ {0}
  /\ TriggerDelay \in Nat \ {0}

\* hour, minute and day_of_week are read from the file as they are: nothing
\* keeps them within a day and a week.
ASSUME ScheduleAssumption ==
  \A s \in Schedules :
    /\ s.enabled \in BOOLEAN
    /\ s.frequency \in {"daily", "weekly"}
    /\ s.at \in Nat
    /\ s.dow \in Nat

VARIABLES
  now,        \* UTC clock within the week
  up,         \* the system runs; reboot(2) ends that
  schedule,   \* the schedule loaded at start
  sched,      \* where the scheduler task is
  timer,      \* seconds until its sleep ends
  remaining,  \* its local countdown
  pending,    \* RebootState.pending
  countdown,  \* RebootState.countdown_secs
  cancelled,  \* RebootState.cancelled
  manual,     \* the tasks spawned by TriggerNow
  (* History, read by properties only: *)
  announced,  \* seconds since the current countdown was announced
  acked,      \* whether "reboot cancelled" was answered in this round, and when
  failed      \* a reboot(2) of the scheduler has failed since the start

vars == <<now, up, schedule, sched, timer, remaining, pending, countdown,
          cancelled, manual, announced, acked, failed>>

-----------------------------------------------------------------------------
(* seconds_until_next_reboot *)

DayOfWeek(t) == (t \div DaySecs) % 7

TimeOfDay(t) == t % DaySecs

\* What the owner's clock shows; the code never asks.
LocalTimeOfDay(t) == TimeOfDay(t + UtcOffset)

\* Faulty: the distance is measured to today's HH:MM even when it has passed.
UntilTodaysTime(at, t) ==
  LET passed == TimeOfDay(t) IN
  IF at > passed THEN at - passed ELSE passed - at + 1

\* Until the next HH:MM, at least a second; at most a day if HH:MM is a time of
\* day, while an hour from 24 on leads into a later day.
UntilTimeOfDay(at, t) ==
  LET passed == TimeOfDay(t) IN
  IF at > passed THEN at - passed ELSE (DaySecs - passed) + at

\* For weekly the days until the configured day are added, whether or not
\* today's HH:MM has passed.
SecondsUntil(s, t) ==
  LET today == UntilTimeOfDay(s.at, t)
      days == (s.dow + 7 - DayOfWeek(t)) % 7 IN
  IF s.frequency = "daily" THEN today
  ELSE IF days = 0 /\ today < DaySecs THEN today
  ELSE IF days = 0 THEN 7 * DaySecs + today
  ELSE days * DaySecs + today

-----------------------------------------------------------------------------
(* run_scheduler *)

\* Faulty: a round that did not reboot ends the loop.
SleepsForever(s) == sched' = "off" /\ timer' = 0

\* The top of the loop; a disabled schedule never gets there.
Sleeps(s) ==
  /\ sched' = IF s.enabled THEN "sleeping" ELSE "off"
  /\ timer' = IF s.enabled THEN SecondsUntil(s, now) ELSE 0

\* Enters perform_reboot: SIGTERM to all, then a wait.
Terminates ==
  /\ sched' = "terminating"
  /\ timer' = ShutdownWait

\* The sleep ends: the reboot is announced, an earlier cancel is forgotten.
Announce ==
  /\ up /\ sched = "sleeping" /\ timer = 0
  /\ pending' = TRUE
  /\ countdown' = Window
  /\ remaining' = Window
  /\ cancelled' = FALSE
  /\ IF Window > 0 THEN sched' = "counting" /\ timer' = 1 ELSE Terminates
  /\ announced' = 0
  /\ acked' = "no"
  /\ UNCHANGED <<now, up, schedule, manual, failed>>

\* Faulty: the last second of the window is not waited for.
LastCheckEarly(left) == left <= 1

\* Faulty: the countdown goes on for one more check after its last second.
LastCheckLate(left) == left < 0

\* The countdown is over.
LastCheck(left) == left = 0

\* A cancel that is seen takes the announcement back.
PendingAfterCancel == FALSE

\* Faulty: a cancel is only looked at while seconds remain.
SeesCancelBeforeLast(left) == cancelled /\ left > 0

\* Every check looks at the flag, the last one included.
SeesCancel(left) == cancelled

\* One second of the countdown: the flag is read once, under the lock.
CountdownCheck ==
  LET left == remaining - 1 IN
  /\ up /\ sched = "counting" /\ timer = 0
  /\ remaining' = left
  /\ countdown' = left
  /\ IF SeesCancel(left)
       THEN /\ pending' = PendingAfterCancel
            /\ Sleeps(schedule)
       ELSE /\ pending' = pending
            /\ IF LastCheck(left) THEN Terminates
               ELSE sched' = "counting" /\ timer' = 1
  /\ UNCHANGED <<now, up, schedule, cancelled, manual, announced, acked, failed>>

\* perform_reboot reaches reboot(2) and it succeeds.
RebootSucceeds ==
  /\ up /\ sched = "terminating" /\ timer = 0
  /\ up' = FALSE
  /\ UNCHANGED <<now, schedule, sched, timer, remaining, pending, countdown,
                 cancelled, manual, announced, acked, failed>>

\* It fails: logged only, the loop goes round with the record as it is.
RebootFails ==
  /\ up /\ sched = "terminating" /\ timer = 0
  /\ Sleeps(schedule)
  /\ failed' = TRUE
  /\ UNCHANGED <<now, up, schedule, remaining, pending, countdown, cancelled,
                 manual, announced, acked>>

-----------------------------------------------------------------------------
(* handle_control; status requests read only *)

\* While a reboot is pending the request is recorded and answered "reboot
\* cancelled"; otherwise it is answered "no reboot pending".
Cancel ==
  /\ up
  /\ pending
  /\ cancelled' = TRUE
  /\ acked' = IF sched = "counting" THEN "in_time" ELSE "late"
  /\ UNCHANGED <<now, up, schedule, sched, timer, remaining, pending,
                 countdown, manual, announced, failed>>

Unused == [pc |-> "unused", timer |-> 0]

\* A task is spawned that will reboot; the record does not know of it.
TriggerNow(m) ==
  /\ up
  /\ manual[m].pc = "unused"
  /\ manual' = [manual EXCEPT ![m] = [pc |-> "delayed", timer |-> TriggerDelay]]
  /\ UNCHANGED <<now, up, schedule, sched, timer, remaining, pending, countdown,
                 cancelled, announced, acked, failed>>

\* Its delay is over: perform_reboot.
ManualTerminates(m) ==
  /\ up
  /\ manual[m] = [pc |-> "delayed", timer |-> 0]
  /\ manual' = [manual EXCEPT ![m] = [pc |-> "terminating", timer |-> ShutdownWait]]
  /\ UNCHANGED <<now, up, schedule, sched, timer, remaining, pending, countdown,
                 cancelled, announced, acked, failed>>

ManualReboot(m) ==
  /\ up
  /\ manual[m] = [pc |-> "terminating", timer |-> 0]
  /\ \/ up' = FALSE /\ UNCHANGED manual
     \/ up' = up /\ manual' = [manual EXCEPT ![m] = Unused]
  /\ UNCHANGED <<now, schedule, sched, timer, remaining, pending, countdown,
                 cancelled, announced, acked, failed>>

-----------------------------------------------------------------------------
(* Start and clock *)

\* main(): the schedule is read again, nothing else survives.
Boot ==
  /\ ~up
  /\ up' = TRUE
  /\ schedule' \in Schedules
  /\ Sleeps(schedule')
  /\ remaining' = 0
  /\ pending' = FALSE
  /\ countdown' = 0
  /\ cancelled' = FALSE
  /\ manual' = [m \in Triggers |-> Unused]
  /\ announced' = 0
  /\ acked' = "no"
  /\ failed' = FALSE
  /\ UNCHANGED now

TasksWait ==
  /\ sched = "off" \/ timer > 0
  /\ \A m \in Triggers : manual[m].pc = "unused" \/ manual[m].timer > 0

TimePasses ==
  /\ up
  /\ TasksWait
  /\ now' = (now + 1) % WeekSecs
  /\ timer' = IF sched = "off" THEN 0 ELSE timer - 1
  /\ manual' = [m \in Triggers |->
       IF manual[m].pc = "unused" THEN Unused ELSE [manual[m] EXCEPT !.timer = @ - 1]]
  /\ announced' = IF sched = "counting" THEN announced + 1 ELSE announced
  /\ UNCHANGED <<up, schedule, sched, remaining, pending, countdown, cancelled,
                 acked, failed>>

Init ==
  /\ now \in 0..(WeekSecs - 1)
  /\ up = TRUE
  /\ schedule \in Schedules
  /\ sched = IF schedule.enabled THEN "sleeping" ELSE "off"
  /\ timer = IF schedule.enabled THEN SecondsUntil(schedule, now) ELSE 0
  /\ remaining = 0
  /\ pending = FALSE
  /\ countdown = 0
  /\ cancelled = FALSE
  /\ manual = [m \in Triggers |-> Unused]
  /\ announced = 0
  /\ acked = "no"
  /\ failed = FALSE

SchedulerStep == Announce \/ CountdownCheck \/ RebootSucceeds \/ RebootFails

ManualStep == \E m \in Triggers : ManualTerminates(m) \/ ManualReboot(m)

Next ==
  \/ SchedulerStep
  \/ ManualStep
  \/ Cancel
  \/ \E m \in Triggers : TriggerNow(m)
  \/ Boot
  \/ TimePasses

\* Timers expire and the tasks they wake run.  Requests need never come, and
\* a machine that went down need not come back.
Fairness ==
  /\ WF_vars(SchedulerStep)
  /\ WF_vars(ManualStep)
  /\ WF_vars(TimePasses)

Spec == Init /\ [][Next]_vars

FairSpec == Spec /\ Fairness

-----------------------------------------------------------------------------
(* Properties *)

\* The variables have their types, and while the scheduler counts down the
\* shared record shows its local countdown.
TypeOK ==
  /\ now \in 0..(WeekSecs - 1)
  /\ up \in BOOLEAN
  /\ schedule \in Schedules
  /\ sched \in {"off", "sleeping", "counting", "terminating"}
  /\ timer \in Nat
  /\ remaining \in 0..Window
  /\ countdown = remaining
  /\ pending \in BOOLEAN
  /\ cancelled \in BOOLEAN
  /\ manual \in [Triggers -> [pc : {"unused", "delayed", "terminating"}, timer : Nat]]
  /\ announced \in 0..Window
  /\ acked \in {"no", "in_time", "late"}
  /\ failed \in BOOLEAN
  /\ sched = "counting" => pending /\ remaining > 0

\* A cancel that was answered while the countdown ran is never followed by
\* that round's reboot, even one answered just before the last check.
CancelInTimeIsHonoured ==
  sched = "terminating" => acked # "in_time"

\* The scheduler begins to terminate processes only after the whole
\* maintenance window has passed since it announced the reboot.
WholeWindowIsGiven ==
  sched = "terminating" => announced = Window

\* Whenever the scheduler sleeps, it will wake at the configured time of day in
\* UTC, whatever cancel, failed reboot or start it went to sleep from; a daily
\* schedule with a time within the day never skips a day.  The owner's clock
\* then shows UtcOffset more than what was configured, although main.rs:26
\* documents the hour as local time ("production would use local time",
\* main.rs:297).
WakesAtTimeOfDay ==
  sched = "sleeping" =>
    /\ TimeOfDay(now + timer) = TimeOfDay(schedule.at)
    /\ LocalTimeOfDay(now + timer) = TimeOfDay(schedule.at + UtcOffset)
    /\ schedule.frequency = "daily" /\ schedule.at < DaySecs => timer <= DaySecs

\* Status shows a pending reboot only in a round that is under way, or after
\* a reboot(2) that failed (whose record nobody takes back).
PendingIsUnderWay ==
  pending /\ ~failed => sched \in {"counting", "terminating"}

\* A cancel or a failed reboot skips one round, never the rounds after it:
\* under an enabled schedule the scheduler comes to another round again and
\* again, as long as the system stays up.
RoundsKeepComing ==
  []<>(sched \in {"counting", "terminating"} \/ ~schedule.enabled \/ ~up)

\* Seconds until the scheduler reaches reboot(2), if it sees no cancel.
UntilReboot ==
  CASE sched = "sleeping" -> timer + Window + ShutdownWait
    [] sched = "counting" -> timer + (remaining - 1) + ShutdownWait
    [] OTHER -> timer

\* A day, or as far as a time beyond it leads; for weekly schedules seven more.
LongestSleep(s) ==
  (IF s.at > DaySecs THEN s.at ELSE DaySecs)
    + IF s.frequency = "daily" THEN 0 ELSE 7 * DaySecs

LongestWait == LongestSleep(schedule) + Window + ShutdownWait

\* An enabled scheduler is never more than its longest sleep and the time of a round
\* away from its next reboot(2); every second brings it one nearer, and nothing
\* takes it away again but a cancel that is seen in the countdown, a reboot(2) that
\* failed and a new start, whatever requests and manual triggers come
\* (main.rs:118-161).
RebootIsDue ==
  /\ [](schedule.enabled => sched # "off" /\ UntilReboot <= LongestWait)
  /\ [][schedule.enabled /\ TimePasses => UntilReboot' = UntilReboot - 1]_vars
  /\ [][schedule.enabled /\ UntilReboot' > UntilReboot =>
          (cancelled /\ CountdownCheck) \/ RebootFails \/ Boot]_vars

\* main.rs:255 answers "reboot cancelled": the round it was answered in does
\* not go on to terminate processes and reboot.
AnsweredCancelIsHonoured ==
  sched = "terminating" => acked = "no"

\* main.rs:30 defines the weekly schedule by its day ("For weekly: day of week
\* 0=Sun..6=Sat"): a weekly scheduler sleeps until that day.
WeeklyWakesOnItsDay ==
  sched = "sleeping" /\ schedule.frequency = "weekly"
    => DayOfWeek(now + timer) = schedule.dow % 7
=============================================================================
