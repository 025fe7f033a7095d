--------------------------- MODULE AutoReboot_proofs ---------------------------
(***************************************************************************)
(* Theorems about AutoReboot for every maintenance window, day length,     *)
(* delay, set of schedules and number of manual triggers.                  *)
(***************************************************************************)
EXTENDS AutoReboot, TLAPS

\* The second the scheduler waits for is the only part of the window that is
\* neither announced yet nor still to be counted.
WindowIsCounted ==
  /\ sched = "counting" =>
       /\ timer \in 0..1
       /\ announced + (remaining - 1) + timer = Window
  /\ sched = "terminating" => announced = Window

\* A cancel answered in this countdown is in the record until it is seen.
CancelIsRecorded ==
  /\ sched = "counting" /\ acked = "in_time" => cancelled
  /\ sched = "terminating" => acked # "in_time"

OffMeansDisabled == sched = "off" => ~schedule.enabled /\ timer = 0

Inv == TypeOK /\ WindowIsCounted /\ CancelIsRecorded /\ OffMeansDisabled /\ PendingIsUnderWay

-----------------------------------------------------------------------------
(* seconds_until_next_reboot *)

\* The distance to the next HH:MM is a second at least and a day at most, or as
\* far as an HH:MM beyond the day leads.
LEMMA TodayRange ==
  ASSUME NEW at \in Nat, NEW t \in Nat
  PROVE  /\ UntilTimeOfDay(at, t) \in Nat
         /\ UntilTimeOfDay(at, t) <= IF at > DaySecs THEN at ELSE DaySecs
         /\ at < DaySecs => UntilTimeOfDay(at, t) <= DaySecs
<1>1. DaySecs \in Nat /\ DaySecs > 0
  BY TimingAssumption
<1> DEFINE passed == t % DaySecs
<1>2. passed \in 0..(DaySecs - 1)
  BY <1>1
<1> HIDE DEF passed
<1>3. UntilTimeOfDay(at, t) = IF at > passed THEN at - passed ELSE (DaySecs - passed) + at
  BY DEF UntilTimeOfDay, TimeOfDay, passed
<1> QED BY <1>1, <1>2, <1>3

\* Every sleep has a length.
LEMMA SleepRange ==
  ASSUME NEW s \in Schedules, NEW t \in Nat
  PROVE  SecondsUntil(s, t) \in Nat
<1>1. s.at \in Nat /\ s.dow \in Nat
  BY ScheduleAssumption
<1> DEFINE today == UntilTimeOfDay(s.at, t)
           days == (s.dow + 7 - DayOfWeek(t)) % 7
<1>2. DaySecs \in Nat /\ DaySecs > 0
  BY TimingAssumption
<1>3. today \in Nat
  BY <1>1, TodayRange
<1>4. days \in Nat
  <2>1. t \div DaySecs \in Nat
    BY <1>2
  <2>2. DayOfWeek(t) \in 0..6
    BY <2>1 DEF DayOfWeek
  <2> QED BY <1>1, <2>2
<1> HIDE DEF today, days
<1>5. days * DaySecs \in Nat
  BY <1>2, <1>4
<1>6. SecondsUntil(s, t) \in {today, 7 * DaySecs + today, days * DaySecs + today}
  BY DEF SecondsUntil, today, days
<1> QED BY <1>2, <1>3, <1>5, <1>6

\* Where the top of the loop leaves the scheduler.
LEMMA SleepsRange ==
  ASSUME NEW s \in Schedules, now \in Nat, Sleeps(s)
  PROVE  /\ sched' \in {"off", "sleeping"} /\ timer' \in Nat
         /\ sched' = "off" => ~s.enabled /\ timer' = 0
BY SleepRange DEF Sleeps

\* Whole days added to a moment leave its time of day alone.
LEMMA WholeDays ==
  ASSUME NEW D \in Nat \ {0}, NEW t \in Nat, NEW k \in Nat
  PROVE  (t + k * D) % D = t % D
<1> DEFINE q == t \div D
           r == t % D
<1>1. q \in Nat /\ r \in 0..(D - 1) /\ t = D * q + r
  OBVIOUS
<1> HIDE DEF q, r
<1>2. t + k * D = D * (q + k) + r
  BY <1>1
<1> DEFINE n == q + k
<1>3. n \in Nat /\ t + k * D = D * n + r
  BY <1>1, <1>2
<1> HIDE DEF n
<1>4. (D * n + r) % D = r
  BY <1>1, <1>3
<1> QED BY <1>3, <1>4 DEF r

\* Moments at the same time of day stay so when both are moved as far.
LEMMA MovedAlike ==
  ASSUME NEW D \in Nat \ {0}, NEW t \in Nat, NEW a \in Nat, NEW o \in Nat,
         t % D = a % D
  PROVE  (t + o) % D = (a + o) % D
<1> DEFINE r == a % D
           u == r + o
           q == t \div D
           p == a \div D
<1>1. q \in Nat /\ p \in Nat /\ r \in Nat /\ t = D * q + r /\ a = D * p + r
  OBVIOUS
<1>2. u \in Nat
  BY <1>1
<1> HIDE DEF q, p, r
<1>3. t + o = u + q * D /\ a + o = u + p * D
  BY <1>1
<1> HIDE DEF u
<1>4. (u + q * D) % D = u % D /\ (u + p * D) % D = u % D
  BY <1>1, <1>2, WholeDays
<1> QED BY <1>3, <1>4

\* The distance to the next HH:MM ends at HH:MM.
LEMMA TodayLands ==
  ASSUME NEW at \in Nat, NEW t \in Nat
  PROVE  (t + UntilTimeOfDay(at, t)) % DaySecs = at % DaySecs
<1>1. DaySecs \in Nat \ {0}
  BY TimingAssumption
<1> DEFINE q == t \div DaySecs
           r == t % DaySecs
<1>2. q \in Nat /\ r \in 0..(DaySecs - 1) /\ t = DaySecs * q + r
  BY <1>1
<1>3. UntilTimeOfDay(at, t) = IF at > r THEN at - r ELSE (DaySecs - r) + at
  BY DEF UntilTimeOfDay, TimeOfDay
<1> HIDE DEF q, r
<1>4. CASE at > r
  <2>1. t + UntilTimeOfDay(at, t) = at + q * DaySecs
    BY <1>1, <1>2, <1>3, <1>4
  <2> QED BY <1>1, <1>2, <2>1, WholeDays
<1>5. CASE ~(at > r)
  <2> DEFINE n == q + 1
  <2>1. n \in Nat /\ t + UntilTimeOfDay(at, t) = at + n * DaySecs
    BY <1>1, <1>2, <1>3, <1>5
  <2> HIDE DEF n
  <2> QED BY <1>1, <2>1, WholeDays
<1> QED BY <1>4, <1>5

\* Every sleep ends at the configured time of day, a daily one within a day if
\* that is a time of day.
LEMMA SleepLands ==
  ASSUME NEW s \in Schedules, NEW t \in Nat
  PROVE  /\ (t + SecondsUntil(s, t)) % DaySecs = s.at % DaySecs
         /\ s.frequency = "daily" /\ s.at < DaySecs => SecondsUntil(s, t) <= DaySecs
<1>1. s.at \in Nat /\ s.dow \in Nat
  BY ScheduleAssumption
<1>2. DaySecs \in Nat \ {0}
  BY TimingAssumption
<1> DEFINE today == UntilTimeOfDay(s.at, t)
           days == (s.dow + 7 - DayOfWeek(t)) % 7
<1>3. /\ today \in Nat /\ (t + today) % DaySecs = s.at % DaySecs
      /\ s.at < DaySecs => today <= DaySecs
  <2> HIDE DEF today
  <2>1. today = UntilTimeOfDay(s.at, t)
    BY DEF today
  <2> QED BY <1>1, <2>1, TodayRange, TodayLands
<1>4. days \in Nat
  <2>1. t \div DaySecs \in Nat
    BY <1>2
  <2>2. DayOfWeek(t) \in 0..6
    BY <2>1 DEF DayOfWeek
  <2> QED BY <1>1, <2>2
<1>5. /\ s.frequency = "daily" => SecondsUntil(s, t) = today
      /\ SecondsUntil(s, t) \in {today, 7 * DaySecs + today, days * DaySecs + today}
  BY DEF SecondsUntil
<1> HIDE DEF today, days
<1>6. PICK k \in Nat : SecondsUntil(s, t) = k * DaySecs + today
  <2>1. today = 0 * DaySecs + today
    BY <1>2, <1>3
  <2> QED BY <1>4, <1>5, <2>1
<1> DEFINE u == t + today
<1>7. u \in Nat /\ t + SecondsUntil(s, t) = u + k * DaySecs
  <2>1. k * DaySecs \in Nat
    BY <1>2
  <2> QED BY <1>3, <1>6, <2>1
<1>8. (u + k * DaySecs) % DaySecs = u % DaySecs
  BY <1>2, <1>7, WholeDays
<1> QED BY <1>2, <1>3, <1>5, <1>7, <1>8

LEMMA WeekRange == WeekSecs \in Nat /\ WeekSecs > 0
BY TimingAssumption DEF WeekSecs

-----------------------------------------------------------------------------

LEMMA InitInv == Init => Inv
<1> SUFFICES ASSUME Init PROVE Inv
  OBVIOUS
<1>1. now \in Nat /\ timer \in Nat
  BY SleepRange, WeekRange DEF Init
<1>2. TypeOK
  <2>1. now \in 0..(WeekSecs - 1) /\ remaining \in 0..Window /\ announced \in 0..Window
    BY TimingAssumption DEF Init
  <2>2. up \in BOOLEAN /\ pending \in BOOLEAN /\ cancelled \in BOOLEAN /\ failed \in BOOLEAN
    BY DEF Init
  <2>3. manual \in [Triggers -> [pc : {"unused", "delayed", "terminating"}, timer : Nat]]
    BY DEF Init, Unused
  <2>4. /\ sched \in {"off", "sleeping"} /\ countdown = remaining /\ acked = "no"
        /\ schedule \in Schedules
    BY DEF Init
  <2> QED BY <1>1, <2>1, <2>2, <2>3, <2>4 DEF TypeOK
<1>3. WindowIsCounted /\ CancelIsRecorded /\ OffMeansDisabled /\ PendingIsUnderWay
  BY DEF Init, WindowIsCounted, CancelIsRecorded, OffMeansDisabled, PendingIsUnderWay
<1> QED BY <1>2, <1>3 DEF Inv

LEMMA StepInv == Inv /\ [Next]_vars => Inv'
<1> SUFFICES ASSUME Inv, [Next]_vars PROVE Inv'
  OBVIOUS
<1> USE DEF Inv
<1>1. /\ now \in Nat /\ Window \in Nat /\ ShutdownWait \in Nat /\ TriggerDelay \in Nat
      /\ now \in 0..(WeekSecs - 1)
  BY TimingAssumption, WeekRange DEF TypeOK
<1>2. CASE Announce
  <2>1. TypeOK'
    <3>1. /\ timer' \in Nat /\ sched' \in {"counting", "terminating"}
          /\ sched' = "counting" => remaining' > 0
      BY <1>1, <1>2 DEF Announce, Terminates
    <3>2. remaining' \in 0..Window /\ countdown' = remaining' /\ announced' \in 0..Window
      BY <1>1, <1>2 DEF Announce
    <3>3. /\ up' \in BOOLEAN /\ pending' /\ pending' \in BOOLEAN
          /\ cancelled' \in BOOLEAN /\ failed' \in BOOLEAN
      BY <1>2 DEF Announce, TypeOK
    <3>4. UNCHANGED <<now, schedule, manual>> /\ acked' = "no"
      BY <1>2 DEF Announce
    <3> QED BY <3>1, <3>2, <3>3, <3>4 DEF TypeOK
  <2>2. WindowIsCounted' /\ CancelIsRecorded' /\ OffMeansDisabled' /\ PendingIsUnderWay'
    BY <1>1, <1>2 DEF Announce, Terminates, WindowIsCounted, CancelIsRecorded,
                      OffMeansDisabled, PendingIsUnderWay, TypeOK
  <2> QED BY <2>1, <2>2
<1>3. CASE CountdownCheck
  <2>1. /\ sched = "counting" /\ timer = 0 /\ remaining \in 1..Window
        /\ announced + (remaining - 1) = Window /\ remaining' = remaining - 1
        /\ countdown' = remaining - 1
    BY <1>1, <1>3 DEF CountdownCheck, WindowIsCounted, TypeOK
  <2>2. CASE cancelled
    <3>1. pending' = FALSE /\ Sleeps(schedule)
      BY <1>3, <2>2 DEF CountdownCheck, SeesCancel, PendingAfterCancel
    <3>2. /\ sched' \in {"off", "sleeping"} /\ timer' \in Nat
          /\ sched' = "off" => ~schedule.enabled /\ timer' = 0
      BY <1>1, <3>1, SleepsRange DEF TypeOK
    <3>3. TypeOK'
      <4>1. pending' \in BOOLEAN
        BY <3>1
      <4>2. remaining' \in 0..Window /\ countdown' = remaining'
        BY <1>1, <2>1
      <4>3. UNCHANGED <<now, up, schedule, cancelled, manual, announced, acked, failed>>
        BY <1>3 DEF CountdownCheck
      <4> QED BY <3>2, <4>1, <4>2, <4>3 DEF TypeOK
    <3>4. WindowIsCounted' /\ CancelIsRecorded' /\ PendingIsUnderWay'
      BY <3>1, <3>2 DEF WindowIsCounted, CancelIsRecorded, PendingIsUnderWay
    <3>5. OffMeansDisabled'
      BY <1>3, <3>2 DEF CountdownCheck, OffMeansDisabled
    <3> QED BY <3>3, <3>4, <3>5
  <2>3. CASE ~cancelled
    <3>1. /\ pending' = pending
          /\ IF remaining - 1 = 0 THEN Terminates ELSE sched' = "counting" /\ timer' = 1
      BY <1>3, <2>3 DEF CountdownCheck, SeesCancel, LastCheck
    <3>2. TypeOK'
      BY <1>1, <1>3, <2>1, <3>1 DEF CountdownCheck, Terminates, TypeOK
    <3>3. WindowIsCounted' /\ CancelIsRecorded' /\ OffMeansDisabled' /\ PendingIsUnderWay'
      BY <1>1, <1>3, <2>1, <2>3, <3>1
         DEF CountdownCheck, Terminates, TypeOK, WindowIsCounted, CancelIsRecorded,
             OffMeansDisabled, PendingIsUnderWay
    <3> QED BY <3>2, <3>3
  <2> QED BY <2>2, <2>3 DEF TypeOK
<1>4. CASE RebootSucceeds
  BY <1>4 DEF RebootSucceeds, TypeOK, WindowIsCounted, CancelIsRecorded,
              OffMeansDisabled, PendingIsUnderWay
<1>5. CASE RebootFails
  <2>1. /\ sched' \in {"off", "sleeping"} /\ timer' \in Nat
        /\ sched' = "off" => ~schedule.enabled /\ timer' = 0
    BY <1>1, <1>5, SleepsRange DEF RebootFails, TypeOK
  <2> QED BY <1>5, <2>1 DEF RebootFails, TypeOK, WindowIsCounted, CancelIsRecorded,
                            OffMeansDisabled, PendingIsUnderWay
<1>6. CASE Cancel
  BY <1>6 DEF Cancel, TypeOK, WindowIsCounted, CancelIsRecorded,
              OffMeansDisabled, PendingIsUnderWay
<1>7. ASSUME NEW m \in Triggers, TriggerNow(m) \/ ManualTerminates(m) \/ ManualReboot(m)
      PROVE  Inv'
  <2>1. /\ up' \in BOOLEAN
        /\ manual' \in [Triggers -> [pc : {"unused", "delayed", "terminating"}, timer : Nat]]
    <3>1. /\ [pc |-> "delayed", timer |-> TriggerDelay] \in
               [pc : {"unused", "delayed", "terminating"}, timer : Nat]
          /\ [pc |-> "terminating", timer |-> ShutdownWait] \in
               [pc : {"unused", "delayed", "terminating"}, timer : Nat]
          /\ Unused \in [pc : {"unused", "delayed", "terminating"}, timer : Nat]
      BY <1>1 DEF Unused
    <3>2. up' \in BOOLEAN
      BY <1>7 DEF TriggerNow, ManualTerminates, ManualReboot, TypeOK
    <3>3. \/ manual' = manual
          \/ \E r \in [pc : {"unused", "delayed", "terminating"}, timer : Nat] :
               manual' = [manual EXCEPT ![m] = r]
      BY <1>7, <3>1 DEF TriggerNow, ManualTerminates, ManualReboot
    <3> QED BY <3>2, <3>3 DEF TypeOK
  <2>2. UNCHANGED <<now, schedule, sched, timer, remaining, pending, countdown,
                    cancelled, announced, acked, failed>>
    BY <1>7 DEF TriggerNow, ManualTerminates, ManualReboot
  <2> QED BY <2>1, <2>2 DEF TypeOK, WindowIsCounted, CancelIsRecorded,
                            OffMeansDisabled, PendingIsUnderWay
<1>8. CASE Boot
  <2>1. /\ sched' \in {"off", "sleeping"} /\ timer' \in Nat
        /\ sched' = "off" => ~schedule'.enabled /\ timer' = 0
    BY <1>1, <1>8, SleepRange DEF Boot, Sleeps
  <2>2. TypeOK'
    <3>1. /\ up' \in BOOLEAN /\ pending' = FALSE /\ cancelled' \in BOOLEAN /\ failed' \in BOOLEAN
          /\ acked' = "no" /\ schedule' \in Schedules /\ now' = now
      BY <1>8 DEF Boot
    <3>2. remaining' \in 0..Window /\ countdown' = remaining' /\ announced' \in 0..Window
      BY <1>1, <1>8 DEF Boot
    <3>3. manual' \in [Triggers -> [pc : {"unused", "delayed", "terminating"}, timer : Nat]]
      BY <1>8 DEF Boot, Unused
    <3> QED BY <1>1, <2>1, <3>1, <3>2, <3>3 DEF TypeOK
  <2>3. pending' = FALSE
    BY <1>8 DEF Boot
  <2> QED BY <2>1, <2>2, <2>3 DEF WindowIsCounted, CancelIsRecorded, OffMeansDisabled,
                                  PendingIsUnderWay
<1>9. CASE TimePasses
  <2>1. now' \in 0..(WeekSecs - 1)
    BY <1>1, <1>9, WeekRange DEF TimePasses
  <2>2. timer' \in Nat /\ (sched = "counting" => timer = 1 /\ announced + remaining = Window)
    BY <1>1, <1>9 DEF TimePasses, TasksWait, WindowIsCounted, TypeOK
  <2>3. manual' \in [Triggers -> [pc : {"unused", "delayed", "terminating"}, timer : Nat]]
    BY <1>9 DEF TimePasses, TasksWait, Unused, TypeOK
  <2>4. announced' \in 0..Window
    BY <1>1, <1>9, <2>2 DEF TimePasses, TypeOK
  <2>5. TypeOK'
    BY <1>9, <2>1, <2>2, <2>3, <2>4 DEF TimePasses, TypeOK
  <2>6. WindowIsCounted' /\ CancelIsRecorded' /\ OffMeansDisabled' /\ PendingIsUnderWay'
    BY <1>1, <1>9, <2>2 DEF TimePasses, TypeOK, WindowIsCounted, CancelIsRecorded,
                            OffMeansDisabled, PendingIsUnderWay
  <2> QED BY <2>5, <2>6
<1>10. CASE UNCHANGED vars
  BY <1>10 DEF vars, TypeOK, WindowIsCounted, CancelIsRecorded, OffMeansDisabled,
               PendingIsUnderWay
<1> QED BY <1>2, <1>3, <1>4, <1>5, <1>6, <1>7, <1>8, <1>9, <1>10
        DEF Next, SchedulerStep, ManualStep

\* The strengthened invariant holds throughout.
THEOREM Invariance == Spec => []Inv
<1> QED BY InitInv, StepInv, PTL DEF Spec

\* The variables keep their types and status always shows the countdown.
THEOREM TypeCorrect == Spec => []TypeOK
<1>1. Inv => TypeOK
  BY DEF Inv
<1> QED BY <1>1, Invariance, PTL

\* A cancel answered while the countdown ran stops that round's reboot.
THEOREM CancelIsHonoured == Spec => []CancelInTimeIsHonoured
<1>1. Inv => CancelInTimeIsHonoured
  BY DEF Inv, CancelIsRecorded, CancelInTimeIsHonoured
<1> QED BY <1>1, Invariance, PTL

\* Nothing is terminated before the whole maintenance window has passed.
THEOREM WindowIsGiven == Spec => []WholeWindowIsGiven
<1>1. Inv => WholeWindowIsGiven
  BY DEF Inv, WindowIsCounted, WholeWindowIsGiven
<1> QED BY <1>1, Invariance, PTL

\* A pending reboot is shown only while its round is under way, or after a
\* failed reboot(2).
THEOREM PendingIsTrue == Spec => []PendingIsUnderWay
<1>1. Inv => PendingIsUnderWay
  BY DEF Inv
<1> QED BY <1>1, Invariance, PTL

\* The wake-up on the clock that the code reads.
WakesInUtc ==
  sched = "sleeping" =>
    /\ (now + timer) % DaySecs = schedule.at % DaySecs
    /\ schedule.frequency = "daily" /\ schedule.at < DaySecs => timer <= DaySecs

\* The wake-up stays put as time passes: no action but a new sleep moves it.
LEMMA StepWakes == Inv /\ WakesInUtc /\ [Next]_vars => WakesInUtc'
<1> SUFFICES ASSUME Inv, WakesInUtc, [Next]_vars, sched' = "sleeping"
             PROVE  /\ (now' + timer') % DaySecs = schedule'.at % DaySecs
                    /\ schedule'.frequency = "daily" /\ schedule'.at < DaySecs
                         => timer' <= DaySecs
  BY DEF WakesInUtc
<1>1. /\ now \in Nat /\ timer \in Nat /\ schedule \in Schedules
      /\ DaySecs \in Nat \ {0} /\ now \in 0..(WeekSecs - 1)
  BY TimingAssumption, WeekRange DEF Inv, TypeOK
<1>2. ASSUME Sleeps(schedule), UNCHANGED <<now, schedule>>
      PROVE  /\ (now' + timer') % DaySecs = schedule'.at % DaySecs
             /\ schedule'.frequency = "daily" /\ schedule'.at < DaySecs
                  => timer' <= DaySecs
  <2>1. timer' = SecondsUntil(schedule, now)
    BY <1>2 DEF Sleeps
  <2> QED BY <1>1, <1>2, <2>1, SleepLands
<1>3. CASE UNCHANGED <<now, timer, sched, schedule>>
  BY <1>3 DEF WakesInUtc
<1>4. CASE Announce
  BY <1>4 DEF Announce, Terminates
<1>5. CASE CountdownCheck
  <2>1. Sleeps(schedule) /\ UNCHANGED <<now, schedule>>
    BY <1>5 DEF CountdownCheck, Terminates
  <2> QED BY <1>2, <2>1
<1>6. CASE RebootSucceeds
  BY <1>3, <1>6 DEF RebootSucceeds
<1>7. CASE RebootFails
  <2>1. Sleeps(schedule) /\ UNCHANGED <<now, schedule>>
    BY <1>7 DEF RebootFails
  <2> QED BY <1>2, <2>1
<1>8. CASE ManualStep \/ Cancel \/ \E m \in Triggers : TriggerNow(m)
  BY <1>3, <1>8 DEF ManualStep, ManualTerminates, ManualReboot, TriggerNow, Cancel
<1>9. CASE Boot
  <2>1. /\ schedule' \in Schedules /\ now' = now
        /\ timer' = SecondsUntil(schedule', now)
    BY <1>9 DEF Boot, Sleeps
  <2> QED BY <1>1, <2>1, SleepLands
<1>10. CASE TimePasses
  <2>1. /\ sched = "sleeping" /\ timer > 0 /\ timer' = timer - 1
        /\ now' = (now + 1) % WeekSecs /\ schedule' = schedule
    BY <1>1, <1>10 DEF TimePasses, TasksWait
  <2>2. /\ (now + timer) % DaySecs = schedule.at % DaySecs
        /\ schedule.frequency = "daily" /\ schedule.at < DaySecs => timer <= DaySecs
    BY <2>1 DEF WakesInUtc
  <2>3. CASE now + 1 < WeekSecs
    <3>1. now' = now + 1
      BY <1>1, <2>1, <2>3, WeekRange
    <3> QED BY <1>1, <2>1, <2>2, <3>1
  <2>4. CASE now + 1 = WeekSecs
    <3>1. now' = 0
      BY <2>1, <2>4, WeekRange
    <3>2. now + timer = timer' + 7 * DaySecs
      BY <1>1, <2>1, <2>4 DEF WeekSecs
    <3> DEFINE left == timer'
    <3>3. left \in Nat /\ left = timer'
      BY <1>1, <2>1
    <3> HIDE DEF left
    <3>4. (left + 7 * DaySecs) % DaySecs = left % DaySecs
      BY <1>1, <3>3, WholeDays
    <3>5. left % DaySecs = schedule.at % DaySecs
      BY <2>2, <3>2, <3>3, <3>4
    <3>6. now' + timer' = left
      <4>1. timer' \in Nat /\ 0 + timer' = timer'
        BY <1>1, <2>1
      <4> QED BY <3>1, <3>3, <4>1
    <3>7. schedule.frequency = "daily" /\ schedule.at < DaySecs => timer' <= DaySecs
      BY <1>1, <2>1, <2>2
    <3> QED BY <2>1, <3>5, <3>6, <3>7
  <2> QED BY <1>1, <2>3, <2>4, WeekRange
<1>11. CASE UNCHANGED vars
  BY <1>3, <1>11 DEF vars
<1> QED BY <1>4, <1>5, <1>6, <1>7, <1>8, <1>9, <1>10, <1>11 DEF Next, SchedulerStep

\* The scheduler always wakes at the configured time of day in UTC, when the
\* owner's clock shows UtcOffset more, and a daily schedule with a time within the
\* day never skips one, for every day length, offset and schedule.
THEOREM WakesOnTime == Spec => []WakesAtTimeOfDay
<1>1. Init => WakesInUtc
  <2> SUFFICES ASSUME Init, sched = "sleeping" PROVE WakesInUtc
    BY DEF WakesInUtc
  <2>1. now \in Nat /\ schedule \in Schedules /\ timer = SecondsUntil(schedule, now)
    BY WeekRange DEF Init
  <2> QED BY <2>1, SleepLands DEF WakesInUtc
<1>2. Inv /\ WakesInUtc /\ [Next]_vars => WakesInUtc'
  BY StepWakes
<1>3. Inv /\ WakesInUtc => WakesAtTimeOfDay
  <2> SUFFICES ASSUME Inv, WakesInUtc, sched = "sleeping" PROVE WakesAtTimeOfDay
    BY DEF WakesAtTimeOfDay
  <2> DEFINE t == now + timer
             a == schedule.at
  <2>1. t \in Nat /\ a \in Nat /\ t % DaySecs = a % DaySecs
    BY WeekRange, ScheduleAssumption DEF Inv, TypeOK, WakesInUtc
  <2> HIDE DEF t, a
  <2>2. DaySecs \in Nat \ {0} /\ UtcOffset \in Nat
    BY TimingAssumption
  <2>3. (t + UtcOffset) % DaySecs = (a + UtcOffset) % DaySecs
    BY ONLY <2>1, <2>2, MovedAlike
  <2> QED BY <2>1, <2>3 DEF WakesInUtc, WakesAtTimeOfDay, TimeOfDay, LocalTimeOfDay, t, a
<1> QED BY <1>1, <1>2, <1>3, Invariance, PTL DEF Spec

-----------------------------------------------------------------------------
(* The next reboot *)

\* No sleep is longer than the schedule's longest.
LEMMA SleepIsShort ==
  ASSUME NEW s \in Schedules, NEW t \in Nat
  PROVE  SecondsUntil(s, t) <= LongestSleep(s) /\ LongestSleep(s) \in Nat
<1>1. s.at \in Nat /\ s.dow \in Nat /\ DaySecs \in Nat \ {0}
  BY ScheduleAssumption, TimingAssumption
<1> DEFINE today == UntilTimeOfDay(s.at, t)
           days == (s.dow + 7 - DayOfWeek(t)) % 7
           far == IF s.at > DaySecs THEN s.at ELSE DaySecs
<1>2. today \in Nat /\ today <= far /\ far \in Nat
  BY <1>1, TodayRange
<1>3. days \in 0..6
  <2>1. t \div DaySecs \in Nat
    BY <1>1
  <2>2. DayOfWeek(t) \in 0..6
    BY <2>1 DEF DayOfWeek
  <2> QED BY <1>1, <2>2
<1>4. /\ s.frequency = "daily" => SecondsUntil(s, t) = today
      /\ SecondsUntil(s, t) \in {today, 7 * DaySecs + today, days * DaySecs + today}
      /\ LongestSleep(s) = far + IF s.frequency = "daily" THEN 0 ELSE 7 * DaySecs
  BY DEF SecondsUntil, LongestSleep
<1> HIDE DEF today, days, far
<1>5. days * DaySecs \in 0 .. 6 * DaySecs
  <2>1. days \in {0, 1, 2, 3, 4, 5, 6}
    BY <1>3
  <2> QED BY <1>1, <2>1
<1>6. SecondsUntil(s, t) <= far + 7 * DaySecs
  BY <1>1, <1>2, <1>4, <1>5
<1> QED BY <1>1, <1>2, <1>4, <1>6

\* Where the scheduler is, as its distance from reboot(2) reads it.
LEMMA Places ==
  ASSUME Inv
  PROVE  /\ Window \in Nat /\ ShutdownWait \in Nat /\ DaySecs \in Nat /\ timer \in Nat
         /\ remaining \in Nat /\ schedule \in Schedules /\ now \in Nat
         /\ sched \in {"off", "sleeping", "counting", "terminating"}
         /\ sched = "off" => ~schedule.enabled
         /\ sched = "counting" => remaining > 0
BY TimingAssumption, WeekRange DEF Inv, TypeOK, OffMeansDisabled

\* A second that passes brings reboot(2) a second nearer.
LEMMA ClockNearer ==
  ASSUME Inv, TimePasses, schedule.enabled
  PROVE  UntilReboot' = UntilReboot - 1
<1>1. timer > 0 /\ timer' = timer - 1 /\ UNCHANGED <<sched, remaining>>
  BY Places DEF TimePasses, TasksWait
<1> QED BY <1>1, Places DEF UntilReboot

\* The steps between two seconds leave it where it is, or begin a sleep.
LEMMA StepFarther ==
  ASSUME Inv, [Next]_vars, schedule.enabled
  PROVE  \/ UntilReboot' <= UntilReboot /\ schedule' = schedule
         \/ /\ (cancelled /\ CountdownCheck) \/ RebootFails \/ Boot
            /\ schedule' \in Schedules /\ Sleeps(schedule')
<1>1. UntilReboot \in Nat
  BY Places DEF UntilReboot
<1>2. ASSUME UNCHANGED <<sched, timer, remaining, schedule>>
      PROVE  UntilReboot' <= UntilReboot /\ schedule' = schedule
  <2>1. UntilReboot' = UntilReboot
    BY <1>2 DEF UntilReboot
  <2> QED BY <1>1, <1>2, <2>1
<1>3. CASE TimePasses
  BY <1>1, <1>3, ClockNearer DEF TimePasses
<1>4. CASE RebootSucceeds
  BY <1>2, <1>4 DEF RebootSucceeds
<1>5. CASE ManualStep
  BY <1>2, <1>5 DEF ManualStep, ManualTerminates, ManualReboot
<1>6. ASSUME Cancel \/ (\E m \in Triggers : TriggerNow(m)) \/ UNCHANGED vars
      PROVE  UNCHANGED <<sched, timer, remaining, schedule>>
  BY <1>6 DEF Cancel, TriggerNow, vars
<1>7. CASE Announce
  <2>1. /\ sched = "sleeping" /\ timer = 0 /\ remaining' = Window /\ schedule' = schedule
        /\ IF Window > 0 THEN sched' = "counting" /\ timer' = 1
           ELSE sched' = "terminating" /\ timer' = ShutdownWait
    BY <1>7 DEF Announce, Terminates
  <2>2. UntilReboot = Window + ShutdownWait
    BY <2>1, Places DEF UntilReboot
  <2>3. UntilReboot' = Window + ShutdownWait
    BY <2>1, Places DEF UntilReboot
  <2> QED BY <1>1, <2>1, <2>2, <2>3
<1>8. CASE CountdownCheck
  <2>1. /\ sched = "counting" /\ timer = 0 /\ remaining' = remaining - 1 /\ schedule' = schedule
        /\ IF cancelled THEN Sleeps(schedule)
           ELSE IF remaining - 1 = 0 THEN sched' = "terminating" /\ timer' = ShutdownWait
           ELSE sched' = "counting" /\ timer' = 1
    BY <1>8 DEF CountdownCheck, Terminates, SeesCancel, LastCheck
  <2>2. CASE cancelled
    BY <1>8, <2>1, <2>2, Places
  <2>3. CASE ~cancelled
    <3>1. UntilReboot = (remaining - 1) + ShutdownWait
      BY <2>1, Places DEF UntilReboot
    <3>2. UntilReboot' = (remaining - 1) + ShutdownWait
      BY <2>1, <2>3, Places DEF UntilReboot
    <3> QED BY <1>1, <2>1, <3>1, <3>2
  <2> QED BY <2>2, <2>3
<1>9. CASE RebootFails
  BY <1>9, Places DEF RebootFails
<1>10. CASE Boot
  BY <1>10 DEF Boot
<1> QED BY <1>2, <1>3, <1>4, <1>5, <1>6, <1>7, <1>8, <1>9, <1>10 DEF Next, SchedulerStep

InTime == schedule.enabled => UntilReboot <= LongestWait

\* A sleep that begins is short enough.
LEMMA SleepsInTime ==
  ASSUME now \in Nat, schedule' \in Schedules, now' = now, Sleeps(schedule')
  PROVE  InTime'
<1>1. schedule'.enabled => sched' = "sleeping" /\ timer' = SecondsUntil(schedule', now)
  BY DEF Sleeps
<1>2. SecondsUntil(schedule', now) \in Nat
  BY SleepRange
<1>3. SecondsUntil(schedule', now) <= LongestSleep(schedule') /\ LongestSleep(schedule') \in Nat
  BY SleepIsShort
<1>4. Window \in Nat /\ ShutdownWait \in Nat /\ DaySecs \in Nat
  BY TimingAssumption
<1> DEFINE sleep == SecondsUntil(schedule', now)
<1> HIDE DEF sleep
<1> QED BY <1>1, <1>2, <1>3, <1>4 DEF InTime, UntilReboot, LongestWait

LEMMA InitInTime == Init => InTime
<1> SUFFICES ASSUME Init, schedule.enabled PROVE UntilReboot <= LongestWait
  BY DEF InTime
<1>1. /\ sched = "sleeping" /\ schedule \in Schedules /\ now \in Nat
      /\ timer = SecondsUntil(schedule, now)
  BY WeekRange DEF Init
<1>2. /\ timer \in Nat
      /\ timer <= LongestSleep(schedule) /\ LongestSleep(schedule) \in Nat
  BY <1>1, SleepRange, SleepIsShort
<1>3. Window \in Nat /\ ShutdownWait \in Nat /\ DaySecs \in Nat
  BY TimingAssumption
<1> QED BY <1>1, <1>2, <1>3 DEF UntilReboot, LongestWait

LEMMA StepInTime == Inv /\ InTime /\ [Next]_vars => InTime'
<1> SUFFICES ASSUME Inv, InTime, [Next]_vars, schedule'.enabled PROVE InTime'
  BY DEF InTime
<1>1. now \in Nat /\ Window \in Nat /\ ShutdownWait \in Nat /\ DaySecs \in Nat
  BY Places
<1>2. CASE Boot
  <2>1. schedule' \in Schedules /\ now' = now /\ Sleeps(schedule')
    BY <1>2 DEF Boot
  <2> QED BY <1>1, <2>1, SleepsInTime
<1>3. CASE ~Boot
  <2>1. schedule' = schedule
    BY <1>3 DEF Next, SchedulerStep, Announce, CountdownCheck, RebootSucceeds, RebootFails,
                ManualStep, ManualTerminates, ManualReboot, Cancel, TriggerNow, TimePasses, vars
  <2>2. CASE UntilReboot' <= UntilReboot
    <3>1. LongestWait' = LongestWait /\ LongestWait \in Nat
      <4>1. LongestSleep(schedule) \in Nat /\ LongestSleep(schedule') = LongestSleep(schedule)
        BY <1>1, <2>1, Places, SleepIsShort
      <4> QED BY <1>1, <4>1 DEF LongestWait
    <3>2. UntilReboot \in Nat /\ UntilReboot <= LongestWait
      BY <2>1, Places DEF InTime, UntilReboot
    <3>3. UntilReboot' <= LongestWait'
      <4>1. (timer \in Nat /\ remaining \in Nat /\ (sched = "counting" => remaining > 0))'
        BY StepInv, Places DEF Inv, TypeOK
      <4>2. UntilReboot' \in Nat
        BY <1>1, <4>1 DEF UntilReboot
      <4> QED BY <2>2, <3>1, <3>2, <4>2
    <3> QED BY <3>3 DEF InTime
  <2>3. CASE ~(UntilReboot' <= UntilReboot)
    <3>1. CountdownCheck \/ RebootFails
      BY <1>3, <2>1, <2>3, StepFarther
    <3>2. Sleeps(schedule') /\ schedule' \in Schedules
      BY <2>1, <2>3, StepFarther
    <3>3. now' = now
      BY <3>1 DEF CountdownCheck, RebootFails
    <3> QED BY <1>1, <3>2, <3>3, SleepsInTime
  <2> QED BY <2>2, <2>3
<1> QED BY <1>2, <1>3

\* For every window, day length and set of schedules: the next scheduled reboot is
\* at most the longest sleep and a round away, every second brings it nearer, and only
\* a cancel, a failure or a start puts it off.
THEOREM RebootComes == Spec => RebootIsDue
<1> DEFINE Due == schedule.enabled => sched # "off" /\ UntilReboot <= LongestWait
           Nearer == schedule.enabled /\ TimePasses => UntilReboot' = UntilReboot - 1
           NotPutOff == schedule.enabled /\ UntilReboot' > UntilReboot =>
                          (cancelled /\ CountdownCheck) \/ RebootFails \/ Boot
<1>1. Inv /\ InTime => Due
  BY DEF InTime, Inv, OffMeansDisabled
<1>2. Inv => Nearer
  BY ClockNearer
<1>3. Inv /\ Inv' /\ [Next]_vars => NotPutOff
  <2> SUFFICES ASSUME Inv, Inv', [Next]_vars, schedule.enabled, UntilReboot' > UntilReboot
               PROVE  (cancelled /\ CountdownCheck) \/ RebootFails \/ Boot
    OBVIOUS
  <2>1. UntilReboot \in Nat
    BY Places DEF UntilReboot
  <2>2. UntilReboot' \in Nat
    <3>1. (timer \in Nat /\ remaining \in Nat /\ (sched = "counting" => remaining > 0))' /\ Window \in Nat /\ ShutdownWait \in Nat
      BY TimingAssumption DEF Inv, TypeOK
    <3> QED BY <3>1 DEF UntilReboot
  <2>3. ~(UntilReboot' <= UntilReboot)
    BY <2>1, <2>2
  <2> QED BY <2>3, StepFarther
<1>4. Init => InTime
  BY InitInTime
<1>5. Inv /\ InTime /\ [Next]_vars => InTime'
  BY StepInTime
<1> HIDE DEF Due, Nearer, NotPutOff
<1>6. Spec => []Due /\ [][Nearer]_vars /\ [][NotPutOff]_vars
  BY <1>1, <1>2, <1>3, <1>4, <1>5, Invariance, PTL DEF Spec
<1> QED BY <1>6 DEF Due, Nearer, NotPutOff, RebootIsDue
=============================================================================
