------------------------- MODULE DeadmanSwitch_proofs -------------------------
(***************************************************************************)
(* Theorems about DeadmanSwitch for all configurations, periods and bounds *)
(* that satisfy its assumptions.                                           *)
(***************************************************************************)
EXTENDS DeadmanSwitch, TLAPS

\* A stage past the deadline is only reached, and kept, with the whole
\* interval elapsed.
LateStage ==
  alive /\ state \in {"locked", "wipe_pending"} => elapsed >= cfg.interval

\* The daemon's clock never runs ahead of the silence of an owner whose
\* configuration is in force.
ClockBehindOwner ==
  alive /\ cfg = owner => elapsed <= checkin

Inv == TypeOK /\ LateStage /\ ClockBehindOwner

-----------------------------------------------------------------------------

\* Capping keeps a count in range and is monotone.
LEMMA CappedRange ==
  ASSUME NEW n \in Nat
  PROVE  /\ Capped(n) \in 0..MaxSilence
         /\ Capped(n) <= n
         /\ \A m \in Nat : n <= m => Capped(n) <= Capped(m)
         /\ \A b \in Nat : b <= n /\ b <= MaxSilence => b <= Capped(n)
BY TimeAssumption DEF Capped

\* The interval and warning of a configuration are naturals within the cap.
LEMMA ConfigFields ==
  ASSUME NEW c \in Configs
  PROVE  c.interval \in Nat /\ c.warning \in Nat /\ c.interval <= MaxSilence
BY ConfigAssumption, TimeAssumption

LEMMA InitInv == Init => Inv
<1> SUFFICES ASSUME Init PROVE Inv
  OBVIOUS
<1>1. /\ elapsed \in 0..MaxSilence /\ checkin \in 0..MaxSilence
      /\ notice \in 0..MaxSilence
  BY TimeAssumption DEF Init
<1>2. phase \in 0..(Period - 1) /\ due \in 0..MaxBurst
  BY TimeAssumption DEF Init
<1>3. TypeOK
  BY <1>1, <1>2, ConfigAssumption DEF Init, TypeOK, Stages
<1>4. LateStage /\ ClockBehindOwner
  BY DEF Init, LateStage, ClockBehindOwner
<1> QED BY <1>3, <1>4 DEF Inv

\* Every step keeps the invariant.
LEMMA StepInv == Inv /\ [Next]_vars => Inv'
<1> SUFFICES ASSUME Inv, [Next]_vars PROVE Inv'
  OBVIOUS
<1> USE DEF Inv
<1>1. ASSUME NEW token \in Tokens, Heartbeat(token) PROVE Inv'
  <2>1. TypeOK'
    BY <1>1, TimeAssumption
       DEF Heartbeat, LockFree, RenewTimer, RenewedStage, TypeOK, Stages
  <2>2. LateStage'
    BY <1>1 DEF Heartbeat, LockFree, RenewTimer, RenewedStage, LateStage, TypeOK
  <2>3. ClockBehindOwner'
    BY <1>1 DEF Heartbeat, LockFree, RenewTimer, RenewedStage, ClockBehindOwner, TypeOK
  <2> QED BY <2>1, <2>2, <2>3
<1>2. ASSUME NEW c \in Configs, Configure(c) PROVE Inv'
  BY <1>2, TimeAssumption
     DEF Configure, LockFree, RenewTimer, RenewedStage, TypeOK, Stages,
         LateStage, ClockBehindOwner
<1>3. CASE Tick
  <2>1. NextStage \in Stages
    BY <1>3 DEF NextStage, TypeOK, Stages
  <2>2. NextStage \in {"locked", "wipe_pending"} => elapsed >= cfg.interval
    BY <1>3, ConfigFields DEF NextStage, SecondsRemaining, LateStage, Tick, LockFree, TypeOK
  <2>3. TypeOK'
    BY <1>3, <2>1, TimeAssumption DEF Tick, LockFree, LaunchesWipe, TypeOK
  <2>4. LateStage'
    BY <1>3, <2>2 DEF Tick, LateStage
  <2>5. ClockBehindOwner'
    BY <1>3 DEF Tick, ClockBehindOwner
  <2> QED BY <2>3, <2>4, <2>5
<1>4. CASE RmStep
  BY <1>4 DEF RmStep, RmRemoves, TypeOK, LateStage, ClockBehindOwner
<1>5. CASE WipeSucceeds
  BY <1>5 DEF WipeSucceeds, TypeOK, LateStage, ClockBehindOwner
<1>6. CASE WipeFails
  BY <1>6 DEF WipeFails, TypeOK, LateStage, ClockBehindOwner
<1>7. CASE Crash
  BY <1>7 DEF Crash, TypeOK, LateStage, ClockBehindOwner
<1>8. CASE Restart
  BY <1>8, ConfigAssumption, TimeAssumption
     DEF Restart, TypeOK, LateStage, ClockBehindOwner, Stages
<1>9. CASE TimePasses
  <2>1. /\ elapsed \in Nat /\ checkin \in Nat /\ notice \in Nat
        /\ elapsed <= MaxSilence
        /\ cfg.interval \in Nat /\ cfg.interval <= MaxSilence
    BY TimeAssumption, ConfigFields DEF TypeOK
  <2>2. /\ elapsed' = Capped(elapsed + 1)
        /\ checkin' = Capped(checkin + 1)
        /\ notice' \in {0, Capped(notice + 1)}
        /\ UNCHANGED <<alive, state, cfg, wiping, erased, owner>>
    BY <1>9 DEF TimePasses
  <2>3. /\ elapsed' \in 0..MaxSilence
        /\ checkin' \in 0..MaxSilence
        /\ notice' \in 0..MaxSilence
    BY <2>1, <2>2, CappedRange, TimeAssumption
  <2>4. /\ phase' \in 0..(Period - 1)
        /\ due' \in 0..MaxBurst
    BY <1>9, TimeAssumption DEF TimePasses, TypeOK
  <2>5. TypeOK'
    BY <2>2, <2>3, <2>4 DEF TypeOK
  <2>6. elapsed <= elapsed'
    BY <2>1, <2>2, CappedRange
  <2>7. LateStage'
    BY <2>1, <2>2, <2>3, <2>6 DEF LateStage
  <2>8. elapsed <= checkin => elapsed' <= checkin'
    <3>1. elapsed + 1 \in Nat /\ checkin + 1 \in Nat
      BY <2>1
    <3>2. elapsed <= checkin => elapsed + 1 <= checkin + 1
      BY <2>1
    <3> QED BY <2>2, <3>1, <3>2, CappedRange
  <2>9. ClockBehindOwner'
    BY <2>2, <2>8 DEF ClockBehindOwner
  <2> QED BY <2>5, <2>7, <2>9
<1>10. CASE DowntimePasses
  <2>1. checkin' \in 0..MaxSilence
    BY <1>10, CappedRange DEF DowntimePasses, TypeOK
  <2> QED BY <1>10, <2>1 DEF DowntimePasses, TypeOK, LateStage, ClockBehindOwner
<1>11. CASE UNCHANGED vars
  BY <1>11 DEF vars, TypeOK, LateStage, ClockBehindOwner
<1> QED
  BY <1>1, <1>2, <1>3, <1>4, <1>5, <1>6, <1>7, <1>8, <1>9, <1>10, <1>11 DEF Next

\* The inductive invariant holds throughout.
THEOREM Invariance == Spec => []Inv
BY InitInv, StepInv, PTL DEF Spec

\* Every variable keeps its type, and a wipe child only runs for a live
\* daemon in its last stage.
THEOREM TypeCorrect == Spec => []TypeOK
<1>1. Inv => TypeOK BY DEF Inv
<1> QED BY <1>1, Invariance, PTL

\* An owner whose configuration is in force is never wiped within its
\* interval after a check-in, across any crashes and restarts.
THEOREM CheckInIsRespected == Spec => []CheckInRespected
<1>1. Inv => CheckInRespected
  BY ConfigFields DEF Inv, TypeOK, LateStage, ClockBehindOwner, CheckInRespected
<1> QED BY <1>1, Invariance, PTL

-----------------------------------------------------------------------------
(* Ticks against time *)

\* Ticks that it takes from active to the stage.
Rank == CASE state = "active" -> 0
          [] state = "warning" -> 1
          [] state = "locked" -> 2
          [] OTHER -> 3

\* The time of so many periods.
Span(n) == n * Period

\* The ticks outstanding and those that moved the switch, in units of time.
TickTime == Span(due + Rank) + phase

\* A burst that a failed wipe left behind is met in the period of the renewal
\* only: no other tick comes due before it is taken.
BurstIsFresh ==
  alive /\ state # "wipe_pending" /\ due > MaxDue => elapsed <= phase

\* Past the deadline every period brings a tick, outstanding or moving the stage.
DeadlineInTicks ==
  alive /\ state # "wipe_pending" => elapsed <= cfg.interval + TickTime

\* The same of an active switch and the start of its warning.
WarningInTicks ==
  alive /\ state = "active" /\ WarnsAfterBurst(cfg) =>
    elapsed + cfg.warning <= cfg.interval + Span(due) + phase

\* A switch that left active past the burst had at most MaxDue - 1 ticks
\* outstanding then, and has got no more than one per period since.
NoticeInTicks ==
  alive =>
    /\ state = "active" => notice = 0
    /\ WarnsAfterBurst(cfg) =>
         /\ state \in {"warning", "locked"} =>
              due <= MaxDue /\ notice + Span(MaxDue + 1) > TickTime
         /\ state = "wipe_pending" => notice + Span(MaxDue) > 2 * Period

\* It left at most that late, and has counted the notice since.
NoticeSinceWarning ==
  alive /\ state # "active" /\ WarnsAfterBurst(cfg) =>
    elapsed + cfg.warning < cfg.interval + notice + Span(MaxDue + 1)

TickInv ==
  /\ BurstIsFresh
  /\ DeadlineInTicks
  /\ WarningInTicks
  /\ NoticeInTicks
  /\ NoticeSinceWarning

\* More ticks take more time.
LEMMA Spans == \A n \in Nat : /\ Span(n) \in Nat
                             /\ \A m \in Nat : n <= m => Span(n) <= Span(m)
<1> SUFFICES ASSUME NEW n \in Nat
             PROVE  Span(n) \in Nat /\ \A m \in Nat : n <= m => Span(n) <= Span(m)
  OBVIOUS
<1>1. Period \in Nat \ {0} /\ n * Period \in Nat
  BY TimeAssumption
<1>2. ASSUME NEW m \in Nat, n <= m PROVE n * Period <= m * Period
  <2>1. PICK k \in Nat : m = n + k
    <3>1. m - n \in Nat /\ m = n + (m - n)
      BY <1>2
    <3> QED BY <3>1
  <2>2. m * Period = n * Period + k * Period
    BY <1>1, <2>1
  <2>3. k * Period \in Nat
    BY <1>1
  <2> QED BY <1>1, <2>2, <2>3
<1> QED BY <1>1, <1>2 DEF Span

\* A tick is worth one period.
LEMMA OneMore == ASSUME NEW n \in Nat PROVE Span(n + 1) = Span(n) + Period
BY TimeAssumption DEF Span

LEMMA InitTicks == Init => TickInv
<1> SUFFICES ASSUME Init PROVE TickInv
  OBVIOUS
<1>1. EnvConfig.interval \in Nat /\ EnvConfig.warning \in Nat
  BY ConfigAssumption
<1>2. TickTime \in Nat /\ Span(due) \in Nat
  BY Spans DEF Init, TickTime, Rank
<1>3. MaxDue \in Nat \ {0} /\ Period \in Nat
  BY TimeAssumption
<1> QED
  BY <1>1, <1>2, <1>3
     DEF Init, TickInv, BurstIsFresh, DeadlineInTicks, WarningInTicks, NoticeInTicks,
         NoticeSinceWarning, WarnsAfterBurst

\* What the bounds say of is a natural.
LEMMA TickNumbers ==
  ASSUME TypeOK
  PROVE  /\ Rank \in 0..3 /\ TickTime \in Nat /\ elapsed \in Nat /\ notice \in Nat
         /\ due \in Nat /\ phase \in Nat /\ phase < Period
         /\ cfg.interval \in Nat /\ cfg.warning \in Nat
         /\ MaxDue \in Nat /\ MaxDue > 0 /\ Period \in Nat /\ Period > 0
         /\ Span(MaxDue + 1) \in Nat /\ Span(MaxDue) \in Nat /\ Span(due) \in Nat
<1>1. /\ Rank \in 0..3 /\ elapsed \in Nat /\ notice \in Nat
      /\ due \in Nat /\ phase \in Nat /\ phase < Period
      /\ cfg.interval \in Nat /\ cfg.warning \in Nat
      /\ MaxDue \in Nat /\ MaxDue > 0 /\ Period \in Nat /\ Period > 0
  BY TimeAssumption, ConfigFields DEF Rank, TypeOK
<1>2. /\ Span(due + Rank) \in Nat /\ Span(MaxDue + 1) \in Nat
      /\ Span(MaxDue) \in Nat /\ Span(due) \in Nat
  BY <1>1, Spans
<1> QED BY <1>1, <1>2 DEF TickTime

\* The same after a step.
LEMMA TickNumbersAfter ==
  ASSUME TypeOK'
  PROVE  /\ Rank' \in 0..3 /\ TickTime' \in Nat /\ elapsed' \in Nat /\ notice' \in Nat
         /\ due' \in Nat /\ phase' \in Nat /\ phase' < Period
         /\ cfg'.interval \in Nat /\ cfg'.warning \in Nat
         /\ Span(due') \in Nat
<1>1. /\ Rank' \in 0..3 /\ elapsed' \in Nat /\ notice' \in Nat
      /\ due' \in Nat /\ phase' \in Nat /\ phase' < Period
      /\ cfg'.interval \in Nat /\ cfg'.warning \in Nat
  BY TimeAssumption, ConfigFields DEF Rank, TypeOK
<1>2. Span(due' + Rank') \in Nat /\ Span(due') \in Nat
  BY <1>1, Spans
<1> QED BY <1>1, <1>2 DEF TickTime

\* A renewed switch is active with nothing elapsed.
LEMMA RenewedTicks ==
  ASSUME TypeOK', elapsed' = 0, state' = "active", notice' = 0
  PROVE  TickInv'
<1>1. WarnsAfterBurst(cfg') => cfg'.warning <= cfg'.interval
  BY TickNumbersAfter, TimeAssumption DEF WarnsAfterBurst
<1> QED
  BY <1>1, TickNumbersAfter
     DEF TickInv, BurstIsFresh, DeadlineInTicks, WarningInTicks, NoticeInTicks,
         NoticeSinceWarning

\* A tick that moves the stage on counts the same in either form; one that
\* leaves active past the burst is at most MaxDue late.
LEMMA MovingTick ==
  ASSUME TypeOK, TypeOK', TickInv, Tick, Rank' = Rank + 1
  PROVE  TickInv'
<1>1. /\ due' + 1 = due /\ due' \in Nat /\ phase' = phase /\ elapsed' = elapsed
      /\ notice' = notice /\ cfg' = cfg /\ state' = NextStage /\ alive
  BY TickNumbers DEF Tick, LockFree
<1>2. Rank \in Nat /\ state # "wipe_pending" /\ state' # "active"
  BY <1>1, TickNumbers DEF Rank, NextStage, TypeOK, Stages
<1>3. TickTime' = TickTime
  <2>1. due' + Rank' = due + Rank
    BY <1>1, <1>2
  <2> QED BY <1>1, <2>1 DEF TickTime
<1>4. BurstIsFresh'
  BY <1>1, <1>2, TickNumbers DEF BurstIsFresh, TickInv
<1>5. DeadlineInTicks'
  BY <1>1, <1>2, <1>3 DEF DeadlineInTicks, TickInv
<1>6. WarningInTicks'
  BY <1>2 DEF WarningInTicks
<1>7. CASE ~WarnsAfterBurst(cfg)
  BY <1>1, <1>2, <1>4, <1>5, <1>6, <1>7 DEF TickInv, NoticeInTicks, NoticeSinceWarning
<1>8. CASE WarnsAfterBurst(cfg) /\ state = "active"
  <2>1. notice = 0 /\ Rank = 0 /\ state' = "warning"
    BY <1>1, <1>2, <1>8 DEF TickInv, NoticeInTicks, Rank, NextStage
  <2>2. elapsed + cfg.warning >= cfg.interval
    BY <1>1, <1>8, <2>1, TickNumbers DEF NextStage, SecondsRemaining
  <2>3. due <= MaxDue
    BY <1>1, <1>2, <1>8, <2>2, TickNumbers DEF TickInv, BurstIsFresh, WarnsAfterBurst
  <2>4. TickTime = Span(due) + phase
    BY <2>1, TickNumbers DEF TickTime
  <2>5. Span(due) <= Span(MaxDue) /\ Span(MaxDue + 1) = Span(MaxDue) + Period
    BY <2>3, TickNumbers, Spans, OneMore
  <2>6. notice' + Span(MaxDue + 1) > TickTime'
    BY <1>1, <1>3, <2>1, <2>4, <2>5, TickNumbers
  <2>7. NoticeInTicks'
    BY <1>1, <2>1, <2>3, <2>6, TickNumbers DEF NoticeInTicks
  <2>8. elapsed + cfg.warning <= cfg.interval + Span(due) + phase
    BY <1>1, <1>8 DEF TickInv, WarningInTicks
  <2>9. elapsed + cfg.warning < cfg.interval + Span(MaxDue + 1)
    BY <2>5, <2>8, TickNumbers
  <2>10. NoticeSinceWarning'
    BY <1>1, <2>1, <2>9, TickNumbers DEF NoticeSinceWarning
  <2> QED BY <1>4, <1>5, <1>6, <2>7, <2>10 DEF TickInv
<1>9. CASE WarnsAfterBurst(cfg) /\ state # "active"
  <2>1. state \in {"warning", "locked"}
    BY <1>2, <1>9 DEF TypeOK, Stages
  <2>2. due <= MaxDue /\ notice + Span(MaxDue + 1) > TickTime
    BY <1>1, <1>9, <2>1 DEF TickInv, NoticeInTicks
  <2>3. state' = "wipe_pending" => notice + Span(MaxDue) > 2 * Period
    <3> SUFFICES ASSUME state' = "wipe_pending" PROVE notice + Span(MaxDue) > 2 * Period
      OBVIOUS
    <3>1. Rank = 2 /\ due + Rank >= 3
      BY <1>1, <2>1 DEF Rank, NextStage
    <3>2. Span(3) <= Span(due + Rank) /\ Span(due + Rank) \in Nat /\ Span(3) = 3 * Period
      BY <3>1, TickNumbers, Spans DEF Span
    <3>3. Span(MaxDue + 1) = Span(MaxDue) + Period
      BY TickNumbers, OneMore
    <3> QED BY <2>2, <3>2, <3>3, TickNumbers DEF TickTime
  <2>4. NoticeInTicks'
    BY <1>1, <1>2, <1>3, <2>2, <2>3, TickNumbers DEF NoticeInTicks
  <2>5. NoticeSinceWarning'
    BY <1>1, <1>9 DEF TickInv, NoticeSinceWarning
  <2> QED BY <1>4, <1>5, <1>6, <2>4, <2>5 DEF TickInv
<1> QED BY <1>7, <1>8, <1>9

\* A tick that leaves the stage comes before its time, or in the last one.
LEMMA RestingTick ==
  ASSUME TypeOK, TypeOK', TickInv, Tick, Rank' = Rank
  PROVE  TickInv'
<1>1. /\ due' + 1 = due /\ due' \in Nat /\ phase' = phase /\ elapsed' = elapsed
      /\ notice' = notice /\ cfg' = cfg /\ state' = NextStage /\ alive
  BY TickNumbers DEF Tick, LockFree
<1>2. state' = state
  BY <1>1 DEF Rank, NextStage, TypeOK, Stages
<1>3. Span(due' + Rank) + Period = Span(due + Rank)
  <2>1. due + Rank = (due' + Rank) + 1 /\ due' + Rank \in Nat
    BY <1>1, TickNumbers
  <2> QED BY <2>1, OneMore
<1>4. TickTime' + Period = TickTime
  <2>1. Span(due' + Rank) \in Nat /\ Span(due + Rank) \in Nat
    BY <1>1, TickNumbers, Spans
  <2> QED BY <1>1, <1>3, <2>1, TickNumbers DEF TickTime
<1>5. state # "wipe_pending" => elapsed <= cfg.interval
  <2>1. state # "wipe_pending" => state # "locked" /\ SecondsRemaining # 0
    BY <1>1, <1>2, TickNumbers DEF NextStage, SecondsRemaining, TypeOK, Stages
  <2> QED BY <2>1, TickNumbers DEF SecondsRemaining
<1>6. state = "active" => elapsed + cfg.warning <= cfg.interval
  BY <1>1, <1>2, TickNumbers DEF NextStage, SecondsRemaining
<1>7. BurstIsFresh'
  BY <1>1, <1>2, TickNumbers DEF BurstIsFresh, TickInv
<1>8. DeadlineInTicks'
  BY <1>1, <1>2, <1>5, TickNumbers, TickNumbersAfter DEF DeadlineInTicks
<1>9. WarningInTicks'
  BY <1>1, <1>2, <1>6, TickNumbers, TickNumbersAfter DEF WarningInTicks
<1>10. NoticeInTicks'
  BY <1>1, <1>2, <1>4, TickNumbers, TickNumbersAfter DEF NoticeInTicks, TickInv
<1>11. NoticeSinceWarning'
  BY <1>1, <1>2 DEF NoticeSinceWarning, TickInv
<1> QED BY <1>7, <1>8, <1>9, <1>10, <1>11 DEF TickInv

\* A tick leaves the stage or moves it on by one.
LEMMA TickTicks ==
  ASSUME TypeOK, TypeOK', TickInv, Tick
  PROVE  TickInv'
<1>1. Rank' = Rank \/ Rank' = Rank + 1
  BY DEF Tick, Rank, NextStage, TypeOK, Stages
<1> QED BY <1>1, MovingTick, RestingTick

\* A unit of time adds one to the ticks' time while the lock is free.
LEMMA TickTimePasses ==
  ASSUME TypeOK, TypeOK', TimePasses, ~wiping
  PROVE  /\ TickTime' = TickTime + 1
         /\ Span(due') + phase' = Span(due) + phase + 1
         /\ due' > MaxDue => due' = due /\ phase' = phase + 1
<1>1. Rank' = Rank
  BY DEF TimePasses, Rank
<1>2. CASE phase + 1 # Period
  <2>1. due' = due /\ phase' = phase + 1
    BY <1>2 DEF TimePasses
  <2>2. TickTime = Span(due + Rank) + phase /\ TickTime' = Span(due + Rank) + phase'
    BY <1>1, <2>1 DEF TickTime
  <2>3. Span(due + Rank) \in Nat
    BY TickNumbers, Spans
  <2> QED BY <2>1, <2>2, <2>3, TickNumbers
<1>3. CASE phase + 1 = Period
  <2>1. due < MaxDue
    BY <1>3 DEF TimePasses
  <2>2. due' = due + 1 /\ phase' = 0
    BY <1>3, <2>1, TickNumbers, TimeAssumption DEF TimePasses
  <2>3. due' + Rank = (due + Rank) + 1 /\ due + Rank \in Nat
    BY <2>2, TickNumbers
  <2>4. Span(due' + Rank) = Span(due + Rank) + Period /\ Span(due') = Span(due) + Period
    BY <2>2, <2>3, TickNumbers, OneMore
  <2>5. TickTime = Span(due + Rank) + phase /\ TickTime' = Span(due' + Rank) + phase'
    BY <1>1 DEF TickTime
  <2>6. Span(due + Rank) \in Nat
    BY <2>3, Spans
  <2> QED BY <1>3, <2>1, <2>2, <2>4, <2>5, <2>6, TickNumbers
<1> QED BY <1>2, <1>3

\* Both sides of each bound grow together, unless the notice is as large as it
\* is counted, and then it is large enough.
LEMMA TimeTicks ==
  ASSUME TypeOK, TypeOK', TickInv, TimePasses
  PROVE  TickInv'
<1>1. /\ alive /\ state' = state /\ cfg' = cfg /\ wiping' = wiping /\ Rank' = Rank
      /\ elapsed' = Capped(elapsed + 1)
      /\ notice' = IF state = "active" THEN 0 ELSE Capped(notice + 1)
  BY DEF TimePasses, Rank
<1>2. elapsed' <= elapsed + 1 /\ elapsed' <= MaxSilence
  BY <1>1, TickNumbers, CappedRange
<1>3. state # "active" => notice' = notice + 1 \/ notice' = MaxSilence
  BY <1>1 DEF Capped
<1>4. state # "active" => notice' >= notice
  BY <1>1, <1>3, TickNumbers, CappedRange DEF TypeOK
<1>5. MaxSilence \in Nat /\ MaxSilence >= 3 * Period
  BY TimeAssumption
<1>6. state # "wipe_pending" => ~wiping
  BY DEF TypeOK
<1>7. BurstIsFresh'
  BY <1>1, <1>2, <1>6, TickTimePasses, TickNumbers, TickNumbersAfter
     DEF BurstIsFresh, TickInv
<1>8. DeadlineInTicks'
  BY <1>1, <1>2, <1>6, TickTimePasses, TickNumbers, TickNumbersAfter
     DEF DeadlineInTicks, TickInv
<1>9. WarningInTicks'
  BY <1>1, <1>2, <1>6, TickTimePasses, TickNumbers, TickNumbersAfter
     DEF WarningInTicks, TickInv
<1>10. NoticeInTicks'
  <2>1. CASE state = "active"
    BY <1>1, <2>1 DEF NoticeInTicks
  <2>2. CASE state = "wipe_pending"
    BY <1>1, <1>4, <2>2, TickNumbers, TickNumbersAfter DEF NoticeInTicks, TickInv
  <2>3. CASE state \in {"warning", "locked"} /\ WarnsAfterBurst(cfg)
    <3>1. due <= MaxDue /\ notice + Span(MaxDue + 1) > TickTime /\ ~wiping
      BY <1>1, <1>6, <2>3 DEF NoticeInTicks, TickInv
    <3>2. due' <= MaxDue
      BY <3>1, TickTimePasses, TickNumbers, TickNumbersAfter
    <3>3. CASE notice' = notice + 1
      BY <1>1, <2>3, <3>1, <3>2, <3>3, TickTimePasses, TickNumbers, TickNumbersAfter
         DEF NoticeInTicks
    <3>4. CASE notice' = MaxSilence
      <4>1. Rank' <= 2
        BY <1>1, <2>3 DEF Rank
      <4>2. Span(due' + Rank') <= Span(MaxDue + 2) /\ Span(due' + Rank') \in Nat
        BY <3>2, <4>1, TickNumbers, TickNumbersAfter, Spans
      <4>3. Span(MaxDue + 2) = Span(MaxDue) + 2 * Period
        BY TickNumbers DEF Span
      <4>4. notice' + Span(MaxDue + 1) > TickTime'
        BY <1>5, <3>4, <4>2, <4>3, OneMore, TickNumbers, TickNumbersAfter DEF TickTime
      <4> QED BY <1>1, <2>3, <3>2, <4>4 DEF NoticeInTicks
    <3> QED BY <1>3, <2>3, <3>3, <3>4
  <2>4. CASE state \in {"warning", "locked"} /\ ~WarnsAfterBurst(cfg)
    BY <1>1, <2>4 DEF NoticeInTicks
  <2> QED BY <2>1, <2>2, <2>3, <2>4 DEF TypeOK, Stages
<1>11. NoticeSinceWarning'
  <2> SUFFICES ASSUME state # "active", WarnsAfterBurst(cfg)
               PROVE  elapsed' + cfg.warning < cfg.interval + notice' + Span(MaxDue + 1)
    BY <1>1 DEF NoticeSinceWarning
  <2>1. CASE notice' = notice + 1
    BY <1>1, <1>2, <2>1, TickNumbers, TickNumbersAfter DEF NoticeSinceWarning, TickInv
  <2>2. CASE notice' = MaxSilence
    <3>1. cfg.warning < cfg.interval
      BY TickNumbers DEF WarnsAfterBurst
    <3> QED BY <1>2, <1>5, <2>2, <3>1, TickNumbers, TickNumbersAfter
  <2> QED BY <1>3, <2>1, <2>2
<1> QED BY <1>7, <1>8, <1>9, <1>10, <1>11 DEF TickInv

\* Every step keeps the bounds.
LEMMA StepTicks == TypeOK /\ TypeOK' /\ TickInv /\ [Next]_vars => TickInv'
<1> SUFFICES ASSUME TypeOK, TypeOK', TickInv, [Next]_vars PROVE TickInv'
  OBVIOUS
<1> DEFINE Same == UNCHANGED <<state, elapsed, cfg, phase, due, notice>> /\ (alive' => alive)
<1>1. Same => TickInv'
  BY DEF TickInv, BurstIsFresh, DeadlineInTicks, WarningInTicks, NoticeInTicks,
         NoticeSinceWarning, TickTime, Rank
<1>2. ASSUME NEW token \in Tokens, Heartbeat(token) PROVE TickInv'
  BY <1>1, <1>2, RenewedTicks DEF Heartbeat, RenewTimer, RenewedStage
<1>3. ASSUME NEW c \in Configs, Configure(c) PROVE TickInv'
  BY <1>3, RenewedTicks DEF Configure, RenewTimer, RenewedStage
<1>4. CASE Tick
  BY <1>4, TickTicks
<1>5. CASE Restart
  BY <1>5, RenewedTicks DEF Restart
<1>6. CASE TimePasses
  BY <1>6, TimeTicks
<1>7. CASE RmStep \/ WipeSucceeds \/ WipeFails \/ Crash \/ DowntimePasses \/ UNCHANGED vars
  BY <1>1, <1>7
     DEF RmStep, RmRemoves, WipeSucceeds, WipeFails, Crash, DowntimePasses, vars
<1> QED BY <1>2, <1>3, <1>4, <1>5, <1>6, <1>7 DEF Next

\* The bounds of ticks against time hold throughout, however late the ticks
\* are delivered and whatever is renewed, fails or crashes.
THEOREM TicksKeepUp == Spec => []TickInv
BY InitTicks, StepTicks, TypeCorrect, PTL DEF Spec

\* However late the ticks come, the switch of a running daemon is in the stage
\* that wipes MaxDue + 3 periods after the deadline.
THEOREM WipeComesInTime == Spec => []WipeIsTimely
<1>1. TypeOK /\ TickInv => WipeIsTimely
  <2> SUFFICES ASSUME TypeOK, TickInv, alive, state # "wipe_pending"
               PROVE  ~(elapsed >= cfg.interval + Span(MaxDue + 3))
    BY DEF WipeIsTimely, Span
  <2>1. Rank <= 2
    BY DEF Rank, TypeOK, Stages
  <2>2. Span(MaxDue + 3) = Span(MaxDue + 2) + Period /\ Span(MaxDue + 2) \in Nat
    BY TickNumbers, Spans DEF Span
  <2>3. CASE due <= MaxDue
    <3>1. Span(due + Rank) <= Span(MaxDue + 2) /\ Span(due + Rank) \in Nat
      BY <2>1, <2>3, TickNumbers, Spans
    <3>2. TickTime < Span(MaxDue + 3)
      BY <2>2, <3>1, TickNumbers DEF TickTime
    <3> QED BY <2>2, <3>2, TickNumbers DEF TickInv, DeadlineInTicks
  <2>4. CASE due > MaxDue
    <3>1. elapsed < Period
      BY <2>4, TickNumbers DEF TickInv, BurstIsFresh
    <3> QED BY <2>2, <3>1, TickNumbers
  <2> QED BY <2>3, <2>4, TickNumbers
<1> QED BY <1>1, TypeCorrect, TicksKeepUp, PTL

\* Where the warning starts at least a period after a renewal, the owner has
\* more than two periods of notice before the child starts, less MaxDue, and the
\* configured warning time, less MaxDue + 1 periods, whatever burst a failed
\* wipe left behind.
THEOREM NoticeIsGiven == Spec => []NoticeBeforeWipe
<1>1. Inv /\ TickInv => NoticeBeforeWipe
  <2> SUFFICES ASSUME Inv, TickInv, wiping, WarnsAfterBurst(cfg)
               PROVE  /\ notice + Span(MaxDue) > 2 * Period
                      /\ notice + Span(MaxDue + 1) > cfg.warning
    BY DEF NoticeBeforeWipe, Span
  <2>1. TypeOK /\ alive /\ state = "wipe_pending" /\ elapsed >= cfg.interval
    BY DEF Inv, LateStage, TypeOK
  <2>2. notice + Span(MaxDue) > 2 * Period
    BY <2>1 DEF TickInv, NoticeInTicks
  <2>3. elapsed + cfg.warning < cfg.interval + notice + Span(MaxDue + 1)
    BY <2>1 DEF TickInv, NoticeSinceWarning
  <2> QED BY <2>1, <2>2, <2>3, TickNumbers
<1> QED BY <1>1, Invariance, TicksKeepUp, PTL

-----------------------------------------------------------------------------
(* The daemon implements its promise *)

LEMMA PromiseInit == Init => Promise!Init
BY ConfigAssumption DEF Init, Promise!Init, Intervals

\* Each step of the daemon waits, renews, erases under the promise's
\* condition, or leaves the promise's state alone.
LEMMA PromiseStep == Inv /\ [Next]_vars => [Promise!Next]_(Promise!vars)
<1> SUFFICES ASSUME Inv, [Next]_vars PROVE [Promise!Next]_(Promise!vars)
  OBVIOUS
<1> USE DEF Promise!Next, Promise!vars
<1>1. ASSUME NEW token \in Tokens, Heartbeat(token)
      PROVE  [Promise!Next]_(Promise!vars)
  BY <1>1 DEF Heartbeat, RenewTimer, Promise!Renew, Intervals, Inv, TypeOK
<1>2. ASSUME NEW c \in Configs, Configure(c)
      PROVE  [Promise!Next]_(Promise!vars)
  BY <1>2 DEF Configure, RenewTimer, Promise!Renew, Intervals
<1>3. CASE RmStep
  <2>1. PICK p \in Paths : RmRemoves(p)
    BY <1>3 DEF RmStep
  <2>2. elapsed >= cfg.interval
    BY <2>1 DEF RmRemoves, Inv, TypeOK, LateStage
  <2>3. Promise!Erase
    BY <2>1, <2>2 DEF RmRemoves, Promise!Erase, Inv, TypeOK
  <2> QED BY <2>3
<1>4. CASE Restart
  BY <1>4, ConfigAssumption DEF Restart, Promise!Renew, Intervals
<1>5. CASE TimePasses
  <2>1. elapsed' = Capped(elapsed + 1) /\ UNCHANGED <<cfg, erased>>
    BY <1>5 DEF TimePasses
  <2>2. elapsed \in Nat /\ elapsed <= MaxSilence
    BY TimeAssumption DEF Inv, TypeOK
  <2>3. elapsed' \in elapsed..MaxSilence
    BY <2>1, <2>2, TimeAssumption DEF Capped
  <2> QED BY <2>1, <2>3 DEF Promise!Wait
<1>6. CASE Tick \/ WipeSucceeds \/ WipeFails \/ Crash \/ DowntimePasses
  BY <1>6 DEF Tick, WipeSucceeds, WipeFails, Crash, DowntimePasses
<1>7. CASE UNCHANGED vars
  BY <1>7 DEF vars
<1> QED
  BY <1>1, <1>2, <1>3, <1>4, <1>5, <1>6, <1>7 DEF Next

\* Data is erased only after a whole interval of silence: the daemon, with its
\* ticks, failed wipes, crashes and restarts, implements DeadmanPromise.
THEOREM DaemonKeepsPromise == Spec => KeepsPromise
BY PromiseInit, PromiseStep, Invariance, PTL
   DEF Spec, KeepsPromise, Promise!Spec
=============================================================================
