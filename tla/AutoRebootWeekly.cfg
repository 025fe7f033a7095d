SPECIFICATION Spec
CONSTANTS
  DaySecs = 6
  UtcOffset = 2
  Window = 2
  ShutdownWait = 2
  TriggerDelay = 1
  Schedules <- MCSchedules
  Triggers = {}
INVARIANT WeeklyWakesOnItsDay
