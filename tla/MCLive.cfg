\* A daily unit whose builds may be dropped or die; attempts of calls may fail once.
SPECIFICATION LiveSpec
CONSTANTS
  Units = {u1}
  Runners = {r1}
  TaskKeys = {k1, k2, k3}
  QueueTimeout = 1
  TaskTimeout <- OneHour
  RetryDelay = 1
  Recent = 2
  HoursPerDay = 8
  DailyAt <- DailyAtOne
  TriggerAlways = {}
  Policy <- Recovery
  Faults = {"jobDropped", "jobCrash"}
  MaxCL = 0
  MaxTime = 3
PROPERTIES TasksEnd CallsEnd
CHECK_DEADLOCK FALSE
