\* Two executions of the runner may overlap and everything may fail.
SPECIFICATION Spec
CONSTANTS
  Units = {u1}
  Runners = {r1, r2}
  TaskKeys = {k1, k2}
  QueueTimeout = 1
  TaskTimeout <- OneHour
  RetryDelay = 1
  Recent = 2
  HoursPerDay = 4
  DailyAt <- PathOnly
  TriggerAlways = {}
  Policy <- Recovery
  Faults = {"read", "where", "send", "sendAck", "write", "crash", "jobDropped", "jobCrash"}
  MaxCL = 2
  MaxTime = 1
SYMMETRY KeyRunSym
INVARIANTS TypeOK StateShape HonestSuccess NoScanGap
