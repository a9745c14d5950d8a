\* Runs do not overlap and states are written; builds may be dropped or die.
SPECIFICATION Spec
CONSTANTS
  Units = {u1}
  Runners = {r1}
  TaskKeys = {k1, k2, k3}
  QueueTimeout = 1
  TaskTimeout <- TwoHours
  RetryDelay = 2
  Recent = 2
  HoursPerDay = 4
  DailyAt <- DailyAtTwo
  TriggerAlways = {}
  Policy <- Recovery
  Faults = {"read", "where", "send", "jobDropped", "jobCrash"}
  MaxCL = 2
  MaxTime = 4
SYMMETRY KeySym
INVARIANTS RequestsSound MailAgrees
