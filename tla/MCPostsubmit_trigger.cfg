\* One runner, nothing fails: are all matching CLs covered?
SPECIFICATION Spec
CONSTANTS
  Units = {u1}
  Runners = {r1}
  TaskKeys = {k1, k2, k3}
  QueueTimeout = 1
  TaskTimeout <- TwoHours
  RetryDelay = 2
  Recent = 2
  HoursPerDay = 4
  DailyAt <- PathOnly
  TriggerAlways = {}
  Policy <- Recovery
  Faults = {}
  MaxCL = 3
  MaxTime = 4
SYMMETRY KeySym
INVARIANTS TriggerHonoured
