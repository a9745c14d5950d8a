SPECIFICATION RunnersSpec
CONSTANTS
  Units = {u1}
  Policy <- Recoveries
  CronUnits = {c1}
  CronFreq <- EverySecondTick
  CronPolicy <- CronRecoveries
  Runners = {r1, r2}
  MailGap = 2
  Faults = {"get", "set", "mail", "die"}
  MaxFaults = 2
INVARIANTS NotTooOften OwnersInformed
PROPERTY RunnersKeepOn
