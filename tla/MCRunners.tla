----------------------------- MODULE MCRunners ------------------------------
(***************************************************************************)
(* The publish runner and the cron runner, side by side: which says whose  *)
(* behaviour it is.  In the instance for TLC each has one unit and two     *)
(* invocations that may overlap; for the cron unit, the units before it in *)
(* the list show as time that passes between reading its state and running *)
(* it.                                                                     *)
(***************************************************************************)
EXTENDS PublishRunner

CONSTANTS
    CronUnits,  \* the units of the cron runner,
    CronFreq,   \* their frequencies
    CronPolicy  \* and their notification policies

VARIABLES which, cState, cRun, cSince, cEarly, cLastRun, cLastMail, cOverlap, cHappened, cFaults
cronVars == <<cState, cRun, cSince, cEarly, cLastRun, cLastMail, cOverlap, cHappened, cFaults>>
allVars == <<vars, which, cronVars>>

Cron == INSTANCE CronRunner WITH
    Units <- CronUnits, Frequency <- CronFreq, Policy <- CronPolicy,
    state <- cState, run <- cRun, since <- cSince, early <- cEarly, lastRun <- cLastRun,
    lastMail <- cLastMail, overlap <- cOverlap, happened <- cHappened, faults <- cFaults
ASSUME CronAssumption == Cron!CronConstants

\* The instance: every unit's owners want to know of recoveries.
Recoveries == [u \in Units |-> "ON_FAILURE_AND_RECOVERY"]
CronRecoveries == [u \in CronUnits |-> "ON_FAILURE_AND_RECOVERY"]
EverySecondTick == [u \in CronUnits |-> 2]

RunnersInit ==
    /\ Init /\ Cron!Init /\ which \in {"publish", "cron"}
OfPublish(A) == which = "publish" /\ A /\ UNCHANGED <<which, cronVars>>
OfCron(A) == which = "cron" /\ A /\ UNCHANGED <<vars, which>>
PublishTick == OfPublish(Tick)
PublishStep(r) == OfPublish(Step(r))
PublishDie(r) == OfPublish(Die(r))
CronTick == OfCron(Cron!Tick)
CronStep(r) == OfCron(Cron!Step(r))
CronDie(r) == OfCron(Cron!Die(r))
RunnersNext ==
    \/ PublishTick \/ CronTick
    \/ \E r \in Runners : PublishStep(r) \/ PublishDie(r) \/ CronStep(r) \/ CronDie(r)

\* The fairness of either.
RunnersSpec ==
    /\ RunnersInit /\ [][RunnersNext]_allVars
    /\ WF_allVars(PublishTick) /\ WF_allVars(CronTick)
    /\ \A r \in Runners : WF_allVars(PublishStep(r)) /\ WF_allVars(CronStep(r))

-----------------------------------------------------------------------------
(* Neither runner does it too often: failure emails are two hours apart, runs of a cron unit its
   frequency. *)
NotTooOften == RateLimited /\ Cron!NoEarlyRun

(* Owners know how their unit is: told of a failure in the last two hours while it lasts and of
   the recovery after it, and the last email about a cron unit agrees with its last run. *)
OwnersInformed == OwnersTold /\ RecoveryMailed /\ Cron!CronMailAgrees

(* In spite of lost emails, keys that cannot be read or written and invocations that end half way,
   owners of a unit that stays broken are told again and again, and cron units run again and
   again. *)
RunnersKeepOn ==
    /\ KeepsNagging
    /\ \A u \in CronUnits : []<>(which = "publish" \/ cSince[u] = 0)
=============================================================================
