-------------------------- MODULE PostsubmitProofs --------------------------
(***************************************************************************)
(* Proofs about Postsubmit, for every set of units, runners and task keys, *)
(* every value of the timeouts and every set of faults.                    *)
(***************************************************************************)
EXTENDS Postsubmit, TLAPS

-----------------------------------------------------------------------------
(* Type correctness. *)

(* The constant records have their types. *)
LEMMA ConstantTypes ==
  /\ NoTask \in Task
  /\ ZeroState \in PSState
  /\ UnsentJob \in Job
  /\ IdleRunner \in RunnerState
<1>1. NoTask \in Task
  BY DEF NoTask, Task, Time
<1>2. ZeroState \in PSState
  BY <1>1 DEF ZeroState, PSState, Time
<1>3. UnsentJob \in Job
  BY DEF UnsentJob, Job, Time
<1>4. IdleRunner \in RunnerState
  BY <1>2 DEF IdleRunner, RunnerState
<1> QED BY <1>1, <1>2, <1>3, <1>4

(* Whatever run() does after a unit leaves a runner state. *)
LEMMA NextUnitType ==
  ASSUME NEW run \in RunnerState
  PROVE  NextUnit(run) \in RunnerState
BY ConstantTypes DEF NextUnit, RunnerState

(* A request or a verdict turns a state into a state. *)
LEMMA NewStateTypes ==
  ASSUME TypeOK, NEW run \in RunnerState, NEW k \in TaskKeys
  PROVE  /\ SuccessState(run.st) \in PSState
         /\ FailedState(run.st) \in PSState
         /\ PendingState(run, k) \in PSState
<1>1. /\ NoTask \in Task /\ now \in Time /\ now + RetryDelay \in Time
      /\ [key |-> k, start |-> run.at, cl |-> run.base] \in Task
  BY ConstantTypes, ConstantsOK DEF TypeOK, RunnerState, Task, Time
<1>2. run.st \in PSState /\ run.st.task.cl \in Nat
  BY DEF RunnerState, PSState, Task
<1>3. SuccessState(run.st) \in PSState
  BY <1>1, <1>2 DEF SuccessState, PSState
<1>4. FailedState(run.st) \in PSState
  BY <1>1, <1>2 DEF FailedState, PSState
<1>5. PendingState(run, k) \in PSState
  BY <1>1, <1>2 DEF PendingState, PSState
<1> QED BY <1>3, <1>4, <1>5

(* A step of a run that only changes the run. *)
LEMMA BecomesType ==
  ASSUME TypeOK, NEW r \in Runners, NEW run \in RunnerState, Becomes(r, run)
  PROVE  runner' \in [Runners -> RunnerState]
BY DEF TypeOK, Becomes

(* The first state is typed. *)
LEMMA TypeInit == Init => TypeOK
BY ConstantTypes, ConstantsOK DEF Init, TypeOK, CLs

(* Every step preserves the types. *)
LEMMA TypeStep == TypeOK /\ [Next]_vars => TypeOK'
<1> SUFFICES ASSUME TypeOK, [Next]_vars PROVE TypeOK'
  OBVIOUS
<1> USE ConstantTypes
<1>1. CASE Tick
  BY <1>1 DEF Tick, TypeOK
<1>2. ASSUME NEW touched \in SUBSET Units, Submit(touched) PROVE TypeOK'
  BY <1>2, ConstantsOK DEF Submit, TypeOK, CLs
<1>3. ASSUME NEW r \in Runners, RunStart(r) PROVE TypeOK'
  <2>1. PICK base \in {0, head} :
          Becomes(r, [IdleRunner EXCEPT
                        !.pc = IF base = 0 THEN "units" ELSE "scan",
                        !.base = base, !.todo = Units])
    BY <1>3 DEF RunStart
  <2>2. [IdleRunner EXCEPT !.pc = IF base = 0 THEN "units" ELSE "scan",
                           !.base = base, !.todo = Units] \in RunnerState
    <3>1. base \in Nat /\ (IF base = 0 THEN "units" ELSE "scan")
                            \in {"units", "scan"}
      BY DEF TypeOK
    <3> QED BY <3>1 DEF RunnerState
  <2> QED BY <2>1, <2>2, <1>3, BecomesType DEF TypeOK, RunStart
<1>4. ASSUME NEW r \in Runners, ScanChanges(r) PROVE TypeOK'
  <2> DEFINE files == UNION {depot[c] : c \in ScannedRange(lastCl, runner[r].base)}
  <2>1. files \in SUBSET Units
    BY DEF TypeOK, ScannedRange
  <2>2. PICK changed \in SUBSET files :
          Becomes(r, [runner[r] EXCEPT !.pc = "setkey", !.last = lastCl,
                                       !.changed = changed])
    BY <1>4 DEF ScanChanges
  <2>3. changed \in SUBSET Units
    BY <2>1
  <2>4. [runner[r] EXCEPT !.pc = "setkey", !.last = lastCl,
                          !.changed = changed] \in RunnerState
    BY <2>3 DEF TypeOK, RunnerState
  <2> QED BY <2>2, <2>4, <1>4, BecomesType DEF TypeOK, ScanChanges
<1>5. ASSUME NEW r \in Runners, SetLastCl(r) PROVE TypeOK'
  <2>1. runner[r].base \in Nat
        /\ [runner[r] EXCEPT !.pc = "units"] \in RunnerState
    BY DEF TypeOK, RunnerState
  <2>2. lastCl' \in Nat /\ baseline' \in Nat
    BY <1>5, <2>1 DEF SetLastCl, NewLastCl, TypeOK
  <2>3. scanned' \subseteq Nat
    BY <1>5, ConstantsOK DEF SetLastCl, ScannedRange, CLs, TypeOK
  <2>4. runner' \in [Runners -> RunnerState]
    BY <1>5, <2>1, BecomesType DEF SetLastCl
  <2> QED BY <2>2, <2>3, <2>4, <1>5 DEF TypeOK, SetLastCl
<1>6. ASSUME NEW r \in Runners, ReadState(r) PROVE TypeOK'
  <2>1. PICK u \in runner[r].todo :
          LET run == [runner[r] EXCEPT !.todo = @ \ {u}, !.unit = u]
          IN \/ Becomes(r, [run EXCEPT !.pc = "update", !.st = state[u]])
             \/ Becomes(r, NextUnit(run))
    BY <1>6 DEF ReadState
  <2> DEFINE run == [runner[r] EXCEPT !.todo = @ \ {u}, !.unit = u]
  <2>2. u \in Units /\ run \in RunnerState /\ state[u] \in PSState
    BY DEF TypeOK, RunnerState
  <2>3. /\ NextUnit(run) \in RunnerState
        /\ [run EXCEPT !.pc = "update", !.st = state[u]] \in RunnerState
    BY <2>2, NextUnitType DEF RunnerState
  <2>4. runner' \in [Runners -> RunnerState]
    BY <2>1, <2>3, BecomesType
  <2> QED BY <2>4, <1>6 DEF TypeOK, ReadState
<1>7. ASSUME NEW r \in Runners, UpdateSuccess(r) PROVE TypeOK'
  <2>1. NextUnit(runner[r]) \in RunnerState
        /\ [runner[r] EXCEPT !.pc = "send", !.at = now] \in RunnerState
    BY NextUnitType DEF TypeOK, RunnerState
  <2>2. runner' \in [Runners -> RunnerState]
    BY <1>7, <2>1, BecomesType DEF UpdateSuccess
  <2> QED BY <2>2, <1>7 DEF TypeOK, UpdateSuccess
<1>8. ASSUME NEW r \in Runners, UpdateFailed(r) PROVE TypeOK'
  <2>1. [runner[r].st EXCEPT !.nextRetry = NoTime] \in PSState
    <3>1. runner[r].st \in PSState /\ NoTime \in Time
      BY DEF TypeOK, RunnerState, Time
    <3> QED BY <3>1 DEF PSState
  <2>2. /\ NextUnit(runner[r]) \in RunnerState
        /\ [runner[r] EXCEPT !.pc = "send", !.at = now,
              !.st = [@ EXCEPT !.nextRetry = NoTime]] \in RunnerState
    BY <2>1, NextUnitType DEF TypeOK, RunnerState
  <2>3. runner' \in [Runners -> RunnerState]
    BY <1>8, <2>2, BecomesType DEF UpdateFailed
  <2> QED BY <2>3, <1>8 DEF TypeOK, UpdateFailed
<1>9. ASSUME NEW r \in Runners, PendingWait(r) PROVE TypeOK'
  <2>1. NextUnit(runner[r]) \in RunnerState
    BY NextUnitType DEF TypeOK
  <2> QED BY <2>1, <1>9, BecomesType DEF TypeOK, PendingWait
<1>10. ASSUME NEW r \in Runners, PendingRequeue(r) PROVE TypeOK'
  <2>1. [runner[r] EXCEPT !.pc = "send", !.at = now] \in RunnerState
    BY DEF TypeOK, RunnerState
  <2> QED BY <2>1, <1>10, BecomesType DEF TypeOK, PendingRequeue
<1>11. ASSUME NEW r \in Runners, PendingSucceeded(r) \/ PendingFailed(r)
       PROVE  TypeOK'
  <2>1. ASSUME NEW st \in PSState
        PROVE  [runner[r] EXCEPT !.pc = "write", !.st = st] \in RunnerState
    BY DEF TypeOK, RunnerState
  <2>2. /\ SuccessState(runner[r].st) \in PSState
        /\ FailedState(runner[r].st) \in PSState
    <3>1. runner[r] \in RunnerState
      BY DEF TypeOK
    <3>2. /\ NoTask \in Task /\ now \in Time /\ now + RetryDelay \in Time
          /\ runner[r].st \in PSState /\ runner[r].st.task.cl \in Nat
      BY <3>1, ConstantsOK DEF TypeOK, RunnerState, PSState, Task, Time
    <3> QED BY <3>2 DEF SuccessState, FailedState, PSState
  <2>3. runner' \in [Runners -> RunnerState]
    BY <1>11, <2>1, <2>2, BecomesType DEF PendingSucceeded, PendingFailed
  <2>4. mailed' \in [Units -> {"none", "success", "failure"}]
    BY <1>11 DEF TypeOK, PendingSucceeded, PendingFailed
  <2> QED BY <2>3, <2>4, <1>11 DEF TypeOK, PendingSucceeded, PendingFailed
<1>12. ASSUME NEW r \in Runners, NEW k \in TaskKeys, Send(r, k) PROVE TypeOK'
  <2>1. runner[r] \in RunnerState
    BY DEF TypeOK
  <2>2. /\ NextUnit(runner[r]) \in RunnerState
        /\ PendingState(runner[r], k) \in PSState
    BY <2>1, NextUnitType, NewStateTypes
  <2>3. [runner[r] EXCEPT !.pc = "write", !.st = PendingState(runner[r], k)]
          \in RunnerState
    BY <2>1, <2>2 DEF RunnerState
  <2>4. runner' \in [Runners -> RunnerState]
    BY <1>12, <2>2, <2>3, BecomesType DEF Send
  <2>5. [pc |-> "queued", unit |-> runner[r].unit, cl |-> runner[r].base,
         start |-> runner[r].at, result |-> "none"] \in Job
    BY <2>1 DEF RunnerState, Job, Time
  <2>6. jobs' \in [TaskKeys -> Job]
    BY <1>12, <2>5 DEF Send, TypeOK
  <2> QED BY <2>4, <2>6, <1>12 DEF TypeOK, Send
<1>13. ASSUME NEW r \in Runners, SendFails(r) PROVE TypeOK'
  <2>1. NextUnit(runner[r]) \in RunnerState
    BY NextUnitType DEF TypeOK
  <2> QED BY <2>1, <1>13, BecomesType DEF TypeOK, SendFails
<1>14. ASSUME NEW r \in Runners, WriteState(r) PROVE TypeOK'
  <2>1. NextUnit(runner[r]) \in RunnerState /\ runner[r].st \in PSState
    BY NextUnitType DEF TypeOK, RunnerState
  <2>2. runner' \in [Runners -> RunnerState]
    BY <1>14, <2>1, BecomesType DEF WriteState
  <2>3. state' \in [Units -> PSState]
    BY <1>14, <2>1 DEF WriteState, TypeOK
  <2> QED BY <2>2, <2>3, <1>14 DEF TypeOK, WriteState
<1>15. ASSUME NEW r \in Runners, RunAborts(r) PROVE TypeOK'
  BY <1>15, BecomesType DEF TypeOK, RunAborts
<1>16. ASSUME NEW k \in TaskKeys, JobStep(k) PROVE TypeOK'
  <2>1. jobs' \in [TaskKeys -> Job]
    BY <1>16 DEF JobStep, JobStarts, JobDropped, JobEnds, JobDies, TypeOK, Job
  <2>2. task' \in [TaskKeys -> {"none", "RUNNING", "SUCCESS", "FAILED"}]
    BY <1>16 DEF JobStep, JobStarts, JobDropped, JobEnds, JobDies, TypeOK
  <2> QED BY <2>1, <2>2, <1>16
          DEF JobStep, JobStarts, JobDropped, JobEnds, JobDies, TypeOK
<1>17. CASE UNCHANGED vars
  BY <1>17 DEF vars, TypeOK
<1> QED
  BY <1>1, <1>2, <1>3, <1>4, <1>5, <1>6, <1>7, <1>8, <1>9, <1>10, <1>11,
     <1>12, <1>13, <1>14, <1>15, <1>16, <1>17 DEF Next, RunnerStep

(* The variables keep their types: in particular every p4 key always holds *)
(* something readState and readTask can read back.                         *)
THEOREM TypeCorrect == Spec => []TypeOK
<1>1. Init => TypeOK
  BY TypeInit
<1>2. TypeOK /\ [Next]_vars => TypeOK'
  BY TypeStep
<1> QED BY <1>1, <1>2, PTL DEF Spec

-----------------------------------------------------------------------------
(* Stored states are well formed.  The stored states are copies of a run's *)
(* local state, so the invariant follows a state through a run: it is well *)
(* formed when read and when written, and in between, when a request is    *)
(* about to be sent, no retry time is pending.                             *)

RunShape(run) ==
  /\ run.pc \in {"update", "send", "write"} => run.unit \in Units
  /\ run.pc \in {"update", "write"} => Shaped(run.st)
  /\ run.pc = "send" => run.st.nextRetry = NoTime

ShapeInv == StateShape /\ \A r \in Runners : RunShape(runner[r])

(* The runs a step of one run leaves alone. *)
LEMMA BecomesFrame ==
  ASSUME TypeOK, NEW r \in Runners, NEW run, Becomes(r, run)
  PROVE  runner'[r] = run /\ \A x \in Runners \ {r} : runner'[x] = runner[x]
BY DEF TypeOK, Becomes

(* After a unit, nothing is asserted of the run. *)
LEMMA NextUnitPc ==
  ASSUME NEW run \in RunnerState
  PROVE  NextUnit(run).pc \in {"idle", "units"}
BY DEF NextUnit, IdleRunner, RunnerState

(* A step that replaces one run by a well-shaped one, and no stored state. *)
LEMMA ShapeBecomes ==
  ASSUME TypeOK, ShapeInv, UNCHANGED state,
         NEW r \in Runners, NEW run, Becomes(r, run), RunShape(run)
  PROVE  ShapeInv'
<1>1. StateShape'
  BY DEF ShapeInv, StateShape, Shaped
<1>2. \A x \in Runners : RunShape(runner'[x])
  BY BecomesFrame DEF ShapeInv
<1>3. \A x \in Runners : RunShape(runner[x])'
  BY <1>2 DEF RunShape, Shaped
<1> QED BY <1>1, <1>3 DEF ShapeInv

(* Every step keeps the shape of a runner: what its program counter says of its other fields. *)
LEMMA ShapeStep == TypeOK /\ ShapeInv /\ [Next]_vars => ShapeInv'
<1> SUFFICES ASSUME TypeOK, ShapeInv, [Next]_vars PROVE ShapeInv'
  OBVIOUS
<1>0. ASSUME NEW run \in RunnerState, run.pc \in {"idle", "scan", "setkey", "units"}
      PROVE  RunShape(run)
  BY <1>0 DEF RunShape
<1>a. ASSUME NEW run \in RunnerState PROVE RunShape(NextUnit(run))
  BY NextUnitPc, NextUnitType, <1>0
<1>b. ASSUME NEW r \in Runners
      PROVE  runner[r] \in RunnerState /\ RunShape(runner[r])
  BY DEF TypeOK, ShapeInv
<1>1. ASSUME UNCHANGED <<state, runner>> PROVE ShapeInv'
  BY <1>1 DEF ShapeInv, StateShape, RunShape, Shaped
<1>2. ASSUME NEW r \in Runners, RunStart(r) PROVE ShapeInv'
  <2> DEFINE run(base) == [IdleRunner EXCEPT
                             !.pc = IF base = 0 THEN "units" ELSE "scan",
                             !.base = base, !.todo = Units]
  <2>1. PICK base : Becomes(r, run(base))
    BY <1>2 DEF RunStart
  <2>2. run(base).pc \in {"scan", "units"}
    BY DEF IdleRunner
  <2>3. RunShape(run(base))
    BY <2>2 DEF RunShape
  <2> QED BY <2>1, <2>3, <1>2, ShapeBecomes DEF RunStart
<1>2a. ASSUME NEW r \in Runners, RunAborts(r) PROVE ShapeInv'
  <2>1. RunShape(IdleRunner)
    BY DEF RunShape, IdleRunner
  <2> QED BY <2>1, <1>2a, ShapeBecomes DEF RunAborts
<1>3. ASSUME NEW r \in Runners, ScanChanges(r) PROVE ShapeInv'
  <2> DEFINE run(changed) == [runner[r] EXCEPT !.pc = "setkey",
                                !.last = lastCl, !.changed = changed]
  <2>1. PICK changed : Becomes(r, run(changed))
    BY <1>3 DEF ScanChanges
  <2>2. run(changed).pc = "setkey"
    BY <1>b DEF RunnerState
  <2>3. RunShape(run(changed))
    BY <2>2 DEF RunShape
  <2> QED BY <2>1, <2>3, <1>3, ShapeBecomes DEF ScanChanges
<1>3a. ASSUME NEW r \in Runners, SetLastCl(r) PROVE ShapeInv'
  <2>1. [runner[r] EXCEPT !.pc = "units"].pc = "units"
    BY <1>b DEF RunnerState
  <2>2. RunShape([runner[r] EXCEPT !.pc = "units"])
    BY <2>1 DEF RunShape
  <2> QED BY <2>2, <1>3a, ShapeBecomes DEF SetLastCl
<1>4. ASSUME NEW r \in Runners, ReadState(r) PROVE ShapeInv'
  <2>1. PICK u \in runner[r].todo :
          LET run == [runner[r] EXCEPT !.todo = @ \ {u}, !.unit = u]
          IN \/ Becomes(r, [run EXCEPT !.pc = "update", !.st = state[u]])
             \/ Becomes(r, NextUnit(run))
    BY <1>4 DEF ReadState
  <2> DEFINE run == [runner[r] EXCEPT !.todo = @ \ {u}, !.unit = u]
  <2>2. u \in Units /\ run \in RunnerState /\ run.unit = u
    BY <1>b DEF RunnerState
  <2>3. RunShape([run EXCEPT !.pc = "update", !.st = state[u]])
    BY <2>2 DEF RunShape, RunnerState, ShapeInv, StateShape
  <2>4. RunShape(NextUnit(run))
    BY <2>2, <1>a
  <2> QED BY <2>1, <2>3, <2>4, <1>4, ShapeBecomes DEF ReadState
<1>5. ASSUME NEW r \in Runners, UpdateSuccess(r) \/ PendingRequeue(r)
      PROVE  ShapeInv'
  <2>1. RunShape([runner[r] EXCEPT !.pc = "send", !.at = now])
    BY <1>5, <1>b DEF RunShape, Shaped, RunnerState, UpdateSuccess, PendingRequeue
  <2>2. RunShape(NextUnit(runner[r]))
    BY <1>a, <1>b
  <2> QED BY <2>1, <2>2, <1>5, ShapeBecomes DEF UpdateSuccess, PendingRequeue
<1>6. ASSUME NEW r \in Runners, UpdateFailed(r) PROVE ShapeInv'
  <2> DEFINE st == [runner[r].st EXCEPT !.nextRetry = NoTime]
             run == [runner[r] EXCEPT !.pc = "send", !.at = now, !.st = st]
  <2>1. runner[r].st \in PSState
    BY <1>b DEF RunnerState
  <2>2. st.nextRetry = NoTime
    BY <2>1 DEF PSState
  <2>3. run.pc = "send" /\ run.unit = runner[r].unit /\ run.st = st
    BY <1>b DEF RunnerState
  <2>4. RunShape(run)
    BY <2>2, <2>3, <1>b, <1>6 DEF RunShape, UpdateFailed
  <2>5. RunShape(NextUnit(runner[r]))
    BY <1>a, <1>b
  <2> QED BY <2>4, <2>5, <1>6, ShapeBecomes DEF UpdateFailed
<1>7. ASSUME NEW r \in Runners, PendingWait(r) \/ SendFails(r) PROVE ShapeInv'
  BY <1>7, <1>a, <1>b, ShapeBecomes DEF PendingWait, SendFails
<1>8. ASSUME NEW r \in Runners, PendingSucceeded(r) \/ PendingFailed(r)
      PROVE  ShapeInv'
  <2>1. /\ runner[r].unit \in Units /\ runner[r].st \in PSState
        /\ runner[r].st.nextRetry = NoTime
    BY <1>8, <1>b DEF RunShape, Shaped, RunnerState, PendingSucceeded, PendingFailed
  <2>2. now + RetryDelay # NoTime
    BY ConstantsOK DEF TypeOK, NoTime
  <2>3. Shaped(SuccessState(runner[r].st)) /\ Shaped(FailedState(runner[r].st))
    BY <2>1, <2>2 DEF Shaped, SuccessState, FailedState, PSState, NoTask
  <2>4. ASSUME NEW st, Shaped(st)
        PROVE  RunShape([runner[r] EXCEPT !.pc = "write", !.st = st])
    BY <2>1, <2>4, <1>b DEF RunShape, RunnerState
  <2> QED BY <2>3, <2>4, <1>8, ShapeBecomes DEF PendingSucceeded, PendingFailed
<1>9. ASSUME NEW r \in Runners, NEW k \in TaskKeys, Send(r, k) PROVE ShapeInv'
  <2>1. /\ runner[r].unit \in Units /\ runner[r].st \in PSState
        /\ runner[r].st.nextRetry = NoTime
    BY <1>9, <1>b DEF RunShape, RunnerState, Send
  <2>2. Shaped(PendingState(runner[r], k))
    BY <2>1, ConstantsOK DEF Shaped, PendingState, PSState
  <2>3. RunShape([runner[r] EXCEPT !.pc = "write", !.st = PendingState(runner[r], k)])
    BY <2>1, <2>2, <1>b DEF RunShape, RunnerState
  <2>4. RunShape(NextUnit(runner[r]))
    BY <1>a, <1>b
  <2> QED BY <2>3, <2>4, <1>9, ShapeBecomes DEF Send
<1>10. ASSUME NEW r \in Runners, WriteState(r) PROVE ShapeInv'
  <2>1. \A u \in Units : state'[u] \in {state[u], runner[r].st}
    BY <1>10 DEF WriteState, TypeOK
  <2>2. StateShape'
    BY <2>1, <1>b, <1>10 DEF StateShape, ShapeInv, RunShape, WriteState, Shaped
  <2>3. RunShape(NextUnit(runner[r]))
    BY <1>a, <1>b
  <2>4. \A x \in Runners : RunShape(runner'[x])
    BY <2>3, <1>10, BecomesFrame DEF WriteState, ShapeInv
  <2> QED BY <2>2, <2>4 DEF ShapeInv, RunShape, Shaped
<1> QED
  BY <1>1, <1>2, <1>2a, <1>3, <1>3a, <1>4, <1>5, <1>6, <1>7, <1>8, <1>9, <1>10
  DEF Next, RunnerStep, JobStep, Tick, Submit, JobStarts, JobDropped, JobEnds,
      JobDies, vars

(* Every stored PENDING state has the task processPendingTask dereferences *)
(* and every stored FAILED state has its retry time, for any number of     *)
(* overlapping runs and any faults.                                        *)
THEOREM ShapeCorrect == Spec => []StateShape
<1>1. Init => ShapeInv
  BY DEF Init, ShapeInv, StateShape, Shaped, RunShape, ZeroState, NoTask, IdleRunner
<1>2. TypeOK /\ ShapeInv /\ [Next]_vars => ShapeInv'
  BY ShapeStep
<1>3. ShapeInv => StateShape
  BY DEF ShapeInv
<1> QED BY <1>1, <1>2, <1>3, TypeCorrect, PTL DEF Spec

-----------------------------------------------------------------------------
(* Recorded successes are real.  A state on its way through a run carries  *)
(* two obligations: its task is a job of the same unit requested at the    *)
(* task's CL, and its last success is backed by a job that succeeded.      *)
(* Both survive every step of the others because jobs only move forward.   *)
(* The jobs and the clock are parameters, so that a run's state can be     *)
(* judged before and after a step.                                         *)

Tracks(u, st, J, t) ==
  st.task.key # NoKey =>
    /\ J[st.task.key].pc # "unsent"
    /\ J[st.task.key].unit = u
    /\ J[st.task.key].cl = st.task.cl
    /\ J[st.task.key].start <= t

Backed(u, st, J) ==
  st.lastTime # NoTime =>
    \E k \in TaskKeys :
      /\ J[k].unit = u /\ J[k].cl = st.lastCl
      /\ J[k].result = "SUCCESS" /\ J[k].start <= st.lastTime

Honest(u, st, J, t) == Tracks(u, st, J, t) /\ Backed(u, st, J)

RunHonest(run, J, t) ==
  /\ run.pc \in {"update", "send", "write"} => Honest(run.unit, run.st, J, t)
  /\ run.pc = "send" => run.at <= t

JobsHonest ==
  \A k \in TaskKeys :
    /\ task[k] = "SUCCESS" => jobs[k].result = "SUCCESS"
    /\ jobs[k].pc \in {"unsent", "queued", "running"} =>
         jobs[k].result = "none" /\ task[k] # "SUCCESS"

HonestInv ==
  /\ JobsHonest
  /\ \A u \in Units : Honest(u, state[u], jobs, now)
  /\ \A r \in Runners : RunHonest(runner[r], jobs, now)

(* Jobs and the clock only move forward. *)
JobsGrow ==
  /\ now <= now'
  /\ \A k \in TaskKeys :
       jobs[k].pc # "unsent" =>
         /\ jobs'[k].pc # "unsent" /\ jobs'[k].unit = jobs[k].unit
         /\ jobs'[k].cl = jobs[k].cl /\ jobs'[k].start = jobs[k].start
         /\ jobs[k].result = "SUCCESS" => jobs'[k].result = "SUCCESS"

(* Every step moves jobs and the clock only forward, and a task is a success only when its job is. *)
LEMMA JobsForward ==
  ASSUME TypeOK, JobsHonest, [Next]_vars
  PROVE  JobsGrow /\ JobsHonest'
<1>1. ASSUME UNCHANGED <<now, task, jobs>> PROVE JobsGrow /\ JobsHonest'
  BY <1>1 DEF JobsGrow, JobsHonest, TypeOK
<1>2. CASE Tick
  BY <1>2 DEF Tick, JobsGrow, JobsHonest, TypeOK
<1>3. ASSUME NEW r \in Runners, NEW k \in TaskKeys, Send(r, k)
      PROVE  JobsGrow /\ JobsHonest'
  BY <1>3 DEF Send, JobsGrow, JobsHonest, TypeOK
<1>4. ASSUME NEW k \in TaskKeys, JobStep(k) PROVE JobsGrow /\ JobsHonest'
  <2>1. JobsGrow
    BY <1>4 DEF JobStep, JobStarts, JobDropped, JobEnds, JobDies, JobsGrow,
                JobsHonest, TypeOK, Job
  <2>2. JobsHonest'
    BY <1>4 DEF JobStep, JobStarts, JobDropped, JobEnds, JobDies, JobsHonest,
                TypeOK, Job
  <2> QED BY <2>1, <2>2
<1>5. ASSUME NEW r \in Runners, ScanChanges(r) \/ SetLastCl(r) \/ ReadState(r)
                                \/ UpdateSuccess(r) \/ UpdateFailed(r)
      PROVE  UNCHANGED <<now, task, jobs>>
  BY <1>5 DEF ScanChanges, SetLastCl, ReadState, UpdateSuccess, UpdateFailed
<1>6. ASSUME NEW r \in Runners, PendingWait(r) \/ PendingRequeue(r)
                                \/ PendingSucceeded(r) \/ PendingFailed(r)
                                \/ WriteState(r)
      PROVE  UNCHANGED <<now, task, jobs>>
  BY <1>6 DEF PendingWait, PendingRequeue, PendingSucceeded, PendingFailed,
              WriteState
<1>7. ASSUME NEW r \in Runners, RunStart(r) \/ SendFails(r) \/ RunAborts(r)
      PROVE  UNCHANGED <<now, task, jobs>>
  BY <1>7 DEF RunStart, SendFails, RunAborts
<1>8. ASSUME NEW touched \in SUBSET Units, Submit(touched)
      PROVE  UNCHANGED <<now, task, jobs>>
  BY <1>8 DEF Submit
<1>9. CASE UNCHANGED vars
  BY <1>1, <1>9 DEF vars
<1> QED
  BY <1>1, <1>2, <1>3, <1>4, <1>5, <1>6, <1>7, <1>8, <1>9 DEF Next, RunnerStep

(* What is true of a state stays true of it. *)
LEMMA HonestStable ==
  ASSUME TypeOK, TypeOK', JobsHonest, JobsGrow, NEW u, NEW st \in PSState
  PROVE  /\ Tracks(u, st, jobs, now) => Tracks(u, st, jobs', now')
         /\ Backed(u, st, jobs) => Backed(u, st, jobs')
<1>1. ASSUME Tracks(u, st, jobs, now) PROVE Tracks(u, st, jobs', now')
  <2>1. CASE st.task.key = NoKey
    BY <2>1 DEF Tracks
  <2>2. CASE st.task.key # NoKey
    <3>1. st.task.key \in TaskKeys
      BY <2>2 DEF PSState, Task
    <3>2. jobs[st.task.key].start <= now
      BY <2>2, <1>1 DEF Tracks
    <3>3. jobs[st.task.key].start \in Int /\ now \in Int /\ now' \in Int
      BY <3>1 DEF TypeOK, Job, Time, NoTime
    <3> QED BY <1>1, <2>2, <3>1, <3>2, <3>3 DEF Tracks, JobsGrow
  <2> QED BY <2>1, <2>2
<1>2. ASSUME Backed(u, st, jobs) PROVE Backed(u, st, jobs')
  <2>1. \A k \in TaskKeys : jobs[k].result = "SUCCESS" => jobs[k].pc # "unsent"
    BY DEF JobsHonest
  <2> QED BY <1>2, <2>1 DEF Backed, JobsGrow
<1> QED BY <1>1, <1>2

(* The same for a run no step of its own changes, and for stored states. *)
LEMMA RunStable ==
  ASSUME TypeOK, TypeOK', HonestInv, JobsGrow
  PROVE  /\ \A u \in Units : Honest(u, state[u], jobs', now')
         /\ \A x \in Runners : RunHonest(runner[x], jobs', now')
<1>1. ASSUME NEW u \in Units PROVE Honest(u, state[u], jobs', now')
  <2>1. state[u] \in PSState /\ Honest(u, state[u], jobs, now)
    BY DEF TypeOK, HonestInv
  <2> QED BY <2>1, HonestStable DEF Honest, HonestInv
<1>2. ASSUME NEW x \in Runners PROVE RunHonest(runner[x], jobs', now')
  <2>1. /\ runner[x].st \in PSState /\ RunHonest(runner[x], jobs, now)
        /\ runner[x].at \in Nat /\ now \in Nat /\ now' \in Nat
    BY DEF TypeOK, HonestInv, RunnerState
  <2>2. now <= now'
    BY DEF JobsGrow
  <2> QED BY <2>1, <2>2, HonestStable DEF Honest, HonestInv, RunHonest
<1> QED BY <1>1, <1>2

(* A step that replaces one run by an honest one, and no stored state. *)
LEMMA HonestBecomes ==
  ASSUME TypeOK, TypeOK', HonestInv, JobsGrow, JobsHonest', UNCHANGED state,
         NEW r \in Runners, NEW run, Becomes(r, run),
         RunHonest(run, jobs', now')
  PROVE  HonestInv'
<1>1. \A u \in Units : Honest(u, state'[u], jobs', now')
  BY RunStable
<1>2. \A x \in Runners : RunHonest(runner'[x], jobs', now')
  BY RunStable, BecomesFrame
<1> QED BY <1>1, <1>2 DEF HonestInv

(* Every step keeps what the runners and the stored states say in agreement with the jobs. *)
LEMMA HonestStep ==
  TypeOK /\ TypeOK' /\ ShapeInv /\ HonestInv /\ [Next]_vars => HonestInv'
<1> SUFFICES ASSUME TypeOK, TypeOK', ShapeInv, HonestInv, [Next]_vars
             PROVE  HonestInv'
  OBVIOUS
<1>0. JobsGrow /\ JobsHonest /\ JobsHonest'
  BY JobsForward DEF HonestInv
<1>a. ASSUME NEW run, run.pc \in {"idle", "scan", "setkey", "units"}
      PROVE  RunHonest(run, jobs', now')
  BY <1>a DEF RunHonest
<1>b. ASSUME NEW r \in Runners
      PROVE  /\ runner[r] \in RunnerState /\ runner[r].st \in PSState
             /\ RunHonest(runner[r], jobs, now) /\ RunShape(runner[r])
             /\ RunHonest(NextUnit(runner[r]), jobs', now')
  <2>1. /\ runner[r] \in RunnerState /\ runner[r].st \in PSState
        /\ RunHonest(runner[r], jobs, now) /\ RunShape(runner[r])
    BY DEF TypeOK, RunnerState, HonestInv, ShapeInv
  <2> QED BY <2>1, NextUnitPc, <1>a
<1>1. ASSUME UNCHANGED <<state, runner>> PROVE HonestInv'
  BY <1>0, <1>1, RunStable DEF HonestInv
<1>2. ASSUME NEW r \in Runners, RunStart(r) PROVE HonestInv'
  <2> DEFINE run(base) == [IdleRunner EXCEPT
                             !.pc = IF base = 0 THEN "units" ELSE "scan",
                             !.base = base, !.todo = Units]
  <2>1. PICK base : Becomes(r, run(base))
    BY <1>2 DEF RunStart
  <2>2. run(base).pc \in {"scan", "units"}
    BY DEF IdleRunner
  <2> HIDE DEF run
  <2>3. RunHonest(run(base), jobs', now')
    BY <2>2, <1>a
  <2> QED BY <2>1, <2>3, <1>2, <1>0, HonestBecomes DEF RunStart
<1>3. ASSUME NEW r \in Runners, RunAborts(r) PROVE HonestInv'
  <2>1. RunHonest(IdleRunner, jobs', now')
    BY <1>a DEF IdleRunner
  <2> QED BY <2>1, <1>3, <1>0, HonestBecomes DEF RunAborts
<1>4. ASSUME NEW r \in Runners, ScanChanges(r) PROVE HonestInv'
  <2> DEFINE run(changed) == [runner[r] EXCEPT !.pc = "setkey",
                                !.last = lastCl, !.changed = changed]
  <2>1. PICK changed : Becomes(r, run(changed))
    BY <1>4 DEF ScanChanges
  <2>2. run(changed).pc = "setkey"
    BY <1>b DEF RunnerState
  <2> HIDE DEF run
  <2>3. RunHonest(run(changed), jobs', now')
    BY <2>2, <1>a
  <2> QED BY <2>1, <2>3, <1>4, <1>0, HonestBecomes DEF ScanChanges
<1>5. ASSUME NEW r \in Runners, SetLastCl(r) PROVE HonestInv'
  <2> DEFINE run == [runner[r] EXCEPT !.pc = "units"]
  <2>1. Becomes(r, run) /\ UNCHANGED state
    BY <1>5 DEF SetLastCl
  <2>2. run.pc = "units"
    BY <1>b DEF RunnerState
  <2> HIDE DEF run
  <2>3. RunHonest(run, jobs', now')
    BY <2>2, <1>a
  <2> QED BY <2>1, <2>3, <1>0, HonestBecomes
<1>6. ASSUME NEW r \in Runners, ReadState(r) PROVE HonestInv'
  <2>1. UNCHANGED state
        /\ \E v \in runner[r].todo :
             LET q == [runner[r] EXCEPT !.todo = @ \ {v}, !.unit = v]
             IN \/ Becomes(r, [q EXCEPT !.pc = "update", !.st = state[v]])
                \/ Becomes(r, NextUnit(q))
    BY <1>6 DEF ReadState
  <2>2. PICK u \in runner[r].todo :
          LET q == [runner[r] EXCEPT !.todo = @ \ {u}, !.unit = u]
          IN \/ Becomes(r, [q EXCEPT !.pc = "update", !.st = state[u]])
             \/ Becomes(r, NextUnit(q))
    BY <2>1
  <2> DEFINE run == [runner[r] EXCEPT !.todo = @ \ {u}, !.unit = u]
             read == [run EXCEPT !.pc = "update", !.st = state[u]]
  <2>3. u \in Units /\ run \in RunnerState /\ run.unit = u
    BY <1>b DEF RunnerState
  <2>4. read.pc = "update" /\ read.unit = u /\ read.st = state[u]
    BY <2>3 DEF RunnerState
  <2>5. Becomes(r, read) \/ Becomes(r, NextUnit(run))
    BY <2>2
  <2>6. NextUnit(run).pc \in {"idle", "units"}
    BY <2>3, NextUnitPc
  <2> HIDE DEF run, read
  <2>7. Honest(u, state[u], jobs', now')
    BY <2>3, <1>0, RunStable
  <2>8. RunHonest(read, jobs', now') /\ RunHonest(NextUnit(run), jobs', now')
    BY <2>4, <2>6, <2>7, <1>a DEF RunHonest
  <2> QED BY <2>1, <2>5, <2>8, <1>0, HonestBecomes
<1>7. ASSUME NEW r \in Runners, PendingWait(r) \/ SendFails(r) PROVE HonestInv'
  <2>1. Becomes(r, NextUnit(runner[r])) /\ UNCHANGED state
    BY <1>7 DEF PendingWait, SendFails
  <2> QED BY <2>1, <1>b, <1>0, HonestBecomes
<1>8. ASSUME NEW r \in Runners,
             UpdateSuccess(r) \/ UpdateFailed(r) \/ PendingRequeue(r)
      PROVE  HonestInv'
  <2> DEFINE st1 == [runner[r].st EXCEPT !.nextRetry = NoTime]
             send == [runner[r] EXCEPT !.pc = "send", !.at = now]
             retry == [runner[r] EXCEPT !.pc = "send", !.at = now, !.st = st1]
  <2>1. UNCHANGED <<state, now>> /\ runner[r].pc = "update"
        /\ \/ Becomes(r, NextUnit(runner[r]))
           \/ Becomes(r, send)
           \/ Becomes(r, retry)
    BY <1>8 DEF UpdateSuccess, UpdateFailed, PendingRequeue
  <2>2. /\ st1 \in PSState /\ st1.task = runner[r].st.task
        /\ st1.lastTime = runner[r].st.lastTime
        /\ st1.lastCl = runner[r].st.lastCl
    BY <1>b DEF PSState, Time
  <2>3. /\ send.pc = "send" /\ send.at = now /\ send.unit = runner[r].unit
        /\ send.st = runner[r].st
    BY <1>b DEF RunnerState
  <2>4. /\ retry.pc = "send" /\ retry.at = now /\ retry.unit = runner[r].unit
        /\ retry.st = st1
    BY <1>b DEF RunnerState
  <2> HIDE DEF st1, send, retry
  <2>5. Honest(runner[r].unit, runner[r].st, jobs', now')
    BY <2>1, <1>0, RunStable DEF RunHonest
  <2>6. Honest(runner[r].unit, st1, jobs', now')
    BY <2>2, <2>5 DEF Honest, Tracks, Backed
  <2>7. now <= now'
    BY <1>0 DEF JobsGrow
  <2>8. RunHonest(send, jobs', now') /\ RunHonest(retry, jobs', now')
    BY <2>3, <2>4, <2>5, <2>6, <2>7 DEF RunHonest
  <2> QED BY <2>1, <2>8, <1>b, <1>0, HonestBecomes
<1>9. ASSUME NEW r \in Runners, PendingSucceeded(r) PROVE HonestInv'
  <2> DEFINE st == runner[r].st
             new == SuccessState(st)
             run == [runner[r] EXCEPT !.pc = "write", !.st = new]
  <2>1. /\ UNCHANGED <<state, now>> /\ runner[r].pc = "update"
        /\ st.status = "PENDING" /\ task[st.task.key] = "SUCCESS"
        /\ Becomes(r, run)
    BY <1>9 DEF PendingSucceeded
  <2>2. st.task.key # NoKey /\ st.task.key \in TaskKeys
    BY <2>1, <1>b DEF RunShape, Shaped, PSState, Task
  <2>3. /\ new.lastTime = now /\ new.lastCl = st.task.cl
        /\ new.task.key = NoKey
    BY <1>b DEF SuccessState, PSState, NoTask
  <2>4. run.pc = "write" /\ run.unit = runner[r].unit /\ run.st = new
    BY <1>b DEF RunnerState
  <2> HIDE DEF new, run
  <2>5. /\ Tracks(runner[r].unit, st, jobs', now')
        /\ jobs'[st.task.key].result = "SUCCESS"
    <3>1. jobs[st.task.key].result = "SUCCESS" /\ jobs[st.task.key].pc # "unsent"
      BY <1>0, <2>1, <2>2 DEF JobsHonest
    <3> QED BY <3>1, <1>0, <2>1, <2>2, RunStable DEF RunHonest, Honest, JobsGrow
  <2>6. Honest(runner[r].unit, new, jobs', now')
    BY <2>1, <2>2, <2>3, <2>5 DEF Honest, Tracks, Backed
  <2>7. RunHonest(run, jobs', now')
    BY <2>4, <2>6 DEF RunHonest
  <2> QED BY <2>1, <2>7, <1>0, HonestBecomes
<1>10. ASSUME NEW r \in Runners, PendingFailed(r) PROVE HonestInv'
  <2> DEFINE st == runner[r].st
             new == FailedState(st)
             run == [runner[r] EXCEPT !.pc = "write", !.st = new]
  <2>1. UNCHANGED state /\ runner[r].pc = "update" /\ Becomes(r, run)
    BY <1>10 DEF PendingFailed
  <2>2. /\ new.lastTime = st.lastTime /\ new.lastCl = st.lastCl
        /\ new.task.key = NoKey
    BY <1>b DEF FailedState, PSState, NoTask
  <2>3. run.pc = "write" /\ run.unit = runner[r].unit /\ run.st = new
    BY <1>b DEF RunnerState
  <2> HIDE DEF new, run
  <2>4. Honest(runner[r].unit, st, jobs', now')
    BY <2>1, <1>0, RunStable DEF RunHonest
  <2>5. Honest(runner[r].unit, new, jobs', now')
    BY <2>2, <2>4 DEF Honest, Tracks, Backed
  <2>6. RunHonest(run, jobs', now')
    BY <2>3, <2>5 DEF RunHonest
  <2> QED BY <2>1, <2>6, <1>0, HonestBecomes
<1>11. ASSUME NEW r \in Runners, NEW k \in TaskKeys, Send(r, k) PROVE HonestInv'
  <2> DEFINE new == PendingState(runner[r], k)
             run == [runner[r] EXCEPT !.pc = "write", !.st = new]
  <2>1. /\ UNCHANGED <<state, now>> /\ runner[r].pc = "send"
        /\ Becomes(r, run) \/ Becomes(r, NextUnit(runner[r]))
    BY <1>11 DEF Send
  <2>2. /\ new.lastTime = runner[r].st.lastTime
        /\ new.lastCl = runner[r].st.lastCl
        /\ new.task.key = k /\ new.task.cl = runner[r].base
    BY <1>b DEF PendingState, PSState
  <2>3. run.pc = "write" /\ run.unit = runner[r].unit /\ run.st = new
    BY <1>b DEF RunnerState
  <2>4. jobs'[k] = [pc |-> "queued", unit |-> runner[r].unit,
                    cl |-> runner[r].base, start |-> runner[r].at,
                    result |-> "none"]
    BY <1>11 DEF Send, TypeOK
  <2> HIDE DEF new, run
  <2>5. /\ runner[r].at <= now'
        /\ Honest(runner[r].unit, runner[r].st, jobs', now')
    BY <2>1, <1>0, RunStable DEF RunHonest
  <2>6. Tracks(runner[r].unit, new, jobs', now')
    BY <2>2, <2>4, <2>5 DEF Tracks
  <2>7. Backed(runner[r].unit, new, jobs')
    BY <2>2, <2>5 DEF Honest, Backed
  <2>8. RunHonest(run, jobs', now')
    BY <2>3, <2>6, <2>7 DEF RunHonest, Honest
  <2> QED BY <2>1, <2>8, <1>b, <1>0, HonestBecomes
<1>12. ASSUME NEW r \in Runners, WriteState(r) PROVE HonestInv'
  <2>1. /\ runner[r].pc = "write" /\ Becomes(r, NextUnit(runner[r]))
        /\ \A u \in Units : \/ state'[u] = state[u]
                            \/ u = runner[r].unit /\ state'[u] = runner[r].st
    BY <1>12 DEF WriteState, TypeOK
  <2>2. Honest(runner[r].unit, runner[r].st, jobs', now')
    BY <2>1, <1>0, RunStable DEF RunHonest
  <2>3. \A u \in Units : Honest(u, state'[u], jobs', now')
    BY <2>1, <2>2, <1>0, RunStable
  <2>4. \A x \in Runners : RunHonest(runner'[x], jobs', now')
    BY <2>1, <1>b, <1>0, RunStable, BecomesFrame
  <2> QED BY <2>3, <2>4, <1>0 DEF HonestInv
<1> QED
  BY <1>1, <1>2, <1>3, <1>4, <1>5, <1>6, <1>7, <1>8, <1>9, <1>10, <1>11, <1>12
  DEF Next, RunnerStep, JobStep, Tick, Submit, JobStarts, JobDropped, JobEnds,
      JobDies, vars

(* last_postsubmit_cl always names a CL at which a job of that very unit   *)
(* ran and succeeded, for any number of overlapping runs and any faults.   *)
THEOREM HonestCorrect == Spec => []HonestSuccess
<1>1. Init => ShapeInv /\ HonestInv
  BY DEF Init, ShapeInv, StateShape, Shaped, RunShape, ZeroState, NoTask,
         IdleRunner, HonestInv, JobsHonest, UnsentJob, Honest, Tracks, Backed,
         RunHonest
<1>2. TypeOK /\ ShapeInv /\ [Next]_vars => ShapeInv'
  BY ShapeStep
<1>3. TypeOK /\ TypeOK' /\ ShapeInv /\ HonestInv /\ [Next]_vars => HonestInv'
  BY HonestStep
<1>4. HonestInv => HonestSuccess
  BY DEF HonestInv, HonestSuccess, Honest, Backed
<1> QED BY <1>1, <1>2, <1>3, <1>4, TypeCorrect, PTL DEF Spec

-----------------------------------------------------------------------------
(* No CL falls between two scans.  A run works with the key it read, which *)
(* an overlapping run may have changed since; the invariant is that up to  *)
(* that value, too, everything has been scanned.                           *)

ScannedUpTo(cl, base, S) == \A c \in CLs : base < c /\ c <= cl => c \in S

ScanInv ==
  /\ ScannedUpTo(lastCl, baseline, scanned)
  /\ \A r \in Runners :
       runner[r].pc = "setkey" => ScannedUpTo(runner[r].last, baseline, scanned)

(* A run that does not get to its KeySet changes nothing here. *)
LEMMA ScanBecomes ==
  ASSUME TypeOK, ScanInv, UNCHANGED <<lastCl, baseline, scanned>>,
         NEW r \in Runners, NEW run, Becomes(r, run), run.pc # "setkey"
  PROVE  ScanInv'
BY BecomesFrame DEF ScanInv, ScannedUpTo

(* Every step keeps scanned all the changes up to the stored key, and up to the key a runner is about to store. *)
LEMMA ScanStep == TypeOK /\ ScanInv /\ [Next]_vars => ScanInv'
<1> SUFFICES ASSUME TypeOK, ScanInv, [Next]_vars PROVE ScanInv'
  OBVIOUS
<1>a. ASSUME NEW r \in Runners
      PROVE  runner[r] \in RunnerState /\ NextUnit(runner[r]).pc # "setkey"
  BY NextUnitPc DEF TypeOK
<1>1. ASSUME UNCHANGED <<lastCl, baseline, scanned, runner>> PROVE ScanInv'
  BY <1>1 DEF ScanInv, ScannedUpTo
<1>2. ASSUME NEW r \in Runners, ScanChanges(r) PROVE ScanInv'
  <2> DEFINE run(changed) == [runner[r] EXCEPT !.pc = "setkey",
                                !.last = lastCl, !.changed = changed]
  <2>1. PICK changed : Becomes(r, run(changed))
    BY <1>2 DEF ScanChanges
  <2>2. run(changed).last = lastCl
    BY <1>a DEF RunnerState
  <2> HIDE DEF run
  <2>3. \A x \in Runners : runner'[x].pc = "setkey" =>
          ScannedUpTo(runner'[x].last, baseline, scanned)
    BY <2>1, <2>2, BecomesFrame DEF ScanInv
  <2>4. UNCHANGED <<lastCl, baseline, scanned>>
    BY <1>2 DEF ScanChanges
  <2> QED BY <2>3, <2>4 DEF ScanInv, ScannedUpTo
<1>3. ASSUME NEW r \in Runners, SetLastCl(r) PROVE ScanInv'
  <2> DEFINE run == [runner[r] EXCEPT !.pc = "units"]
  <2>1. run.pc = "units" /\ Becomes(r, run)
    BY <1>3, <1>a DEF RunnerState, SetLastCl
  <2>2. /\ runner[r].base \in Nat /\ runner[r].last \in Nat
        /\ baseline \in Nat /\ scanned \subseteq Nat /\ CLs \subseteq Nat
    BY <1>a, ConstantsOK DEF RunnerState, TypeOK, CLs
  <2>3. baseline <= baseline' /\ scanned \subseteq scanned' /\ baseline' \in Nat
    BY <1>3, <2>2 DEF SetLastCl
  <2>4. ASSUME NEW cl \in Nat, ScannedUpTo(cl, baseline, scanned)
        PROVE  ScannedUpTo(cl, baseline', scanned')
    BY <2>2, <2>3, <2>4 DEF ScannedUpTo
  <2>5. ScannedUpTo(lastCl', baseline', scanned')
    <3>1. CASE runner[r].last = 0
      <4>1. lastCl' = runner[r].base /\ runner[r].base <= baseline'
        BY <1>3, <3>1, <2>2 DEF SetLastCl, NewLastCl
      <4>2. ASSUME NEW c \in CLs, baseline' < c, c <= runner[r].base
            PROVE  FALSE
        BY <4>1, <4>2, <2>2, <2>3
      <4> QED BY <4>1, <4>2 DEF ScannedUpTo
    <3>2. CASE runner[r].last # 0
      <4>1. /\ lastCl' = runner[r].base /\ baseline' = baseline
            /\ scanned' = scanned \cup ScannedRange(runner[r].last, runner[r].base)
        BY <1>3, <3>2 DEF SetLastCl, NewLastCl
      <4>2. ScannedUpTo(runner[r].last, baseline, scanned)
        BY <1>3 DEF SetLastCl, ScanInv
      <4> QED BY <4>1, <4>2, <2>2 DEF ScannedUpTo, ScannedRange
    <3> QED BY <3>1, <3>2
  <2> HIDE DEF run
  <2>6. \A x \in Runners : runner'[x].pc = "setkey" =>
          ScannedUpTo(runner'[x].last, baseline', scanned')
    <3> SUFFICES ASSUME NEW x \in Runners, runner'[x].pc = "setkey"
                 PROVE  ScannedUpTo(runner'[x].last, baseline', scanned')
      OBVIOUS
    <3>1. x # r /\ runner'[x] = runner[x]
      BY <2>1, BecomesFrame
    <3>2. runner[x].last \in Nat
      BY DEF TypeOK, RunnerState
    <3> QED BY <3>1, <3>2, <2>4 DEF ScanInv
  <2> QED BY <2>5, <2>6 DEF ScanInv
<1>4. ASSUME NEW r \in Runners,
             \/ RunStart(r) \/ ReadState(r) \/ UpdateSuccess(r)
             \/ UpdateFailed(r) \/ PendingWait(r) \/ PendingRequeue(r)
             \/ PendingSucceeded(r) \/ PendingFailed(r)
             \/ (\E k \in TaskKeys : Send(r, k))
             \/ SendFails(r) \/ WriteState(r) \/ RunAborts(r)
      PROVE  ScanInv'
  <2>1. UNCHANGED <<lastCl, baseline, scanned>>
    BY <1>4 DEF RunStart, ReadState, UpdateSuccess, UpdateFailed, PendingWait,
         PendingRequeue, PendingSucceeded, PendingFailed, Send, SendFails,
         WriteState, RunAborts
  <2>2. \E run : Becomes(r, run) /\ run.pc # "setkey"
    <3>1. CASE RunStart(r)
      <4> DEFINE run(base) == [IdleRunner EXCEPT
                                 !.pc = IF base = 0 THEN "units" ELSE "scan",
                                 !.base = base, !.todo = Units]
      <4>1. PICK base : Becomes(r, run(base))
        BY <3>1 DEF RunStart
      <4>2. run(base).pc # "setkey"
        BY DEF IdleRunner
      <4> QED BY <4>1, <4>2
    <3>2. CASE ReadState(r)
      <4> DEFINE run(u) == [runner[r] EXCEPT !.todo = @ \ {u}, !.unit = u]
                 read(u) == [run(u) EXCEPT !.pc = "update", !.st = state[u]]
      <4>1. PICK u \in runner[r].todo :
              Becomes(r, read(u)) \/ Becomes(r, NextUnit(run(u)))
        BY <3>2 DEF ReadState
      <4>2. run(u) \in RunnerState
        BY <1>a DEF RunnerState
      <4>3. read(u).pc = "update" /\ NextUnit(run(u)).pc \in {"idle", "units"}
        BY <4>2, NextUnitPc DEF RunnerState
      <4> HIDE DEF run, read
      <4> QED BY <4>1, <4>3
    <3>3. CASE \/ UpdateSuccess(r) \/ PendingWait(r) \/ PendingRequeue(r)
               \/ SendFails(r) \/ WriteState(r)
      <4> DEFINE run == [runner[r] EXCEPT !.pc = "send", !.at = now]
      <4>1. Becomes(r, run) \/ Becomes(r, NextUnit(runner[r]))
        BY <3>3 DEF UpdateSuccess, PendingWait, PendingRequeue, SendFails,
                    WriteState
      <4>2. run.pc = "send"
        BY <1>a DEF RunnerState
      <4> HIDE DEF run
      <4> QED BY <4>1, <4>2, <1>a
    <3>4. CASE UpdateFailed(r)
      <4> DEFINE run == [runner[r] EXCEPT !.pc = "send", !.at = now,
                           !.st = [@ EXCEPT !.nextRetry = NoTime]]
      <4>1. Becomes(r, run) \/ Becomes(r, NextUnit(runner[r]))
        BY <3>4 DEF UpdateFailed
      <4>2. run.pc = "send"
        BY <1>a DEF RunnerState
      <4> HIDE DEF run
      <4> QED BY <4>1, <4>2, <1>a
    <3>5. CASE PendingSucceeded(r) \/ PendingFailed(r)
               \/ (\E k \in TaskKeys : Send(r, k))
      <4> DEFINE run(st) == [runner[r] EXCEPT !.pc = "write", !.st = st]
      <4>1. (\E st : Becomes(r, run(st))) \/ Becomes(r, NextUnit(runner[r]))
        BY <3>5 DEF PendingSucceeded, PendingFailed, Send
      <4>2. \A st : run(st).pc = "write"
        BY <1>a DEF RunnerState
      <4> HIDE DEF run
      <4> QED BY <4>1, <4>2, <1>a
    <3>6. CASE RunAborts(r)
      <4>1. Becomes(r, IdleRunner) /\ IdleRunner.pc # "setkey"
        BY <3>6 DEF RunAborts, IdleRunner
      <4> QED BY <4>1
    <3> QED BY <1>4, <3>1, <3>2, <3>3, <3>4, <3>5, <3>6
  <2> QED BY <2>1, <2>2, ScanBecomes
<1> QED
  BY <1>1, <1>2, <1>3, <1>4
  DEF Next, RunnerStep, JobStep, Tick, Submit, JobStarts, JobDropped, JobEnds,
      JobDies, vars

(* Every CL between the first run's and the key's has been scanned, for    *)
(* any number of overlapping runs and any faults, although the key may     *)
(* move backwards.                                                         *)
THEOREM ScanCorrect == Spec => []NoScanGap
<1>1. Init => ScanInv
  BY ConstantsOK DEF Init, ScanInv, ScannedUpTo, IdleRunner, CLs
<1>2. TypeOK /\ ScanInv /\ [Next]_vars => ScanInv'
  BY ScanStep
<1>3. ScanInv => NoScanGap
  BY DEF ScanInv, ScannedUpTo, NoScanGap
<1> QED BY <1>1, <1>2, <1>3, TypeCorrect, PTL DEF Spec

-----------------------------------------------------------------------------
(* The two properties that overlapping runs and lost writes would break.   *)
(* They hold when no two executions of the runner overlap, no run dies and *)
(* every state is written; a request that Jenkins answered with an error   *)
(* although it queued the build would be one more that nobody waits for.   *)
(* Everything else may still fail.                                         *)

Alone == \A r, s \in Runners : r = s
Written == Faults \cap {"write", "crash"} = {}
Acknowledged == "sendAck" \notin Faults

(* A run is about to write the state of u. *)
Writing(u) == \E r \in Runners : runner[r].unit = u /\ runner[r].pc = "write"

(* The only run. *)
LEMMA OnlyRun ==
  ASSUME Alone, TypeOK, NEW r \in Runners, NEW run, Becomes(r, run)
  PROVE  /\ \A x \in Runners : x = r /\ runner'[x] = run
         /\ \A u : Writing(u) <=> runner[r].unit = u /\ runner[r].pc = "write"
         /\ \A u : Writing(u)' <=> run.unit = u /\ run.pc = "write"
<1>1. \A x \in Runners : x = r /\ runner'[x] = run
  BY BecomesFrame DEF Alone
<1> QED BY <1>1 DEF Writing

-----------------------------------------------------------------------------
(* The last email.  The email goes out before the state is written, so it  *)
(* is the run's copy of the state that agrees with it until the write.     *)

Informed(u, st) ==
  /\ (mailed[u] = "success") = st.success
  /\ st.status = "FAILED" => mailed[u] = "failure"

Follows(u) == Policy[u] \in {"ON_FAILURE_AND_RECOVERY", "ALWAYS"}

RunInforms(run) ==
  run.pc \in {"update", "send", "write"} /\ Follows(run.unit) => Informed(run.unit, run.st)

MailInv ==
  /\ \A u \in Units : Follows(u) /\ ~Writing(u) => Informed(u, state[u])
  /\ \A r \in Runners : RunInforms(runner[r])

(* A step of the run that sends no email and writes no state. *)
LEMMA MailBecomes ==
  ASSUME Alone, TypeOK, MailInv, UNCHANGED <<state, mailed>>,
         NEW r \in Runners, NEW run, Becomes(r, run), runner[r].pc # "write", RunInforms(run)
  PROVE  MailInv'
<1>1. \A u \in Units : Follows(u) => Informed(u, state[u])
  BY OnlyRun DEF MailInv
<1>2. \A x \in Runners : runner'[x] = run
  BY OnlyRun
<1> QED BY <1>1, <1>2 DEF MailInv, RunInforms, Informed

(* The inductive step, one case per step of a run. *)
LEMMA MailStep ==
  ASSUME Alone, Written
  PROVE  TypeOK /\ ShapeInv /\ MailInv /\ [Next]_vars => MailInv'
<1> SUFFICES ASSUME TypeOK, ShapeInv, MailInv, [Next]_vars PROVE MailInv'
  OBVIOUS
<1>a. ASSUME NEW run, run.pc \in {"idle", "scan", "setkey", "units"}
      PROVE  RunInforms(run)
  BY <1>a DEF RunInforms
<1>b. ASSUME NEW r \in Runners
      PROVE  /\ runner[r] \in RunnerState /\ runner[r].st \in PSState
             /\ RunInforms(runner[r]) /\ RunShape(runner[r])
             /\ RunInforms(NextUnit(runner[r]))
  <2>1. /\ runner[r] \in RunnerState /\ runner[r].st \in PSState
        /\ RunInforms(runner[r]) /\ RunShape(runner[r])
    BY DEF TypeOK, RunnerState, MailInv, ShapeInv
  <2> QED BY <2>1, NextUnitPc, <1>a
<1>1. ASSUME UNCHANGED <<state, runner, mailed>> PROVE MailInv'
  BY <1>1 DEF MailInv, RunInforms, Informed, Writing
<1>2. ASSUME NEW r \in Runners, RunStart(r) PROVE MailInv'
  <2> DEFINE run(base) == [IdleRunner EXCEPT
                             !.pc = IF base = 0 THEN "units" ELSE "scan",
                             !.base = base, !.todo = Units]
  <2>1. UNCHANGED <<state, mailed>> /\ runner[r].pc = "idle" /\ \E base : Becomes(r, run(base))
    BY <1>2 DEF RunStart
  <2>2. PICK base : Becomes(r, run(base))
    BY <2>1
  <2>3. run(base).pc \in {"scan", "units"}
    BY DEF IdleRunner
  <2> HIDE DEF run
  <2> QED BY <2>1, <2>2, <2>3, <1>a, MailBecomes
<1>3. ASSUME NEW r \in Runners, ScanChanges(r) PROVE MailInv'
  <2> DEFINE run(changed) == [runner[r] EXCEPT !.pc = "setkey",
                                !.last = lastCl, !.changed = changed]
  <2>1. UNCHANGED <<state, mailed>> /\ runner[r].pc = "scan" /\ \E c : Becomes(r, run(c))
    BY <1>3 DEF ScanChanges
  <2>2. PICK changed : Becomes(r, run(changed))
    BY <2>1
  <2>3. run(changed).pc = "setkey"
    BY <1>b DEF RunnerState
  <2> HIDE DEF run
  <2> QED BY <2>1, <2>2, <2>3, <1>a, MailBecomes
<1>4. ASSUME NEW r \in Runners, SetLastCl(r) PROVE MailInv'
  <2> DEFINE run == [runner[r] EXCEPT !.pc = "units"]
  <2>1. UNCHANGED <<state, mailed>> /\ runner[r].pc = "setkey" /\ Becomes(r, run)
    BY <1>4 DEF SetLastCl
  <2>2. run.pc = "units"
    BY <1>b DEF RunnerState
  <2> HIDE DEF run
  <2> QED BY <2>1, <2>2, <1>a, MailBecomes
<1>5. ASSUME NEW r \in Runners, ReadState(r) PROVE MailInv'
  <2> DEFINE run(u) == [runner[r] EXCEPT !.todo = @ \ {u}, !.unit = u]
             read(u) == [run(u) EXCEPT !.pc = "update", !.st = state[u]]
  <2>1. /\ UNCHANGED <<state, mailed>> /\ runner[r].pc = "units"
        /\ \E v \in runner[r].todo : Becomes(r, read(v)) \/ Becomes(r, NextUnit(run(v)))
    BY <1>5 DEF ReadState
  <2>2. PICK u \in runner[r].todo : Becomes(r, read(u)) \/ Becomes(r, NextUnit(run(u)))
    BY <2>1
  <2>3. u \in Units /\ run(u) \in RunnerState
    BY <1>b DEF RunnerState
  <2>4. read(u).pc = "update" /\ read(u).unit = u /\ read(u).st = state[u]
    BY <2>3 DEF RunnerState
  <2>5. NextUnit(run(u)).pc \in {"idle", "units"}
    BY <2>3, NextUnitPc
  <2> HIDE DEF run, read
  <2>6. Follows(u) => Informed(u, state[u])
    BY <2>1, <2>2, <2>3, OnlyRun DEF MailInv
  <2>7. RunInforms(read(u))
    BY <2>4, <2>6 DEF RunInforms
  <2> QED BY <2>1, <2>2, <2>5, <2>7, <1>a, MailBecomes
<1>6. ASSUME NEW r \in Runners, UpdateSuccess(r) \/ UpdateFailed(r) \/ PendingRequeue(r)
      PROVE  MailInv'
  <2> DEFINE st1 == [runner[r].st EXCEPT !.nextRetry = NoTime]
             send == [runner[r] EXCEPT !.pc = "send", !.at = now]
             retry == [runner[r] EXCEPT !.pc = "send", !.at = now, !.st = st1]
  <2>1. UNCHANGED <<state, mailed>> /\ runner[r].pc = "update"
        /\ \/ Becomes(r, NextUnit(runner[r]))
           \/ Becomes(r, send)
           \/ Becomes(r, retry)
    BY <1>6 DEF UpdateSuccess, UpdateFailed, PendingRequeue
  <2>2. st1.success = runner[r].st.success /\ st1.status = runner[r].st.status
    BY <1>b DEF PSState
  <2>3. send.pc = "send" /\ send.unit = runner[r].unit /\ send.st = runner[r].st
    BY <1>b DEF RunnerState
  <2>4. retry.pc = "send" /\ retry.unit = runner[r].unit /\ retry.st = st1
    BY <1>b DEF RunnerState
  <2> HIDE DEF st1, send, retry
  <2>5. RunInforms(send) /\ RunInforms(retry)
    BY <1>b, <2>1, <2>2, <2>3, <2>4 DEF RunInforms, Informed
  <2> QED BY <2>1, <2>5, <1>b, MailBecomes
<1>7. ASSUME NEW r \in Runners, PendingWait(r) \/ SendFails(r) PROVE MailInv'
  <2>1. /\ Becomes(r, NextUnit(runner[r])) /\ UNCHANGED <<state, mailed>>
        /\ runner[r].pc # "write"
    BY <1>7 DEF PendingWait, SendFails
  <2> QED BY <2>1, <1>b, MailBecomes
<1>8. ASSUME NEW r \in Runners, NEW k \in TaskKeys, Send(r, k) PROVE MailInv'
  <2> DEFINE new == PendingState(runner[r], k)
             run == [runner[r] EXCEPT !.pc = "write", !.st = new]
  <2>1. /\ UNCHANGED <<state, mailed>> /\ runner[r].pc = "send"
        /\ Becomes(r, run) \/ Becomes(r, NextUnit(runner[r]))
    BY <1>8 DEF Send
  <2>2. new.success = runner[r].st.success /\ new.status = "PENDING"
    BY <1>b DEF PendingState, PSState
  <2>3. run.pc = "write" /\ run.unit = runner[r].unit /\ run.st = new
    BY <1>b DEF RunnerState
  <2> HIDE DEF new, run
  <2>4. RunInforms(run)
    BY <1>b, <2>1, <2>2, <2>3 DEF RunInforms, Informed
  <2> QED BY <2>1, <2>4, <1>b, MailBecomes
<1>9. ASSUME NEW r \in Runners, PendingSucceeded(r) \/ PendingFailed(r) PROVE MailInv'
  <2> DEFINE u == runner[r].unit
             st == runner[r].st
             good == SuccessState(st)
             bad == FailedState(st)
             run(new) == [runner[r] EXCEPT !.pc = "write", !.st = new]
  <2>1. u \in Units /\ UNCHANGED state /\ runner[r].pc = "update"
    BY <1>9, <1>b DEF PendingSucceeded, PendingFailed, RunShape
  <2>2. /\ good.success = TRUE /\ good.status = "SUCCESS"
        /\ bad.success = FALSE /\ bad.status = "FAILED"
    BY <1>b DEF SuccessState, FailedState, PSState
  <2>3. \A new : run(new).pc = "write" /\ run(new).unit = u /\ run(new).st = new
    BY <1>b DEF RunnerState
  <2>4. \A v \in Units : v # u => mailed'[v] = mailed[v]
    BY <1>9 DEF PendingSucceeded, PendingFailed, TypeOK
  <2>5. Follows(u) => Informed(u, st)
    BY <1>b, <2>1 DEF RunInforms
  <2>6. \/ Becomes(r, run(good)) /\ (Follows(u) => mailed'[u] = "success")
        \/ Becomes(r, run(bad)) /\ (Follows(u) => mailed'[u] = "failure")
    <3>1. CASE PendingSucceeded(r)
      <4>1. Becomes(r, run(good))
        BY <3>1 DEF PendingSucceeded
      <4>2. mailed'[u] = IF MailOnSuccess(Policy[u], st.success) THEN "success" ELSE mailed[u]
        BY <2>1, <3>1 DEF PendingSucceeded, TypeOK
      <4>3. Follows(u) => mailed'[u] = "success"
        BY <2>5, <4>2 DEF MailOnSuccess, Follows, Informed
      <4> QED BY <4>1, <4>3
    <3>2. CASE PendingFailed(r)
      <4>1. Becomes(r, run(bad))
        BY <3>2 DEF PendingFailed
      <4>2. mailed'[u] = IF MailOnFailure(Policy[u]) THEN "failure" ELSE mailed[u]
        BY <2>1, <3>2 DEF PendingFailed, TypeOK
      <4>3. Follows(u) => mailed'[u] = "failure"
        BY <4>2 DEF MailOnFailure, Follows
      <4> QED BY <4>1, <4>3
    <3> QED BY <1>9, <3>1, <3>2
  <2>7. PICK new \in {good, bad} :
          /\ Becomes(r, run(new))
          /\ Follows(u) => /\ (mailed'[u] = "success") = new.success
                           /\ new.status = "FAILED" => mailed'[u] = "failure"
    BY <2>2, <2>6
  <2>8. run(new).pc = "write" /\ run(new).unit = u /\ run(new).st = new
    BY <2>3
  <2> HIDE DEF good, bad, run
  <2>9. \A x \in Runners : RunInforms(runner[x])'
    <3>1. \A x \in Runners : runner'[x] = run(new)
      BY <2>7, OnlyRun
    <3> QED BY <2>7, <2>8, <3>1 DEF RunInforms, Informed
  <2>10. \A v \in Units : Follows(v) /\ v # u => Informed(v, state[v])'
    BY <2>1, <2>4, <2>7, OnlyRun DEF MailInv, Informed
  <2>11. \A v \in Units : ~Writing(v)' => v # u
    BY <2>7, <2>8, OnlyRun
  <2> QED BY <2>9, <2>10, <2>11 DEF MailInv
<1>10. ASSUME NEW r \in Runners, WriteState(r) PROVE MailInv'
  <2>1. /\ UNCHANGED mailed /\ runner[r].pc = "write" /\ Becomes(r, NextUnit(runner[r]))
        /\ state' = [state EXCEPT ![runner[r].unit] = runner[r].st]
    BY <1>10 DEF WriteState, Written
  <2>2. \A u \in Units : Follows(u) => Informed(u, state'[u])
    <3> SUFFICES ASSUME NEW u \in Units, Follows(u) PROVE Informed(u, state'[u])
      OBVIOUS
    <3>1. CASE u = runner[r].unit
      <4>1. state'[u] = runner[r].st
        BY <2>1, <3>1 DEF TypeOK
      <4> QED BY <1>b, <2>1, <3>1, <4>1 DEF RunInforms
    <3>2. CASE u # runner[r].unit
      <4>1. state'[u] = state[u]
        BY <2>1, <3>2 DEF TypeOK
      <4> QED BY <2>1, <3>2, <4>1, OnlyRun DEF MailInv
    <3> QED BY <3>1, <3>2
  <2>3. \A x \in Runners : runner'[x] = NextUnit(runner[r])
    BY <2>1, OnlyRun
  <2>4. RunInforms(NextUnit(runner[r]))
    BY <1>b
  <2> QED BY <2>1, <2>2, <2>3, <2>4 DEF MailInv, RunInforms, Informed
<1>11. ASSUME NEW r \in Runners, RunAborts(r) PROVE MailInv'
  BY <1>11 DEF RunAborts, Written
<1> QED
  BY <1>1, <1>2, <1>3, <1>4, <1>5, <1>6, <1>7, <1>8, <1>9, <1>10, <1>11
  DEF Next, RunnerStep, JobStep, Tick, Submit, JobStarts, JobDropped, JobEnds,
      JobDies, vars

(* Owners who asked for recoveries have been told last what the stored     *)
(* state says, for any number of units and any outcome of their jobs, as   *)
(* long as runs do not overlap or die and states are written.              *)
THEOREM MailCorrect ==
  ASSUME Alone, Written
  PROVE  Spec => []MailAgrees
<1>1. Init => ShapeInv /\ MailInv
  <2>1. Init => ShapeInv
    BY DEF Init, ShapeInv, StateShape, Shaped, RunShape, ZeroState, NoTask, IdleRunner
  <2>2. Init => MailInv
    <3> SUFFICES ASSUME Init PROVE MailInv
      OBVIOUS
    <3>1. \A r \in Runners : RunInforms(runner[r])
      BY DEF Init, IdleRunner, RunInforms
    <3>2. ASSUME NEW u \in Units PROVE Informed(u, state[u])
      <4>1. mailed[u] = "none" /\ state[u].success = FALSE /\ state[u].status = "SUCCESS"
        BY DEF Init, ZeroState
      <4> QED BY <4>1 DEF Informed
    <3> QED BY <3>1, <3>2 DEF MailInv
  <2> QED BY <2>1, <2>2
<1>2. TypeOK /\ ShapeInv /\ [Next]_vars => ShapeInv'
  BY ShapeStep
<1>3. TypeOK /\ ShapeInv /\ MailInv /\ [Next]_vars => MailInv'
  BY MailStep
<1>4. MailInv => MailAgrees
  BY DEF MailInv, MailAgrees, Follows, Writing, Informed
<1> QED BY <1>1, <1>2, <1>3, <1>4, TypeCorrect, PTL DEF Spec

-----------------------------------------------------------------------------
(* Requests.  What is known of a unit's jobs is what its state, stored or  *)
(* in the hands of a run, says of them: the invariant relates the state to *)
(* every job of the unit, and is judged before and after a step with the   *)
(* jobs J, the clock t, the depot D and its head h as parameters.          *)

(* A time span that is long enough between two requests. *)
Far(d) == d >= QueueTimeout \/ d >= RetryDelay \/ d >= Recent

(* At time t, every request for u but x is past, and far back or a success. *)
Spaced(u, x, t, J) ==
  \A j \in TaskKeys :
    J[j].unit = u /\ j # x =>
      J[j].start <= t /\ (J[j].result = "SUCCESS" \/ Far(t - J[j].start))

(* At time t, every job for u that may still run, but x, is past a time limit. *)
GivenUp(u, x, J, t) ==
  \A j \in TaskKeys :
    J[j].unit = u /\ J[j].pc \in {"queued", "running"} /\ j # x =>
      t - J[j].start >= QueueTimeout \/ t - J[j].start >= TaskTimeout[u]

(* A state that accounts for all the jobs of its unit. *)
Sound(u, st, J, t) ==
  /\ st.task.key # NoKey => J[st.task.key].start = st.task.start
  /\ st.lastTime <= t
  /\ GivenUp(u, st.task.key, J, t)
  /\ st.status = "SUCCESS" => Spaced(u, NoKey, st.lastTime, J)
  /\ st.status = "PENDING" => Spaced(u, st.task.key, st.task.start, J)
  /\ st.status = "FAILED" =>
       \A j \in TaskKeys : J[j].unit = u => J[j].start + RetryDelay <= st.nextRetry

(* A CL or the testing switch asks for u. *)
Asked(u, D, h) == u \in TriggerAlways \/ \E c \in 1 .. h : u \in D[c]

(* A run that may send a request. *)
Ready(run, J, t, D, h) ==
  /\ run.st.lastTime <= t
  /\ GivenUp(run.unit, NoKey, J, t)
  /\ Spaced(run.unit, NoKey, run.at, J)
  /\ \/ Asked(run.unit, D, h)
     \/ \A j \in TaskKeys : J[j].unit = run.unit => Far(run.at - J[j].start)

(* What each point of a run promises: it has read the stored state, it may *)
(* send, or the state it is about to write accounts for the jobs.          *)
RunSound(run, S, J, t, D, h) ==
  /\ run.base <= h
  /\ \A u \in run.changed : Asked(u, D, h)
  /\ run.pc = "update" => run.st = S[run.unit]
  /\ run.pc = "send" => Ready(run, J, t, D, h)
  /\ run.pc = "write" => Sound(run.unit, run.st, J, t)

(* The jobs on their own: unsent ones belong to no unit, none is from the  *)
(* future, and a verdict means that the job is over.                       *)
JobsKnown ==
  \A k \in TaskKeys :
    /\ jobs[k].pc = "unsent" => jobs[k].unit = NoUnit
    /\ jobs[k].unit # NoUnit => 0 <= jobs[k].start /\ jobs[k].start <= now
    /\ task[k] \in {"SUCCESS", "FAILED"} => jobs[k].pc = "done"

(* Between the read and the write of a unit the stored state is behind,    *)
(* and the run's copy takes over the account of the jobs.                  *)
FlightInv ==
  /\ JobsKnown /\ Paced
  /\ \A u \in Units : ~Writing(u) => Sound(u, state[u], jobs, now)
  /\ \A r \in Runners : RunSound(runner[r], state, jobs, now, depot, head)

(* A longer span is long enough too. *)
LEMMA FarGrows ==
  ASSUME NEW d \in Int, NEW e \in Int, d <= e, Far(d)
  PROVE  Far(e)
BY ConstantsOK DEF Far

(* What every step but a request does to the jobs, the clock and the depot. *)
JobsAge ==
  /\ now <= now' /\ head <= head'
  /\ \A c \in 1 .. head : depot'[c] = depot[c]
  /\ \A k \in TaskKeys :
       /\ jobs'[k].unit = jobs[k].unit /\ jobs'[k].start = jobs[k].start
       /\ jobs'[k].pc \in {"queued", "running"} => jobs[k].pc \in {"queued", "running"}
       /\ jobs[k].result = "SUCCESS" => jobs'[k].result = "SUCCESS"

(* The fields that are compared are numbers. *)
LEMMA Numbers ==
  TypeOK => /\ now \in Nat /\ head \in Nat
            /\ \A k \in TaskKeys : jobs[k].start \in Int
            /\ \A st \in PSState : st.lastTime \in Int /\ st.nextRetry \in Int
                                   /\ st.task.start \in Int
BY DEF TypeOK, Job, PSState, Task, Time, NoTime

(* What a state says of the jobs stays true as time passes. *)
LEMMA SoundAges ==
  ASSUME TypeOK, TypeOK', JobsAge, NEW u \in Units, NEW st \in PSState,
         Sound(u, st, jobs, now)
  PROVE  Sound(u, st, jobs', now')
<1>0. /\ now \in Nat /\ now' \in Nat /\ st.lastTime \in Int
      /\ \A k \in TaskKeys : jobs[k].start \in Int /\ jobs'[k].start \in Int
  BY DEF TypeOK, PSState, Job, Time, NoTime
<1>1. st.task.key # NoKey => jobs'[st.task.key].start = st.task.start
  BY DEF Sound, JobsAge, PSState, Task
<1>2. st.lastTime <= now'
  BY <1>0 DEF Sound, JobsAge
<1>3. GivenUp(u, st.task.key, jobs', now')
  <2>1. QueueTimeout \in Nat /\ TaskTimeout[u] \in Nat
    BY ConstantsOK
  <2> QED BY <1>0, <2>1 DEF Sound, JobsAge, GivenUp
<1>4. ASSUME NEW x, NEW t, Spaced(u, x, t, jobs) PROVE Spaced(u, x, t, jobs')
  BY <1>4 DEF Spaced, JobsAge
<1>5. st.status = "FAILED" =>
        \A j \in TaskKeys : jobs'[j].unit = u => jobs'[j].start + RetryDelay <= st.nextRetry
  BY DEF Sound, JobsAge
<1> QED BY <1>1, <1>2, <1>3, <1>4, <1>5 DEF Sound

(* A unit that was asked for stays asked for. *)
LEMMA AskedAges ==
  ASSUME TypeOK, TypeOK', JobsAge, NEW u, Asked(u, depot, head)
  PROVE  Asked(u, depot', head')
BY DEF Asked, JobsAge, TypeOK

(* And so does what is promised of a run that waits meanwhile. *)
LEMMA RunAges ==
  ASSUME TypeOK, TypeOK', ShapeInv, JobsAge, NEW r \in Runners,
         RunSound(runner[r], state, jobs, now, depot, head)
  PROVE  RunSound(runner[r], state, jobs', now', depot', head')
<1> DEFINE run == runner[r]
<1>0. /\ run \in RunnerState /\ run.base \in Nat /\ run.st \in PSState
      /\ head \in Nat /\ head' \in Nat /\ now \in Nat /\ now' \in Nat
      /\ \A k \in TaskKeys : jobs[k].start \in Int /\ jobs'[k].start \in Int
  BY DEF TypeOK, RunnerState, Job, Time, NoTime
<1>1. run.base <= head'
  BY <1>0 DEF RunSound, JobsAge
<1>2. \A u \in run.changed : Asked(u, depot', head')
  BY AskedAges DEF RunSound
<1>3. run.pc \in {"send", "write"} => run.unit \in Units
  BY DEF ShapeInv, RunShape
<1>4. ASSUME run.pc = "send" PROVE Ready(run, jobs', now', depot', head')
  <2>1. Ready(run, jobs, now, depot, head) /\ run.unit \in Units
    BY <1>3, <1>4 DEF RunSound
  <2>2. GivenUp(run.unit, NoKey, jobs', now')
    <3>1. QueueTimeout \in Nat /\ TaskTimeout[run.unit] \in Nat
      BY <2>1, ConstantsOK
    <3> QED BY <1>0, <2>1, <3>1 DEF Ready, JobsAge, GivenUp
  <2>3. Spaced(run.unit, NoKey, run.at, jobs')
    BY <2>1 DEF Ready, Spaced, JobsAge
  <2>4. Asked(run.unit, depot, head) => Asked(run.unit, depot', head')
    BY AskedAges
  <2>5. run.st.lastTime <= now'
    <3>1. run.st.lastTime \in Int
      BY <1>0, Numbers
    <3> QED BY <1>0, <2>1, <3>1 DEF Ready, JobsAge
  <2> QED BY <2>1, <2>2, <2>3, <2>4, <2>5 DEF Ready, JobsAge
<1>5. run.pc = "write" => Sound(run.unit, run.st, jobs', now')
  BY <1>0, <1>3, SoundAges DEF RunSound
<1> QED BY <1>1, <1>2, <1>4, <1>5 DEF RunSound

(* A step of the others: the clock, the depot or a job moves. *)
LEMMA FlightAges ==
  ASSUME TypeOK, TypeOK', ShapeInv, FlightInv, JobsAge, JobsKnown', UNCHANGED <<runner, state>>
  PROVE  FlightInv'
<1>1. Paced'
  <2>1. \A c \in 1 .. head : c \in 1 .. head' /\ depot'[c] = depot[c]
    BY DEF JobsAge, TypeOK
  <2> QED BY <2>1 DEF FlightInv, Paced, JobsAge
<1>2. \A u \in Units : ~Writing(u)' => Sound(u, state'[u], jobs', now')
  <2> SUFFICES ASSUME NEW u \in Units, ~Writing(u)' PROVE Sound(u, state'[u], jobs', now')
    OBVIOUS
  <2>1. state[u] \in PSState /\ Sound(u, state[u], jobs, now)
    BY DEF FlightInv, Writing, TypeOK
  <2> QED BY <2>1, SoundAges
<1>3. \A r \in Runners : RunSound(runner'[r], state', jobs', now', depot', head')
  BY RunAges DEF FlightInv
<1> QED BY <1>1, <1>2, <1>3 DEF FlightInv

(* A step of the run that neither asks Jenkins nor writes a state. *)
LEMMA FlightBecomes ==
  ASSUME Alone, TypeOK, FlightInv, UNCHANGED <<now, head, depot, state, task, jobs>>,
         NEW r \in Runners, NEW run, Becomes(r, run), runner[r].pc # "write",
         RunSound(run, state, jobs, now, depot, head)
  PROVE  FlightInv'
<1>1. \A u \in Units : Sound(u, state[u], jobs, now)
  BY OnlyRun DEF FlightInv
<1>2. \A x \in Runners : runner'[x] = run
  BY OnlyRun
<1>3. JobsKnown' /\ Paced'
  BY DEF FlightInv, JobsKnown, Paced
<1> QED BY <1>1, <1>2, <1>3 DEF FlightInv

(* A run between two units promises little. *)
LEMMA RestSound ==
  ASSUME NEW run \in RunnerState, NEW S, NEW J, NEW t, NEW D, NEW h \in Nat,
         run.base <= h, \A u \in run.changed : Asked(u, D, h)
  PROVE  RunSound(NextUnit(run), S, J, t, D, h)
<1>1. NextUnit(run).pc \in {"idle", "units"}
  BY NextUnitPc
<1>2. NextUnit(run).base \in {0, run.base} /\ NextUnit(run).changed \subseteq run.changed
  BY DEF NextUnit, IdleRunner, RunnerState
<1>3. NextUnit(run).base <= h
  BY <1>2 DEF RunnerState
<1> QED BY <1>1, <1>2, <1>3 DEF RunSound

(* Jobs are only born of a request, and what the task keys say of them is true. *)
LEMMA JobsKnownStep ==
  ASSUME TypeOK, TypeOK', ShapeInv, HonestInv, JobsKnown, [Next]_vars
  PROVE  JobsKnown'
<1>0. now \in Nat /\ now' \in Nat /\ \A k \in TaskKeys : jobs[k].start \in Int
  BY Numbers DEF TypeOK
<1>1. ASSUME UNCHANGED <<now, task, jobs>> PROVE JobsKnown'
  BY <1>1 DEF JobsKnown
<1>2. CASE Tick
  <2>1. now' = now + 1 /\ UNCHANGED <<task, jobs>>
    BY <1>2 DEF Tick
  <2> QED BY <1>0, <2>1 DEF JobsKnown
<1>3. ASSUME NEW r \in Runners, NEW k \in TaskKeys, Send(r, k) PROVE JobsKnown'
  <2>1. /\ UNCHANGED <<now, task>> /\ jobs[k].pc = "unsent" /\ runner[r].pc = "send"
        /\ jobs'[k] = [pc |-> "queued", unit |-> runner[r].unit, cl |-> runner[r].base,
                       start |-> runner[r].at, result |-> "none"]
        /\ \A x \in TaskKeys \ {k} : jobs'[x] = jobs[x]
    BY <1>3 DEF Send, TypeOK
  <2>2. runner[r].at \in Nat /\ runner[r].at <= now
    BY <2>1 DEF HonestInv, RunHonest, TypeOK, RunnerState
  <2>3. task[k] \notin {"SUCCESS", "FAILED"}
    BY <2>1 DEF JobsKnown
  <2> QED BY <2>1, <2>2, <2>3 DEF JobsKnown
<1>4. ASSUME NEW k \in TaskKeys, JobStep(k) PROVE JobsKnown'
  <2>1. now' = now
    BY <1>4 DEF JobStep, JobStarts, JobDropped, JobEnds, JobDies
  <2>2. \A x \in TaskKeys \ {k} : jobs'[x] = jobs[x] /\ task'[x] = task[x]
    BY <1>4 DEF JobStep, JobStarts, JobDropped, JobEnds, JobDies, TypeOK
  <2>3. jobs'[k].unit = jobs[k].unit /\ jobs'[k].start = jobs[k].start /\ jobs'[k].pc # "unsent"
    BY <1>4 DEF JobStep, JobStarts, JobDropped, JobEnds, JobDies, TypeOK, Job
  <2>4. task'[k] \in {"SUCCESS", "FAILED"} => jobs'[k].pc = "done"
    BY <1>4 DEF JobStep, JobStarts, JobDropped, JobEnds, JobDies, TypeOK, Job, JobsKnown
  <2> QED BY <2>1, <2>2, <2>3, <2>4 DEF JobsKnown
<1>5. ASSUME NEW r \in Runners, ScanChanges(r) \/ SetLastCl(r) \/ ReadState(r)
                                \/ UpdateSuccess(r) \/ UpdateFailed(r) \/ PendingWait(r)
      PROVE  UNCHANGED <<now, task, jobs>>
  BY <1>5 DEF ScanChanges, SetLastCl, ReadState, UpdateSuccess, UpdateFailed, PendingWait
<1>6. ASSUME NEW r \in Runners, PendingRequeue(r) \/ PendingSucceeded(r) \/ PendingFailed(r)
                                \/ WriteState(r) \/ RunStart(r) \/ SendFails(r) \/ RunAborts(r)
      PROVE  UNCHANGED <<now, task, jobs>>
  BY <1>6 DEF PendingRequeue, PendingSucceeded, PendingFailed, WriteState, RunStart, SendFails,
              RunAborts
<1> QED
  BY <1>1, <1>2, <1>3, <1>4, <1>5, <1>6 DEF Next, RunnerStep, Submit, vars

(* The clock, the depot and the jobs age. *)
LEMMA OthersAge ==
  ASSUME TypeOK, HonestInv,
         \/ Tick \/ UNCHANGED vars
         \/ \E touched \in SUBSET Units : Submit(touched)
         \/ \E k \in TaskKeys : JobStep(k)
  PROVE  JobsAge /\ UNCHANGED <<runner, state>>
<1>1. CASE Tick \/ UNCHANGED vars
  BY <1>1 DEF Tick, vars, JobsAge, TypeOK
<1>2. ASSUME NEW touched \in SUBSET Units, Submit(touched)
      PROVE  JobsAge /\ UNCHANGED <<runner, state>>
  <2>1. /\ head' = head + 1 /\ depot' = [depot EXCEPT ![head + 1] = touched]
        /\ UNCHANGED <<now, jobs, runner, state>>
    BY <1>2 DEF Submit
  <2>2. \A c \in 1 .. head : depot'[c] = depot[c]
    BY <2>1 DEF TypeOK
  <2> QED BY <2>1, <2>2 DEF JobsAge, TypeOK
<1>3. ASSUME NEW k \in TaskKeys, JobStep(k)
      PROVE  JobsAge /\ UNCHANGED <<runner, state>>
  <2>1. UNCHANGED <<now, head, depot, runner, state>>
    BY <1>3 DEF JobStep, JobStarts, JobDropped, JobEnds, JobDies
  <2>2. \A x \in TaskKeys \ {k} : jobs'[x] = jobs[x]
    BY <1>3 DEF JobStep, JobStarts, JobDropped, JobEnds, JobDies, TypeOK
  <2>3. /\ jobs'[k].unit = jobs[k].unit /\ jobs'[k].start = jobs[k].start
        /\ jobs[k].pc \in {"queued", "running"}
    BY <1>3 DEF JobStep, JobStarts, JobDropped, JobEnds, JobDies, TypeOK, Job
  <2>4. jobs[k].result # "SUCCESS"
    BY <2>3 DEF HonestInv, JobsHonest
  <2> QED BY <2>1, <2>2, <2>3, <2>4 DEF JobsAge, TypeOK
<1> QED BY <1>1, <1>2, <1>3

-----------------------------------------------------------------------------
(* The three ways to a request, and the three states that are written. *)

(* What Ready asks of a request for u at this moment. *)
MayRequest(u) ==
  /\ GivenUp(u, NoKey, jobs, now)
  /\ Spaced(u, NoKey, now, jobs)
  /\ \/ Asked(u, depot, head)
     \/ \A j \in TaskKeys : jobs[j].unit = u => Far(now - jobs[j].start)

(* When every request for a unit is far back, so is it at this moment. *)
LEMMA AllFar ==
  ASSUME TypeOK, JobsKnown, NEW u \in Units, GivenUp(u, NoKey, jobs, now),
         \A j \in TaskKeys : jobs[j].unit = u => Far(now - jobs[j].start)
  PROVE  MayRequest(u)
<1>1. u # NoUnit
  BY ConstantsOK
<1> QED BY <1>1 DEF MayRequest, Spaced, JobsKnown

(* checkTriggered: after a success, by a CL, by the switch or by the daily hour. *)
LEMMA MayTrigger ==
  ASSUME TypeOK, JobsKnown, NEW u \in Units, NEW st \in PSState, Sound(u, st, jobs, now),
         Shaped(st), st.status = "SUCCESS", NEW changed,
         \A v \in changed : Asked(v, depot, head), Triggered(u, changed, st, now)
  PROVE  MayRequest(u)
<1>0. /\ now \in Nat /\ st.lastTime \in Int /\ \A k \in TaskKeys : jobs[k].start \in Int
      /\ u # NoUnit /\ Recent \in Nat
  BY Numbers, ConstantsOK
<1>1. st.task.key = NoKey /\ st.lastTime <= now /\ GivenUp(u, NoKey, jobs, now)
      /\ Spaced(u, NoKey, st.lastTime, jobs)
  BY DEF Shaped, Sound
<1>2. ASSUME NEW j \in TaskKeys, jobs[j].unit = u
      PROVE  /\ j # NoKey /\ 0 <= jobs[j].start /\ jobs[j].start <= st.lastTime
             /\ jobs[j].start <= now
             /\ jobs[j].result = "SUCCESS" \/ Far(now - jobs[j].start)
  <2>1. j # NoKey /\ 0 <= jobs[j].start /\ jobs[j].start <= st.lastTime
        /\ (jobs[j].result = "SUCCESS" \/ Far(st.lastTime - jobs[j].start))
    BY <1>0, <1>1, <1>2, ConstantsOK DEF Spaced, JobsKnown
  <2>2. ASSUME Far(st.lastTime - jobs[j].start) PROVE Far(now - jobs[j].start)
    <3>1. st.lastTime - jobs[j].start <= now - jobs[j].start
      BY <1>0, <1>1
    <3> QED BY <1>0, <2>2, <3>1, FarGrows
  <2> QED BY <1>0, <1>1, <2>1, <2>2
<1>3. Spaced(u, NoKey, now, jobs)
  BY <1>2 DEF Spaced
<1>4. CASE u \in changed \/ u \in TriggerAlways
  BY <1>1, <1>3, <1>4 DEF MayRequest, Asked
<1>5. CASE st.lastTime = NoTime \/ now - st.lastTime >= Recent
  <2>1. ASSUME NEW j \in TaskKeys, jobs[j].unit = u
        PROVE  Far(now - jobs[j].start)
    <3>1. 0 <= jobs[j].start /\ jobs[j].start <= st.lastTime
      BY <1>2, <2>1
    <3>2. now - jobs[j].start >= Recent
      BY <1>0, <1>5, <3>1 DEF NoTime
    <3> QED BY <3>2 DEF Far
  <2> QED BY <1>1, <2>1, AllFar
<1> QED BY <1>4, <1>5 DEF Triggered

(* updateState: after a failure, once the retry time has come. *)
LEMMA MayRetry ==
  ASSUME TypeOK, JobsKnown, NEW u \in Units, NEW st \in PSState, Sound(u, st, jobs, now),
         Shaped(st), st.status = "FAILED", RetryDue(st)
  PROVE  MayRequest(u)
<1>0. /\ now \in Nat /\ st.nextRetry \in Int /\ \A k \in TaskKeys : jobs[k].start \in Int
      /\ RetryDelay \in Nat
  BY Numbers, ConstantsOK
<1>1. st.task.key = NoKey /\ GivenUp(u, NoKey, jobs, now) /\ now >= st.nextRetry
  BY DEF Shaped, Sound, RetryDue
<1>2. ASSUME NEW j \in TaskKeys, jobs[j].unit = u
      PROVE  Far(now - jobs[j].start)
  <2>1. jobs[j].start + RetryDelay <= st.nextRetry
    BY <1>2 DEF Sound
  <2>2. now - jobs[j].start >= RetryDelay
    BY <1>0, <1>1, <2>1
  <2> QED BY <2>2 DEF Far
<1> QED BY <1>1, <1>2, AllFar

(* processPendingTask: once the request has been in the queue for too long. *)
LEMMA MayRequeue ==
  ASSUME TypeOK, JobsKnown, NEW u \in Units, NEW st \in PSState, Sound(u, st, jobs, now),
         Shaped(st), st.status = "PENDING", QueueExpired(st)
  PROVE  MayRequest(u)
<1>0. /\ now \in Nat /\ st.task.start \in Int /\ \A k \in TaskKeys : jobs[k].start \in Int
      /\ QueueTimeout \in Nat /\ TaskTimeout[u] \in Nat
  BY Numbers, ConstantsOK
<1>1. /\ jobs[st.task.key].start = st.task.start /\ GivenUp(u, st.task.key, jobs, now)
      /\ Spaced(u, st.task.key, st.task.start, jobs) /\ now - st.task.start >= QueueTimeout
  BY DEF Shaped, Sound, QueueExpired
<1>2. ASSUME NEW j \in TaskKeys, jobs[j].unit = u
      PROVE  now - jobs[j].start >= QueueTimeout
  <2>1. jobs[j].start <= st.task.start
    BY <1>0, <1>1, <1>2 DEF Spaced
  <2> QED BY <1>0, <1>1, <2>1
<1>3. GivenUp(u, NoKey, jobs, now)
  BY <1>2 DEF GivenUp
<1> QED BY <1>2, <1>3, AllFar DEF Far

(* The verdict SUCCESS: the job is done, and the time of the verdict is not before it. *)
LEMMA SuccessSound ==
  ASSUME TypeOK, JobsHonest, JobsKnown, NEW u \in Units, NEW st \in PSState,
         Sound(u, st, jobs, now), Tracks(u, st, jobs, now), Shaped(st), st.status = "PENDING",
         task[st.task.key] = "SUCCESS"
  PROVE  Sound(u, SuccessState(st), jobs, now)
<1> DEFINE new == SuccessState(st)
           key == st.task.key
<1>0. /\ now \in Nat /\ st.task.start \in Int /\ \A k \in TaskKeys : jobs[k].start \in Int
      /\ u # NoUnit
  BY Numbers, ConstantsOK
<1>1. new.status = "SUCCESS" /\ new.lastTime = now /\ new.task.key = NoKey
  BY DEF SuccessState, PSState, NoTask
<1>2. key \in TaskKeys /\ jobs[key].unit = u /\ jobs[key].start = st.task.start
  BY DEF Shaped, PSState, Task, Tracks, Sound
<1>3. jobs[key].result = "SUCCESS" /\ jobs[key].pc = "done" /\ st.task.start <= now
  BY <1>0, <1>2 DEF JobsHonest, JobsKnown
<1>4. GivenUp(u, key, jobs, now) /\ Spaced(u, key, st.task.start, jobs)
  BY DEF Sound
<1> HIDE DEF new
<1>5. GivenUp(u, NoKey, jobs, now)
  BY <1>3, <1>4 DEF GivenUp
<1>6. ASSUME NEW j \in TaskKeys, jobs[j].unit = u
      PROVE  jobs[j].start <= now /\ (jobs[j].result = "SUCCESS" \/ Far(now - jobs[j].start))
  <2>1. CASE j = key
    BY <1>2, <1>3, <2>1
  <2>2. CASE j # key
    <3>1. /\ jobs[j].start <= st.task.start
          /\ jobs[j].result = "SUCCESS" \/ Far(st.task.start - jobs[j].start)
      BY <1>4, <1>6, <2>2 DEF Spaced
    <3>2. ASSUME Far(st.task.start - jobs[j].start) PROVE Far(now - jobs[j].start)
      <4>1. st.task.start - jobs[j].start <= now - jobs[j].start
        BY <1>0, <1>3
      <4> QED BY <1>0, <3>2, <4>1, FarGrows
    <3> QED BY <1>0, <1>3, <3>1, <3>2
  <2> QED BY <2>1, <2>2
<1>7. Spaced(u, NoKey, now, jobs)
  BY <1>6 DEF Spaced
<1>8. now <= now
  BY <1>0
<1>9. Sound(u, new, jobs, now)
  BY <1>1, <1>5, <1>7, <1>8 DEF Sound
<1> QED BY <1>9 DEF new

(* The verdict FAILED, or the end of patience: the retry lies after every request. *)
LEMMA FailureSound ==
  ASSUME TypeOK, JobsKnown, NEW u \in Units, NEW st \in PSState,
         Sound(u, st, jobs, now), Tracks(u, st, jobs, now), Shaped(st), st.status = "PENDING",
         task[st.task.key] = "FAILED" \/ TimedOut(u, st)
  PROVE  Sound(u, FailedState(st), jobs, now)
<1> DEFINE new == FailedState(st)
           key == st.task.key
<1>0. /\ now \in Nat /\ st.task.start \in Int /\ \A k \in TaskKeys : jobs[k].start \in Int
      /\ u # NoUnit /\ RetryDelay \in Nat
  BY Numbers, ConstantsOK
<1>1. /\ new.status = "FAILED" /\ new.lastTime = st.lastTime /\ new.task.key = NoKey
      /\ new.nextRetry = now + RetryDelay
  BY DEF FailedState, PSState, NoTask
<1>2. key \in TaskKeys /\ jobs[key].unit = u /\ jobs[key].start = st.task.start
  BY DEF Shaped, PSState, Task, Tracks, Sound
<1>3. jobs[key].pc = "done" \/ now - jobs[key].start >= TaskTimeout[u]
  BY <1>2 DEF JobsKnown, TimedOut
<1>4. GivenUp(u, key, jobs, now) /\ st.lastTime <= now
  BY DEF Sound
<1> HIDE DEF new
<1>5. GivenUp(u, NoKey, jobs, now)
  BY <1>3, <1>4 DEF GivenUp
<1>6. ASSUME NEW j \in TaskKeys, jobs[j].unit = u
      PROVE  jobs[j].start + RetryDelay <= new.nextRetry
  <2>1. jobs[j].start <= now
    BY <1>0, <1>6 DEF JobsKnown
  <2> QED BY <1>0, <1>1, <2>1
<1>7. Sound(u, new, jobs, now)
  BY <1>1, <1>4, <1>5, <1>6 DEF Sound
<1> QED BY <1>7 DEF new

-----------------------------------------------------------------------------
(* The request itself: k, unsent until now, becomes a job of the unit. *)

(* Two requests that are close together: the one before this was a success. *)
LEMMA SendPaced ==
  ASSUME TypeOK, JobsKnown, Paced, NEW run \in RunnerState, run.unit \in Units,
         Ready(run, jobs, now, depot, head), NEW k \in TaskKeys, jobs[k].pc = "unsent",
         UNCHANGED <<head, depot>>,
         jobs'[k].unit = run.unit, jobs'[k].start = run.at, jobs'[k].result = "none",
         \A x \in TaskKeys \ {k} : jobs'[x] = jobs[x]
  PROVE  Paced'
<1> DEFINE Close(d) == 0 <= d /\ d < QueueTimeout /\ d < RetryDelay /\ d < Recent
<1>0. /\ run.at \in Nat /\ \A x \in TaskKeys : jobs[x].start \in Int
      /\ run.unit # NoUnit /\ NoKey \notin TaskKeys
      /\ QueueTimeout \in Nat /\ RetryDelay \in Nat /\ Recent \in Nat
  BY Numbers, ConstantsOK DEF RunnerState
<1>1. ASSUME NEW j \in TaskKeys, j # k, jobs[j].unit = run.unit,
             Close(run.at - jobs[j].start) \/ Close(jobs[j].start - run.at)
      PROVE  /\ jobs[j].result = "SUCCESS"
             /\ Asked(run.unit, depot, head)
  <2>1. jobs[j].start <= run.at
        /\ (jobs[j].result = "SUCCESS" \/ Far(run.at - jobs[j].start))
    BY <1>0, <1>1 DEF Ready, Spaced
  <2>2. ~Far(run.at - jobs[j].start)
    BY <1>0, <1>1, <2>1 DEF Far
  <2> QED BY <1>1, <2>1, <2>2 DEF Ready
<1> HIDE DEF Close
<1>2. ASSUME NEW i \in TaskKeys, NEW j \in TaskKeys, i # j, jobs'[i].unit # NoUnit,
             jobs'[j].unit = jobs'[i].unit, Close(jobs'[j].start - jobs'[i].start)
      PROVE  /\ "SUCCESS" \in {jobs'[i].result, jobs'[j].result}
             /\ Asked(jobs'[i].unit, depot, head)
  <2>1. CASE i = k
    BY <1>1, <1>2, <2>1
  <2>2. CASE j = k
    BY <1>1, <1>2, <2>2
  <2>3. CASE i # k /\ j # k
    <3>1. jobs'[i] = jobs[i] /\ jobs'[j] = jobs[j]
      BY <2>3
    <3> QED BY <1>2, <3>1 DEF Paced, Asked, Close
  <2> QED BY <2>1, <2>2, <2>3
<1> QED BY <1>2 DEF Paced, Asked, Close

(* The states of the other units do not see it. *)
LEMMA SendElsewhere ==
  ASSUME TypeOK, NEW u \in Units, NEW st \in PSState, Sound(u, st, jobs, now),
         Tracks(u, st, jobs, now), NEW k \in TaskKeys, jobs[k].pc = "unsent",
         jobs'[k].unit # u, \A x \in TaskKeys \ {k} : jobs'[x] = jobs[x]
  PROVE  Sound(u, st, jobs', now)
<1>1. st.task.key # NoKey => st.task.key \in TaskKeys \ {k}
  BY DEF Tracks, PSState, Task
<1>2. \A j \in TaskKeys : jobs'[j].unit = u => jobs'[j] = jobs[j]
  OBVIOUS
<1>3. GivenUp(u, st.task.key, jobs', now)
  BY <1>2 DEF Sound, GivenUp
<1>4. ASSUME NEW x, NEW t, Spaced(u, x, t, jobs) PROVE Spaced(u, x, t, jobs')
  BY <1>2, <1>4 DEF Spaced
<1>5. st.status = "FAILED" =>
        \A j \in TaskKeys : jobs'[j].unit = u => jobs'[j].start + RetryDelay <= st.nextRetry
  BY <1>2 DEF Sound
<1>6. st.task.key # NoKey => jobs'[st.task.key].start = st.task.start
  BY <1>1 DEF Sound
<1> QED BY <1>3, <1>4, <1>5, <1>6 DEF Sound

(* The run's new copy of the state waits for it, and for nothing else. *)
LEMMA SendSound ==
  ASSUME TypeOK, NEW run \in RunnerState, run.unit \in Units,
         Ready(run, jobs, now, depot, head), NEW k \in TaskKeys,
         jobs'[k].start = run.at, \A x \in TaskKeys \ {k} : jobs'[x] = jobs[x]
  PROVE  Sound(run.unit, PendingState(run, k), jobs', now)
<1> DEFINE new == PendingState(run, k)
<1>1. /\ new.status = "PENDING" /\ new.lastTime = run.st.lastTime
      /\ new.task.key = k /\ new.task.start = run.at
  BY DEF PendingState, PSState, RunnerState
<1> HIDE DEF new
<1>2. NoKey \notin TaskKeys
  BY ConstantsOK
<1>3. GivenUp(run.unit, k, jobs', now)
  BY <1>2 DEF Ready, GivenUp
<1>4. Spaced(run.unit, k, run.at, jobs')
  BY <1>2 DEF Ready, Spaced
<1>5. Sound(run.unit, new, jobs', now)
  BY <1>1, <1>3, <1>4 DEF Sound, Ready
<1> QED BY <1>5 DEF new

(* The inductive step, one case per step of a run. *)
LEMMA FlightStep ==
  ASSUME Alone, Written, Acknowledged
  PROVE  TypeOK /\ TypeOK' /\ ShapeInv /\ HonestInv /\ FlightInv /\ [Next]_vars => FlightInv'
<1> SUFFICES ASSUME TypeOK, TypeOK', ShapeInv, HonestInv, FlightInv, [Next]_vars
             PROVE  FlightInv'
  OBVIOUS
<1> DEFINE Fine(run) == RunSound(run, state, jobs, now, depot, head)
           Still == UNCHANGED <<now, head, depot, state, task, jobs>>
<1>0. head \in Nat /\ now \in Nat /\ JobsKnown
  BY DEF TypeOK, FlightInv
<1>a. ASSUME NEW r \in Runners
      PROVE  /\ runner[r] \in RunnerState /\ runner[r].st \in PSState /\ Fine(runner[r])
             /\ RunShape(runner[r]) /\ RunHonest(runner[r], jobs, now)
             /\ runner[r].base <= head /\ \A u \in runner[r].changed : Asked(u, depot, head)
  BY DEF TypeOK, RunnerState, FlightInv, ShapeInv, HonestInv, RunSound
<1>b. ASSUME NEW r \in Runners PROVE Fine(NextUnit(runner[r]))
  BY <1>0, <1>a, RestSound
<1>c. ASSUME NEW run, run.pc \in {"idle", "scan", "setkey", "units"}, run.base <= head,
             \A u \in run.changed : Asked(u, depot, head)
      PROVE  Fine(run)
  BY <1>c DEF RunSound
<1>d. ASSUME NEW r \in Runners, runner[r].pc = "update"
      PROVE  /\ runner[r].unit \in Units
             /\ Sound(runner[r].unit, runner[r].st, jobs, now) /\ Shaped(runner[r].st)
             /\ Tracks(runner[r].unit, runner[r].st, jobs, now)
  <2>1. runner[r].unit \in Units /\ runner[r].st = state[runner[r].unit]
    BY <1>a, <1>d DEF RunShape, RunSound
  <2>2. ~Writing(runner[r].unit)
    BY <1>d DEF Alone, Writing
  <2> QED BY <1>a, <1>d, <2>1, <2>2 DEF FlightInv, RunShape, RunHonest, Honest
<1>1. CASE \/ Tick \/ UNCHANGED vars
           \/ \E touched \in SUBSET Units : Submit(touched)
           \/ \E k \in TaskKeys : JobStep(k)
  <2>1. JobsAge /\ UNCHANGED <<runner, state>>
    BY <1>1, OthersAge
  <2>2. JobsKnown'
    BY <1>0, JobsKnownStep
  <2> QED BY <2>1, <2>2, FlightAges
<1>2. ASSUME NEW r \in Runners, RunStart(r) PROVE FlightInv'
  <2> DEFINE run(base) == [IdleRunner EXCEPT
                             !.pc = IF base = 0 THEN "units" ELSE "scan",
                             !.base = base, !.todo = Units]
  <2>1. Still /\ runner[r].pc = "idle" /\ \E base \in {0, head} : Becomes(r, run(base))
    BY <1>2 DEF RunStart
  <2>2. PICK base \in {0, head} : Becomes(r, run(base))
    BY <2>1
  <2>3. run(base).pc \in {"scan", "units"} /\ run(base).base = base /\ run(base).changed = {}
    BY DEF IdleRunner
  <2>4. base <= head
    BY <1>0, <2>2
  <2> HIDE DEF run
  <2>5. Fine(run(base))
    BY <1>c, <2>3, <2>4
  <2> QED BY <2>1, <2>2, <2>5, FlightBecomes
<1>3. ASSUME NEW r \in Runners, ScanChanges(r) PROVE FlightInv'
  <2> DEFINE files == UNION {depot[c] : c \in ScannedRange(lastCl, runner[r].base)}
             run(changed) == [runner[r] EXCEPT !.pc = "setkey",
                                !.last = lastCl, !.changed = changed]
  <2>1. Still /\ runner[r].pc = "scan" /\ \E c \in SUBSET files : Becomes(r, run(c))
    BY <1>3 DEF ScanChanges
  <2>2. PICK changed \in SUBSET files : Becomes(r, run(changed))
    BY <2>1
  <2>3. /\ run(changed).pc = "setkey" /\ run(changed).base = runner[r].base
        /\ run(changed).changed = changed
    BY <1>a DEF RunnerState
  <2>4. \A c \in ScannedRange(lastCl, runner[r].base) : c \in 1 .. head
    BY <1>0, <1>a, ConstantsOK DEF ScannedRange, CLs, RunnerState
  <2>5. \A u \in changed : Asked(u, depot, head)
    BY <2>4 DEF Asked
  <2> HIDE DEF run
  <2>6. Fine(run(changed))
    BY <1>a, <1>c, <2>3, <2>5
  <2> QED BY <2>1, <2>2, <2>6, FlightBecomes
<1>4. ASSUME NEW r \in Runners, SetLastCl(r) PROVE FlightInv'
  <2> DEFINE run == [runner[r] EXCEPT !.pc = "units"]
  <2>1. Still /\ runner[r].pc = "setkey" /\ Becomes(r, run)
    BY <1>4 DEF SetLastCl
  <2>2. run.pc = "units" /\ run.base = runner[r].base /\ run.changed = runner[r].changed
    BY <1>a DEF RunnerState
  <2> HIDE DEF run
  <2>3. Fine(run)
    BY <1>a, <1>c, <2>2
  <2> QED BY <2>1, <2>3, FlightBecomes
<1>5. ASSUME NEW r \in Runners, ReadState(r) PROVE FlightInv'
  <2> DEFINE run(u) == [runner[r] EXCEPT !.todo = @ \ {u}, !.unit = u]
             read(u) == [run(u) EXCEPT !.pc = "update", !.st = state[u]]
  <2>1. /\ Still /\ runner[r].pc = "units"
        /\ \E v \in runner[r].todo : Becomes(r, read(v)) \/ Becomes(r, NextUnit(run(v)))
    BY <1>5 DEF ReadState
  <2>2. PICK u \in runner[r].todo : Becomes(r, read(u)) \/ Becomes(r, NextUnit(run(u)))
    BY <2>1
  <2>3. u \in Units /\ run(u) \in RunnerState /\ run(u).base = runner[r].base
        /\ run(u).changed = runner[r].changed
    BY <1>a DEF RunnerState
  <2>4. /\ read(u).pc = "update" /\ read(u).unit = u /\ read(u).st = state[u]
        /\ read(u).base = runner[r].base /\ read(u).changed = runner[r].changed
    BY <1>a, <2>3 DEF RunnerState
  <2> HIDE DEF run, read
  <2>5. Fine(read(u))
    BY <1>a, <2>4 DEF RunSound
  <2>6. Fine(NextUnit(run(u)))
    BY <1>0, <1>a, <2>3, RestSound
  <2> QED BY <2>1, <2>2, <2>5, <2>6, FlightBecomes
<1>6. ASSUME NEW r \in Runners, UpdateSuccess(r) \/ UpdateFailed(r) \/ PendingRequeue(r)
      PROVE  FlightInv'
  <2> DEFINE st1 == [runner[r].st EXCEPT !.nextRetry = NoTime]
             send == [runner[r] EXCEPT !.pc = "send", !.at = now]
             retry == [runner[r] EXCEPT !.pc = "send", !.at = now, !.st = st1]
  <2>1. Still /\ runner[r].pc = "update"
    BY <1>6 DEF UpdateSuccess, UpdateFailed, PendingRequeue
  <2>2. \/ Becomes(r, NextUnit(runner[r]))
        \/ MayRequest(runner[r].unit) /\ (Becomes(r, send) \/ Becomes(r, retry))
    <3>1. CASE UpdateSuccess(r)
      BY <1>0, <1>a, <1>d, <3>1, MayTrigger DEF UpdateSuccess
    <3>2. CASE UpdateFailed(r)
      BY <1>0, <1>a, <1>d, <3>2, MayRetry DEF UpdateFailed
    <3>3. CASE PendingRequeue(r)
      BY <1>0, <1>a, <1>d, <3>3, MayRequeue DEF PendingRequeue
    <3> QED BY <1>6, <3>1, <3>2, <3>3
  <2>3. st1.lastTime = runner[r].st.lastTime /\ runner[r].st.lastTime <= now
    BY <1>a, <1>d, <2>1 DEF PSState, Sound
  <2>4. /\ send.pc = "send" /\ send.unit = runner[r].unit /\ send.st = runner[r].st
        /\ send.at = now /\ send.base = runner[r].base /\ send.changed = runner[r].changed
    BY <1>a DEF RunnerState
  <2>5. /\ retry.pc = "send" /\ retry.unit = runner[r].unit /\ retry.st = st1
        /\ retry.at = now /\ retry.base = runner[r].base /\ retry.changed = runner[r].changed
    BY <1>a DEF RunnerState
  <2> HIDE DEF st1, send, retry
  <2>6. MayRequest(runner[r].unit) => Fine(send) /\ Fine(retry)
    BY <1>a, <2>3, <2>4, <2>5 DEF RunSound, Ready, MayRequest
  <2> QED BY <2>1, <2>2, <2>6, <1>b, FlightBecomes
<1>7. ASSUME NEW r \in Runners, PendingWait(r) \/ SendFails(r) PROVE FlightInv'
  <2>1. Still /\ Becomes(r, NextUnit(runner[r])) /\ runner[r].pc # "write"
    BY <1>7 DEF PendingWait, SendFails
  <2> QED BY <2>1, <1>b, FlightBecomes
<1>8. ASSUME NEW r \in Runners, NEW k \in TaskKeys, Send(r, k) PROVE FlightInv'
  <2> DEFINE old == runner[r]
             new == PendingState(old, k)
             run == [old EXCEPT !.pc = "write", !.st = new]
             born == [pc |-> "queued", unit |-> old.unit, cl |-> old.base,
                      start |-> old.at, result |-> "none"]
  <2>1. /\ UNCHANGED <<now, head, depot, state, task>> /\ old.pc = "send"
        /\ jobs[k].pc = "unsent" /\ jobs' = [jobs EXCEPT ![k] = born]
        /\ Becomes(r, run)
    BY <1>8 DEF Send, Acknowledged
  <2>2. /\ jobs'[k].unit = old.unit /\ jobs'[k].start = old.at /\ jobs'[k].result = "none"
        /\ \A x \in TaskKeys \ {k} : jobs'[x] = jobs[x]
    BY <2>1 DEF TypeOK
  <2>3. /\ run.pc = "write" /\ run.unit = old.unit /\ run.st = new
        /\ run.base = old.base /\ run.changed = old.changed
    BY <1>a DEF RunnerState
  <2>4. old \in RunnerState /\ old.unit \in Units /\ Ready(old, jobs, now, depot, head)
    BY <1>a, <2>1 DEF RunShape, RunSound
  <2>5. Sound(old.unit, new, jobs', now)
    BY <2>2, <2>4, SendSound
  <2>6. Paced'
    BY <1>0, <2>1, <2>2, <2>4, SendPaced DEF FlightInv
  <2>7. JobsKnown'
    BY <1>0, JobsKnownStep
  <2> HIDE DEF new, run
  <2>8. \A x \in Runners : runner'[x] = run
    BY <2>1, OnlyRun
  <2>9. RunSound(run, state', jobs', now', depot', head')
    BY <1>a, <2>1, <2>3, <2>5 DEF RunSound
  <2>10. ASSUME NEW u \in Units, ~Writing(u)' PROVE Sound(u, state'[u], jobs', now')
    <3>1. u # old.unit
      BY <2>1, <2>3, <2>10, OnlyRun
    <3>2. Sound(u, state[u], jobs, now) /\ Tracks(u, state[u], jobs, now)
          /\ state[u] \in PSState
      BY <2>1, OnlyRun DEF FlightInv, HonestInv, Honest, TypeOK
    <3> QED BY <2>1, <2>2, <3>1, <3>2, SendElsewhere
  <2> QED BY <2>6, <2>7, <2>8, <2>9, <2>10 DEF FlightInv
<1>9. ASSUME NEW r \in Runners, PendingSucceeded(r) \/ PendingFailed(r) PROVE FlightInv'
  <2> DEFINE u == runner[r].unit
             st == runner[r].st
             run(new) == [runner[r] EXCEPT !.pc = "write", !.st = new]
  <2>1. Still /\ runner[r].pc = "update" /\ st.status = "PENDING"
    BY <1>9 DEF PendingSucceeded, PendingFailed
  <2>2. \E new : Becomes(r, run(new)) /\ Sound(u, new, jobs, now)
    <3>1. CASE PendingSucceeded(r)
      <4>1. Sound(u, SuccessState(st), jobs, now)
        BY <1>0, <1>a, <1>d, <3>1, SuccessSound DEF PendingSucceeded, HonestInv
      <4> QED BY <3>1, <4>1 DEF PendingSucceeded
    <3>2. CASE PendingFailed(r)
      <4>1. Sound(u, FailedState(st), jobs, now)
        BY <1>0, <1>a, <1>d, <3>2, FailureSound DEF PendingFailed
      <4> QED BY <3>2, <4>1 DEF PendingFailed
    <3> QED BY <1>9, <3>1, <3>2
  <2>3. PICK new : Becomes(r, run(new)) /\ Sound(u, new, jobs, now)
    BY <2>2
  <2>4. /\ run(new).pc = "write" /\ run(new).unit = u /\ run(new).st = new
        /\ run(new).base = runner[r].base /\ run(new).changed = runner[r].changed
    BY <1>a DEF RunnerState
  <2> HIDE DEF run
  <2>5. Fine(run(new))
    BY <1>a, <2>3, <2>4 DEF RunSound
  <2> QED BY <2>1, <2>3, <2>5, FlightBecomes
<1>10. ASSUME NEW r \in Runners, WriteState(r) PROVE FlightInv'
  <2>1. /\ UNCHANGED <<now, head, depot, task, jobs>> /\ runner[r].pc = "write"
        /\ Becomes(r, NextUnit(runner[r]))
        /\ state' = [state EXCEPT ![runner[r].unit] = runner[r].st]
    BY <1>10 DEF WriteState, Written
  <2>2. \A u \in Units : Sound(u, state'[u], jobs, now)
    <3> SUFFICES ASSUME NEW u \in Units PROVE Sound(u, state'[u], jobs, now)
      OBVIOUS
    <3>1. CASE u = runner[r].unit
      <4>1. state'[u] = runner[r].st
        BY <2>1, <3>1 DEF TypeOK
      <4> QED BY <1>a, <2>1, <3>1, <4>1 DEF RunSound
    <3>2. CASE u # runner[r].unit
      <4>1. state'[u] = state[u]
        BY <2>1, <3>2 DEF TypeOK
      <4> QED BY <2>1, <3>2, <4>1, OnlyRun DEF FlightInv
    <3> QED BY <3>1, <3>2
  <2>3. \A x \in Runners : runner'[x] = NextUnit(runner[r])
    BY <2>1, OnlyRun
  <2>4. RunSound(NextUnit(runner[r]), state', jobs, now, depot, head)
    BY <1>0, <1>a, RestSound
  <2>5. JobsKnown' /\ Paced'
    BY <2>1 DEF FlightInv, JobsKnown, Paced
  <2> QED BY <2>1, <2>2, <2>3, <2>4, <2>5 DEF FlightInv
<1>11. ASSUME NEW r \in Runners, RunAborts(r) PROVE FlightInv'
  BY <1>11 DEF RunAborts, Written
<1> QED
  BY <1>1, <1>2, <1>3, <1>4, <1>5, <1>6, <1>7, <1>8, <1>9, <1>10, <1>11
  DEF Next, RunnerStep

(* A live job that nobody waits for has been given up. *)
LEMMA FlightSingle ==
  ASSUME Alone, TypeOK, ShapeInv, FlightInv
  PROVE  SingleFlight
<1> SUFFICES ASSUME NEW u \in Units, NEW k \in TaskKeys, jobs[k].unit = u,
                    jobs[k].pc \in {"queued", "running"}, k \notin Tracked(u)
             PROVE  \/ now - jobs[k].start >= QueueTimeout
                    \/ now - jobs[k].start >= TaskTimeout[u]
  BY DEF SingleFlight
<1>1. CASE ~Writing(u)
  <2>1. GivenUp(u, state[u].task.key, jobs, now) /\ k # state[u].task.key
    BY <1>1 DEF FlightInv, Sound, Tracked
  <2> QED BY <2>1 DEF GivenUp
<1>2. CASE Writing(u)
  <2>1. PICK r \in Runners : runner[r].unit = u /\ runner[r].pc = "write"
    BY <1>2 DEF Writing
  <2>2. GivenUp(u, runner[r].st.task.key, jobs, now) /\ k # runner[r].st.task.key
    BY <2>1 DEF FlightInv, RunSound, Sound, Tracked
  <2> QED BY <2>2 DEF GivenUp
<1> QED BY <1>1, <1>2

(* Requests to Jenkins are neither doubled nor too close together, for any *)
(* number of units, keys and jobs, any time limits and any failures but    *)
(* the three excluded: what updateState reads is what the last run left,   *)
(* and that accounts for every job of the unit.                            *)
THEOREM RequestsCorrect ==
  ASSUME Alone, Written, Acknowledged
  PROVE  Spec => []RequestsSound
<1>1. Init => ShapeInv
  BY DEF Init, ShapeInv, StateShape, Shaped, RunShape, ZeroState, NoTask, IdleRunner
<1>2. Init => HonestInv
  <2> SUFFICES ASSUME Init PROVE HonestInv
    OBVIOUS
  <2>1. JobsHonest
    BY DEF Init, JobsHonest, UnsentJob
  <2>2. \A u \in Units : Honest(u, state[u], jobs, now)
    BY DEF Init, Honest, Tracks, Backed, ZeroState, NoTask
  <2>3. \A r \in Runners : RunHonest(runner[r], jobs, now)
    BY DEF Init, RunHonest, IdleRunner
  <2> QED BY <2>1, <2>2, <2>3 DEF HonestInv
<1>3. Init => FlightInv
  <2> SUFFICES ASSUME Init PROVE FlightInv
    OBVIOUS
  <2>1. \A k \in TaskKeys : jobs[k].unit = NoUnit /\ task[k] = "none"
    BY DEF Init, UnsentJob
  <2>2. JobsKnown /\ Paced
    BY <2>1 DEF JobsKnown, Paced
  <2>3. ASSUME NEW u \in Units PROVE Sound(u, state[u], jobs, now)
    <3>1. \A k \in TaskKeys : jobs[k].unit # u
      BY <2>1, ConstantsOK
    <3>2. /\ state[u].task.key = NoKey /\ state[u].lastTime = NoTime
          /\ state[u].status = "SUCCESS" /\ now = 0
      BY DEF Init, ZeroState, NoTask
    <3>3. NoTime <= 0
      BY DEF NoTime
    <3> QED BY <3>1, <3>2, <3>3 DEF Sound, GivenUp, Spaced
  <2>4. ASSUME NEW r \in Runners PROVE RunSound(runner[r], state, jobs, now, depot, head)
    <3>1. runner[r].pc = "idle" /\ runner[r].base = 0 /\ runner[r].changed = {} /\ head = 0
      BY DEF Init, IdleRunner
    <3> QED BY <3>1 DEF RunSound
  <2> QED BY <2>2, <2>3, <2>4 DEF FlightInv
<1>4. TypeOK /\ ShapeInv /\ [Next]_vars => ShapeInv'
  BY ShapeStep
<1>5. TypeOK /\ TypeOK' /\ ShapeInv /\ HonestInv /\ [Next]_vars => HonestInv'
  BY HonestStep
<1>6. TypeOK /\ TypeOK' /\ ShapeInv /\ HonestInv /\ FlightInv /\ [Next]_vars => FlightInv'
  BY FlightStep
<1>7. TypeOK /\ ShapeInv /\ FlightInv => RequestsSound
  BY FlightSingle DEF RequestsSound, FlightInv
<1> QED BY <1>1, <1>2, <1>3, <1>4, <1>5, <1>6, <1>7, TypeCorrect, PTL DEF Spec
=============================================================================
