----------------------------- MODULE Postsubmit -----------------------------
(***************************************************************************)
(* The postsubmit system.  postsubmit_runner is a short program Jenkins    *)
(* starts again and again: it decides for every unit with a post_submit    *)
(* section whether the unit is due, asks Jenkins to run it, and learns     *)
(* what became of the request from a p4 key that unit_runner writes.  All  *)
(* the system's memory is in p4 keys: the last scanned CL, one state per   *)
(* unit, one task per request.                                             *)
(*                                                                         *)
(* Executions of the runner may overlap (the pipeline does not forbid      *)
(* concurrent builds), may die at any step, and every p4 or Jenkins call   *)
(* may fail; Faults names the failures a model allows.                     *)
(*                                                                         *)
(* The clock counts hours, the granularity of daily_at_utc.                *)
(***************************************************************************)
EXTENDS Integers

CONSTANTS
  Units,         \* the units with a post_submit section
  Runners,       \* slots for concurrent executions of postsubmit_runner
  TaskKeys,      \* the uuids newTaskKey draws from
  QueueTimeout,  \* timeoutTaskQueueSeconds
  TaskTimeout,   \* per unit: timeout_minutes, or timeoutTaskSecondsDefault
  RetryDelay,    \* retrySeconds
  Recent,        \* the "executed recently" window of checkTriggered
  HoursPerDay,
  DailyAt,       \* per unit: the hour of frequency.daily_at_utc, or NoDaily
  TriggerAlways, \* the units with trigger_always_for_testing
  Policy,        \* per unit: the notification policy
  Faults,        \* the kinds of failure that may happen
  MaxCL,         \* bound: CLs submitted
  MaxTime        \* bound: clock

NoTime  == -1    \* a nil timestamp
NoDaily == -1    \* frequency not set
NoKey   == "nokey"
NoUnit  == "nounit"

Policies   == {"NEVER", "ON_FAILURE", "ON_FAILURE_AND_RECOVERY", "ALWAYS"}
FaultKinds == {"read", "where", "send", "sendAck", "write", "crash",
               "jobDropped", "jobCrash"}

ASSUME ConstantsOK ==
  /\ NoKey \notin TaskKeys /\ NoUnit \notin Units
  /\ QueueTimeout \in Nat /\ RetryDelay \in Nat /\ Recent \in Nat
  /\ HoursPerDay \in Nat \ {0}
  /\ TaskTimeout \in [Units -> Nat]
  /\ DailyAt \in [Units -> Int]
  /\ TriggerAlways \subseteq Units
  /\ Policy \in [Units -> Policies]
  /\ Faults \subseteq FaultKinds
  /\ MaxCL \in Nat /\ MaxTime \in Nat

VARIABLES
  now,      \* the clock
  head,     \* the last submitted CL
  depot,    \* depot[c]: the units whose trigger_paths match a file of CL c
  lastCl,   \* p4 key sge-postsubmit-<env>-last-cl, 0 when unset
  state,    \* p4 keys sge-postsubmit-<env>:<label>, a PostSubmitState
  task,     \* p4 keys sge-postsubmit-task:<uuid>, "none" when unset
  jobs,     \* the builds of the unit pipeline in Jenkins, by task key
  runner,   \* the local state of each execution of postsubmit_runner
  scanned,  \* history: CLs whose files some run has looked at
  baseline, \* history: the highest CL a first run (no last-cl) started from
  mailed    \* history: the last email handed to the client about each unit

vars == <<now, head, depot, lastCl, state, task, jobs, runner, scanned,
          baseline, mailed>>

CLs == 1 .. MaxCL

NoTask == [key |-> NoKey, start |-> NoTime, cl |-> 0]

(* What readState returns for a key never written: p4 answers "0", which   *)
(* leaves the zero PostSubmitState, whose status is SUCCESS.               *)
ZeroState ==
  [status |-> "SUCCESS", success |-> FALSE, lastCl |-> 0, lastTime |-> NoTime,
   nextRetry |-> NoTime, task |-> NoTask]

IdleRunner ==
  [pc |-> "idle", base |-> 0, last |-> 0, changed |-> {}, todo |-> {},
   unit |-> NoUnit, st |-> ZeroState, at |-> 0]

UnsentJob ==
  [pc |-> "unsent", unit |-> NoUnit, cl |-> 0, start |-> NoTime,
   result |-> "none"]

Time   == Nat \cup {NoTime}
Task   == [key : TaskKeys \cup {NoKey}, start : Time, cl : Nat]
PSState ==
  [status : {"SUCCESS", "FAILED", "PENDING"}, success : BOOLEAN, lastCl : Nat,
   lastTime : Time, nextRetry : Time, task : Task]
Job ==
  [pc : {"unsent", "queued", "running", "done", "dead"},
   unit : Units \cup {NoUnit}, cl : Nat, start : Time,
   result : {"none", "SUCCESS", "FAILED"}]
RunnerState ==
  [pc : {"idle", "scan", "setkey", "units", "update", "send", "write"},
   base : Nat, last : Nat, changed : SUBSET Units, todo : SUBSET Units,
   unit : Units \cup {NoUnit}, st : PSState, at : Nat]

TypeOK ==
  /\ now \in Nat /\ head \in Nat /\ lastCl \in Nat /\ baseline \in Nat
  /\ depot \in [CLs -> SUBSET Units]
  /\ state \in [Units -> PSState]
  /\ task \in [TaskKeys -> {"none", "RUNNING", "SUCCESS", "FAILED"}]
  /\ jobs \in [TaskKeys -> Job]
  /\ runner \in [Runners -> RunnerState]
  /\ scanned \subseteq Nat
  /\ mailed \in [Units -> {"none", "success", "failure"}]

Init ==
  /\ now = 0 /\ head = 0 /\ lastCl = 0 /\ baseline = 0
  /\ depot = [c \in CLs |-> {}]
  /\ state = [u \in Units |-> ZeroState]
  /\ task = [k \in TaskKeys |-> "none"]
  /\ jobs = [k \in TaskKeys |-> UnsentJob]
  /\ runner = [r \in Runners |-> IdleRunner]
  /\ scanned = {}
  /\ mailed = [u \in Units |-> "none"]

-----------------------------------------------------------------------------
(* The environment. *)

Tick ==
  /\ now < MaxTime
  /\ now' = now + 1
  /\ UNCHANGED <<head, depot, lastCl, state, task, jobs, runner, scanned,
                 baseline, mailed>>

(* A CL is submitted; touched is what set.Matches will say of its files.   *)
Submit(touched) ==
  /\ head < MaxCL
  /\ head' = head + 1
  /\ depot' = [depot EXCEPT ![head + 1] = touched]
  /\ UNCHANGED <<now, lastCl, state, task, jobs, runner, scanned, baseline,
                 mailed>>

-----------------------------------------------------------------------------
(* postsubmit_runner. *)

Becomes(r, run) == runner' = [runner EXCEPT ![r] = run]

(* What a run does after a unit, processed or given up with an error: the  *)
(* next unit, or the end of run().                                         *)
NextUnit(run) ==
  IF run.todo = {}
  THEN IdleRunner
  ELSE [run EXCEPT !.pc = "units", !.unit = NoUnit, !.st = ZeroState, !.at = 0]

(* A run starts.  cirunner resolves the CL it syncs to into base_cl; a     *)
(* runner without invocation has base CL 0 and looks at no files.          *)
RunStart(r) ==
  /\ runner[r].pc = "idle"
  /\ \E base \in {0, head} :
       Becomes(r, [IdleRunner EXCEPT
                     !.pc = IF base = 0 THEN "units" ELSE "scan",
                     !.base = base, !.todo = Units])
  /\ UNCHANGED <<now, head, depot, lastCl, state, task, jobs, scanned,
                 baseline, mailed>>

ScannedRange(last, base) == {c \in CLs : last < c /\ c <= base}

(* findChangedFiles up to its KeySet: the files of the CLs after the key.  *)
(* A batch p4 where cannot map is dropped with a warning, so any part of   *)
(* the matches may be lost.                                                *)
ScanChanges(r) ==
  /\ runner[r].pc = "scan"
  /\ LET files == UNION {depot[c] : c \in ScannedRange(lastCl, runner[r].base)}
     IN \E changed \in SUBSET files :
          /\ lastCl = 0 => changed = {}
          /\ lastCl # 0 /\ "where" \notin Faults => changed = files
          /\ Becomes(r, [runner[r] EXCEPT !.pc = "setkey", !.last = lastCl,
                                          !.changed = changed])
  /\ UNCHANGED <<now, head, depot, lastCl, state, task, jobs, scanned,
                 baseline, mailed>>

(* The new value of the key; the mutant stores the CL the depot has moved  *)
(* on to instead of the one the scan went up to.                           *)
NewLastClMut(r) == head
NewLastCl(r) == runner[r].base

(* The KeySet of findChangedFiles: from here on the CLs count as seen,     *)
(* though no unit has been looked at yet.                                  *)
SetLastCl(r) ==
  /\ runner[r].pc = "setkey"
  /\ lastCl' = NewLastCl(r)
  /\ IF runner[r].last = 0
     THEN /\ baseline' = IF baseline < runner[r].base THEN runner[r].base
                                                      ELSE baseline
          /\ UNCHANGED scanned
     ELSE /\ scanned' = scanned
                        \cup ScannedRange(runner[r].last, runner[r].base)
          /\ UNCHANGED baseline
  /\ Becomes(r, [runner[r] EXCEPT !.pc = "units"])
  /\ UNCHANGED <<now, head, depot, state, task, jobs, mailed>>

(* processPostSubmitUnit: readState; a unit whose key cannot be read is    *)
(* skipped.                                                                *)
ReadState(r) ==
  /\ runner[r].pc = "units"
  /\ \E u \in runner[r].todo :
       LET run == [runner[r] EXCEPT !.todo = @ \ {u}, !.unit = u]
       IN \/ Becomes(r, [run EXCEPT !.pc = "update", !.st = state[u]])
          \/ "read" \in Faults /\ Becomes(r, NextUnit(run))
  /\ UNCHANGED <<now, head, depot, lastCl, state, task, jobs, scanned,
                 baseline, mailed>>

(* checkTriggered, at time t. *)
Triggered(u, changed, st, t) ==
  \/ u \in changed
  \/ /\ DailyAt[u] # NoDaily
     /\ t % HoursPerDay = DailyAt[u]
     /\ st.lastTime = NoTime \/ t - st.lastTime >= Recent
  \/ u \in TriggerAlways

(* updateState of a unit whose last attempt succeeded. *)
UpdateSuccess(r) ==
  LET run == runner[r] IN
  /\ run.pc = "update" /\ run.st.status = "SUCCESS"
  /\ Becomes(r, IF Triggered(run.unit, run.changed, run.st, now)
                THEN [run EXCEPT !.pc = "send", !.at = now]
                ELSE NextUnit(run))
  /\ UNCHANGED <<now, head, depot, lastCl, state, task, jobs, scanned,
                 baseline, mailed>>

(* The test of updateState on next_retry.  Mutant: a retry only at the     *)
(* very hour.                                                              *)
RetryDueExactly(st) == st.nextRetry = NoTime \/ now = st.nextRetry
RetryDue(st) == st.nextRetry = NoTime \/ now >= st.nextRetry

(* updateState of a failed unit: wait for next_retry, then try again. *)
UpdateFailed(r) ==
  LET run == runner[r] IN
  /\ run.pc = "update" /\ run.st.status = "FAILED"
  /\ Becomes(r, IF RetryDue(run.st)
                THEN [run EXCEPT !.pc = "send", !.at = now,
                                 !.st = [@ EXCEPT !.nextRetry = NoTime]]
                ELSE NextUnit(run))
  /\ UNCHANGED <<now, head, depot, lastCl, state, task, jobs, scanned,
                 baseline, mailed>>

(* The two time limits of processPendingTask, both counted from the        *)
(* request.  Mutants: the queue limit is taken as passed from the start,   *)
(* the task limit is not looked at.                                        *)
QueueExpiredMut(st) == TRUE
QueueExpired(st) == now - st.task.start >= QueueTimeout
TimedOutMut(u, st) == FALSE
TimedOut(u, st) == now - st.task.start >= TaskTimeout[u]

(* processPendingTask, no answer yet: still within the limits, or a task   *)
(* key that cannot be read.                                                *)
PendingWait(r) ==
  LET run == runner[r] IN
  /\ run.pc = "update" /\ run.st.status = "PENDING"
  /\ \/ task[run.st.task.key] = "none" /\ ~QueueExpired(run.st)
     \/ task[run.st.task.key] = "RUNNING" /\ ~TimedOut(run.unit, run.st)
     \/ "read" \in Faults
  /\ Becomes(r, NextUnit(run))
  /\ UNCHANGED <<now, head, depot, lastCl, state, task, jobs, scanned,
                 baseline, mailed>>

(* processPendingTask, stuck in the queue for too long: a new request. *)
PendingRequeue(r) ==
  LET run == runner[r] IN
  /\ run.pc = "update" /\ run.st.status = "PENDING"
  /\ task[run.st.task.key] = "none"
  /\ QueueExpired(run.st)
  /\ Becomes(r, [run EXCEPT !.pc = "send", !.at = now])
  /\ UNCHANGED <<now, head, depot, lastCl, state, task, jobs, scanned,
                 baseline, mailed>>

(* Notifier.OnSuccess and OnFailure: is the email sent?  The mutant sends  *)
(* the recovery email only to those who were never worried.                *)
MailOnSuccessMut(policy, wasHealthy) ==
  \/ policy = "ALWAYS"
  \/ policy = "ON_FAILURE_AND_RECOVERY" /\ wasHealthy
MailOnSuccess(policy, wasHealthy) ==
  \/ policy = "ALWAYS"
  \/ policy = "ON_FAILURE_AND_RECOVERY" /\ ~wasHealthy

MailOnFailure(policy) == policy # "NEVER"

(* The verdict's effect on the state.  Mutants: the CL of the depot        *)
(* instead of the CL of the task; the finished task left in place; a retry *)
(* time before the epoch.                                                  *)
SuccessStateMut(st) ==
  [st EXCEPT !.status = "SUCCESS", !.success = TRUE, !.lastCl = head,
             !.lastTime = now, !.task = NoTask]
SuccessState(st) ==
  [st EXCEPT !.status = "SUCCESS", !.success = TRUE, !.lastCl = st.task.cl,
             !.lastTime = now, !.task = NoTask]

FailedStateKeepsTask(st) ==
  [st EXCEPT !.status = "FAILED", !.success = FALSE,
             !.nextRetry = now + RetryDelay]
FailedStateBadTime(st) ==
  [st EXCEPT !.status = "FAILED", !.success = FALSE,
             !.nextRetry = NoTime - RetryDelay, !.task = NoTask]
FailedState(st) ==
  [st EXCEPT !.status = "FAILED", !.success = FALSE,
             !.nextRetry = now + RetryDelay, !.task = NoTask]

(* processPendingTask, the task succeeded. *)
PendingSucceeded(r) ==
  LET run == runner[r] IN
  /\ run.pc = "update" /\ run.st.status = "PENDING"
  /\ task[run.st.task.key] = "SUCCESS"
  /\ mailed' = [mailed EXCEPT
       ![run.unit] = IF MailOnSuccess(Policy[run.unit], run.st.success)
                     THEN "success" ELSE @]
  /\ Becomes(r, [run EXCEPT !.pc = "write", !.st = SuccessState(run.st)])
  /\ UNCHANGED <<now, head, depot, lastCl, state, task, jobs, scanned, baseline>>

(* processPendingTask, the task failed or has run past its timeout, in     *)
(* which case its job is left running.                                     *)
PendingFailed(r) ==
  LET run == runner[r] IN
  /\ run.pc = "update" /\ run.st.status = "PENDING"
  /\ \/ task[run.st.task.key] = "FAILED"
     \/ /\ task[run.st.task.key] = "RUNNING"
        /\ TimedOut(run.unit, run.st)
  /\ mailed' = [mailed EXCEPT
       ![run.unit] = IF MailOnFailure(Policy[run.unit]) THEN "failure" ELSE @]
  /\ Becomes(r, [run EXCEPT !.pc = "write", !.st = FailedState(run.st)])
  /\ UNCHANGED <<now, head, depot, lastCl, state, task, jobs, scanned, baseline>>

PendingState(run, k) ==
  [run.st EXCEPT !.status = "PENDING",
                 !.task = [key |-> k, start |-> run.at, cl |-> run.base]]

(* createPostSubmitTask: a fresh key, a request to Jenkins, and the unit   *)
(* becomes PENDING in the run's copy of its state.                         *)
Send(r, k) ==
  LET run == runner[r] IN
  /\ run.pc = "send"
  /\ jobs[k].pc = "unsent"
  /\ jobs' = [jobs EXCEPT
       ![k] = [pc |-> "queued", unit |-> run.unit, cl |-> run.base,
               start |-> run.at, result |-> "none"]]
  /\ \/ Becomes(r, [run EXCEPT !.pc = "write", !.st = PendingState(run, k)])
     \/ \* Jenkins queued the build, its answer was lost: an error here.
        "sendAck" \in Faults /\ Becomes(r, NextUnit(run))
  /\ UNCHANGED <<now, head, depot, lastCl, state, task, scanned, baseline, mailed>>

(* createPostSubmitTask returns an error; nothing is written, not even the *)
(* cleared next_retry of a failed unit.                                    *)
SendFails(r) ==
  /\ runner[r].pc = "send" /\ "send" \in Faults
  /\ Becomes(r, NextUnit(runner[r]))
  /\ UNCHANGED <<now, head, depot, lastCl, state, task, jobs, scanned,
                 baseline, mailed>>

(* processPostSubmitUnit: writeState of a dirty state, which may fail. *)
WriteState(r) ==
  LET run == runner[r] IN
  /\ run.pc = "write"
  /\ \/ state' = [state EXCEPT ![run.unit] = run.st]
     \/ "write" \in Faults /\ UNCHANGED state
  /\ Becomes(r, NextUnit(run))
  /\ UNCHANGED <<now, head, depot, lastCl, task, jobs, scanned, baseline, mailed>>

(* The run ends at once: its Jenkins build dies, or, before the units are  *)
(* looked at, a p4 call of findChangedFiles returns an error.              *)
RunAborts(r) ==
  /\ runner[r].pc # "idle" /\ "crash" \in Faults
  /\ Becomes(r, IdleRunner)
  /\ UNCHANGED <<now, head, depot, lastCl, state, task, jobs, scanned,
                 baseline, mailed>>

-----------------------------------------------------------------------------
(* unit_runner, one execution per task key. *)

(* Jenkins gives the build a node and run() acknowledges the task. *)
JobStarts(k) ==
  /\ jobs[k].pc = "queued"
  /\ jobs' = [jobs EXCEPT ![k].pc = "running"]
  /\ task' = [task EXCEPT ![k] = "RUNNING"]
  /\ UNCHANGED <<now, head, depot, lastCl, state, runner, scanned, baseline,
                 mailed>>

(* The build is lost before the acknowledgement, or its write fails. *)
JobDropped(k) ==
  /\ jobs[k].pc = "queued" /\ "jobDropped" \in Faults
  /\ jobs' = [jobs EXCEPT ![k].pc = "dead"]
  /\ UNCHANGED <<now, head, depot, lastCl, state, task, runner, scanned,
                 baseline, mailed>>

(* execute() returned and the verdict is written. *)
JobEnds(k, result) ==
  /\ jobs[k].pc = "running"
  /\ jobs' = [jobs EXCEPT ![k].pc = "done", ![k].result = result]
  /\ task' = [task EXCEPT ![k] = result]
  /\ UNCHANGED <<now, head, depot, lastCl, state, runner, scanned, baseline,
                 mailed>>

(* The build dies while executing, or the write of the verdict fails: the  *)
(* key says RUNNING for ever.                                              *)
JobDies(k) ==
  /\ jobs[k].pc = "running" /\ "jobCrash" \in Faults
  /\ jobs' = [jobs EXCEPT ![k].pc = "dead"]
  /\ UNCHANGED <<now, head, depot, lastCl, state, task, runner, scanned,
                 baseline, mailed>>

-----------------------------------------------------------------------------

RunnerStep(r) ==
  \/ ScanChanges(r) \/ SetLastCl(r) \/ ReadState(r)
  \/ UpdateSuccess(r) \/ UpdateFailed(r)
  \/ PendingWait(r) \/ PendingRequeue(r)
  \/ PendingSucceeded(r) \/ PendingFailed(r)
  \/ \E k \in TaskKeys : Send(r, k)
  \/ WriteState(r)

JobStep(k) ==
  \/ JobStarts(k) \/ JobDropped(k) \/ JobDies(k)
  \/ \E result \in {"SUCCESS", "FAILED"} : JobEnds(k, result)

Next ==
  \/ Tick
  \/ \E touched \in SUBSET Units : Submit(touched)
  \/ \E r \in Runners : RunStart(r) \/ RunnerStep(r) \/ SendFails(r)
                        \/ RunAborts(r)
  \/ \E k \in TaskKeys : JobStep(k)

Spec == Init /\ [][Next]_vars

(* Jenkins starts the runner again and again and lets a run finish; the    *)
(* clock moves.  Nothing is assumed of submissions, or of the jobs.        *)
Fairness ==
  /\ WF_vars(Tick)
  /\ \A r \in Runners : WF_vars(RunStart(r)) /\ WF_vars(RunnerStep(r))

FairSpec == Spec /\ Fairness

-----------------------------------------------------------------------------
(* Safety. *)

(* "Current task when in status == PENDING", "Next time to retry when in   *)
(* status == FAILED" (postsubmit.proto): processPendingTask dereferences   *)
(* state.Task without a test, so a stored PENDING state without task would *)
(* kill every later run, and a FAILED one without retry time is retried by *)
(* every run.                                                              *)
Shaped(st) ==
  /\ st.status = "PENDING" <=> st.task.key # NoKey
  /\ st.status = "FAILED" <=> st.nextRetry # NoTime

StateShape == \A u \in Units : Shaped(state[u])

(* last_postsubmit_cl is never an invention: some job of this unit ran at  *)
(* exactly that CL, was requested no later than the recorded time, and     *)
(* succeeded; whatever runs overlapped and whatever was lost or re-sent.   *)
HonestSuccess ==
  \A u \in Units : state[u].lastTime # NoTime =>
    \E k \in TaskKeys :
      /\ jobs[k].unit = u /\ jobs[k].cl = state[u].lastCl
      /\ jobs[k].result = "SUCCESS" /\ jobs[k].start <= state[u].lastTime

(* No CL falls between two scans: every CL from the first run's on up to   *)
(* the key's has been in the range of some run's p4 files, although        *)
(* overlapping runs may set the key backwards.                             *)
NoScanGap ==
  \A c \in CLs : baseline < c /\ c <= lastCl => c \in scanned

Tracked(u) ==
  {state[u].task.key}
  \cup {runner[r].st.task.key : r \in {x \in Runners : runner[x].unit = u}}

(* One job per unit: with runs that do not overlap and states that are     *)
(* written, a live job the system no longer waits for was given up after   *)
(* one of the two timeouts, so the same unit is not executed twice unless  *)
(* the first execution was already written off.                            *)
SingleFlight ==
  \A u \in Units : \A k \in TaskKeys :
    (/\ jobs[k].unit = u /\ jobs[k].pc \in {"queued", "running"}
     /\ k \notin Tracked(u))
    => \/ now - jobs[k].start >= QueueTimeout
       \/ now - jobs[k].start >= TaskTimeout[u]

(* Requests for one unit are spaced out: two that are closer than the      *)
(* queue timeout, the retry delay and the recent window mean that the      *)
(* earlier one succeeded and that a CL (or the testing switch) asked for   *)
(* the later one.  No failing unit is hammered and no daily unit runs      *)
(* twice in its hour.                                                      *)
Paced ==
  \A j, k \in TaskKeys :
    LET u == jobs[j].unit
        apart == jobs[k].start - jobs[j].start
    IN (/\ j # k /\ u # NoUnit /\ jobs[k].unit = u /\ 0 <= apart
        /\ apart < QueueTimeout /\ apart < RetryDelay /\ apart < Recent)
       => /\ "SUCCESS" \in {jobs[j].result, jobs[k].result}
          /\ u \in TriggerAlways \/ \E c \in 1 .. head : u \in depot[c]

(* The requests to Jenkins are neither doubled nor too close together.     *)
RequestsSound == SingleFlight /\ Paced

(* The last email tells the truth: outside the window between the email    *)
(* and the write of the state, the last email about a unit whose owners    *)
(* asked for recoveries says what the stored state says.                   *)
MailAgrees ==
  \A u \in Units :
    (/\ Policy[u] \in {"ON_FAILURE_AND_RECOVERY", "ALWAYS"}
     /\ \A r \in Runners : ~(runner[r].unit = u /\ runner[r].pc = "write"))
    => /\ (mailed[u] = "success") = state[u].success
       /\ state[u].status = "FAILED" => mailed[u] = "failure"

(* "The postsubmit is run whenever a CL is submitted that matches one of   *)
(* any number of paths" (docs/sgeb.md): once no run is under way and a     *)
(* unit is at rest, every matching CL that has been scanned is covered by  *)
(* a request at that CL or a later one.                                    *)
TriggerHonoured ==
  (\A r \in Runners : runner[r].pc = "idle") =>
    \A u \in Units, c \in scanned :
      u \in depot[c] /\ state[u].status = "SUCCESS"
      => \E k \in TaskKeys : jobs[k].unit = u /\ jobs[k].cl >= c

-----------------------------------------------------------------------------
(* Liveness. *)

(* No request is waited for for ever: whether its build is dropped, dies   *)
(* or reports, as soon as the clock has passed both limits the unit stops  *)
(* waiting for that task.                                                  *)
NoTaskWaitedForever ==
  \A u \in Units, k \in TaskKeys :
    (/\ state[u].task.key = k
     /\ state[u].task.start + QueueTimeout <= MaxTime
     /\ state[u].task.start + TaskTimeout[u] <= MaxTime)
    ~> state[u].task.key # k

(* A failed unit is retried once its retry time has come, however long     *)
(* after that hour the next run happens.                                   *)
RetryHappens ==
  \A u \in Units :
    (state[u].status = "FAILED" /\ state[u].nextRetry <= MaxTime)
    ~> state[u].status # "FAILED"
=============================================================================
