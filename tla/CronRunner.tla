----------------------------- MODULE CronRunner -----------------------------
(***************************************************************************)
(* cron_runner: an invocation first reads the CronState of every cron unit *)
(* and collects the ones that are due, then runs those one after the       *)
(* other, emails their owners and stores the new CronState.  Invocations   *)
(* may overlap.                                                            *)
(***************************************************************************)
EXTENDS Notifier

CONSTANTS
    Units,      \* cron units that have a config
    Frequency,  \* frequency_minutes of each, in ticks
    Policy,     \* their notification policies
    Runners,    \* invocations that may be there at the same time
    Faults,     \* "get", "set": KeyGet, KeySet fail; "mail": Send fails; "die"
    MaxFaults   \* bound: how many of them

CronConstants ==
    /\ Frequency \in [Units -> Nat]
    /\ Policy \in [Units -> Policies]

VARIABLES
    state,      \* the CronState of every unit
    run,        \* the locals of every invocation
    since,      \* history: age of the last time the unit was started
    early,      \* history: units that were started again before they were due
    lastRun,    \* history: the outcome of the last run of every unit
    lastMail,   \* history: the last email handed to the client about every unit
    overlap,    \* history: two invocations have overlapped
    happened,   \* history: the kinds of fault there have been
    faults

vars == <<state, run, since, early, lastRun, lastMail, overlap, happened, faults>>
histories == <<since, early, lastRun, lastMail>>

CronState(u) == [success : BOOLEAN, time : Ages(Frequency[u])]
Fresh == [success |-> TRUE, time |-> Nil]
\* unit, healthy and began belong to the unit that is running; triggered holds, of every
\* unit that is due, whether it was healthy when its state was read.
Idle == [pc |-> "idle", todo |-> {}, triggered |-> {}, unit |-> CHOOSE u \in Units : TRUE,
         healthy |-> TRUE, ok |-> TRUE, began |-> Nil]

Init ==
    /\ state = [u \in Units |-> Fresh]
    /\ run = [r \in Runners |-> Idle]
    /\ since = [u \in Units |-> Nil]
    /\ early = {}
    /\ lastRun = [u \in Units |-> "none"]
    /\ lastMail = [u \in Units |-> "none"]
    /\ overlap = FALSE
    /\ happened = {} /\ faults = 0

Fault(f) ==
    /\ f \in Faults /\ faults < MaxFaults
    /\ faults' = faults + 1
    /\ happened' = happened \cup {f}

NoFault == UNCHANGED <<happened, faults>>

Tick ==
    /\ state' = [u \in Units |-> [state[u] EXCEPT !.time = Older(@, Frequency[u])]]
    /\ run' = [r \in Runners |-> [run[r] EXCEPT !.began = Older(@, Frequency[run[r].unit])]]
    /\ since' = [u \in Units |-> Older(since[u], Frequency[u])]
    /\ NoFault
    /\ UNCHANGED <<early, lastRun, lastMail, overlap>>

-----------------------------------------------------------------------------
Start(r) ==
    /\ run[r].pc = "idle"
    /\ run' = [run EXCEPT ![r].pc = "scan", ![r].todo = Units]
    /\ overlap' = (overlap \/ \E q \in Runners : run[q].pc # "idle")
    /\ NoFault
    /\ UNCHANGED <<state, histories>>

\* Mutants: a unit that failed is tried again at once; it is not tried again at all.
ShouldRunCronUnitMut(u, st) == st.time = Nil \/ ~st.success \/ st.time >= Frequency[u]
ShouldRunHealthyMut(u, st) == st.time = Nil \/ (st.success /\ st.time >= Frequency[u])
ShouldRunCronUnit(u, st) == st.time = Nil \/ st.time >= Frequency[u]

Scan(r) ==
    /\ run[r].pc = "scan"
    /\ \E u \in run[r].todo :
          LET due == IF ShouldRunCronUnit(u, state[u])
                     THEN {[unit |-> u, healthy |-> state[u].success]} ELSE {}
          IN  run' = [run EXCEPT ![r].todo = @ \ {u}, ![r].triggered = @ \cup due]
    /\ NoFault
    /\ UNCHANGED <<state, histories, overlap>>

ScanFails(r) ==
    /\ run[r].pc = "scan"
    /\ Fault("get")
    /\ \E u \in run[r].todo : run' = [run EXCEPT ![r].todo = @ \ {u}]
    /\ UNCHANGED <<state, histories, overlap>>

\* RunCron is called; the time that will be stored is now.
RunUnit(r) ==
    /\ run[r].pc = "scan" /\ run[r].todo = {}
    /\ \E t \in run[r].triggered :
          /\ run' = [run EXCEPT ![r] = [pc |-> "run", todo |-> {}, triggered |-> @.triggered \ {t},
                                        unit |-> t.unit, healthy |-> t.healthy, ok |-> @.ok,
                                        began |-> 0]]
          /\ early' = IF since[t.unit] \in 0 .. Frequency[t.unit] - 1
                      THEN early \cup {t.unit} ELSE early
          /\ since' = [since EXCEPT ![t.unit] = 0]
    /\ NoFault
    /\ UNCHANGED <<state, lastRun, lastMail, overlap>>

\* RunCron returns and the email is sent.
RunEnds(r) ==
    LET u == run[r].unit IN
    /\ run[r].pc = "run"
    /\ \E ok \in BOOLEAN :
          LET mail == IF ok THEN OnSuccess(Policy[u], run[r].healthy) ELSE OnFailure(Policy[u])
          IN
          /\ run' = [run EXCEPT ![r].pc = "save", ![r].ok = ok]
          /\ lastRun' = [lastRun EXCEPT ![u] = IF ok THEN "success" ELSE "failure"]
          /\ \/ /\ NoFault
                /\ lastMail' = IF mail THEN [lastMail EXCEPT ![u] = lastRun'[u]] ELSE lastMail
             \/ mail /\ Fault("mail") /\ UNCHANGED lastMail
    /\ UNCHANGED <<state, since, early, overlap>>

\* Mutants: the health that was read is written back; the time is the one of the next run.
SavedHealthMut(loc) == [success |-> loc.healthy, time |-> loc.began]
SavedNextMut(loc) == [success |-> loc.ok, time |-> loc.began - 2]
\* The new CronState takes nothing from the old one.
Saved(loc) == [success |-> loc.ok, time |-> loc.began]

Save(r) ==
    /\ run[r].pc = "save"
    /\ state' = [state EXCEPT ![run[r].unit] = Saved(run[r])]
    /\ run' = [run EXCEPT ![r].pc = "scan"]
    /\ NoFault
    /\ UNCHANGED <<histories, overlap>>

SaveFails(r) ==
    /\ run[r].pc = "save"
    /\ Fault("set")
    /\ run' = [run EXCEPT ![r].pc = "scan"]
    /\ UNCHANGED <<state, histories, overlap>>

Finish(r) ==
    /\ run[r].pc = "scan" /\ run[r].todo = {} /\ run[r].triggered = {}
    /\ run' = [run EXCEPT ![r] = Idle]
    /\ NoFault
    /\ UNCHANGED <<state, histories, overlap>>

\* The machine or the CI job is stopped.
Die(r) ==
    /\ run[r].pc # "idle"
    /\ Fault("die")
    /\ run' = [run EXCEPT ![r] = Idle]
    /\ UNCHANGED <<state, histories, overlap>>

Step(r) ==
    \/ Start(r) \/ Scan(r) \/ ScanFails(r) \/ RunUnit(r) \/ RunEnds(r)
    \/ Save(r) \/ SaveFails(r) \/ Finish(r)

Next == Tick \/ \E r \in Runners : Step(r) \/ Die(r)

Spec == Init /\ [][Next]_vars

(* The CI system starts the runner again and again, cron binaries end, and time passes. *)
Fairness == WF_vars(Tick) /\ \A r \in Runners : WF_vars(Step(r))
LiveSpec == Spec /\ Fairness

-----------------------------------------------------------------------------
(* Every variable has its type. *)
TypeOK ==
    /\ \A u \in Units : state[u] \in CronState(u) /\ since[u] \in Ages(Frequency[u])
    /\ \A r \in Runners :
          /\ run[r].pc \in {"idle", "scan", "run", "save"}
          /\ run[r].todo \subseteq Units
          /\ run[r].triggered \subseteq [unit : Units, healthy : BOOLEAN]
          /\ run[r].unit \in Units
          /\ run[r].healthy \in BOOLEAN /\ run[r].ok \in BOOLEAN
          /\ run[r].began \in Ages(Frequency[run[r].unit])
    /\ early \subseteq Units
    /\ lastRun \in [Units -> {"none", "success", "failure"}]
    /\ lastMail \in [Units -> {"none", "success", "failure"}]
    /\ overlap \in BOOLEAN
    /\ happened \subseteq Faults /\ faults \in Nat

(* Two runs of a unit start at least its frequency apart, however long the units before it
   take, as long as invocations do not overlap and the state that says when is written. *)
NoEarlyRun == ~overlap /\ happened \subseteq {"get", "mail"} => early = {}

(* The last email about a unit tells how its last run ended: a failure is always told, and so
   is the first success after it, although the state was read before all the runs (as above,
   and as long as the emails go out). *)
CronMailAgrees ==
    ~overlap /\ happened \subseteq {"get"} =>
        \A u \in Units : Policy[u] \in {"ON_FAILURE_AND_RECOVERY", "ALWAYS"} =>
            ((lastMail[u] = "failure") = (lastRun[u] = "failure"))

(* Every cron unit is run again and again, in spite of keys that cannot be read or written,
   runs that fail and invocations that end half way. *)
KeepsRunning == \A u \in Units : []<>(since[u] = 0)
=============================================================================
