--------------------------- MODULE PublishRunner ---------------------------
(***************************************************************************)
(* publish_runner: an invocation publishes every unit that has             *)
(* auto_publish, one after the other, and emails their owners.  What it    *)
(* knows of a unit between invocations is the PublishState in a p4 key,    *)
(* which it reads before the publish and writes after the email.           *)
(* Invocations may overlap.                                                *)
(***************************************************************************)
EXTENDS Notifier

CONSTANTS
    Units,      \* publish units with auto_publish
    Policy,     \* their notification policies
    Runners,    \* invocations that may be there at the same time
    MailGap,    \* the two hours of shouldSendFailEmail
    Faults,     \* "get", "set": KeyGet, KeySet fail; "mail": Send fails; "die"
    MaxFaults   \* bound: how many of them

ASSUME PublishAssumption ==
    /\ Policy \in [Units -> Policies]
    /\ MailGap \in Nat \ {0}

VARIABLES
    state,      \* the PublishState of every unit
    run,        \* the locals of every invocation
    told,       \* history: age of the last failure email that was sent since the last success
    last,       \* history: the outcome of the last attempt of every unit
    early,      \* history: units with two failure emails too close together
    untold,     \* history: units that failed with no failure email in the last MailGap
    unrelieved, \* history: units that recovered with no email about it
    overlap,    \* history: two invocations have overlapped
    happened,   \* history: the kinds of fault there have been
    faults

vars == <<state, run, told, last, early, untold, unrelieved, overlap, happened, faults>>
histories == <<told, last, early, untold, unrelieved>>

Fresh == [success |-> TRUE, mail |-> Nil]
Idle == [pc |-> "idle", todo |-> {}, unit |-> CHOOSE u \in Units : TRUE, st |-> Fresh]

Init ==
    /\ state = [u \in Units |-> Fresh]
    /\ run = [r \in Runners |-> Idle]
    /\ told = [u \in Units |-> Nil]
    /\ last = [u \in Units |-> "none"]
    /\ early = {} /\ untold = {} /\ unrelieved = {}
    /\ overlap = FALSE
    /\ happened = {} /\ faults = 0

Fault(f) ==
    /\ f \in Faults /\ faults < MaxFaults
    /\ faults' = faults + 1
    /\ happened' = happened \cup {f}

NoFault == UNCHANGED <<happened, faults>>

\* Time passes for the stored times and for the copies of them that invocations hold.
Tick ==
    /\ state' = [u \in Units |-> [state[u] EXCEPT !.mail = Older(@, MailGap)]]
    /\ run' = [r \in Runners |-> [run[r] EXCEPT !.st.mail = Older(@, MailGap)]]
    /\ told' = [u \in Units |-> Older(told[u], MailGap)]
    /\ NoFault
    /\ UNCHANGED <<last, early, untold, unrelieved, overlap>>

-----------------------------------------------------------------------------
Start(r) ==
    /\ run[r].pc = "idle"
    /\ run' = [run EXCEPT ![r].pc = "next", ![r].todo = Units]
    /\ overlap' = (overlap \/ \E q \in Runners : run[q].pc # "idle")
    /\ NoFault
    /\ UNCHANGED <<state, histories>>

Read(r) ==
    /\ run[r].pc = "next"
    /\ \E u \in run[r].todo :
          run' = [run EXCEPT ![r] = [pc |-> "publish", todo |-> @.todo \ {u}, unit |-> u,
                                     st |-> state[u]]]
    /\ NoFault
    /\ UNCHANGED <<state, histories, overlap>>

\* The unit is left out of this invocation.
ReadFails(r) ==
    /\ run[r].pc = "next"
    /\ Fault("get")
    /\ \E u \in run[r].todo : run' = [run EXCEPT ![r].todo = @ \ {u}]
    /\ UNCHANGED <<state, histories, overlap>>

\* Mutant: only the first failure is told.
ShouldSendFailEmailMut(mail) == mail = Nil
ShouldSendFailEmail(mail) == mail = Nil \/ mail >= MailGap

\* Mutant: the time of the last email is kept over a success.
SucceededMut(st) == [st EXCEPT !.success = TRUE]
\* The state after a success.
Succeeded(st) == [success |-> TRUE, mail |-> Nil]

\* Mutants: the time of the email is not kept; the old time is moved instead of replaced.
FailedMut(st) == [st EXCEPT !.success = FALSE]
FailedMovedMut(st) ==
    [success |-> FALSE, mail |-> IF ShouldSendFailEmail(st.mail) THEN st.mail + 1 ELSE st.mail]
\* The state after a failure: the time of the email is set whether or not Send succeeds.
Failed(st) ==
    [success |-> FALSE, mail |-> IF ShouldSendFailEmail(st.mail) THEN 0 ELSE st.mail]

PublishSucceeds(r) ==
    LET u == run[r].unit
        st == run[r].st
    IN
    /\ run[r].pc = "publish"
    /\ \E outcome \in {"empty", "published"} :
          LET recovery == outcome = "published" /\ OnSuccess(Policy[u], st.success) IN
          /\ \/ NoFault
             \/ recovery /\ Fault("mail")
          /\ last' = [last EXCEPT ![u] = outcome]
          /\ unrelieved' = IF last[u] = "fail" /\ outcome = "published" /\ ~recovery
                           THEN unrelieved \cup {u} ELSE unrelieved
    /\ run' = [run EXCEPT ![r].pc = "save", ![r].st = Succeeded(st)]
    /\ told' = [told EXCEPT ![u] = Nil]
    /\ UNCHANGED <<state, early, untold, overlap>>

PublishFails(r) ==
    LET u == run[r].unit
        st == run[r].st
        mail == ShouldSendFailEmail(st.mail) /\ OnFailure(Policy[u])
    IN
    /\ run[r].pc = "publish"
    /\ \/ /\ NoFault
          /\ told' = IF mail THEN [told EXCEPT ![u] = 0] ELSE told
       \/ mail /\ Fault("mail") /\ UNCHANGED told
    /\ early' = IF told'[u] = 0 /\ mail /\ told[u] \in 0 .. MailGap - 1 THEN early \cup {u}
                ELSE early
    /\ untold' = IF told'[u] \in 0 .. MailGap - 1 THEN untold ELSE untold \cup {u}
    /\ last' = [last EXCEPT ![u] = "fail"]
    /\ run' = [run EXCEPT ![r].pc = "save", ![r].st = Failed(st)]
    /\ UNCHANGED <<state, unrelieved, overlap>>

Save(r) ==
    /\ run[r].pc = "save"
    /\ state' = [state EXCEPT ![run[r].unit] = run[r].st]
    /\ run' = [run EXCEPT ![r].pc = "next"]
    /\ NoFault
    /\ UNCHANGED <<histories, overlap>>

SaveFails(r) ==
    /\ run[r].pc = "save"
    /\ Fault("set")
    /\ run' = [run EXCEPT ![r].pc = "next"]
    /\ UNCHANGED <<state, histories, overlap>>

Finish(r) ==
    /\ run[r].pc = "next" /\ run[r].todo = {}
    /\ run' = [run EXCEPT ![r] = Idle]
    /\ NoFault
    /\ UNCHANGED <<state, histories, overlap>>

\* The machine or the CI job is stopped.
Die(r) ==
    /\ run[r].pc # "idle"
    /\ Fault("die")
    /\ run' = [run EXCEPT ![r] = Idle]
    /\ UNCHANGED <<state, histories, overlap>>

Step(r) ==
    \/ Start(r) \/ Read(r) \/ ReadFails(r) \/ PublishSucceeds(r) \/ PublishFails(r)
    \/ Save(r) \/ SaveFails(r) \/ Finish(r)

Next == Tick \/ \E r \in Runners : Step(r) \/ Die(r)

Spec == Init /\ [][Next]_vars

(* The CI system starts the runner again and again, and time passes. *)
Fairness == WF_vars(Tick) /\ \A r \in Runners : WF_vars(Step(r))
LiveSpec == Spec /\ Fairness

-----------------------------------------------------------------------------
(* Every variable has its type. *)
TypeOK ==
    /\ state \in [Units -> [success : BOOLEAN, mail : Ages(MailGap)]]
    /\ run \in [Runners -> [pc : {"idle", "next", "publish", "save"}, todo : SUBSET Units,
                            unit : Units, st : [success : BOOLEAN, mail : Ages(MailGap)]]]
    /\ told \in [Units -> Ages(MailGap)]
    /\ last \in [Units -> {"none", "fail", "empty", "published"}]
    /\ early \subseteq Units /\ untold \subseteq Units /\ unrelieved \subseteq Units
    /\ overlap \in BOOLEAN
    /\ happened \subseteq Faults /\ faults \in Nat

(* The failure emails about a unit that does not succeed in between are at least two hours
   apart, as long as invocations do not overlap and the state that says when is written. *)
RateLimited == ~overlap /\ happened \subseteq {"get", "mail"} => early = {}

(* Whenever a publish fails, its owners have been told in the last two hours, and since the
   last success: the first failure is told at once, and a failure that lasts is told again
   (as above, and as long as the emails go out). *)
OwnersTold ==
    ~overlap /\ happened \subseteq {"get"} => \A u \in untold : Policy[u] = "NEVER"

(* A publish right after one that failed is told to the owners who asked for recoveries. *)
RecoveryMailed ==
    ~overlap /\ happened \subseteq {"get", "mail"} =>
        \A u \in unrelieved : Policy[u] \notin {"ON_FAILURE_AND_RECOVERY", "ALWAYS"}

(* While a unit stays broken its owners are told again and again, in spite of emails that are
   lost, keys that cannot be read or written and invocations that end half way. *)
KeepsNagging ==
    \A u \in Units : Policy[u] # "NEVER" => (<>[](last[u] = "fail") => []<>(told[u] = 0))
=============================================================================
