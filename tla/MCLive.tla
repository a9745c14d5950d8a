------------------------------- MODULE MCLive -------------------------------
(***************************************************************************)
(* What must end: tasks of a daily unit of Postsubmit whose builds may be  *)
(* dropped or die, and calls of BuildDist whose attempts may fail once.    *)
(* which says whose behaviour it is.                                       *)
(***************************************************************************)
EXTENDS Postsubmit

VARIABLES which, s1, s2, s3, s4, s5, s6, s7, s8, s9, s10, s11, s12
slots == <<s1, s2, s3, s4, s5, s6, s7, s8, s9, s10, s11, s12>>
allVars == <<vars, which, slots>>

OneHour    == [u \in Units |-> 1]
DailyAtOne == [u \in Units |-> 1]
Recovery   == [u \in Units |-> "ON_FAILURE_AND_RECOVERY"]

Dist == INSTANCE BuildDist WITH
    Files <- {"f1", "f2", "f3"}, MaxConcurrency <- 2, BatchSize <- 2,
    Calls <- {"make", "install", "delete"}, Faults <- {"first", "object"}, MaxBuilds <- 1,
    pkg <- s1, entries <- s2, objects <- s3, build <- s4, make <- s5, upload <- s6, install <- s7,
    local <- s8, del <- s9, touched <- s10, overlap <- s11, dropped <- s12

LiveInit == Init /\ Dist!Init /\ which \in {"postsubmit", "dist"}
OfPostsubmit(A) == which = "postsubmit" /\ A /\ UNCHANGED <<which, slots>>
OfDist(A) == which = "dist" /\ A /\ UNCHANGED <<vars, which>>
Passes == OfPostsubmit(Tick)
Starts(r) == OfPostsubmit(RunStart(r))
Advances(r) == OfPostsubmit(RunnerStep(r))
Builds(k) == OfPostsubmit(JobStep(k))
Makes == OfDist(Dist!MakeStep)
Installs == OfDist(Dist!InstallStep)
Deletes == OfDist(Dist!DeleteStep)
Called == OfDist(Dist!Next)
LiveNext ==
    \/ Passes \/ Called
    \/ \E r \in Runners : Starts(r) \/ Advances(r)
    \/ \E k \in TaskKeys : Builds(k)

\* The fairness of either.
LiveSpec ==
    /\ LiveInit /\ [][LiveNext]_allVars
    /\ WF_allVars(Passes) /\ \A r \in Runners : WF_allVars(Starts(r)) /\ WF_allVars(Advances(r))
    /\ WF_allVars(Makes) /\ WF_allVars(Installs) /\ WF_allVars(Deletes)

-----------------------------------------------------------------------------
(* Whether its build is dropped, dies or reports, a unit stops waiting for its task once both
   limits have passed; and a unit that failed is tried again once its retry time has come. *)
TasksEnd == NoTaskWaitedForever /\ RetryHappens

(* A MakePackage in which no file fails twice returns, the guard of its goroutines and the abort
   of the first failure notwithstanding; so does a DeletePackage while datastore answers. *)
CallsEnd == Dist!MakeReturns /\ Dist!DeleteReturns
=============================================================================
