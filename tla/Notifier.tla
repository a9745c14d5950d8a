------------------------------ MODULE Notifier ------------------------------
(***************************************************************************)
(* The Notifier of runnertool, which the runners share, and timestamps.    *)
(* A time is modelled by its age, capped: the runners only ask whether a   *)
(* time is at least so long ago, so ages up to that limit tell everything  *)
(* apart and the clock itself needs no bound.                              *)
(***************************************************************************)
EXTENDS Integers

Policies == {"NEVER", "ON_FAILURE", "ON_FAILURE_AND_RECOVERY", "ALWAYS"}

\* A nil timestamp.
Nil == -1
Ages(limit) == -1 .. limit
Older(age, limit) == IF age = Nil \/ age = limit THEN age ELSE age + 1

\* Mutant: the success after a failure is the one that is not sent.
OnSuccessMut(policy, wasHealthy) ==
    policy = "ALWAYS" \/ (policy = "ON_FAILURE_AND_RECOVERY" /\ wasHealthy)
\* Is the email sent?
OnSuccess(policy, wasHealthy) ==
    policy = "ALWAYS" \/ (policy = "ON_FAILURE_AND_RECOVERY" /\ ~wasHealthy)
OnFailure(policy) == policy # "NEVER"
=============================================================================
