---------------------------- MODULE MCPostsubmit ----------------------------
(* Instances of Postsubmit: a unit triggered by paths, a daily unit, or    *)
(* both in one.                                                            *)
EXTENDS Postsubmit, TLC

KeySym    == Permutations(TaskKeys)
KeyRunSym == Permutations(TaskKeys) \cup Permutations(Runners)

OneHour    == [u \in Units |-> 1]
TwoHours   == [u \in Units |-> 2]
PathOnly   == [u \in Units |-> NoDaily]
DailyAtOne == [u \in Units |-> 1]
DailyAtTwo == [u \in Units |-> 2]
Recovery   == [u \in Units |-> "ON_FAILURE_AND_RECOVERY"]
=============================================================================
