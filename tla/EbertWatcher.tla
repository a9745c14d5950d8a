---------------------------- MODULE EbertWatcher ----------------------------
(***************************************************************************)
(* Watch of tools/ebert/watcher: every minute each Ebert process asks      *)
(* Perforce for the changes submitted since the one in the p4 key          *)
(* "ebert-last-submitted", starts a goroutine that post-processes each of  *)
(* them and stores the last one in the key, by KeySet when the key was "0" *)
(* and by KeyCas otherwise.  Several processes may share the key.  A       *)
(* process in dev mode reads the key and never writes it.                  *)
(*                                                                         *)
(* Submitted changelist numbers only grow: Perforce renumbers a changelist *)
(* that is no longer the newest one when it is submitted.                  *)
(*                                                                         *)
(* The goroutines report to nobody: once one is started, whether its       *)
(* PostSubmit succeeds, fails or ends with the process changes nothing     *)
(* that Watch sees, and it is not tried again.                             *)
(***************************************************************************)
EXTENDS Naturals, FiniteSets

CONSTANTS
    Instances,      \* Ebert processes
    DevInstances,   \* those run with flags.DevMode
    MaxPerPoll,     \* maxChangesPerPoll
    FirstKey,       \* value of the key when the behaviour starts, 0: not set
    MaxCL,          \* bound: the largest changelist number
    Faults,         \* which faults may happen: "get", "changes", "save", "die"
    MaxFaults       \* bound: how many of them

ASSUME WatcherAssumption ==
    /\ DevInstances \subseteq Instances
    /\ MaxPerPoll \in Nat \ {0}
    /\ FirstKey \in Nat
    /\ MaxCL \in Nat
    /\ FirstKey <= MaxCL

VARIABLES
    submitted,  \* changes submitted to the depot
    key,        \* the p4 key, 0 when it has no value
    inst,       \* the locals of Watch in every process
    started,    \* history: changes some process that is not in dev mode has started
    seen,       \* history: changes a dev process has started since it started itself
    twice,      \* history: those it has started again
    faults

vars == <<submitted, key, inst, started, seen, twice, faults>>
histories == <<started, seen, twice>>

CLs == 1 .. MaxCL
Production == Instances \ DevInstances
NewProcess == [pc |-> "idle", last |-> 0, old |-> 0]

Init ==
    /\ submitted = 1 .. FirstKey
    /\ key = FirstKey
    /\ inst = [i \in Instances |-> NewProcess]
    /\ started = 1 .. FirstKey
    /\ seen = [i \in DevInstances |-> {}]
    /\ twice = [i \in DevInstances |-> {}]
    /\ faults = 0

Fault(f) == f \in Faults /\ faults < MaxFaults /\ faults' = faults + 1

Submit ==
    /\ \E c \in CLs :
          /\ \A d \in submitted : d < c
          /\ submitted' = submitted \cup {c}
    /\ UNCHANGED <<key, inst, histories, faults>>

-----------------------------------------------------------------------------
(* One poll: KeyGet, Changes, KeySet or KeyCas.  Other processes take steps between the
   three calls. *)

\* Mutants: the dev process takes every value of the key; the poll starts one change early.
FromKeyMut(i, k) == k
FromKeyEarlyMut(i, k) == k - 1
\* The value that lastChecked takes from the key; a dev process only moves forward.
FromKey(i, k) == IF i \notin DevInstances \/ k > inst[i].last THEN k ELSE inst[i].last

GetKey(i) ==
    /\ inst[i].pc = "idle"
    /\ inst' = [inst EXCEPT ![i] = [pc |-> "list", last |-> FromKey(i, key), old |-> key]]
    /\ UNCHANGED <<submitted, key, histories, faults>>

\* KeyGet returns "0" with its error, which Atoi parses: the poll goes on from change 0.
GetKeyFails(i) ==
    /\ inst[i].pc = "idle"
    /\ Fault("get")
    /\ inst' = [inst EXCEPT ![i] = [pc |-> "list", last |-> FromKey(i, 0), old |-> 0]]
    /\ UNCHANGED <<submitted, key, histories>>

Newer(n) == {c \in submitted : c > n}
\* Mutant: without -r, the newest changes.
ChangesMut(n) == {c \in Newer(n) : Cardinality({d \in Newer(n) : d > c}) < MaxPerPoll}
\* p4 changes -r -m max -e n+1: the max oldest changes after n.
Changes(n) == {c \in Newer(n) : Cardinality({d \in Newer(n) : d < c}) < MaxPerPoll}

\* The loop ends with the last change of the list in lastChecked.
LastOf(changes, n, m) ==
    \/ changes = {} /\ m = n
    \/ m \in changes /\ \A d \in changes : d <= m

List(i) ==
    LET changes == Changes(inst[i].last) IN
    /\ inst[i].pc = "list"
    /\ \E m \in submitted \cup {inst[i].last} :
          /\ LastOf(changes, inst[i].last, m)
          /\ inst' = [inst EXCEPT ![i].last = m,
                                  ![i].pc = IF i \in DevInstances THEN "idle" ELSE "save"]
    /\ started' = IF i \in DevInstances THEN started ELSE started \cup changes
    /\ seen' = [j \in DevInstances |-> seen[j] \cup IF j = i THEN changes ELSE {}]
    /\ twice' = [j \in DevInstances |-> twice[j] \cup IF j = i THEN changes \cap seen[j] ELSE {}]
    /\ UNCHANGED <<submitted, key, faults>>

ListFails(i) ==
    /\ inst[i].pc = "list"
    /\ Fault("changes")
    /\ inst' = [inst EXCEPT ![i].pc = "idle"]
    /\ UNCHANGED <<submitted, key, histories>>

\* Mutant: KeySet always.
SavedKeyMut(i) == inst[i].last
\* KeySet for an unset key, else a compare-and-set; its failure is only logged.
SavedKey(i) == IF inst[i].old = 0 \/ key = inst[i].old THEN inst[i].last ELSE key

Save(i) ==
    /\ inst[i].pc = "save"
    /\ key' = SavedKey(i)
    /\ inst' = [inst EXCEPT ![i].pc = "idle"]
    /\ UNCHANGED <<submitted, histories, faults>>

SaveFails(i) ==
    /\ inst[i].pc = "save"
    /\ Fault("save")
    /\ inst' = [inst EXCEPT ![i].pc = "idle"]
    /\ UNCHANGED <<submitted, key, histories>>

-----------------------------------------------------------------------------
\* The process ends, its goroutines with it, and is started again.
Restart(i) ==
    /\ Fault("die")
    /\ inst' = [inst EXCEPT ![i] = NewProcess]
    /\ seen' = [j \in DevInstances |-> IF j = i THEN {} ELSE seen[j]]
    /\ twice' = [j \in DevInstances |-> IF j = i THEN {} ELSE twice[j]]
    /\ UNCHANGED <<submitted, key, started>>

Poll(i) == GetKey(i) \/ GetKeyFails(i) \/ List(i) \/ ListFails(i) \/ Save(i) \/ SaveFails(i)

Next ==
    \/ Submit
    \/ \E i \in Instances : Poll(i) \/ Restart(i)

Spec == Init /\ [][Next]_vars

(* The ticker fires every minute; nothing makes users submit. *)
Fairness == \A i \in Instances : WF_vars(Poll(i))
LiveSpec == Spec /\ Fairness

-----------------------------------------------------------------------------
(* Every variable has its type. *)
TypeOK ==
    /\ submitted \subseteq CLs
    /\ key \in Nat
    /\ inst \in [Instances -> [pc : {"idle", "list", "save"}, last : Nat, old : Nat]]
    /\ started \subseteq CLs
    /\ seen \in [DevInstances -> SUBSET CLs]
    /\ twice \in [DevInstances -> SUBSET CLs]
    /\ faults \in Nat

(* Post-processing of a change, once a change after it is in the key, has been started by a
   process that is not in dev mode: the key never runs past a change that nobody started,
   whatever the overlap of processes, the faults and the backlog. *)
NoneSkipped == \A c \in submitted : c <= key => c \in started

(* Only a process that read "0" can move the key back: the compare-and-set of a slow process
   never undoes the progress of another. *)
KeyOnlyForward ==
    [][key' < key => \E i \in Production : inst[i].pc = "save" /\ inst[i].old = 0]_vars

(* A process in dev mode, which keeps its progress in memory only, starts no change twice,
   whatever the others write to the key and whichever of its calls fail. *)
DevOnce == \A i \in DevInstances : twice[i] = {}

(* Again and again there is no submitted change whose post-processing has not been started by a
   process that is not in dev mode, however many changes wait and although a poll may fail or
   start again from change 0. *)
EventuallyStarted == []<>(submitted \subseteq started)
=============================================================================
