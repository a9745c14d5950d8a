----------------------------- MODULE EnvInstall -----------------------------
(***************************************************************************)
(* environment and environment/envinstall: what a machine needs to run the *)
(* software is installed from //sge/environment/data, and a marker file    *)
(* tells the agents which version is installed, so that they install only  *)
(* what is newer.  A version of the program knows its own number; the data *)
(* it syncs are those of the depot's head.  The program may be ended at    *)
(* any point, and two programs may be at work.                             *)
(***************************************************************************)
EXTENDS Naturals, Sequences

CONSTANTS
    Programs,      \* processes of environment and of cirunner's prewarm
    MaxVersion,    \* bound: versions of the dependencies
    MaxFaults      \* bound: failing steps and processes that are ended

Steps == <<"vs", "ue", "vc">>      \* Visual Studio, the Unreal prerequisites, the VC redistributables
Deps == {"vs", "ue", "vc"}
NoMarker == 0                      \* no file, or an empty one

VARIABLES
    head,      \* the version of the dependencies in the depot, and currentVersion of its code
    data,      \* the version of the synced installers
    present,   \* present[d]: the installed version of a dependency, 0 for none
    marker,    \* what env-install-version says
    prog,      \* prog[p]: a program: [pc, version, at, result]
    ignored,   \* history: the versions whose Visual Studio installer ended with a code that is passed over
    faults     \* faults to come

vars == <<head, data, present, marker, prog, ignored, faults>>

InstallConstants == MaxVersion \in Nat \ {0}

Idle == [pc |-> "idle", version |-> 0, at |-> 0, ok |-> FALSE]
Init ==
    /\ head = 1 /\ data = 0 /\ marker = NoMarker /\ ignored = {} /\ faults = MaxFaults
    /\ present = [d \in Deps |-> 0]
    /\ prog = [p \in Programs |-> Idle]

Fault == faults > 0 /\ faults' = faults - 1
Set(p, pc) == prog' = [prog EXCEPT ![p].pc = pc]
End(p, ok) == prog' = [prog EXCEPT ![p].pc = "end", ![p].ok = ok]

\* New dependencies and a new currentVersion are submitted together.
Release ==
    /\ head < MaxVersion /\ head' = head + 1
    /\ UNCHANGED <<data, present, marker, prog, ignored, faults>>

\* environment.main installs always; prewarm asks UpToDate first.  The programs are those of some sync.
Start(p, version, always) ==
    /\ prog[p].pc \in {"idle", "end"} /\ version \in 1 .. head
    /\ prog' = [prog EXCEPT ![p] = [pc |-> IF always THEN "sync" ELSE "ask", version |-> version, at |-> 1, ok |-> FALSE]]
    /\ UNCHANGED <<head, data, present, marker, ignored, faults>>

\* UpToDate and readCurrentVersion; prewarm gives up on an error.
UpToDate(p) ==
    /\ prog[p].pc = "ask"
    /\ \/ marker = prog[p].version /\ End(p, TRUE) /\ UNCHANGED faults
       \/ marker # prog[p].version /\ Set(p, "sync") /\ UNCHANGED faults
       \/ Fault /\ End(p, FALSE)
    /\ UNCHANGED <<head, data, present, marker, ignored>>

\* SyncAndInstallDependencies: p4 sync -f of the data.
Sync(p) ==
    /\ prog[p].pc = "sync"
    /\ \/ data' = head /\ Set(p, "install") /\ UNCHANGED faults
       \/ Fault /\ End(p, FALSE) /\ UNCHANGED data
    /\ UNCHANGED <<head, present, marker, ignored>>

\* Other software brings a newer VC redistributable.
OtherSoftware ==
    /\ present["vc"] <= MaxVersion
    /\ present' = [present EXCEPT !["vc"] = MaxVersion + 1]
    /\ UNCHANGED <<head, data, marker, prog, ignored, faults>>

\* How an installer ends: code 0; 1602, cancelled; 1638, a newer version is there; or another.
Outcomes(d) == {"cancelled", "other", IF present[d] > data THEN "newer" ELSE "done"}
\* installVSDependencies, installUnrealPrereqs and installVCRedist: which ends are no error.
CountsAsInstalled(d, outcome) ==
    \/ outcome = "done"
    \/ d = "vs" /\ outcome # "cancelled"
    \/ d = "vc" /\ outcome = "newer"
installDependencies(p, outcome) ==
    LET x == prog[p]
        d == Steps[x.at]
    IN  /\ x.pc = "install" /\ outcome \in Outcomes(d)
        /\ IF outcome \in {"cancelled", "other"} THEN Fault ELSE UNCHANGED faults
        /\ present' = IF outcome = "done" THEN [present EXCEPT ![d] = data] ELSE present
        /\ ignored' = IF d = "vs" /\ outcome = "other" THEN ignored \cup 1 .. data ELSE ignored
        /\ prog' = [prog EXCEPT ![p] =
              IF ~CountsAsInstalled(d, outcome) THEN [x EXCEPT !.pc = "end", !.ok = FALSE]
              ELSE IF x.at < Len(Steps) THEN [x EXCEPT !.at = @ + 1] ELSE [x EXCEPT !.pc = "truncate"]]
        /\ UNCHANGED <<head, data, marker>>

\* writeCurrentVersion: WriteFile empties the file before it writes it.
Truncate(p) ==
    /\ prog[p].pc = "truncate"
    /\ \/ marker' = NoMarker /\ Set(p, "write") /\ UNCHANGED faults
       \/ Fault /\ End(p, FALSE) /\ UNCHANGED marker
    /\ UNCHANGED <<head, data, present, ignored>>
writeCurrentVersion(p) ==
    /\ prog[p].pc = "write"
    /\ marker' = prog[p].version /\ End(p, TRUE)
    /\ UNCHANGED <<head, data, present, ignored, faults>>

\* The machine is restarted or the program ended.
Dies(p) ==
    /\ prog[p].pc \notin {"idle", "end"} /\ Fault /\ End(p, FALSE)
    /\ UNCHANGED <<head, data, present, marker, ignored>>

Step(p) ==
    \/ \E version \in 1 .. MaxVersion, always \in BOOLEAN : Start(p, version, always)
    \/ UpToDate(p) \/ Sync(p) \/ Truncate(p) \/ writeCurrentVersion(p) \/ Dies(p)
    \/ \E outcome \in {"done", "cancelled", "newer", "other"} : installDependencies(p, outcome)
Next == Release \/ OtherSoftware \/ \E p \in Programs : Step(p)

Spec == Init /\ [][Next]_vars

-----------------------------------------------------------------------------
(* The marker never promises more than is installed: everything is there in the version it names
   or a newer one, or, in the code's own words, the Visual Studio installer was "noisy".  So an
   agent that trusts it, and any program that ends without an error, leaves a machine that has
   what its version needs. *)
MarkerHonest ==
    LET has(version) == \A d \in Deps : present[d] >= version \/ (d = "vs" /\ version \in ignored)
    IN  /\ has(marker)
        /\ \A p \in Programs : prog[p].pc = "end" /\ prog[p].ok => has(prog[p].version)
=============================================================================
