---------------------------- MODULE ToolsProofs ----------------------------
(***************************************************************************)
(* Proofs about the tools that MCTools puts side by side, each for every   *)
(* value of its constants.  A tool's variables have their names of the     *)
(* tool's module here, too; the definitions below say which of the shared  *)
(* variables each one is.                                                  *)
(***************************************************************************)
EXTENDS MCTools, FiniteSetTheorems, WellFoundedInduction, TLAPS


-----------------------------------------------------------------------------
(* Numbers. *)

(* A set of numbers that has an element has a least one. *)
LEMMA LeastElement ==
    ASSUME NEW T \in SUBSET Nat, T # {}
    PROVE  \E m \in T : \A k \in T : m <= k
<1>1. PICK x \in T : \A y \in T : ~(<<y, x>> \in OpToRel(<, Nat))
  BY NatLessThanWellFounded, WFMin
<1>2. \A x1, y1 \in Nat : x1 < y1 => <<x1, y1>> \in OpToRel(<, Nat)
  BY DEF OpToRel
<1>3. \A y \in T : ~(y < x)
  BY <1>1, <1>2
<1>4. \A y \in T : x <= y
  BY <1>3
<1> QED BY <1>4

(* A set of numbers that has a bound and an element has a greatest one. *)
LEMMA GreatestElement ==
    ASSUME NEW n \in Nat, NEW T \in SUBSET (0 .. n), T # {}
    PROVE  \E m \in T : \A k \in T : m >= k
<1> DEFINE D == {d \in Nat : n - d \in T}
<1>1. PICK x \in T : TRUE
  OBVIOUS
<1>2. n - x \in D
  BY <1>1
<1>3. PICK d \in D : \A e \in D : d <= e
  BY <1>2, LeastElement
<1>4. n - d \in T /\ d \in Nat
  BY <1>3
<1>5. ASSUME NEW k \in T PROVE n - d >= k
  <2>1. k \in 0 .. n /\ n - k \in Nat /\ n - (n - k) = k
    OBVIOUS
  <2>2. d <= n - k
    BY <1>3, <2>1
  <2> QED BY <1>4, <2>1, <2>2
<1> QED BY <1>4, <1>5
-----------------------------------------------------------------------------
(***************************************************************************)
(* The workspaces: VerifiedUnshelve.  What it is about to compare is what  *)
(* the checkout still has: nothing but the CI machine itself changes its   *)
(* have list, and it does not sync in the middle of VerifiedUnshelve.      *)
(***************************************************************************)
head == s1
have == s2
opened == s3
edited == s4
owner == s5
shelf == s6
ci == s7
unshelved == s8
workspaceVars == <<s1, s2, s3, s4, s5, s6, s7, s8>>
USE DEF head, have, opened, edited, owner, shelf, ci, unshelved

\* Some files of the depot, with revisions.
Revisions(F) == DOMAIN F \subseteq DepotFiles /\ \A f \in DOMAIN F : F[f] \in Nat
OpenFile == [action : {"add", "edit", "delete"}, cl : 0 .. MaxCl, base : Nat]
OpenFilesOk(F) == DOMAIN F \subseteq DepotFiles /\ \A f \in DOMAIN F : F[f] \in OpenFile

WorkspaceTyped ==
    /\ head \in [DepotFiles -> Nat]
    /\ have \in [Workspace!Clients -> [DepotFiles -> Nat]]
    /\ DOMAIN opened = Workspace!Clients /\ \A c \in Workspace!Clients : OpenFilesOk(opened[c])
    /\ DOMAIN edited = Workspace!Clients /\ \A c \in Workspace!Clients : edited[c] \subseteq DepotFiles
    /\ DOMAIN shelf = Workspace!Cls /\ \A cl \in Workspace!Cls : Revisions(shelf[cl])

\* What VerifiedUnshelve holds of the checkout is still so.
HavesCurrent(x, has) ==
    /\ x.pc \in {"have", "verify"} => x.cl \in Workspace!Cls /\ Revisions(x.files)
    /\ x.pc = "verify" => \A f \in DOMAIN x.files : has[f] > 0 => f \in DOMAIN x.haves /\ x.haves[f] = has[f]

WorkspaceInv ==
    /\ WorkspaceTyped
    /\ DOMAIN ci = {"pc", "cl", "files", "haves"}
    /\ HavesCurrent(ci, have[Ci])
    /\ Workspace!UnshelveStompsNothing

(* The first state: nothing is opened, shelved or unshelved. *)
LEMMA WorkspaceInit == Workspace!Init => WorkspaceInv
BY DEF Workspace!Init, WorkspaceInv, WorkspaceTyped, HavesCurrent, Revisions, OpenFilesOk, Workspace!Nothing,
       Workspace!IdleCi, Workspace!UnshelveStompsNothing, Workspace!Clients

(* Replacing what one workspace has open by files of the depot keeps the types. *)
LEMMA OpenedTyped ==
    ASSUME WorkspaceTyped, NEW c \in Workspace!Clients, NEW new, OpenFilesOk(new),
           opened' = [opened EXCEPT ![c] = new]
    PROVE  DOMAIN opened' = Workspace!Clients /\ \A d \in Workspace!Clients : OpenFilesOk(opened'[d])
BY DEF WorkspaceTyped

(* Every command of an author or of the CI machine preserves the invariant. *)
LEMMA WorkspaceStepOk == WorkspaceInv /\ [Workspace!Next]_workspaceVars => WorkspaceInv'
<1> SUFFICES ASSUME WorkspaceInv, [Workspace!Next]_workspaceVars PROVE WorkspaceInv'
  OBVIOUS
<1> USE WorkspaceAssumption DEF Workspace!WorkspaceConstants
<1>0. WorkspaceTyped /\ HavesCurrent(ci, have[Ci]) /\ Ci \in Workspace!Clients
  BY DEF WorkspaceInv, Workspace!Clients
<1>1. ASSUME UNCHANGED <<have, ci, unshelved>>, WorkspaceTyped' PROVE WorkspaceInv'
  BY <1>1 DEF WorkspaceInv, HavesCurrent, Workspace!UnshelveStompsNothing, Workspace!Clients
<1>2. ASSUME UNCHANGED <<head, have, shelf>>, NEW c \in Workspace!Clients, NEW new, OpenFilesOk(new),
             NEW gone \in SUBSET DepotFiles, edited' \in {edited, [edited EXCEPT ![c] = @ \ gone]},
             opened' = [opened EXCEPT ![c] = new]
      PROVE  WorkspaceTyped'
  BY <1>0, <1>2, OpenedTyped DEF WorkspaceTyped
<1>3. ASSUME UNCHANGED <<head, have, opened, edited, shelf>> PROVE WorkspaceTyped'
  BY <1>0, <1>3 DEF WorkspaceTyped
<1>4. ASSUME NEW c \in Workspace!Clients, NEW f \in DepotFiles, Workspace!Revert(c, f) PROVE WorkspaceInv'
  <2>1. OpenFilesOk([g \in DOMAIN opened[c] \ {f} |-> opened[c][g]])
    BY <1>0 DEF WorkspaceTyped, OpenFilesOk
  <2> QED BY <1>1, <1>2, <1>4, <2>1 DEF Workspace!Revert
<1>5. ASSUME NEW c \in Workspace!Clients, NEW files \in SUBSET DepotFiles,
             NEW action \in {"add", "edit", "delete"}, NEW cl \in 0 .. MaxCl, Workspace!OpenAs(c, files, action, cl),
             edited' \in {edited, [edited EXCEPT ![c] = @ \ files]}, UNCHANGED <<head, have, shelf, ci, unshelved>>
      PROVE  WorkspaceInv'
  <2> DEFINE new == [f \in DOMAIN opened[c] \cup files |->
                       IF f \in DOMAIN opened[c] THEN opened[c][f]
                       ELSE [action |-> action, cl |-> cl, base |-> have[c][f]]]
  <2>1. OpenFilesOk(new)
    BY <1>0 DEF WorkspaceTyped, OpenFilesOk, OpenFile
  <2>2. opened' = [opened EXCEPT ![c] = new]
    BY <1>5 DEF Workspace!OpenAs
  <2> QED BY <1>1, <1>2, <1>5, <2>1, <2>2
<1>6. ASSUME NEW c \in Workspace!Clients, Workspace!Sync(c) PROVE WorkspaceInv'
  <2> DEFINE new == [f \in DOMAIN opened[c] |-> [opened[c][f] EXCEPT !.base = head[f]]]
  <2>1. opened' = [opened EXCEPT ![c] = new] /\ have' = [have EXCEPT ![c] = head]
        /\ UNCHANGED <<head, edited, shelf, ci, unshelved>>
    BY <1>6 DEF Workspace!Sync
  <2>2. OpenFilesOk(new)
    BY <1>0 DEF WorkspaceTyped, OpenFilesOk, OpenFile
  <2>3. WorkspaceTyped'
    BY <1>0, <2>1, <2>2, OpenedTyped DEF WorkspaceTyped
  <2>4. HavesCurrent(ci, have'[Ci])
    BY <1>0, <1>6, <2>1 DEF HavesCurrent, Workspace!Sync, WorkspaceTyped
  <2> QED BY <2>1, <2>3, <2>4 DEF WorkspaceInv, HavesCurrent, Workspace!UnshelveStompsNothing
<1>7. ASSUME NEW c \in Authors, NEW cl \in Workspace!Cls, Workspace!Shelve(c, cl) PROVE WorkspaceInv'
  <2> DEFINE new == [f \in Workspace!InCl(c, cl) |-> opened[c][f].base]
  <2>1. Revisions(new)
    BY <1>0 DEF WorkspaceTyped, OpenFilesOk, OpenFile, Revisions, Workspace!InCl, Workspace!Clients
  <2>2. WorkspaceTyped'
    BY <1>0, <1>7, <2>1 DEF WorkspaceTyped, Workspace!Shelve
  <2> QED BY <1>1, <1>7, <2>2 DEF Workspace!Shelve
<1>8. ASSUME NEW c \in Authors, NEW cl \in Workspace!Cls, Workspace!Submit(c, cl) PROVE WorkspaceInv'
  <2> DEFINE in == Workspace!InCl(c, cl)
             new == [f \in DOMAIN opened[c] \ in |-> opened[c][f]]
             synced == [f \in DepotFiles |-> IF f \in in THEN head[f] + 1 ELSE have[c][f]]
  <2>0. c \in Workspace!Clients /\ c # Ci
    BY DEF Workspace!Clients
  <2>1. /\ opened' = [opened EXCEPT ![c] = new] /\ have' = [have EXCEPT ![c] = synced]
        /\ head' = [f \in DepotFiles |-> IF f \in in THEN head[f] + 1 ELSE head[f]]
        /\ shelf' = [shelf EXCEPT ![cl] = Workspace!Nothing] /\ UNCHANGED <<edited, ci, unshelved>>
    BY <1>8 DEF Workspace!Submit
  <2>2. OpenFilesOk(new) /\ synced \in [DepotFiles -> Nat] /\ Revisions(Workspace!Nothing)
    BY <1>0, <2>0 DEF WorkspaceTyped, OpenFilesOk, Revisions, Workspace!Nothing
  <2>3. WorkspaceTyped'
    <3>1. head' \in [DepotFiles -> Nat]
      BY <1>0, <2>1 DEF WorkspaceTyped
    <3>2. have' \in [Workspace!Clients -> [DepotFiles -> Nat]]
      BY <1>0, <2>0, <2>1, <2>2 DEF WorkspaceTyped
    <3>3. DOMAIN shelf' = Workspace!Cls /\ \A k \in Workspace!Cls : Revisions(shelf'[k])
      BY <1>0, <2>1, <2>2 DEF WorkspaceTyped
    <3> QED BY <1>0, <2>0, <2>1, <2>2, <3>1, <3>2, <3>3, OpenedTyped DEF WorkspaceTyped
  <2>4. have'[Ci] = have[Ci]
    BY <1>0, <2>0, <2>1 DEF WorkspaceTyped
  <2> QED BY <2>1, <2>3, <2>4 DEF WorkspaceInv, HavesCurrent, Workspace!UnshelveStompsNothing
<1>9. ASSUME NEW cl \in Workspace!Cls, Workspace!DescribeShelved(cl) PROVE WorkspaceInv'
  <2>1. Revisions(shelf[cl])
    BY <1>0 DEF WorkspaceTyped
  <2>2. WorkspaceTyped'
    BY <1>3, <1>9 DEF Workspace!DescribeShelved
  <2> QED BY <1>9, <2>1, <2>2 DEF WorkspaceInv, HavesCurrent, Workspace!DescribeShelved, Workspace!UnshelveStompsNothing
<1>10. ASSUME Workspace!Have PROVE WorkspaceInv'
  <2>1. WorkspaceTyped'
    BY <1>3, <1>10 DEF Workspace!Have
  <2>2. HavesCurrent(ci, have[Ci])'
    BY <1>0, <1>10 DEF WorkspaceInv, HavesCurrent, Workspace!Have
  <2> QED BY <1>10, <2>1, <2>2 DEF WorkspaceInv, Workspace!Have, Workspace!UnshelveStompsNothing
<1>11. ASSUME Workspace!Refuse PROVE WorkspaceInv'
  <2>1. WorkspaceTyped'
    BY <1>3, <1>11 DEF Workspace!Refuse
  <2> QED BY <1>11, <2>1 DEF WorkspaceInv, HavesCurrent, Workspace!Refuse, Workspace!IdleCi, Workspace!UnshelveStompsNothing
<1>12. ASSUME Workspace!Unshelve PROVE WorkspaceInv'
  <2> DEFINE files == shelf[ci.cl]
             new == [f \in DOMAIN files |-> [action |-> "edit", cl |-> 0, base |-> files[f]]]
  <2>1. ci.cl \in Workspace!Cls /\ ci.pc = "verify" /\ Revisions(files)
    BY <1>0, <1>12 DEF Workspace!Unshelve, HavesCurrent, WorkspaceTyped
  <2>2. OpenFilesOk(new)
    BY <2>1 DEF Revisions, OpenFilesOk, OpenFile
  <2>3. WorkspaceTyped'
    BY <1>0, <1>2, <1>12, <2>2 DEF Workspace!Unshelve
  <2>4. ASSUME files = ci.files, NEW f \in DOMAIN files PROVE have[Ci][f] <= files[f]
    BY <1>0, <1>12, <2>1, <2>4 DEF Workspace!Unshelve, Workspace!verifyCL, HavesCurrent, WorkspaceTyped, Revisions
  <2>5. Workspace!UnshelveStompsNothing'
    <3> SUFFICES ASSUME NEW u \in unshelved', u.same PROVE u.had <= u.base
      BY DEF Workspace!UnshelveStompsNothing
    <3>1. PICK f \in DOMAIN files : u = [file |-> f, base |-> files[f], had |-> have[Ci][f], same |-> files = ci.files]
      BY <1>12 DEF Workspace!Unshelve
    <3>2. u.same = (files = ci.files) /\ u.had = have[Ci][f] /\ u.base = files[f]
      BY <3>1
    <3> QED BY <2>4, <3>2
  <2> QED BY <1>12, <2>3, <2>5 DEF WorkspaceInv, HavesCurrent, Workspace!Unshelve, Workspace!IdleCi
<1>13. CASE UNCHANGED workspaceVars
  BY <1>1, <1>3, <1>13 DEF workspaceVars
<1>14. ASSUME NEW a \in Authors, Workspace!Change(a) PROVE WorkspaceInv'
  BY <1>1, <1>3, <1>14 DEF Workspace!Change
<1>15. ASSUME NEW a \in Authors, NEW f \in DepotFiles, Workspace!EditFile(a, f) PROVE WorkspaceInv'
  <2>1. WorkspaceTyped'
    BY <1>0, <1>15 DEF Workspace!EditFile, WorkspaceTyped
  <2> QED BY <1>1, <1>15, <2>1 DEF Workspace!EditFile
<1>16. ASSUME NEW a \in Authors, NEW f \in DepotFiles, NEW cl \in 0 .. MaxCl, Workspace!Open(a, f, cl) PROVE WorkspaceInv'
  BY <1>5, <1>16 DEF Workspace!Open, Workspace!Clients
<1>17. ASSUME NEW a \in Authors, NEW cl \in Workspace!Cls, Workspace!Reconcile(a, cl) PROVE WorkspaceInv'
  <2>1. edited[a] \subseteq DepotFiles /\ cl \in 0 .. MaxCl /\ a \in Workspace!Clients
    BY <1>0 DEF WorkspaceTyped, Workspace!Clients, Workspace!Cls
  <2>2. edited' = [edited EXCEPT ![a] = @ \ edited[a]]
    BY <1>17 DEF Workspace!Reconcile
  <2> QED BY <1>5, <1>17, <2>1, <2>2 DEF Workspace!Reconcile
<1> QED
  BY <1>4, <1>6, <1>7, <1>8, <1>9, <1>10, <1>11, <1>12, <1>13, <1>14, <1>15, <1>16, <1>17 DEF Workspace!Next, Workspace!Clients


-----------------------------------------------------------------------------
(***************************************************************************)
(* The installer.  Versions of the data and of what is installed only      *)
(* grow, so what a program has found or put in place stays good enough     *)
(* for its version until it writes the marker, whatever another program    *)
(* installs and whatever is released in the meantime.                      *)
(***************************************************************************)
released == s1
data == s2
present == s3
marker == s4
prog == s5
ignored == s6
installVars == <<s1, s2, s3, s4, s5, s6, s7>>
USE DEF released, data, present, marker, prog, ignored

HasDep(has, ign, d, version) == has[d] >= version \/ (d = "vs" /\ version \in ign)
Has(has, ign, version) == \A d \in Installer!Deps : HasDep(has, ign, d, version)

Program ==
    [pc : {"idle", "ask", "sync", "install", "truncate", "write", "end"}, version : Nat, at : Nat, ok : BOOLEAN]
InstallTyped ==
    /\ released \in 1 .. MaxVersion /\ data \in 0 .. released
    /\ present \in [Installer!Deps -> 0 .. MaxVersion + 1]
    /\ marker \in Nat /\ prog \in [Programs -> Program]

\* What a program may rely on where it is, with the depot at rel, the data at dat and has installed.
ProgramOk(rel, dat, has, ign, x) ==
    /\ x.version <= rel
    /\ x.pc # "idle" => x.version > 0 /\ x.at \in 1 .. 3
    /\ x.pc \in {"ask", "sync"} => x.at = 1
    /\ x.pc = "install" => /\ x.version <= dat
                           /\ \A i \in 1 .. x.at - 1 : HasDep(has, ign, Installer!Steps[i], x.version)
    /\ x.pc \in {"truncate", "write"} => Has(has, ign, x.version)
    /\ x.pc = "end" /\ x.ok => Has(has, ign, x.version)

InstallInv ==
    /\ InstallTyped
    /\ Has(present, ignored, marker)
    /\ \A p \in Programs : ProgramOk(released, data, present, ignored, prog[p])

(* Nothing is installed in the first state, and the marker promises nothing. *)
LEMMA InstallInit == Installer!Init => InstallInv
<1> SUFFICES ASSUME Installer!Init PROVE InstallInv
  OBVIOUS
<1> USE InstallAssumption DEF Installer!InstallConstants, Installer!Init
<1>1. InstallTyped
  BY DEF InstallTyped, Program, Installer!Idle, Installer!NoMarker
<1>2. Has(present, ignored, marker)
  BY DEF Has, HasDep, Installer!NoMarker
<1>3. \A p \in Programs : ProgramOk(released, data, present, ignored, prog[p])
  BY DEF ProgramOk, Installer!Idle
<1> QED BY <1>1, <1>2, <1>3 DEF InstallInv

\* The depot, the data and what is installed only get newer.
Newer == /\ released' \in 1 .. MaxVersion /\ released <= released'
         /\ data' \in 0 .. released' /\ data <= data'
         /\ present' \in [Installer!Deps -> 0 .. MaxVersion + 1]
         /\ \A d \in Installer!Deps : present[d] <= present'[d]
         /\ ignored \subseteq ignored'

(* What was installed for a version is still there. *)
LEMMA HasStays ==
    ASSUME InstallTyped, Newer, NEW version \in Nat
    PROVE  /\ \A d \in Installer!Deps : HasDep(present, ignored, d, version) => HasDep(present', ignored', d, version)
           /\ Has(present, ignored, version) => Has(present', ignored', version)
<1>1. \A d \in Installer!Deps : HasDep(present, ignored, d, version) => HasDep(present', ignored', d, version)
  BY DEF InstallTyped, Newer, HasDep
<1> QED BY <1>1 DEF Has

(* So a program that does nothing is where it was. *)
LEMMA ProgramStays ==
    ASSUME InstallTyped, Newer, NEW x \in Program, ProgramOk(released, data, present, ignored, x)
    PROVE  ProgramOk(released', data', present', ignored', x)
<1>1. x.version \in Nat /\ x.at \in Nat
  BY DEF Program
<1>2. ASSUME x.pc = "install" PROVE \A i \in 1 .. x.at - 1 : HasDep(present', ignored', Installer!Steps[i], x.version)
  BY <1>1, <1>2, HasStays DEF ProgramOk, Installer!Steps, Installer!Deps
<1>3. x.version <= released' /\ (x.pc = "install" => x.version <= data')
  BY <1>1 DEF ProgramOk, InstallTyped, Newer
<1> QED BY <1>1, <1>2, <1>3, HasStays DEF ProgramOk

(* A step of one program, on what it installs at most. *)
LEMMA OneProgram ==
    ASSUME InstallInv, Newer, NEW p \in Programs, NEW x \in Program, prog' = [prog EXCEPT ![p] = x],
           ProgramOk(released', data', present', ignored', x), marker' \in Nat, Has(present', ignored', marker')
    PROVE  InstallInv'
<1>1. InstallTyped'
  BY DEF InstallInv, InstallTyped, Newer
<1>2. \A q \in Programs : ProgramOk(released', data', present', ignored', prog'[q])
  <2> SUFFICES ASSUME NEW q \in Programs PROVE ProgramOk(released', data', present', ignored', prog'[q])
    OBVIOUS
  <2>1. CASE q = p
    BY <2>1 DEF InstallInv, InstallTyped, ProgramOk, Has, HasDep
  <2>2. CASE q # p
    <3>1. prog'[q] = prog[q] /\ prog[q] \in Program /\ ProgramOk(released, data, present, ignored, prog[q])
      BY <2>2 DEF InstallInv, InstallTyped
    <3>2. ASSUME NEW y \in Program, ProgramOk(released, data, present, ignored, y) PROVE ProgramOk(released', data', present', ignored', y)
      BY <3>2, ProgramStays DEF InstallInv
    <3> QED BY <3>1, <3>2 DEF ProgramOk, Has, HasDep
  <2> QED BY <2>1, <2>2
<1> QED BY <1>1, <1>2 DEF InstallInv

(* The same for a step that installs nothing. *)
LEMMA OneProgramOnly ==
    ASSUME InstallInv, UNCHANGED <<released, data, present, ignored>>, NEW p \in Programs, NEW x \in Program,
           prog' = [prog EXCEPT ![p] = x], ProgramOk(released, data, present, ignored, x), marker' \in Nat, Has(present, ignored, marker')
    PROVE  InstallInv'
<1>1. Newer
  BY DEF Newer, InstallInv, InstallTyped
<1>2. ProgramOk(released', data', present', ignored', x) /\ Has(present', ignored', marker')
  BY DEF ProgramOk, Has, HasDep
<1> QED BY <1>1, <1>2, OneProgram

(* Every step of a program, of the depot or of other software preserves the invariant. *)
LEMMA InstallStepOk == InstallInv /\ [Installer!Next]_installVars => InstallInv'
<1> SUFFICES ASSUME InstallInv, [Installer!Next]_installVars PROVE InstallInv'
  OBVIOUS
<1> USE InstallAssumption DEF Installer!InstallConstants
<1>0. InstallTyped /\ Has(present, ignored, marker) /\ \A p \in Programs : prog[p] \in Program /\ ProgramOk(released, data, present, ignored, prog[p])
  BY DEF InstallInv, InstallTyped
<1>1. ASSUME Newer, UNCHANGED <<prog, marker>> PROVE InstallInv'
  <2>1. \A p \in Programs : ProgramOk(released', data', present', ignored', prog'[p])
    <3> SUFFICES ASSUME NEW p \in Programs PROVE ProgramOk(released', data', present', ignored', prog'[p])
      OBVIOUS
    <3>1. ASSUME NEW y \in Program, ProgramOk(released, data, present, ignored, y) PROVE ProgramOk(released', data', present', ignored', y)
      BY <1>0, <1>1, <3>1, ProgramStays
    <3> QED BY <1>0, <1>1, <3>1 DEF ProgramOk, Has, HasDep
  <2>2. Has(present', ignored', marker')
    <3>1. ASSUME NEW v \in Nat, Has(present, ignored, v) PROVE Has(present', ignored', v)
      BY <1>0, <1>1, <3>1, HasStays
    <3> QED BY <1>0, <1>1, <3>1 DEF Has, HasDep, InstallTyped
  <2> QED BY <1>0, <1>1, <2>1, <2>2 DEF InstallInv, InstallTyped, Newer
<1>2. CASE Installer!Release
  BY <1>0, <1>1, <1>2 DEF Installer!Release, InstallTyped, Newer
<1>3. CASE Installer!OtherSoftware
  BY <1>0, <1>1, <1>3 DEF Installer!OtherSoftware, InstallTyped, Newer, Installer!Deps
<1>4. CASE UNCHANGED installVars
  BY <1>0, <1>1, <1>4 DEF installVars, InstallTyped, Newer
<1>5. ASSUME NEW p \in Programs, NEW version \in 1 .. MaxVersion, NEW always \in BOOLEAN,
             Installer!Start(p, version, always)
      PROVE  InstallInv'
  <2> DEFINE x == [pc |-> IF always THEN "sync" ELSE "ask", version |-> version, at |-> 1, ok |-> FALSE]
  <2>1. x \in Program /\ ProgramOk(released, data, present, ignored, x)
    BY <1>0, <1>5 DEF Program, ProgramOk, Installer!Start, InstallTyped
  <2> QED BY <1>0, <1>5, <2>1, OneProgramOnly DEF Installer!Start, InstallTyped
<1>6. ASSUME NEW p \in Programs, NEW pc \in {"sync", "install", "truncate", "write", "end"}, NEW ok \in BOOLEAN,
             prog' = [prog EXCEPT ![p] = [[prog[p] EXCEPT !.pc = pc] EXCEPT !.ok = ok]],
             UNCHANGED <<released, data, present, ignored>>, marker' \in Nat, Has(present, ignored, marker'),
             ProgramOk(released, data, present, ignored, [[prog[p] EXCEPT !.pc = pc] EXCEPT !.ok = ok])
      PROVE  InstallInv'
  <2> DEFINE x == [[prog[p] EXCEPT !.pc = pc] EXCEPT !.ok = ok]
  <2>1. x \in Program
    BY <1>0 DEF Program
  <2> QED BY <1>6, <2>1, OneProgramOnly
<1>7. ASSUME NEW p \in Programs, NEW pc, Installer!Set(p, pc)
      PROVE  prog' = [prog EXCEPT ![p] = [[prog[p] EXCEPT !.pc = pc] EXCEPT !.ok = prog[p].ok]]
  BY <1>0, <1>7 DEF Installer!Set, Program, InstallTyped
<1>8. ASSUME NEW p \in Programs, NEW ok, Installer!End(p, ok)
      PROVE  prog' = [prog EXCEPT ![p] = [[prog[p] EXCEPT !.pc = "end"] EXCEPT !.ok = ok]]
  BY <1>0, <1>8 DEF Installer!End, Program, InstallTyped
\* A program that ends with an error promises nothing.
<1>9. ASSUME NEW p \in Programs, prog[p].pc # "idle", Installer!End(p, FALSE), UNCHANGED <<released, data, present, ignored, marker>>
      PROVE  InstallInv'
  <2>1. ProgramOk(released, data, present, ignored, [[prog[p] EXCEPT !.pc = "end"] EXCEPT !.ok = FALSE])
    BY <1>0, <1>9 DEF ProgramOk, Program
  <2> QED BY <1>0, <1>6, <1>8, <1>9, <2>1 DEF InstallTyped
<1>10. ASSUME NEW p \in Programs, Installer!UpToDate(p) PROVE InstallInv'
  <2>0. prog[p].pc = "ask" /\ UNCHANGED <<released, data, present, ignored, marker>>
    BY <1>10 DEF Installer!UpToDate
  <2>1. CASE marker = prog[p].version /\ Installer!End(p, TRUE)
    <3>1. ProgramOk(released, data, present, ignored, [[prog[p] EXCEPT !.pc = "end"] EXCEPT !.ok = TRUE])
      BY <1>0, <2>0, <2>1 DEF ProgramOk, Program
    <3> QED BY <1>0, <1>6, <1>8, <2>0, <2>1, <3>1 DEF InstallTyped
  <2>2. CASE Installer!Set(p, "sync")
    <3>1. ProgramOk(released, data, present, ignored, [[prog[p] EXCEPT !.pc = "sync"] EXCEPT !.ok = prog[p].ok])
      BY <1>0, <2>0 DEF ProgramOk, Program
    <3> QED BY <1>0, <1>6, <1>7, <2>0, <2>2, <3>1 DEF InstallTyped, Program
  <2> QED BY <1>9, <1>10, <2>0, <2>1, <2>2 DEF Installer!UpToDate
<1>11. ASSUME NEW p \in Programs, Installer!Sync(p) PROVE InstallInv'
  <2>0. prog[p].pc = "sync" /\ UNCHANGED <<released, present, ignored, marker>>
    BY <1>11 DEF Installer!Sync
  <2>1. CASE data' = released /\ Installer!Set(p, "install")
    <3> DEFINE x == [[prog[p] EXCEPT !.pc = "install"] EXCEPT !.ok = prog[p].ok]
    <3>1. Newer
      BY <1>0, <2>0, <2>1 DEF Newer, InstallTyped
    <3>2. x \in Program
      BY <1>0 DEF Program
    <3>3. Has(present', ignored', marker')
      BY <1>0, <2>0 DEF Has, HasDep
    <3>4. ProgramOk(released', data', present', ignored', x)
      <4>1. x.pc = "install" /\ x.version = prog[p].version /\ x.at = prog[p].at
        BY <1>0 DEF Program
      <4>2. x.version <= released /\ x.version > 0 /\ x.at \in 1 .. 3
        BY <1>0, <2>0, <4>1 DEF ProgramOk
      <4>3. x.at = 1
        BY <1>0, <2>0, <4>1 DEF ProgramOk
      <4> QED BY <2>0, <2>1, <4>1, <4>2, <4>3 DEF ProgramOk
    <3> QED BY <1>0, <1>7, <2>0, <2>1, <3>1, <3>2, <3>3, <3>4, OneProgram DEF InstallTyped
  <2>2. CASE Installer!End(p, FALSE) /\ UNCHANGED data
    BY <1>9, <2>0, <2>2
  <2> QED BY <1>11, <2>1, <2>2 DEF Installer!Sync
<1>12. ASSUME NEW p \in Programs, Installer!Truncate(p) PROVE InstallInv'
  <2>0. prog[p].pc = "truncate" /\ UNCHANGED <<released, data, present, ignored>>
    BY <1>12 DEF Installer!Truncate
  <2>1. CASE marker' = Installer!NoMarker /\ Installer!Set(p, "write")
    <3>1. ProgramOk(released, data, present, ignored, [[prog[p] EXCEPT !.pc = "write"] EXCEPT !.ok = prog[p].ok])
      BY <1>0, <2>0 DEF ProgramOk, Program
    <3>2. marker' \in Nat /\ Has(present, ignored, marker')
      BY <1>0, <2>1 DEF Installer!NoMarker, Has, HasDep, InstallTyped
    <3> QED BY <1>0, <1>6, <1>7, <2>0, <2>1, <3>1, <3>2 DEF InstallTyped, Program
  <2>2. CASE Installer!End(p, FALSE) /\ UNCHANGED marker
    BY <1>9, <2>0, <2>2
  <2> QED BY <1>12, <2>1, <2>2 DEF Installer!Truncate
<1>13. ASSUME NEW p \in Programs, Installer!writeCurrentVersion(p) PROVE InstallInv'
  <2>0. /\ prog[p].pc = "write" /\ UNCHANGED <<released, data, present, ignored>>
        /\ marker' = prog[p].version /\ Installer!End(p, TRUE)
    BY <1>13 DEF Installer!writeCurrentVersion
  <2>1. ProgramOk(released, data, present, ignored, [[prog[p] EXCEPT !.pc = "end"] EXCEPT !.ok = TRUE])
    BY <1>0, <2>0 DEF ProgramOk, Program
  <2>2. marker' \in Nat /\ Has(present, ignored, marker')
    BY <1>0, <2>0 DEF ProgramOk, Program
  <2> QED BY <1>6, <1>8, <2>0, <2>1, <2>2
<1>14. ASSUME NEW p \in Programs, Installer!Dies(p) PROVE InstallInv'
  BY <1>9, <1>14 DEF Installer!Dies
<1>15. ASSUME NEW p \in Programs, NEW outcome \in {"done", "cancelled", "newer", "other"},
              Installer!installDependencies(p, outcome)
       PROVE  InstallInv'
  <2> DEFINE x == prog[p]
             d == Installer!Steps[x.at]
             counts == Installer!CountsAsInstalled(d, outcome)
             new == IF ~counts THEN [x EXCEPT !.pc = "end", !.ok = FALSE]
                    ELSE IF x.at < 3 THEN [x EXCEPT !.at = @ + 1] ELSE [x EXCEPT !.pc = "truncate"]
  <2>0. /\ x.pc = "install" /\ outcome \in Installer!Outcomes(d)
        /\ present' = IF outcome = "done" THEN [present EXCEPT ![d] = data] ELSE present
        /\ ignored' = IF d = "vs" /\ outcome = "other" THEN ignored \cup 1 .. data ELSE ignored
        /\ prog' = [prog EXCEPT ![p] = new] /\ UNCHANGED <<released, data, marker>>
    BY <1>15 DEF Installer!installDependencies, Installer!Steps
  <2>1. /\ x \in Program /\ x.at \in 1 .. 3 /\ x.version \in Nat /\ x.version > 0 /\ x.version <= data
        /\ x.version <= released
        /\ \A i \in 1 .. x.at - 1 : HasDep(present, ignored, Installer!Steps[i], x.version)
    BY <1>0, <2>0 DEF ProgramOk, Program
  <2>2. d \in Installer!Deps /\ data \in 0 .. released /\ present[d] \in Nat /\ present'[d] \in Nat
    BY <1>0, <2>0, <2>1 DEF Installer!Steps, Installer!Deps, InstallTyped
  <2>3. outcome = "done" => present[d] <= data
    BY <2>0, <2>2 DEF Installer!Outcomes
  <2>4. outcome = "newer" => present[d] > data
    BY <2>0, <2>2 DEF Installer!Outcomes
  <2>5. Newer
    BY <1>0, <2>0, <2>2, <2>3 DEF Newer, InstallTyped
  <2>6. counts => HasDep(present', ignored', d, x.version)
    BY <1>0, <2>0, <2>1, <2>2, <2>4 DEF Installer!CountsAsInstalled, HasDep, InstallTyped
  <2>7. \A i \in 1 .. x.at - 1 : HasDep(present', ignored', Installer!Steps[i], x.version)
    BY <1>0, <2>1, <2>5, HasStays DEF Installer!Steps, Installer!Deps
  <2>8. Has(present', ignored', marker')
    BY <1>0, <2>0, <2>5, HasStays DEF InstallTyped
  <2>9. new \in Program
    <3>1. x.at + 1 \in Nat /\ x \in Program
      BY <2>1
    <3>2. [x EXCEPT !.pc = "end", !.ok = FALSE] \in Program /\ [x EXCEPT !.pc = "truncate"] \in Program
      BY <3>1 DEF Program
    <3>3. [x EXCEPT !.at = @ + 1] \in Program
      BY <3>1 DEF Program
    <3> QED BY <3>2, <3>3
  <2>10. ProgramOk(released', data', present', ignored', new)
    <3>1. CASE ~counts
      <4>1. new.pc = "end" /\ ~new.ok /\ new.version = x.version /\ new.at = x.at
        BY <2>1, <3>1 DEF Program
      <4> QED BY <2>0, <2>1, <4>1 DEF ProgramOk
    <3>2. CASE counts /\ x.at < 3
      <4>1. new.pc = "install" /\ new.version = x.version /\ new.at = x.at + 1
        BY <2>0, <2>1, <3>2 DEF Program
      <4>2. \A i \in 1 .. new.at - 1 : HasDep(present', ignored', Installer!Steps[i], x.version)
        BY <2>1, <2>6, <2>7, <3>2, <4>1
      <4>3. new.at \in 1 .. 3 /\ data' = data /\ released' = released
        BY <2>0, <2>1, <3>2, <4>1
      <4> HIDE DEF new, x, d
      <4> QED BY <2>1, <4>1, <4>2, <4>3 DEF ProgramOk
    <3>3. CASE counts /\ ~(x.at < 3)
      <4>1. new.pc = "truncate" /\ new.version = x.version /\ new.at = 3 /\ x.at = 3
        BY <2>1, <3>3 DEF Program
      <4>2. \A i \in 1 .. 3 : HasDep(present', ignored', Installer!Steps[i], x.version)
        BY <2>6, <2>7, <3>3, <4>1
      <4>3. Has(present', ignored', x.version)
        BY <4>2 DEF Has, Installer!Deps, Installer!Steps
      <4> QED BY <2>0, <2>1, <4>1, <4>3 DEF ProgramOk
    <3> QED BY <3>1, <3>2, <3>3
  <2>11. marker' \in Nat
    BY <1>0, <2>0 DEF InstallTyped
  <2> QED BY <2>0, <2>5, <2>8, <2>9, <2>10, <2>11, OneProgram
<1> QED
  BY <1>2, <1>3, <1>4, <1>5, <1>10, <1>11, <1>12, <1>13, <1>14, <1>15 DEF Installer!Next, Installer!Step

(* The invariant says what the marker promises. *)
LEMMA InstallHonest == InstallInv => Installer!MarkerHonest
BY DEF InstallInv, ProgramOk, Has, HasDep, Installer!MarkerHonest

-----------------------------------------------------------------------------
(***************************************************************************)
(* urika: the registry and the links.  Every process that writes a value   *)
(* of the holders writes the same one but for the command, so those that   *)
(* a process has passed stay; and a link is with the instance that listens *)
(* on the port, with the one its own process starts, or with both.         *)
(***************************************************************************)
allow == s1
holders == s2
urika == s3
instance == s4
port == s5
handled == s6
linkFaults == s7
linkVars == <<s1, s2, s3, s4, s5, s6, s7>>
USE DEF allow, holders, urika, instance, port, handled, linkFaults

Instances == Links \cup Apps
Process ==
    [pc : {"none", "check", "slot", "put", "holders", "name", "protocol", "command", "done", "failed", "send",
           "launch", "end", "dead"},
     exe : Exes \cup {""}, admin : BOOLEAN, slot : Nat, ok : BOOLEAN, code : Nat]
Holders == [name : {"unset", "URL:sge protocol"}, protocol : {"unset", ""}, command : Exes \cup {"unset", ""}]
Application ==
    [pc : {"none", "starting", "running", "closed"}, app : Apps \cup {""} \cup {AppOf[l] : l \in Links}, uris : SUBSET Links]

LinkTyped ==
    /\ urika \in [Links -> Process]
    /\ DOMAIN linkFaults = {"left", "noReply", "names"}
    /\ holders \in Holders
    /\ IsFiniteSet(DOMAIN allow)
    /\ instance \in [Instances -> Application]
    /\ handled \in [Links -> SUBSET Instances]
    /\ port \subseteq Instances

Others(list) == {s \in DOMAIN list : list[s] = "other"}
\* The allowlist: no process is about to write over the entry of another program.
AllowOk(list, procs, names) ==
    names \/ /\ Others(list) \in OthersSlots
             /\ \A l \in Links : procs[l].pc = "put" => procs[l].slot \notin Others(list)

\* The holders: what a process has passed is set, and once one has passed all of them they are complete.
Late == {"done", "send", "launch", "end", "dead"}
HoldersOk(held, procs) ==
    /\ \A l \in Links : /\ procs[l].pc \in {"protocol", "command"} => held.name = "URL:sge protocol"
                        /\ procs[l].pc = "command" => held.protocol = ""
                        /\ procs[l].ok => procs[l].pc \in Late
                        /\ procs[l].pc = "none" => ~procs[l].admin
    /\ (\E l \in Links : procs[l].ok) =>
          \E l \in Links : (procs[l].ok \/ procs[l].admin) /\ held = Linking!Wanted(procs[l].exe)

\* The instances that a link is with.
With(l, apps, got) == got[l] \cup {i \in DOMAIN apps : l \in apps[i].uris}
\* A link, by where its process is; its reply may be lost.
LinkOk(l, proc, apps, got, lost) ==
    LET w == With(l, apps, got) IN
    /\ \A i \in w : apps[i].pc # "none" /\ apps[i].app = AppOf[l]
    /\ proc.pc # "end" => apps[l].pc = "none"
    /\ proc.pc \notin {"launch", "end", "dead"} => w = {} /\ ~lost
    /\ proc.pc = "launch" => IF lost THEN \E i : w = {i} ELSE w = {}
    /\ proc.pc = "end" /\ proc.code = 0 => IF lost THEN \E i, j : i # j /\ w = {i, j} ELSE \E i : w = {i}
    /\ proc.pc = "end" /\ proc.code # 0 /\ ~lost => w = {}
PortOk(apps, listening) ==
    /\ \A i \in listening : apps[i].pc = "running"
    /\ \A i, j \in listening : i = j

LinkInv ==
    /\ LinkTyped
    /\ AllowOk(allow, urika, linkFaults.names)
    /\ HoldersOk(holders, urika)
    /\ PortOk(instance, port)
    /\ \A l \in Links : LinkOk(l, urika[l], instance, handled, l \in linkFaults.noReply)

(* Finite sets are those of FiniteSets in urika's module, too. *)
LEMMA UrikaSets ==
    ASSUME NEW S
    PROVE  (Linking!IsFiniteSet(S) <=> IsFiniteSet(S)) /\ Linking!Cardinality(S) = Cardinality(S)
<1>1. Linking!IsFiniteSet(S) <=> IsFiniteSet(S)
  BY DEF Linking!IsFiniteSet, IsFiniteSet
<1>2. Linking!Cardinality(S) = Cardinality(S)
  BY Zenon DEF Linking!Cardinality, Cardinality, Linking!IsFiniteSet, IsFiniteSet
<1> QED BY <1>1, <1>2

(* FreeSlot finds a slot that is not in use: of one more number than there are entries one is free. *)
LEMMA FreeSlotFree ==
    ASSUME NEW names, IsFiniteSet(names)
    PROVE  Linking!FreeSlot(names) \in Nat /\ Linking!FreeSlot(names) \notin names
<1> DEFINE n == Cardinality(names)
           free == {s \in 1 .. n + 1 : s \notin names}
<1>1. n \in Nat
  BY FS_CardinalityType
<1>2. IsFiniteSet(1 .. n + 1) /\ Cardinality(1 .. n + 1) = n + 1
  BY <1>1, FS_Interval
<1>3. free # {}
  <2> SUFFICES ASSUME free = {} PROVE FALSE
    OBVIOUS
  <2>1. 1 .. n + 1 \in SUBSET names
    OBVIOUS
  <2>2. Cardinality(1 .. n + 1) <= n
    BY <2>1, FS_Subset
  <2> QED BY <1>1, <1>2, <2>2
<1>4. free \in SUBSET Nat
  BY <1>1
<1>5. \E m \in free : \A k \in free : m <= k
  BY <1>3, <1>4, LeastElement
<1>6. Linking!FreeSlot(names) = CHOOSE x \in free : \A y \in free : x =< y
  BY UrikaSets DEF Linking!FreeSlot, Linking!Min
<1>7. Linking!FreeSlot(names) \in free
  <2> HIDE DEF free
  <2> QED BY <1>5, <1>6
<1> QED BY <1>1, <1>7

(* The first state. *)
LEMMA LinkInit == Linking!Init => LinkInv
<1> SUFFICES ASSUME Linking!Init PROVE LinkInv
  OBVIOUS
<1> USE UrikaAssumption DEF Linking!UrikaConstants, Linking!Init
<1> DEFINE exe == CHOOSE e \in Exes : TRUE
<1>0. exe \in Exes
  OBVIOUS
<1>1. holders \in Holders
  <2> DEFINE unset == [name |-> "unset", protocol |-> "unset", command |-> "unset"]
  <2>1. holders \in {unset, [unset EXCEPT !.name = "URL:sge protocol"], Linking!Wanted(exe)}
    BY DEF Linking!Unset
  <2>2. unset \in Holders /\ [unset EXCEPT !.name = "URL:sge protocol"] \in Holders
    BY DEF Holders
  <2>3. Linking!Wanted(exe) \in Holders
    BY <1>0 DEF Holders, Linking!Wanted
  <2> QED BY <2>1, <2>2, <2>3
<1>2. PICK slots \in OthersSlots : allow = [s \in slots |-> Linking!Other]
  OBVIOUS
<1>3. IsFiniteSet(DOMAIN allow) /\ Others(allow) = slots
  BY <1>2, UrikaSets DEF Others, Linking!Other
<1>4. urika \in [Links -> Process] /\ \A l \in Links : urika[l].pc = "none" /\ ~urika[l].ok /\ ~urika[l].admin
  BY DEF Process, Linking!NoProcess
<1>5. instance \in [Instances -> Application] /\ \A i \in Instances : instance[i].pc = "none" /\ instance[i].uris = {}
  BY DEF Application, Instances, Linking!NoInstance
<1>6. DOMAIN linkFaults = {"left", "noReply", "names"} /\ linkFaults.noReply = {}
  OBVIOUS
<1>7. LinkTyped
  BY <1>1, <1>3, <1>4, <1>5, <1>6 DEF LinkTyped
<1>8. AllowOk(allow, urika, linkFaults.names)
  BY <1>3, <1>4 DEF AllowOk
<1>9. HoldersOk(holders, urika)
  BY <1>4 DEF HoldersOk
<1>10. PortOk(instance, port)
  BY DEF PortOk
<1>11. ASSUME NEW l \in Links PROVE LinkOk(l, urika[l], instance, handled, l \in linkFaults.noReply)
  <2>1. With(l, instance, handled) = {}
    BY <1>5 DEF With
  <2> QED BY <1>4, <1>5, <1>6, <2>1 DEF LinkOk, Instances
<1> QED BY <1>7, <1>8, <1>9, <1>10, <1>11 DEF LinkInv

(* A step of one process on the registry or towards its link, that leaves the instances alone. *)
LEMMA OneProcess ==
    ASSUME LinkInv, UNCHANGED <<instance, port, handled>>, NEW l \in Links, NEW x \in Process, urika' = [urika EXCEPT ![l] = x],
           DOMAIN linkFaults' = {"left", "noReply", "names"}, linkFaults'.noReply = linkFaults.noReply,
           holders' \in Holders, IsFiniteSet(DOMAIN allow'),
           AllowOk(allow', urika', linkFaults'.names), HoldersOk(holders', urika'),
           LinkOk(l, x, instance, handled, l \in linkFaults.noReply)
    PROVE  LinkInv'
<1>1. LinkTyped'
  BY DEF LinkInv, LinkTyped
<1>2. \A k \in Links : LinkOk(k, urika'[k], instance, handled, k \in linkFaults.noReply)
  <2>1. \A k \in Links : (k = l /\ urika'[k] = x) \/ urika'[k] = urika[k]
    BY DEF LinkInv, LinkTyped
  <2> QED BY <2>1 DEF LinkInv
<1>3. PortOk(instance', port')
  BY DEF LinkInv, PortOk
<1>4. \A k \in Links : LinkOk(k, urika'[k], instance', handled', k \in linkFaults'.noReply)
  BY <1>2
<1> QED BY <1>1, <1>3, <1>4 DEF LinkInv

(* The same for a step that changes no entry of the registry; what the process has passed it had
   passed before, but that it may find everything there. *)
LEMMA OneProcessOnly ==
    ASSUME LinkInv, UNCHANGED <<instance, port, handled, allow, holders>>, NEW l \in Links, NEW x \in Process,
           urika' = [urika EXCEPT ![l] = x],
           DOMAIN linkFaults' = {"left", "noReply", "names"}, linkFaults'.noReply = linkFaults.noReply,
           linkFaults.names => linkFaults'.names,
           x.pc = "put" => linkFaults'.names \/ x.slot \notin Others(allow),
           x.pc \notin {"protocol", "command", "none"}, x.ok => x.pc \in Late,
           urika[l].ok => x.ok, urika[l].admin => x.admin, urika[l].ok \/ urika[l].admin => x.exe = urika[l].exe,
           x.ok => urika[l].ok \/ holders = Linking!Wanted(x.exe),
           LinkOk(l, x, instance, handled, l \in linkFaults.noReply)
    PROVE  LinkInv'
<1>0. urika \in [Links -> Process] /\ holders \in Holders /\ IsFiniteSet(DOMAIN allow) /\ AllowOk(allow, urika, linkFaults.names)
      /\ HoldersOk(holders, urika)
  BY DEF LinkInv, LinkTyped
<1>1. \A k \in Links : k # l => urika'[k] = urika[k]
  BY <1>0
<1>2. urika'[l] = x
  BY <1>0
<1>3. AllowOk(allow, urika', linkFaults'.names)
  BY <1>0, <1>1, <1>2 DEF AllowOk
<1>4. HoldersOk(holders, urika')
  <2>1. ASSUME NEW k \in Links
        PROVE  /\ urika'[k].pc \in {"protocol", "command"} => holders.name = "URL:sge protocol"
               /\ urika'[k].pc = "command" => holders.protocol = ""
               /\ urika'[k].ok => urika'[k].pc \in Late
               /\ urika'[k].pc = "none" => ~urika'[k].admin
    BY <1>0, <1>1, <1>2 DEF HoldersOk
  <2>2. ASSUME \E k \in Links : urika'[k].ok
        PROVE  \E k \in Links : (urika'[k].ok \/ urika'[k].admin) /\ holders = Linking!Wanted(urika'[k].exe)
    <3>1. CASE \E k \in Links : urika[k].ok
      <4>1. PICK k \in Links : (urika[k].ok \/ urika[k].admin) /\ holders = Linking!Wanted(urika[k].exe)
        BY <1>0, <3>1 DEF HoldersOk
      <4> QED BY <1>1, <1>2, <4>1
    <3>2. CASE \A k \in Links : ~urika[k].ok
      BY <1>1, <1>2, <2>2, <3>2
    <3> QED BY <3>1, <3>2
  <2> QED BY <2>1, <2>2 DEF HoldersOk
<1> QED BY <1>0, <1>3, <1>4, OneProcess

(* A process that has not got as far as its link may go anywhere but to an instance. *)
LEMMA LinkNotSent ==
    ASSUME NEW l, NEW proc, NEW x, NEW apps, NEW got, NEW lost, LinkOk(l, proc, apps, got, lost),
           proc.pc \notin {"launch", "end", "dead"}, x.pc # "launch", x.pc # "end" \/ x.code # 0
    PROVE  LinkOk(l, x, apps, got, lost)
BY DEF LinkOk

(* The holders are those of a path when each value is. *)
LEMMA WantedIs ==
    ASSUME NEW held \in Holders, NEW e
    PROVE  held = Linking!Wanted(e) <=> held.name = "URL:sge protocol" /\ held.protocol = "" /\ held.command = e
<1>1. held = [name |-> held.name, protocol |-> held.protocol, command |-> held.command]
  BY DEF Holders
<1>2. /\ Linking!Wanted(e).name = "URL:sge protocol" /\ Linking!Wanted(e).protocol = "" /\ Linking!Wanted(e).command = e
      /\ Linking!Wanted(e) = [name |-> "URL:sge protocol", protocol |-> "", command |-> e]
  BY DEF Linking!Wanted
<1> QED BY <1>1, <1>2

(* Every step of urika on the registry. *)
LEMMA RegistryStep ==
    ASSUME LinkInv, NEW l \in Links,
           \/ \E exe \in Exes, admin \in BOOLEAN : Linking!Click(l, exe, admin)
           \/ Linking!CheckAnySubKeyWithValue(l) \/ Linking!allowlistInstall(l) \/ Linking!SetAllowed(l)
           \/ Linking!checkHolders(l) \/ \E h \in {"name", "protocol", "command"} : Linking!installHolders(l, h)
           \/ Linking!AfterInstall(l) \/ Linking!ParseFails(l)
    PROVE  LinkInv'
<1> DEFINE x == urika[l]
<1> USE DEF Linking!RestSame
<1>0. /\ x \in Process /\ urika \in [Links -> Process] /\ holders \in Holders /\ IsFiniteSet(DOMAIN allow)
      /\ AllowOk(allow, urika, linkFaults.names) /\ HoldersOk(holders, urika)
      /\ DOMAIN linkFaults = {"left", "noReply", "names"} /\ LinkOk(l, x, instance, handled, l \in linkFaults.noReply)
  BY DEF LinkInv, LinkTyped
<1>1. /\ x.ok => x.pc \in Late
      /\ x.pc = "none" => ~x.admin
      /\ x.pc \in {"protocol", "command"} => holders.name = "URL:sge protocol"
      /\ x.pc = "command" => holders.protocol = ""
  BY <1>0 DEF HoldersOk
<1>2. ASSUME Linking!Fault PROVE DOMAIN linkFaults' = DOMAIN linkFaults /\ linkFaults'.noReply = linkFaults.noReply /\ linkFaults'.names = linkFaults.names
  BY <1>0, <1>2 DEF Linking!Fault
<1>3. ASSUME x.pc \notin {"launch", "end", "dead"}, NEW y, y.pc # "launch", y.pc # "end" \/ y.code # 0
      PROVE  LinkOk(l, y, instance, handled, l \in linkFaults.noReply)
  BY <1>0, <1>3, LinkNotSent
<1>4. ASSUME NEW pc \in {"slot", "holders", "failed", "send"}, Linking!Go(l, pc), x.pc \notin {"launch", "end", "dead"},
             Linking!Fault \/ UNCHANGED linkFaults, UNCHANGED <<instance, port, handled, allow, holders>>, x.ok => pc \in Late
      PROVE  LinkInv'
  <2> DEFINE y == [x EXCEPT !.pc = pc]
  <2>1. y \in Process /\ urika' = [urika EXCEPT ![l] = y] /\ y.pc = pc /\ y.ok = x.ok /\ y.admin = x.admin /\ y.exe = x.exe
    BY <1>0, <1>4 DEF Process, Linking!Go
  <2>2. LinkOk(l, y, instance, handled, l \in linkFaults.noReply)
    BY <1>3, <1>4, <2>1
  <2> HIDE DEF y
  <2> QED BY <1>0, <1>2, <1>4, <2>1, <2>2, OneProcessOnly
<1>5. ASSUME NEW exe \in Exes, NEW admin \in BOOLEAN, Linking!Click(l, exe, admin) PROVE LinkInv'
  <2> DEFINE y == [Linking!NoProcess EXCEPT !.pc = "check", !.exe = exe, !.admin = admin]
  <2>1. y \in Process /\ y.pc = "check" /\ ~y.ok /\ x.pc = "none" /\ urika' = [urika EXCEPT ![l] = y]
        /\ UNCHANGED <<allow, holders, linkFaults, instance, port, handled>>
    BY <1>5 DEF Process, Linking!NoProcess, Linking!Click
  <2>2. LinkOk(l, y, instance, handled, l \in linkFaults.noReply)
    BY <1>3, <2>1
  <2>3. ~x.ok /\ ~x.admin
    BY <1>1, <2>1 DEF Late
  <2> HIDE DEF y
  <2> QED BY <1>0, <2>1, <2>2, <2>3, OneProcessOnly
<1>6. ASSUME Linking!CheckAnySubKeyWithValue(l) PROVE LinkInv'
  BY <1>1, <1>4, <1>6 DEF Linking!CheckAnySubKeyWithValue, Late
<1>7. ASSUME Linking!allowlistInstall(l) PROVE LinkInv'
  <2>1. x.pc = "slot" /\ ~x.ok /\ UNCHANGED <<allow, holders, instance, port, handled>>
    BY <1>1, <1>7 DEF Linking!allowlistInstall, Late
  <2>2. ASSUME NEW slot \in Nat, urika' = [urika EXCEPT ![l].pc = "put", ![l].slot = slot],
               DOMAIN linkFaults' = {"left", "noReply", "names"}, linkFaults'.noReply = linkFaults.noReply,
               linkFaults.names => linkFaults'.names, linkFaults'.names \/ slot \notin DOMAIN allow
        PROVE  LinkInv'
    <3> DEFINE y == [x EXCEPT !.pc = "put", !.slot = slot]
    <3>1. y \in Process /\ urika' = [urika EXCEPT ![l] = y] /\ y.pc = "put" /\ y.ok = x.ok /\ y.admin = x.admin
          /\ y.exe = x.exe /\ y.slot = slot
      BY <1>0, <2>2 DEF Process
    <3>2. LinkOk(l, y, instance, handled, l \in linkFaults.noReply)
      BY <1>3, <2>1, <3>1
    <3>3. linkFaults'.names \/ slot \notin Others(allow)
      BY <2>2 DEF Others
    <3> HIDE DEF y
    <3> QED BY <2>1, <2>2, <3>1, <3>2, <3>3, OneProcessOnly
  <2>3. CASE UNCHANGED linkFaults /\ urika' = [urika EXCEPT ![l].pc = "put", ![l].slot = Linking!FreeSlot(DOMAIN allow)]
    BY <1>0, <2>2, <2>3, FreeSlotFree
  <2>4. CASE /\ linkFaults' = [linkFaults EXCEPT !.left = @ - 1, !.names = TRUE]
             /\ urika' = [urika EXCEPT ![l].pc = "put", ![l].slot = 1]
    BY <1>0, <2>2, <2>4
  <2>5. CASE Linking!Go(l, "holders") /\ UNCHANGED linkFaults
    BY <1>4, <2>1, <2>5
  <2> QED BY <1>7, <2>3, <2>4, <2>5 DEF Linking!allowlistInstall
<1>8. ASSUME Linking!SetAllowed(l) PROVE LinkInv'
  <2> DEFINE y == [x EXCEPT !.pc = "holders"]
  <2>1. x.pc = "put" /\ ~x.ok /\ UNCHANGED <<holders, instance, port, handled>> /\ Linking!Go(l, "holders")
    BY <1>1, <1>8 DEF Linking!SetAllowed, Late
  <2>2. CASE Linking!Fault /\ UNCHANGED allow
    BY <1>4, <2>1, <2>2
  <2>3. CASE /\ allow' = [s \in DOMAIN allow \cup {x.slot} |-> IF s = x.slot THEN Linking!Mask ELSE allow[s]]
             /\ UNCHANGED linkFaults
    <3>1. y \in Process /\ urika' = [urika EXCEPT ![l] = y] /\ y.pc = "holders" /\ y.ok = x.ok /\ y.admin = x.admin /\ y.exe = x.exe
      BY <1>0, <2>1 DEF Process, Linking!Go
    <3>2. LinkOk(l, y, instance, handled, l \in linkFaults.noReply)
      BY <1>3, <2>1, <3>1
    <3>3. IsFiniteSet(DOMAIN allow') /\ Others(allow') = Others(allow) \ {x.slot}
      <4>1. DOMAIN allow' = DOMAIN allow \cup {x.slot}
        BY <2>3
      <4>2. Others(allow') = Others(allow) \ {x.slot}
        BY <2>3 DEF Others, Linking!Mask
      <4> QED BY <1>0, <4>1, <4>2, FS_AddElement
    <3>4. \A k \in Links : urika'[k].pc = "put" => urika'[k] = urika[k]
      BY <1>0, <3>1
    <3>5. AllowOk(allow', urika', linkFaults'.names)
      BY <1>0, <2>1, <2>3, <3>3, <3>4 DEF AllowOk
    <3>6. HoldersOk(holders, urika')
      <4>1. \A k \in Links : /\ urika'[k].pc = urika[k].pc \/ urika'[k].pc = "holders"
                             /\ urika'[k].ok = urika[k].ok /\ urika'[k].admin = urika[k].admin /\ urika'[k].exe = urika[k].exe
        BY <1>0, <3>1
      <4>2. \A k \in Links : urika'[k].ok => urika'[k].pc = urika[k].pc
        BY <1>0, <2>1, <3>1
      <4> HIDE DEF y
      <4> QED BY <1>0, <4>1, <4>2 DEF HoldersOk
    <3> HIDE DEF y
    <3> QED BY <1>0, <2>1, <2>3, <3>1, <3>2, <3>3, <3>5, <3>6, OneProcess
  <2> QED BY <1>8, <2>2, <2>3 DEF Linking!SetAllowed
<1>9. ASSUME Linking!checkHolders(l) PROVE LinkInv'
  <2> DEFINE ok == holders = Linking!Wanted(x.exe)
             y == [x EXCEPT !.pc = IF ok THEN "done" ELSE "name", !.ok = ok]
  <2>1. x.pc = "holders" /\ ~x.ok /\ UNCHANGED <<allow, holders, instance, port, handled, linkFaults>>
    BY <1>1, <1>9 DEF Linking!checkHolders, Late
  <2>2. y \in Process /\ urika' = [urika EXCEPT ![l] = y] /\ y.ok = ok /\ y.admin = x.admin /\ y.exe = x.exe
        /\ y.pc = IF ok THEN "done" ELSE "name"
    BY <1>0, <1>9 DEF Process, Linking!checkHolders
  <2> HIDE DEF y
  <2>3. LinkOk(l, y, instance, handled, l \in linkFaults.noReply)
    BY <1>3, <2>1, <2>2
  <2> QED BY <1>0, <2>1, <2>2, <2>3, OneProcessOnly DEF Late
<1>10. ASSUME NEW h \in {"name", "protocol", "command"}, Linking!installHolders(l, h) PROVE LinkInv'
  <2>1. x.pc = h /\ ~x.ok /\ UNCHANGED <<allow, instance, port, handled>>
    BY <1>1, <1>10 DEF Linking!installHolders, Late
  <2>2. CASE Linking!Go(l, "failed") /\ (Linking!Fault \/ UNCHANGED linkFaults) /\ UNCHANGED holders
    BY <1>4, <2>1, <2>2
  <2>3. CASE /\ x.admin /\ holders' = [holders EXCEPT ![h] = Linking!Wanted(x.exe)[h]] /\ UNCHANGED linkFaults
             /\ urika' = [urika EXCEPT ![l].pc = Linking!AfterHolder(h), ![l].ok = Linking!AfterHolder(h) = "done"]
    <3> DEFINE next == Linking!AfterHolder(h)
               y == [x EXCEPT !.pc = next, !.ok = next = "done"]
    <3>1. next = IF h = "name" THEN "protocol" ELSE IF h = "protocol" THEN "command" ELSE "done"
      BY DEF Linking!AfterHolder
    <3>2. y \in Process /\ urika' = [urika EXCEPT ![l] = y] /\ y.ok = (next = "done") /\ y.admin = x.admin /\ y.exe = x.exe
          /\ y.pc = next
      BY <1>0, <2>3, <3>1 DEF Process
    <3>3. LinkOk(l, y, instance, handled, l \in linkFaults.noReply)
      BY <1>3, <2>1, <3>1, <3>2
    <3>4. \A k \in Links : k # l => urika'[k] = urika[k]
      BY <1>0, <3>2
    <3>5. urika'[l] = y
      BY <1>0, <3>2
    <3> HIDE DEF y, next
    <3>6. AllowOk(allow', urika', linkFaults'.names)
      BY <1>0, <2>1, <2>3, <3>1, <3>2, <3>4, <3>5 DEF AllowOk
    <3>0. Linking!Wanted(x.exe).name = "URL:sge protocol" /\ Linking!Wanted(x.exe).protocol = "" /\ Linking!Wanted(x.exe).command = x.exe
      BY DEF Linking!Wanted
    <3>7. /\ h = "name" => holders'.name = "URL:sge protocol" /\ holders'.protocol = holders.protocol /\ holders'.command = holders.command
          /\ h = "protocol" => holders'.protocol = "" /\ holders'.name = holders.name /\ holders'.command = holders.command
          /\ h = "command" => holders'.command = x.exe /\ holders'.name = holders.name /\ holders'.protocol = holders.protocol
      BY <1>0, <2>3, <3>0 DEF Holders
    <3>8. x.exe \in Exes \cup {""}
      BY <1>0 DEF Process
    <3>9. holders' \in Holders
      <4>1. CASE h = "name"
        BY <1>0, <2>3, <3>0, <4>1 DEF Holders
      <4>2. CASE h = "protocol"
        BY <1>0, <2>3, <3>0, <4>2 DEF Holders
      <4>3. CASE h = "command"
        BY <1>0, <2>3, <3>0, <3>8, <4>3 DEF Holders
      <4> QED BY <4>1, <4>2, <4>3
    <3>10. \A e : holders' = Linking!Wanted(e) <=> holders'.name = "URL:sge protocol" /\ holders'.protocol = "" /\ holders'.command = e
      BY <3>9, WantedIs
    <3>11. \A e : holders = Linking!Wanted(e) <=> holders.name = "URL:sge protocol" /\ holders.protocol = "" /\ holders.command = e
      BY <1>0, WantedIs
    <3>12. HoldersOk(holders', urika')
      <4>1. ASSUME NEW k \in Links
            PROVE  /\ urika'[k].pc \in {"protocol", "command"} => holders'.name = "URL:sge protocol"
                   /\ urika'[k].pc = "command" => holders'.protocol = ""
                   /\ urika'[k].ok => urika'[k].pc \in Late
                   /\ urika'[k].pc = "none" => ~urika'[k].admin
        BY <1>0, <1>1, <2>1, <3>1, <3>2, <3>4, <3>5, <3>7 DEF HoldersOk, Late
      <4>2. ASSUME \E k \in Links : urika'[k].ok
            PROVE  \E k \in Links : (urika'[k].ok \/ urika'[k].admin) /\ holders' = Linking!Wanted(urika'[k].exe)
        <5>1. CASE h = "command"
          <6>0. holders.name = "URL:sge protocol" /\ holders.protocol = ""
            BY <1>1, <2>1, <5>1
          <6>a. holders'.name = "URL:sge protocol" /\ holders'.protocol = "" /\ holders'.command = y.exe
            BY <3>2, <3>7, <5>1, <6>0
          <6>b. holders' = Linking!Wanted(y.exe)
            BY <3>9, <6>a, WantedIs
          <6>1. holders' = Linking!Wanted(y.exe) /\ y.admin
            BY <2>3, <3>2, <6>b
          <6> QED BY <3>5, <6>1
        <5>2. CASE h # "command"
          <6>1. \E k \in Links : urika[k].ok
            BY <3>1, <3>2, <3>4, <3>5, <4>2, <5>2
          <6>2. PICK k \in Links : (urika[k].ok \/ urika[k].admin) /\ holders = Linking!Wanted(urika[k].exe)
            BY <1>0, <6>1 DEF HoldersOk
          <6>3. holders' = Linking!Wanted(urika[k].exe)
            BY <3>7, <3>10, <3>11, <5>2, <6>2
          <6>4. CASE k = l
            BY <2>3, <3>2, <3>5, <6>3, <6>4
          <6>5. CASE k # l
            BY <3>4, <6>2, <6>3, <6>5
          <6> QED BY <6>4, <6>5
        <5> QED BY <5>1, <5>2
      <4> QED BY <4>1, <4>2 DEF HoldersOk
    <3> QED BY <1>0, <2>1, <2>3, <3>2, <3>3, <3>6, <3>9, <3>12, OneProcess
  <2> QED BY <1>10, <2>2, <2>3 DEF Linking!installHolders
<1>11. ASSUME Linking!AfterInstall(l) PROVE LinkInv'
  <2>1. x.pc \in {"done", "failed"} /\ UNCHANGED <<allow, holders, instance, port, handled, linkFaults>>
    BY <1>11 DEF Linking!AfterInstall
  <2>2. CASE Linking!Go(l, "send")
    BY <1>1, <1>4, <2>1, <2>2 DEF Late
  <2>3. CASE x.pc = "failed" /\ ~x.admin /\ urika' = [urika EXCEPT ![l].pc = "check", ![l].admin = TRUE]
    <3> DEFINE y == [x EXCEPT !.pc = "check", !.admin = TRUE]
    <3>1. y \in Process /\ urika' = [urika EXCEPT ![l] = y] /\ y.pc = "check" /\ y.ok = x.ok /\ y.admin /\ y.exe = x.exe
      BY <1>0, <2>3 DEF Process
    <3>2. LinkOk(l, y, instance, handled, l \in linkFaults.noReply)
      BY <1>3, <2>1, <3>1
    <3>3. ~x.ok
      BY <1>1, <2>3 DEF Late
    <3> HIDE DEF y
    <3> QED BY <1>0, <2>1, <3>1, <3>2, <3>3, OneProcessOnly
  <2> QED BY <1>11, <2>2, <2>3 DEF Linking!AfterInstall
<1>12. ASSUME Linking!ParseFails(l) PROVE LinkInv'
  <2> DEFINE y == [x EXCEPT !.pc = "end", !.code = 3]
  <2>1. x.pc = "send" /\ UNCHANGED <<allow, holders, instance, port, handled, linkFaults>>
    BY <1>12 DEF Linking!ParseFails
  <2>2. y \in Process /\ urika' = [urika EXCEPT ![l] = y] /\ y.pc = "end" /\ y.ok = x.ok /\ y.admin = x.admin /\ y.exe = x.exe /\ y.code = 3
    BY <1>0, <1>12 DEF Process, Linking!ParseFails, Linking!End
  <2> HIDE DEF y
  <2>3. LinkOk(l, y, instance, handled, l \in linkFaults.noReply)
    BY <1>3, <2>1, <2>2
  <2> QED BY <1>0, <2>1, <2>2, <2>3, OneProcessOnly DEF Late
<1> QED BY <1>5, <1>6, <1>7, <1>8, <1>9, <1>10, <1>11, <1>12

(* A link stays where it is when the instances it is with do. *)
LEMMA LinkKept ==
    ASSUME NEW l, NEW proc, NEW apps, NEW got, NEW lost, NEW apps2, NEW got2, LinkOk(l, proc, apps, got, lost),
           With(l, apps2, got2) = With(l, apps, got), proc.pc # "end" => apps2[l].pc = apps[l].pc,
           \A i \in With(l, apps, got) : apps2[i].pc # "none" /\ apps2[i].app = apps[i].app
    PROVE  LinkOk(l, proc, apps2, got2, lost)
BY DEF LinkOk

(* Every step of an application. *)
LEMMA AppStepOk ==
    ASSUME LinkInv, NEW i \in Instances, Linking!AppStep(i)
    PROVE  LinkInv'
<1>0. /\ instance \in [Instances -> Application] /\ handled \in [Links -> SUBSET Instances] /\ port \subseteq Instances
      /\ PortOk(instance, port) /\ urika \in [Links -> Process]
      /\ \A l \in Links : LinkOk(l, urika[l], instance, handled, l \in linkFaults.noReply)
  BY DEF LinkInv, LinkTyped
<1>1. UNCHANGED <<allow, holders, urika, linkFaults>>
  BY DEF Linking!AppStep, Linking!StartByHand, Linking!Serve, Linking!Close, Linking!updateUri
<1>2. ASSUME instance' \in [Instances -> Application], handled' \in [Links -> SUBSET Instances], port' \subseteq Instances,
             PortOk(instance', port'),
             \A l \in Links :
               /\ With(l, instance', handled') = With(l, instance, handled)
               /\ urika[l].pc # "end" => instance'[l].pc = instance[l].pc
               /\ \A j \in With(l, instance, handled) : instance'[j].pc # "none" /\ instance'[j].app = instance[j].app
      PROVE  LinkInv'
  <2>1. \A l \in Links : LinkOk(l, urika[l], instance', handled', l \in linkFaults.noReply)
    BY <1>0, <1>2, LinkKept
  <2>2. \A l \in Links : LinkOk(l, urika'[l], instance', handled', l \in linkFaults'.noReply)
    BY <1>1, <2>1
  <2>3. LinkTyped'
    BY <1>1, <1>2 DEF LinkInv, LinkTyped
  <2>4. AllowOk(allow', urika', linkFaults'.names) /\ HoldersOk(holders', urika')
    BY <1>1 DEF LinkInv
  <2> QED BY <1>2, <2>2, <2>3, <2>4 DEF LinkInv
<1>3. \A l \in Links : /\ \A j \in With(l, instance, handled) : instance[j].pc # "none"
                       /\ urika[l].pc # "end" => instance[l].pc = "none"
                       /\ With(l, instance, handled) = handled[l] \cup {j \in Instances : l \in instance[j].uris}
  BY <1>0 DEF LinkOk, With
<1>4. ASSUME Linking!StartByHand(i) PROVE LinkInv'
  <2> DEFINE new == [pc |-> "starting", app |-> i, uris |-> {}]
  <2>1. i \in Apps /\ instance[i].pc = "none" /\ instance' = [instance EXCEPT ![i] = new] /\ UNCHANGED <<port, handled>>
    BY <1>4 DEF Linking!StartByHand
  <2>2. new \in Application
    BY <2>1 DEF Application
  <2>3. instance' \in [Instances -> Application] /\ instance'[i] = new /\ \A j \in Instances : j # i => instance'[j] = instance[j]
    BY <1>0, <2>1, <2>2
  <2>4. PortOk(instance', port')
    BY <1>0, <2>1, <2>3 DEF PortOk
  <2>5. ASSUME NEW l \in Links
        PROVE  /\ With(l, instance', handled') = With(l, instance, handled)
               /\ urika[l].pc # "end" => instance'[l].pc = instance[l].pc
               /\ \A j \in With(l, instance, handled) : instance'[j].pc # "none" /\ instance'[j].app = instance[j].app
    <3>1. i \notin With(l, instance, handled) /\ l # i
      BY <1>3, <2>1, UrikaAssumption DEF Linking!UrikaConstants
    <3>2. With(l, instance', handled') = With(l, instance, handled)
      BY <1>0, <1>3, <2>1, <2>3, <3>1 DEF With
    <3>3. \A j \in With(l, instance, handled) : instance'[j] = instance[j]
      BY <1>0, <1>3, <2>3, <3>1
    <3> QED BY <1>3, <2>3, <3>1, <3>2, <3>3 DEF Instances
  <2> QED BY <1>0, <1>2, <2>1, <2>3, <2>4, <2>5
<1>5. ASSUME Linking!Serve(i) PROVE LinkInv'
  <2> DEFINE new == [instance[i] EXCEPT !.pc = "running"]
  <2>1. instance[i].pc = "starting" /\ instance' = [instance EXCEPT ![i] = new] /\ UNCHANGED handled
        /\ port' = IF port = {} THEN {i} ELSE port
    BY <1>5 DEF Linking!Serve
  <2>2. new \in Application /\ new.pc = "running" /\ new.app = instance[i].app /\ new.uris = instance[i].uris
    BY <1>0 DEF Application
  <2> HIDE DEF new
  <2>3. instance' \in [Instances -> Application] /\ instance'[i] = new /\ \A j \in Instances : j # i => instance'[j] = instance[j]
    BY <1>0, <2>1, <2>2
  <2>4. PortOk(instance', port')
    BY <1>0, <2>1, <2>2, <2>3 DEF PortOk
  <2>5. ASSUME NEW l \in Links
        PROVE  /\ With(l, instance', handled') = With(l, instance, handled)
               /\ urika[l].pc # "end" => instance'[l].pc = instance[l].pc
               /\ \A j \in With(l, instance, handled) : instance'[j].pc # "none" /\ instance'[j].app = instance[j].app
    <3>1. urika[l].pc # "end" => l # i
      BY <1>3, <2>1
    <3>2. With(l, instance', handled') = With(l, instance, handled)
      BY <1>0, <2>1, <2>2, <2>3 DEF With
    <3>3. \A j \in With(l, instance, handled) : instance'[j].pc # "none" /\ instance'[j].app = instance[j].app
      BY <1>0, <1>3, <2>2, <2>3
    <3> QED BY <1>3, <2>3, <3>1, <3>2, <3>3 DEF Instances
  <2>6. port' \subseteq Instances
    BY <1>0, <2>1
  <2> QED BY <1>0, <1>2, <2>1, <2>3, <2>4, <2>5, <2>6
<1>6. ASSUME NEW k \in Links, Linking!updateUri(i, k) PROVE LinkInv'
  <2> DEFINE new == [instance[i] EXCEPT !.uris = @ \ {k}]
  <2>1. instance[i].pc \in {"starting", "running"} /\ k \in instance[i].uris /\ instance' = [instance EXCEPT ![i] = new]
        /\ handled' = [handled EXCEPT ![k] = @ \cup {i}] /\ UNCHANGED port
    BY <1>6 DEF Linking!updateUri
  <2>2. new \in Application /\ new.pc = instance[i].pc /\ new.app = instance[i].app /\ new.uris = instance[i].uris \ {k}
    BY <1>0 DEF Application
  <2> HIDE DEF new
  <2>3. instance' \in [Instances -> Application] /\ instance'[i] = new /\ \A j \in Instances : j # i => instance'[j] = instance[j]
    BY <1>0, <2>1, <2>2
  <2>4. PortOk(instance', port')
    BY <1>0, <2>1, <2>2, <2>3 DEF PortOk
  <2>5. ASSUME NEW l \in Links
        PROVE  /\ With(l, instance', handled') = With(l, instance, handled)
               /\ urika[l].pc # "end" => instance'[l].pc = instance[l].pc
               /\ \A j \in With(l, instance, handled) : instance'[j].pc # "none" /\ instance'[j].app = instance[j].app
    <3>1. urika[l].pc # "end" => l # i
      BY <1>3, <2>1
    <3>2. With(l, instance', handled') = With(l, instance, handled)
      <4>1. With(l, instance', handled') = handled'[l] \cup {j \in Instances : l \in instance'[j].uris}
        BY <2>3 DEF With
      <4>2. handled'[l] = IF l = k THEN handled[l] \cup {i} ELSE handled[l]
        BY <1>0, <2>1
      <4>3. \A j \in Instances : l \in instance'[j].uris <=> l \in instance[j].uris /\ ~(j = i /\ l = k)
        BY <2>2, <2>3
      <4> DEFINE old == {j \in Instances : l \in instance[j].uris}
      <4>4. {j \in Instances : l \in instance'[j].uris} = IF l = k THEN old \ {i} ELSE old
        BY <4>3
      <4>5. With(l, instance, handled) = handled[l] \cup old /\ (l = k => i \in old)
        BY <1>3, <2>1
      <4> HIDE DEF old
      <4> QED BY <4>1, <4>2, <4>4, <4>5
    <3>3. \A j \in With(l, instance, handled) : instance'[j].pc # "none" /\ instance'[j].app = instance[j].app
      BY <1>0, <1>3, <2>1, <2>2, <2>3
    <3> QED BY <1>3, <2>2, <2>3, <3>1, <3>2, <3>3 DEF Instances
  <2>6. handled' \in [Links -> SUBSET Instances]
    BY <1>0, <2>1
  <2> QED BY <1>0, <1>2, <2>1, <2>3, <2>4, <2>5, <2>6
<1>7. ASSUME Linking!Close(i) PROVE LinkInv'
  <2> DEFINE new == [instance[i] EXCEPT !.pc = "closed", !.uris = {}]
  <2>1. instance[i].pc \in {"starting", "running"} /\ instance' = [instance EXCEPT ![i] = new] /\ port' = port \ {i}
        /\ handled' = [l \in Links |-> IF l \in instance[i].uris THEN handled[l] \cup {i} ELSE handled[l]]
    BY <1>7 DEF Linking!Close
  <2>2. new \in Application /\ new.pc = "closed" /\ new.app = instance[i].app /\ new.uris = {}
    BY <1>0 DEF Application
  <2> HIDE DEF new
  <2>3. instance' \in [Instances -> Application] /\ instance'[i] = new /\ \A j \in Instances : j # i => instance'[j] = instance[j]
    BY <1>0, <2>1, <2>2
  <2>4. PortOk(instance', port')
    BY <1>0, <2>1, <2>2, <2>3 DEF PortOk
  <2>5. ASSUME NEW l \in Links
        PROVE  /\ With(l, instance', handled') = With(l, instance, handled)
               /\ urika[l].pc # "end" => instance'[l].pc = instance[l].pc
               /\ \A j \in With(l, instance, handled) : instance'[j].pc # "none" /\ instance'[j].app = instance[j].app
    <3>1. urika[l].pc # "end" => l # i
      BY <1>3, <2>1
    <3>2. With(l, instance', handled') = With(l, instance, handled)
      <4>1. With(l, instance', handled') = handled'[l] \cup {j \in Instances : l \in instance'[j].uris}
        BY <2>3 DEF With
      <4>2. handled'[l] = IF l \in instance[i].uris THEN handled[l] \cup {i} ELSE handled[l]
        BY <2>1
      <4>3. \A j \in Instances : l \in instance'[j].uris <=> l \in instance[j].uris /\ j # i
        BY <2>2, <2>3
      <4> DEFINE old == {j \in Instances : l \in instance[j].uris}
      <4>4. {j \in Instances : l \in instance'[j].uris} = old \ {i}
        BY <4>3
      <4>5. With(l, instance, handled) = handled[l] \cup old /\ (l \in instance[i].uris <=> i \in old)
        BY <1>3
      <4> HIDE DEF old
      <4> QED BY <4>1, <4>2, <4>4, <4>5
    <3>3. \A j \in With(l, instance, handled) : instance'[j].pc # "none" /\ instance'[j].app = instance[j].app
      BY <1>0, <1>3, <2>1, <2>2, <2>3
    <3> QED BY <1>3, <2>2, <2>3, <3>1, <3>2, <3>3 DEF Instances
  <2>6. handled' \in [Links -> SUBSET Instances] /\ port' \subseteq Instances
    BY <1>0, <2>1
  <2> QED BY <1>0, <1>2, <2>1, <2>3, <2>4, <2>5, <2>6
<1> QED BY <1>4, <1>5, <1>6, <1>7 DEF Linking!AppStep

(* A step that hands a link on, for the link itself and for the others. *)
LEMMA OneLink ==
    ASSUME LinkInv, UNCHANGED <<allow, holders, handled, port>>, NEW l \in Links, NEW x \in Process, urika' = [urika EXCEPT ![l] = x],
           x.pc \in Late, x.ok = urika[l].ok, x.admin = urika[l].admin, x.exe = urika[l].exe, urika[l].pc # "none",
           DOMAIN linkFaults' = {"left", "noReply", "names"}, linkFaults'.names = linkFaults.names,
           \A k \in Links : k # l => (k \in linkFaults'.noReply <=> k \in linkFaults.noReply),
           instance' \in [Instances -> Application], PortOk(instance', port),
           LinkOk(l, x, instance', handled, l \in linkFaults'.noReply),
           \A k \in Links : k # l => /\ With(k, instance', handled) = With(k, instance, handled)
                                     /\ instance'[k].pc = instance[k].pc
                                     /\ \A i \in With(k, instance, handled) : instance'[i].pc = instance[i].pc /\ instance'[i].app = instance[i].app
    PROVE  LinkInv'
<1>0. urika \in [Links -> Process] /\ AllowOk(allow, urika, linkFaults.names) /\ HoldersOk(holders, urika)
  BY DEF LinkInv, LinkTyped
<1>1. LinkTyped'
  BY DEF LinkInv, LinkTyped
<1>2. urika'[l] = x /\ \A k \in Links : k # l => urika'[k] = urika[k]
  BY <1>0
<1>3. AllowOk(allow', urika', linkFaults'.names)
  BY <1>0, <1>2 DEF AllowOk, Late
<1>4. HoldersOk(holders', urika')
  <2>1. \A k \in Links : urika'[k].ok = urika[k].ok /\ urika'[k].admin = urika[k].admin /\ urika'[k].exe = urika[k].exe
    BY <1>2
  <2>2. ASSUME NEW k \in Links
        PROVE  /\ urika'[k].pc \in {"protocol", "command"} => holders.name = "URL:sge protocol"
               /\ urika'[k].pc = "command" => holders.protocol = ""
               /\ urika'[k].ok => urika'[k].pc \in Late
               /\ urika'[k].pc = "none" => ~urika'[k].admin
    BY <1>0, <1>2 DEF HoldersOk, Late
  <2>3. ASSUME \E k \in Links : urika'[k].ok
        PROVE  \E k \in Links : (urika'[k].ok \/ urika'[k].admin) /\ holders = Linking!Wanted(urika'[k].exe)
    <3>1. PICK k \in Links : (urika[k].ok \/ urika[k].admin) /\ holders = Linking!Wanted(urika[k].exe)
      BY <1>0, <2>1, <2>3 DEF HoldersOk
    <3> QED BY <2>1, <3>1
  <2> QED BY <2>2, <2>3 DEF HoldersOk
<1>5. \A k \in Links : LinkOk(k, urika'[k], instance', handled', k \in linkFaults'.noReply)
  <2> SUFFICES ASSUME NEW k \in Links PROVE LinkOk(k, urika'[k], instance', handled', k \in linkFaults'.noReply)
    OBVIOUS
  <2>1. CASE k = l
    <3>1. LinkOk(l, urika'[l], instance', handled', l \in linkFaults'.noReply)
      BY <1>2
    <3> QED BY <2>1, <3>1
  <2>2. CASE k # l
    <3>1. LinkOk(k, urika[k], instance, handled, k \in linkFaults.noReply)
      BY DEF LinkInv
    <3>2. \A i \in With(k, instance, handled) : instance[i].pc # "none"
      BY <3>1 DEF LinkOk
    <3>3. LinkOk(k, urika[k], instance', handled, k \in linkFaults.noReply)
      BY <2>2, <3>1, <3>2, LinkKept
    <3>4. urika'[k] = urika[k] /\ handled' = handled /\ (k \in linkFaults'.noReply <=> k \in linkFaults.noReply)
      BY <1>2, <2>2
    <3>5. (k \in linkFaults'.noReply) = (k \in linkFaults.noReply)
      BY <3>4
    <3> QED BY <3>3, <3>4, <3>5
  <2> QED BY <2>1, <2>2
<1> QED BY <1>1, <1>3, <1>4, <1>5 DEF LinkInv

(* Every step of urika on its link. *)
LEMMA LinkStepOk ==
    ASSUME LinkInv, NEW l \in Links, Linking!sendMessage(l) \/ Linking!launchApp(l) \/ Linking!Dies(l)
    PROVE  LinkInv'
<1> DEFINE x == urika[l]
<1>0. /\ x \in Process /\ urika \in [Links -> Process] /\ instance \in [Instances -> Application]
      /\ handled \in [Links -> SUBSET Instances] /\ port \subseteq Instances /\ PortOk(instance, port)
      /\ DOMAIN linkFaults = {"left", "noReply", "names"} /\ LinkOk(l, x, instance, handled, l \in linkFaults.noReply)
      /\ l \in Instances
  BY DEF LinkInv, LinkTyped, Instances
<1>1. \A k \in Links : With(k, instance, handled) = handled[k] \cup {i \in Instances : k \in instance[i].uris}
  BY <1>0 DEF With
<1>2. ASSUME Linking!Fault PROVE DOMAIN linkFaults' = DOMAIN linkFaults /\ linkFaults'.noReply = linkFaults.noReply /\ linkFaults'.names = linkFaults.names
  BY <1>0, <1>2 DEF Linking!Fault
<1>3. ASSUME Linking!Dies(l) PROVE LinkInv'
  <2> DEFINE y == [x EXCEPT !.pc = "dead"]
  <2>1. x.pc \notin {"none", "end", "dead"} /\ Linking!Fault /\ UNCHANGED <<instance, port, handled, allow, holders>>
    BY <1>3 DEF Linking!Dies, Linking!RestSame
  <2>2. y \in Process /\ urika' = [urika EXCEPT ![l] = y] /\ y.pc = "dead" /\ y.ok = x.ok /\ y.admin = x.admin /\ y.exe = x.exe
    BY <1>0, <1>3 DEF Process, Linking!Dies, Linking!Go
  <2> HIDE DEF y
  <2>3. LinkOk(l, y, instance, handled, l \in linkFaults.noReply)
    BY <1>0, <2>1, <2>2 DEF LinkOk
  <2> QED BY <1>0, <1>2, <2>1, <2>2, <2>3, OneProcessOnly DEF Late
<1>4. ASSUME Linking!launchApp(l) PROVE LinkInv'
  <2>1. x.pc = "launch" /\ UNCHANGED <<port, handled, allow, holders>>
    BY <1>4 DEF Linking!launchApp
  <2>2. CASE Linking!Fault /\ Linking!End(l, 4) /\ UNCHANGED instance
    <3> DEFINE y == [x EXCEPT !.pc = "end", !.code = 4]
    <3>1. y \in Process /\ urika' = [urika EXCEPT ![l] = y] /\ y.pc = "end" /\ y.ok = x.ok /\ y.admin = x.admin /\ y.exe = x.exe /\ y.code = 4
      BY <1>0, <2>2 DEF Process, Linking!End
    <3> HIDE DEF y
    <3>2. LinkOk(l, y, instance, handled, l \in linkFaults.noReply)
      BY <1>0, <2>1, <3>1 DEF LinkOk
    <3> QED BY <1>0, <1>2, <2>1, <2>2, <3>1, <3>2, OneProcessOnly DEF Late
  <2>3. CASE /\ instance' = [instance EXCEPT ![l] = [pc |-> "starting", app |-> AppOf[l], uris |-> {l}]]
             /\ Linking!End(l, 0) /\ UNCHANGED linkFaults
    <3> DEFINE y == [x EXCEPT !.pc = "end", !.code = 0]
               new == [pc |-> "starting", app |-> AppOf[l], uris |-> {l}]
               w == With(l, instance, handled)
    <3>1. y \in Process /\ urika' = [urika EXCEPT ![l] = y] /\ y.pc = "end" /\ y.ok = x.ok /\ y.admin = x.admin /\ y.exe = x.exe /\ y.code = 0
      BY <1>0, <2>3 DEF Process, Linking!End
    <3>2. new \in Application
      BY DEF Application
    <3>3. instance' \in [Instances -> Application] /\ instance'[l] = new /\ \A i \in Instances : i # l => instance'[i] = instance[i]
      BY <1>0, <2>3, <3>2
    <3>4. instance[l].pc = "none" /\ l \notin w
      BY <1>0, <2>1 DEF LinkOk
    <3>5. PortOk(instance', port)
      BY <1>0, <3>3, <3>4 DEF PortOk
    <3>6. ASSUME NEW k \in Links PROVE l \notin With(k, instance, handled)
      BY <3>4 DEF LinkInv, LinkOk
    <3>7. ASSUME NEW k \in Links
          PROVE  With(k, instance', handled) = IF k = l THEN With(k, instance, handled) \cup {l} ELSE With(k, instance, handled)
      <4>1. With(k, instance', handled) = handled[k] \cup {i \in Instances : k \in instance'[i].uris}
        BY <3>3 DEF With
      <4>2. \A i \in Instances : k \in instance'[i].uris <=> (k \in instance[i].uris /\ i # l) \/ (i = l /\ k = l)
        BY <3>3
      <4>3. ~(k \in instance[l].uris)
        BY <1>0, <1>1, <3>6
      <4>4. {i \in Instances : k \in instance'[i].uris}
               = IF k = l THEN {i \in Instances : k \in instance[i].uris} \cup {l} ELSE {i \in Instances : k \in instance[i].uris}
        BY <1>0, <4>2, <4>3
      <4> QED BY <1>1, <4>1, <4>4
    <3>8. LinkOk(l, y, instance', handled, l \in linkFaults.noReply)
      <4> DEFINE v == With(l, instance', handled)
      <4>1. v = w \cup {l}
        BY <3>7
      <4>2. \A i \in v : instance'[i].pc # "none" /\ instance'[i].app = AppOf[l]
        BY <1>0, <1>1, <3>3, <3>4, <4>1 DEF LinkOk
      <4>3. IF l \in linkFaults.noReply THEN \E i, j : i # j /\ v = {i, j} ELSE \E i : v = {i}
        <5>1. CASE l \in linkFaults.noReply
          <6>1. PICK i : w = {i}
            BY <1>0, <2>1, <5>1 DEF LinkOk
          <6>2. i # l /\ v = {i, l}
            BY <3>4, <4>1, <6>1
          <6> QED BY <5>1, <6>2
        <5>2. CASE l \notin linkFaults.noReply
          <6>1. w = {}
            BY <1>0, <2>1, <5>2 DEF LinkOk
          <6>2. v = {l}
            BY <4>1, <6>1
          <6> QED BY <5>2, <6>2
        <5> QED BY <5>1, <5>2
      <4> HIDE DEF v, y
      <4> QED BY <3>1, <4>2, <4>3 DEF LinkOk, v
    <3>9. ASSUME NEW k \in Links, k # l
          PROVE  /\ With(k, instance', handled) = With(k, instance, handled)
                 /\ instance'[k].pc = instance[k].pc
                 /\ \A i \in With(k, instance, handled) : instance'[i].pc = instance[i].pc /\ instance'[i].app = instance[i].app
      BY <1>0, <1>1, <3>3, <3>6, <3>7, <3>9 DEF Instances
    <3> HIDE DEF y, new
    <3> QED BY <1>0, <2>1, <2>3, <3>1, <3>3, <3>5, <3>8, <3>9, OneLink DEF Late
  <2> QED BY <1>4, <2>2, <2>3 DEF Linking!launchApp
<1>5. ASSUME Linking!sendMessage(l) PROVE LinkInv'
  <2> DEFINE here == {i \in port : instance[i].app = AppOf[l]}
             w == With(l, instance, handled)
  <2>1. x.pc = "send" /\ UNCHANGED <<port, handled, allow, holders>>
        /\ instance' = [i \in DOMAIN instance |-> IF i \in here THEN [instance[i] EXCEPT !.uris = @ \cup {l}] ELSE instance[i]]
    BY <1>5 DEF Linking!sendMessage
  <2>2. \A i \in Instances : /\ instance'[i] \in Application /\ instance'[i].pc = instance[i].pc /\ instance'[i].app = instance[i].app
                             /\ instance'[i].uris = IF i \in here THEN instance[i].uris \cup {l} ELSE instance[i].uris
    BY <1>0, <2>1 DEF Application
  <2>3. instance' \in [Instances -> Application]
    BY <1>0, <2>1, <2>2
  <2>4. PortOk(instance', port)
    BY <1>0, <2>2 DEF PortOk
  <2>5. ASSUME NEW k \in Links
        PROVE  With(k, instance', handled) = IF k = l THEN With(k, instance, handled) \cup here ELSE With(k, instance, handled)
    <3>1. With(k, instance', handled) = handled[k] \cup {i \in Instances : k \in instance'[i].uris}
      BY <2>3 DEF With
    <3>2. \A i \in Instances : k \in instance'[i].uris <=> k \in instance[i].uris \/ (i \in here /\ k = l)
      BY <2>2
    <3>3. here \subseteq Instances
      BY <1>0
    <3>4. {i \in Instances : k \in instance'[i].uris}
             = IF k = l THEN {i \in Instances : k \in instance[i].uris} \cup here ELSE {i \in Instances : k \in instance[i].uris}
      BY <3>2, <3>3
    <3> QED BY <1>1, <3>1, <3>4
  <2>6. w = {} /\ l \notin linkFaults.noReply /\ instance[l].pc = "none"
    BY <1>0, <2>1 DEF LinkOk
  <2>7. here = {} \/ \E i : here = {i}
    BY <1>0 DEF PortOk
  <2>8. \A i \in With(l, instance', handled) : instance'[i].pc # "none" /\ instance'[i].app = AppOf[l]
    <3>1. With(l, instance', handled) = here
      BY <2>5, <2>6
    <3> QED BY <1>0, <2>2, <3>1 DEF PortOk
  <2>9. instance'[l].pc = "none"
    BY <1>0, <2>2, <2>6
  <2>10. ASSUME NEW k \in Links, k # l
         PROVE  /\ With(k, instance', handled) = With(k, instance, handled)
                /\ instance'[k].pc = instance[k].pc
                /\ \A i \in With(k, instance, handled) : instance'[i].pc = instance[i].pc /\ instance'[i].app = instance[i].app
    BY <1>0, <1>1, <2>2, <2>5, <2>10 DEF Instances
  <2>11. ASSUME NEW y \in Process, urika' = [urika EXCEPT ![l] = y], y.pc \in {"launch", "end"}, y.ok = x.ok, y.admin = x.admin, y.exe = x.exe,
                DOMAIN linkFaults' = {"left", "noReply", "names"}, linkFaults'.names = linkFaults.names,
                \A k \in Links : k # l => (k \in linkFaults'.noReply <=> k \in linkFaults.noReply),
                LinkOk(l, y, instance', handled, l \in linkFaults'.noReply)
         PROVE  LinkInv'
    BY <1>0, <2>1, <2>3, <2>4, <2>10, <2>11, OneLink DEF Late
  <2>12. With(l, instance', handled) = here
    BY <2>5, <2>6
  <2> DEFINE y == [x EXCEPT !.pc = "launch"]
             z == [x EXCEPT !.pc = "end", !.code = 0]
  <2>13. y \in Process /\ y.pc = "launch" /\ y.ok = x.ok /\ y.admin = x.admin /\ y.exe = x.exe
    BY <1>0 DEF Process
  <2>14. z \in Process /\ z.pc = "end" /\ z.code = 0 /\ z.ok = x.ok /\ z.admin = x.admin /\ z.exe = x.exe
    BY <1>0 DEF Process
  <2>15. CASE here = {} /\ Linking!Go(l, "launch") /\ UNCHANGED linkFaults
    <3>1. LinkOk(l, y, instance', handled, l \in linkFaults'.noReply)
      <4> HIDE DEF y
      <4> QED BY <2>6, <2>8, <2>9, <2>12, <2>13, <2>15 DEF LinkOk
    <3>2. urika' = [urika EXCEPT ![l] = y]
      BY <2>15 DEF Linking!Go
    <3> HIDE DEF y
    <3> QED BY <1>0, <2>11, <2>13, <2>15, <3>1, <3>2
  <2>16. CASE here # {} /\ Linking!End(l, 0) /\ UNCHANGED linkFaults
    <3>1. LinkOk(l, z, instance', handled, l \in linkFaults'.noReply)
      <4> HIDE DEF z
      <4> QED BY <2>6, <2>7, <2>8, <2>9, <2>12, <2>14, <2>16 DEF LinkOk
    <3>2. urika' = [urika EXCEPT ![l] = z]
      BY <2>16 DEF Linking!End
    <3> HIDE DEF z
    <3> QED BY <1>0, <2>11, <2>14, <2>16, <3>1, <3>2
  <2>17. CASE /\ here # {} /\ Linking!Go(l, "launch")
              /\ linkFaults' = [linkFaults EXCEPT !.left = @ - 1, !.noReply = @ \cup {l}]
    <3>0. DOMAIN linkFaults' = DOMAIN linkFaults /\ linkFaults'.noReply = linkFaults.noReply \cup {l} /\ linkFaults'.names = linkFaults.names
      BY <1>0, <2>17
    <3>1. LinkOk(l, y, instance', handled, l \in linkFaults'.noReply)
      <4> HIDE DEF y
      <4> QED BY <2>6, <2>7, <2>8, <2>9, <2>12, <2>13, <2>17, <3>0 DEF LinkOk
    <3>2. urika' = [urika EXCEPT ![l] = y]
      BY <2>17 DEF Linking!Go
    <3> HIDE DEF y
    <3> QED BY <1>0, <2>11, <2>13, <2>17, <3>0, <3>1, <3>2
  <2> QED BY <1>5, <2>15, <2>16, <2>17 DEF Linking!sendMessage
<1> QED BY <1>3, <1>4, <1>5

(* Every step of a process or of an application preserves the invariant. *)
LEMMA LinkingStepOk == LinkInv /\ [Linking!Next]_linkVars => LinkInv'
<1> SUFFICES ASSUME LinkInv, [Linking!Next]_linkVars PROVE LinkInv'
  OBVIOUS
<1>1. CASE UNCHANGED linkVars
  <2>1. UNCHANGED <<allow, holders, urika, instance, port, handled, linkFaults>>
    BY <1>1 DEF linkVars
  <2>2. LinkTyped'
    BY <2>1 DEF LinkInv, LinkTyped
  <2>3. AllowOk(allow', urika', linkFaults'.names) /\ HoldersOk(holders', urika') /\ PortOk(instance', port')
    BY <2>1 DEF LinkInv
  <2>4. \A l \in Links : LinkOk(l, urika'[l], instance', handled', l \in linkFaults'.noReply)
    BY <2>1 DEF LinkInv
  <2> QED BY <2>2, <2>3, <2>4 DEF LinkInv
<1>2. ASSUME NEW l \in Links, Linking!UrikaStep(l) PROVE LinkInv'
  BY <1>2, RegistryStep, LinkStepOk DEF Linking!UrikaStep
<1>3. ASSUME NEW i \in Links \cup Apps, Linking!AppStep(i) PROVE LinkInv'
  BY <1>3, AppStepOk DEF Instances
<1> QED BY <1>1, <1>2, <1>3 DEF Linking!Next

(* The invariant says what a link and the registry promise. *)
LEMMA LinkHonest == LinkInv => Linking!RegistrySound /\ Linking!LinksArrive
<1> SUFFICES ASSUME LinkInv PROVE Linking!RegistrySound /\ Linking!LinksArrive
  OBVIOUS
<1>1. Linking!RegistrySound
  <2>1. linkFaults.names \/ \E slots \in OthersSlots : {s \in DOMAIN allow : allow[s] = Linking!Other} = slots
    BY DEF LinkInv, AllowOk, Others, Linking!Other
  <2>2. ASSUME \E l \in Links : urika[l].ok
        PROVE  \E exe \in {urika[l].exe : l \in {x \in Links : urika[x].ok}} \cup {urika[l].exe : l \in {x \in Links : urika[x].admin}} :
                  holders = Linking!Wanted(exe)
    <3>1. PICK l \in Links : (urika[l].ok \/ urika[l].admin) /\ holders = Linking!Wanted(urika[l].exe)
      BY <2>2 DEF LinkInv, HoldersOk
    <3> QED BY <3>1
  <2> QED BY <2>1, <2>2 DEF Linking!RegistrySound
<1>2. Linking!LinksArrive
  <2> SUFFICES ASSUME NEW l \in Links
               PROVE  LET with == handled[l] \cup {i \in DOMAIN instance : l \in instance[i].uris} IN
                      /\ \A i \in with : instance[i].app = AppOf[l]
                      /\ urika[l].pc = "end" /\ urika[l].code = 0 =>
                            Linking!Cardinality(with) = IF l \in linkFaults.noReply THEN 2 ELSE 1
                      /\ urika[l].pc = "end" /\ urika[l].code # 0 /\ l \notin linkFaults.noReply => with = {}
    BY DEF Linking!LinksArrive
  <2> DEFINE with == handled[l] \cup {i \in DOMAIN instance : l \in instance[i].uris}
  <2>1. LinkOk(l, urika[l], instance, handled, l \in linkFaults.noReply) /\ With(l, instance, handled) = with
    BY DEF LinkInv, With
  <2>2. ASSUME urika[l].pc = "end", urika[l].code = 0 PROVE Linking!Cardinality(with) = IF l \in linkFaults.noReply THEN 2 ELSE 1
    <3>1. CASE l \notin linkFaults.noReply
      <4>1. PICK i : with = {i}
        BY <2>1, <2>2, <3>1 DEF LinkOk
      <4>2. Cardinality({i}) = 1
        BY FS_Singleton
      <4> QED BY <3>1, <4>1, <4>2, UrikaSets
    <3>2. CASE l \in linkFaults.noReply
      <4>1. PICK i, j : i # j /\ with = {i, j}
        BY <2>1, <2>2, <3>2 DEF LinkOk
      <4>2. IsFiniteSet({i}) /\ Cardinality({i}) = 1
        BY FS_Singleton
      <4>3. Cardinality({i} \cup {j}) = 2
        BY <4>1, <4>2, FS_AddElement
      <4>4. {i} \cup {j} = {i, j}
        OBVIOUS
      <4> QED BY <3>2, <4>1, <4>3, <4>4, UrikaSets
    <3> QED BY <3>1, <3>2
  <2>3. \A i \in with : instance[i].app = AppOf[l]
    BY <2>1 DEF LinkOk
  <2>4. urika[l].pc = "end" /\ urika[l].code # 0 /\ l \notin linkFaults.noReply => with = {}
    BY <2>1 DEF LinkOk
  <2> QED BY <2>2, <2>3, <2>4
<1> QED BY <1>1, <1>2

-----------------------------------------------------------------------------
(***************************************************************************)
(* vendor_bender.  While a plan is carried out every package is either as  *)
(* the manifest asks, and left alone, or has one action in the plan that   *)
(* will make it so; and what METADATA says a package was made of is what   *)
(* it was made of, but for crates and versions that go has resolved.       *)
(***************************************************************************)
manifest == s1
disk == s2
declared == s3
reconciled == s4
plan == s5
step == s6
synced == s7
outcome == s8
vendorVars == <<s1, s2, s3, s4, s5, s6, s7, s8, s9, s10>>
USE DEF manifest, disk, declared, reconciled, plan, step, synced, outcome

Package == [dir : {"package"}, kind : Kinds, version : Nat, content : Nat, local : BOOLEAN, whole : BOOLEAN]
PackageOk(p) == p \in Package /\ (p.kind # "rust" => p.version \in {p.content, Vendoring!Canonical})
Directory == {p \in Package : PackageOk(p)} \cup {Vendoring!Absent, Vendoring!Junk}
VendorAction == [do : {"add", "delete", "update", "label", "regen"}, name : Names, from : {1, 2}, to : {1, 2}]

VendorTyped ==
    /\ manifest \in [Names -> Vendoring!Entries \cup {Vendoring!NoEntry}]
    /\ disk \in [Names -> [{1, 2} -> Directory]]
    /\ declared \in [Names -> {0, 1}]
    /\ outcome # "running" => plan = {} /\ step = Vendoring!Idle
    /\ plan \subseteq VendorAction
    /\ step = Vendoring!Idle \/ step \in [at : {"fetched", "removed", "copied", "declare"}, a : VendorAction, pkg : Package]

\* A package as its entry asks, or no package where there is no entry.
AsAsked(n) ==
    LET e == manifest[n] IN
    /\ Vendoring!Found(n) = (IF e = Vendoring!NoEntry THEN {} ELSE {e.mf})
    /\ e # Vendoring!NoEntry =>
          /\ disk[n][e.mf].kind = e.kind
          /\ disk[n][e.mf].content = e.version \/ (disk[n][e.mf].kind = "rust" /\ n \notin synced)
          /\ n \in synced => disk[n][e.mf].whole /\ <<n, e.mf>> \in reconciled

\* An action that has not begun will make its package as asked.
ToDo(a) ==
    LET e == manifest[a.name] IN
    /\ a.do \in {"add", "delete", "update", "label"}
    /\ a.do = "label" => AsAsked(a.name)
    /\ a.do = "delete" => e = Vendoring!NoEntry /\ Vendoring!Found(a.name) = {a.from}
    /\ a.do \in {"add", "update"} => e # Vendoring!NoEntry /\ a.to = e.mf /\ Vendoring!Found(a.name) \subseteq {a.from}
    /\ a.do = "add" => (e.local => declared[a.name] = 0)

\* The same for the action that is under way.
UnderWay(a, st) ==
    LET e == manifest[a.name] IN
    /\ a.do \in {"add", "update"} /\ e # Vendoring!NoEntry /\ a.to = e.mf
    /\ a.do = "add" => (e.local => declared[a.name] = 0)
    /\ st.pkg \in Vendoring!Fetched(e) /\ st.pkg # Vendoring!NoMetadata
    /\ st.at = "fetched" => Vendoring!Found(a.name) \subseteq {a.from}
    /\ st.at = "removed" => Vendoring!Found(a.name) = {}
    /\ st.at \in {"copied", "declare"} =>
          Vendoring!Found(a.name) = {a.to} /\ disk[a.name][a.to] = st.pkg /\ a.name \in synced
    /\ st.at = "declare" => a.do = "add" /\ st.pkg.local /\ <<a.name, a.to>> \in reconciled

Regenerating == step = Vendoring!Idle /\ \A a \in plan : a.do = "regen" /\ a.from \in Vendoring!Found(a.name)
Rendering ==
    /\ \A a \in plan : step = Vendoring!Idle \/ step.a # a => ToDo(a)
    /\ step # Vendoring!Idle => step.a \in plan
    /\ \A a \in plan : step # Vendoring!Idle /\ step.a = a => UnderWay(a, step)
    /\ \A n \in Names : (\A a \in plan : a.name # n) => AsAsked(n)

VendorInv ==
    /\ VendorTyped
    /\ \A a, b \in plan : a.name = b.name => a = b
    /\ outcome = "running" => plan # {} /\ (Regenerating \/ Rendering)
    /\ outcome = "ok" => \A n \in Names : AsAsked(n)

(* In the first state there is no package and no plan. *)
LEMMA VendorInit == Vendoring!Init => VendorInv
<1> SUFFICES ASSUME Vendoring!Init PROVE VendorInv
  OBVIOUS
<1>1. VendorTyped
  BY DEF Vendoring!Init, VendorTyped, Directory, Vendoring!Mfs
<1> QED BY <1>1 DEF VendorInv, Vendoring!Init

(* Two directories with a package are more than one. *)
LEMMA FoundOne ==
    ASSUME NEW n \in Names, ~(Vendoring!Cardinality(Vendoring!Found(n)) > 1)
    PROVE  \A i, j \in Vendoring!Found(n) : i = j
<1> SUFFICES ASSUME NEW i \in Vendoring!Found(n), NEW j \in Vendoring!Found(n), i # j PROVE FALSE
  OBVIOUS
<1>1. Vendoring!Cardinality(Vendoring!Found(n)) = Cardinality(Vendoring!Found(n))
  BY Zenon DEF Vendoring!Cardinality, Cardinality, Vendoring!IsFiniteSet, IsFiniteSet
<1>2. Vendoring!Found(n) = {1} \cup {2}
  BY DEF Vendoring!Found, Vendoring!Mfs
<1>3. IsFiniteSet({1}) /\ Cardinality({1}) = 1
  BY FS_Singleton
<1>4. Cardinality({1} \cup {2}) = 2
  BY <1>3, FS_AddElement
<1> QED BY <1>1, <1>2, <1>4

(* What is fetched for an entry is a package made of the version the entry asks for. *)
LEMMA FetchedOk ==
    ASSUME NEW e \in Vendoring!Entries, NEW p \in Vendoring!Fetched(e), p # Vendoring!NoMetadata
    PROVE  /\ p \in Package /\ PackageOk(p) /\ p.kind = e.kind /\ p.content = e.version /\ p.local = e.local /\ p.whole
           /\ p \in Directory
<1>1. e.version \in Nat /\ e.kind \in Kinds /\ e.local \in BOOLEAN
  BY DEF Vendoring!Entries, Vendoring!Versions
<1>2. ASSUME NEW v \in Nat, e.kind # "rust" => v \in {e.version, Vendoring!Canonical}, p = Vendoring!Pkg(e.kind, v, e.version, e.local, TRUE)
      PROVE  /\ p \in Package /\ PackageOk(p) /\ p.kind = e.kind /\ p.content = e.version /\ p.local = e.local /\ p.whole
             /\ p \in Directory
  <2>1. p = [dir |-> "package", kind |-> e.kind, version |-> v, content |-> e.version, local |-> e.local, whole |-> TRUE]
    BY <1>2 DEF Vendoring!Pkg
  <2>2. p \in Package /\ p.kind = e.kind /\ p.content = e.version /\ p.local = e.local /\ p.whole /\ p.version = v
    BY <1>1, <2>1 DEF Package
  <2>3. PackageOk(p)
    BY <1>2, <2>2 DEF PackageOk
  <2> QED BY <2>2, <2>3 DEF Directory
<1>3. CASE e.kind = "git"
  <2>1. p = Vendoring!Pkg(e.kind, e.version, e.version, e.local, TRUE)
    BY <1>3 DEF Vendoring!Fetched, Vendoring!GitPkg
  <2> QED BY <1>1, <1>2, <2>1
<1>4. CASE e.kind = "go"
  <2>1. PICK v \in Vendoring!ModVersion(e.version) : p = Vendoring!Pkg(e.kind, v, e.version, e.local, TRUE)
    BY <1>4 DEF Vendoring!Fetched, Vendoring!GoPkg
  <2>2. v \in Nat /\ v \in {e.version, Vendoring!Canonical}
    BY <1>1, <2>1 DEF Vendoring!ModVersion, Vendoring!Canonical
  <2> QED BY <1>2, <2>1, <2>2
<1>5. CASE e.kind = "rust"
  <2>1. PICK v \in {1, 2} : p \in Vendoring!crateProcess(v, e)
    BY <1>5 DEF Vendoring!Fetched, Vendoring!RustPkg, Vendoring!Versions
  <2>2. p = Vendoring!Pkg(e.kind, v, e.version, e.local, TRUE)
    BY <1>5, <2>1 DEF Vendoring!crateProcess
  <2> QED BY <1>2, <1>5, <2>2
<1>6. CASE e.kind \notin {"git", "go", "rust"}
  BY <1>6 DEF Vendoring!Fetched
<1> QED BY <1>3, <1>4, <1>5, <1>6

(* A run begins: the plan has at most one action for a name, and where it has none the package is as asked. *)
LEMMA PlannedOk ==
    ASSUME VendorTyped, NEW n \in Names, NEW labels \in BOOLEAN, synced' = {}, UNCHANGED <<manifest, disk, declared, reconciled>>,
           Vendoring!buildContext(n) = "ok",
           \A a \in Vendoring!Planned(n, labels) : a.do # "error"
    PROVE  /\ \A a \in Vendoring!Planned(n, labels) : a \in VendorAction /\ a.name = n /\ a.do # "regen" /\ ToDo(a)'
           /\ \A a, b \in Vendoring!Planned(n, labels) : a = b
           /\ Vendoring!Planned(n, labels) = {} => AsAsked(n)'
<1> DEFINE e == manifest[n]
           old == CHOOSE m \in Vendoring!Mfs : Vendoring!HasPkg(n, m)
           found == Vendoring!Found(n)
<1>0. /\ e \in Vendoring!Entries \cup {Vendoring!NoEntry} /\ e' = e /\ found' = found
      /\ e # Vendoring!NoEntry => e.mf \in {1, 2} /\ e.kind \in Kinds /\ e.version \in {0, 1, 2}
  BY DEF VendorTyped, Vendoring!Entries, Vendoring!Mfs, Vendoring!Versions, Vendoring!Found, Vendoring!HasPkg
<1>1. \A i, j \in found : i = j
  BY FoundOne DEF Vendoring!buildContext
<1>2. found # {} => old \in found /\ found = {old} /\ old \in {1, 2}
  BY <1>1 DEF Vendoring!Found, Vendoring!Mfs
<1>3. CASE found = {}
  <2>1. CASE e = Vendoring!NoEntry
    BY <1>0, <1>3, <2>1 DEF Vendoring!Planned, AsAsked
  <2>2. CASE e # Vendoring!NoEntry
    <3> DEFINE a == [do |-> "add", name |-> n, from |-> e.mf, to |-> e.mf]
    <3>1. Vendoring!Planned(n, labels) = {a} /\ (e.local => declared[n] = 0)
      BY <1>3, <2>2 DEF Vendoring!Planned, Vendoring!RepoDeclFile
    <3>2. a \in VendorAction /\ a.name = n /\ a.do = "add" /\ a.to = e.mf
      BY <1>0, <2>2 DEF VendorAction
    <3> HIDE DEF a
    <3>3. ASSUME NEW b, b = a PROVE ToDo(b)'
      BY <1>0, <1>3, <2>2, <3>1, <3>2, <3>3 DEF ToDo
    <3> QED BY <3>1, <3>2, <3>3
  <2> QED BY <2>1, <2>2
<1>4. CASE found # {} /\ e = Vendoring!NoEntry
  <2> DEFINE a == [do |-> "delete", name |-> n, from |-> old, to |-> old]
  <2>1. Vendoring!Planned(n, labels) = {a}
    BY <1>4 DEF Vendoring!Planned
  <2>2. a \in VendorAction /\ a.name = n /\ a.do = "delete" /\ a.from = old
    BY <1>2, <1>4 DEF VendorAction
  <2> HIDE DEF a
  <2>3. ASSUME NEW b, b = a PROVE ToDo(b)'
    BY <1>0, <1>2, <1>4, <2>2, <2>3 DEF ToDo
  <2> QED BY <2>1, <2>2, <2>3
<1>5. CASE found # {} /\ e # Vendoring!NoEntry /\ (old # e.mf \/ Vendoring!needsUpdate(disk[n][old], e))
  <2> DEFINE a == [do |-> "update", name |-> n, from |-> old, to |-> e.mf]
  <2>1. Vendoring!Planned(n, labels) = {a}
    BY <1>5 DEF Vendoring!Planned
  <2>2. a \in VendorAction /\ a.name = n /\ a.do = "update" /\ a.from = old /\ a.to = e.mf
    BY <1>0, <1>2, <1>5 DEF VendorAction
  <2> HIDE DEF a
  <2>3. ASSUME NEW b, b = a PROVE ToDo(b)'
    BY <1>0, <1>2, <1>5, <2>2, <2>3 DEF ToDo
  <2> QED BY <2>1, <2>2, <2>3
<1>6. CASE found # {} /\ e # Vendoring!NoEntry /\ ~(old # e.mf \/ Vendoring!needsUpdate(disk[n][old], e))
  <2> DEFINE p == disk[n][e.mf]
  <2>1. found = {e.mf} /\ old = e.mf
    BY <1>2, <1>6
  <2>2. PackageOk(p)
    BY <1>0, <1>6, <2>1 DEF VendorTyped, Directory, Vendoring!Found, Vendoring!HasPkg, Vendoring!Absent, Vendoring!Junk
  <2>3. p.kind = e.kind /\ (p.kind # "rust" => p.version = e.version)
    BY <1>6, <2>1 DEF Vendoring!needsUpdate
  <2>4. p.kind # "rust" => p.content = e.version
    BY <1>0, <1>6, <2>2, <2>3 DEF PackageOk, Vendoring!Canonical
  <2>5. AsAsked(n)'
    BY <1>0, <1>6, <2>1, <2>3, <2>4 DEF AsAsked
  <2> DEFINE a == [do |-> "label", name |-> n, from |-> old, to |-> old]
  <2>6. Vendoring!Planned(n, labels) = {} \/ Vendoring!Planned(n, labels) = {a}
    BY <1>6 DEF Vendoring!Planned
  <2>7. a \in VendorAction /\ a.name = n /\ a.do = "label"
    BY <1>2, <1>6 DEF VendorAction
  <2> HIDE DEF a
  <2>8. ASSUME NEW b, b = a PROVE ToDo(b)'
    BY <2>5, <2>7, <2>8 DEF ToDo
  <2> QED BY <2>5, <2>6, <2>7, <2>8
<1> QED BY <1>3, <1>4, <1>5, <1>6

(* What another action does to its own package leaves a package as it is, and its action to be done. *)
LEMMA PackageStays ==
    ASSUME NEW n \in Names, UNCHANGED manifest, disk'[n] = disk[n], declared'[n] = declared[n],
           n \in synced' <=> n \in synced, reconciled \subseteq reconciled'
    PROVE  /\ AsAsked(n) => AsAsked(n)'
           /\ \A a : a.name = n /\ ToDo(a) => ToDo(a)'
           /\ Vendoring!Found(n)' = Vendoring!Found(n)
<1>1. Vendoring!Found(n)' = Vendoring!Found(n)
  BY DEF Vendoring!Found, Vendoring!HasPkg
<1>2. AsAsked(n) => AsAsked(n)'
  BY <1>1 DEF AsAsked
<1>3. ASSUME NEW a, a.name = n, ToDo(a) PROVE ToDo(a)'
  BY <1>1, <1>2, <1>3 DEF ToDo
<1> QED BY <1>1, <1>2, <1>3

(* A run that ends with an error promises nothing. *)
LEMMA RunEnds ==
    ASSUME VendorInv, NEW how \in {"error", "panic"}, Vendoring!End(how), UNCHANGED manifest,
           disk' \in [Names -> [{1, 2} -> Directory]], declared' \in [Names -> {0, 1}]
    PROVE  VendorInv'
<1>1. outcome' = how /\ plan' = {} /\ step' = Vendoring!Idle
  BY DEF Vendoring!End
<1>2. VendorTyped'
  BY <1>1 DEF VendorInv, VendorTyped
<1> QED BY <1>1, <1>2 DEF VendorInv

(* An action that is done has made its package as asked; the others are as they were. *)
LEMMA ActionEnds ==
    ASSUME VendorInv, NEW a \in plan, Vendoring!ActionDone(a), UNCHANGED manifest,
           step = Vendoring!Idle \/ step.a = a,
           disk' \in [Names -> [{1, 2} -> Directory]], declared' \in [Names -> {0, 1}],
           \A n \in Names : n # a.name =>
               disk'[n] = disk[n] /\ declared'[n] = declared[n] /\ (n \in synced' <=> n \in synced),
           reconciled \subseteq reconciled',
           Regenerating => UNCHANGED disk,
           Rendering => a.do # "regen" /\ AsAsked(a.name)'
    PROVE  VendorInv'
<1>0. VendorTyped /\ outcome = "running" /\ (Regenerating \/ Rendering) /\ a \in VendorAction /\ a.name \in Names
      /\ \A b \in plan : b.name = a.name => b = a
  BY DEF VendorInv, VendorTyped, VendorAction
<1>1. /\ plan' = plan \ {a} /\ step' = Vendoring!Idle
      /\ outcome' = IF plan # {a} THEN "running" ELSE IF a.do = "regen" THEN "regenerated" ELSE "ok"
  BY DEF Vendoring!ActionDone
<1>2. VendorTyped'
  BY <1>0, <1>1 DEF VendorTyped
<1>3. \A b \in plan' : b \in plan /\ b.name # a.name /\ b.name \in Names
  BY <1>0, <1>1 DEF VendorTyped, VendorAction
<1>4. CASE Regenerating
  <2>1. Regenerating'
    BY <1>1, <1>4 DEF Regenerating, Vendoring!Found, Vendoring!HasPkg
  <2>2. a.do = "regen"
    BY <1>4 DEF Regenerating
  <2>3. outcome' = "running" => plan' # {}
    BY <1>1
  <2>4. outcome' # "ok"
    BY <1>1, <2>2
  <2> QED BY <1>1, <1>2, <2>1, <2>3, <2>4 DEF VendorInv
<1>5. CASE Rendering
  <2>1. ASSUME NEW b \in plan' PROVE ToDo(b)'
    <3>1. b \in plan /\ b.name # a.name /\ b.name \in Names /\ ToDo(b)
      BY <1>3, <1>5, <2>1 DEF Rendering
    <3> QED BY <3>1, PackageStays
  <2>2. ASSUME NEW n \in Names, \A b \in plan' : b.name # n PROVE AsAsked(n)'
    <3>1. CASE n = a.name
      BY <1>5, <3>1
    <3>2. CASE n # a.name
      <4>1. AsAsked(n)
        BY <1>1, <1>5, <2>2, <3>2 DEF Rendering
      <4> QED BY <3>2, <4>1, PackageStays
    <3> QED BY <3>1, <3>2
  <2>3. Rendering'
    BY <1>1, <2>1, <2>2 DEF Rendering
  <2>4. outcome' = "ok" => \A n \in Names : AsAsked(n)'
    <3> SUFFICES ASSUME outcome' = "ok", NEW n \in Names PROVE AsAsked(n)'
      OBVIOUS
    <3>1. plan' = {}
      BY <1>1
    <3> QED BY <2>2, <3>1
  <2>5. outcome' = "running" => plan' # {}
    BY <1>1
  <2> QED BY <1>1, <1>2, <2>3, <2>4, <2>5 DEF VendorInv
<1> QED BY <1>0, <1>4, <1>5

(* A step of an action that is not its last. *)
LEMMA ActionGoesOn ==
    ASSUME VendorInv, NEW a \in plan, UNCHANGED <<manifest, plan, outcome, declared>>,
           step = Vendoring!Idle \/ step.a = a, Rendering,
           disk' \in [Names -> [{1, 2} -> Directory]],
           \A n \in Names : n # a.name => disk'[n] = disk[n] /\ (n \in synced' <=> n \in synced),
           reconciled \subseteq reconciled',
           step' \in [at : {"fetched", "removed", "copied", "declare"}, a : VendorAction, pkg : Package], step'.a = a,
           UnderWay(a, step)'
    PROVE  VendorInv'
<1>0. VendorTyped /\ outcome = "running" /\ a \in VendorAction /\ a.name \in Names
      /\ \A b \in plan : b.name = a.name => b = a
  BY DEF VendorInv, VendorTyped, VendorAction
<1>1. VendorTyped'
  BY <1>0 DEF VendorTyped
<1>2. ASSUME NEW b \in plan, b # a PROVE ToDo(b)'
  <2>1. b.name # a.name /\ b.name \in Names /\ ToDo(b)
    BY <1>0, <1>2 DEF Rendering, VendorTyped, VendorAction
  <2>2. declared' = declared
    OBVIOUS
  <2> QED BY <2>1, <2>2, PackageStays
<1>3. ASSUME NEW n \in Names, \A b \in plan : b.name # n PROVE AsAsked(n)'
  <2>1. n # a.name /\ AsAsked(n)
    BY <1>3 DEF Rendering
  <2>2. declared' = declared
    OBVIOUS
  <2> QED BY <2>1, <2>2, PackageStays
<1>4. Rendering'
  <2>1. step' # Vendoring!Idle
    BY DEF Vendoring!Idle
  <2>2. \A b \in plan : step'.a = b => UnderWay(b, step)'
    OBVIOUS
  <2> QED BY <1>2, <1>3, <2>1, <2>2 DEF Rendering
<1> QED BY <1>0, <1>1, <1>4 DEF VendorInv

(* A run begins. *)
LEMMA RunBegins ==
    ASSUME VendorInv, (\E labels \in BOOLEAN : Vendoring!vendor(labels)) \/ Vendoring!regen
    PROVE  VendorInv'
<1>0. VendorTyped
  BY DEF VendorInv
<1>1. ASSUME NEW actions, NEW done, Vendoring!vendorBender(actions, done)
      PROVE  /\ outcome # "running" /\ step = Vendoring!Idle /\ synced' = {} /\ UNCHANGED <<manifest, disk, declared, reconciled, step>>
             /\ \/ outcome' \in {"error", "panic"} /\ plan' = {}
                \/ /\ plan' = actions /\ outcome' = (IF actions = {} THEN done ELSE "running")
                   /\ (\A a \in actions : a.do # "error")
                   /\ \A n \in Names : Vendoring!buildContext(n) = "ok"
  <2>1. outcome # "running" /\ synced' = {} /\ UNCHANGED <<manifest, disk, declared, reconciled, step>>
    BY <1>1 DEF Vendoring!vendorBender
  <2>2. {Vendoring!buildContext(n) : n \in Names} \subseteq {"ok", "error", "panic"}
    BY DEF Vendoring!buildContext
  <2> DEFINE bad == {Vendoring!buildContext(n) : n \in Names} \ {"ok"}
  <2>3. \/ outcome' = "error" /\ plan' = {}
        \/ outcome' \in bad /\ plan' = {}
        \/ /\ plan' = actions /\ outcome' = (IF actions = {} THEN done ELSE "running")
           /\ (\A a \in actions : a.do # "error") /\ bad = {}
    BY <1>1 DEF Vendoring!vendorBender
  <2> QED BY <1>0, <2>1, <2>2, <2>3 DEF VendorTyped
<1>2. ASSUME outcome' \in {"error", "panic"}, plan' = {}, step = Vendoring!Idle, UNCHANGED <<manifest, disk, declared, step>> PROVE VendorInv'
  <2>1. VendorTyped'
    BY <1>0, <1>2 DEF VendorTyped
  <2> QED BY <1>2, <2>1 DEF VendorInv
<1>3. ASSUME NEW labels \in BOOLEAN, Vendoring!vendor(labels) PROVE VendorInv'
  <2> DEFINE actions == UNION {Vendoring!Planned(n, labels) : n \in Names}
  <2>1. Vendoring!vendorBender(actions, "ok")
    BY <1>3 DEF Vendoring!vendor
  <2>2. CASE outcome' \in {"error", "panic"} /\ plan' = {}
    BY <1>1, <1>2, <2>1, <2>2
  <2>3. CASE /\ plan' = actions /\ outcome' = (IF actions = {} THEN "ok" ELSE "running")
             /\ (\A a \in actions : a.do # "error")
             /\ \A n \in Names : Vendoring!buildContext(n) = "ok"
    <3>1. step = Vendoring!Idle /\ synced' = {} /\ UNCHANGED <<manifest, disk, declared, reconciled, step>>
      BY <1>1, <2>1
    <3>2. ASSUME NEW n \in Names
          PROVE  /\ \A a \in Vendoring!Planned(n, labels) : a \in VendorAction /\ a.name = n /\ a.do # "regen" /\ ToDo(a)'
                 /\ \A a, b \in Vendoring!Planned(n, labels) : a = b
                 /\ Vendoring!Planned(n, labels) = {} => AsAsked(n)'
      BY <1>0, <2>3, <3>1, PlannedOk
    <3>3. \A a \in plan' : a \in VendorAction /\ ToDo(a)' /\ a \in Vendoring!Planned(a.name, labels) /\ a.name \in Names
      BY <2>3, <3>2
    <3>4. \A a, b \in plan' : a.name = b.name => a = b
      BY <3>2, <3>3
    <3>5. ASSUME NEW n \in Names, \A a \in plan' : a.name # n PROVE AsAsked(n)'
      BY <2>3, <3>2, <3>5
    <3>6. VendorTyped'
      BY <1>0, <2>3, <3>1, <3>3 DEF VendorTyped
    <3>7. Rendering'
      BY <3>1, <3>3, <3>5 DEF Rendering
    <3>8. outcome' = "ok" => \A n \in Names : AsAsked(n)'
      BY <2>3, <3>5
    <3>9. outcome' = "running" => plan' # {}
      BY <2>3
    <3> QED BY <3>4, <3>6, <3>7, <3>8, <3>9 DEF VendorInv
  <2> QED BY <1>1, <2>1, <2>2, <2>3
<1>4. ASSUME Vendoring!regen PROVE VendorInv'
  <2> DEFINE of(n) == {[do |-> "regen", name |-> n, from |-> m, to |-> m] : m \in Vendoring!Found(n)}
             actions == UNION {of(n) : n \in {x \in Names : manifest[x] # Vendoring!NoEntry}}
  <2>1. Vendoring!vendorBender(actions, "regenerated")
    BY <1>4 DEF Vendoring!regen
  <2>2. CASE outcome' \in {"error", "panic"} /\ plan' = {}
    BY <1>1, <1>2, <2>1, <2>2
  <2>3. CASE /\ plan' = actions /\ outcome' = (IF actions = {} THEN "regenerated" ELSE "running")
             /\ \A n \in Names : Vendoring!buildContext(n) = "ok"
    <3>1. step = Vendoring!Idle /\ UNCHANGED <<manifest, disk, declared, reconciled, step>>
      BY <1>1, <2>1
    <3>2. ASSUME NEW n \in Names PROVE \A i, j \in Vendoring!Found(n) : i = j
      BY <2>3, FoundOne DEF Vendoring!buildContext
    <3>3. ASSUME NEW a \in plan'
          PROVE  a \in VendorAction /\ a.do = "regen" /\ a.from \in Vendoring!Found(a.name) /\ a.name \in Names /\ a.to = a.from
      <4>1. PICK n \in Names : a \in of(n)
        BY <2>3, <3>3
      <4>2. PICK m \in Vendoring!Found(n) : a = [do |-> "regen", name |-> n, from |-> m, to |-> m]
        BY <4>1
      <4> QED BY <4>2 DEF VendorAction, Vendoring!Found, Vendoring!Mfs
    <3>4. \A a, b \in plan' : a.name = b.name => a = b
      <4> SUFFICES ASSUME NEW a \in plan', NEW b \in plan', a.name = b.name PROVE a = b
        OBVIOUS
      <4>1. a.from = b.from /\ a.to = b.to /\ a.do = b.do
        BY <3>2, <3>3
      <4> QED BY <3>3, <4>1 DEF VendorAction
    <3>5. VendorTyped'
      BY <1>0, <2>3, <3>1, <3>3 DEF VendorTyped
    <3>6. Regenerating'
      <4>1. \A n \in Names : Vendoring!Found(n)' = Vendoring!Found(n)
        BY <3>1 DEF Vendoring!Found, Vendoring!HasPkg
      <4> QED BY <3>1, <3>3, <4>1 DEF Regenerating
    <3>7. outcome' # "ok" /\ (outcome' = "running" => plan' # {})
      BY <2>3
    <3> QED BY <3>4, <3>5, <3>6, <3>7 DEF VendorInv
  <2> QED BY <1>1, <2>1, <2>2, <2>3
<1> QED BY <1>3, <1>4

(* The steps of an action that writes a package: Fetch, RemoveOld, Copy, createCl, ModifyRepoDecl. *)
LEMMA SyncStep ==
    ASSUME VendorInv,
           \/ \E a \in plan : Vendoring!Fetch(a)
           \/ Vendoring!RemoveOld \/ Vendoring!Copy \/ Vendoring!createCl \/ Vendoring!ModifyRepoDecl
    PROVE  VendorInv'
<1>0. VendorTyped /\ disk \in [Names -> [{1, 2} -> Directory]] /\ declared \in [Names -> {0, 1}]
  BY DEF VendorInv, VendorTyped
<1>1. ASSUME NEW a \in plan PROVE a \in VendorAction /\ a.name \in Names /\ a.from \in {1, 2} /\ a.to \in {1, 2} /\ outcome = "running"
  BY <1>0, <1>1 DEF VendorTyped, VendorAction
<1>2. ASSUME NEW n \in Names, NEW m \in {1, 2}, NEW d \in Directory, disk' = [disk EXCEPT ![n][m] = d]
      PROVE  /\ disk' \in [Names -> [{1, 2} -> Directory]] /\ \A k \in Names : k # n => disk'[k] = disk[k]
             /\ disk'[n][m] = d /\ \A j \in {1, 2} : j # m => disk'[n][j] = disk[n][j]
  BY <1>0, <1>2
<1>3. ASSUME NEW p \in Package, PackageOk(p) PROVE [p EXCEPT !.whole = FALSE] \in Directory /\ p \in Directory
  <2>1. [p EXCEPT !.whole = FALSE] \in Package /\ [p EXCEPT !.whole = FALSE].kind = p.kind
        /\ [p EXCEPT !.whole = FALSE].version = p.version /\ [p EXCEPT !.whole = FALSE].content = p.content
    BY <1>3 DEF Package
  <2> QED BY <1>3, <2>1 DEF Directory, PackageOk
<1>4. Vendoring!Absent \in Directory /\ Vendoring!Junk \in Directory
  BY DEF Directory
<1>5. ASSUME step # Vendoring!Idle
      PROVE  /\ step \in [at : {"fetched", "removed", "copied", "declare"}, a : VendorAction, pkg : Package]
             /\ step.a \in plan /\ Rendering /\ UnderWay(step.a, step) /\ manifest[step.a.name] \in Vendoring!Entries
             /\ step.pkg \in Package /\ PackageOk(step.pkg) /\ step.pkg \in Directory /\ step.pkg.whole
             /\ step.pkg.kind = manifest[step.a.name].kind /\ step.pkg.content = manifest[step.a.name].version
             /\ step.pkg.local = manifest[step.a.name].local
  <2>1. outcome = "running" /\ step \in [at : {"fetched", "removed", "copied", "declare"}, a : VendorAction, pkg : Package]
    BY <1>0, <1>5 DEF VendorTyped
  <2>2. Rendering /\ step.a \in plan /\ UnderWay(step.a, step)
    BY <1>5, <2>1 DEF VendorInv, Rendering, Regenerating
  <2>3. manifest[step.a.name] \in Vendoring!Entries
    BY <1>0, <1>1, <2>2 DEF VendorTyped, UnderWay
  <2>4. step.pkg \in Vendoring!Fetched(manifest[step.a.name]) /\ step.pkg # Vendoring!NoMetadata
    BY <2>2 DEF UnderWay
  <2> QED BY <2>1, <2>2, <2>3, <2>4, FetchedOk
<1>6. ASSUME NEW a \in plan, Vendoring!Fetch(a) PROVE VendorInv'
  <2>1. step = Vendoring!Idle /\ a.do \in {"add", "update"} /\ UNCHANGED <<manifest, disk, declared, reconciled, synced>>
    BY <1>6 DEF Vendoring!Fetch
  <2>2. ASSUME NEW how \in {"error", "panic"}, Vendoring!End(how) PROVE VendorInv'
    BY <1>0, <2>1, <2>2, RunEnds
  <2>3. ASSUME NEW p \in Vendoring!Fetched(manifest[a.name]), p # Vendoring!NoMetadata,
               step' = [at |-> "fetched", a |-> a, pkg |-> p], UNCHANGED <<plan, outcome>>
        PROVE  VendorInv'
    <3>1. Rendering /\ ToDo(a)
      BY <1>1, <2>1 DEF VendorInv, Regenerating, Rendering
    <3>2. manifest[a.name] \in Vendoring!Entries
      BY <1>0, <1>1, <2>1, <3>1 DEF VendorTyped, ToDo
    <3>3. p \in Package
      BY <2>3, <3>2, FetchedOk
    <3>4. step' \in [at : {"fetched", "removed", "copied", "declare"}, a : VendorAction, pkg : Package]
          /\ step'.a = a /\ step'.pkg = p /\ step'.at = "fetched"
      BY <1>1, <2>3, <3>3
    <3>5. Vendoring!Found(a.name)' = Vendoring!Found(a.name)
      BY <2>1 DEF Vendoring!Found, Vendoring!HasPkg
    <3>6. UnderWay(a, step)'
      BY <2>1, <2>3, <3>1, <3>4, <3>5 DEF UnderWay, ToDo
    <3> QED BY <1>0, <2>1, <2>3, <3>1, <3>4, <3>6, ActionGoesOn
  <2> QED BY <1>6, <2>2, <2>3 DEF Vendoring!Fetch
<1>7. ASSUME Vendoring!RemoveOld PROVE VendorInv'
  <2>0. step # Vendoring!Idle /\ step.at = "fetched" /\ UNCHANGED <<manifest, declared, reconciled, synced>>
    BY <1>7 DEF Vendoring!RemoveOld, Vendoring!Doing
  <2>1. PICK a \in plan : a = step.a
    BY <1>5, <2>0
  <2>2. a.name \in Names /\ a.from \in {1, 2} /\ a.to \in {1, 2} /\ UnderWay(a, step) /\ Rendering
    BY <1>1, <1>5, <2>0, <2>1
  <2>3. CASE /\ disk' = [disk EXCEPT ![a.name][a.from] = Vendoring!Absent]
             /\ step' = [step EXCEPT !.at = "removed"] /\ UNCHANGED <<plan, outcome>>
    <3>1. step' \in [at : {"fetched", "removed", "copied", "declare"}, a : VendorAction, pkg : Package]
          /\ step'.a = a /\ step'.pkg = step.pkg /\ step'.at = "removed"
      BY <1>5, <2>0, <2>1, <2>3
    <3>2. disk' \in [Names -> [{1, 2} -> Directory]] /\ (\A k \in Names : k # a.name => disk'[k] = disk[k])
          /\ disk'[a.name][a.from] = Vendoring!Absent /\ \A j \in {1, 2} : j # a.from => disk'[a.name][j] = disk[a.name][j]
      <4>1. PICK d \in Directory : d = Vendoring!Absent
        BY <1>4
      <4>2. disk' = [disk EXCEPT ![a.name][a.from] = d]
        BY <2>3, <4>1
      <4>3. disk' \in [Names -> [{1, 2} -> Directory]]
        BY <1>2, <2>2, <4>1, <4>2
      <4>4. \A k \in Names : k # a.name => disk'[k] = disk[k]
        BY <1>0, <2>2, <4>2
      <4>5. disk'[a.name][a.from] = Vendoring!Absent /\ \A j \in {1, 2} : j # a.from => disk'[a.name][j] = disk[a.name][j]
        BY <1>0, <2>2, <4>1, <4>2
      <4> QED BY <4>3, <4>4, <4>5
    <3>3. Vendoring!Found(a.name)' = {}
      BY <2>0, <2>2, <3>2 DEF UnderWay, Vendoring!Found, Vendoring!HasPkg, Vendoring!Absent, Vendoring!Mfs
    <3>4. UnderWay(a, step)'
      BY <2>0, <2>2, <3>1, <3>3 DEF UnderWay
    <3> QED BY <2>0, <2>1, <2>2, <2>3, <3>1, <3>2, <3>4, ActionGoesOn
  <2>4. CASE /\ Vendoring!HasPkg(a.name, a.from) /\ Vendoring!End("error")
             /\ \E d \in Vendoring!Removed(disk[a.name][a.from]) \cup {disk[a.name][a.from]} : disk' = [disk EXCEPT ![a.name][a.from] = d]
    <3>1. PICK d \in Vendoring!Removed(disk[a.name][a.from]) \cup {disk[a.name][a.from]} : disk' = [disk EXCEPT ![a.name][a.from] = d]
      BY <2>4
    <3>2. disk[a.name][a.from] \in Package /\ PackageOk(disk[a.name][a.from])
      BY <1>0, <2>2, <2>4 DEF Vendoring!HasPkg, Directory, Vendoring!Absent, Vendoring!Junk
    <3>3. d \in Directory
      BY <1>3, <1>4, <3>1, <3>2 DEF Vendoring!Removed
    <3>4. disk' \in [Names -> [{1, 2} -> Directory]]
      BY <1>2, <2>2, <3>1, <3>3
    <3> QED BY <1>0, <2>0, <2>4, <3>4, RunEnds
  <2> QED BY <1>7, <2>1, <2>3, <2>4 DEF Vendoring!RemoveOld, Vendoring!Here
<1>8. ASSUME Vendoring!Copy PROVE VendorInv'
  <2>0. step # Vendoring!Idle /\ step.at = "removed" /\ UNCHANGED <<manifest, declared, reconciled>>
    BY <1>8 DEF Vendoring!Copy, Vendoring!Doing
  <2>1. PICK a \in plan : a = step.a
    BY <1>5, <2>0
  <2>2. a.name \in Names /\ a.from \in {1, 2} /\ a.to \in {1, 2} /\ UnderWay(a, step) /\ Rendering
    BY <1>1, <1>5, <2>0, <2>1
  <2>3. CASE /\ disk' = [disk EXCEPT ![a.name][a.to] = step.pkg]
             /\ step' = [step EXCEPT !.at = "copied"] /\ synced' = synced \cup {a.name} /\ UNCHANGED <<plan, outcome>>
    <3>1. step' \in [at : {"fetched", "removed", "copied", "declare"}, a : VendorAction, pkg : Package]
          /\ step'.a = a /\ step'.pkg = step.pkg /\ step'.at = "copied"
      BY <1>5, <2>0, <2>1, <2>3
    <3>2. disk' \in [Names -> [{1, 2} -> Directory]] /\ (\A k \in Names : k # a.name => disk'[k] = disk[k])
          /\ disk'[a.name][a.to] = step.pkg /\ \A j \in {1, 2} : j # a.to => disk'[a.name][j] = disk[a.name][j]
      <4>1. PICK d \in Directory : d = step.pkg
        BY <1>5, <2>0
      <4>2. disk' = [disk EXCEPT ![a.name][a.to] = d]
        BY <2>3, <4>1
      <4>3. disk' \in [Names -> [{1, 2} -> Directory]]
        BY <1>2, <2>2, <4>1, <4>2
      <4>4. \A k \in Names : k # a.name => disk'[k] = disk[k]
        BY <1>0, <2>2, <4>2
      <4>5. disk'[a.name][a.to] = step.pkg /\ \A j \in {1, 2} : j # a.to => disk'[a.name][j] = disk[a.name][j]
        BY <1>0, <2>2, <4>1, <4>2
      <4> QED BY <4>3, <4>4, <4>5
    <3>3. step.pkg.dir = "package"
      BY <1>5, <2>0 DEF Package
    <3>4. Vendoring!Found(a.name)' = {a.to}
      BY <2>0, <2>2, <3>2, <3>3 DEF UnderWay, Vendoring!Found, Vendoring!HasPkg, Vendoring!Mfs
    <3>5. UnderWay(a, step)'
      BY <2>0, <2>2, <2>3, <3>1, <3>2, <3>4 DEF UnderWay
    <3> QED BY <2>0, <2>1, <2>2, <2>3, <3>1, <3>2, <3>5, ActionGoesOn
  <2>4. CASE /\ Vendoring!End("error")
             /\ \E d \in Vendoring!Copied(step.pkg) : disk' = [disk EXCEPT ![a.name][a.to] = d]
    <3>1. PICK d \in Vendoring!Copied(step.pkg) : disk' = [disk EXCEPT ![a.name][a.to] = d]
      BY <2>4
    <3>2. d \in Directory
      BY <1>3, <1>4, <1>5, <2>0, <3>1 DEF Vendoring!Copied
    <3>3. disk' \in [Names -> [{1, 2} -> Directory]]
      BY <1>2, <2>2, <3>1, <3>2
    <3> QED BY <1>0, <2>0, <2>4, <3>3, RunEnds
  <2> QED BY <1>8, <2>1, <2>3, <2>4 DEF Vendoring!Copy
\* The package that was written is as asked once it is in a changelist.
<1>9. ASSUME NEW a \in plan, step # Vendoring!Idle, a = step.a, step.at \in {"copied", "declare"}, UNCHANGED <<manifest, disk, synced>>,
             <<a.name, a.to>> \in reconciled'
      PROVE  AsAsked(a.name)'
  <2>1. /\ Vendoring!Found(a.name) = {a.to} /\ disk[a.name][a.to] = step.pkg /\ a.name \in synced
        /\ manifest[a.name] # Vendoring!NoEntry /\ a.to = manifest[a.name].mf
    BY <1>5, <1>9 DEF UnderWay
  <2>2. Vendoring!Found(a.name)' = Vendoring!Found(a.name)
    BY <1>9 DEF Vendoring!Found, Vendoring!HasPkg
  <2>3. step.pkg.kind = manifest[a.name].kind /\ step.pkg.content = manifest[a.name].version /\ step.pkg.whole
    BY <1>5, <1>9
  <2> QED BY <1>9, <2>1, <2>2, <2>3 DEF AsAsked
<1>10. ASSUME Vendoring!createCl PROVE VendorInv'
  <2>0. step # Vendoring!Idle /\ step.at = "copied" /\ UNCHANGED <<manifest, disk, declared, synced>>
    BY <1>10 DEF Vendoring!createCl, Vendoring!Doing
  <2>1. PICK a \in plan : a = step.a
    BY <1>5, <2>0
  <2>2. a.name \in Names /\ a.from \in {1, 2} /\ a.to \in {1, 2} /\ UnderWay(a, step) /\ Rendering
    BY <1>1, <1>5, <2>0, <2>1
  <2>3. CASE reconciled' = reconciled \cup {<<a.name, a.to>>} /\ Vendoring!ActionDone(a)
    <3>1. AsAsked(a.name)' /\ a.do # "regen"
      BY <1>9, <2>0, <2>1, <2>2, <2>3 DEF UnderWay
    <3> QED BY <1>0, <2>0, <2>1, <2>3, <3>1, ActionEnds
  <2>4. CASE /\ reconciled' = reconciled \cup {<<a.name, a.to>>} /\ a.do = "add" /\ step.pkg.local
             /\ step' = [step EXCEPT !.at = "declare"] /\ UNCHANGED <<plan, outcome>>
    <3>1. step' \in [at : {"fetched", "removed", "copied", "declare"}, a : VendorAction, pkg : Package]
          /\ step'.a = a /\ step'.pkg = step.pkg /\ step'.at = "declare"
      BY <1>5, <2>0, <2>1, <2>4
    <3>2. Vendoring!Found(a.name)' = Vendoring!Found(a.name)
      BY <2>0 DEF Vendoring!Found, Vendoring!HasPkg
    <3>3. UnderWay(a, step)'
      BY <2>0, <2>2, <2>4, <3>1, <3>2 DEF UnderWay
    <3> QED BY <1>0, <2>0, <2>1, <2>2, <2>4, <3>1, <3>3, ActionGoesOn
  <2>5. CASE Vendoring!End("error")
    BY <1>0, <2>0, <2>5, RunEnds
  <2> QED BY <1>10, <2>1, <2>3, <2>4, <2>5 DEF Vendoring!createCl
<1>11. ASSUME Vendoring!ModifyRepoDecl PROVE VendorInv'
  <2>0. step # Vendoring!Idle /\ step.at = "declare" /\ UNCHANGED <<manifest, disk, reconciled, synced>>
    BY <1>11 DEF Vendoring!ModifyRepoDecl, Vendoring!Doing
  <2>1. PICK a \in plan : a = step.a
    BY <1>5, <2>0
  <2>2. a.name \in Names /\ UnderWay(a, step) /\ Rendering
    BY <1>1, <1>5, <2>0, <2>1
  <2>3. CASE Vendoring!ActionDone(a) /\ declared' = [declared EXCEPT ![a.name] = @ + 1]
    <3>1. AsAsked(a.name)' /\ a.do # "regen"
      BY <1>9, <2>0, <2>1, <2>2 DEF UnderWay
    <3>2. declared[a.name] = 0
      BY <1>5, <2>0, <2>1, <2>2 DEF UnderWay
    <3>3. declared' \in [Names -> {0, 1}] /\ \A n \in Names : n # a.name => declared'[n] = declared[n]
      BY <1>0, <2>2, <2>3, <3>2
    <3> QED BY <1>0, <2>0, <2>1, <2>3, <3>1, <3>3, ActionEnds
  <2>4. CASE Vendoring!End("error") /\ UNCHANGED declared
    BY <1>0, <2>0, <2>4, RunEnds
  <2> QED BY <1>11, <2>1, <2>3, <2>4 DEF Vendoring!ModifyRepoDecl
<1> QED BY <1>6, <1>7, <1>8, <1>10, <1>11

(* Every edit of the manifests and every step of a run preserves the invariant. *)
LEMMA VendorStepOk == VendorInv /\ [Vendoring!Next]_vendorVars => VendorInv'
<1> SUFFICES ASSUME VendorInv, [Vendoring!Next]_vendorVars PROVE VendorInv'
  OBVIOUS
<1>0. VendorTyped /\ disk \in [Names -> [{1, 2} -> Directory]] /\ declared \in [Names -> {0, 1}]
  BY DEF VendorInv, VendorTyped
<1>1. CASE UNCHANGED vendorVars
  <2>1. UNCHANGED <<manifest, disk, declared, reconciled, plan, step, synced, outcome>>
    BY <1>1 DEF vendorVars
  <2>2. \A n \in Names : (AsAsked(n) => AsAsked(n)') /\ (\A a : a.name = n /\ ToDo(a) => ToDo(a)') /\ Vendoring!Found(n)' = Vendoring!Found(n)
    BY <2>1, PackageStays
  <2>3. VendorTyped'
    BY <1>0, <2>1 DEF VendorTyped
  <2>4. \A a \in plan : a.name \in Names
    BY <1>0 DEF VendorTyped, VendorAction
  <2>5. \A a \in plan : UnderWay(a, step) => UnderWay(a, step)'
    BY <2>1, <2>2, <2>4 DEF UnderWay
  <2>6. Regenerating => Regenerating'
    BY <2>1, <2>2, <2>4 DEF Regenerating
  <2>7. Rendering => Rendering'
    BY <2>1, <2>2, <2>4, <2>5 DEF Rendering
  <2> QED BY <2>1, <2>2, <2>3, <2>6, <2>7 DEF VendorInv
<1>2. ASSUME NEW n \in Names, NEW e \in Vendoring!Entries \cup {Vendoring!NoEntry}, Vendoring!EditManifest(n, e) PROVE VendorInv'
  <2>1. outcome # "running" /\ outcome' = "none" /\ manifest' = [manifest EXCEPT ![n] = e] /\ UNCHANGED <<disk, declared, reconciled, plan, step, synced>>
    BY <1>2 DEF Vendoring!EditManifest
  <2>2. VendorTyped'
    BY <1>0, <2>1 DEF VendorTyped
  <2> QED BY <2>1, <2>2 DEF VendorInv
<1>3. ASSUME NEW a \in plan PROVE a \in VendorAction /\ a.name \in Names /\ a.from \in {1, 2}
  BY <1>0, <1>3 DEF VendorTyped, VendorAction
<1>4. ASSUME NEW a \in plan, Vendoring!pkgDelete(a) PROVE VendorInv'
  <2>0. step = Vendoring!Idle /\ a.do = "delete" /\ UNCHANGED <<manifest, declared, synced>>
    BY <1>4 DEF Vendoring!pkgDelete
  <2>1. Rendering /\ ToDo(a) /\ outcome = "running"
    BY <1>0, <2>0 DEF VendorInv, VendorTyped, Regenerating, Rendering
  <2>2. manifest[a.name] = Vendoring!NoEntry /\ Vendoring!Found(a.name) = {a.from}
    BY <2>0, <2>1 DEF ToDo
  <2>3. disk[a.name] \in [{1, 2} -> Directory] /\ disk[a.name][a.from] \in Package /\ PackageOk(disk[a.name][a.from])
    BY <1>0, <1>3, <2>2 DEF Vendoring!Found, Vendoring!HasPkg, Directory, Vendoring!Absent, Vendoring!Junk
  <2>4. ASSUME NEW d \in Directory, disk' = [disk EXCEPT ![a.name][a.from] = d]
        PROVE  /\ disk' \in [Names -> [{1, 2} -> Directory]] /\ \A k \in Names : k # a.name => disk'[k] = disk[k]
               /\ disk'[a.name][a.from] = d /\ \A j \in {1, 2} : j # a.from => disk'[a.name][j] = disk[a.name][j]
    BY <1>0, <1>3, <2>4
  <2>5. CASE /\ disk' = [disk EXCEPT ![a.name][a.from] = Vendoring!Absent] /\ reconciled' = reconciled \cup {<<a.name, a.from>>}
             /\ Vendoring!ActionDone(a)
    <3>1. disk' \in [Names -> [{1, 2} -> Directory]] /\ (\A k \in Names : k # a.name => disk'[k] = disk[k])
          /\ disk'[a.name][a.from] = Vendoring!Absent /\ \A j \in {1, 2} : j # a.from => disk'[a.name][j] = disk[a.name][j]
      BY <2>4, <2>5 DEF Directory
    <3>2. Vendoring!Found(a.name)' = {}
      BY <1>3, <2>2, <3>1 DEF Vendoring!Found, Vendoring!HasPkg, Vendoring!Absent, Vendoring!Mfs
    <3>3. AsAsked(a.name)'
      BY <2>0, <2>2, <3>2 DEF AsAsked
    <3>4. ~Regenerating
      BY <2>0 DEF Regenerating
    <3> QED BY <1>0, <2>0, <2>5, <3>1, <3>3, <3>4, ActionEnds
  <2>6. CASE Vendoring!End("error") /\ UNCHANGED disk
    BY <1>0, <2>0, <2>6, RunEnds
  <2>7. CASE Vendoring!End("error") /\ \E d \in Vendoring!Removed(disk[a.name][a.from]) : disk' = [disk EXCEPT ![a.name][a.from] = d]
    <3>1. PICK d \in Vendoring!Removed(disk[a.name][a.from]) : disk' = [disk EXCEPT ![a.name][a.from] = d]
      BY <2>7
    <3> DEFINE p == disk[a.name][a.from]
               torn == [p EXCEPT !.whole = FALSE]
    <3>2. torn \in Package /\ torn.kind = p.kind /\ torn.version = p.version /\ torn.content = p.content
      BY <2>3 DEF Package
    <3>3. d \in Directory
      BY <2>3, <3>1, <3>2 DEF Vendoring!Removed, Directory, PackageOk
    <3>4. disk' \in [Names -> [{1, 2} -> Directory]]
      BY <2>4, <3>1, <3>3
    <3> QED BY <1>0, <2>0, <2>7, <3>4, RunEnds
  <2> QED BY <1>4, <2>5, <2>6, <2>7 DEF Vendoring!pkgDelete
<1>5. ASSUME NEW a \in plan, Vendoring!labelUpdate(a) PROVE VendorInv'
  <2>0. step = Vendoring!Idle /\ a.do = "label" /\ UNCHANGED <<manifest, disk, declared, synced>> /\ reconciled \subseteq reconciled'
    BY <1>5 DEF Vendoring!labelUpdate
  <2>1. Rendering /\ ToDo(a)
    BY <1>0, <2>0 DEF VendorInv, VendorTyped, Regenerating, Rendering
  <2>2. AsAsked(a.name)'
    BY <1>3, <2>0, <2>1, PackageStays DEF ToDo
  <2>3. CASE Vendoring!ActionDone(a)
    BY <1>0, <2>0, <2>2, <2>3, ActionEnds
  <2>4. CASE Vendoring!End("error")
    BY <1>0, <2>0, <2>4, RunEnds
  <2> QED BY <1>5, <2>3, <2>4 DEF Vendoring!labelUpdate
\* The actions of regen.
<1>6. ASSUME NEW a \in plan, a.do = "regen", step = Vendoring!Idle PROVE Regenerating /\ ~Rendering
  BY <1>0, <1>6 DEF VendorInv, VendorTyped, Rendering, ToDo
<1>7. ASSUME NEW a \in plan, a.do = "regen", step = Vendoring!Idle, Vendoring!ActionDone(a), UNCHANGED <<manifest, disk, declared, synced>>,
             reconciled \subseteq reconciled'
      PROVE  VendorInv'
  BY <1>0, <1>6, <1>7, ActionEnds
<1>8. ASSUME NEW a \in plan, Vendoring!RegenNothing(a) PROVE VendorInv'
  BY <1>7, <1>8 DEF Vendoring!RegenNothing
<1>9. ASSUME NEW a \in plan, Vendoring!GazellePkg(a) PROVE VendorInv'
  <2>0. step = Vendoring!Idle /\ a.do = "regen" /\ UNCHANGED <<manifest, declared, synced>> /\ reconciled \subseteq reconciled'
    BY <1>9 DEF Vendoring!GazellePkg
  <2>1. CASE Vendoring!ActionDone(a) /\ UNCHANGED disk
    BY <1>7, <2>0, <2>1
  <2>2. ASSUME NEW whole \in BOOLEAN, Vendoring!End("error"), disk' = [disk EXCEPT ![a.name][a.from].whole = @ /\ whole] PROVE VendorInv'
    <3> DEFINE p == disk[a.name][a.from]
               q == [p EXCEPT !.whole = @ /\ whole]
    <3>1. a.from \in Vendoring!Found(a.name)
      BY <1>6, <2>0 DEF Regenerating
    <3>2. p \in Package /\ PackageOk(p)
      BY <1>0, <1>3, <3>1 DEF Vendoring!Found, Vendoring!HasPkg, Directory, Vendoring!Absent, Vendoring!Junk
    <3>3. (p.whole /\ whole) \in BOOLEAN
      OBVIOUS
    <3>4. q \in Package /\ q.kind = p.kind /\ q.version = p.version /\ q.content = p.content
      BY <3>2, <3>3 DEF Package
    <3>5. q \in Directory
      BY <3>2, <3>4 DEF Directory, PackageOk
    <3>6. disk' = [disk EXCEPT ![a.name][a.from] = q]
      BY <2>2
    <3> HIDE DEF q
    <3>7. disk' \in [Names -> [{1, 2} -> Directory]]
      BY <1>0, <1>3, <3>5, <3>6
    <3> QED BY <1>0, <2>0, <2>2, <3>7, RunEnds
  <2> QED BY <1>9, <2>1, <2>2 DEF Vendoring!GazellePkg
<1> QED BY <1>1, <1>2, <1>4, <1>5, <1>8, <1>9, RunBegins, SyncStep DEF Vendoring!Next

(* The invariant says what a run promises. *)
LEMMA VendorHonest == VendorInv => Vendoring!VendoredAsAsked
<1> SUFFICES ASSUME VendorInv PROVE Vendoring!VendoredAsAsked
  OBVIOUS
<1>1. \A n \in Names : declared[n] <= 1
  BY DEF VendorInv, VendorTyped
<1> QED BY <1>1 DEF VendorInv, AsAsked, Vendoring!VendoredAsAsked

-----------------------------------------------------------------------------
(***************************************************************************)
(* gigantick.  An object whose goroutines are at work is polled, or the    *)
(* submitted list brought its change first: the dashboard comes only after *)
(* the two lists.  The results of a presubmit run that are shown and those *)
(* on their way are together those the run reported.                       *)
(***************************************************************************)
fetch == s2
window == s3
allChanges == s4
obj == s5
windowVars == <<s1, s2, s3, s4, s5, s6, s7>>
USE DEF fetch, window, allChanges, obj

Progress == {"none", "processing", "done"}
PresubmitRuns == 1 .. MaxPresubmits
Change ==
    [fstat : Window!Pcs, fileState : Progress, describe : Window!Pcs, described : BOOLEAN,
     reviews : [Window!Lists -> Window!Pcs], reviewsState : Progress,
     comments : [Window!Lists -> Window!Pcs], commentsState : Progress, extracted : BOOLEAN,
     sgepState : Progress, run : Nat, sgep : {"none", "checks", "run", "failed"},
     reported : Nat, checks : Nat, output : Nat,
     waiting : [PresubmitRuns -> Nat], results : [PresubmitRuns -> Nat]]

PresubmitOk(c) ==
    /\ c.run <= MaxPresubmits
    /\ \A r \in PresubmitRuns : r > c.run => c.waiting[r] = 0 /\ c.results[r] = 0
    /\ c.run > 0 => c.results[c.run] + c.waiting[c.run] = c.reported
    /\ c.reported > 0 => c.checks = c.run
    /\ c.sgep \in {"checks", "run"} => c.run > 0 /\ c.output = 0
    /\ c.sgep = "checks" => c.reported = 0
    /\ c.sgep = "run" => c.checks = c.run
    /\ c.output = c.run /\ c.run > 0 => c.reported = Checks /\ c.checks = c.run
CommentsOk(c) ==
    /\ \A l \in Window!Lists : c.comments[l] # "none" => c.commentsState # "none"
    /\ c.commentsState # "none" => c.reviewsState = "done"
    /\ c.extracted => c.fileState = "done" /\ c.commentsState # "none"
NoReviewYet(c) ==
    /\ c.reviewsState = "none" /\ c.commentsState = "none"
    /\ \A l \in Window!Lists : c.reviews[l] = "none" /\ c.comments[l] = "none"
Asking(c) == c.fstat \in {"run", "send"} \/ c.describe \in {"run", "send"}
ChangeOk(c, s, polled, swarm) ==
    /\ PresubmitOk(c) /\ CommentsOk(c)
    /\ Asking(c) => polled \in {s, "submitted"}
    /\ ~swarm => NoReviewYet(c)

FetchOk ==
    /\ s1 \subseteq UserCls
    /\ fetch \in [pc : [Window!Goroutines -> Window!Pcs], list : [Window!Sources -> SUBSET UserCls]]
    /\ window \in [done : SUBSET {"pending", "submitted", "tickets", "swarm"}, shown : [Window!Lists -> SUBSET UserCls]]
    /\ allChanges \in [UserCls -> Window!Sources \cup {Window!Nobody}]
    /\ "pending" \in window.done => fetch.pc["pending"] = "ended"
    /\ "swarm" \in window.done => "pending" \in window.done
    /\ fetch.pc["reviews"] # "none" \/ fetch.pc["dashboard"] # "none" => "swarm" \in window.done
    /\ \A cl \in UserCls : allChanges[cl] = "dashboard" => "swarm" \in window.done
ObjectsOk ==
    /\ obj \in [UserCls -> [Window!Sources -> Change]]
    /\ \A cl \in UserCls, s \in Window!Sources : ChangeOk(obj[cl][s], s, allChanges[cl], "swarm" \in window.done)
WindowInv == FetchOk /\ ObjectsOk

(* A change nobody has asked anything about. *)
LEMMA NewChangeOk ==
    ASSUME NEW s, NEW polled
    PROVE  /\ Window!NewChange \in Change /\ ChangeOk(Window!NewChange, s, polled, FALSE)
           /\ ~Asking(Window!NewChange) /\ NoReviewYet(Window!NewChange)
           /\ PresubmitOk(Window!NewChange) /\ CommentsOk(Window!NewChange)
<1>1. MaxPresubmits \in Nat
  BY WindowAssumption DEF Window!WindowConstants
<1>2. Window!NewChange \in Change
  BY <1>1 DEF Window!NewChange, Change, Window!Pcs, Progress, PresubmitRuns
<1>3. NoReviewYet(Window!NewChange) /\ CommentsOk(Window!NewChange)
  BY DEF Window!NewChange, NoReviewYet, CommentsOk
<1>4. PresubmitOk(Window!NewChange)
  BY <1>1 DEF Window!NewChange, PresubmitOk, PresubmitRuns
<1>5. ~Asking(Window!NewChange)
  BY DEF Window!NewChange, Asking
<1> QED BY <1>2, <1>3, <1>4, <1>5 DEF ChangeOk

(* The window opens with nothing in it. *)
LEMMA WindowInit == Window!Init => WindowInv
<1> SUFFICES ASSUME Window!Init PROVE WindowInv
  OBVIOUS
<1>1. FetchOk
  BY DEF Window!Init, FetchOk, Window!Goroutines, Window!Pcs, Window!Nobody, Window!Sources
<1>2. ObjectsOk
  <2>1. obj \in [UserCls -> [Window!Sources -> Change]]
    BY NewChangeOk DEF Window!Init
  <2>2. ASSUME NEW cl \in UserCls, NEW s \in Window!Sources PROVE ChangeOk(obj[cl][s], s, allChanges[cl], "swarm" \in window.done)
    <3>1. obj[cl][s] = Window!NewChange /\ ("swarm" \in window.done) = FALSE
      BY <2>2 DEF Window!Init
    <3>2. ChangeOk(Window!NewChange, s, allChanges[cl], FALSE)
      BY NewChangeOk
    <3> QED BY <3>1, <3>2
  <2> QED BY <2>1, <2>2 DEF ObjectsOk
<1> QED BY <1>1, <1>2 DEF WindowInv

(* A step of one change, that leaves its goroutines as they are or starts them for one that is polled. *)
LEMMA ChangeSteps ==
    ASSUME WindowInv, NEW cl \in UserCls, NEW s \in Window!Sources, NEW new \in Change, Window!Become(cl, s, new),
           PresubmitOk(new), CommentsOk(new),
           Asking(new) => Asking(obj[cl][s]) \/ Window!Polled(cl, s),
           "swarm" \notin window.done => NoReviewYet(new)
    PROVE  WindowInv'
<1>0. FetchOk /\ ObjectsOk
  BY DEF WindowInv
<1>1. obj' = [obj EXCEPT ![cl][s] = new] /\ UNCHANGED <<s1, fetch, window, allChanges>>
  BY DEF Window!Become
<1>2. FetchOk'
  BY <1>0, <1>1 DEF FetchOk
<1>3. obj' \in [UserCls -> [Window!Sources -> Change]]
  BY <1>0, <1>1 DEF ObjectsOk
<1>4. ASSUME NEW k \in UserCls, NEW t \in Window!Sources PROVE obj'[k][t] = IF k = cl /\ t = s THEN new ELSE obj[k][t]
  BY <1>0, <1>1 DEF ObjectsOk
<1>5. ChangeOk(new, s, allChanges[cl], "swarm" \in window.done)
  <2>1. ChangeOk(obj[cl][s], s, allChanges[cl], "swarm" \in window.done)
    BY <1>0 DEF ObjectsOk
  <2> QED BY <2>1 DEF ChangeOk, Window!Polled
<1>6. ASSUME NEW k \in UserCls, NEW t \in Window!Sources PROVE ChangeOk(obj'[k][t], t, allChanges'[k], "swarm" \in window'.done)
  BY <1>0, <1>1, <1>4, <1>5 DEF ObjectsOk
<1> QED BY <1>2, <1>3, <1>6 DEF WindowInv, ObjectsOk

(* The files, the description, the review and the comments of a change. *)
LEMMA AnswerStep ==
    ASSUME WindowInv, NEW cl \in UserCls, NEW s \in Window!Sources,
           \/ Window!getFiles(cl, s) \/ Window!fetchFstats(cl, s) \/ Window!updateChangeFstats(cl, s)
           \/ Window!fetchDescription(cl, s) \/ Window!updateChangeDescription(cl, s) \/ Window!build(cl, s)
           \/ \E l \in Window!Lists :
                \/ Window!fetchReviewForChangelist(cl, s, l) \/ Window!updateChangeReviews(cl, s, l)
                \/ Window!fetchChangeComments(cl, s, l) \/ Window!updateChangeComments(cl, s, l)
    PROVE  WindowInv'
<1>1. PICK c \in Change : c = obj[cl][s]
  BY DEF WindowInv, ObjectsOk
<1>2. PresubmitOk(c) /\ CommentsOk(c) /\ ("swarm" \notin window.done => NoReviewYet(c))
  BY <1>1 DEF WindowInv, ObjectsOk, ChangeOk
\* What these steps leave alone.
<1>3. ASSUME NEW new \in Change, new.run = c.run, new.sgep = c.sgep, new.reported = c.reported, new.checks = c.checks,
             new.output = c.output, new.waiting = c.waiting, new.results = c.results
      PROVE  PresubmitOk(new)
  BY <1>2, <1>3 DEF PresubmitOk
<1>4. ASSUME NEW new \in Change, new.reviews = c.reviews, new.reviewsState = c.reviewsState, new.comments = c.comments,
             new.commentsState = c.commentsState
      PROVE  "swarm" \notin window.done => NoReviewYet(new)
  BY <1>2, <1>4 DEF NoReviewYet
<1>5. CASE Window!getFiles(cl, s)
  <2>1. PICK new : new = [c EXCEPT !.fileState = "processing", !.fstat = "run"]
    OBVIOUS
  <2>2. Window!Become(cl, s, new) /\ Window!Polled(cl, s) /\ c.fileState = "none"
    BY <1>1, <1>5, <2>1 DEF Window!getFiles
  <2>3. new \in Change
    BY <2>1 DEF Change, Progress, Window!Pcs
  <2>4. PresubmitOk(new) /\ ("swarm" \notin window.done => NoReviewYet(new))
    BY <1>3, <1>4, <2>1, <2>3 DEF Change
  <2>5. CommentsOk(new)
    BY <1>2, <2>1, <2>2 DEF CommentsOk, Change
  <2> QED BY <2>2, <2>3, <2>4, <2>5, ChangeSteps
<1>6. CASE Window!fetchFstats(cl, s)
  <2>1. PICK pc \in {"send", "ended"} : Window!Become(cl, s, [obj[cl][s] EXCEPT !.fstat = pc])
    BY <1>6 DEF Window!fetchFstats
  <2>2. PICK new : new = [c EXCEPT !.fstat = pc]
    OBVIOUS
  <2>3. new \in Change
    BY <2>2 DEF Change, Window!Pcs
  <2>4. PresubmitOk(new) /\ ("swarm" \notin window.done => NoReviewYet(new))
    BY <1>3, <1>4, <2>2, <2>3 DEF Change
  <2>5. CommentsOk(new)
    BY <1>2, <2>2 DEF CommentsOk, Change
  <2>6. Asking(obj[cl][s])
    BY <1>6 DEF Window!fetchFstats, Asking
  <2> QED BY <1>1, <2>1, <2>2, <2>3, <2>4, <2>5, <2>6, ChangeSteps
<1>7. CASE Window!updateChangeFstats(cl, s)
  <2>1. PICK new : new = [c EXCEPT !.fstat = "ended", !.fileState = "done"]
    OBVIOUS
  <2>2. Window!Become(cl, s, new) /\ Window!Polled(cl, s)
    BY <1>1, <1>7, <2>1 DEF Window!updateChangeFstats
  <2>3. new \in Change
    BY <2>1 DEF Change, Progress, Window!Pcs
  <2>4. PresubmitOk(new) /\ ("swarm" \notin window.done => NoReviewYet(new))
    BY <1>3, <1>4, <2>1, <2>3 DEF Change
  <2>5. CommentsOk(new)
    BY <1>2, <2>1 DEF CommentsOk, Change
  <2> QED BY <2>2, <2>3, <2>4, <2>5, ChangeSteps
<1>8. CASE Window!fetchDescription(cl, s)
  <2>1. PICK pc \in {"send", "ended"} : Window!Become(cl, s, [obj[cl][s] EXCEPT !.describe = pc])
    BY <1>8 DEF Window!fetchDescription
  <2>2. PICK new : new = [c EXCEPT !.describe = pc]
    OBVIOUS
  <2>3. new \in Change
    BY <2>2 DEF Change, Window!Pcs
  <2>4. PresubmitOk(new) /\ ("swarm" \notin window.done => NoReviewYet(new))
    BY <1>3, <1>4, <2>2, <2>3 DEF Change
  <2>5. CommentsOk(new)
    BY <1>2, <2>2 DEF CommentsOk, Change
  <2>6. Asking(obj[cl][s])
    BY <1>8 DEF Window!fetchDescription, Asking
  <2> QED BY <1>1, <2>1, <2>2, <2>3, <2>4, <2>5, <2>6, ChangeSteps
<1>9. CASE Window!updateChangeDescription(cl, s)
  <2>1. PICK new : new = [c EXCEPT !.describe = "ended", !.described = TRUE]
    OBVIOUS
  <2>2. Window!Become(cl, s, new) /\ Window!Polled(cl, s)
    BY <1>1, <1>9, <2>1 DEF Window!updateChangeDescription
  <2>3. new \in Change
    BY <2>1 DEF Change, Window!Pcs
  <2>4. PresubmitOk(new) /\ ("swarm" \notin window.done => NoReviewYet(new))
    BY <1>3, <1>4, <2>1, <2>3 DEF Change
  <2>5. CommentsOk(new)
    BY <1>2, <2>1 DEF CommentsOk, Change
  <2> QED BY <2>2, <2>3, <2>4, <2>5, ChangeSteps
<1>10. CASE Window!build(cl, s)
  <2>1. PICK new : new = [c EXCEPT !.extracted = TRUE]
    OBVIOUS
  <2>2. Window!Become(cl, s, new) /\ Window!Polled(cl, s) /\ c.commentsState = "done" /\ c.fileState = "done"
    BY <1>1, <1>10, <2>1 DEF Window!build
  <2>3. new \in Change
    BY <2>1 DEF Change
  <2>4. PresubmitOk(new) /\ ("swarm" \notin window.done => NoReviewYet(new))
    BY <1>3, <1>4, <2>1, <2>3 DEF Change
  <2>5. CommentsOk(new)
    BY <1>2, <2>1, <2>2 DEF CommentsOk, Change
  <2> QED BY <2>2, <2>3, <2>4, <2>5, ChangeSteps
<1>11. ASSUME NEW l \in Window!Lists, Window!fetchReviewForChangelist(cl, s, l) PROVE WindowInv'
  <2>1. PICK pc \in {"send", "ended"} : Window!Become(cl, s, [obj[cl][s] EXCEPT !.reviews[l] = pc])
    BY <1>11 DEF Window!fetchReviewForChangelist
  <2>2. PICK new : new = [c EXCEPT !.reviews[l] = pc]
    OBVIOUS
  <2>3. new \in Change
    BY <2>2 DEF Change, Window!Pcs
  <2>4. PresubmitOk(new)
    BY <1>3, <2>2, <2>3 DEF Change
  <2>5. CommentsOk(new)
    BY <1>2, <2>2 DEF CommentsOk, Change
  <2>6. "swarm" \in window.done
    BY <1>1, <1>2, <1>11 DEF Window!fetchReviewForChangelist, NoReviewYet
  <2>7. Asking(new) => Asking(c)
    BY <2>2 DEF Asking, Change
  <2> QED BY <1>1, <2>1, <2>2, <2>3, <2>4, <2>5, <2>6, <2>7, ChangeSteps
<1>12. ASSUME NEW l \in Window!Lists, Window!updateChangeReviews(cl, s, l) PROVE WindowInv'
  <2>1. PICK found \in BOOLEAN :
          Window!Become(cl, s, [obj[cl][s] EXCEPT !.reviews[l] = "ended", !.reviewsState = "done",
                                                  !.comments[l] = IF found THEN "run" ELSE @,
                                                  !.commentsState = IF found THEN "processing" ELSE @])
    BY <1>12 DEF Window!updateChangeReviews
  <2>2. PICK new : new = [c EXCEPT !.reviews[l] = "ended", !.reviewsState = "done",
                                   !.comments[l] = IF found THEN "run" ELSE @,
                                   !.commentsState = IF found THEN "processing" ELSE @]
    OBVIOUS
  <2>3. new \in Change
    BY <2>2 DEF Change, Window!Pcs, Progress
  <2>4. PresubmitOk(new)
    BY <1>3, <2>2, <2>3 DEF Change
  <2>5. CommentsOk(new)
    BY <1>2, <2>2 DEF CommentsOk, Change
  <2>6. "swarm" \in window.done
    BY <1>1, <1>2, <1>12 DEF Window!updateChangeReviews, NoReviewYet
  <2>7. Asking(new) => Asking(c)
    BY <2>2 DEF Asking, Change
  <2>8. Window!Become(cl, s, new)
    BY <1>1, <2>1, <2>2
  <2> QED BY <1>1, <2>3, <2>4, <2>5, <2>6, <2>7, <2>8, ChangeSteps
<1>13. ASSUME NEW l \in Window!Lists, Window!fetchChangeComments(cl, s, l) PROVE WindowInv'
  <2>1. PICK pc \in {"send", "ended"} : Window!Become(cl, s, [obj[cl][s] EXCEPT !.comments[l] = pc])
    BY <1>13 DEF Window!fetchChangeComments
  <2>2. PICK new : new = [c EXCEPT !.comments[l] = pc]
    OBVIOUS
  <2>3. new \in Change
    BY <2>2 DEF Change, Window!Pcs
  <2>4. PresubmitOk(new)
    BY <1>3, <2>2, <2>3 DEF Change
  <2>5. CommentsOk(new)
    BY <1>1, <1>2, <1>13, <2>2 DEF CommentsOk, Change, Window!fetchChangeComments
  <2>6. "swarm" \in window.done
    BY <1>1, <1>2, <1>13 DEF Window!fetchChangeComments, NoReviewYet
  <2>7. Asking(new) => Asking(c)
    BY <2>2 DEF Asking, Change
  <2> QED BY <1>1, <2>1, <2>2, <2>3, <2>4, <2>5, <2>6, <2>7, ChangeSteps
<1>14. ASSUME NEW l \in Window!Lists, Window!updateChangeComments(cl, s, l) PROVE WindowInv'
  <2>1. PICK new : new = [c EXCEPT !.comments[l] = "ended", !.commentsState = "done"]
    OBVIOUS
  <2>2. Window!Become(cl, s, new) /\ Window!Polled(cl, s) /\ c.comments[l] = "send"
    BY <1>1, <1>14, <2>1 DEF Window!updateChangeComments
  <2>3. new \in Change
    BY <2>1 DEF Change, Window!Pcs, Progress
  <2>4. PresubmitOk(new)
    BY <1>3, <2>1, <2>3 DEF Change
  <2>5. CommentsOk(new)
    BY <1>2, <2>1, <2>2 DEF CommentsOk, Change
  <2>6. "swarm" \in window.done
    BY <1>2, <2>2 DEF NoReviewYet
  <2> QED BY <2>2, <2>3, <2>4, <2>5, <2>6, ChangeSteps
<1> QED BY <1>5, <1>6, <1>7, <1>8, <1>9, <1>10, <1>11, <1>12, <1>13, <1>14

(* A presubmit of a change. *)
LEMMA SgepStep ==
    ASSUME WindowInv, NEW cl \in UserCls, NEW s \in Window!Sources,
           \/ Window!buildSgep(cl, s) \/ Window!SgepFails(cl, s) \/ Window!TakeChecks(cl, s)
           \/ Window!OnCheckResult(cl, s) \/ Window!TakeOutput(cl, s)
           \/ \E r \in 1 .. MaxPresubmits : Window!TakeResult(cl, s, r)
    PROVE  WindowInv'
<1>0. MaxPresubmits \in Nat /\ Checks \in Nat
  BY WindowAssumption DEF Window!WindowConstants
<1>1. PICK c \in Change : c = obj[cl][s]
  BY DEF WindowInv, ObjectsOk
<1>2. PresubmitOk(c) /\ CommentsOk(c) /\ ("swarm" \notin window.done => NoReviewYet(c))
  BY <1>1 DEF WindowInv, ObjectsOk, ChangeOk
\* What these steps leave alone.
<1>3. ASSUME NEW new \in Change, Window!Become(cl, s, new), PresubmitOk(new), new.reviews = c.reviews,
             new.reviewsState = c.reviewsState, new.comments = c.comments, new.commentsState = c.commentsState,
             new.extracted = c.extracted, new.fileState = c.fileState, new.fstat = c.fstat, new.describe = c.describe
      PROVE  WindowInv'
  <2>1. CommentsOk(new) /\ ("swarm" \notin window.done => NoReviewYet(new))
    BY <1>2, <1>3 DEF CommentsOk, NoReviewYet
  <2>2. Asking(new) => Asking(c)
    BY <1>3 DEF Asking
  <2> QED BY <1>1, <1>3, <2>1, <2>2, ChangeSteps
<1>4. /\ c.run \in Nat /\ c.run <= MaxPresubmits /\ c.reported \in Nat /\ c.checks \in Nat /\ c.output \in Nat
      /\ c.waiting \in [PresubmitRuns -> Nat] /\ c.results \in [PresubmitRuns -> Nat]
  BY <1>2 DEF Change, PresubmitOk
<1>5. CASE Window!buildSgep(cl, s)
  <2>1. PICK new : new = [c EXCEPT !.sgepState = "processing", !.run = @ + 1, !.sgep = "checks", !.output = 0,
                                   !.checks = 0, !.reported = 0, !.results = [r \in 1 .. MaxPresubmits |-> 0]]
    OBVIOUS
  <2>2. Window!Become(cl, s, new) /\ c.run < MaxPresubmits
    BY <1>1, <1>5, <2>1 DEF Window!buildSgep
  <2>3. new \in Change
    <3>1. PICK n \in Nat : n = c.run + 1
      BY <1>4
    <3>2. PICK z \in [PresubmitRuns -> Nat] : z = [r \in 1 .. MaxPresubmits |-> 0]
      BY DEF PresubmitRuns
    <3>3. new = [c EXCEPT !.sgepState = "processing", !.run = n, !.sgep = "checks", !.output = 0,
                          !.checks = 0, !.reported = 0, !.results = z]
      BY <2>1, <3>1, <3>2 DEF Change
    <3> QED BY <3>3 DEF Change, Progress
  <2>4. /\ new.run = c.run + 1 /\ new.sgep = "checks" /\ new.output = 0 /\ new.checks = 0 /\ new.reported = 0
        /\ new.waiting = c.waiting /\ \A r \in PresubmitRuns : new.results[r] = 0
    BY <2>1 DEF Change, PresubmitRuns
  <2>5. \A r \in PresubmitRuns : r > c.run => c.waiting[r] = 0
    BY <1>2 DEF PresubmitOk
  <2>6. new.run \in PresubmitRuns /\ new.run > c.run
    BY <1>0, <1>4, <2>2, <2>4 DEF PresubmitRuns
  <2>7. PresubmitOk(new)
    <3>1. \A r \in PresubmitRuns : r \in Nat
      BY DEF PresubmitRuns
    <3>2. \A r \in PresubmitRuns : r > new.run => new.waiting[r] = 0 /\ new.results[r] = 0
      BY <1>4, <2>4, <2>5, <3>1
    <3>3. new.run <= MaxPresubmits /\ new.run > 0
      BY <1>0, <1>4, <2>2, <2>4
    <3>4. new.results[new.run] + new.waiting[new.run] = new.reported
      BY <2>4, <2>5, <2>6
    <3> QED BY <2>4, <3>2, <3>3, <3>4 DEF PresubmitOk
  <2>8. /\ new.reviews = c.reviews /\ new.reviewsState = c.reviewsState /\ new.comments = c.comments
        /\ new.commentsState = c.commentsState /\ new.extracted = c.extracted /\ new.fileState = c.fileState
        /\ new.fstat = c.fstat /\ new.describe = c.describe
    BY <2>1 DEF Change
  <2> QED BY <1>3, <2>2, <2>3, <2>7, <2>8
<1>6. CASE Window!SgepFails(cl, s)
  <2>1. PICK new : new = [c EXCEPT !.sgep = "failed"]
    OBVIOUS
  <2>2. Window!Become(cl, s, new)
    BY <1>1, <1>6, <2>1 DEF Window!SgepFails
  <2>3. new \in Change
    BY <2>1 DEF Change
  <2>4. PresubmitOk(new)
    BY <1>2, <2>1 DEF PresubmitOk, Change
  <2> QED BY <1>3, <2>1, <2>2, <2>3, <2>4 DEF Change
<1>7. CASE Window!TakeChecks(cl, s)
  <2>1. PICK new : new = [c EXCEPT !.sgep = "run", !.checks = c.run]
    OBVIOUS
  <2>2. Window!Become(cl, s, new) /\ c.sgep = "checks"
    BY <1>1, <1>7, <2>1 DEF Window!TakeChecks, Window!OnPresubmitStart
  <2>3. new \in Change
    BY <1>0, <1>4, <2>1 DEF Change
  <2>4. PresubmitOk(new)
    BY <1>2, <1>4, <2>1, <2>2 DEF PresubmitOk, Change
  <2> QED BY <1>3, <2>1, <2>2, <2>3, <2>4 DEF Change
<1>8. CASE Window!OnCheckResult(cl, s)
  <2>1. PICK new : new = [c EXCEPT !.reported = @ + 1, !.waiting[c.run] = @ + 1]
    OBVIOUS
  <2>2. Window!Become(cl, s, new) /\ c.sgep = "run"
    BY <1>1, <1>8, <2>1 DEF Window!OnCheckResult
  <2>3. c.run \in PresubmitRuns /\ c.output = 0 /\ c.checks = c.run
    BY <1>0, <1>2, <1>4, <2>2 DEF PresubmitOk, PresubmitRuns
  <2>4. new \in Change
    <3>1. PICK n \in Nat : n = c.reported + 1
      BY <1>4
    <3>2. PICK w \in [PresubmitRuns -> Nat] : w = [c.waiting EXCEPT ![c.run] = @ + 1]
      <4>1. c.waiting[c.run] \in Nat /\ c.waiting[c.run] + 1 \in Nat
        BY <1>4, <2>3
      <4> QED BY <1>4, <2>3, <4>1
    <3>3. new = [c EXCEPT !.reported = n, !.waiting = w]
      BY <2>1, <3>1, <3>2 DEF Change
    <3> QED BY <3>3 DEF Change
  <2>5. /\ new.run = c.run /\ new.sgep = "run" /\ new.output = 0 /\ new.checks = c.run /\ new.reported = c.reported + 1
        /\ new.results = c.results /\ \A r \in PresubmitRuns : new.waiting[r] = IF r = c.run THEN c.waiting[r] + 1 ELSE c.waiting[r]
    BY <1>4, <2>1, <2>2, <2>3 DEF Change
  <2>6. PresubmitOk(new)
    <3>1. \A r \in PresubmitRuns : r > new.run => new.waiting[r] = 0 /\ new.results[r] = 0
      BY <1>2, <1>4, <2>3, <2>5 DEF PresubmitOk, PresubmitRuns
    <3>2. new.results[new.run] + new.waiting[new.run] = new.reported
      <4>1. c.results[c.run] + c.waiting[c.run] = c.reported /\ c.results[c.run] \in Nat /\ c.waiting[c.run] \in Nat
        BY <1>2, <1>4, <2>2, <2>3 DEF PresubmitOk
      <4> QED BY <1>4, <2>3, <2>5, <4>1
    <3>3. new.run <= MaxPresubmits /\ new.run > 0
      BY <1>2, <2>2, <2>5 DEF PresubmitOk
    <3> QED BY <2>3, <2>5, <3>1, <3>2, <3>3 DEF PresubmitOk
  <2> QED BY <1>3, <2>1, <2>2, <2>4, <2>6 DEF Change
<1>9. ASSUME NEW r \in PresubmitRuns, Window!TakeResult(cl, s, r) PROVE WindowInv'
  <2>1. PICK new : new = [c EXCEPT !.waiting[r] = @ - 1, !.results[r] = @ + 1]
    OBVIOUS
  <2>2. Window!Become(cl, s, new) /\ c.waiting[r] > 0
    BY <1>1, <1>9, <2>1 DEF Window!TakeResult
  <2>3. new \in Change
    <3>1. PICK w \in [PresubmitRuns -> Nat] : w = [c.waiting EXCEPT ![r] = @ - 1]
      <4>1. c.waiting[r] \in Nat /\ c.waiting[r] - 1 \in Nat
        BY <1>4, <2>2
      <4> QED BY <1>4, <4>1
    <3>2. PICK z \in [PresubmitRuns -> Nat] : z = [c.results EXCEPT ![r] = @ + 1]
      <4>1. c.results[r] \in Nat /\ c.results[r] + 1 \in Nat
        BY <1>4
      <4> QED BY <1>4, <4>1
    <3>3. new = [c EXCEPT !.waiting = w, !.results = z]
      BY <2>1, <3>1, <3>2 DEF Change
    <3> QED BY <3>3 DEF Change
  <2>4. /\ new.run = c.run /\ new.sgep = c.sgep /\ new.output = c.output /\ new.checks = c.checks /\ new.reported = c.reported
        /\ \A x \in PresubmitRuns : /\ new.waiting[x] = IF x = r THEN c.waiting[x] - 1 ELSE c.waiting[x]
                                    /\ new.results[x] = IF x = r THEN c.results[x] + 1 ELSE c.results[x]
    BY <1>4, <2>1 DEF Change
  <2>5. ~(r > c.run)
    BY <1>2, <2>2 DEF PresubmitOk
  <2>6. PresubmitOk(new)
    <3>1. \A x \in PresubmitRuns : x > new.run => new.waiting[x] = 0 /\ new.results[x] = 0
      BY <1>2, <2>4, <2>5 DEF PresubmitOk
    <3>2. new.run > 0 => new.results[new.run] + new.waiting[new.run] = new.reported
      <4> SUFFICES ASSUME c.run > 0 PROVE new.results[c.run] + new.waiting[c.run] = c.reported
        BY <2>4
      <4>1. c.run \in PresubmitRuns
        BY <1>0, <1>4 DEF PresubmitRuns
      <4>2. c.results[c.run] + c.waiting[c.run] = c.reported /\ c.results[c.run] \in Nat /\ c.waiting[c.run] \in Nat
        BY <1>2, <1>4, <4>1 DEF PresubmitOk
      <4> QED BY <1>4, <2>4, <4>1, <4>2
    <3> QED BY <1>2, <2>4, <3>1, <3>2 DEF PresubmitOk
  <2> QED BY <1>3, <2>1, <2>2, <2>3, <2>6 DEF Change
<1>10. CASE Window!TakeOutput(cl, s)
  <2>1. PICK new : new = [c EXCEPT !.sgep = "none", !.sgepState = "done", !.output = c.run]
    OBVIOUS
  <2>2. Window!Become(cl, s, new) /\ c.sgep = "run" /\ c.reported = Checks
    BY <1>1, <1>10, <2>1 DEF Window!TakeOutput
  <2>3. new \in Change
    BY <1>0, <1>4, <2>1 DEF Change, Progress
  <2>4. PresubmitOk(new)
    BY <1>2, <1>4, <2>1, <2>2 DEF PresubmitOk, Change
  <2> QED BY <1>3, <2>1, <2>2, <2>3, <2>4 DEF Change
<1> QED BY <1>5, <1>6, <1>7, <1>8, <1>9, <1>10 DEF PresubmitRuns

(* The lists, the session and Swarm. *)
LEMMA ListStep ==
    ASSUME WindowInv,
           \/ Window!fetchPending \/ Window!fetchSubmitted \/ Window!DashboardChanges \/ Window!fetchTickets
           \/ Window!fetchUsers \/ Window!fetchInfo \/ Window!updateTickets \/ Window!updateUsers \/ Window!updateInfo
           \/ Window!fetchActionDashboard \/ Window!updateReviewsDashboard
           \/ \E cl \in UserCls : Window!Submit(cl)
    PROVE  WindowInv'
<1>0. FetchOk /\ ObjectsOk
  BY DEF WindowInv
<1>1. UNCHANGED <<allChanges, obj>> /\ window'.done \in {window.done, window.done \cup {"tickets"}} /\ window'.shown = window.shown
  BY <1>0 DEF FetchOk, Window!fetchPending, Window!fetchSubmitted, Window!DashboardChanges, Window!List, Window!fetchTickets,
     Window!fetchUsers, Window!fetchInfo, Window!updateTickets, Window!updateUsers, Window!updateInfo,
     Window!fetchActionDashboard, Window!updateReviewsDashboard, Window!Submit
<1>2. "swarm" \in window'.done <=> "swarm" \in window.done
  BY <1>0, <1>1 DEF FetchOk
<1>3. ObjectsOk'
  <2>1. ("swarm" \in window'.done) = ("swarm" \in window.done)
    BY <1>2
  <2> QED BY <1>0, <1>1, <2>1 DEF ObjectsOk
<1>4. FetchOk'
  <2>1. ASSUME NEW g \in Window!Sources, NEW cls \in SUBSET UserCls, Window!List(g, cls) PROVE FetchOk'
    <3>1. UNCHANGED <<s1, window, allChanges>> /\ fetch.pc[g] = "run" /\ g \in Window!Goroutines
      BY <2>1 DEF Window!List, Window!Sources, Window!Goroutines
    <3>2. fetch' \in [pc : [Window!Goroutines -> Window!Pcs], list : [Window!Sources -> SUBSET UserCls]]
      <4>1. CASE fetch' = [fetch EXCEPT !.pc[g] = "send", !.list[g] = cls]
        BY <1>0, <3>1, <4>1 DEF FetchOk, Window!Pcs
      <4>2. CASE fetch' = [fetch EXCEPT !.pc[g] = "ended"]
        BY <1>0, <3>1, <4>2 DEF FetchOk, Window!Pcs
      <4> QED BY <2>1, <4>1, <4>2 DEF Window!List, Window!To
    <3>3. \A h \in Window!Goroutines : fetch'.pc[h] = fetch.pc[h] \/ (h = g /\ fetch.pc[h] = "run")
      <4>1. PICK p : fetch'.pc = [fetch.pc EXCEPT ![g] = p]
        <5>1. CASE fetch' = [fetch EXCEPT !.pc[g] = "send", !.list[g] = cls]
          BY <1>0, <5>1 DEF FetchOk
        <5>2. CASE fetch' = [fetch EXCEPT !.pc[g] = "ended"]
          BY <1>0, <5>2 DEF FetchOk
        <5> QED BY <2>1, <5>1, <5>2 DEF Window!List, Window!To
      <4>2. DOMAIN fetch.pc = Window!Goroutines
        BY <1>0 DEF FetchOk
      <4> QED BY <3>1, <4>1, <4>2
    <3> QED BY <1>0, <3>1, <3>2, <3>3 DEF FetchOk, Window!Goroutines
  <2>2. ASSUME NEW g \in {"tickets", "users", "info"}, NEW pc \in Window!Pcs, Window!To(g, pc), s1' = s1 PROVE FetchOk'
    <3>1. fetch' \in [pc : [Window!Goroutines -> Window!Pcs], list : [Window!Sources -> SUBSET UserCls]]
      BY <1>0, <2>2 DEF Window!To, FetchOk, Window!Goroutines
    <3>2. \A h \in Window!Goroutines : fetch'.pc[h] = fetch.pc[h] \/ h = g
      BY <1>0, <2>2 DEF Window!To, FetchOk, Window!Goroutines
    <3>3. window' \in [done : SUBSET {"pending", "submitted", "tickets", "swarm"}, shown : [Window!Lists -> SUBSET UserCls]]
      <4>1. CASE UNCHANGED window
        BY <1>0, <4>1 DEF FetchOk
      <4>2. CASE window' = [window EXCEPT !.done = @ \cup {"tickets"}]
        BY <1>0, <4>2 DEF FetchOk
      <4> QED BY <4>1, <4>2 DEF Window!fetchPending, Window!fetchSubmitted, Window!DashboardChanges, Window!List,
            Window!fetchTickets, Window!fetchUsers, Window!fetchInfo, Window!updateTickets, Window!updateUsers,
            Window!updateInfo, Window!fetchActionDashboard, Window!updateReviewsDashboard, Window!Submit
    <3> QED BY <1>0, <1>1, <2>2, <3>1, <3>2, <3>3 DEF FetchOk, Window!Goroutines
  <2>3. ASSUME NEW p \in Window!Pcs, NEW q \in Window!Pcs, fetch.pc["reviews"] # "none", UNCHANGED <<s1, window>>,
               fetch' = [fetch EXCEPT !.pc["reviews"] = p, !.pc["dashboard"] = q]
        PROVE  FetchOk'
    <3>1. fetch' \in [pc : [Window!Goroutines -> Window!Pcs], list : [Window!Sources -> SUBSET UserCls]]
      BY <1>0, <2>3 DEF FetchOk, Window!Goroutines
    <3>2. \A h \in Window!Goroutines : fetch'.pc[h] = fetch.pc[h] \/ h \in {"reviews", "dashboard"}
      BY <1>0, <2>3 DEF FetchOk, Window!Goroutines
    <3> QED BY <1>0, <1>1, <2>3, <3>1, <3>2 DEF FetchOk, Window!Goroutines
  <2>4. CASE Window!fetchActionDashboard
    <3>1. PICK pc \in {"send", "ended"} : fetch' = [fetch EXCEPT !.pc["reviews"] = pc]
      BY <2>4 DEF Window!fetchActionDashboard, Window!To
    <3>2. fetch.pc["reviews"] = "run" /\ UNCHANGED <<s1, window>>
      BY <2>4 DEF Window!fetchActionDashboard
    <3>3. fetch' \in [pc : [Window!Goroutines -> Window!Pcs], list : [Window!Sources -> SUBSET UserCls]]
      BY <1>0, <3>1 DEF FetchOk, Window!Goroutines, Window!Pcs
    <3>4. \A h \in Window!Goroutines : fetch'.pc[h] = fetch.pc[h] \/ h = "reviews"
      BY <1>0, <3>1 DEF FetchOk, Window!Goroutines
    <3> QED BY <1>0, <1>1, <3>2, <3>3, <3>4 DEF FetchOk, Window!Goroutines
  <2>5. CASE Window!updateReviewsDashboard
    BY <2>3, <2>5 DEF Window!updateReviewsDashboard, Window!Pcs
  <2>6. CASE Window!fetchPending \/ Window!fetchSubmitted \/ Window!DashboardChanges
    <3>1. s1 \in SUBSET UserCls
      BY <1>0 DEF FetchOk
    <3> QED BY <2>1, <2>6, <3>1 DEF Window!fetchPending, Window!fetchSubmitted, Window!DashboardChanges, Window!Sources
  <2>7. CASE Window!fetchTickets \/ Window!fetchUsers \/ Window!fetchInfo \/ Window!updateTickets \/ Window!updateUsers \/ Window!updateInfo
    BY <2>2, <2>7 DEF Window!fetchTickets, Window!fetchUsers, Window!fetchInfo, Window!updateTickets, Window!updateUsers,
       Window!updateInfo, Window!Pcs
  <2>8. CASE \E cl \in UserCls : Window!Submit(cl)
    BY <1>0, <2>8 DEF Window!Submit, FetchOk
  <2> QED BY <2>4, <2>5, <2>6, <2>7, <2>8
<1> QED BY <1>3, <1>4 DEF WindowInv

(* Lists arrive: an object that is in the map stays there. *)
LEMMA ArrivalStep ==
    ASSUME WindowInv, Window!updatePending \/ Window!updateSubmitted \/ Window!updateChangesDashboard
    PROVE  WindowInv'
<1>0. FetchOk /\ ObjectsOk
  BY DEF WindowInv
<1>1. ASSUME NEW g \in Window!Sources, fetch.pc[g] = "send", Window!To(g, "ended"), s1' = s1,
             allChanges' = Window!changeAdd(fetch.list[g], g), g = "dashboard" => "swarm" \in window.done,
             \/ g = "dashboard" /\ UNCHANGED window
             \/ g # "dashboard" /\ window' = [window EXCEPT !.done = @ \cup {g}, !.shown[g] = fetch.list[g]]
      PROVE  /\ FetchOk' /\ (("swarm" \in window'.done) = ("swarm" \in window.done))
             /\ \A cl \in UserCls : allChanges'[cl] = IF cl \in fetch.list[g] /\ allChanges[cl] = Window!Nobody THEN g ELSE allChanges[cl]
  <2>1. fetch' \in [pc : [Window!Goroutines -> Window!Pcs], list : [Window!Sources -> SUBSET UserCls]]
    BY <1>0, <1>1 DEF Window!To, FetchOk, Window!Goroutines, Window!Sources, Window!Pcs
  <2>2. \A h \in Window!Goroutines : fetch'.pc[h] = IF h = g THEN "ended" ELSE fetch.pc[h]
    BY <1>0, <1>1 DEF Window!To, FetchOk, Window!Goroutines, Window!Sources
  <2>3. /\ window' \in [done : SUBSET {"pending", "submitted", "tickets", "swarm"}, shown : [Window!Lists -> SUBSET UserCls]]
        /\ window'.done = window.done \cup ({g} \ {"dashboard"})
    <3>1. CASE UNCHANGED window /\ g = "dashboard"
      BY <1>0, <3>1 DEF FetchOk
    <3>2. CASE window' = [window EXCEPT !.done = @ \cup {g}, !.shown[g] = fetch.list[g]] /\ g # "dashboard"
      <4>1. g \in Window!Lists /\ fetch.list[g] \in SUBSET UserCls
        BY <1>0, <3>2 DEF FetchOk, Window!Lists, Window!Sources
      <4> QED BY <1>0, <3>2, <4>1 DEF FetchOk, Window!Lists
    <3> QED BY <1>1, <3>1, <3>2
  <2>4. /\ allChanges' \in [UserCls -> Window!Sources \cup {Window!Nobody}]
        /\ \A cl \in UserCls : allChanges'[cl] = IF cl \in fetch.list[g] /\ allChanges[cl] = Window!Nobody THEN g ELSE allChanges[cl]
    BY <1>0, <1>1 DEF FetchOk, Window!changeAdd
  <2>5. FetchOk'
    <3>1. "pending" \in window'.done => fetch'.pc["pending"] = "ended"
      BY <1>0, <2>2, <2>3 DEF FetchOk, Window!Goroutines, Window!Sources
    <3>2. "swarm" \in window'.done => "pending" \in window'.done
      BY <1>0, <2>3 DEF FetchOk, Window!Sources
    <3>3. fetch'.pc["reviews"] # "none" \/ fetch'.pc["dashboard"] # "none" => "swarm" \in window'.done
      BY <1>0, <1>1, <2>2, <2>3 DEF FetchOk, Window!Goroutines, Window!Sources
    <3>4. \A cl \in UserCls : allChanges'[cl] = "dashboard" => "swarm" \in window'.done
      BY <1>0, <1>1, <2>3, <2>4 DEF FetchOk
    <3> QED BY <1>0, <1>1, <2>1, <2>3, <2>4, <3>1, <3>2, <3>3, <3>4 DEF FetchOk
  <2>6. ("swarm" \in window'.done) = ("swarm" \in window.done)
    BY <2>3 DEF Window!Sources
  <2> QED BY <2>4, <2>5, <2>6
<1>3. CASE Window!updateSubmitted \/ Window!updateChangesDashboard
  <2>1. PICK g \in {"submitted", "dashboard"} :
          /\ fetch.pc[g] = "send" /\ Window!To(g, "ended") /\ s1' = s1 /\ obj' = obj
          /\ allChanges' = Window!changeAdd(fetch.list[g], g)
          /\ \/ g = "dashboard" /\ UNCHANGED window
             \/ g # "dashboard" /\ window' = [window EXCEPT !.done = @ \cup {g}, !.shown[g] = fetch.list[g]]
    BY <1>3 DEF Window!updateSubmitted, Window!updateChangesDashboard
  <2>2. g = "dashboard" => "swarm" \in window.done
    BY <1>0, <2>1 DEF FetchOk
  <2>3. /\ FetchOk' /\ (("swarm" \in window'.done) = ("swarm" \in window.done))
        /\ \A cl \in UserCls : allChanges'[cl] = IF cl \in fetch.list[g] /\ allChanges[cl] = Window!Nobody THEN g ELSE allChanges[cl]
    BY <1>1, <2>1, <2>2 DEF Window!Sources
  <2>4. ASSUME NEW cl \in UserCls, NEW s \in Window!Sources PROVE ChangeOk(obj'[cl][s], s, allChanges'[cl], "swarm" \in window'.done)
    <3>1. ChangeOk(obj[cl][s], s, allChanges[cl], "swarm" \in window.done)
      BY <1>0 DEF ObjectsOk
    <3>2. allChanges'[cl] = allChanges[cl] \/ allChanges[cl] = Window!Nobody
      BY <2>3
    <3>3. ChangeOk(obj[cl][s], s, allChanges'[cl], "swarm" \in window.done)
      BY <3>1, <3>2 DEF ChangeOk, Window!Sources, Window!Nobody
    <3> QED BY <2>1, <2>3, <3>3
  <2> QED BY <1>0, <2>1, <2>3, <2>4 DEF WindowInv, ObjectsOk
<1>4. CASE Window!updatePending
  <2> DEFINE cls == fetch.list["pending"]
  <2>1. PICK begun : begun = [Window!NewChange EXCEPT !.fileState = "processing", !.fstat = "run", !.describe = "run"]
    OBVIOUS
  <2>2. /\ fetch.pc["pending"] = "send" /\ Window!To("pending", "ended") /\ s1' = s1
        /\ allChanges' = Window!changeAdd(cls, "pending")
        /\ window' = [window EXCEPT !.done = @ \cup {"pending"}, !.shown["pending"] = cls]
        /\ obj' = [cl \in UserCls |-> IF cl \notin cls THEN obj[cl] ELSE [obj[cl] EXCEPT !["pending"] = begun]]
    BY <1>4, <2>1 DEF Window!updatePending
  <2>3. /\ FetchOk' /\ (("swarm" \in window'.done) = ("swarm" \in window.done))
        /\ \A cl \in UserCls : allChanges'[cl] = IF cl \in cls /\ allChanges[cl] = Window!Nobody THEN "pending" ELSE allChanges[cl]
    BY <1>1, <2>2 DEF Window!Sources
  <2>4. "swarm" \notin window.done
    BY <1>0, <2>2 DEF FetchOk
  <2>5. begun \in Change
    BY <2>1, NewChangeOk DEF Change, Progress, Window!Pcs
  <2>6. PresubmitOk(begun) /\ CommentsOk(begun) /\ NoReviewYet(begun)
    <3>1. /\ begun.run = Window!NewChange.run /\ begun.waiting = Window!NewChange.waiting /\ begun.results = Window!NewChange.results
          /\ begun.reported = Window!NewChange.reported /\ begun.checks = Window!NewChange.checks
          /\ begun.sgep = Window!NewChange.sgep /\ begun.output = Window!NewChange.output
          /\ begun.reviews = Window!NewChange.reviews /\ begun.reviewsState = Window!NewChange.reviewsState
          /\ begun.comments = Window!NewChange.comments /\ begun.commentsState = Window!NewChange.commentsState
          /\ begun.extracted = FALSE
      BY <2>1 DEF Window!NewChange
    <3>2. PresubmitOk(begun)
      BY <3>1, NewChangeOk DEF PresubmitOk
    <3>3. NoReviewYet(begun)
      BY <3>1, NewChangeOk DEF NoReviewYet
    <3>4. CommentsOk(begun)
      BY <3>1, <3>3 DEF CommentsOk, NoReviewYet
    <3> QED BY <3>2, <3>3, <3>4
  <2>7. ASSUME NEW cl \in UserCls, NEW s \in Window!Sources
        PROVE  obj'[cl][s] = IF cl \in cls /\ s = "pending" THEN begun ELSE obj[cl][s]
    BY <1>0, <2>2 DEF ObjectsOk
  <2>8. obj' \in [UserCls -> [Window!Sources -> Change]]
    BY <1>0, <2>2, <2>5 DEF ObjectsOk
  <2>9. ASSUME NEW cl \in UserCls, NEW s \in Window!Sources PROVE ChangeOk(obj'[cl][s], s, allChanges'[cl], "swarm" \in window'.done)
    <3>1. CASE cl \in cls /\ s = "pending"
      <4>1. allChanges'[cl] \in {"pending", "submitted"}
        BY <1>0, <2>3, <2>4, <3>1 DEF FetchOk, Window!Sources, Window!Nobody
      <4> QED BY <2>6, <2>7, <3>1, <4>1 DEF ChangeOk
    <3>2. CASE ~(cl \in cls /\ s = "pending")
      <4>1. ChangeOk(obj[cl][s], s, allChanges[cl], "swarm" \in window.done)
        BY <1>0 DEF ObjectsOk
      <4>2. allChanges'[cl] = allChanges[cl] \/ allChanges[cl] = Window!Nobody
        BY <2>3
      <4>3. ChangeOk(obj[cl][s], s, allChanges'[cl], "swarm" \in window.done)
        BY <4>1, <4>2 DEF ChangeOk, Window!Sources, Window!Nobody
      <4> QED BY <2>3, <2>7, <3>2, <4>3
    <3> QED BY <3>1, <3>2
  <2> QED BY <2>3, <2>8, <2>9 DEF WindowInv, ObjectsOk
<1> QED BY <1>3, <1>4

(* Swarm is asked about the changes that are shown, once. *)
LEMMA SwarmStep ==
    ASSUME WindowInv, NEW ticket \in BOOLEAN, Window!swarmInit(ticket)
    PROVE  WindowInv'
<1>0. FetchOk /\ ObjectsOk
  BY DEF WindowInv
<1>1. /\ {"pending", "submitted", "tickets"} \subseteq window.done /\ "swarm" \notin window.done
      /\ window' = [window EXCEPT !.done = @ \cup {"swarm"}] /\ UNCHANGED <<s1, allChanges>>
  BY DEF Window!swarmInit
<1>2. /\ window' \in [done : SUBSET {"pending", "submitted", "tickets", "swarm"}, shown : [Window!Lists -> SUBSET UserCls]]
      /\ window'.done = window.done \cup {"swarm"}
  BY <1>0, <1>1 DEF FetchOk
<1>3. FetchOk'
  <2>1. CASE ~ticket
    BY <1>0, <1>1, <1>2, <2>1 DEF FetchOk, Window!swarmInit
  <2>2. CASE ticket
    <3>1. fetch' = [fetch EXCEPT !.pc["reviews"] = "run"]
      BY <2>2 DEF Window!swarmInit, Window!To
    <3>2. fetch' \in [pc : [Window!Goroutines -> Window!Pcs], list : [Window!Sources -> SUBSET UserCls]]
      BY <1>0, <3>1 DEF FetchOk, Window!Goroutines, Window!Pcs
    <3>3. fetch'.pc["pending"] = fetch.pc["pending"]
      BY <1>0, <3>1 DEF FetchOk, Window!Goroutines
    <3> QED BY <1>0, <1>1, <1>2, <3>2, <3>3 DEF FetchOk
  <2> QED BY <2>1, <2>2
<1>4. ASSUME NEW c \in Change, NEW s \in Window!Sources, NEW p, ChangeOk(c, s, p, FALSE) PROVE ChangeOk(c, s, p, TRUE)
  BY <1>4 DEF ChangeOk
<1>5. CASE ~ticket
  <2>1. obj' = obj
    BY <1>5 DEF Window!swarmInit
  <2>2. ASSUME NEW cl \in UserCls, NEW s \in Window!Sources PROVE ChangeOk(obj'[cl][s], s, allChanges'[cl], "swarm" \in window'.done)
    <3>1. ChangeOk(obj[cl][s], s, allChanges[cl], FALSE) /\ obj[cl][s] \in Change
      <4>1. ("swarm" \in window.done) = FALSE
        BY <1>1
      <4> QED BY <1>0, <4>1 DEF ObjectsOk
    <3>2. ("swarm" \in window'.done) = TRUE
      BY <1>2
    <3> QED BY <1>1, <1>4, <2>1, <3>1, <3>2
  <2> QED BY <1>0, <1>3, <2>1, <2>2 DEF WindowInv, ObjectsOk
<1>6. CASE ticket
  <2> DEFINE asks(cl, s) == {l \in Window!Lists : s = allChanges[cl] /\ cl \in window.shown[l]}
             asked(cl, s) == IF asks(cl, s) = {} THEN obj[cl][s]
                             ELSE [obj[cl][s] EXCEPT !.reviewsState = "processing",
                                                     !.reviews = [l \in Window!Lists |-> IF l \in asks(cl, s) THEN "run" ELSE @[l]]]
  <2>1. obj' = [cl \in UserCls |-> [s \in Window!Sources |-> asked(cl, s)]]
    BY <1>6 DEF Window!swarmInit
  <2>2. ASSUME NEW cl \in UserCls, NEW s \in Window!Sources
        PROVE  asked(cl, s) \in Change /\ ChangeOk(asked(cl, s), s, allChanges[cl], TRUE)
    <3>1. PICK c \in Change : c = obj[cl][s]
      BY <1>0 DEF ObjectsOk
    <3>2. ChangeOk(c, s, allChanges[cl], FALSE)
      <4>1. ("swarm" \in window.done) = FALSE
        BY <1>1
      <4> QED BY <1>0, <3>1, <4>1 DEF ObjectsOk
    <3>3. CASE asks(cl, s) = {}
      BY <1>4, <3>1, <3>2, <3>3
    <3>4. CASE asks(cl, s) # {}
      <4>1. PICK a : a = asks(cl, s)
        OBVIOUS
      <4>2. PICK new : new = [c EXCEPT !.reviewsState = "processing", !.reviews = [l \in Window!Lists |-> IF l \in a THEN "run" ELSE @[l]]]
        OBVIOUS
      <4>3. new = asked(cl, s)
        BY <3>1, <3>4, <4>1, <4>2
      <4>4. new \in Change
        BY <4>2 DEF Change, Progress, Window!Pcs
      <4>5. /\ new.run = c.run /\ new.sgep = c.sgep /\ new.output = c.output /\ new.checks = c.checks /\ new.reported = c.reported
            /\ new.waiting = c.waiting /\ new.results = c.results /\ new.comments = c.comments /\ new.commentsState = c.commentsState
            /\ new.extracted = c.extracted /\ new.fileState = c.fileState /\ new.fstat = c.fstat /\ new.describe = c.describe
        BY <4>2 DEF Change
      <4>6. PresubmitOk(new) /\ (Asking(new) <=> Asking(c))
        BY <3>2, <4>5 DEF ChangeOk, PresubmitOk, Asking
      <4>7. CommentsOk(new)
        BY <3>2, <4>5 DEF ChangeOk, CommentsOk, NoReviewYet
      <4> QED BY <3>2, <4>3, <4>4, <4>6, <4>7 DEF ChangeOk
    <3> QED BY <3>3, <3>4
  <2> HIDE DEF asked
  <2>3. obj' \in [UserCls -> [Window!Sources -> Change]]
    BY <2>1, <2>2
  <2>4. ASSUME NEW cl \in UserCls, NEW s \in Window!Sources PROVE ChangeOk(obj'[cl][s], s, allChanges'[cl], "swarm" \in window'.done)
    <3>1. obj'[cl][s] = asked(cl, s) /\ ("swarm" \in window'.done) = TRUE
      BY <1>2, <2>1
    <3> QED BY <1>1, <2>2, <3>1
  <2> QED BY <1>3, <2>3, <2>4 DEF WindowInv, ObjectsOk
<1> QED BY <1>5, <1>6

(* Every step of gigantick. *)
LEMMA WindowStepOk ==
    ASSUME WindowInv, [Window!Next]_windowVars
    PROVE  WindowInv'
<1>1. CASE UNCHANGED <<s1, s2, s3, s4, s5>>
  BY <1>1 DEF WindowInv, FetchOk, ObjectsOk
<1>2. ASSUME NEW f \in ShownFiles,
             \/ Window!getFileData(f) \/ Window!fetchFileData(f) \/ Window!updateFileData(f)
             \/ Window!getFileDiffs(f) \/ Window!fetchFileDiffs(f) \/ Window!updateFileDiffs(f)
      PROVE  WindowInv'
  BY <1>1, <1>2 DEF Window!getFileData, Window!fetchFileData, Window!updateFileData, Window!getFileDiffs,
     Window!fetchFileDiffs, Window!updateFileDiffs, Window!Data
<1>3. ASSUME NEW cl \in UserCls, NEW s \in Window!Sources,
             \/ Window!getFiles(cl, s) \/ Window!fetchFstats(cl, s) \/ Window!updateChangeFstats(cl, s)
             \/ Window!fetchDescription(cl, s) \/ Window!updateChangeDescription(cl, s) \/ Window!build(cl, s)
             \/ Window!buildSgep(cl, s) \/ Window!SgepFails(cl, s) \/ Window!TakeChecks(cl, s)
             \/ Window!OnCheckResult(cl, s) \/ Window!TakeOutput(cl, s)
             \/ \E r \in 1 .. MaxPresubmits : Window!TakeResult(cl, s, r)
             \/ \E l \in Window!Lists :
                  \/ Window!fetchReviewForChangelist(cl, s, l) \/ Window!updateChangeReviews(cl, s, l)
                  \/ Window!fetchChangeComments(cl, s, l) \/ Window!updateChangeComments(cl, s, l)
      PROVE  WindowInv'
  BY <1>3, AnswerStep, SgepStep
<1> QED BY <1>1, <1>2, <1>3, ListStep, ArrivalStep, SwarmStep DEF Window!Next, windowVars

(* The invariant says what the window shows. *)
LEMMA WindowTruth == WindowInv => Window!WindowHonest
<1> SUFFICES ASSUME WindowInv, NEW cl \in UserCls, NEW s \in Window!Sources
             PROVE  LET c == obj[cl][s] IN
                    /\ c.fstat = "send" \/ c.describe = "send" => Window!Polled(cl, s) \/ allChanges[cl] = "submitted"
                    /\ c.run > 0 /\ c.results[c.run] > 0 => c.checks = c.run
                    /\ c.run > 0 => c.results[c.run] + c.waiting[c.run] = c.reported
                    /\ c.output = c.run /\ c.run > 0 => c.reported = Checks /\ c.checks = c.run
                    /\ c.extracted => c.fileState = "done" /\ c.reviewsState = "done"
  BY DEF Window!WindowHonest
<1>1. PICK c \in Change : c = obj[cl][s]
  BY DEF WindowInv, ObjectsOk
<1>2. PresubmitOk(c) /\ CommentsOk(c) /\ (Asking(c) => allChanges[cl] \in {s, "submitted"})
  BY <1>1 DEF WindowInv, ObjectsOk, ChangeOk
<1>3. MaxPresubmits \in Nat
  BY WindowAssumption DEF Window!WindowConstants
<1>4. c.fstat = "send" \/ c.describe = "send" => Window!Polled(cl, s) \/ allChanges[cl] = "submitted"
  BY <1>2 DEF Asking, Window!Polled
<1>5. c.run > 0 /\ c.results[c.run] > 0 => c.checks = c.run
  <2>1. SUFFICES ASSUME c.run > 0, c.results[c.run] > 0 PROVE c.reported > 0
    BY <1>2, <2>1 DEF PresubmitOk
  <2>2. c.run \in PresubmitRuns /\ c.reported \in Nat /\ c.results[c.run] \in Nat /\ c.waiting[c.run] \in Nat
    BY <1>2, <1>3, <2>1 DEF Change, PresubmitRuns, PresubmitOk
  <2> QED BY <1>2, <2>1, <2>2 DEF PresubmitOk
<1> QED BY <1>1, <1>2, <1>4, <1>5 DEF PresubmitOk, CommentsOk

-----------------------------------------------------------------------------
(***************************************************************************)
(* perculator.  A list of changes that is whole has exactly the changes up *)
(* to its length, so the next ones asked for are those after it; details   *)
(* that are listed are of changes no job is for.  A session goes through   *)
(* stages, of which each is begun by the one before.                       *)
(***************************************************************************)
author == s1
changesFile == s2
detailsFile == s3
session == s4
ctx == s5
usersChan == s6
changesChan == s7
detailsChan == s8
fetching == s9
jobs == s10
saver == s11
statisticsVars == <<s1, s2, s3, s4, s5, s6, s7, s8, s9, s10, s11>>
USE DEF author, changesFile, detailsFile, session, ctx, usersChan, changesChan, detailsChan, fetching, jobs, saver

\* A sequence of changes among the first n, none twice; and one that has all up to its length.
Listed(cls, n) ==
    /\ cls \in Seq(Nat)
    /\ \A i \in 1 .. Len(cls) : cls[i] >= 1 /\ cls[i] <= n
    /\ \A i, j \in 1 .. Len(cls) : cls[i] = cls[j] => i = j
Whole(cls, n) ==
    /\ Listed(cls, n) /\ Len(cls) <= n
    /\ \A i \in 1 .. Len(cls) : cls[i] <= Len(cls)
    /\ \A k \in 1 .. Len(cls) : \E i \in 1 .. Len(cls) : cls[i] = k

(* An empty list is whole. *)
LEMMA NothingListed == ASSUME NEW n \in Nat PROVE Whole(<<>>, n) /\ Listed(<<>>, n)
  BY DEF Whole, Listed

(* A list stays what it is when more changes are submitted. *)
LEMMA ListedStays ==
    ASSUME NEW n \in Nat, NEW k \in Nat, n <= k, NEW cls
    PROVE  (Listed(cls, n) => Listed(cls, k)) /\ (Whole(cls, n) => Whole(cls, k))
<1>1. ASSUME Listed(cls, n) PROVE Listed(cls, k)
  <2>1. cls \in Seq(Nat) /\ Len(cls) \in Nat
    BY <1>1 DEF Listed
  <2>2. \A i \in 1 .. Len(cls) : cls[i] \in Nat
    BY <2>1
  <2> QED BY <1>1, <2>1, <2>2 DEF Listed
<1>2. ASSUME Whole(cls, n) PROVE Whole(cls, k)
  <2>1. Len(cls) \in Nat
    BY <1>2 DEF Whole, Listed
  <2> QED BY <1>1, <1>2, <2>1 DEF Whole
<1> QED BY <1>1, <1>2

(* The range of a list, in the terms of the model. *)
LEMMA ListedRange ==
    ASSUME NEW n \in Nat, NEW cls, Listed(cls, n)
    PROVE  /\ Statistics!Range(cls) = {cls[i] : i \in 1 .. Len(cls)} /\ Statistics!Range(cls) \subseteq 1 .. n
           /\ Statistics!IsInjective(cls)
<1>1. cls \in Seq(Nat) /\ DOMAIN cls = 1 .. Len(cls)
  BY DEF Listed
<1>2. Statistics!Range(cls) = {cls[i] : i \in 1 .. Len(cls)}
  BY <1>1 DEF Statistics!Range
<1>3. \A i \in 1 .. Len(cls) : cls[i] \in 1 .. n
  BY <1>1 DEF Listed
<1>4. Statistics!IsInjective(cls)
  BY <1>1 DEF Statistics!IsInjective, Listed
<1> QED BY <1>2, <1>3, <1>4

(* firstCl is the greatest change of a list; of one that is whole, its length. *)
LEMMA FirstCl ==
    ASSUME NEW n \in Nat, NEW cls, Listed(cls, n)
    PROVE  /\ Statistics!firstCl(cls) \in Nat
           /\ \A i \in 1 .. Len(cls) : cls[i] <= Statistics!firstCl(cls)
           /\ Whole(cls, n) => Statistics!firstCl(cls) = Len(cls)
<1> DEFINE T == {0} \cup Statistics!Range(cls)
           m == Statistics!firstCl(cls)
<1>1. T \in SUBSET (0 .. n) /\ T # {} /\ T \subseteq Nat
  BY ListedRange
<1>2. \E x \in T : \A y \in T : x >= y
  BY <1>1, GreatestElement
<1>3. m = CHOOSE x \in T : \A y \in T : x >= y
  BY DEF Statistics!firstCl, Statistics!Max
<1>4. m \in T /\ \A y \in T : m >= y
  BY <1>2, <1>3
<1>5. m \in Nat
  BY <1>1, <1>4
<1>6. \A i \in 1 .. Len(cls) : cls[i] \in T /\ cls[i] \in Nat
  <2>1. \A i \in 1 .. Len(cls) : cls[i] \in Statistics!Range(cls)
    BY ListedRange
  <2> QED BY <1>1, <2>1
<1>7. \A i \in 1 .. Len(cls) : cls[i] <= m
  BY <1>4, <1>5, <1>6
<1>8. ASSUME Whole(cls, n) PROVE m = Len(cls)
  <2>1. Len(cls) \in Nat
    BY DEF Listed
  <2>2. m <= Len(cls)
    <3>1. CASE m = 0
      BY <2>1, <3>1
    <3>2. CASE m # 0
      <4>1. PICK i \in 1 .. Len(cls) : cls[i] = m
        BY <1>4, <3>2, ListedRange
      <4> QED BY <1>8, <4>1 DEF Whole
    <3> QED BY <3>1, <3>2
  <2>3. m >= Len(cls)
    <3>1. CASE Len(cls) = 0
      BY <1>5, <3>1
    <3>2. CASE Len(cls) # 0
      <4>1. Len(cls) \in 1 .. Len(cls)
        BY <2>1, <3>2
      <4>2. PICK i \in 1 .. Len(cls) : cls[i] = Len(cls)
        BY <1>8, <4>1 DEF Whole
      <4> QED BY <1>7, <4>2, <1>5, <2>1
    <3> QED BY <3>1, <3>2
  <2> QED BY <1>5, <2>1, <2>2, <2>3
<1> QED BY <1>5, <1>7, <1>8

(* The changes after those of a whole list make it a whole list of all changes. *)
LEMMA NewerWhole ==
    ASSUME author \in Seq(Submitters), NEW cls, Whole(cls, Len(author))
    PROVE  Whole(cls \o Statistics!Newer(cls), Len(author))
<1> DEFINE n == Len(author)
           k == Len(cls)
           news == Statistics!Newer(cls)
           all == cls \o news
<1>1. n \in Nat /\ k \in Nat /\ k <= n /\ cls \in Seq(Nat)
  BY DEF Whole, Listed
<1>2. news = [i \in 1 .. n - k |-> n + 1 - i]
  BY <1>1, FirstCl DEF Statistics!Newer, Whole
<1>3. news \in Seq(Nat) /\ Len(news) = n - k
  <2>1. \A i \in 1 .. n - k : n + 1 - i \in Nat
    BY <1>1
  <2>2. n - k \in Nat
    BY <1>1
  <2> QED BY <1>2, <2>1, <2>2
<1>4. all \in Seq(Nat) /\ Len(all) = n
  BY <1>1, <1>3
<1>5. ASSUME NEW i \in 1 .. n PROVE all[i] = IF i <= k THEN cls[i] ELSE n + 1 - (i - k)
  <2>1. i <= k => all[i] = cls[i]
    BY <1>1, <1>3
  <2>2. i > k => all[i] = news[i - k] /\ i - k \in 1 .. n - k
    BY <1>1, <1>3
  <2> QED BY <1>1, <1>2, <2>1, <2>2
<1> HIDE DEF all, news
<1>6. ASSUME NEW i \in 1 .. k PROVE cls[i] \in 1 .. k
  <2>1. cls[i] \in Nat
    BY <1>1
  <2>2. cls[i] >= 1 /\ cls[i] <= k
    BY DEF Whole, Listed
  <2> QED BY <1>1, <2>1, <2>2
<1>7. ASSUME NEW i \in 1 .. n PROVE all[i] >= 1 /\ all[i] <= n /\ (all[i] <= k <=> i <= k)
  <2>1. CASE i <= k
    BY <1>1, <1>5, <1>6, <2>1
  <2>2. CASE i > k
    BY <1>1, <1>5, <2>2
  <2> QED BY <1>1, <2>1, <2>2
<1>8. ASSUME NEW i \in 1 .. n, NEW j \in 1 .. n, all[i] = all[j] PROVE i = j
  <2>1. CASE i <= k
    <3>1. j <= k
      BY <1>7, <1>8, <2>1
    <3>2. i \in 1 .. k /\ j \in 1 .. k /\ cls[i] = cls[j]
      BY <1>1, <1>5, <1>8, <2>1, <3>1
    <3> QED BY <3>2 DEF Whole, Listed
  <2>2. CASE i > k
    <3>1. j > k
      BY <1>1, <1>7, <1>8, <2>2
    <3> QED BY <1>1, <1>5, <1>8, <2>2, <3>1
  <2> QED BY <1>1, <2>1, <2>2
<1>9. ASSUME NEW x \in 1 .. n PROVE \E i \in 1 .. n : all[i] = x
  <2>1. CASE x <= k
    <3>1. PICK i \in 1 .. k : cls[i] = x
      BY <1>1, <2>1 DEF Whole
    <3> QED BY <1>1, <1>5, <3>1
  <2>2. CASE x > k
    <3>1. n + 1 - (x - k) \in 1 .. n /\ n + 1 - (x - k) > k
      BY <1>1, <2>2
    <3>2. all[n + 1 - (x - k)] = n + 1 - ((n + 1 - (x - k)) - k)
      BY <1>1, <1>5, <3>1
    <3> QED BY <1>1, <3>1, <3>2
  <2> QED BY <1>1, <2>1, <2>2
<1>10. Listed(all, n)
  BY <1>4, <1>7, <1>8 DEF Listed
<1>11. Whole(all, n)
  <2>1. \A i \in 1 .. Len(all) : all[i] <= Len(all)
    BY <1>4, <1>7
  <2>2. \A x \in 1 .. Len(all) : \E i \in 1 .. Len(all) : all[i] = x
    BY <1>4, <1>9
  <2>3. Len(all) <= n
    BY <1>1, <1>4
  <2> QED BY <1>10, <2>1, <2>2, <2>3 DEF Whole
<1> QED BY <1>11 DEF all, news

Fields == {"users", "changes", "details", "clCount", "counted"}
\* What is on detailsChan when no saved details are: jobs that are done, each one's answer once.
JobsOk(chan, todo, details, n) ==
    /\ \A m \in chan : \E k \in 1 .. n : m = <<"job", <<k>>>> /\ k \notin todo /\ \A i \in 1 .. Len(details) : details[i] # k
    /\ todo \subseteq 1 .. n /\ \A i \in 1 .. Len(details) : details[i] \notin todo
CountedOk(counted, details) ==
    /\ counted \in [1 .. MaxChange -> Nat]
    /\ \A k \in 1 .. MaxChange : counted[k] <= 1 /\ (counted[k] = 1 => \E i \in 1 .. Len(details) : details[i] = k)
Idling == jobs = {} /\ ctx.details = <<>> /\ saver = Statistics!saver0 /\ ctx.counted = [k \in 1 .. MaxChange |-> 0]
StageOk(stage) ==
    /\ "users" \in fetching <=> stage = 1
    /\ usersChan = Statistics!Message <=> stage = 2
    /\ "changes" \in fetching <=> stage = 3
    /\ changesChan # <<>> <=> stage = 4
    /\ "details" \in fetching <=> stage = 5
    /\ stage <= 6 => Idling
    /\ stage <= 5 => detailsChan = {}
    /\ stage = 6 => \E cls : detailsChan = {<<"first", cls>>} /\ Listed(cls, Len(author))
    /\ stage = 7 => JobsOk(detailsChan, jobs, ctx.details, Len(author))

FilesOk ==
    /\ author \in Seq(Submitters)
    /\ DOMAIN ctx = Fields
    /\ saver = [signals |-> saver.signals, writing |-> saver.writing]
    /\ Whole(changesFile.cls, Len(author)) /\ Listed(detailsFile.cls, Len(author))
    /\ Whole(ctx.changes, Len(author)) /\ Listed(ctx.details, Len(author)) /\ CountedOk(ctx.counted, ctx.details)
    /\ saver.writing = Statistics!NotWriting \/ Listed(saver.writing, Len(author))
    /\ changesChan # <<>> => \E cls : changesChan = <<Statistics!Message, cls>> /\ Whole(cls, Len(author))
StatisticsInv == FilesOk /\ \E stage \in 1 .. 7 : StageOk(stage)

(* The first session begins with empty files. *)
LEMMA StatisticsInit == Statistics!Init => StatisticsInv
<1> SUFFICES ASSUME Statistics!Init PROVE StatisticsInv
  OBVIOUS
<1>1. author = <<>> /\ Len(author) = 0 /\ author \in Seq(Submitters)
  BY DEF Statistics!Init
<1>2. Whole(<<>>, Len(author)) /\ Listed(<<>>, Len(author))
  BY <1>1, NothingListed
<1>3. ctx = [users |-> {}, changes |-> <<>>, details |-> <<>>, clCount |-> 0, counted |-> [k \in 1 .. MaxChange |-> 0]]
  BY DEF Statistics!Init, Statistics!ctx0
<1>4. CountedOk(ctx.counted, ctx.details)
  BY <1>3 DEF CountedOk
<1>5. /\ changesFile.cls = <<>> /\ detailsFile.cls = <<>> /\ DOMAIN ctx = Fields /\ ctx.changes = <<>> /\ ctx.details = <<>>
      /\ saver = [signals |-> FALSE, writing |-> Statistics!NotWriting] /\ changesChan = <<>>
  BY <1>3 DEF Statistics!Init, Statistics!File, Fields, Statistics!saver0
<1>6. FilesOk
  BY <1>1, <1>2, <1>4, <1>5 DEF FilesOk
<1>7. StageOk(1)
  BY <1>3 DEF StageOk, Idling, Statistics!Init, Statistics!NoMessage, Statistics!Message
<1> QED BY <1>6, <1>7 DEF StatisticsInv

(* A change is submitted. *)
LEMMA SubmitStep ==
    ASSUME StatisticsInv, NEW u \in Submitters, Statistics!Submit(u)
    PROVE  StatisticsInv'
<1>0. FilesOk
  BY DEF StatisticsInv
<1>1. PICK stage \in 1 .. 7 : StageOk(stage)
  BY DEF StatisticsInv
<1> DEFINE n == Len(author)
           k == Len(author')
<1>2. /\ author' = Append(author, u)
      /\ UNCHANGED <<changesFile, detailsFile, session, ctx, usersChan, changesChan, detailsChan, fetching, jobs, saver>>
  BY DEF Statistics!Submit
<1>3. author' \in Seq(Submitters) /\ n \in Nat /\ k = n + 1
  BY <1>0, <1>2 DEF FilesOk
<1>4. \A cls : (Listed(cls, n) => Listed(cls, k)) /\ (Whole(cls, n) => Whole(cls, k))
  BY <1>3, ListedStays
<1>5. FilesOk'
  BY <1>0, <1>2, <1>3, <1>4 DEF FilesOk
<1>6. JobsOk(detailsChan, jobs, ctx.details, n) => JobsOk(detailsChan, jobs, ctx.details, k)
  <2>1. 1 .. n \subseteq 1 .. k
    BY <1>3
  <2> QED BY <2>1 DEF JobsOk
<1>7. StageOk(stage)'
  BY <1>1, <1>2, <1>4, <1>6 DEF StageOk, Idling
<1> QED BY <1>5, <1>7 DEF StatisticsInv

(* The lists are asked for, shown and saved. *)
LEMMA ListsStep ==
    ASSUME StatisticsInv,
           \/ Statistics!fetchUsers \/ Statistics!fetchChanges \/ Statistics!saveChanges \/ Statistics!fetchDetails
           \/ Statistics!updateUsers \/ Statistics!updateChanges
    PROVE  StatisticsInv'
<1>0. FilesOk /\ author' = author
  BY DEF StatisticsInv, Statistics!fetchUsers, Statistics!fetchChanges, Statistics!saveChanges, Statistics!fetchDetails,
     Statistics!updateUsers, Statistics!updateChanges
<1>1. PICK stage \in 1 .. 7 : StageOk(stage)
  BY DEF StatisticsInv
<1>2. ASSUME UNCHANGED <<changesFile, detailsFile, ctx, changesChan, saver>> PROVE FilesOk'
  BY <1>0, <1>2 DEF FilesOk
<1>3. CASE Statistics!fetchUsers
  <2>1. stage = 1 /\ Idling /\ detailsChan = {} /\ changesChan = <<>> /\ "changes" \notin fetching /\ "details" \notin fetching
    BY <1>1, <1>3 DEF Statistics!fetchUsers, StageOk
  <2>2. /\ usersChan' \in {Statistics!NoMessage, Statistics!Message} /\ fetching' = fetching \ {"users"}
        /\ UNCHANGED <<changesFile, detailsFile, ctx, changesChan, detailsChan, jobs, saver>>
    BY <1>3 DEF Statistics!fetchUsers
  <2>3. Idling' /\ JobsOk(detailsChan', jobs', ctx'.details, Len(author'))
    BY <1>0, <2>1, <2>2 DEF Idling, JobsOk
  <2>4. CASE usersChan' = Statistics!Message
    <3>1. StageOk(2)'
      BY <2>1, <2>2, <2>3, <2>4 DEF StageOk
    <3> QED BY <1>2, <2>2, <3>1 DEF StatisticsInv
  <2>5. CASE usersChan' = Statistics!NoMessage
    <3>1. StageOk(7)'
      BY <2>1, <2>2, <2>3, <2>5 DEF StageOk, Statistics!NoMessage, Statistics!Message
    <3> QED BY <1>2, <2>2, <3>1 DEF StatisticsInv
  <2> QED BY <2>2, <2>4, <2>5
<1>4. CASE Statistics!fetchChanges
  <2>1. stage = 3 /\ Idling /\ detailsChan = {} /\ usersChan # Statistics!Message /\ "users" \notin fetching /\ "details" \notin fetching
    BY <1>1, <1>4 DEF Statistics!fetchChanges, StageOk
  <2>2. /\ fetching' = fetching \ {"changes"} /\ UNCHANGED <<changesFile, detailsFile, ctx, usersChan, detailsChan, jobs, saver>>
    BY <1>4 DEF Statistics!fetchChanges
  <2>3. PICK first : first = changesFile.cls
    OBVIOUS
  <2>4. PICK cls : changesChan' = <<Statistics!Message, cls>> /\ cls \in {first, first \o Statistics!Newer(first)}
    BY <1>4, <2>3 DEF Statistics!fetchChanges, Statistics!JsonLoad
  <2>5. Whole(cls, Len(author))
    BY <1>0, <2>3, <2>4, NewerWhole DEF FilesOk
  <2>6. FilesOk'
    BY <1>0, <2>2, <2>4, <2>5 DEF FilesOk
  <2>7. Idling'
    BY <2>1, <2>2 DEF Idling
  <2>8. StageOk(4)'
    BY <2>1, <2>2, <2>4, <2>7 DEF StageOk
  <2> QED BY <2>6, <2>8 DEF StatisticsInv
<1>5. CASE Statistics!saveChanges
  <2>1. /\ fetching' = fetching \ {"save"} /\ changesFile' = IF ctx.changes = <<>> THEN changesFile ELSE Statistics!File(ctx.changes)
        /\ UNCHANGED <<detailsFile, ctx, usersChan, changesChan, detailsChan, jobs, saver>>
    BY <1>5 DEF Statistics!saveChanges
  <2>2. Whole(changesFile'.cls, Len(author))
    BY <1>0, <2>1 DEF FilesOk, Statistics!File
  <2>3. FilesOk'
    BY <1>0, <2>1, <2>2 DEF FilesOk
  <2>4. StageOk(stage)'
    BY <1>0, <1>1, <2>1 DEF StageOk, Idling
  <2> QED BY <2>3, <2>4 DEF StatisticsInv
<1>6. CASE Statistics!fetchDetails
  <2>1. stage = 5 /\ Idling /\ usersChan # Statistics!Message /\ "users" \notin fetching /\ "changes" \notin fetching /\ changesChan = <<>>
    BY <1>1, <1>6 DEF Statistics!fetchDetails, StageOk
  <2>2. /\ fetching' = fetching \ {"details"} /\ detailsChan' = {<<"first", detailsFile.cls>>}
        /\ UNCHANGED <<changesFile, detailsFile, ctx, usersChan, changesChan, jobs, saver>>
    BY <1>6 DEF Statistics!fetchDetails, Statistics!JsonLoad
  <2>3. Idling' /\ Listed(detailsFile.cls, Len(author'))
    BY <1>0, <2>1, <2>2 DEF Idling, FilesOk
  <2>4. StageOk(6)'
    BY <2>1, <2>2, <2>3 DEF StageOk
  <2> QED BY <1>2, <2>2, <2>4 DEF StatisticsInv
<1>7. CASE Statistics!updateUsers
  <2>1. stage = 2 /\ Idling /\ detailsChan = {} /\ "users" \notin fetching /\ "details" \notin fetching /\ changesChan = <<>>
    BY <1>1, <1>7 DEF Statistics!updateUsers, StageOk
  <2>2. /\ usersChan' = Statistics!NoMessage /\ fetching' = fetching \cup {"changes"}
        /\ UNCHANGED <<changesFile, detailsFile, changesChan, detailsChan, jobs, saver>>
    BY <1>7 DEF Statistics!updateUsers
  <2>3. DOMAIN ctx' = Fields /\ ctx'.changes = ctx.changes /\ ctx'.details = ctx.details /\ ctx'.counted = ctx.counted
    BY <1>0, <1>7 DEF Statistics!updateUsers, FilesOk, Fields
  <2>4. FilesOk'
    BY <1>0, <2>2, <2>3 DEF FilesOk
  <2>5. Idling'
    BY <2>1, <2>2, <2>3 DEF Idling
  <2>6. StageOk(3)'
    BY <2>1, <2>2, <2>5 DEF StageOk, Statistics!NoMessage, Statistics!Message
  <2> QED BY <2>4, <2>6 DEF StatisticsInv
<1>8. CASE Statistics!updateChanges
  <2>1. stage = 4 /\ Idling /\ detailsChan = {} /\ "users" \notin fetching /\ "changes" \notin fetching /\ usersChan # Statistics!Message
    BY <1>1, <1>8 DEF Statistics!updateChanges, StageOk
  <2>2. /\ changesChan' = <<>> /\ fetching' = fetching \cup {"save", "details"}
        /\ UNCHANGED <<changesFile, detailsFile, usersChan, detailsChan, jobs, saver>>
    BY <1>8 DEF Statistics!updateChanges
  <2>3. PICK cls : changesChan = <<Statistics!Message, cls>> /\ Whole(cls, Len(author))
    BY <1>0, <1>8 DEF Statistics!updateChanges, FilesOk
  <2>4. DOMAIN ctx' = Fields /\ ctx'.changes = cls /\ ctx'.details = ctx.details /\ ctx'.counted = ctx.counted
    BY <1>0, <1>8, <2>3 DEF Statistics!updateChanges, FilesOk, Fields
  <2>5. FilesOk'
    BY <1>0, <2>2, <2>3, <2>4 DEF FilesOk
  <2>6. Idling'
    BY <2>1, <2>2, <2>4 DEF Idling
  <2>7. StageOk(5)'
    BY <2>1, <2>2, <2>6 DEF StageOk
  <2> QED BY <2>5, <2>7 DEF StatisticsInv
<1> QED BY <1>3, <1>4, <1>5, <1>6, <1>7, <1>8

Holding(cls, x) == \E i \in 1 .. Len(cls) : cls[i] = x
Joined(a, b) == a \o b
NoneOf(a, b) == \A i \in 1 .. Len(a), j \in 1 .. Len(b) : a[i] # b[j]
(* Details that are listed, and others that are of no change of theirs, are listed together. *)
LEMMA ListedTogether ==
    ASSUME NEW n \in Nat, NEW a, NEW b, NEW all, all = Joined(a, b), Listed(a, n), Listed(b, n), NoneOf(a, b)
    PROVE  Listed(all, n) /\ \A x : Holding(all, x) <=> Holding(a, x) \/ Holding(b, x)
<1> DEFINE k == Len(a)
           l == Len(b)
<1>0. \A i \in 1 .. Len(a), j \in 1 .. Len(b) : a[i] # b[j]
  BY DEF NoneOf
<1> USE DEF Joined
<1>1. a \in Seq(Nat) /\ b \in Seq(Nat) /\ k \in Nat /\ l \in Nat
  BY DEF Listed
<1>2. all \in Seq(Nat) /\ Len(all) = k + l
  BY <1>1
<1>3. \A i \in 1 .. k : all[i] = a[i] /\ i \in 1 .. k + l
  BY <1>1
<1>4. \A i \in 1 .. l : all[k + i] = b[i] /\ k + i \in 1 .. k + l
  BY <1>1
<1>5. \A i \in 1 .. k + l : i \in 1 .. k \/ (i - k \in 1 .. l /\ i = k + (i - k))
  BY <1>1
<1>6. ASSUME NEW i \in 1 .. k + l PROVE (i \in 1 .. k /\ all[i] = a[i]) \/ (i - k \in 1 .. l /\ all[i] = b[i - k])
  BY <1>3, <1>4, <1>5
<1> DEFINE t == k + l
<1>7. \A i \in 1 .. t : all[i] >= 1 /\ all[i] <= n
  BY <1>6 DEF Listed
<1>8. ASSUME NEW i \in 1 .. t, NEW j \in 1 .. t, all[i] = all[j] PROVE i = j
  <2>1. CASE i \in 1 .. k /\ j \in 1 .. k
    BY <1>3, <1>8, <2>1 DEF Listed
  <2>2. CASE i \notin 1 .. k /\ j \notin 1 .. k
    <3>1. i - k \in 1 .. l /\ j - k \in 1 .. l /\ b[i - k] = b[j - k]
      BY <1>6, <1>8, <2>2
    <3>2. i - k = j - k
      BY <3>1 DEF Listed
    <3> QED BY <1>1, <3>2
  <2>3. CASE i \in 1 .. k /\ j \notin 1 .. k
    BY <1>0, <1>6, <1>8, <2>3
  <2>4. CASE i \notin 1 .. k /\ j \in 1 .. k
    <3>1. j \in 1 .. k /\ i - k \in 1 .. l /\ a[j] = b[i - k]
      BY <1>6, <1>8, <2>4
    <3> QED BY <1>0, <3>1
  <2> QED BY <2>1, <2>2, <2>3, <2>4
<1>9. Listed(all, n)
  BY <1>2, <1>7, <1>8 DEF Listed
<1>10. ASSUME NEW x PROVE (\E i \in 1 .. t : all[i] = x) <=> (\E i \in 1 .. k : a[i] = x) \/ (\E i \in 1 .. l : b[i] = x)
  <2>1. ASSUME NEW i \in 1 .. t, all[i] = x PROVE (\E j \in 1 .. k : a[j] = x) \/ (\E j \in 1 .. l : b[j] = x)
    BY <1>6, <2>1
  <2>2. ASSUME NEW i \in 1 .. k, a[i] = x PROVE \E j \in 1 .. t : all[j] = x
    BY <1>3, <2>2
  <2>3. ASSUME NEW i \in 1 .. l, b[i] = x PROVE \E j \in 1 .. t : all[j] = x
    BY <1>4, <2>3
  <2> QED BY <2>1, <2>2, <2>3
<1> QED BY <1>2, <1>9, <1>10 DEF Holding

(* A change is found in a list at one place at most. *)
LEMMA FoundOnce ==
    ASSUME NEW n \in Nat, NEW cls, Listed(cls, n), NEW k, NEW found \in SUBSET DOMAIN cls, \A i \in found : cls[i] = k
    PROVE  Statistics!Cardinality(found) = 0 \/ (Statistics!Cardinality(found) = 1 /\ \E i \in 1 .. Len(cls) : cls[i] = k)
<1>1. Statistics!Cardinality(found) = Cardinality(found)
  BY Zenon DEF Statistics!Cardinality, Cardinality, Statistics!IsFiniteSet, IsFiniteSet
<1>2. DOMAIN cls = 1 .. Len(cls)
  BY DEF Listed
<1>3. CASE found = {}
  BY <1>1, <1>3, FS_EmptySet
<1>4. CASE found # {}
  <2>1. PICK i \in found : TRUE
    BY <1>4
  <2>2. found = {i}
    BY <1>2, <2>1 DEF Listed
  <2>3. Cardinality({i}) = 1
    BY FS_Singleton
  <2> QED BY <1>1, <1>2, <2>1, <2>2, <2>3
<1> QED BY <1>3, <1>4

(* Details arrive, of changes that are not listed yet. *)
LEMMA DetailsArrive ==
    ASSUME FilesOk, NEW cls, Listed(cls, Len(author)), \A i \in 1 .. Len(ctx.details), j \in 1 .. Len(cls) : ctx.details[i] # cls[j],
           NEW tag, Statistics!updateDetails(<<tag, cls>>)
    PROVE  /\ FilesOk'
           /\ \A k : (\E i \in 1 .. Len(ctx'.details) : ctx'.details[i] = k)
                       <=> (\E i \in 1 .. Len(ctx.details) : ctx.details[i] = k) \/ (\E i \in 1 .. Len(cls) : cls[i] = k)
<1> DEFINE n == Len(author)
           known(k) == k \in Statistics!Range(ctx.changes) /\ author[k] \in ctx.users
           found(k) == {i \in DOMAIN cls : cls[i] = k /\ known(k)}
<1>1. n \in Nat /\ DOMAIN ctx = Fields /\ Listed(ctx.details, n) /\ CountedOk(ctx.counted, ctx.details)
  BY DEF FilesOk
<1>2. /\ UNCHANGED <<author, changesFile, detailsFile, changesChan>> /\ saver' = [saver EXCEPT !.signals = TRUE]
      /\ ctx' = [ctx EXCEPT !.details = @ \o cls, !.counted = [k \in DOMAIN @ |-> @[k] + Statistics!Cardinality(found(k))]]
  BY DEF Statistics!updateDetails
<1> HIDE DEF found
<1>3. /\ DOMAIN ctx' = Fields /\ ctx'.changes = ctx.changes /\ ctx'.details = ctx.details \o cls
      /\ ctx'.counted = [k \in DOMAIN ctx.counted |-> ctx.counted[k] + Statistics!Cardinality(found(k))]
  BY <1>1, <1>2 DEF Fields
<1>4. /\ Listed(ctx'.details, n)
      /\ \A k : (\E i \in 1 .. Len(ctx'.details) : ctx'.details[i] = k)
                  <=> (\E i \in 1 .. Len(ctx.details) : ctx.details[i] = k) \/ (\E i \in 1 .. Len(cls) : cls[i] = k)
  <2>1. PICK a, all, m : a = ctx.details /\ all = Joined(a, cls) /\ m = n
    OBVIOUS
  <2>2. m \in Nat /\ Listed(a, m) /\ Listed(cls, m) /\ NoneOf(a, cls)
    BY <1>1, <2>1 DEF NoneOf
  <2>3. Listed(all, m) /\ \A x : Holding(all, x) <=> Holding(a, x) \/ Holding(cls, x)
    BY <2>1, <2>2, ListedTogether
  <2>4. ctx'.details = all
    BY <1>3, <2>1 DEF Joined
  <2> QED BY <2>1, <2>3, <2>4 DEF Holding
<1>5. ASSUME NEW k \in 1 .. MaxChange
      PROVE  /\ ctx'.counted[k] = ctx.counted[k] + Statistics!Cardinality(found(k))
             /\ Statistics!Cardinality(found(k)) = 0 \/ (Statistics!Cardinality(found(k)) = 1 /\ \E i \in 1 .. Len(cls) : cls[i] = k)
  <2>1. Statistics!Cardinality(found(k)) = 0 \/ (Statistics!Cardinality(found(k)) = 1 /\ \E i \in 1 .. Len(cls) : cls[i] = k)
    <3>1. found(k) \in SUBSET DOMAIN cls /\ \A i \in found(k) : cls[i] = k
      BY DEF found
    <3> QED BY <1>1, <3>1, FoundOnce
  <2> QED BY <1>1, <1>3, <2>1 DEF CountedOk
<1>6. CountedOk(ctx'.counted, ctx'.details)
  <2>1. ASSUME NEW k \in 1 .. MaxChange
        PROVE  ctx'.counted[k] \in {0, 1} /\ (ctx'.counted[k] = 1 => \E i \in 1 .. Len(ctx'.details) : ctx'.details[i] = k)
    <3>1. ctx.counted[k] \in {0, 1} /\ (ctx.counted[k] = 1 => \E i \in 1 .. Len(ctx.details) : ctx.details[i] = k)
      <4>1. ctx.counted[k] \in Nat /\ ctx.counted[k] <= 1
        BY <1>1 DEF CountedOk
      <4> QED BY <1>1, <4>1 DEF CountedOk
    <3>2. CASE Statistics!Cardinality(found(k)) = 0
      <4>1. ctx'.counted[k] = ctx.counted[k]
        BY <1>5, <3>1, <3>2
      <4> QED BY <1>4, <3>1, <4>1
    <3>3. CASE Statistics!Cardinality(found(k)) = 1 /\ \E i \in 1 .. Len(cls) : cls[i] = k
      <4>1. ctx.counted[k] = 0
        BY <3>1, <3>3
      <4>2. ctx'.counted[k] = 1
        BY <1>5, <3>3, <4>1
      <4> QED BY <1>4, <3>3, <4>2
    <3> QED BY <1>5, <3>2, <3>3
  <2>2. ctx'.counted \in [1 .. MaxChange -> Nat]
    <3>1. DOMAIN ctx.counted = 1 .. MaxChange
      BY <1>1 DEF CountedOk
    <3>2. \A k \in 1 .. MaxChange : ctx'.counted[k] \in Nat
      BY <2>1
    <3> QED BY <1>3, <3>1, <3>2
  <2> QED BY <2>1, <2>2 DEF CountedOk
<1>7. saver' = [signals |-> saver'.signals, writing |-> saver'.writing] /\ saver'.writing = saver.writing
  <2>1. PICK sig, wri : saver = [signals |-> sig, writing |-> wri]
    BY DEF FilesOk
  <2>2. saver' = [signals |-> TRUE, writing |-> wri]
    BY <1>2, <2>1
  <2> QED BY <2>1, <2>2
<1>8. FilesOk'
  BY <1>2, <1>3, <1>4, <1>6, <1>7 DEF FilesOk
<1> QED BY <1>4, <1>8

(* Jobs are done and their answers shown. *)
LEMMA DetailsStep ==
    ASSUME StatisticsInv, (\E k \in jobs : Statistics!processDetails(k)) \/ (\E m \in detailsChan : Statistics!updateDetails(m))
    PROVE  StatisticsInv'
<1>0. FilesOk /\ author' = author /\ Len(author) \in Nat
  <2>1. FilesOk /\ Len(author) \in Nat
    BY DEF StatisticsInv, FilesOk
  <2> QED BY <2>1 DEF Statistics!processDetails, Statistics!updateDetails
<1>1. PICK stage \in 1 .. 7 : StageOk(stage)
  BY DEF StatisticsInv
<1>2. ASSUME NEW k \in jobs, Statistics!processDetails(k) PROVE StatisticsInv'
  <2>1. stage = 7
    BY <1>1, <1>2 DEF StageOk, Idling
  <2>2. /\ jobs' = jobs \ {k} /\ detailsChan' \in {detailsChan, detailsChan \cup {<<"job", <<k>>>>}}
        /\ UNCHANGED <<changesFile, detailsFile, ctx, usersChan, changesChan, fetching, saver>>
    BY <1>2 DEF Statistics!processDetails
  <2>3. FilesOk'
    BY <1>0, <2>2 DEF FilesOk
  <2>4. JobsOk(detailsChan, jobs, ctx.details, Len(author)) /\ k \in 1 .. Len(author)
        /\ \A i \in 1 .. Len(ctx.details) : ctx.details[i] # k
    BY <1>1, <1>2, <2>1 DEF StageOk, JobsOk
  <2>5. JobsOk(detailsChan', jobs', ctx'.details, Len(author'))
    <3>1. ASSUME NEW m \in detailsChan'
          PROVE  \E x \in 1 .. Len(author) : m = <<"job", <<x>>>> /\ x \notin jobs \ {k} /\ \A i \in 1 .. Len(ctx.details) : ctx.details[i] # x
      <4>1. CASE m \in detailsChan
        BY <2>4, <4>1 DEF JobsOk
      <4>2. CASE m = <<"job", <<k>>>>
        BY <2>4, <4>2
      <4> QED BY <2>2, <3>1, <4>1, <4>2
    <3>2. jobs \ {k} \subseteq 1 .. Len(author) /\ \A i \in 1 .. Len(ctx.details) : ctx.details[i] \notin jobs \ {k}
      BY <2>4 DEF JobsOk
    <3> QED BY <1>0, <2>2, <3>1, <3>2 DEF JobsOk
  <2>6. StageOk(7)'
    BY <1>1, <2>1, <2>2, <2>5 DEF StageOk
  <2> QED BY <2>3, <2>6 DEF StatisticsInv
<1>3. ASSUME NEW m \in detailsChan, Statistics!updateDetails(m) PROVE StatisticsInv'
  <2>0. /\ detailsChan' = detailsChan \ {m} /\ jobs' = (IF m[1] = "first" THEN Statistics!Undescribed(m[2]) ELSE jobs)
        /\ UNCHANGED <<usersChan, changesChan, fetching>>
    BY <1>3 DEF Statistics!updateDetails
  <2>1. stage \in {6, 7}
    BY <1>1, <1>3 DEF StageOk
  <2>2. CASE stage = 6
    <3>1. PICK cls : detailsChan = {<<"first", cls>>} /\ Listed(cls, Len(author))
      BY <1>1, <2>2 DEF StageOk
    <3>2. m = <<"first", cls>> /\ m[1] = "first" /\ m[2] = cls
      BY <1>3, <3>1
    <3>3. ctx.details = <<>> /\ Len(ctx.details) = 0
      BY <1>1, <2>2 DEF StageOk, Idling
    <3>4. /\ FilesOk'
          /\ \A k : (\E i \in 1 .. Len(ctx'.details) : ctx'.details[i] = k) <=> (\E i \in 1 .. Len(cls) : cls[i] = k)
      <4>1. \A i \in 1 .. Len(ctx.details), j \in 1 .. Len(cls) : ctx.details[i] # cls[j]
        BY <3>3
      <4>2. \A k : ~\E i \in 1 .. Len(ctx.details) : ctx.details[i] = k
        BY <3>3
      <4>3. Statistics!updateDetails(<<"first", cls>>)
        BY <1>3, <3>2
      <4>4. /\ FilesOk'
            /\ \A k : (\E i \in 1 .. Len(ctx'.details) : ctx'.details[i] = k)
                        <=> (\E i \in 1 .. Len(ctx.details) : ctx.details[i] = k) \/ (\E i \in 1 .. Len(cls) : cls[i] = k)
        BY <1>0, <3>1, <4>1, <4>3, DetailsArrive
      <4> QED BY <4>2, <4>4
    <3>5. detailsChan' = {} /\ jobs' = Statistics!Undescribed(cls)
      BY <2>0, <3>1, <3>2
    <3>6. JobsOk(detailsChan', jobs', ctx'.details, Len(author'))
      <4>1. Statistics!firstCl(cls) \in Nat /\ \A i \in 1 .. Len(cls) : cls[i] <= Statistics!firstCl(cls)
        BY <1>0, <3>1, FirstCl
      <4>2. Statistics!Range(ctx.changes) \subseteq 1 .. Len(author)
        BY <1>0, ListedRange DEF FilesOk, Whole
      <4>3. jobs' \subseteq 1 .. Len(author)
        BY <3>5, <4>2 DEF Statistics!Undescribed
      <4>4. ASSUME NEW i \in 1 .. Len(ctx'.details) PROVE ctx'.details[i] \notin jobs'
        <5>1. PICK j \in 1 .. Len(cls) : cls[j] = ctx'.details[i]
          BY <3>4, <4>4
        <5>2. cls[j] \in Nat
          BY <3>1 DEF Listed
        <5>3. ~(cls[j] > Statistics!firstCl(cls))
          BY <4>1, <5>2
        <5> QED BY <3>5, <5>1, <5>3 DEF Statistics!Undescribed
      <4> QED BY <1>0, <3>5, <4>3, <4>4 DEF JobsOk
    <3>7. StageOk(7)'
      BY <1>1, <2>0, <2>2, <3>6 DEF StageOk
    <3> QED BY <3>4, <3>7 DEF StatisticsInv
  <2>3. CASE stage = 7
    <3>1. JobsOk(detailsChan, jobs, ctx.details, Len(author))
      BY <1>1, <2>3 DEF StageOk
    <3>2. PICK k \in 1 .. Len(author) : m = <<"job", <<k>>>> /\ k \notin jobs /\ \A i \in 1 .. Len(ctx.details) : ctx.details[i] # k
      BY <1>3, <3>1 DEF JobsOk
    <3>3. PICK cls : cls = <<k>>
      OBVIOUS
    <3>4. cls \in Seq(Nat) /\ Len(cls) = 1 /\ cls[1] = k /\ k \in Nat
      BY <1>0, <3>3
    <3>5. Listed(cls, Len(author))
      BY <1>0, <3>4 DEF Listed
    <3>6. /\ FilesOk'
          /\ \A x : (\E i \in 1 .. Len(ctx'.details) : ctx'.details[i] = x) <=> (\E i \in 1 .. Len(ctx.details) : ctx.details[i] = x) \/ x = k
      <4>1. m = <<"job", cls>>
        BY <3>2, <3>3
      <4>2. \A i \in 1 .. Len(ctx.details), j \in 1 .. Len(cls) : ctx.details[i] # cls[j]
        BY <3>2, <3>4
      <4>3. Statistics!updateDetails(<<"job", cls>>)
        BY <1>3, <4>1
      <4>4. \A x : (\E i \in 1 .. Len(cls) : cls[i] = x) <=> x = k
        BY <3>4
      <4> QED BY <1>0, <3>5, <4>2, <4>3, <4>4, DetailsArrive
    <3>7. jobs' = jobs
      BY <2>0, <3>2
    <3>8. JobsOk(detailsChan', jobs', ctx'.details, Len(author'))
      <4>1. ASSUME NEW o \in detailsChan'
            PROVE  \E x \in 1 .. Len(author) : o = <<"job", <<x>>>> /\ x \notin jobs /\ \A i \in 1 .. Len(ctx'.details) : ctx'.details[i] # x
        <5>1. PICK x \in 1 .. Len(author) : o = <<"job", <<x>>>> /\ x \notin jobs /\ \A i \in 1 .. Len(ctx.details) : ctx.details[i] # x
          BY <2>0, <3>1, <4>1 DEF JobsOk
        <5>2. x # k
          BY <2>0, <3>2, <4>1, <5>1
        <5> QED BY <3>6, <5>1, <5>2
      <4>2. ASSUME NEW i \in 1 .. Len(ctx'.details) PROVE ctx'.details[i] \notin jobs
        BY <3>1, <3>2, <3>6, <4>2 DEF JobsOk
      <4> QED BY <1>0, <3>1, <3>7, <4>1, <4>2 DEF JobsOk
    <3>9. StageOk(7)'
      BY <1>1, <2>0, <2>3, <3>8 DEF StageOk
    <3> QED BY <3>6, <3>9 DEF StatisticsInv
  <2> QED BY <2>1, <2>2, <2>3
<1> QED BY <1>2, <1>3

(* The details are saved. *)
LEMMA SaveStep ==
    ASSUME StatisticsInv, Statistics!BeginSave \/ Statistics!EndSave
    PROVE  StatisticsInv'
<1>0. FilesOk /\ UNCHANGED <<author, changesFile, ctx, usersChan, changesChan, detailsChan, fetching, jobs>>
  BY DEF StatisticsInv, Statistics!BeginSave, Statistics!EndSave
<1>1. PICK stage \in 1 .. 7 : StageOk(stage)
  BY DEF StatisticsInv
<1>2. stage = 7
  BY <1>1 DEF StageOk, Idling, Statistics!saver0, Statistics!BeginSave, Statistics!EndSave
<1>3. StageOk(7)'
  BY <1>0, <1>1, <1>2 DEF StageOk
<1>4. CASE Statistics!BeginSave
  <2>1. PICK more \in BOOLEAN : saver' = [signals |-> more, writing |-> ctx.details]
    BY <1>4 DEF Statistics!BeginSave
  <2>2. detailsFile' = detailsFile
    BY <1>4 DEF Statistics!BeginSave
  <2>3. FilesOk'
    BY <1>0, <2>1, <2>2 DEF FilesOk
  <2> QED BY <1>3, <2>3 DEF StatisticsInv
<1>5. CASE Statistics!EndSave
  <2>1. saver.writing # Statistics!NotWriting /\ detailsFile' = Statistics!File(saver.writing) /\ saver' = [saver EXCEPT !.writing = Statistics!NotWriting]
    BY <1>5 DEF Statistics!EndSave
  <2>2. PICK sig, wri : saver = [signals |-> sig, writing |-> wri]
    BY <1>0 DEF FilesOk
  <2>3. saver' = [signals |-> sig, writing |-> Statistics!NotWriting] /\ detailsFile'.cls = saver.writing
    BY <2>1, <2>2 DEF Statistics!File
  <2>4. saver' = [signals |-> saver'.signals, writing |-> saver'.writing] /\ saver'.writing = Statistics!NotWriting
    BY <2>3
  <2>5. Listed(detailsFile'.cls, Len(author))
    BY <1>0, <2>1, <2>3 DEF FilesOk
  <2>6. FilesOk'
    BY <1>0, <2>4, <2>5 DEF FilesOk
  <2> QED BY <1>3, <2>6 DEF StatisticsInv
<1> QED BY <1>4, <1>5

(* The tool ends and is started again. *)
LEMMA RestartStep ==
    ASSUME StatisticsInv, NEW b \in BOOLEAN, Statistics!Restart(b)
    PROVE  StatisticsInv'
<1>0. FilesOk /\ Len(author) \in Nat
  BY DEF StatisticsInv, FilesOk
<1>1. /\ author' = author /\ changesFile' \in {changesFile, Statistics!Torn} /\ detailsFile' \in {detailsFile, Statistics!Torn}
      /\ ctx' = Statistics!ctx0 /\ saver' = Statistics!saver0
      /\ usersChan' = Statistics!NoMessage /\ changesChan' = <<>> /\ detailsChan' = {} /\ fetching' = {"users"} /\ jobs' = {}
  BY DEF Statistics!Restart
<1>2. Whole(<<>>, Len(author)) /\ Listed(<<>>, Len(author))
  BY <1>0, NothingListed
<1>3. Whole(changesFile'.cls, Len(author)) /\ Listed(detailsFile'.cls, Len(author))
  BY <1>0, <1>1, <1>2 DEF FilesOk, Statistics!Torn
<1>4. ctx' = [users |-> {}, changes |-> <<>>, details |-> <<>>, clCount |-> 0, counted |-> [k \in 1 .. MaxChange |-> 0]]
  BY <1>1 DEF Statistics!ctx0
<1>5. DOMAIN ctx' = Fields /\ ctx'.changes = <<>> /\ ctx'.details = <<>> /\ ctx'.counted = [k \in 1 .. MaxChange |-> 0]
  BY <1>4 DEF Fields
<1>6. CountedOk(ctx'.counted, ctx'.details)
  BY <1>5 DEF CountedOk
<1>7. saver' = [signals |-> FALSE, writing |-> Statistics!NotWriting]
  BY <1>1 DEF Statistics!saver0
<1>8. FilesOk'
  BY <1>0, <1>1, <1>2, <1>3, <1>5, <1>6, <1>7 DEF FilesOk
<1>9. StageOk(1)'
  BY <1>1, <1>5 DEF StageOk, Idling, Statistics!NoMessage, Statistics!Message
<1> QED BY <1>8, <1>9 DEF StatisticsInv

(* Every step of perculator. *)
LEMMA StatisticsStepOk ==
    ASSUME StatisticsInv, [Statistics!Next]_statisticsVars
    PROVE  StatisticsInv'
<1>1. CASE UNCHANGED statisticsVars
  <2>1. FilesOk'
    BY <1>1 DEF StatisticsInv, FilesOk, statisticsVars
  <2>2. PICK stage \in 1 .. 7 : StageOk(stage)
    BY DEF StatisticsInv
  <2>3. StageOk(stage)'
    BY <1>1, <2>2 DEF StageOk, Idling, statisticsVars
  <2> QED BY <2>1, <2>3 DEF StatisticsInv
<1> QED BY <1>1, SubmitStep, ListsStep, DetailsStep, SaveStep, RestartStep DEF Statistics!Next

(* The invariant says that nothing is listed or counted twice. *)
LEMMA StatisticsOnce == StatisticsInv => Statistics!NothingTwice
<1> SUFFICES ASSUME StatisticsInv PROVE Statistics!NothingTwice
  OBVIOUS
<1>0. FilesOk /\ Len(author) \in Nat
  BY DEF StatisticsInv, FilesOk
<1>1. \A cls \in {changesFile.cls, detailsFile.cls, ctx.changes, ctx.details} : Listed(cls, Len(author))
  BY <1>0 DEF FilesOk, Whole
<1>2. \A cls \in {changesFile.cls, detailsFile.cls, ctx.changes, ctx.details} : Statistics!IsInjective(cls)
  BY <1>0, <1>1, ListedRange
<1>3. ASSUME NEW cls \in {changesFile.cls, ctx.changes} PROVE Statistics!Range(cls) = 1 .. Len(cls)
  <2>1. Whole(cls, Len(author)) /\ Statistics!Range(cls) = {cls[i] : i \in 1 .. Len(cls)}
    BY <1>0, <1>1, ListedRange DEF FilesOk
  <2>2. ASSUME NEW i \in 1 .. Len(cls) PROVE cls[i] \in 1 .. Len(cls)
    <3>1. cls \in Seq(Nat) /\ cls[i] \in Nat /\ Len(cls) \in Nat /\ cls[i] >= 1 /\ cls[i] <= Len(cls)
      <4>1. cls \in Seq(Nat)
        BY <2>1 DEF Whole, Listed
      <4>2. cls[i] >= 1 /\ cls[i] <= Len(cls)
        BY <2>1 DEF Whole, Listed
      <4> QED BY <4>1, <4>2
    <3> QED BY <3>1
  <2>3. ASSUME NEW k \in 1 .. Len(cls) PROVE \E i \in 1 .. Len(cls) : cls[i] = k
    BY <2>1 DEF Whole
  <2> QED BY <2>1, <2>2, <2>3
<1>4. \A k \in DOMAIN ctx.counted : ctx.counted[k] <= 1
  BY <1>0 DEF FilesOk, CountedOk
<1> QED BY <1>2, <1>3, <1>4 DEF Statistics!NothingTwice

-----------------------------------------------------------------------------
(***************************************************************************)
(* The Swarm clients.  What matches a search and is not collected yet is   *)
(* behind the item last seen, or asks for a changelist that is in no       *)
(* endpoint yet; what the endpoint at hand has collected is not behind it. *)
(***************************************************************************)
items == s1
search == s2
stable == s3
ever == s4
request == s5
clientVars == <<s1, s2, s3, s4, s5>>
USE DEF items, search, stable, ever, request

\* The first items of what is left.
FirstOf(kind, rest) == {i \in rest : Client!Cardinality({j \in rest : Client!Behind(kind, i, j)}) < PageSize}
(* The page Swarm answers: the last one seen of it is behind the others, what is left out is behind
   that one, and no page is empty while something is left. *)
LEMMA PageFirst ==
    ASSUME NEW n \in Nat, NEW kind, NEW rest \in SUBSET (1 .. n), NEW page, page = FirstOf(kind, rest)
    PROVE  /\ page \subseteq rest
           /\ page = {} => rest = {}
           /\ \A last \in page : (\A x \in page : x = last \/ Client!Behind(kind, last, x)) =>
                  \A i \in rest \ page : Client!Behind(kind, i, last)
<1> DEFINE before(i) == {j \in rest : Client!Behind(kind, i, j)}
<1>0. PageSize \in Nat /\ PageSize > 0
  BY ClientAssumption DEF Client!ClientConstants
<1>1. IsFiniteSet(rest) /\ \A j \in rest : j \in Nat
  <2>1. IsFiniteSet(1 .. n)
    BY FS_Interval
  <2>2. IsFiniteSet(rest)
    BY <2>1, FS_Subset
  <2> QED BY <2>2
<1>2. \A i : IsFiniteSet(before(i)) /\ Client!Cardinality(before(i)) = Cardinality(before(i)) /\ Cardinality(before(i)) \in Nat
  <2> SUFFICES ASSUME NEW i PROVE IsFiniteSet(before(i)) /\ Client!Cardinality(before(i)) = Cardinality(before(i)) /\ Cardinality(before(i)) \in Nat
    OBVIOUS
  <2>1. before(i) \subseteq rest
    OBVIOUS
  <2>2. IsFiniteSet(before(i))
    BY <1>1, <2>1, FS_Subset
  <2>3. Client!Cardinality(before(i)) = Cardinality(before(i))
    BY Zenon DEF Client!Cardinality, Cardinality, Client!IsFiniteSet, IsFiniteSet
  <2> QED BY <2>2, <2>3, FS_CardinalityType
<1>3. page = {i \in rest : Cardinality(before(i)) < PageSize}
  BY <1>2 DEF FirstOf
<1>4. ASSUME rest # {} PROVE page # {}
  <2>1. \E f \in rest : before(f) = {}
    <3>1. CASE kind = "reviews"
      <4>1. PICK f \in rest : \A k \in rest : f >= k
        <5>1. rest \in SUBSET (0 .. n)
          OBVIOUS
        <5> QED BY <1>4, <5>1, GreatestElement
      <4>2. \A j \in rest : ~Client!Behind(kind, f, j)
        BY <1>1, <3>1, <4>1 DEF Client!Behind
      <4> QED BY <4>2
    <3>2. CASE kind # "reviews"
      <4>1. PICK f \in rest : \A k \in rest : f <= k
        <5>1. rest \in SUBSET Nat
          OBVIOUS
        <5> QED BY <1>4, <5>1, LeastElement
      <4>2. \A j \in rest : ~Client!Behind(kind, f, j)
        BY <1>1, <3>2, <4>1 DEF Client!Behind
      <4> QED BY <4>2
    <3> QED BY <3>1, <3>2
  <2>2. PICK f \in rest : before(f) = {}
    BY <2>1
  <2>3. Cardinality(before(f)) = 0
    BY <2>2, FS_EmptySet
  <2> QED BY <1>0, <1>3, <2>3
<1>5. ASSUME NEW last \in page, \A x \in page : x = last \/ Client!Behind(kind, last, x), NEW i \in rest \ page
      PROVE  Client!Behind(kind, i, last)
  <2>1. last \in Nat /\ i \in Nat /\ i # last /\ \A j \in rest : j \in Nat
    BY <1>3, <1>5
  <2>2. SUFFICES ASSUME Client!Behind(kind, last, i) PROVE FALSE
    BY <2>1 DEF Client!Behind
  <2>3. before(i) \subseteq before(last)
    <3>1. ASSUME NEW j \in rest, Client!Behind(kind, i, j) PROVE Client!Behind(kind, last, j)
      <4>1. j \in Nat
        BY <1>1
      <4> QED BY <2>1, <2>2, <3>1, <4>1 DEF Client!Behind
    <3> QED BY <3>1
  <2>4. Cardinality(before(i)) <= Cardinality(before(last))
    BY <1>2, <2>3, FS_Subset
  <2>5. Cardinality(before(last)) < PageSize
    BY <1>3, <1>5
  <2>6. Cardinality(before(i)) < PageSize
    <3>1. PICK a \in Nat, b \in Nat : a = Cardinality(before(i)) /\ b = Cardinality(before(last))
      BY <1>2
    <3> QED BY <1>0, <2>4, <2>5, <3>1
  <2> QED BY <1>3, <1>5, <2>6
<1> QED BY <1>3, <1>4, <1>5

(* The item last seen is one of the page, and behind the others. *)
LEMMA LastOfPage ==
    ASSUME NEW n \in Nat, NEW page \in SUBSET (1 .. n), page # {}
    PROVE  Client!LastSeen(page) \in page /\ \A x \in page : x = Client!LastSeen(page) \/ Client!Behind(search.kind, Client!LastSeen(page), x)
<1>0. page \in SUBSET Nat /\ page \in SUBSET (0 .. n) /\ \A x \in page : x \in Nat
  OBVIOUS
<1>1. CASE search.kind = "reviews"
  <2>1. \E x \in page : \A y \in page : x <= y
    BY <1>0, LeastElement
  <2>2. Client!LastSeen(page) = CHOOSE x \in page : \A y \in page : x =< y
    BY <1>1 DEF Client!LastSeen, Client!Min
  <2>3. Client!LastSeen(page) \in page /\ \A y \in page : Client!LastSeen(page) <= y
    BY <2>1, <2>2
  <2>4. PICK l \in page : l = Client!LastSeen(page)
    BY <2>3
  <2>5. \A x \in page : x = l \/ l < x
    BY <1>0, <2>3, <2>4
  <2> QED BY <1>1, <2>4, <2>5 DEF Client!Behind
<1>2. CASE search.kind # "reviews"
  <2>1. \E x \in page : \A y \in page : x >= y
    BY <1>0, GreatestElement
  <2>2. Client!LastSeen(page) = CHOOSE x \in page : \A y \in page : x >= y
    BY <1>2 DEF Client!LastSeen, Client!Max
  <2>3. Client!LastSeen(page) \in page /\ \A y \in page : Client!LastSeen(page) >= y
    BY <2>1, <2>2
  <2>4. PICK l \in page : l = Client!LastSeen(page)
    BY <2>3
  <2>5. \A x \in page : x = l \/ l > x
    BY <1>0, <2>3, <2>4
  <2> QED BY <1>2, <2>4, <2>5 DEF Client!Behind
<1> QED BY <1>1, <1>2

Item == [open : BOOLEAN, changes : SUBSET Changelists]
Asked == [open : BOOLEAN, of : SUBSET Changelists]
PageGot == [of : Nat, ids : SUBSET Nat]
SearchType ==
    [pc : {"idle", "page", "done"}, lib : {"swarm", "swarmlib"}, kind : {"reviews", "comments"},
     asked : Asked, query : Asked, todo : SUBSET Changelists, endpoint : Nat, after : Nat,
     got : Seq(PageGot), ok : BOOLEAN]
AllGot(got) == UNION {got[k].ids : k \in DOMAIN got}
Apart(got) == \A k, l \in DOMAIN got : k # l /\ got[k].of = got[l].of => got[k].ids \cap got[l].ids = {}

QueryOk(s) ==
    \/ s.asked = Client!Everything /\ s.query = Client!Everything /\ s.todo = {}
    \/ ~s.asked.open /\ ~s.query.open /\ s.query.of \subseteq s.asked.of /\ s.todo \subseteq s.asked.of
\* An item that matches and is not collected is still to come.
ToCome(i, item, s) ==
    \/ item.changes \cap s.todo # {}
    \/ Client!Matches(item, s.query) /\ (s.after = 0 \/ Client!Behind(s.kind, i, s.after))
PagingOk(all, s, st) ==
    /\ QueryOk(s)
    /\ \A i \in st : i \in DOMAIN all /\ Client!Matches(all[i], s.asked) /\ (i \in AllGot(s.got) \/ ToCome(i, all[i], s))
    /\ \A k \in DOMAIN s.got :
          /\ s.got[k].of <= s.endpoint
          /\ s.got[k].of = s.endpoint => s.after # 0 /\ \A x \in s.got[k].ids : ~Client!Behind(s.kind, x, s.after)
ClientInv ==
    /\ items \in Seq(Item) /\ search \in SearchType
    /\ Client!WritesHonest
    /\ Client!Matching(items, search.asked) \subseteq ever
    /\ Apart(search.got) /\ AllGot(search.got) \subseteq ever
    /\ search.pc = "page" => PagingOk(items, search, stable)
    /\ search.pc = "done" /\ search.ok => stable \subseteq AllGot(search.got)

(* Nothing is asked for at first. *)
LEMMA ClientInit == Client!Init => ClientInv
<1> SUFFICES ASSUME Client!Init PROVE ClientInv
  OBVIOUS
<1>1. search = [pc |-> "idle", lib |-> "swarm", kind |-> "reviews", asked |-> [open |-> FALSE, of |-> {}],
                query |-> [open |-> FALSE, of |-> {}], todo |-> {}, endpoint |-> 1, after |-> 0, got |-> <<>>, ok |-> TRUE]
  BY DEF Client!Init, Client!NoSearch, Client!Query
<1>2. search \in SearchType /\ search.pc = "idle" /\ search.got = <<>> /\ search.asked = [open |-> FALSE, of |-> {}]
  BY <1>1 DEF SearchType, Asked
<1>3. items \in Seq(Item)
  <2>1. PICK n \in 0 .. 2 : items \in [1 .. n -> Client!Review]
    BY DEF Client!Init
  <2>2. Client!Review \subseteq Item
    BY DEF Client!Review, Item
  <2>3. n \in Nat /\ items \in [1 .. n -> Item]
    BY <2>1, <2>2
  <2> QED BY <2>3
<1>4. Client!WritesHonest
  BY DEF Client!Init, Client!NoRequest, Client!WritesHonest, Client!Served, Client!NoPart
<1>5. Client!Matching(items, search.asked) = {}
  BY <1>2 DEF Client!Matching, Client!Matches
<1>6. Apart(search.got) /\ AllGot(search.got) = {}
  BY <1>2 DEF Apart, AllGot
<1> QED BY <1>2, <1>3, <1>4, <1>5, <1>6 DEF ClientInv

(* A search begins. *)
LEMMA SearchBegins ==
    ASSUME ClientInv, NEW lib \in {"swarm", "swarmlib"}, NEW kind \in {"reviews", "comments"}, NEW asked \in Asked, NEW query \in Asked,
           Client!Begin(lib, kind, asked, query),
           \/ asked = Client!Everything /\ query = Client!Everything
           \/ ~asked.open /\ ~query.open /\ query.of \subseteq asked.of
    PROVE  ClientInv'
<1>1. /\ search' = [Client!NoSearch EXCEPT !.pc = "page", !.lib = lib, !.kind = kind, !.asked = asked, !.query = query,
                                          !.todo = asked.of \ query.of]
      /\ stable' = Client!Matching(items, asked) /\ ever' = stable' /\ items' = items /\ request' = Client!NoRequest
  BY DEF Client!Begin
<1>2. search' = [pc |-> "page", lib |-> lib, kind |-> kind, asked |-> asked, query |-> query, todo |-> asked.of \ query.of,
                 endpoint |-> 1, after |-> 0, got |-> <<>>, ok |-> TRUE]
  BY <1>1 DEF Client!NoSearch
<1>3. search' \in SearchType
  <2>1. asked.of \ query.of \in SUBSET Changelists
    BY DEF Asked
  <2> QED BY <1>2, <2>1 DEF SearchType
<1>4. /\ search'.pc = "page" /\ search'.got = <<>> /\ search'.asked = asked /\ search'.query = query
      /\ search'.todo = asked.of \ query.of /\ search'.after = 0 /\ search'.kind = kind
  BY <1>2
<1>5. Client!WritesHonest'
  BY <1>1 DEF Client!NoRequest, Client!WritesHonest, Client!Served, Client!NoPart
<1>6. Client!Matching(items', search'.asked) \subseteq ever' /\ Apart(search'.got) /\ AllGot(search'.got) \subseteq ever'
  BY <1>1, <1>4 DEF Apart, AllGot
<1>7. PagingOk(items', search', stable')
  <2>1. QueryOk(search')
    BY <1>4 DEF QueryOk, Client!Everything
  <2>2. ASSUME NEW i \in stable' PROVE i \in DOMAIN items' /\ Client!Matches(items'[i], search'.asked) /\ ToCome(i, items'[i], search')
    <3>1. i \in DOMAIN items' /\ Client!Matches(items'[i], asked)
      BY <1>1, <2>2 DEF Client!Matching
    <3>2. CASE asked = query
      BY <1>4, <3>1, <3>2 DEF ToCome
    <3>3. CASE ~asked.open /\ ~query.open /\ query.of \subseteq asked.of
      BY <1>4, <3>1, <3>3 DEF ToCome, Client!Matches
    <3> QED BY <1>4, <3>1, <3>2, <3>3
  <2>3. DOMAIN search'.got = {}
    BY <1>4
  <2> QED BY <2>1, <2>2, <2>3 DEF PagingOk
<1> QED BY <1>1, <1>3, <1>4, <1>5, <1>6, <1>7 DEF ClientInv

(* A page is taken. *)
LEMMA TurnStep ==
    ASSUME ClientInv, NEW lib \in {"swarm", "swarmlib"}, NEW kind \in {"reviews", "comments"}, NEW ok \in BOOLEAN,
           Client!Turn(lib, kind, ok)
    PROVE  ClientInv'
<1> DEFINE page == Client!Page(kind, search.query, search.after)
           rest == {i \in Client!Matching(items, search.query) : search.after = 0 \/ Client!Behind(kind, i, search.after)}
           n == Len(items)
<1>0. /\ items \in Seq(Item) /\ search \in SearchType /\ Apart(search.got) /\ AllGot(search.got) \subseteq ever
      /\ Client!Matching(items, search.asked) \subseteq ever /\ n \in Nat /\ DOMAIN items = 1 .. n
  BY DEF ClientInv
<1>1. /\ search.pc = "page" /\ search.kind = kind /\ UNCHANGED <<items, stable, ever, request>>
      /\ \/ ~ok /\ search' = [search EXCEPT !.pc = "done", !.ok = FALSE]
         \/ /\ page # {}
            /\ search' = [search EXCEPT !.got = Append(@, [of |-> search.endpoint, ids |-> page]), !.after = Client!LastSeen(page)]
         \/ /\ page = {} /\ search.todo # {}
            /\ \E next \in Client!Endpoints(search.todo) :
                  search' = [search EXCEPT !.query = Client!Query(next), !.todo = @ \ next, !.endpoint = @ + 1, !.after = 0]
         \/ page = {} /\ search.todo = {} /\ search' = [search EXCEPT !.pc = "done"]
  BY DEF Client!Turn
<1>2. PagingOk(items, search, stable) /\ QueryOk(search)
  BY <1>1 DEF ClientInv, PagingOk
<1>3. Client!WritesHonest'
  BY <1>1 DEF ClientInv, Client!WritesHonest, Client!Served
<1>4. rest \in SUBSET (1 .. n) /\ page = FirstOf(kind, rest)
  BY <1>0 DEF Client!Page, Client!Matching, FirstOf
<1>5. /\ page \subseteq rest
      /\ page = {} => rest = {}
      /\ \A last \in page : (\A x \in page : x = last \/ Client!Behind(kind, last, x)) =>
             \A i \in rest \ page : Client!Behind(kind, i, last)
  <2> HIDE DEF page, rest
  <2> QED BY <1>0, <1>4, PageFirst
<1>6. Client!Matching(items, search.query) \subseteq Client!Matching(items, search.asked)
  BY <1>2 DEF QueryOk, Client!Matching, Client!Matches
\* What is to come at this endpoint is what is left of it.
<1>7. ASSUME NEW i \in stable, i \notin AllGot(search.got) PROVE items[i].changes \cap search.todo # {} \/ i \in rest
  BY <1>1, <1>2, <1>7 DEF PagingOk, ToCome, Client!Matching
<1> HIDE DEF page, rest
<1>8. CASE search' = [search EXCEPT !.pc = "done", !.ok = FALSE]
  <2>1. search' \in SearchType /\ search'.got = search.got /\ search'.asked = search.asked /\ search'.pc = "done" /\ ~search'.ok
    BY <1>0, <1>8 DEF SearchType
  <2> QED BY <1>0, <1>1, <1>3, <2>1 DEF ClientInv
<1>9. CASE /\ page # {}
           /\ search' = [search EXCEPT !.got = Append(@, [of |-> search.endpoint, ids |-> page]), !.after = Client!LastSeen(page)]
  <2>0. page \in SUBSET (1 .. n) /\ page \in SUBSET Nat
    <3>1. rest \in SUBSET (1 .. n) /\ page \subseteq rest
      BY <1>4, <1>5
    <3> QED BY <3>1
  <2>1. PICK last \in page : last = Client!LastSeen(page)
    BY <1>0, <1>9, <2>0, LastOfPage
  <2>2. last \in Nat /\ last # 0 /\ \A x \in page : x = last \/ Client!Behind(kind, last, x)
    <3>1. last \in 1 .. n
      BY <2>0, <2>1
    <3>2. \A x \in page : x = Client!LastSeen(page) \/ Client!Behind(search.kind, Client!LastSeen(page), x)
      BY <1>0, <1>9, <2>0, LastOfPage
    <3>3. \A x \in page : x = last \/ Client!Behind(kind, last, x)
      BY <1>1, <2>1, <3>2
    <3> QED BY <1>0, <3>1, <3>3
  <2>3. \A i \in rest \ page : Client!Behind(kind, i, last)
    BY <1>5, <2>1, <2>2
  <2>4. PICK new : new = [of |-> search.endpoint, ids |-> page]
    OBVIOUS
  <2>5. new \in PageGot /\ new.of = search.endpoint /\ new.ids = page
    BY <1>0, <2>0, <2>4 DEF PageGot, SearchType
  <2>6. PICK got : got = Append(search.got, new)
    OBVIOUS
  <2>7. search' = [search EXCEPT !.got = got, !.after = last]
    BY <1>9, <2>1, <2>4, <2>6
  <2>8. /\ search.got \in Seq(PageGot) /\ got \in Seq(PageGot) /\ Len(got) = Len(search.got) + 1 /\ Len(search.got) \in Nat
        /\ got[Len(got)] = new /\ \A k \in 1 .. Len(search.got) : got[k] = search.got[k]
    BY <1>0, <2>5, <2>6 DEF SearchType
  <2>9. /\ DOMAIN search.got = 1 .. Len(search.got) /\ DOMAIN got = 1 .. Len(got)
        /\ \A k \in DOMAIN got : k \in DOMAIN search.got \/ k = Len(got)
        /\ DOMAIN search.got \subseteq DOMAIN got /\ Len(got) \in DOMAIN got /\ Len(got) \notin DOMAIN search.got
    BY <2>8
  <2>10. AllGot(got) = AllGot(search.got) \cup page
    BY <2>5, <2>8, <2>9 DEF AllGot
  <2>11. /\ search' \in SearchType /\ search'.got = got /\ search'.asked = search.asked /\ search'.pc = "page" /\ search'.after = last
         /\ search'.query = search.query /\ search'.todo = search.todo /\ search'.endpoint = search.endpoint /\ search'.kind = kind
    BY <1>0, <1>1, <2>2, <2>7, <2>8 DEF SearchType
  <2>12. \A k \in DOMAIN search.got :
           /\ search.got[k].of <= search.endpoint
           /\ search.got[k].of = search.endpoint => search.after # 0 /\ \A x \in search.got[k].ids : ~Client!Behind(kind, x, search.after)
    BY <1>1, <1>2 DEF PagingOk
  \* What was collected at this endpoint is not behind the item last seen then, and the page is.
  <2>13. ASSUME NEW k \in DOMAIN search.got, search.got[k].of = search.endpoint
         PROVE  search.got[k].ids \cap page = {} /\ \A x \in search.got[k].ids : ~Client!Behind(kind, x, last)
    <3>1. search.after # 0 /\ \A x \in search.got[k].ids : ~Client!Behind(kind, x, search.after)
      BY <2>12, <2>13
    <3>2. \A x \in page : Client!Behind(kind, x, search.after)
      BY <1>5, <3>1 DEF rest
    <3>3. \A x \in search.got[k].ids : x \in Nat
      <4>1. search.got[k] \in PageGot
        BY <2>8, <2>9, <2>13
      <4> QED BY <4>1 DEF PageGot
    <3>4. search.after \in Nat
      BY <1>0 DEF SearchType
    <3>5. ASSUME NEW x \in search.got[k].ids PROVE ~Client!Behind(kind, x, last)
      <4>1. x \in Nat /\ ~Client!Behind(kind, x, search.after) /\ Client!Behind(kind, last, search.after)
        BY <2>1, <3>1, <3>2, <3>3
      <4> QED BY <2>2, <3>4, <4>1 DEF Client!Behind
    <3> QED BY <3>1, <3>2, <3>5
  <2>14. Apart(got)
    <3>1. \A k \in DOMAIN search.got : search.got[k].of = new.of => search.got[k].ids \cap new.ids = {}
      BY <2>5, <2>13
    <3> QED BY <1>0, <2>8, <2>9, <3>1 DEF Apart
  <2>15. AllGot(got) \subseteq ever
    BY <1>0, <1>5, <1>6, <2>10 DEF rest
  <2>16. PagingOk(items', search', stable')
    <3>1. QueryOk(search')
      BY <1>2, <2>11 DEF QueryOk
    <3>2. ASSUME NEW i \in stable
          PROVE  i \in DOMAIN items /\ Client!Matches(items[i], search.asked) /\ (i \in AllGot(got) \/ ToCome(i, items[i], search'))
      <4>1. i \in DOMAIN items /\ Client!Matches(items[i], search.asked)
        BY <1>2 DEF PagingOk
      <4>2. CASE i \in AllGot(search.got) \/ i \in page
        BY <2>10, <4>1, <4>2
      <4>3. CASE items[i].changes \cap search.todo # {}
        BY <2>11, <4>1, <4>3 DEF ToCome
      <4>4. CASE i \in rest \ page
        <5>1. Client!Matches(items[i], search.query)
          BY <4>4 DEF rest, Client!Matching
        <5>2. Client!Behind(kind, i, last)
          BY <2>3, <4>4
        <5> QED BY <2>11, <4>1, <5>1, <5>2 DEF ToCome
      <4> QED BY <1>7, <4>2, <4>3, <4>4
    <3>3. ASSUME NEW k \in DOMAIN got
          PROVE  /\ got[k].of <= search.endpoint
                 /\ got[k].of = search.endpoint => last # 0 /\ \A x \in got[k].ids : ~Client!Behind(kind, x, last)
      <4>1. CASE k \in DOMAIN search.got
        BY <2>2, <2>8, <2>9, <2>12, <2>13, <4>1
      <4>2. CASE k = Len(got)
        <5>1. search.endpoint <= search.endpoint
          BY <1>0 DEF SearchType
        <5>2. \A x \in page : x \in Nat /\ ~Client!Behind(kind, x, last)
          BY <2>0, <2>2 DEF Client!Behind
        <5> QED BY <2>2, <2>5, <2>8, <4>2, <5>1, <5>2
      <4> QED BY <2>9, <4>1, <4>2
    <3> QED BY <1>1, <2>11, <3>1, <3>2, <3>3 DEF PagingOk
  <2> QED BY <1>0, <1>1, <1>3, <2>11, <2>14, <2>15, <2>16 DEF ClientInv
<1>10. ASSUME page = {}, search.todo # {}, NEW next \in Client!Endpoints(search.todo),
              search' = [search EXCEPT !.query = Client!Query(next), !.todo = @ \ next, !.endpoint = @ + 1, !.after = 0]
       PROVE  ClientInv'
  <2>1. next \subseteq search.todo
    BY <1>10 DEF Client!Endpoints, Client!kSubset
  <2>2. search.todo \in SUBSET Changelists /\ search.endpoint \in Nat /\ search.endpoint + 1 \in Nat
    BY <1>0 DEF SearchType
  <2>3. PICK q, todo, e : q = [open |-> FALSE, of |-> next] /\ todo = search.todo \ next /\ e = search.endpoint + 1
    OBVIOUS
  <2>4. q \in Asked /\ ~q.open /\ q.of = next /\ todo \in SUBSET Changelists /\ e \in Nat
    BY <2>1, <2>2, <2>3 DEF Asked
  <2>5. search' = [search EXCEPT !.query = q, !.todo = todo, !.endpoint = e, !.after = 0]
    BY <1>10, <2>3 DEF Client!Query
  <2>6. /\ search' \in SearchType /\ search'.got = search.got /\ search'.asked = search.asked /\ search'.pc = "page" /\ search'.after = 0
        /\ search'.query = q /\ search'.todo = todo /\ search'.endpoint = e /\ search'.kind = search.kind
    BY <1>0, <1>1, <2>4, <2>5 DEF SearchType
  <2>7. PagingOk(items', search', stable')
    <3>1. ~search.asked.open /\ search.todo \subseteq search.asked.of
      BY <1>2, <1>10 DEF QueryOk
    <3>2. QueryOk(search')
      BY <2>1, <2>3, <2>4, <2>6, <3>1 DEF QueryOk
    <3>3. ASSUME NEW i \in stable
          PROVE  i \in DOMAIN items /\ Client!Matches(items[i], search.asked) /\ (i \in AllGot(search.got) \/ ToCome(i, items[i], search'))
      <4>1. i \in DOMAIN items /\ Client!Matches(items[i], search.asked)
        BY <1>2 DEF PagingOk
      <4>2. i \in AllGot(search.got) \/ items[i].changes \cap search.todo # {}
        BY <1>5, <1>7, <1>10
      <4>3. ASSUME items[i].changes \cap search.todo # {} PROVE ToCome(i, items[i], search')
        <5>1. items[i].changes \cap todo # {} \/ items[i].changes \cap q.of # {}
          BY <2>3, <2>4, <4>3
        <5> QED BY <2>6, <5>1 DEF ToCome, Client!Matches
      <4> QED BY <4>1, <4>2, <4>3
    <3>4. ASSUME NEW k \in DOMAIN search.got PROVE search.got[k].of <= e /\ search.got[k].of # e
      <4>1. search.got[k].of <= search.endpoint
        BY <1>2 DEF PagingOk
      <4>2. search.got[k].of \in Nat
        <5>1. search.got \in Seq(PageGot)
          BY <1>0 DEF SearchType
        <5>2. search.got[k] \in PageGot
          BY <3>4, <5>1
        <5> QED BY <5>2 DEF PageGot
      <4> QED BY <2>2, <2>3, <4>1, <4>2
    <3> QED BY <1>1, <2>6, <3>2, <3>3, <3>4 DEF PagingOk
  <2> QED BY <1>0, <1>1, <1>3, <2>6, <2>7 DEF ClientInv
<1>11. CASE page = {} /\ search.todo = {} /\ search' = [search EXCEPT !.pc = "done"]
  <2>1. search' \in SearchType /\ search'.got = search.got /\ search'.asked = search.asked /\ search'.pc = "done"
    BY <1>0, <1>11 DEF SearchType
  <2>2. stable \subseteq AllGot(search.got)
    BY <1>5, <1>7, <1>11
  <2> QED BY <1>0, <1>1, <1>3, <2>1, <2>2 DEF ClientInv
<1> QED BY <1>1, <1>8, <1>9, <1>10, <1>11

(* The caller has what a search collected: nothing is asked for again. *)
LEMMA FinishStep ==
    ASSUME ClientInv, Client!Finish
    PROVE  ClientInv'
<1>1. /\ items' = items /\ request' = request /\ ever' = {} /\ stable' = {}
      /\ search' = [pc |-> "idle", lib |-> "swarm", kind |-> "reviews", asked |-> [open |-> FALSE, of |-> {}],
                    query |-> [open |-> FALSE, of |-> {}], todo |-> {}, endpoint |-> 1, after |-> 0, got |-> <<>>, ok |-> TRUE]
  BY DEF Client!Finish, Client!NoSearch, Client!Query
<1>2. search' \in SearchType /\ search'.pc = "idle" /\ search'.got = <<>> /\ search'.asked = [open |-> FALSE, of |-> {}]
  BY <1>1 DEF SearchType, Asked
<1>3. Client!WritesHonest'
  BY <1>1 DEF ClientInv, Client!WritesHonest, Client!Served
<1>4. Client!Matching(items', search'.asked) = {}
  BY <1>2 DEF Client!Matching, Client!Matches
<1>5. Apart(search'.got) /\ AllGot(search'.got) = {}
  BY <1>2 DEF Apart, AllGot
<1> QED BY <1>1, <1>2, <1>3, <1>4, <1>5 DEF ClientInv

\* What the reply to a single request is to mean for the caller.
ToldRight(lib, op, reply, ok) ==
    /\ ok /\ op \in Client!Demanding => reply.applied
    /\ lib = "swarm" /\ Client!Served(reply) => ok
(* A call that looks at its reply like that keeps the invariant. *)
LEMMA ToldStep ==
    ASSUME ClientInv, NEW lib, NEW op, NEW reply, NEW ok, ToldRight(lib, op, reply, ok), Client!Told(lib, op, reply, ok)
    PROVE  ClientInv'
<1>1. request' = [lib |-> lib, op |-> op, reply |-> reply, ok |-> ok] /\ UNCHANGED <<items, search, stable, ever>>
  BY DEF Client!Told
<1>2. request'.lib = lib /\ request'.op = op /\ request'.reply = reply /\ request'.ok = ok
  BY <1>1
<1>3. Client!WritesHonest'
  BY <1>2 DEF Client!WritesHonest, ToldRight, Client!Served
<1> QED BY <1>1, <1>3 DEF ClientInv

(* Every call looks at its reply as it should. *)
LEMMA RequestStep ==
    ASSUME ClientInv, NEW r \in Client!Replies \cup {Client!NoPart}, Client!Request(r)
    PROVE  ClientInv'
<1>1. Client!UnmarshalJSON(r) => Client!doSwarmRequest(r)
  BY DEF Client!UnmarshalJSON, Client!doSwarmRequest
<1> DEFINE got == Client!ContextDoSwarmRequest(r)
           lgot == Client!doSwarmRequestResponse(r)
<1>2. Client!Served(r) => got /\ Client!doSwarmRequest(r) /\ r.applied
  BY <1>1 DEF Client!Served, Client!ContextDoSwarmRequest
<1>3. Client!Holds(r) <=> Client!Served(r)
  BY DEF Client!Holds
<1>4. ASSUME NEW op \in {"GetReview", "GetActionDashboard", "TestRunDetails", "AddCommentEx", "SetVote"}, Client!Told("swarm", op, r, got)
      PROVE  ClientInv'
  <2>1. ToldRight("swarm", op, r, got)
    BY <1>2 DEF ToldRight, Client!Demanding
  <2> QED BY <1>4, <2>1, ToldStep
<1>5. ASSUME NEW op \in {"UpdateComment", "SendTestRunRequest"}, Client!Told("swarm", op, r, Client!doSwarmRequest(r))
      PROVE  ClientInv'
  <2>1. ToldRight("swarm", op, r, Client!doSwarmRequest(r))
    BY <1>2 DEF ToldRight, Client!Demanding
  <2> QED BY <1>5, <2>1, ToldStep
<1>6. ASSUME NEW op \in Client!Demanding, Client!Told("swarm", op, r, got /\ Client!Holds(r))
      PROVE  ClientInv'
  <2>1. ToldRight("swarm", op, r, got /\ Client!Holds(r))
    BY <1>2, <1>3 DEF ToldRight
  <2> QED BY <1>6, <2>1, ToldStep
<1>7. ASSUME NEW op, op \notin Client!Demanding, NEW ok, Client!Told("swarmlib", op, r, ok)
      PROVE  ClientInv'
  <2>1. ToldRight("swarmlib", op, r, ok)
    BY <1>7 DEF ToldRight
  <2> QED BY <1>7, <2>1, ToldStep
<1>8. ASSUME NEW op, NEW ok, ok => Client!Holds(r), Client!Told("swarmlib", op, r, ok)
      PROVE  ClientInv'
  <2>1. ToldRight("swarmlib", op, r, ok)
    BY <1>2, <1>3, <1>8 DEF ToldRight
  <2> QED BY <1>8, <2>1, ToldStep
<1>9. CASE \/ Client!GetReview(r) \/ Client!GetActionDashboard(r) \/ Client!TestRunDetails(r) \/ Client!AddCommentEx(r) \/ Client!SetVote(r)
  BY <1>4, <1>9 DEF Client!GetReview, Client!GetActionDashboard, Client!TestRunDetails, Client!AddCommentEx, Client!SetVote
<1>10. CASE Client!UpdateComment(r) \/ Client!SendTestRunRequest(r)
  BY <1>5, <1>10 DEF Client!UpdateComment, Client!SendTestRunRequest
<1>11. CASE Client!SendNotifications(r) \/ Client!PatchReview(r) \/ Client!SetState(r) \/ Client!CreateTestRun(r)
  <2>1. /\ "SendNotifications" \in Client!Demanding /\ "PatchReview" \in Client!Demanding /\ "SetState" \in Client!Demanding
        /\ "CreateTestRun" \in Client!Demanding
    BY DEF Client!Demanding
  <2> QED BY <1>6, <1>11, <2>1 DEF Client!SendNotifications, Client!PatchReview, Client!SetState, Client!CreateTestRun
<1>12. CASE Client!LibSendNotifications(r) \/ Client!LibCreateTestRun(r)
  <2>1. PICK ok : ok = (got /\ Client!Holds(r))
    OBVIOUS
  <2>2. Client!Told("swarmlib", "SendNotifications", r, ok) \/ Client!Told("swarmlib", "CreateTestRun", r, ok)
    BY <1>12, <2>1 DEF Client!LibSendNotifications, Client!LibCreateTestRun
  <2>3. ok => Client!Holds(r)
    BY <2>1
  <2> QED BY <1>8, <2>2, <2>3
<1>13. CASE Client!LibPatchReview(r) \/ Client!LibSetState(r)
  <2>1. PICK ok : ok = (lgot /\ Client!Holds(r))
    OBVIOUS
  <2>2. Client!Told("swarmlib", "PatchReview", r, ok) \/ Client!Told("swarmlib", "SetState", r, ok)
    BY <1>13, <2>1 DEF Client!LibPatchReview, Client!LibSetState
  <2>3. ok => Client!Holds(r)
    BY <2>1
  <2> QED BY <1>8, <2>2, <2>3
<1>14. CASE \/ Client!LibUpdateComment(r) \/ Client!LibAddCommentEx(r) \/ Client!LibSetVote(r) \/ Client!LibGetReview(r)
            \/ Client!LibGetActionDashboard(r) \/ Client!LibTestRunDetails(r) \/ Client!LibSendTestRunRequest(r)
  <2>1. PICK op \in {"UpdateComment", "AddCommentEx", "SetVote", "GetReview", "GetActionDashboard", "TestRunDetails", "SendTestRunRequest"} :
           \E ok : Client!Told("swarmlib", op, r, ok)
    BY <1>14 DEF Client!LibUpdateComment, Client!LibAddCommentEx, Client!LibSetVote, Client!LibGetReview,
                 Client!LibGetActionDashboard, Client!LibTestRunDetails, Client!LibSendTestRunRequest
  <2>2. op \notin Client!Demanding
    BY DEF Client!Demanding
  <2> QED BY <1>7, <2>1, <2>2
<1> QED BY <1>9, <1>10, <1>11, <1>12, <1>13, <1>14 DEF Client!Request

(* Others create and change items.  An item keeps its place and its changes; it may be opened and
   closed, which is why what matches a search for open reviews is looked at again. *)
LEMMA ChangeStep ==
    ASSUME ClientInv, NEW new \in Seq(Item), Client!Change(new),
           DOMAIN items \subseteq DOMAIN new, \A i \in DOMAIN items : items[i].changes \subseteq new[i].changes
    PROVE  ClientInv'
<1>1. /\ items' = new /\ stable' = stable \cap Client!Matching(new, search.asked)
      /\ ever' = ever \cup Client!Matching(new, search.asked) /\ search' = search /\ request' = request
  BY DEF Client!Change
<1>2. search' \in SearchType /\ Apart(search'.got) /\ AllGot(search'.got) \subseteq ever'
  BY <1>1 DEF ClientInv
<1>3. Client!WritesHonest'
  BY <1>1 DEF ClientInv, Client!WritesHonest, Client!Served
<1>4. ASSUME search.pc = "page" PROVE PagingOk(items', search', stable')
  <2>1. PagingOk(items, search, stable)
    BY <1>4 DEF ClientInv
  <2>2. ASSUME NEW i \in stable'
        PROVE  i \in DOMAIN new /\ Client!Matches(new[i], search.asked) /\ (i \in AllGot(search.got) \/ ToCome(i, new[i], search))
    <3>1. i \in stable /\ i \in DOMAIN new /\ Client!Matches(new[i], search.asked)
      BY <1>1, <2>2 DEF Client!Matching
    <3>2. i \in DOMAIN items /\ (i \in AllGot(search.got) \/ ToCome(i, items[i], search)) /\ QueryOk(search)
      BY <2>1, <3>1 DEF PagingOk
    <3>3. items[i].changes \subseteq new[i].changes
      BY <3>2
    <3>4. CASE search.asked = Client!Everything /\ search.query = Client!Everything /\ search.todo = {}
      BY <3>1, <3>2, <3>4 DEF ToCome
    <3>5. CASE ~search.query.open
      BY <3>1, <3>2, <3>3, <3>5 DEF ToCome, Client!Matches
    <3> QED BY <3>2, <3>4, <3>5 DEF QueryOk
  <2> QED BY <1>1, <2>1, <2>2 DEF PagingOk
<1>5. search.pc = "done" /\ search.ok => stable' \subseteq AllGot(search.got)
  BY <1>1 DEF ClientInv
<1> QED BY <1>1, <1>2, <1>3, <1>4, <1>5 DEF ClientInv

(* What others do are changes of that sort. *)
LEMMA OthersStep ==
    ASSUME ClientInv, Client!Create \/ Client!SetOpen \/ Client!AddChange
    PROVE  ClientInv'
<1>0. items \in Seq(Item) /\ DOMAIN items = 1 .. Len(items) /\ Len(items) \in Nat /\ \A i \in DOMAIN items : items[i] \in Item
  BY DEF ClientInv
<1>1. CASE Client!Create
  <2>1. PICK c \in Changelists : Client!Change(Append(items, [open |-> TRUE, changes |-> {c}]))
    BY <1>1 DEF Client!Create
  <2>2. PICK it : it = [open |-> TRUE, changes |-> {c}]
    OBVIOUS
  <2>3. it \in Item
    BY <2>2 DEF Item
  <2>4. PICK new : new = Append(items, it)
    OBVIOUS
  <2>5. new \in Seq(Item) /\ DOMAIN items \subseteq DOMAIN new /\ \A i \in DOMAIN items : new[i] = items[i]
    BY <1>0, <2>3, <2>4
  <2>6. Client!Change(new)
    BY <2>1, <2>2, <2>4
  <2> QED BY <2>5, <2>6, ChangeStep
<1>2. ASSUME NEW i \in DOMAIN items, NEW it \in Item, items[i].changes \subseteq it.changes, Client!Change([items EXCEPT ![i] = it])
      PROVE  ClientInv'
  <2>1. PICK new : new = [items EXCEPT ![i] = it]
    OBVIOUS
  <2>2. new \in Seq(Item) /\ DOMAIN items = DOMAIN new /\ new[i] = it /\ \A j \in DOMAIN items : j # i => new[j] = items[j]
    BY <1>0, <2>1
  <2>3. \A j \in DOMAIN items : items[j].changes \subseteq new[j].changes
    BY <1>2, <2>2
  <2> QED BY <1>2, <2>1, <2>2, <2>3, ChangeStep
<1>3. CASE Client!SetOpen
  <2>1. PICK i \in DOMAIN items : Client!Change([items EXCEPT ![i].open = ~@])
    BY <1>3 DEF Client!SetOpen
  <2>2. PICK it : it = [items[i] EXCEPT !.open = ~@]
    OBVIOUS
  <2>3. it \in Item /\ it.changes = items[i].changes
    BY <1>0, <2>2 DEF Item
  <2>4. [items EXCEPT ![i].open = ~@] = [items EXCEPT ![i] = it]
    BY <2>2
  <2> QED BY <1>2, <2>1, <2>3, <2>4
<1>4. CASE Client!AddChange
  <2>1. PICK i \in DOMAIN items, c \in Changelists : Client!Change([items EXCEPT ![i].changes = @ \cup {c}])
    BY <1>4 DEF Client!AddChange
  <2>2. PICK it : it = [items[i] EXCEPT !.changes = @ \cup {c}]
    OBVIOUS
  <2>3. it \in Item /\ items[i].changes \subseteq it.changes
    BY <1>0, <2>2 DEF Item
  <2>4. [items EXCEPT ![i].changes = @ \cup {c}] = [items EXCEPT ![i] = it]
    BY <2>2
  <2> QED BY <1>2, <2>1, <2>3, <2>4
<1> QED BY <1>1, <1>3, <1>4

(* Every step keeps the invariant. *)
LEMMA ClientStepOk ==
    ASSUME ClientInv, [Client!Next]_clientVars
    PROVE  ClientInv'
<1>1. CASE UNCHANGED clientVars
  BY <1>1 DEF clientVars, ClientInv, Client!WritesHonest, Client!Served
<1>2. ASSUME NEW lib \in {"swarm", "swarmlib"}, NEW kind \in {"reviews", "comments"},
             Client!Begin(lib, kind, Client!Everything, Client!Everything)
      PROVE  ClientInv'
  <2>1. Client!Everything \in Asked
    BY DEF Client!Everything, Asked
  <2> QED BY <1>2, <2>1, SearchBegins
<1>3. ASSUME NEW lib \in {"swarm", "swarmlib"}, Client!BeginEndpoints(lib)
      PROVE  ClientInv'
  <2>1. PICK cls \in SUBSET Changelists : \E first \in Client!Endpoints(cls) : Client!Begin(lib, "reviews", Client!Query(cls), Client!Query(first))
    BY <1>3 DEF Client!BeginEndpoints
  <2>2. PICK first \in Client!Endpoints(cls) : Client!Begin(lib, "reviews", Client!Query(cls), Client!Query(first))
    BY <2>1
  <2>3. first \subseteq cls
    BY <2>2 DEF Client!Endpoints, Client!kSubset
  <2>4. PICK a, q : a = Client!Query(cls) /\ q = Client!Query(first)
    OBVIOUS
  <2>5. a \in Asked /\ q \in Asked /\ ~a.open /\ ~q.open /\ q.of \subseteq a.of
    BY <2>3, <2>4 DEF Client!Query, Asked
  <2>6. Client!Begin(lib, "reviews", a, q)
    BY <2>2, <2>4
  <2> QED BY <2>5, <2>6, SearchBegins
<1>4. CASE \/ Client!GetOpenReviews \/ Client!GetCommentsForReview \/ Client!LibGetOpenReviews \/ Client!LibGetCommentsForReview
  BY <1>2, <1>4 DEF Client!GetOpenReviews, Client!GetCommentsForReview, Client!LibGetOpenReviews, Client!LibGetCommentsForReview
<1>5. CASE Client!GetReviewsForChangelists \/ Client!LibGetReviewsForChangelists
  BY <1>3, <1>5 DEF Client!GetReviewsForChangelists, Client!LibGetReviewsForChangelists
<1>6. ASSUME NEW r \in Client!Replies, Client!GetReviews(r) \/ Client!GetComments(r) \/ Client!LibGetReviews(r) \/ Client!LibGetComments(r)
      PROVE  ClientInv'
  <2>1. Client!ContextDoSwarmRequest(r) \in BOOLEAN /\ Client!doSwarmRequestResponse(r) \in BOOLEAN
    BY DEF Client!ContextDoSwarmRequest, Client!doSwarmRequestResponse
  <2>2. PICK a \in BOOLEAN, b \in BOOLEAN : a = Client!ContextDoSwarmRequest(r) /\ b = Client!doSwarmRequestResponse(r)
    BY <2>1
  <2>3. \/ Client!Turn("swarm", "reviews", a) \/ Client!Turn("swarm", "comments", a)
        \/ Client!Turn("swarmlib", "reviews", b) \/ Client!Turn("swarmlib", "comments", b)
    BY <1>6, <2>2 DEF Client!GetReviews, Client!GetComments, Client!LibGetReviews, Client!LibGetComments
  <2> QED BY <2>3, TurnStep
<1>7. CASE Client!Finish
  BY <1>7, FinishStep
<1>8. CASE \E r \in Client!Replies \cup {Client!NoPart} : Client!Request(r)
  BY <1>8, RequestStep
<1>9. CASE Client!Create \/ Client!SetOpen \/ Client!AddChange
  BY <1>9, OthersStep
<1> QED BY <1>1, <1>4, <1>5, <1>6, <1>7, <1>8, <1>9 DEF Client!Next

(* The invariant says what the run checks. *)
LEMMA ClientTruth == ClientInv => Client!PagesComplete /\ Client!WritesHonest
BY DEF ClientInv, Client!PagesComplete, Apart, AllGot

-----------------------------------------------------------------------------
(***************************************************************************)
(* The searches of poogle.  The goroutines of a search are all gone when   *)
(* it is declared complete.                                                *)
(***************************************************************************)
ui == s2
bg == s4
chunks == s5
greps == s6
sends == s7
searchVars == <<s1, s2, s3, s4, s5, s6, s7>>
USE DEF ui, bg, chunks, greps, sends

\* Only a search under way has goroutines, and the window is told of each search once.
SearchSettled ==
    /\ bg.pc \in {"none", "start", "done"} => chunks = {} /\ greps = {} /\ sends = {}
    /\ ui.searching <=> bg.pc # "none"
SearchInv ==
    /\ DOMAIN bg = {"pc", "term", "failed"} /\ bg.pc \in {"none", "start", "chunk", "done"}
    /\ DOMAIN ui = {"searching", "term", "results", "index", "collection", "history"} /\ ui.searching \in BOOLEAN
    /\ SearchSettled

(* No search has begun at first. *)
LEMMA SearchInit == Search!Init => SearchInv
<1> SUFFICES ASSUME Search!Init PROVE SearchInv
  OBVIOUS
<1>1. PICK t : bg = [pc |-> "none", term |-> t, failed |-> FALSE]
  BY DEF Search!Init
<1>2. PICK u, r, c, h : ui = [searching |-> FALSE, term |-> u, results |-> r, index |-> 1, collection |-> c, history |-> h]
  BY DEF Search!Init
<1>3. chunks = {} /\ greps = {} /\ sends = {}
  BY DEF Search!Init
<1> QED BY <1>1, <1>2, <1>3 DEF SearchInv, SearchSettled

(* Every step keeps it: searchBegin does nothing during a search, and Wait returns once every match
   was taken by the window. *)
LEMMA SearchStepOk ==
    ASSUME SearchInv, [Search!Next]_searchVars
    PROVE  SearchInv'
<1> USE DEF SearchInv, SearchSettled
<1>1. CASE UNCHANGED searchVars
  BY <1>1 DEF searchVars
<1>2. CASE Search!GrepLarge
  BY <1>2 DEF Search!GrepLarge
<1>3. CASE Search!GrepLargeFails
  BY <1>3 DEF Search!GrepLargeFails
<1>4. CASE Search!Wait
  BY <1>4 DEF Search!Wait, Search!AllDone
<1>5. ASSUME NEW p \in chunks, Search!grepChunker(p) PROVE SearchInv'
  BY <1>5 DEF Search!grepChunker
<1>6. ASSUME NEW p \in chunks, Search!ChunkerFails(p) PROVE SearchInv'
  BY <1>6 DEF Search!ChunkerFails, Search!Error
<1>7. ASSUME NEW g \in greps, Search!Grep(g) PROVE SearchInv'
  BY <1>7 DEF Search!Grep
<1>8. ASSUME NEW g \in greps, Search!GrepFails(g) PROVE SearchInv'
  BY <1>8 DEF Search!GrepFails, Search!Error
<1>9. ASSUME NEW t, Search!searchBegin(t), UNCHANGED <<s1, chunks, greps, sends>> PROVE SearchInv'
  <2>1. CASE ui.searching
    BY <1>9, <2>1 DEF Search!searchBegin
  <2>2. CASE ~ui.searching
    <3>1. bg' = [pc |-> "start", term |-> Search!NoTerm, failed |-> FALSE]
      BY <1>9, <2>2 DEF Search!searchBegin
    <3>2. DOMAIN bg' = {"pc", "term", "failed"} /\ bg'.pc = "start"
      BY <3>1
    <3>3. DOMAIN ui' = DOMAIN ui /\ ui'.searching = TRUE
      BY <1>9, <2>2 DEF Search!searchBegin
    <3>4. chunks' = {} /\ greps' = {} /\ sends' = {}
      BY <1>9, <2>2
    <3> QED BY <3>2, <3>3, <3>4
  <2> QED BY <2>1, <2>2
<1>10. CASE (\E t \in Terms : Search!SearchButton(t)) \/ Search!TakeUri \/ Search!HistoryClick
  BY <1>9, <1>10 DEF Search!SearchButton, Search!TakeUri, Search!HistoryClick
<1>11. CASE (\E t \in Terms : Search!Post(t)) \/ Search!ClearHistory
  BY <1>11 DEF Search!Post, Search!ClearHistory
<1>12. CASE Search!Receive
  BY <1>12 DEF Search!Receive
<1>13. CASE Search!Completed
  BY <1>13 DEF Search!Completed
<1>14. CASE Search!Browse
  BY <1>14 DEF Search!Browse
<1> QED BY <1>1, <1>2, <1>3, <1>4, <1>5, <1>6, <1>7, <1>8, <1>10, <1>11, <1>12, <1>13, <1>14 DEF Search!Next

-----------------------------------------------------------------------------
(***************************************************************************)
(* Each tool for itself, and the tools side by side.                       *)
(***************************************************************************)

(* VerifiedUnshelve never puts a shelved file over a newer one of the checkout, for any number of
   authors, files, changelists and revisions, whatever authors edit, shelve, delete and submit
   between its p4 commands. *)
THEOREM WorkspaceCorrect == Workspace!Spec => []Workspace!UnshelveStompsNothing
<1>1. WorkspaceInv /\ [Workspace!Next]_Workspace!vars => WorkspaceInv'
  BY WorkspaceStepOk DEF workspaceVars, Workspace!vars
<1>2. WorkspaceInv => Workspace!UnshelveStompsNothing
  BY DEF WorkspaceInv
<1> QED BY <1>1, <1>2, WorkspaceInit, PTL DEF Workspace!Spec

(* The marker of envinstall names a version only when everything of it is installed, for any number
   of programs, versions and failing or interrupted runs. *)
THEOREM InstallCorrect == Installer!Spec => []Installer!MarkerHonest
<1>1. InstallInv /\ [Installer!Next]_Installer!vars => InstallInv'
  BY InstallStepOk DEF installVars, Installer!vars
<1> QED BY <1>1, InstallInit, InstallHonest, PTL DEF Installer!Spec

(* urika's entries in the registry are whole and those of one installation, and a link it accepted
   arrives at one instance of its application, for any number of links, applications and places
   urika is run from. *)
THEOREM LinkingCorrect == Linking!Spec => [](Linking!RegistrySound /\ Linking!LinksArrive)
<1>1. LinkInv /\ [Linking!Next]_Linking!vars => LinkInv'
  BY LinkingStepOk DEF linkVars, Linking!vars
<1> QED BY <1>1, LinkInit, LinkHonest, PTL DEF Linking!Spec

(* A run of vendor_bender that reports no error leaves the packages its manifests asked for, for any
   packages, sorts of packages, edits and earlier runs that failed half way. *)
THEOREM VendorCorrect == Vendoring!Spec => []Vendoring!VendoredAsAsked
<1>1. VendorInv /\ [Vendoring!Next]_Vendoring!vars => VendorInv'
  BY VendorStepOk DEF vendorVars, Vendoring!vars
<1> QED BY <1>1, VendorInit, VendorHonest, PTL DEF Vendoring!Spec

(* gigantick's window shows each presubmit its own results and extracts reviews only once they are
   there, for any number of changes, files, checks and presubmits, with all its goroutines at work at
   once: what MCTools keeps apart runs together here. *)
THEOREM WindowCorrect == Window!Spec => []Window!WindowHonest
<1>1. WindowInv /\ [Window!Next]_Window!vars => WindowInv'
  BY WindowStepOk DEF windowVars, Window!vars
<1> QED BY <1>1, WindowInit, WindowTruth, PTL DEF Window!Spec

(* perculator lists every change once and counts none twice, for any number of changes, authors and
   sessions, also when a session ends between the writes of its two files. *)
THEOREM StatisticsCorrect == Statistics!Spec => []Statistics!NothingTwice
<1>1. StatisticsInv /\ [Statistics!Next]_Statistics!vars => StatisticsInv'
  BY StatisticsStepOk DEF statisticsVars, Statistics!vars
<1> QED BY <1>1, StatisticsInit, StatisticsOnce, PTL DEF Statistics!Spec

(* A search of the Swarm clients that ends well has every item that matched all along and nothing that
   never did, for any sizes of pages and endpoints, while others create and change reviews; and what
   a caller is told of a single request is so. *)
THEOREM ClientCorrect == Client!Spec => [](Client!PagesComplete /\ Client!WritesHonest)
<1>1. ClientInv /\ [Client!Next]_Client!vars => ClientInv'
  BY ClientStepOk DEF clientVars, Client!vars
<1> QED BY <1>1, ClientInit, ClientTruth, PTL DEF Client!Spec

(* When poogle declares a search complete, none of its goroutines is left with matches that could
   turn up in the next one, for any depot, limit, terms and failing commands.  (That the matches are
   all of them depends on how grepChunker groups directories, which the run checks.) *)
THEOREM SearchSettledCorrect == Search!Spec => []SearchSettled
<1>1. SearchInv /\ [Search!Next]_Search!vars => SearchInv'
  BY SearchStepOk DEF searchVars, Search!vars
<1>2. SearchInv => SearchSettled
  BY DEF SearchInv
<1> QED BY <1>1, <1>2, SearchInit, PTL DEF Search!Spec

(* A step of the tools side by side is one of the tool at work. *)
LEMMA OwnSteps ==
    ASSUME [Next]_vars
    PROVE  /\ which' = which
           /\ which = "workspace" => [Workspace!Next]_workspaceVars
           /\ which = "install" => [Installer!Next]_installVars
           /\ which = "links" => [Linking!Next]_linkVars
           /\ which = "vendoring" => [Vendoring!Next]_vendorVars
           /\ which = "window" => [Window!Next]_windowVars
           /\ which = "statistics" => [Statistics!Next]_statisticsVars
           /\ which = "client" => [Client!Next]_clientVars
<1>1. CASE UNCHANGED vars
  BY <1>1 DEF vars, workspaceVars, installVars, linkVars, vendorVars, windowVars, statisticsVars, clientVars
<1>2. CASE Next
  BY <1>2 DEF Next, WorkspaceStep, SearchStep, StatisticsStep, ClientStep, WindowStep, VendoringStep, LoggerStep,
              InstallerStep, LinkingStep, Pick
<1> QED BY <1>1, <1>2

ToolsInv ==
    /\ which = "workspace" => WorkspaceInv
    /\ which = "install" => InstallInv
    /\ which = "links" => LinkInv
    /\ which = "vendoring" => VendorInv
    /\ which = "window" => WindowInv
    /\ which = "statistics" => StatisticsInv
    /\ which = "client" => ClientInv

(* Every tool keeps its invariant when the tools are put side by side. *)
LEMMA ToolsCorrect == Spec => []ToolsInv
<1>1. Init => ToolsInv
  BY WorkspaceInit, InstallInit, LinkInit, VendorInit, WindowInit, StatisticsInit, ClientInit DEF Init, ToolsInv
<1>2. ToolsInv /\ [Next]_vars => ToolsInv'
  <2> SUFFICES ASSUME ToolsInv, [Next]_vars PROVE ToolsInv'
    OBVIOUS
  <2> QED BY OwnSteps, WorkspaceStepOk, InstallStepOk, LinkingStepOk, VendorStepOk, WindowStepOk, StatisticsStepOk, ClientStepOk DEF ToolsInv
<1> QED BY <1>1, <1>2, PTL DEF Spec

(* Unshelving a change for CI never overwrites a file that is newer in the checkout. *)
THEOREM UnshelveCorrect == Spec => []UnshelveStompsNothing
<1>1. ToolsInv => UnshelveStompsNothing
  BY DEF ToolsInv, WorkspaceInv, UnshelveStompsNothing
<1> QED BY <1>1, ToolsCorrect, PTL

(* What a workstation is told is installed is installed, and a link reaches its application. *)
THEOREM MachineReadyCorrect == Spec => []MachineReady
<1>1. ToolsInv => MachineReady
  BY InstallHonest, LinkHonest DEF ToolsInv, MachineReady
<1> QED BY <1>1, ToolsCorrect, PTL

(* A run of vendor_bender without an error leaves exactly the packages the manifests ask for. *)
THEOREM VendoredCorrect == Spec => []VendoredAsAsked
<1>1. ToolsInv => VendoredAsAsked
  BY VendorHonest DEF ToolsInv, VendoredAsAsked
<1> QED BY <1>1, ToolsCorrect, PTL

(* gigantick shows each presubmit run its own results, and no goroutine waits for a list in vain. *)
THEOREM WindowHonestCorrect == Spec => []WindowHonest
<1>1. ToolsInv => WindowHonest
  BY WindowTruth DEF ToolsInv, WindowHonest
<1> QED BY <1>1, ToolsCorrect, PTL

(* perculator counts no change twice and leaves none out of its list, over restarts. *)
THEOREM NothingTwiceCorrect == Spec => []NothingTwice
<1>1. ToolsInv => NothingTwice
  BY StatisticsOnce DEF ToolsInv, NothingTwice
<1> QED BY <1>1, ToolsCorrect, PTL

(* The Swarm clients: searches are complete over their pages, and writes report what was done. *)
THEOREM SwarmClientCorrect == Spec => []SwarmClientHonest
<1>1. ToolsInv => SwarmClientHonest
  BY ClientTruth DEF ToolsInv, SwarmClientHonest
<1> QED BY <1>1, ToolsCorrect, PTL
=============================================================================
