---------------------------- MODULE VendorBender ----------------------------
(***************************************************************************)
(* tools/vendor_bender: the vendored packages of third_party.  Each run    *)
(* reads the MANIFEST files and the METADATA files of the packages,        *)
(* compares them into a plan (add, delete, update, replace labels), and    *)
(* carries the plan out in the order of a Go map; regen makes the BUILD    *)
(* files again.  Between runs the user edits the manifests; a run may      *)
(* fail, or end, after any step.                                           *)
(*                                                                         *)
(* A package's directory is disk[name][manifest]: absent, without a        *)
(* METADATA file ("junk"), or a package: the kind and version its METADATA *)
(* says it was made of, the version its files really are, and whether they *)
(* are all there.  Manifests are numbered in the order they are read.      *)
(***************************************************************************)
EXTENDS Naturals, FiniteSets, Sequences

CONSTANTS
    Names,      \* names of packages
    Kinds,      \* the sources a manifest entry may name: subset of {"git", "go", "zip", "rust"}
    MaxRuns,    \* bound: runs of the tool
    MaxEdits    \* bound: edits of the manifests

Mfs == {1, 2}
Versions == {1, 2}
Canonical == 9        \* what go mod download makes of a branch, a tag or "latest"
Absent == [dir |-> "absent"]
Junk == [dir |-> "junk"]
NoEntry == [mf |-> 0]

VARIABLES
    manifest,   \* manifest[name]: its entry and the manifest it is in
    disk,       \* the third_party directory
    declared,   \* how often the workspace declares each repository
    opened,     \* the directories whose state is in a changelist
    plan,       \* the actions that are left
    step,       \* where the action at hand is
    synced,     \* the packages this run has written so far
    outcome,    \* how the run ended
    runs, edits

vars == <<manifest, disk, declared, opened, plan, step, synced, outcome, runs, edits>>

Pkg(kind, version, content, local, whole) ==
    [dir |-> "package", kind |-> kind, version |-> version, content |-> content, local |-> local, whole |-> whole]
Entries == [mf : Mfs, kind : Kinds, version : {0} \cup Versions, local : BOOLEAN]
Idle == [at |-> "idle"]
HasPkg(name, mf) == disk[name][mf].dir = "package"

Init ==
    /\ manifest = [n \in Names |-> NoEntry] /\ disk = [n \in Names |-> [m \in Mfs |-> Absent]]
    /\ declared = [n \in Names |-> 0] /\ opened = {}
    /\ plan = {} /\ step = Idle /\ synced = {} /\ outcome = "none" /\ runs = 0 /\ edits = 0

EditManifest(name, entry) ==
    /\ outcome # "running"
    /\ edits < MaxEdits /\ edits' = edits + 1
    /\ manifest' = [manifest EXCEPT ![name] = entry]
    /\ outcome' = "none"
    /\ UNCHANGED <<disk, declared, opened, plan, step, synced, runs>>

-----------------------------------------------------------------------------
(* buildContext and buildVendoringPlan. *)

\* validateManifestEntry: a Go entry must not ask for the latest version, and a Git one names a commit.
validateManifestEntry(entry) == entry.version # 0 \/ entry.kind \notin {"go", "git"}

\* Mutant: a package that is there is taken for up to date.
needsUpdateMut(p, entry) == entry.local /\ ~p.local
\* needsUpdate; the version of a Rust package is compared with itself.
needsUpdate(p, entry) ==
    \/ entry.local /\ ~p.local
    \/ p.kind # entry.kind
    \/ p.kind # "rust" /\ p.version # entry.version

\* The package of a name; the context of a name that the manifests have too late or twice is not built:
\* a second package is reported through the first, which an entry that came before it does not have.
Found(name) == {m \in Mfs : HasPkg(name, m)}
buildContext(name) ==
    CASE Cardinality(Found(name)) > 1 -> "error"
      [] manifest[name] # NoEntry /\ \E m \in Found(name) : m > manifest[name].mf -> "panic"
      [] OTHER -> "ok"

\* Mutant: a repository is declared again.
RepoDeclFileMut(name) == TRUE
RepoDeclFile(name) == declared[name] = 0

\* The actions for a name, or the error that ends the run.
Planned(name, labels) ==
    LET entry == manifest[name]
        old == CHOOSE m \in Mfs : HasPkg(name, m)
    IN  IF Found(name) = {}
        THEN IF entry = NoEntry THEN {}
             ELSE {[do |-> IF disk[name][entry.mf].dir # "absent" \/ (entry.local /\ ~RepoDeclFile(name))
                           THEN "error" ELSE "add", name |-> name, from |-> entry.mf, to |-> entry.mf]}
        ELSE IF entry = NoEntry THEN {[do |-> "delete", name |-> name, from |-> old, to |-> old]}
        ELSE IF old # entry.mf \/ needsUpdate(disk[name][old], entry)
        THEN {[do |-> "update", name |-> name, from |-> old, to |-> entry.mf]}
        ELSE IF ~entry.local /\ (labels \/ disk[name][old].local)
        THEN {[do |-> "label", name |-> name, from |-> old, to |-> old]}
        ELSE {}

\* The context, then the plan; any error ends the run before anything is written.
vendorBender(actions, done) ==
    /\ outcome # "running" /\ runs < MaxRuns /\ runs' = runs + 1 /\ synced' = {}
    /\ LET bad == {buildContext(n) : n \in Names} \ {"ok"}
       IN  IF \E n \in Names : manifest[n] # NoEntry /\ ~validateManifestEntry(manifest[n])
           THEN outcome' = "error" /\ plan' = {}
           ELSE IF bad # {} THEN outcome' \in bad /\ plan' = {}
           ELSE IF \E a \in actions : a.do = "error" THEN outcome' = "error" /\ plan' = {}
           ELSE /\ plan' = actions
                /\ outcome' = IF actions = {} THEN done ELSE "running"
    /\ UNCHANGED <<manifest, disk, declared, opened, step, edits>>
vendor(labels) == vendorBender(UNION {Planned(n, labels) : n \in Names}, "ok")
\* buildRegenPlan: the packages that have an entry.
regen == vendorBender(
    UNION {{[do |-> "regen", name |-> n, from |-> m, to |-> m] : m \in Found(n)} :
              n \in {x \in Names : manifest[x] # NoEntry}}, "regenerated")

-----------------------------------------------------------------------------
(* renderPlan, one action after the other. *)

End(how) == outcome' = how /\ plan' = {} /\ step' = Idle
\* The next action, or the end of the plan.
ActionDone(a) ==
    /\ plan' = plan \ {a} /\ step' = Idle
    /\ outcome' = IF plan # {a} THEN "running" ELSE IF a.do = "regen" THEN "regenerated" ELSE "ok"
Doing(at) == step # Idle /\ step.at = at
Here == disk[step.a.name]

(* The files in a temporary directory, and what METADATA will say.  Empty METADATA, which
   crateProcess returns for a crate that is excluded or could not be copied, is followed through a
   nil pointer. *)
NoMetadata == [dir |-> "no metadata"]
GitPkg(entry) == {Pkg("git", entry.version, entry.version, entry.local, TRUE)}
\* METADATA has the version that go mod download found for the one asked for.
ModVersion(version) == {version, Canonical}
GoPkg(entry) == {Pkg("go", v, entry.version, entry.local, TRUE) : v \in ModVersion(entry.version)}
\* METADATA has the version of the crate that cargo chose.
crateProcess(v, entry) == {NoMetadata, Pkg("rust", v, entry.version, entry.local, TRUE)}
RustPkg(entry) == UNION {crateProcess(v, entry) : v \in Versions}
\* A zip entry is read as if it were a Git one, through a nil pointer, and ZipPkg is not reached.
Fetched(entry) ==
    CASE entry.kind = "git" -> GitPkg(entry)
      [] entry.kind = "go" -> GoPkg(entry)
      [] entry.kind = "rust" -> RustPkg(entry)
      [] OTHER -> {NoMetadata}

\* syncPackage as far as updateMetadataFile.
Fetch(a) ==
    /\ step = Idle /\ a \in plan /\ a.do \in {"add", "update"}
    /\ \/ \E p \in Fetched(manifest[a.name]) :
            IF p = NoMetadata THEN End("panic")
            ELSE step' = [at |-> "fetched", a |-> a, pkg |-> p] /\ UNCHANGED <<plan, outcome>>
       \/ End("error")
    /\ UNCHANGED <<manifest, disk, declared, opened, synced, runs, edits>>

\* The foreign files are copied to the new package and the old one is removed; an error in between
\* leaves some of its files.
Removed(p) == {[p EXCEPT !.whole = FALSE], Junk}
RemoveOld ==
    /\ Doing("fetched")
    /\ LET a == step.a IN
        \/ /\ disk' = [disk EXCEPT ![a.name][a.from] = Absent]
           /\ step' = [step EXCEPT !.at = "removed"] /\ UNCHANGED <<plan, outcome>>
        \/ /\ HasPkg(a.name, a.from) /\ End("error")
           /\ \E d \in Removed(Here[a.from]) \cup {Here[a.from]} : disk' = [disk EXCEPT ![a.name][a.from] = d]
    /\ UNCHANGED <<manifest, declared, opened, synced, runs, edits>>
\* CopyDir to the final place; METADATA may be among the files that were copied before an error.
Copied(p) == {Absent, Junk, [p EXCEPT !.whole = FALSE]}
Copy ==
    /\ Doing("removed")
    /\ LET a == step.a IN
        \/ /\ disk' = [disk EXCEPT ![a.name][a.to] = step.pkg]
           /\ step' = [step EXCEPT !.at = "copied"] /\ synced' = synced \cup {a.name}
           /\ UNCHANGED <<plan, outcome>>
        \/ /\ End("error") /\ UNCHANGED synced
           /\ \E d \in Copied(step.pkg) : disk' = [disk EXCEPT ![a.name][a.to] = d]
    /\ UNCHANGED <<manifest, declared, opened, runs, edits>>
\* createCl reconciles the new place, and that only.
createCl ==
    /\ Doing("copied")
    /\ \/ /\ opened' = opened \cup {<<step.a.name, step.a.to>>}
          /\ IF step.a.do = "add" /\ step.pkg.local
             THEN step' = [step EXCEPT !.at = "declare"] /\ UNCHANGED <<plan, outcome>>
             ELSE ActionDone(step.a)
       \/ End("error") /\ UNCHANGED opened
    /\ UNCHANGED <<manifest, disk, declared, synced, runs, edits>>
ModifyRepoDecl ==
    /\ Doing("declare")
    /\ \/ ActionDone(step.a) /\ declared' = [declared EXCEPT ![step.a.name] = @ + 1]
       \/ End("error") /\ UNCHANGED declared
    /\ UNCHANGED <<manifest, disk, opened, synced, runs, edits>>

\* pkgDelete: the files are opened for delete, then removed.
pkgDelete(a) ==
    /\ step = Idle /\ a \in plan /\ a.do = "delete"
    /\ \/ /\ disk' = [disk EXCEPT ![a.name][a.from] = Absent] /\ opened' = opened \cup {<<a.name, a.from>>}
          /\ ActionDone(a)
       \/ /\ End("error")
          /\ \/ UNCHANGED <<disk, opened>>
             \/ /\ opened' = opened \cup {<<a.name, a.from>>}
                /\ \E d \in Removed(disk[a.name][a.from]) : disk' = [disk EXCEPT ![a.name][a.from] = d]
    /\ UNCHANGED <<manifest, declared, synced, runs, edits>>
\* labelUpdate, if there are labels to replace: the WORKSPACE file goes, METADATA is left alone.
labelUpdate(a) ==
    /\ step = Idle /\ a \in plan /\ a.do = "label"
    /\ \/ ActionDone(a) \/ End("error")
    /\ opened' \in {opened, opened \cup {<<a.name, a.from>>}}
    /\ UNCHANGED <<manifest, disk, declared, synced, runs, edits>>

\* bazelRegen: GazellePkg opens the BUILD files of a Go package for edit, or for delete and add what
\* gazelle removed and made.  With -clean they are gone until gazelle has run.
GazellePkg(a) ==
    /\ step = Idle /\ a \in plan /\ a.do = "regen" /\ manifest[a.name].kind = "go"
    /\ \/ ActionDone(a) /\ opened' = opened \cup {<<a.name, a.from>>} /\ UNCHANGED disk
       \/ /\ End("error") /\ opened' \in {opened, opened \cup {<<a.name, a.from>>}}
          /\ \E whole \in BOOLEAN :
                disk' = [disk EXCEPT ![a.name][a.from].whole = @ /\ whole]
    /\ UNCHANGED <<manifest, declared, synced, runs, edits>>
RegenNothing(a) ==
    /\ step = Idle /\ a \in plan /\ a.do = "regen" /\ manifest[a.name].kind # "go"
    /\ ActionDone(a)
    /\ UNCHANGED <<manifest, disk, declared, opened, synced, runs, edits>>

Next ==
    \/ \E n \in Names, e \in Entries \cup {NoEntry} : EditManifest(n, e)
    \/ (\E labels \in BOOLEAN : vendor(labels)) \/ regen
    \/ \E a \in plan : Fetch(a) \/ pkgDelete(a) \/ labelUpdate(a) \/ GazellePkg(a) \/ RegenNothing(a)
    \/ RemoveOld \/ Copy \/ createCl \/ ModifyRepoDecl

Spec == Init /\ [][Next]_vars

-----------------------------------------------------------------------------
(* What a run of vendor that ended without an error promises, whatever failed in the runs before:
   every entry of the manifests has its package in its place, made of the version the entry asks for
   (a crate only if this run wrote it), and no other package is left; what this run wrote is whole
   and in a changelist.  And no repository is ever declared twice. *)
VendoredAsAsked ==
    /\ \A n \in Names : declared[n] <= 1
    /\ outcome = "ok" =>
        /\ \A n \in Names : Found(n) = (IF manifest[n] = NoEntry THEN {} ELSE {manifest[n].mf})
        /\ \A n \in Names : manifest[n] # NoEntry =>
              LET p == disk[n][manifest[n].mf]
              IN  /\ p.kind = manifest[n].kind
                  /\ p.content = manifest[n].version \/ (p.kind = "rust" /\ n \notin synced)
                  /\ n \in synced => p.whole /\ <<n, manifest[n].mf>> \in opened
=============================================================================
