------------------------------ MODULE Presubmit ------------------------------
(***************************************************************************)
(* The presubmit runner (build/cicd/presubmit/presubmit.go): the checks of *)
(* the CICD files that match a change are collected, each unit once, and   *)
(* run one after the other in one build context; the verdict is whether    *)
(* all of them passed.  This is the run of one triggeredSet: the sets of   *)
(* other monorepos have contexts of their own.                             *)
(***************************************************************************)
EXTENDS BuildContext

CONSTANTS Suites,   \* labels of test suites
          BadLabel, \* a label that does not parse
          Invalid,  \* a path pattern that does not parse
          Files     \* the files of the repository

VARIABLES phase,     \* "analyze", "discover", "expand", "run", "done" or "aborted"
          todo,      \* the requested checks not looked at yet
          seen,      \* the labels a check was made for
          work,      \* expandTestSuite: the labels still to expand, in order
          visited,   \* expandTestSuite: its own seen
          expanded,  \* expandTestSuite: the test units found
          checks,    \* the checks to run
          left,      \* those not run yet
          success    \* so far

discoverVars == <<todo, seen, work, visited, expanded>>
vars == <<repo, contextVars, phase, discoverVars, checks, left, success>>

Labels == Units \cup Suites \cup {BadLabel}
Kinds == {"check", "build", "test", "fail"}
Requests == [kind : {"check"}, of : Actions] \cup [kind : {"build", "test"}, of : Labels]

\* What the CICD files, the suites of the BUILDUNIT files and the definitions of the tools say.
ValidChecks(r) ==
  /\ r.suite \in [Suites -> Seq(Labels)]
  /\ r.tool \in [Actions -> [registered : BOOLEAN, supportsFix : BOOLEAN, needsDescription : BOOLEAN]]
  /\ r.fixOnly \in BOOLEAN
  /\ r.presubmits \in Seq([include : Seq(SUBSET Files \cup {Invalid}), exclude : Seq(SUBSET Files \cup {Invalid}),
                          requests : Seq(Requests)])

\* A label names one thing: validateBuildUnits refuses a name that two build units, test
\* units or suites share.  It does not look at the build_test_units, whose names are taken to
\* be their own, and checker tools are named apart from labels.
LabelsApart ==
  LET sorts == <<BuildUnits, TestUnits, BuildTestUnits, Actions, Suites, {Missing}, {BadLabel}>>
  IN  /\ \A i, j \in DOMAIN sorts : i # j => sorts[i] \cap sorts[j] = {}
      /\ CheckedIn \notin Buildable

PresubmitConstants == LabelsApart /\ ReposOK /\ \A r \in Repos : ValidChecks(r)

TypeOK ==
  /\ ContextTypeOK
  /\ \A i \in DOMAIN stack : stack[i].at <= Len(Needs(stack[i].unit)) + 1
  /\ phase \in {"analyze", "discover", "expand", "run", "done", "aborted"}
  /\ todo \in Seq(Requests)
  /\ seen \subseteq Labels /\ visited \subseteq Labels
  /\ work \in Seq(Labels) /\ expanded \in Seq(Labels)
  /\ checks \in Seq([kind: Kinds, of: Labels])
  /\ left \subseteq DOMAIN checks
  /\ success \in BOOLEAN

Init ==
  /\ repo \in Repos
  /\ NewContext
  /\ phase = "analyze"
  /\ todo = <<>> /\ seen = {} /\ work = <<>> /\ visited = {} /\ expanded = <<>>
  /\ checks = <<>> /\ left = {} /\ success = TRUE

-----------------------------------------------------------------------------
(* Which presubmits a change triggers.  A pattern is the set of files it   *)
(* matches.  One that does not parse takes the whole list with it: the     *)
(* error is not passed on.                                                 *)
PathExprs(patterns) == IF Invalid \in ToSet(patterns) THEN {} ELSE ToSet(patterns)

Includes(ps) == IF ps.include = <<>> THEN {Files} ELSE PathExprs(ps.include)

Match(ps, f) ==
  /\ \A e \in PathExprs(ps.exclude) : f \notin e
  /\ \E e \in Includes(ps) : f \in e

Triggered(ps) == \E f \in repo.changed : Match(ps, f)

AnalyzeChange ==
  /\ phase = "analyze"
  /\ todo' = FlattenSeq([i \in DOMAIN repo.presubmits |->
               IF Triggered(repo.presubmits[i]) THEN repo.presubmits[i].requests ELSE <<>>])
  /\ phase' = "discover"
  /\ UNCHANGED <<repo, contextVars, seen, work, visited, expanded, checks, left, success>>

(* p4 opened, a CICD file, the tool definitions or the directory for the   *)
(* tools cannot be had: there is an error in place of a verdict.           *)
AnalyzeFails ==
  /\ phase = "analyze"
  /\ phase' = "aborted"
  /\ UNCHANGED <<repo, contextVars, discoverVars, checks, left, success>>

-----------------------------------------------------------------------------
(* Collecting the checks.                                                  *)
Fail(l) == [kind |-> "fail", of |-> l]

Request(kind) == phase = "discover" /\ todo # <<>> /\ Head(todo).kind = kind

\* Checks that cannot be run in this mode are left out.
Applicable(a) ==
  /\ repo.fixOnly => repo.tool[a].supportsFix
  /\ repo.tool[a].needsDescription => repo.described

DiscoverCheck ==
  /\ Request("check")
  /\ LET a == Head(todo).of IN
       checks' = CASE ~repo.tool[a].registered -> Append(checks, Fail(a))
                   [] repo.tool[a].registered /\ Applicable(a) -> Append(checks, Head(todo))
                   [] OTHER -> checks
  /\ todo' = Tail(todo)
  /\ UNCHANGED <<repo, contextVars, phase, seen, work, visited, expanded, left, success>>

\* The check of a unit, unless its flags cannot be told.
UnitCheck(kind, l) == IF HasBazelArgs(l) THEN [kind |-> kind, of |-> l] ELSE Fail(l)

DiscoverBuild ==
  /\ Request("build")
  /\ LET l == Head(todo).of IN
       CASE repo.fixOnly -> UNCHANGED <<checks, seen>>
         [] ~repo.fixOnly /\ l = BadLabel -> checks' = Append(checks, Fail(l)) /\ UNCHANGED seen
         [] ~repo.fixOnly /\ l \in seen -> UNCHANGED <<checks, seen>>
         [] OTHER -> /\ checks' = Append(checks, UnitCheck("build", l))
                     /\ seen' = seen \cup {l}
  /\ todo' = Tail(todo)
  /\ UNCHANGED <<repo, contextVars, phase, work, visited, expanded, left, success>>

\* A test that needs no expansion: left out, or a label that does not parse.
DiscoverTest ==
  /\ Request("test")
  /\ repo.fixOnly \/ Head(todo).of \in seen \cup {BadLabel}
  /\ checks' = IF ~repo.fixOnly /\ Head(todo).of = BadLabel
               THEN Append(checks, Fail(BadLabel)) ELSE checks
  /\ todo' = Tail(todo)
  /\ UNCHANGED <<repo, contextVars, phase, seen, work, visited, expanded, left, success>>

ExpandStart ==
  /\ Request("test")
  /\ ~repo.fixOnly /\ Head(todo).of \notin seen \cup {BadLabel}
  /\ seen' = seen \cup {Head(todo).of}
  /\ work' = <<Head(todo).of>> /\ visited' = {} /\ expanded' = <<>>
  /\ phase' = "expand"
  /\ UNCHANGED <<repo, contextVars, todo, checks, left, success>>

-----------------------------------------------------------------------------
(* expandTestSuite, whose recursion takes the labels in the order of work; *)
(* a suite that says "..." lists every test and suite below it.            *)
IsTest(l) == l \in TestUnits \cup BuildTestUnits

\* Mutant: suites that were seen are expanded again.
SkippedMut(l) == l \in visited \ Suites

\* expandTestSuite returns nothing for a label it has seen.
Skipped(l) == l \in visited

Visit ==
  /\ phase = "expand" /\ work # <<>>
  /\ LET l == Head(work) IN
       /\ Skipped(l) \/ IsTest(l) \/ l \in Suites
       /\ visited' = visited \cup {l}
       /\ work' = IF l \in Suites /\ ~Skipped(l) THEN repo.suite[l] \o Tail(work) ELSE Tail(work)
       /\ expanded' = IF IsTest(l) /\ ~Skipped(l) THEN Append(expanded, l) ELSE expanded
  /\ UNCHANGED <<repo, contextVars, phase, todo, seen, checks, left, success>>

\* A label that is no test fails the whole expansion.
ExpandFails ==
  /\ phase = "expand" /\ work # <<>>
  /\ ~(Skipped(Head(work)) \/ IsTest(Head(work)) \/ Head(work) \in Suites)
  /\ checks' = Append(checks, Fail(Head(todo).of))
  /\ work' = <<>> /\ visited' = {} /\ expanded' = <<>>
  /\ todo' = Tail(todo)
  /\ phase' = "discover"
  /\ UNCHANGED <<repo, contextVars, seen, left, success>>

\* Mutant: the request itself counts as one that has a check.
IsNewMut(l) == l \notin seen

\* A test of the expansion that has a check already gets no second one; the
\* request itself was put into seen before.
IsNew(l) == l \notin seen \/ l = Head(todo).of

\* One turn of the loop over the tests of the expansion.
AddTest ==
  /\ phase = "expand" /\ work = <<>> /\ expanded # <<>>
  /\ LET l == Head(expanded) IN
       /\ checks' = IF IsNew(l) THEN Append(checks, UnitCheck("test", l)) ELSE checks
       /\ seen' = seen \cup {l}
  /\ expanded' = Tail(expanded)
  /\ UNCHANGED <<repo, contextVars, phase, todo, work, visited, left, success>>

ExpandEnds ==
  /\ phase = "expand" /\ work = <<>> /\ expanded = <<>>
  /\ visited' = {}
  /\ todo' = Tail(todo)
  /\ phase' = "discover"
  /\ UNCHANGED <<repo, contextVars, seen, work, expanded, checks, left, success>>

-----------------------------------------------------------------------------
(* Running them: the checks with the most flags first, and otherwise in    *)
(* the order sort.Slice leaves them, which it does not promise.            *)
SortOrder(c) == IF c.kind \in {"build", "test"} THEN BazelArgs(c.of) ELSE 0

SortChecks ==
  /\ phase = "discover" /\ todo = <<>>
  /\ left' = DOMAIN checks
  /\ phase' = "run"
  /\ UNCHANGED <<repo, contextVars, discoverVars, checks, success>>

\* Build of the label of a check_build.  One that names a unit of another sort has flags, but is not found.
Build(l) ==
  IF l \in Buildable THEN BuildWithCache(l) ELSE ret' = "error" /\ UNCHANGED <<stack, panicked>>

RunCheck ==
  /\ phase = "run" /\ stack = <<>> /\ ret = "none" /\ ~panicked
  /\ \E i \in left :
       /\ \A j \in left : SortOrder(checks[j]) <= SortOrder(checks[i])
       /\ left' = left \ {i}
       /\ CASE checks[i].kind = "fail" -> success' = FALSE /\ UNCHANGED <<stack, ret, panicked>>
            [] checks[i].kind = "build" -> Build(checks[i].of) /\ UNCHANGED success
            [] OTHER -> Call(checks[i].of) /\ UNCHANGED <<ret, panicked, success>>
  /\ UNCHANGED <<repo, buildCache, toolCache, ran, phase, discoverVars, checks>>

\* A check counts for the success in its result; without a result it failed.
CheckPassed(r) == r = "ok"

CheckResult ==
  /\ phase = "run" /\ stack = <<>> /\ ret # "none"
  /\ success' = (success /\ CheckPassed(ret))
  /\ ret' = "none"
  /\ UNCHANGED <<repo, buildCache, toolCache, stack, ran, panicked, phase, discoverVars, checks, left>>

PresubmitEnd ==
  /\ phase = "run" /\ left = {} /\ stack = <<>> /\ ret = "none" /\ ~panicked
  /\ phase' = "done"
  /\ UNCHANGED <<repo, contextVars, discoverVars, checks, left, success>>

ContextNext ==
  /\ ContextStep
  /\ UNCHANGED <<phase, discoverVars, checks, left, success>>

Next ==
  \/ AnalyzeChange \/ AnalyzeFails
  \/ DiscoverCheck \/ DiscoverBuild \/ DiscoverTest
  \/ ExpandStart \/ Visit \/ ExpandFails \/ AddTest \/ ExpandEnds
  \/ SortChecks \/ RunCheck \/ CheckResult \/ PresubmitEnd
  \/ ContextNext

Spec == Init /\ [][Next]_vars

\* One sequential program: as long as it has a step to take, it takes it.
FairSpec == Spec /\ WF_vars(Next)

-----------------------------------------------------------------------------
(* What was asked for, told from the files alone.                          *)

\* The files say what they mean: every pattern of every presubmit parses.
PatternsParse ==
  \A i \in DOMAIN repo.presubmits :
     Invalid \notin ToSet(repo.presubmits[i].include) \cup ToSet(repo.presubmits[i].exclude)

Requested ==
  UNION { {repo.presubmits[i].requests[j] : j \in DOMAIN repo.presubmits[i].requests} :
          i \in {k \in DOMAIN repo.presubmits : Triggered(repo.presubmits[k])} }

\* The labels whose success the verdict is about.
Roots ==
  {r.of : r \in {q \in Requested :
      IF q.kind = "check" THEN ~repo.tool[q.of].registered \/ Applicable(q.of)
                          ELSE ~repo.fixOnly}}

\* What a label stands on: the members of a suite, the tool and inputs of a unit.
Below(l) ==
  CASE l \in Suites -> ToSet(repo.suite[l])
    [] l \in Units -> {n.unit : n \in ToSet(Needs(l))}
    [] OTHER -> {}

\* All of it: the least set of labels that has the roots and, with a label, what it stands on.
Demanded ==
  LET roots == Roots
      below == [l \in Labels |-> Below(l)]
      closed == {D \in SUBSET Labels : roots \subseteq D /\ \A l \in D : below[l] \subseteq D}
  IN  {l \in Labels : \A D \in closed : l \in D}

Passed(u) == ran[u] # <<>> /\ ToSet(ran[u]) = {"ok"}

Unregistered(l) == l \in Actions /\ ~repo.tool[l].registered

(***************************************************************************)
(* A presubmit that ends with success has really run, and seen pass, the   *)
(* command of every check, unit, test of a suite and dependency that the   *)
(* change asks for: nothing is lost to the suites' seen, to that of the    *)
(* checks, or to the caches (triggeredSet.run, expandTestSuite,            *)
(* buildWithCache).                                                        *)
(***************************************************************************)
VerdictSound ==
  (phase = "done" /\ success /\ PatternsParse) =>
    \A l \in Demanded :
       /\ l # BadLabel /\ ~Unregistered(l)
       /\ l \in Units \ BuildTestUnits => Passed(l)

\* What BazelArgs takes for a missing unit.
HasCheckedInBin(l) == l \in TestUnits /\ l \notin repo.bazel /\ repo.bin[l] = CheckedIn

\* Something is wrong with the label itself, or with a check that needs it.
Broken(l) ==
  \/ l \in {BadLabel, Missing} \/ Unregistered(l) \/ HasCheckedInBin(l)
  \/ l \in Units /\ ran[l] # <<>> /\ ~Passed(l)

\* A check_test, and a suite, must name tests: a build unit is none.
NotATest(l) ==
  /\ ~IsTest(l) /\ l \notin Suites
  /\ \/ [kind |-> "test", of |-> l] \in Requested
     \/ \E s \in Suites : l \in ToSet(repo.suite[s])

\* Nor can a check_build name a test.
NotABuild(l) == l \notin BuildUnits /\ [kind |-> "build", of |-> l] \in Requested

(***************************************************************************)
(* A presubmit that ends with failure has a reason within what the change  *)
(* asks for: a command that did not pass, or a request that cannot be met. *)
(* Suites that contain each other, shared dependencies and units asked for *)
(* twice are none.  (A test whose bin is checked in is one, although       *)
(* sgeb.proto allows it.)                                                  *)
(***************************************************************************)
NoFalseAlarm ==
  (phase = "done" /\ ~success /\ PatternsParse) =>
    \E l \in Demanded : Broken(l) \/ NotATest(l) \/ NotABuild(l)

(***************************************************************************)
(* However many checks and units need it, a unit is built once and a test  *)
(* is run once in a presubmit (context.buildCache, the seen of             *)
(* triggeredSet.run).                                                      *)
(***************************************************************************)
OnceEach == \A u \in Units \ Actions : Len(ran[u]) <= 1

(***************************************************************************)
(* Every presubmit comes to an end, with a verdict, an error or, after a   *)
(* unit was asked for again whose build gave no result, a panic: suites    *)
(* that contain themselves are expanded once (expandTestSuite).            *)
(***************************************************************************)
Finishes == <>(phase \in {"done", "aborted"} \/ panicked)
=============================================================================
