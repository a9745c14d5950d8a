----------------------------- MODULE MCPresubmit -----------------------------
(***************************************************************************)
(* The two halves of a presubmit, side by side: the search for the CICD    *)
(* files of a change, and the checks those files ask for.  which says      *)
(* which half a behaviour is about.                                        *)
(*                                                                         *)
(* The search: a monorepo with the directories a, a/b and a/c, a change    *)
(* with a file in the root, in a/b and two in a/c, and every combination   *)
(* of CICD files.  The checks: a handful of units that share their tools   *)
(* and inputs, in combinations of the choices below.                       *)
(***************************************************************************)
EXTENDS CicdFileSearch

CONSTANTS BuildUnits, TestUnits, BuildTestUnits, Actions, Suites, Files, Repos

CONSTANTS lib, gen,      \* a Bazel build unit, and one with a tool and inputs
          unit, run,     \* a Bazel test, and one with a tool and inputs
          wraps,         \* a build_test_unit of gen
          all, sub,      \* test suites
          fmt,           \* a checker tool
          f1, f2,        \* files
          CheckedIn, Missing, BadLabel, Invalid

MCDirs   == {"", "a", "a/b", "a/c"}
MCParent == ("a" :> ".") @@ ("a/b" :> "a") @@ ("a/c" :> "a")
MCDirOf  == ("file" :> ".") @@ ("a/b/file" :> "a/b") @@ ("a/c/f" :> "a/c")
            @@ ("a/c/g" :> "a/c")
MCNames  == {"CICD", "CICD.textpb"}

(* What a directory may hold under the two names. *)
MCContents ==
  {<<"absent", "absent">>, <<"dir", "file">>, <<"file", "file">>,
   <<"garbled", "absent">>}

MCDisks ==
  {[p \in MCDirs \X MCNames |-> c[p[1]][IF p[2] = "CICD" THEN 1 ELSE 2]] :
     c \in [MCDirs -> MCContents]}

MCRank ==
  [p \in MCDirs \X MCNames |->
     CASE p[1] = "a/b" -> 0 [] p[1] = "a/c" -> 2 [] p[1] = "a" -> 4
       [] p[1] = "" -> 6]
MCRankOf == [p \in MCDirs \X MCNames |->
               MCRank[p] + (IF p[2] = "CICD" THEN 0 ELSE 1)]

-----------------------------------------------------------------------------
Check(l) == [kind |-> "check", of |-> l]
Build(l) == [kind |-> "build", of |-> l]
Test(l) == [kind |-> "test", of |-> l]

(* The requests of the first presubmit.  The second asks for the unit      *)
(* under everything and for a test, so that units come up again.           *)
FirstRequests ==
  { <<Check(fmt), Build(gen), Test(all)>>,
    <<Test(all), Test(run)>>,
    <<Build(lib), Test(wraps), Test(sub)>>,
    <<Build(Missing), Build(unit), Build(gen)>>,
    <<Build(BadLabel), Check(fmt)>>,
    <<Test(BadLabel), Test(gen)>> }

\* Suites with shared members, that contain each other, or a label that is none.
SuiteChoices ==
  { [s \in {all, sub} |-> IF s = all THEN <<unit, sub>> ELSE <<run, unit>>],
    [s \in {all, sub} |-> IF s = all THEN <<run, all>> ELSE <<all>>],
    [s \in {all, sub} |-> IF s = all THEN <<wraps, sub>> ELSE <<run, all>>],
    [s \in {all, sub} |-> IF s = all THEN <<unit, Missing>> ELSE <<wraps>>] }

\* The tool and the inputs of gen and of run: units, checked in, or missing.
ToolChoice(genBin, genDeps, runBin, runDeps) ==
  << [u \in {gen, run, fmt} |-> CASE u = gen -> genBin [] u = run -> runBin [] u = fmt -> lib],
     [u \in {gen, run, fmt} |-> CASE u = gen -> genDeps [] u = run -> runDeps [] u = fmt -> <<>>] >>
ToolChoices ==
  { ToolChoice(lib, <<lib>>, gen, <<lib, gen>>), ToolChoice(CheckedIn, <<Missing>>, gen, <<lib, gen>>),
    ToolChoice(lib, <<lib>>, CheckedIn, <<lib, gen>>), ToolChoice(CheckedIn, <<lib>>, gen, <<Missing>>) }

ToolIs(registered, supportsFix, needsDescription) ==
  [a \in {fmt} |-> [registered |-> registered, supportsFix |-> supportsFix,
                    needsDescription |-> needsDescription]]

(* The checker tool, the options of the run and the patterns of the second *)
(* presubmit; the first matches everything.                                *)
Mode(tool, fixOnly, described, include, exclude) ==
  [tool |-> tool, fixOnly |-> fixOnly, described |-> described,
   include |-> include, exclude |-> exclude]

ModeChoices ==
  { Mode(ToolIs(TRUE, TRUE, FALSE), FALSE, TRUE, <<{f1}>>, <<{f2}>>),
    Mode(ToolIs(TRUE, TRUE, FALSE), TRUE, TRUE, <<{f1}>>, <<>>),
    Mode(ToolIs(TRUE, FALSE, TRUE), TRUE, TRUE, <<>>, <<>>),
    Mode(ToolIs(TRUE, FALSE, TRUE), FALSE, FALSE, <<{f1, f2}>>, <<{f1}>>),
    Mode(ToolIs(FALSE, FALSE, FALSE), FALSE, TRUE, <<{f2}>>, <<>>),
    Mode(ToolIs(TRUE, FALSE, TRUE), FALSE, TRUE, <<Invalid, {f1}>>, <<>>) }

MCRepos ==
  { [bazel |-> {lib, unit}, bin |-> t[1], deps |-> t[2],
     builds |-> [u \in {wraps} |-> gen], suite |-> s, tool |-> m.tool,
     args |-> [u \in {lib, unit} |-> IF u = lib THEN 1 ELSE 2],
     fixOnly |-> m.fixOnly, described |-> m.described, changed |-> {f1},
     presubmits |-> << [include |-> <<>>, exclude |-> <<>>, requests |-> q],
                       [include |-> m.include, exclude |-> m.exclude,
                        requests |-> <<Check(fmt), Build(lib), Test(run)>>] >>] :
     t \in ToolChoices, s \in SuiteChoices, m \in ModeChoices, q \in FirstRequests }

VARIABLES which, repo, buildCache, toolCache, stack, ret, ran, panicked, stage, todo, seen, work, visited,
          expanded, checks, left, success
checksVars == <<repo, buildCache, toolCache, stack, ret, ran, panicked, stage, todo, seen, work, visited,
                expanded, checks, left, success>>
Checks == INSTANCE Presubmit WITH phase <- stage
ASSUME ReposAssumption == Checks!PresubmitConstants

allVars == <<vars, which, checksVars>>
Unused == 0
SearchInit ==
    /\ which = "search" /\ Init
    /\ repo = Unused /\ buildCache = Unused /\ toolCache = Unused /\ stack = Unused /\ ret = Unused
    /\ ran = Unused /\ panicked = Unused /\ stage = Unused /\ todo = Unused /\ seen = Unused
    /\ work = Unused /\ visited = Unused /\ expanded = Unused /\ checks = Unused /\ left = Unused
    /\ success = Unused
ChecksInit == which = "checks" /\ disk = (CHOOSE d \in Disks : TRUE) /\ Init /\ Checks!Init

OfSearch(A) == which = "search" /\ A /\ UNCHANGED <<which, checksVars>>
Walk(i) == OfSearch(WalkerStep(i))
LoadAll == OfSearch(StartLoading)
LoadOne(p) == OfSearch(Load(p))
Answered == OfSearch(Return)
ChecksStep == which = "checks" /\ Checks!Next /\ UNCHANGED <<which, vars>>
PresubmitNext ==
    (\E i \in Inputs : Walk(i)) \/ LoadAll \/ (\E p \in Paths : LoadOne(p)) \/ Answered \/ ChecksStep

\* The fairness of either.
PresubmitSpec ==
    /\ SearchInit \/ ChecksInit
    /\ [][PresubmitNext]_allVars
    /\ \A i \in Inputs : WF_allVars(Walk(i))
    /\ \A p \in Paths : WF_allVars(LoadOne(p))
    /\ WF_allVars(LoadAll) /\ WF_allVars(Answered) /\ WF_allVars(ChecksStep)

-----------------------------------------------------------------------------
(* FindCicdFiles implements what a Provider promises (ProviderSpec): it returns, once, exactly the
   CICD files above the inputs, in path order, or an error when one of them cannot be read. *)
ProvidesFiles ==
    ProvideInit /\ [][Provide]_<<disk, result>> /\ <>(which = "checks" \/ result # Pending)

(* The verdict of a presubmit is right: success only when everything the change asks for has
   really run and passed, failure only for a reason within it, and no unit is built or tested
   twice on the way. *)
VerdictRight == which = "checks" => Checks!VerdictSound /\ Checks!NoFalseAlarm /\ Checks!OnceEach

(* Every presubmit comes to an end, although suites may contain themselves. *)
Finishes == <>(which = "search" \/ stage \in {"done", "aborted"} \/ panicked)
=============================================================================
