---------------------------- MODULE BuildContext ----------------------------
(***************************************************************************)
(* The sgeb build context (build/cicd/sgeb/build/build.go): what one       *)
(* process remembers while it builds and tests units.  Units need other    *)
(* units, as their tool or as their inputs, and are built on the way; the  *)
(* recursion of the code is the variable stack.  What a command does is    *)
(* its outcome:                                                            *)
(*   "ok"      a result that says success,                                 *)
(*   "failed"  a result that says failure, and a "failed" error,           *)
(*   "error"   no result at all, only an error,                            *)
(*   "panic"   the end of the process.                                     *)
(* A context has one caller; Presubmit.tla is one.                         *)
(***************************************************************************)
EXTENDS Integers, Sequences, SequencesExt

CONSTANTS BuildUnits,      \* labels of build units
          TestUnits,       \* labels of test units
          BuildTestUnits,  \* labels of build_test_units
          Actions,         \* the checker tools, which are resolved like any other bin
          CheckedIn,       \* a bin that is a file of the repository
          Missing,         \* a label that no BUILDUNIT file defines
          Repos            \* what the BUILDUNIT and CICD files may say

\* What validateBuildUnits lets through: a unit is a Bazel target or has a bin,
\* never both.
ValidUnits(r) ==
  /\ r.bazel \subseteq BuildUnits \cup TestUnits
  /\ LET tooled == (BuildUnits \cup TestUnits \cup Actions) \ r.bazel IN
       /\ r.bin \in [tooled -> BuildUnits \cup {CheckedIn, Missing}]
       /\ r.deps \in [tooled -> Seq(BuildUnits \cup {Missing})]
  /\ r.builds \in [BuildTestUnits -> BuildUnits \cup {Missing}]

ReposOK == \A r \in Repos : ValidUnits(r)

VARIABLES repo,        \* the files of this run, one of Repos
          buildCache,  \* context.buildCache: how the build of a unit ended, or "none"
          toolCache,   \* context.toolCache: the tools that were copied
          stack,       \* the calls under way, the innermost last
          ret,         \* what the call that has just returned gave, or "none"
          ran,         \* history: the outcomes of the commands of a unit
          panicked     \* the process is dead

contextVars == <<buildCache, toolCache, stack, ret, ran, panicked>>

Buildable == BuildUnits \cup {Missing}
Units == Buildable \cup TestUnits \cup BuildTestUnits \cup Actions
Results == {"ok", "failed", "error"}

ContextTypeOK ==
  /\ buildCache \in [Buildable -> Results \cup {"none"}]
  /\ toolCache \subseteq BuildUnits
  /\ stack \in Seq([unit: Units, at: Nat \ {0}])
  /\ ret \in Results \cup {"none"}
  /\ ran \in [Units -> Seq(Results \cup {"panic"})]
  /\ panicked \in BOOLEAN

NewContext ==
  /\ buildCache = [u \in Buildable |-> "none"]
  /\ toolCache = {}
  /\ stack = <<>>
  /\ ret = "none"
  /\ ran = [u \in Units |-> <<>>]
  /\ panicked = FALSE

-----------------------------------------------------------------------------
(* What a unit needs before its own command can run, in the order it is    *)
(* asked for: the tool, then the deps.  Units that are Bazel targets have  *)
(* neither (validateBuildUnits), and a build_test_unit is the build of its *)
(* unit.                                                                   *)
Tool(u) == IF repo.bin[u] = CheckedIn
           THEN <<>>
           ELSE <<[as |-> "tool", unit |-> repo.bin[u]]>>

Deps(u) == [i \in DOMAIN repo.deps[u] |-> [as |-> "dep", unit |-> repo.deps[u][i]]]

Needs(u) ==
  CASE u \in BuildTestUnits -> <<[as |-> "build", unit |-> repo.builds[u]]>>
    [] u = Missing \/ u \in repo.bazel -> <<>>
    [] OTHER -> Tool(u) \o Deps(u)

(* A Bazel build always gets a result, made up if need be.  A Bazel test   *)
(* that failed without a BEP stream is the end of the process:             *)
(* testInvocationResult reads the nil stream.                              *)
Outcomes(u) ==
  CASE u = Missing -> {"error"}
    [] u \in BuildUnits /\ u \in repo.bazel -> {"ok", "failed"}
    [] u \in TestUnits /\ u \in repo.bazel -> {"ok", "failed", "error", "panic"}
    [] OTHER -> {"ok", "failed", "error"}

-----------------------------------------------------------------------------
Innermost == Last(stack)

CurrentNeed == Needs(Innermost.unit)[Innermost.at]

\* The innermost call waits for, or is about to ask for, a unit it needs.
Needing == stack # <<>> /\ Innermost.at <= Len(Needs(Innermost.unit))

Call(u) == stack' = Append(stack, [unit |-> u, at |-> 1])

\* Mutant: a dependency is skipped.
AdvanceMut(frame) == [frame EXCEPT !.at = @ + 2]

Advance(frame) == [frame EXCEPT !.at = @ + 1]

Proceed == stack' = [stack EXCEPT ![Len(stack)] = Advance(@)]

\* Mutant: only builds that did not succeed are remembered.
CachedMut(u, r) == IF u \in Buildable /\ r # "ok" THEN [buildCache EXCEPT ![u] = r] ELSE buildCache

\* What buildWithCache stores, whatever the build returned.
Cached(u, r) == IF u \in Buildable THEN [buildCache EXCEPT ![u] = r] ELSE buildCache

Return(r) ==
  /\ stack' = Front(stack)
  /\ buildCache' = Cached(Innermost.unit, r)
  /\ ret' = r

(* A cached entry is read for its success: one without a result is a nil   *)
(* pointer.                                                                *)
BuildWithCache(u) ==
  CASE buildCache[u] = "none"  -> Call(u) /\ UNCHANGED <<ret, panicked>>
    [] buildCache[u] = "error" -> panicked' = TRUE /\ UNCHANGED <<stack, ret>>
    [] OTHER                   -> ret' = buildCache[u] /\ UNCHANGED <<stack, panicked>>

\* A tool that was copied before is used again.
ToolReady ==
  /\ Needing /\ ret = "none" /\ ~panicked
  /\ CurrentNeed.as = "tool" /\ CurrentNeed.unit \in toolCache
  /\ Proceed
  /\ UNCHANGED <<repo, buildCache, toolCache, ret, ran, panicked>>

\* Anything else is built, or taken from the cache.
Ask ==
  /\ Needing /\ ret = "none" /\ ~panicked
  /\ ~(CurrentNeed.as = "tool" /\ CurrentNeed.unit \in toolCache)
  /\ BuildWithCache(CurrentNeed.unit)
  /\ UNCHANGED <<repo, buildCache, toolCache, ran>>

(* The unit is there.  A tool must have one executable output, which is    *)
(* copied into the tool cache.                                             *)
NeedMet ==
  /\ Needing /\ ret = "ok" /\ ~panicked
  /\ \/ /\ CurrentNeed.as = "build"
        /\ Return("ok")
        /\ UNCHANGED toolCache
     \/ /\ CurrentNeed.as # "build"
        /\ Proceed
        /\ ret' = "none"
        /\ toolCache' = IF CurrentNeed.as = "tool"
                        THEN toolCache \cup {CurrentNeed.unit} ELSE toolCache
        /\ UNCHANGED buildCache
  /\ UNCHANGED <<repo, ran, panicked>>

ToolUnusable ==
  /\ Needing /\ ret = "ok" /\ ~panicked
  /\ CurrentNeed.as = "tool"
  /\ ran' = [ran EXCEPT ![Innermost.unit] = Append(@, "error")]
  /\ Return("error")
  /\ UNCHANGED <<repo, toolCache, panicked>>

(* A unit inherits the failure of what it needs.  A check reports the      *)
(* failure of its tool as an error.                                        *)
Inherited(u, r) == IF u \in Actions THEN "error" ELSE r

NeedFailed ==
  /\ Needing /\ ret \in {"failed", "error"} /\ ~panicked
  /\ Return(Inherited(Innermost.unit, ret))
  /\ UNCHANGED <<repo, toolCache, ran, panicked>>

\* A unit's own command, once it has all it needs.
Execute(units) ==
  /\ stack # <<>> /\ ~Needing /\ ~panicked
  /\ Innermost.unit \in units
  /\ \E o \in Outcomes(Innermost.unit) :
       /\ ran' = [ran EXCEPT ![Innermost.unit] = Append(@, o)]
       /\ IF o = "panic"
          THEN panicked' = TRUE /\ UNCHANGED <<stack, buildCache, ret>>
          ELSE Return(o) /\ UNCHANGED panicked
  /\ UNCHANGED <<repo, toolCache>>

ExecuteBuild == Execute(Buildable)
ExecuteTest == Execute(TestUnits)
ExecuteCheck == Execute(Actions)

ContextStep ==
  \/ ToolReady \/ Ask \/ NeedMet \/ ToolUnusable \/ NeedFailed
  \/ ExecuteBuild \/ ExecuteTest \/ ExecuteCheck

-----------------------------------------------------------------------------
\* Mutant: build_test_units are forgotten.
ArgsOfMut(u) == IF u \in TestUnits /\ u \notin repo.bazel THEN repo.bin[u] ELSE u

(* BazelArgs gives the flags a unit is sorted by, or an error when it      *)
(* cannot find the unit they belong to: it takes the bin of a test unit    *)
(* for a label, so a checked-in bin is an error.                           *)
ArgsOf(u) ==
  CASE u \in TestUnits /\ u \notin repo.bazel -> repo.bin[u]
    [] u \in BuildTestUnits -> repo.builds[u]
    [] OTHER -> u

HasBazelArgs(u) == ArgsOf(u) \in BuildUnits \cup TestUnits

\* The number of the flags, which is all the order depends on.
BazelArgs(u) == IF ArgsOf(u) \in repo.bazel THEN repo.args[ArgsOf(u)] ELSE 0
=============================================================================
