--------------------------- MODULE PresubmitProofs ---------------------------
(***************************************************************************)
(* The two halves of a presubmit, for every tree, repository and schedule: *)
(* the parallel search finds exactly the CICD files above the inputs       *)
(* (SearchCorrect), and the verdict on the checks those files ask for is   *)
(* right (VerdictRightCorrect).                                            *)
(***************************************************************************)
EXTENDS MCPresubmit, SequenceTheorems, WellFoundedInduction, TLAPS

-----------------------------------------------------------------------------
(* The search.                                                             *)

WalkerState == [pc : {"claim", "look", "done"}, dir : Dirs \cup {Dot}]

(* The part of TypeOK the search needs. *)
SearchType ==
  /\ searched \subseteq Dirs
  /\ walker \in [Inputs -> WalkerState]
  /\ \A i \in Inputs : walker[i].pc = "look" => walker[i].dir \in searched

(* Nobody looks outside the ancestors of the inputs. *)
Confined ==
  /\ searched \subseteq Ancestors
  /\ \A i \in Inputs : Directory(walker[i].dir) \in Ancestors
  /\ found \subseteq UNION {CicdFileIn(d) : d \in searched}

(* Where every claimed directory stands: its goroutine is looking at it,   *)
(* or its file has been found and the directory above it is claimed or     *)
(* about to be.  The goroutines that stopped early rely on this.           *)
Handled(d) ==
  \/ \E i \in Inputs : walker[i].pc = "look" /\ walker[i].dir = d
  \/ /\ CicdFileIn(d) \subseteq found
     /\ d # Root =>
          \/ Directory(Parent[d]) \in searched
          \/ \E i \in Inputs : walker[i].pc = "claim" /\ walker[i].dir = Parent[d]

SearchInv ==
  /\ SearchType
  /\ Confined
  /\ \A i \in Inputs :
       \/ walker[i].pc = "claim" /\ walker[i].dir = DirOf[i]
       \/ Directory(DirOf[i]) \in searched
  /\ \A d \in searched : Handled(d)
  /\ phase # "search" => Wait
  /\ Exclusive

(* A directory above one of the ancestors is one of them. *)
LEMMA AncestorsClosed ==
  /\ Ancestors \subseteq Dirs
  /\ \A i \in Inputs : Directory(DirOf[i]) \in Ancestors
  /\ \A d \in Ancestors \ {Root} : Directory(Parent[d]) \in Ancestors
<1>1. Ancestors \subseteq Dirs
  BY DEF Ancestors
<1>2. ASSUME NEW i \in Inputs PROVE Directory(DirOf[i]) \in Ancestors
  BY TreeOK DEF Ancestors, UpwardClosed, Directory
<1>3. ASSUME NEW d \in Ancestors \ {Root} PROVE Directory(Parent[d]) \in Ancestors
  <2>1. d \in Dirs /\ Directory(Parent[d]) \in Dirs
    BY TreeOK DEF Ancestors, Directory
  <2>2. ASSUME NEW S \in SUBSET Dirs, UpwardClosed(S)
        PROVE  Directory(Parent[d]) \in S
    BY <2>2 DEF Ancestors, UpwardClosed
  <2> QED BY <2>1, <2>2 DEF Ancestors
<1> QED BY <1>1, <1>2, <1>3

(* A set that holds the inputs' directories and is closed upwards holds    *)
(* every ancestor.                                                         *)
LEMMA AncestorsLeast ==
  ASSUME NEW S \in SUBSET Dirs, UpwardClosed(S)
  PROVE  Ancestors \subseteq S
BY DEF Ancestors

(* The directory a walker works on is one of the tree, also when its input has the directory ".". *)
LEMMA DirectoryInDirs ==
  ASSUME NEW d \in Dirs \cup {Dot} PROVE Directory(d) \in Dirs
BY TreeOK DEF Directory

(* The walkers start from the directories of their inputs, with nothing searched or found. *)
LEMMA SearchBegins == Init => SearchInv
<1> SUFFICES ASSUME Init PROVE SearchInv
  OBVIOUS
<1>1. \A i \in Inputs : walker[i] = [pc |-> "claim", dir |-> DirOf[i]]
  BY DEF Init
<1>2. SearchType
  BY <1>1, TreeOK DEF Init, SearchType, WalkerState
<1>3. Confined
  BY <1>1, AncestorsClosed DEF Init, Confined
<1>4. Exclusive
  <2>1. ASSUME NEW i \in Inputs PROVE walker[i].pc = "claim"
    <3> DEFINE w == [pc |-> "claim", dir |-> DirOf[i]]
    <3>1. w.pc = "claim" /\ walker[i] = w
      BY <1>1
    <3> QED BY <3>1
  <2> QED BY <2>1 DEF Exclusive
<1> QED BY <1>1, <1>2, <1>3, <1>4 DEF Init, SearchInv

(* While disk does not change, neither does what it holds. *)
LEMMA DiskFixed ==
  ASSUME UNCHANGED disk, NEW d PROVE CicdFileIn(d)' = CicdFileIn(d)
BY DEF CicdFileIn, IsFile

(* A walker that claims a directory, or finds it claimed, preserves the search invariant. *)
LEMMA ClaimStep ==
  ASSUME SearchInv, NEW i \in Inputs, Claim(i), phase = "search"
  PROVE  SearchInv'
<1> DEFINE d == Directory(walker[i].dir)
<1>0. /\ walker[i] \in WalkerState /\ d \in Dirs /\ d \in Ancestors
      /\ searched' = searched \cup {d} /\ UNCHANGED <<disk, found, phase>>
      /\ DOMAIN walker = Inputs
  BY DirectoryInDirs DEF SearchInv, SearchType, WalkerState, Confined, Claim
<1>1. /\ walker'[i].pc = (IF d \in searched THEN "done" ELSE "look")
      /\ walker'[i].dir = d
      /\ \A j \in Inputs \ {i} : walker'[j] = walker[j]
  BY <1>0 DEF Claim, AlreadySearched
<1>2. SearchType'
  <2>1. walker' \in [Inputs -> WalkerState]
    BY <1>0 DEF Claim, WalkerState, SearchInv, SearchType, AlreadySearched
  <2> QED BY <1>0, <1>1, <2>1 DEF SearchInv, SearchType
<1> HIDE DEF d
<1>3. Directory(d) = d
  BY <1>0, TreeOK DEF Directory
<1>4. Confined'
  <2>1. \A x : CicdFileIn(x)' = CicdFileIn(x)
    BY <1>0, DiskFixed
  <2>2. Ancestors' = Ancestors
    BY DEF Ancestors, UpwardClosed, Directory
  <2>3. \A j \in Inputs : Directory(walker'[j].dir) \in Ancestors
    BY <1>0, <1>1, <1>3 DEF SearchInv, Confined
  <2>4. found' \subseteq UNION {CicdFileIn(x) : x \in searched'}
    BY <1>0 DEF SearchInv, Confined
  <2>5. searched' \subseteq Ancestors
    BY <1>0 DEF SearchInv, Confined
  <2> QED BY <2>1, <2>2, <2>3, <2>4, <2>5 DEF Confined, Directory
<1>5. \A j \in Inputs :
        \/ walker'[j].pc = "claim" /\ walker'[j].dir = DirOf[j]
        \/ Directory(DirOf[j]) \in searched'
  BY <1>0, <1>1 DEF d, SearchInv
<1>6. ASSUME NEW x \in searched' PROVE Handled(x)'
  <2>1. CicdFileIn(x)' = CicdFileIn(x)
    BY <1>0, DiskFixed
  <2>2. CASE x \notin searched
    <3>1. x = d /\ walker'[i].pc = "look" /\ walker'[i].dir = x
      BY <2>2, <1>0, <1>1
    <3> QED BY <3>1 DEF Handled
  <2>3. CASE x \in searched
    <3>1. CASE \E j \in Inputs : walker[j].pc = "look" /\ walker[j].dir = x
      <4>1. PICK j \in Inputs : walker[j].pc = "look" /\ walker[j].dir = x
        BY <3>1
      <4>2. j # i
        BY <4>1 DEF Claim
      <4> QED BY <4>1, <4>2, <1>1 DEF Handled
    <3>2. CASE /\ CicdFileIn(x) \subseteq found
               /\ x # Root =>
                    \/ Directory(Parent[x]) \in searched
                    \/ \E j \in Inputs : walker[j].pc = "claim"
                                         /\ walker[j].dir = Parent[x]
      <4>1. CicdFileIn(x)' \subseteq found'
        BY <3>2, <2>1, <1>0
      <4>2. ASSUME x # Root
            PROVE  \/ Directory(Parent[x]) \in searched'
                   \/ \E j \in Inputs : walker'[j].pc = "claim"
                                        /\ walker'[j].dir = Parent[x]
        <5>1. CASE Directory(Parent[x]) \in searched
          BY <5>1, <1>0
        <5>2. CASE \E j \in Inputs : walker[j].pc = "claim"
                                     /\ walker[j].dir = Parent[x]
          <6>1. PICK j \in Inputs : walker[j].pc = "claim"
                                    /\ walker[j].dir = Parent[x]
            BY <5>2
          <6>2. CASE j = i
            BY <6>1, <6>2, <1>0 DEF d
          <6>3. CASE j # i
            BY <6>1, <6>3, <1>1
          <6> QED BY <6>2, <6>3
        <5> QED BY <3>2, <4>2, <5>1, <5>2
      <4> QED BY <4>1, <4>2 DEF Handled, Directory
    <3> QED BY <2>3, <3>1, <3>2 DEF SearchInv, Handled
  <2> QED BY <2>2, <2>3
<1>7. Exclusive'
  BY <1>0, <1>1 DEF SearchInv, SearchType, Exclusive
<1>8. (phase # "search" => Wait)'
  BY <1>0
<1> QED BY <1>2, <1>4, <1>5, <1>6, <1>7, <1>8 DEF SearchInv, Directory

(* A walker that reads the file of its directory and goes up preserves the search invariant. *)
LEMMA LookStep ==
  ASSUME SearchInv, NEW i \in Inputs, Look(i), phase = "search"
  PROVE  SearchInv'
<1> DEFINE d == walker[i].dir
           up == IF d = Root THEN [pc |-> "done", dir |-> d]
                             ELSE [pc |-> "claim", dir |-> Parent[d]]
<1>0. /\ d \in searched /\ d \in Dirs /\ d \in Ancestors
      /\ found' = found \cup CicdFileIn(d)
      /\ UNCHANGED <<disk, searched, phase>>
      /\ walker' = [walker EXCEPT ![i] = up]
      /\ walker[i].pc = "look"
  BY DEF SearchInv, SearchType, Confined, Look
<1>1. /\ up \in WalkerState /\ up.pc # "look"
      /\ d = Root => up.dir = Root
      /\ d # Root => up.pc = "claim" /\ up.dir = Parent[d]
  BY <1>0, TreeOK DEF WalkerState
<1>2. Directory(up.dir) \in Ancestors
  BY <1>0, <1>1, AncestorsClosed, TreeOK DEF Directory
<1> HIDE DEF d, up
<1>3. /\ walker'[i] = up
      /\ \A j \in Inputs \ {i} : walker'[j] = walker[j]
  BY <1>0 DEF SearchInv, SearchType
<1>4. SearchType'
  <2>1. walker' \in [Inputs -> WalkerState]
    BY <1>0, <1>1 DEF SearchInv, SearchType
  <2> QED BY <1>0, <1>1, <1>3, <2>1 DEF SearchInv, SearchType
<1>5. Confined'
  <2>1. \A x : CicdFileIn(x)' = CicdFileIn(x)
    BY <1>0, DiskFixed
  <2>2. Ancestors' = Ancestors
    BY DEF Ancestors, UpwardClosed, Directory
  <2>3. \A j \in Inputs : Directory(walker'[j].dir) \in Ancestors
    BY <1>2, <1>3 DEF SearchInv, Confined
  <2>4. found' \subseteq UNION {CicdFileIn(x) : x \in searched'}
    BY <1>0 DEF SearchInv, Confined
  <2> QED BY <1>0, <2>1, <2>2, <2>3, <2>4 DEF SearchInv, Confined, Directory
<1>6. \A j \in Inputs :
        \/ walker'[j].pc = "claim" /\ walker'[j].dir = DirOf[j]
        \/ Directory(DirOf[j]) \in searched'
  BY <1>0, <1>3 DEF SearchInv
<1>7. ASSUME NEW x \in searched' PROVE Handled(x)'
  <2>1. CicdFileIn(x)' = CicdFileIn(x) /\ x \in searched
    BY <1>0, DiskFixed
  <2>2. CASE x = d
    <3>1. CicdFileIn(x)' \subseteq found'
      BY <2>1, <2>2, <1>0
    <3>2. x # Root => walker'[i].pc = "claim" /\ walker'[i].dir = Parent[x]
      BY <2>2, <1>1, <1>3
    <3> QED BY <3>1, <3>2 DEF Handled
  <2>3. CASE \E j \in Inputs : walker[j].pc = "look" /\ walker[j].dir = x
    <3>1. PICK j \in Inputs : walker[j].pc = "look" /\ walker[j].dir = x
      BY <2>3
    <3>2. CASE j = i
      BY <3>1, <3>2, <2>2 DEF d
    <3>3. CASE j # i
      BY <3>1, <3>3, <1>3 DEF Handled
    <3> QED BY <3>2, <3>3
  <2>4. CASE /\ CicdFileIn(x) \subseteq found
             /\ x # Root =>
                  \/ Directory(Parent[x]) \in searched
                  \/ \E j \in Inputs : walker[j].pc = "claim"
                                       /\ walker[j].dir = Parent[x]
    <3>1. CicdFileIn(x)' \subseteq found'
      BY <2>1, <2>4, <1>0
    <3>2. ASSUME x # Root
          PROVE  \/ Directory(Parent[x]) \in searched'
                 \/ \E j \in Inputs : walker'[j].pc = "claim"
                                      /\ walker'[j].dir = Parent[x]
      BY <3>2, <2>4, <1>0, <1>3
    <3> QED BY <3>1, <3>2 DEF Handled, Directory
  <2> QED BY <2>1, <2>2, <2>3, <2>4 DEF SearchInv, Handled
<1>8. Exclusive'
  BY <1>1, <1>3 DEF SearchInv, Exclusive
<1>9. (phase # "search" => Wait)'
  BY <1>0
<1> QED BY <1>4, <1>5, <1>6, <1>7, <1>8, <1>9 DEF SearchInv, Directory

(* Every step of the search preserves its invariant. *)
LEMMA SearchStep == SearchInv /\ [Next]_vars => SearchInv'
<1> SUFFICES ASSUME SearchInv, [Next]_vars PROVE SearchInv'
  OBVIOUS
<1>1. ASSUME NEW i \in Inputs, WalkerStep(i) PROVE SearchInv'
  <2>1. walker[i].pc \in {"claim", "look"}
    BY <1>1 DEF WalkerStep, Claim, Look
  <2>2. phase = "search"
    BY <2>1 DEF SearchInv, Wait
  <2> QED BY <1>1, <2>2, ClaimStep, LookStep DEF WalkerStep
<1>2. ASSUME UNCHANGED <<disk, searched, found, walker>>,
             phase' # "search" => Wait
      PROVE  SearchInv'
  <2>1. \A x : CicdFileIn(x)' = CicdFileIn(x)
    BY <1>2, DiskFixed
  <2>2. Ancestors' = Ancestors
    BY DEF Ancestors, UpwardClosed, Directory
  <2>3. SearchType' /\ Exclusive' /\ (phase # "search" => Wait)'
    BY <1>2 DEF SearchInv, SearchType, Exclusive, Wait
  <2>4. Confined'
    BY <1>2, <2>1, <2>2 DEF SearchInv, Confined, Directory
  <2>5. \A d \in searched' : Handled(d)'
    BY <1>2, <2>1 DEF SearchInv, Handled, Directory
  <2> QED BY <1>2, <2>3, <2>4, <2>5 DEF SearchInv, Directory
<1>3. CASE StartLoading
  BY <1>2, <1>3 DEF StartLoading
<1>4. CASE \E p \in Paths : Load(p)
  BY <1>2, <1>4 DEF Load, SearchInv
<1>5. CASE Return
  BY <1>2, <1>5 DEF Return, SearchInv
<1>6. CASE UNCHANGED vars
  BY <1>2, <1>6 DEF vars, SearchInv
<1> QED BY <1>1, <1>3, <1>4, <1>5, <1>6 DEF Next

(* Once everyone has stopped, the claimed directories are closed upwards,  *)
(* so they are the ancestors, and each of them has been looked at.         *)
LEMMA SearchComplete == SearchInv => FoundAll
<1> SUFFICES ASSUME SearchInv, phase # "search" PROVE found = Wanted
  BY DEF FoundAll
<1>1. \A i \in Inputs : walker[i].pc = "done"
  BY DEF SearchInv, Wait
<1>2. UpwardClosed(searched)
  BY <1>1 DEF SearchInv, Handled, UpwardClosed
<1>3. searched = Ancestors
  BY <1>2, AncestorsLeast DEF SearchInv, SearchType, Confined
<1>4. \A d \in searched : CicdFileIn(d) \subseteq found
  BY <1>1 DEF SearchInv, Handled
<1> QED BY <1>3, <1>4 DEF SearchInv, Confined, Wanted

(* SearchInv is the inductive invariant of the search. *)
THEOREM SearchCorrect == Spec => []SearchInv
BY SearchBegins, SearchStep, PTL DEF Spec

(* When loading starts, exactly the CICD files above the inputs have been  *)
(* found, for every tree, every number of goroutines and every schedule.   *)
THEOREM FoundAllCorrect == Spec => []FoundAll
BY SearchCorrect, SearchComplete, PTL

(* No directory is looked at by two goroutines at once. *)
THEOREM ExclusiveCorrect == Spec => []Exclusive
<1>1. SearchInv => Exclusive
  BY DEF SearchInv
<1> QED BY <1>1, SearchCorrect, PTL

-----------------------------------------------------------------------------
(* The checks.                                                             *)
(*                                                                         *)
(* The proof has three layers.  The build context: what the caches, the    *)
(* stack of calls and the last result say of each other (ContextInv).  The *)
(* collection of checks: everything that is asked for has a check, or one  *)
(* that fails (CollectInv).  The verdict: what the checks that were run    *)
(* have come to (VerdictInv), and a reason for every failure (BlameInv).   *)
(* The predicates on the context take its variables as parameters, need[u] *)
(* being what a unit needs, so that a lemma judges a state and its         *)
(* successor in the same terms.                                            *)

Needed == [u \in Checks!Units |-> Checks!Needs(u)]
NeedLists == Seq([as : {"tool", "dep", "build"}, unit : Checks!Buildable])
NeedsOk(N) ==
  /\ N \in [Checks!Units -> NeedLists]
  /\ \A u \in BuildTestUnits : Len(N[u]) = 1 /\ N[u][1].as = "build"
  /\ \A u \in Checks!Units \ BuildTestUnits : \A k \in DOMAIN N[u] : N[u][k].as # "build"
Frame == [unit : Checks!Units, at : Nat \ {0}]
Bad == {"failed", "error"}

(* The variables of the context have the types of ContextTypeOK. *)
ContextTyped(cache, tools, stk, rt, rn) ==
  /\ cache \in [Checks!Buildable -> Checks!Results \cup {"none"}]
  /\ tools \subseteq Checks!Buildable
  /\ stk \in Seq(Frame)
  /\ rt \in Checks!Results \cup {"none"}
  /\ rn \in [Checks!Units -> Seq(Checks!Results \cup {"panic"})]

(* Need k of u is there: built and, if it is a tool, copied. *)
Met(N, cache, tools, u, k) ==
  cache[N[u][k].unit] = "ok" /\ (N[u][k].as = "tool" => N[u][k].unit \in tools)
AllMet(N, cache, tools, u) == \A k \in DOMAIN N[u] : Met(N, cache, tools, u, k)

AllOk(outcomes) == outcomes # <<>> /\ Checks!ToSet(outcomes) = {"ok"}

(* A call waits for unit w, which it cannot do with a tool that was copied. *)
WaitsFor(N, tools, frame, w) ==
  /\ frame.at \in DOMAIN N[frame.unit]
  /\ N[frame.unit][frame.at].unit = w
  /\ ~(N[frame.unit][frame.at].as = "tool" /\ w \in tools)

(* Every call has what it asked for so far and waits for the one above it; *)
(* a unit that is being built has no entry in the cache.                   *)
StackOk(N, cache, tools, stk) ==
  /\ \A i \in DOMAIN stk :
       /\ stk[i].at <= Len(N[stk[i].unit]) + 1
       /\ \A k \in 1 .. stk[i].at - 1 : Met(N, cache, tools, stk[i].unit, k)
       /\ stk[i].unit \in Checks!Buildable => cache[stk[i].unit] = "none"
  /\ \A i \in DOMAIN stk : i + 1 \in DOMAIN stk => WaitsFor(N, tools, stk[i], stk[i + 1].unit)

(* A result is that of the unit the innermost call waits for. *)
RetOk(N, cache, tools, stk, rt) ==
  rt # "none" /\ stk # <<>> =>
    \E w \in Checks!Buildable : WaitsFor(N, tools, stk[Len(stk)], w) /\ cache[w] = rt

(* A cached success is one of the unit and of all it needs; a unit without *)
(* an entry has not run, and none runs twice; a build_test_unit has no     *)
(* command of its own.                                                     *)
CacheOk(N, cache, tools, rn) ==
  /\ \A u \in Checks!Buildable :
       /\ cache[u] = "ok" => AllOk(rn[u]) /\ AllMet(N, cache, tools, u)
       /\ cache[u] = "none" => rn[u] = <<>>
       /\ Len(rn[u]) <= 1
  /\ \A u \in tools : cache[u] = "ok"
  /\ \A u \in BuildTestUnits : rn[u] = <<>>

ContextInv(N, cache, tools, stk, rt, rn) ==
  /\ ContextTyped(cache, tools, stk, rt, rn)
  /\ StackOk(N, cache, tools, stk)
  /\ RetOk(N, cache, tools, stk, rt)
  /\ CacheOk(N, cache, tools, rn)

(* The context of a presubmit that has not begun to run its checks. *)
Fresh ==
  /\ \A u \in Checks!Buildable : buildCache[u] = "none"
  /\ toolCache = {} /\ stack = <<>> /\ ret = "none" /\ ~panicked
  /\ \A u \in Checks!Units : ran[u] = <<>>
  /\ left = {} /\ success

StagesOk ==
  /\ stage \in {"analyze", "discover", "expand", "run", "done", "aborted"}
  /\ stage \in {"analyze", "discover", "expand", "aborted"} => Fresh
  /\ stage = "analyze" => checks = <<>> /\ seen = {} /\ todo = <<>>
  /\ stage = "expand" => todo # <<>> /\ Head(todo).kind = "test" /\ Head(todo).of \in seen /\ ~repo.fixOnly
  /\ stage \notin {"expand"} => work = <<>> /\ expanded = <<>> /\ visited = {}
  /\ stage \in {"run", "done"} => todo = <<>>
  /\ stage = "done" => left = {} /\ stack = <<>> /\ ret = "none" /\ ~panicked

-----------------------------------------------------------------------------
(* Collecting the checks. *)

BuildOrTest == BuildUnits \cup TestUnits \cup BuildTestUnits
Tests == TestUnits \cup BuildTestUnits
CheckRecords == [kind : Checks!Kinds, of : Checks!Labels]

CollectTyped ==
  /\ repo \in Repos
  /\ todo \in Seq(Checks!Requests) /\ seen \subseteq Checks!Labels \ {BadLabel}
  /\ work \in Seq(Checks!Labels) /\ visited \subseteq Checks!Labels /\ expanded \in Seq(Tests)
  /\ checks \in Seq(CheckRecords)
  /\ left \subseteq DOMAIN checks /\ success \in BOOLEAN /\ panicked \in BOOLEAN
  /\ \A i \in DOMAIN checks :
       /\ checks[i].kind = "check" => checks[i].of \in Actions /\ repo.tool[checks[i].of].registered
       /\ checks[i].kind = "build" => checks[i].of \in BuildOrTest
       /\ checks[i].kind = "test" => checks[i].of \in Tests
       /\ checks[i].kind \in {"build", "test"} => checks[i].of \in seen

TestCheck(l) == [kind |-> "test", of |-> l]

(* No test has two checks.  The request that is being expanded has none    *)
(* until its own turn comes.                                               *)
TestsOnce(cks, exp, wrk) ==
  /\ \A i, j \in DOMAIN cks : cks[i].kind = "test" /\ cks[i] = cks[j] => i = j
  /\ \A i, j \in DOMAIN exp : exp[i] = exp[j] => i = j
  /\ stage = "expand" =>
       \A i \in DOMAIN cks : cks[i] = TestCheck(Head(todo).of) =>
           wrk = <<>> /\ \A j \in DOMAIN exp : exp[j] # Head(todo).of

HasFail(cks) == \E i \in DOMAIN cks : cks[i].kind = "fail"
HasCheck(cks, l) == \E i \in DOMAIN cks : cks[i].kind \in {"build", "test"} /\ cks[i].of = l

(* A set of labels each of which has a check or is a suite of others. *)
Supported(V, cks) ==
  \A l \in V : HasCheck(cks, l) \/ (l \in Suites /\ Checks!ToSet(repo.suite[l]) \subseteq V)
Covered(cks) == UNION {V \in SUBSET Checks!Labels : Supported(V, cks)}

(* What was seen is covered, but for the request that is being expanded,   *)
(* whose suites lead to tests that are covered or about to be.             *)
SeenCovered ==
  HasFail(checks) \/
    /\ \A l \in seen : l \in Covered(checks) \/ (stage = "expand" /\ l = Head(todo).of)
    /\ stage = "expand" =>
         /\ Head(todo).of \in visited \cup Checks!ToSet(work)
         /\ \A l \in visited :
              \/ l \in Suites /\ Checks!ToSet(repo.suite[l]) \subseteq visited \cup Checks!ToSet(work)
              \/ l \in Covered(checks)
              \/ \E i \in DOMAIN expanded : expanded[i] = l
ExpandedVisited == \A i \in DOMAIN expanded : expanded[i] \in visited

(* Every request was dealt with, or is still to be. *)
Dealt(q) ==
  IF q.kind = "check"
  THEN /\ repo.tool[q.of].registered
       /\ Checks!Applicable(q.of) => \E i \in DOMAIN checks : checks[i] = q
  ELSE ~repo.fixOnly => q.of \in seen
RequestsDealt ==
  stage \notin {"analyze", "aborted"} =>
    HasFail(checks) \/ \A q \in Checks!Requested : Dealt(q) \/ \E i \in DOMAIN todo : todo[i] = q

CollectInv == CollectTyped /\ TestsOnce(checks, expanded, work) /\ SeenCovered /\ ExpandedVisited /\ RequestsDealt

-----------------------------------------------------------------------------
(* The verdict. *)

(* The label was run with success and so was all it needs. *)
LabelOk(N, cache, tools, rn, l) ==
  /\ l \in Checks!Units
  /\ l \notin BuildTestUnits => AllOk(rn[l])
  /\ AllMet(N, cache, tools, l)

(* Nothing has failed yet. *)
Clean == success /\ ~panicked /\ ~(stack = <<>> /\ ret \in Bad)

(* As long as nothing has failed, every check that was begun has passed or *)
(* is the one that is running.                                             *)
PassedSoFar ==
  stage \in {"run", "done"} /\ Clean =>
    /\ \A u \in Actions \cup TestUnits : Checks!ToSet(ran[u]) \subseteq {"ok"}
    /\ \A i \in DOMAIN checks \ left :
         /\ checks[i].kind # "fail"
         /\ \/ LabelOk(Needed, buildCache, toolCache, ran, checks[i].of)
            \/ stack # <<>> /\ stack[1].unit = checks[i].of

(* A test that was begun is not begun again. *)
Running(u) == stack # <<>> /\ stack[1].unit = u
TestsRunOnce ==
  \A t \in TestUnits :
    /\ Running(t) \/ ran[t] # <<>> => \A i \in left : checks[i] # TestCheck(t)
    /\ ~panicked /\ Running(t) => ran[t] = <<>>
    /\ Len(ran[t]) <= 1

VerdictInv == PassedSoFar /\ TestsRunOnce

(* Something that was asked for is to blame. *)
Blame ==
  \E l \in Checks!Demanded : Checks!Broken(l) \/ Checks!NotATest(l) \/ Checks!NotABuild(l)

(* Only what was asked for is looked at... *)
Asked ==
  /\ \A i \in DOMAIN todo : todo[i] \in Checks!Requested
  /\ visited \subseteq Checks!Demanded
  /\ \A l \in Checks!ToSet(work) :
       /\ l \in Checks!Demanded
       /\ TestCheck(l) \in Checks!Requested \/ \E s \in Suites : l \in Checks!ToSet(repo.suite[s])
  /\ \A i \in DOMAIN checks :
       /\ checks[i].kind # "fail" => checks[i].of \in Checks!Demanded
       /\ checks[i].kind = "build" => checks[i] \in Checks!Requested

(* ...and built... *)
BuiltAsAsked == \A i \in DOMAIN stack : stack[i].unit \in Checks!Demanded

(* ...and whatever fails has a reason. *)
Failing == ~success \/ HasFail(checks) \/ ret \in Bad \/ \E u \in Checks!Buildable : buildCache[u] \in Bad
Reasons == Failing => Blame

BlameInv == Asked /\ BuiltAsAsked /\ Reasons

ChecksInv ==
  /\ ContextInv(Needed, buildCache, toolCache, stack, ret, ran)
  /\ StagesOk /\ CollectInv /\ VerdictInv /\ BlameInv

-----------------------------------------------------------------------------
(* The constants.                                                          *)

(* Labels of different sorts are different (LabelsApart). *)
LEMMA Apart ==
  /\ BuildUnits \cap TestUnits = {} /\ BuildUnits \cap BuildTestUnits = {}
  /\ BuildUnits \cap Actions = {} /\ BuildUnits \cap Suites = {}
  /\ TestUnits \cap BuildTestUnits = {} /\ TestUnits \cap Actions = {} /\ TestUnits \cap Suites = {}
  /\ BuildTestUnits \cap Actions = {} /\ BuildTestUnits \cap Suites = {} /\ Actions \cap Suites = {}
  /\ Missing \notin BuildUnits \cup TestUnits \cup BuildTestUnits \cup Actions \cup Suites
  /\ BadLabel \notin BuildUnits \cup TestUnits \cup BuildTestUnits \cup Actions \cup Suites \cup {Missing}
  /\ CheckedIn \notin Checks!Buildable
BY ReposAssumption DEF Checks!PresubmitConstants, Checks!LabelsApart

(* The files of a run are ones that validation lets through. *)
LEMMA RepoValid ==
  ASSUME repo \in Repos
  PROVE  Checks!ValidUnits(repo) /\ Checks!ValidChecks(repo)
BY ReposAssumption DEF Checks!PresubmitConstants, Checks!ReposOK

(* What the units of a repository need can be built. *)
LEMMA NeededOk ==
  ASSUME repo \in Repos
  PROVE  NeedsOk(Needed)
<1> DEFINE Need == [as : {"tool", "dep", "build"}, unit : Checks!Buildable]
<1>1. ASSUME NEW u \in BuildTestUnits
      PROVE  /\ Checks!Needs(u) = <<[as |-> "build", unit |-> repo.builds[u]]>>
             /\ repo.builds[u] \in Checks!Buildable
  <2>1. repo.builds[u] \in Checks!Buildable
    BY RepoValid DEF Checks!ValidUnits, Checks!Buildable
  <2>2. Checks!Needs(u) = <<[as |-> "build", unit |-> repo.builds[u]]>>
    BY Apart, RepoValid DEF Checks!Needs, Checks!ValidUnits
  <2> QED BY <2>1, <2>2
<1>2. ASSUME NEW u \in Checks!Units \ BuildTestUnits
      PROVE  /\ Checks!Needs(u) \in Seq(Need)
             /\ \A k \in DOMAIN Checks!Needs(u) : Checks!Needs(u)[k].as # "build"
  <2>1. CASE u = Missing \/ u \in repo.bazel
    <3>1. Checks!Needs(u) = <<>>
      BY <2>1, <1>2, Apart, RepoValid DEF Checks!Needs, Checks!ValidUnits
    <3> QED BY <3>1
  <2>2. CASE ~(u = Missing \/ u \in repo.bazel)
    <3>0. u \in (BuildUnits \cup TestUnits \cup Actions) \ repo.bazel
      BY <1>2, <2>2 DEF Checks!Units, Checks!Buildable
    <3>1. Checks!Needs(u) = Checks!Tool(u) \o Checks!Deps(u)
      BY <2>2, <1>2 DEF Checks!Needs
    <3>2. /\ Checks!Tool(u) \in Seq(Need)
          /\ \A k \in DOMAIN Checks!Tool(u) : Checks!Tool(u)[k].as # "build"
      <4>1. repo.bin[u] \in BuildUnits \cup {CheckedIn, Missing}
        BY <3>0, RepoValid DEF Checks!ValidUnits
      <4>2. CASE repo.bin[u] = CheckedIn
        BY <4>2 DEF Checks!Tool
      <4>3. CASE repo.bin[u] # CheckedIn
        <5> DEFINE n == [as |-> "tool", unit |-> repo.bin[u]]
        <5>1. n \in Need /\ n.as = "tool"
          BY <4>1, <4>3 DEF Checks!Buildable
        <5>2. Checks!Tool(u) = <<n>>
          BY <4>3 DEF Checks!Tool
        <5> HIDE DEF n, Need
        <5> QED BY <5>1, <5>2
      <4> QED BY <4>2, <4>3
    <3>3. /\ Checks!Deps(u) \in Seq(Need)
          /\ \A k \in DOMAIN Checks!Deps(u) : Checks!Deps(u)[k].as # "build"
      <4>1. repo.deps[u] \in Seq(Checks!Buildable)
        BY <3>0, RepoValid DEF Checks!ValidUnits, Checks!Buildable
      <4>2. /\ Len(repo.deps[u]) \in Nat /\ DOMAIN repo.deps[u] = 1 .. Len(repo.deps[u])
            /\ \A k \in DOMAIN repo.deps[u] : repo.deps[u][k] \in Checks!Buildable
        BY <4>1
      <4>3. Checks!Deps(u) = [k \in 1 .. Len(repo.deps[u]) |-> [as |-> "dep", unit |-> repo.deps[u][k]]]
        BY <4>2 DEF Checks!Deps
      <4>4. \A k \in 1 .. Len(repo.deps[u]) : [as |-> "dep", unit |-> repo.deps[u][k]] \in Need
        BY <4>2
      <4>5. \A k \in 1 .. Len(repo.deps[u]) : Checks!Deps(u)[k].as = "dep"
        BY <4>3
      <4>6. Checks!Deps(u) \in [1 .. Len(repo.deps[u]) -> Need]
        BY <4>3, <4>4
      <4>7. Checks!Deps(u) \in Seq(Need)
        <5> HIDE DEF Need
        <5>1. Checks!Deps(u) \in UNION {[1 .. n -> Need] : n \in Nat}
          BY <4>2, <4>6
        <5> QED BY <5>1, SeqDef, Zenon
      <4>8. DOMAIN Checks!Deps(u) = 1 .. Len(repo.deps[u])
        BY <4>3
      <4> QED BY <4>5, <4>7, <4>8
    <3> DEFINE t == Checks!Tool(u)
               d == Checks!Deps(u)
    <3> HIDE DEF t, d, Need
    <3>4. /\ t \o d \in Seq(Need)
          /\ \A k \in DOMAIN (t \o d) : (t \o d)[k].as # "build"
      <4>1. t \in Seq(Need) /\ d \in Seq(Need)
        BY <3>2, <3>3 DEF t, d
      <4>2. /\ Len(t \o d) = Len(t) + Len(d)
            /\ \A k \in 1 .. Len(t) + Len(d) : (t \o d)[k] = IF k <= Len(t) THEN t[k] ELSE d[k - Len(t)]
        BY <4>1, ConcatProperties
      <4>3. \A k \in 1 .. Len(t) + Len(d) : k <= Len(t) => k \in DOMAIN t
        BY <4>1
      <4>4. \A k \in 1 .. Len(t) + Len(d) : ~(k <= Len(t)) => k - Len(t) \in DOMAIN d
        BY <4>1
      <4>5. t \o d \in Seq(Need) /\ DOMAIN (t \o d) = 1 .. Len(t) + Len(d)
        BY <4>1, <4>2
      <4> QED BY <3>2, <3>3, <4>2, <4>3, <4>4, <4>5 DEF t, d
    <3> QED BY <3>1, <3>4 DEF t, d
  <2> QED BY <2>1, <2>2
<1>3. \A u \in Checks!Units : Needed[u] = Checks!Needs(u)
  BY DEF Needed
<1>4. BuildTestUnits \subseteq Checks!Units
  BY DEF Checks!Units
<1>5. ASSUME NEW u \in BuildTestUnits
      PROVE  Needed[u] \in Seq(Need) /\ Len(Needed[u]) = 1 /\ Needed[u][1].as = "build"
  <2> DEFINE n == [as |-> "build", unit |-> repo.builds[u]]
  <2>1. n \in Need /\ n.as = "build"
    BY <1>1
  <2>2. Needed[u] = <<n>>
    BY <1>1, <1>3, <1>4
  <2> HIDE DEF n, Need
  <2> QED BY <2>1, <2>2
<1>6. \A u \in Checks!Units : Needed[u] \in Seq(Need)
  BY <1>2, <1>3, <1>5
<1>7. Needed \in [Checks!Units -> Seq(Need)]
  BY <1>6 DEF Needed
<1> QED BY <1>2, <1>3, <1>5, <1>7 DEF NeedsOk, NeedLists

-----------------------------------------------------------------------------
(* The build context, for any list of needs.                               *)

(* A unit needs a list of units that can be built. *)
LEMMA NeedTyped ==
  ASSUME NEW N, NeedsOk(N), NEW u \in Checks!Units
  PROVE  /\ N[u] \in NeedLists /\ Len(N[u]) \in Nat /\ DOMAIN N[u] = 1 .. Len(N[u])
         /\ \A k \in DOMAIN N[u] : N[u][k].unit \in Checks!Buildable
<1> DEFINE Need == [as : {"tool", "dep", "build"}, unit : Checks!Buildable]
<1>1. N[u] \in Seq(Need) /\ NeedLists = Seq(Need)
  BY DEF NeedsOk, NeedLists
<1>2. \A n \in Need : n.unit \in Checks!Buildable
  OBVIOUS
<1> HIDE DEF Need
<1> QED BY <1>1, <1>2

(* The stack is a list of calls. *)
LEMMA StackTyped ==
  ASSUME NEW stk \in Seq(Frame)
  PROVE  /\ Len(stk) \in Nat /\ DOMAIN stk = 1 .. Len(stk)
         /\ \A i \in DOMAIN stk : stk[i] \in Frame /\ stk[i].unit \in Checks!Units /\ stk[i].at \in Nat \ {0}
         /\ stk # <<>> => Len(stk) \in DOMAIN stk
<1>1. \A f \in Frame : f.unit \in Checks!Units /\ f.at \in Nat \ {0}
  BY DEF Frame
<1>2. Len(stk) \in Nat /\ DOMAIN stk = 1 .. Len(stk) /\ \A i \in DOMAIN stk : stk[i] \in Frame
  OBVIOUS
<1>3. stk # <<>> => Len(stk) # 0
  OBVIOUS
<1> QED BY <1>1, <1>2, <1>3

(* A call that has all it needs, or whose answer is not what it needs, is  *)
(* the only one of its unit: an earlier one would wait for the same need,  *)
(* or for one that the later call already has.                             *)
LEMMA NoTwin ==
  ASSUME NEW N, NeedsOk(N), NEW cache, NEW tools, NEW stk \in Seq(Frame), stk # <<>>,
         StackOk(N, cache, tools, stk),
         \/ AllMet(N, cache, tools, stk[Len(stk)].unit)
         \/ \E w \in Checks!Buildable :
              /\ WaitsFor(N, tools, stk[Len(stk)], w) /\ cache[w] # "none"
              /\ ~ Met(N, cache, tools, stk[Len(stk)].unit, stk[Len(stk)].at),
         NEW i \in 1 .. Len(stk) - 1
  PROVE  stk[i].unit # stk[Len(stk)].unit
<1> SUFFICES ASSUME stk[i].unit = stk[Len(stk)].unit PROVE FALSE
  OBVIOUS
<1> DEFINE u == stk[i].unit
           a == stk[i].at
           b == stk[Len(stk)].at
<1>1. /\ i \in DOMAIN stk /\ i + 1 \in DOMAIN stk /\ Len(stk) \in DOMAIN stk
      /\ u \in Checks!Units /\ a \in Nat \ {0} /\ b \in Nat \ {0}
      /\ stk[Len(stk)].unit = u /\ stk[i + 1].unit \in Checks!Units
  BY StackTyped
<1>2. /\ a \in DOMAIN N[u] /\ N[u][a].unit = stk[i + 1].unit
      /\ ~(N[u][a].as = "tool" /\ N[u][a].unit \in tools)
  BY <1>1 DEF StackOk, WaitsFor
<1>3. cache[N[u][a].unit] = "none"
  <2>1. N[u][a].unit \in Checks!Buildable
    BY <1>1, <1>2, NeedTyped
  <2> QED BY <1>1, <1>2, <2>1 DEF StackOk
<1>4. \A k \in 1 .. b - 1 : Met(N, cache, tools, u, k)
  BY <1>1 DEF StackOk
<1>5. \A k \in 1 .. a - 1 : Met(N, cache, tools, u, k)
  BY <1>1 DEF StackOk
<1>6. ~ AllMet(N, cache, tools, u)
  BY <1>2, <1>3 DEF AllMet, Met
<1>7. PICK w \in Checks!Buildable : 
         WaitsFor(N, tools, stk[Len(stk)], w) /\ cache[w] # "none" /\ ~ Met(N, cache, tools, u, b)
  BY <1>6, <1>1
<1>8. /\ b \in DOMAIN N[u] /\ N[u][b].unit = w /\ ~(N[u][b].as = "tool" /\ w \in tools)
  BY <1>1, <1>7 DEF WaitsFor
<1>9. ~(a \in 1 .. b - 1)
  BY <1>3, <1>4 DEF Met
<1>10. CASE a = b
  BY <1>3, <1>7, <1>8, <1>10
<1>11. CASE b \in 1 .. a - 1
  BY <1>5, <1>7, <1>11
<1> QED BY <1>1, <1>9, <1>10, <1>11

(* A call is made: by the innermost one for a unit it needs, or by the     *)
(* presubmit itself.                                                       *)
LEMMA PushOk ==
  ASSUME NEW N, NeedsOk(N), NEW cache, NEW tools, NEW stk, NEW rn,
         ContextInv(N, cache, tools, stk, "none", rn),
         NEW x \in Checks!Units,
         x \in Checks!Buildable => cache[x] = "none",
         stk # <<>> => WaitsFor(N, tools, stk[Len(stk)], x)
  PROVE  ContextInv(N, cache, tools, Append(stk, [unit |-> x, at |-> 1]), "none", rn)
<1> DEFINE f == [unit |-> x, at |-> 1]
           new == Append(stk, f)
<1>1. f \in Frame /\ f.unit = x /\ f.at = 1
  BY DEF Frame
<1> HIDE DEF f
<1>2. stk \in Seq(Frame)
  BY DEF ContextInv, ContextTyped
<1>3. /\ new \in Seq(Frame) /\ Len(new) = Len(stk) + 1 /\ DOMAIN new = 1 .. Len(stk) + 1
      /\ \A i \in 1 .. Len(stk) : new[i] = stk[i]
      /\ new[Len(stk) + 1] = f
  BY <1>1, <1>2
<1> HIDE DEF new
<1>4. ContextTyped(cache, tools, new, "none", rn)
  BY <1>3 DEF ContextInv, ContextTyped
<1>5. Len(N[x]) \in Nat
  BY NeedTyped
<1>6. StackOk(N, cache, tools, new)
  <2>1. ASSUME NEW i \in DOMAIN new
        PROVE  /\ new[i].at <= Len(N[new[i].unit]) + 1
               /\ \A k \in 1 .. new[i].at - 1 : Met(N, cache, tools, new[i].unit, k)
               /\ new[i].unit \in Checks!Buildable => cache[new[i].unit] = "none"
    <3>1. CASE i \in 1 .. Len(stk)
      BY <3>1, <1>2, <1>3, StackTyped DEF ContextInv, StackOk
    <3>2. CASE i = Len(stk) + 1
      BY <3>2, <1>1, <1>3, <1>5
    <3> QED BY <1>2, <1>3, <3>1, <3>2
  <2>2. ASSUME NEW i \in DOMAIN new, i + 1 \in DOMAIN new
        PROVE  WaitsFor(N, tools, new[i], new[i + 1].unit)
    <3>0. i \in 1 .. Len(stk) /\ new[i] = stk[i] /\ Len(stk) \in Nat /\ DOMAIN stk = 1 .. Len(stk)
      BY <1>2, <1>3, <2>2
    <3>1. CASE i = Len(stk)
      <4>1. stk # <<>>
        BY <3>0, <3>1
      <4> QED BY <3>0, <3>1, <4>1, <1>1, <1>3
    <3>2. CASE i # Len(stk)
      <4>1. i + 1 \in DOMAIN stk /\ new[i + 1] = stk[i + 1]
        BY <3>0, <3>2, <1>3
      <4> QED BY <3>0, <4>1 DEF ContextInv, StackOk
    <3> QED BY <3>1, <3>2
  <2> QED BY <2>1, <2>2 DEF StackOk
<1>7. RetOk(N, cache, tools, new, "none")
  BY DEF RetOk
<1> QED BY <1>4, <1>6, <1>7 DEF ContextInv, new, f

(* The innermost call has the need it asked for and goes on to the next. *)
LEMMA ProceedOk ==
  ASSUME NEW N, NeedsOk(N), NEW cache, NEW tools, NEW stk, NEW rt, NEW rn, NEW more,
         ContextInv(N, cache, tools, stk, rt, rn), stk # <<>>,
         stk[Len(stk)].at \in DOMAIN N[stk[Len(stk)].unit],
         tools \subseteq more, more \subseteq Checks!Buildable, \A x \in more : cache[x] = "ok",
         Met(N, cache, more, stk[Len(stk)].unit, stk[Len(stk)].at)
  PROVE  ContextInv(N, cache, more,
                    [stk EXCEPT ![Len(stk)] = [stk[Len(stk)] EXCEPT !.at = stk[Len(stk)].at + 1]], "none", rn)
<1> DEFINE n == Len(stk)
           f == [stk[n] EXCEPT !.at = stk[n].at + 1]
           new == [stk EXCEPT ![n] = f]
<1>0. stk \in Seq(Frame)
  BY DEF ContextInv, ContextTyped
<1>1. /\ n \in Nat /\ n \in DOMAIN stk /\ DOMAIN stk = 1 .. n
      /\ stk[n] \in Frame /\ stk[n].unit \in Checks!Units /\ stk[n].at \in Nat \ {0}
  BY <1>0, StackTyped
<1>2. f \in Frame /\ f.unit = stk[n].unit /\ f.at = stk[n].at + 1
  BY <1>1 DEF Frame
<1> HIDE DEF f
<1>3. /\ new \in Seq(Frame) /\ DOMAIN new = DOMAIN stk /\ new[n] = f
      /\ \A i \in DOMAIN stk : i # n => new[i] = stk[i]
  BY <1>0, <1>1, <1>2
<1> HIDE DEF new
<1>4. \A u, k : Met(N, cache, tools, u, k) => Met(N, cache, more, u, k)
  BY DEF Met
<1>5. ContextTyped(cache, more, new, "none", rn)
  BY <1>3 DEF ContextInv, ContextTyped
<1>6. StackOk(N, cache, more, new)
  <2>1. ASSUME NEW i \in DOMAIN new
        PROVE  /\ new[i].at <= Len(N[new[i].unit]) + 1
               /\ \A k \in 1 .. new[i].at - 1 : Met(N, cache, more, new[i].unit, k)
               /\ new[i].unit \in Checks!Buildable => cache[new[i].unit] = "none"
    <3>1. CASE i # n
      BY <3>1, <1>3, <1>4 DEF ContextInv, StackOk
    <3>2. CASE i = n
      <4>1. f.at <= Len(N[f.unit]) + 1
        BY <1>1, <1>2, NeedTyped
      <4>2. ASSUME NEW k \in 1 .. f.at - 1 PROVE Met(N, cache, more, f.unit, k)
        <5>1. k \in 1 .. stk[n].at - 1 \/ k = stk[n].at
          BY <1>1, <1>2
        <5>2. \A j \in 1 .. stk[n].at - 1 : Met(N, cache, tools, stk[n].unit, j)
          BY <1>1 DEF ContextInv, StackOk
        <5> QED BY <5>1, <5>2, <1>2, <1>4
      <4>3. f.unit \in Checks!Buildable => cache[f.unit] = "none"
        BY <1>1, <1>2 DEF ContextInv, StackOk
      <4> QED BY <3>2, <4>1, <4>2, <4>3, <1>3
    <3> QED BY <3>1, <3>2
  <2>2. ASSUME NEW i \in DOMAIN new, i + 1 \in DOMAIN new
        PROVE  WaitsFor(N, more, new[i], new[i + 1].unit)
    <3>1. i \in DOMAIN stk /\ i + 1 \in DOMAIN stk /\ i # n /\ new[i] = stk[i]
          /\ new[i + 1].unit = stk[i + 1].unit
      BY <2>2, <1>1, <1>2, <1>3
    <3>2. WaitsFor(N, tools, stk[i], stk[i + 1].unit)
      BY <3>1 DEF ContextInv, StackOk
    <3>3. stk[i].unit \in Checks!Units /\ stk[i + 1].unit \in Checks!Buildable
      BY <1>0, <3>1, <3>2, StackTyped, NeedTyped DEF WaitsFor
    <3>4. cache[stk[i + 1].unit] = "none"
      BY <3>1, <3>3 DEF ContextInv, StackOk
    <3> QED BY <3>1, <3>2, <3>4 DEF WaitsFor
  <2> QED BY <2>1, <2>2 DEF StackOk
<1>7. CacheOk(N, cache, more, rn)
  BY <1>4 DEF ContextInv, CacheOk, AllMet
<1>8. RetOk(N, cache, more, new, "none")
  BY DEF RetOk
<1> QED BY <1>5, <1>6, <1>7, <1>8 DEF ContextInv, new, f

(* The stack without its innermost call. *)
LEMMA FrontOk ==
  ASSUME NEW stk \in Seq(Frame), stk # <<>>
  PROVE  /\ Checks!Front(stk) \in Seq(Frame) /\ Len(Checks!Front(stk)) = Len(stk) - 1
         /\ DOMAIN Checks!Front(stk) = 1 .. Len(stk) - 1
         /\ \A i \in 1 .. Len(stk) - 1 : Checks!Front(stk)[i] = stk[i]
         /\ Checks!Last(stk) = stk[Len(stk)]
<1>1. Len(stk) \in Nat \ {0}
  BY StackTyped
<1>2. /\ SubSeq(stk, 1, Len(stk) - 1) \in Seq(Frame)
      /\ Len(SubSeq(stk, 1, Len(stk) - 1)) = Len(stk) - 1
      /\ \A i \in 1 .. Len(stk) - 1 : SubSeq(stk, 1, Len(stk) - 1)[i] = stk[i]
  <2> DEFINE m == Len(stk) - 1
  <2>1. m \in Nat /\ \A i \in 1 .. m : stk[i] \in Frame
    BY <1>1, StackTyped
  <2> HIDE DEF m
  <2>2. /\ SubSeq(stk, 1, m) \in Seq(Frame)
        /\ Len(SubSeq(stk, 1, m)) = IF 1 <= m THEN m - 1 + 1 ELSE 0
        /\ \A i \in 1 .. m - 1 + 1 : SubSeq(stk, 1, m)[i] = stk[1 + i - 1]
    BY <2>1, SubSeqProperties
  <2>3. Len(SubSeq(stk, 1, m)) = m
    BY <2>1, <2>2
  <2>4. ASSUME NEW i \in 1 .. m PROVE SubSeq(stk, 1, m)[i] = stk[i]
    <3>1. i \in 1 .. m - 1 + 1 /\ 1 + i - 1 = i
      BY <2>1
    <3> QED BY <2>2, <3>1
  <2> QED BY <2>2, <2>3, <2>4 DEF m
<1> QED BY <1>1, <1>2 DEF Checks!Front, Checks!Last

(* What buildWithCache stores for a unit that returns. *)
Stored(cache, u, r) == IF u \in Checks!Buildable THEN [cache EXCEPT ![u] = r] ELSE cache

(* The history after a unit has returned: a command of its own has ended   *)
(* with the same result, or there was none.                                *)
Recorded(N, cache, tools, u, r, rt, rn, after) ==
  \/ /\ after = rn
     /\ r = "ok" => u \in BuildTestUnits /\ AllMet(N, cache, tools, u)
     /\ r # "ok" => rt \in Bad
  \/ /\ u \notin BuildTestUnits
     /\ after = [rn EXCEPT ![u] = Append(rn[u], r)]
     /\ r = "ok" => AllMet(N, cache, tools, u)

(* The innermost call may return: it has all it needs, or got an answer    *)
(* that is not what it needs.                                              *)
MayReturn(N, cache, tools, stk, rt) ==
  \/ AllMet(N, cache, tools, stk[Len(stk)].unit)
  \/ rt # "none" /\ ~ Met(N, cache, tools, stk[Len(stk)].unit, stk[Len(stk)].at)

(* The innermost call returns: its result is stored, and is what the call  *)
(* below it waits for.                                                     *)
LEMMA PopOk ==
  ASSUME NEW N, NeedsOk(N), NEW cache, NEW tools, NEW stk, NEW rt, NEW rn, NEW after,
         NEW r \in Checks!Results,
         ContextInv(N, cache, tools, stk, rt, rn), stk # <<>>,
         MayReturn(N, cache, tools, stk, rt),
         Recorded(N, cache, tools, stk[Len(stk)].unit, r, rt, rn, after)
  PROVE  ContextInv(N, Stored(cache, stk[Len(stk)].unit, r), tools, Checks!Front(stk), r, after)
<1> DEFINE n == Len(stk)
           u == stk[n].unit
           new == Stored(cache, u, r)
           low == Checks!Front(stk)
<1>0. stk \in Seq(Frame)
  BY DEF ContextInv, ContextTyped
<1>1. /\ n \in Nat \ {0} /\ n \in DOMAIN stk /\ DOMAIN stk = 1 .. n
      /\ u \in Checks!Units /\ stk[n].at \in Nat \ {0}
  BY <1>0, StackTyped
<1>2. /\ low \in Seq(Frame) /\ Len(low) = n - 1 /\ DOMAIN low = 1 .. n - 1
      /\ \A i \in 1 .. n - 1 : low[i] = stk[i]
  BY <1>0, FrontOk
<1>3. u \in Checks!Buildable => cache[u] = "none" /\ rn[u] = <<>>
  BY <1>1 DEF ContextInv, StackOk, CacheOk
<1>4. /\ new \in [Checks!Buildable -> Checks!Results \cup {"none"}]
      /\ u \in Checks!Buildable => new[u] = r
      /\ \A x \in Checks!Buildable : x # u => new[x] = cache[x]
  BY DEF Stored, ContextInv, ContextTyped
<1>5. \A x \in Checks!Buildable : cache[x] = "ok" => new[x] = "ok"
  BY <1>3, <1>4
<1>6. ASSUME NEW v \in Checks!Units, NEW k \in DOMAIN N[v], Met(N, cache, tools, v, k)
      PROVE  Met(N, new, tools, v, k)
  BY <1>5, <1>6, NeedTyped DEF Met
<1>7. /\ after \in [Checks!Units -> Seq(Checks!Results \cup {"panic"})]
      /\ \A x \in Checks!Units : x # u => after[x] = rn[x]
      /\ u \in BuildTestUnits => after = rn
      /\ after[u] = rn[u] \/ after[u] = Append(rn[u], r)
      /\ after[u] = rn[u] /\ r = "ok" => u \in BuildTestUnits
      /\ r = "ok" => AllMet(N, cache, tools, u)
  <2>1. rn \in [Checks!Units -> Seq(Checks!Results \cup {"panic"})]
    BY DEF ContextInv, ContextTyped
  <2>2. rn[u] \in Seq(Checks!Results \cup {"panic"}) /\ r \in Checks!Results \cup {"panic"}
    BY <1>1, <2>1
  <2>3. Append(rn[u], r) \in Seq(Checks!Results \cup {"panic"}) /\ Append(rn[u], r) # rn[u]
    BY <2>2
  <2>4. CASE after = rn
    <3>1. after # [rn EXCEPT ![u] = Append(rn[u], r)]
      BY <2>1, <2>3, <2>4, <1>1
    <3>2. (r = "ok" => u \in BuildTestUnits /\ AllMet(N, cache, tools, u))
      BY <3>1 DEF Recorded
    <3> QED BY <2>1, <2>4, <3>2
  <2>5. CASE after # rn
    <3>1. /\ u \notin BuildTestUnits
          /\ after = [rn EXCEPT ![u] = Append(rn[u], r)]
          /\ r = "ok" => AllMet(N, cache, tools, u)
      BY <2>5 DEF Recorded
    <3> QED BY <3>1, <2>1, <2>3, <1>1
  <2> QED BY <2>4, <2>5
<1>8. ASSUME NEW i \in 1 .. n - 1
      PROVE  u # stk[i].unit
  <2>1. CASE AllMet(N, cache, tools, u)
    BY <2>1, <1>0, NoTwin DEF ContextInv
  <2>2. CASE rt # "none" /\ ~ Met(N, cache, tools, u, stk[n].at)
    <3>1. \E w \in Checks!Buildable : WaitsFor(N, tools, stk[n], w) /\ cache[w] = rt
      BY <2>2 DEF ContextInv, RetOk
    <3>2. \E w \in Checks!Buildable :
              /\ WaitsFor(N, tools, stk[Len(stk)], w) /\ cache[w] # "none"
              /\ ~ Met(N, cache, tools, stk[Len(stk)].unit, stk[Len(stk)].at)
      BY <2>2, <3>1
    <3> QED BY <3>2, <1>0, NoTwin DEF ContextInv
  <2> QED BY <2>1, <2>2 DEF MayReturn
<1> HIDE DEF new, low, u, n
<1>9. ContextTyped(new, tools, low, r, after)
  BY <1>2, <1>4, <1>7 DEF ContextInv, ContextTyped
<1>10. StackOk(N, new, tools, low)
  <2>1. ASSUME NEW i \in DOMAIN low
        PROVE  /\ low[i].at <= Len(N[low[i].unit]) + 1
               /\ \A k \in 1 .. low[i].at - 1 : Met(N, new, tools, low[i].unit, k)
               /\ low[i].unit \in Checks!Buildable => new[low[i].unit] = "none"
    <3>1. /\ i \in DOMAIN stk /\ low[i] = stk[i] /\ i \in 1 .. n - 1
          /\ stk[i].unit \in Checks!Units /\ stk[i].at \in Nat \ {0}
      BY <1>0, <1>1, <1>2, StackTyped
    <3>2. /\ stk[i].at <= Len(N[stk[i].unit]) + 1
          /\ \A k \in 1 .. stk[i].at - 1 : Met(N, cache, tools, stk[i].unit, k)
          /\ stk[i].unit \in Checks!Buildable => cache[stk[i].unit] = "none"
      BY <3>1 DEF ContextInv, StackOk
    <3>3. \A k \in 1 .. stk[i].at - 1 : k \in DOMAIN N[stk[i].unit]
      BY <3>1, <3>2, NeedTyped
    <3> QED BY <3>1, <3>2, <3>3, <1>4, <1>6, <1>8
  <2>2. ASSUME NEW i \in DOMAIN low, i + 1 \in DOMAIN low
        PROVE  WaitsFor(N, tools, low[i], low[i + 1].unit)
    BY <2>2, <1>1, <1>2 DEF ContextInv, StackOk
  <2> QED BY <2>1, <2>2 DEF StackOk
<1>11. RetOk(N, new, tools, low, r)
  <2> SUFFICES ASSUME low # <<>>
               PROVE  \E w \in Checks!Buildable : WaitsFor(N, tools, low[Len(low)], w) /\ new[w] = r
    BY DEF RetOk
  <2>1. n - 1 \in DOMAIN stk /\ (n - 1) + 1 = n /\ low[Len(low)] = stk[n - 1]
    BY <1>1, <1>2
  <2>2. WaitsFor(N, tools, stk[n - 1], u)
    BY <1>1, <2>1 DEF ContextInv, StackOk, u
  <2>3. u \in Checks!Buildable
    BY <1>0, <2>1, <2>2, StackTyped, NeedTyped DEF WaitsFor
  <2> QED BY <2>1, <2>2, <2>3, <1>4
<1>12. CacheOk(N, new, tools, after)
  <2>1. ASSUME NEW x \in Checks!Buildable
        PROVE  /\ new[x] = "ok" => AllOk(after[x]) /\ AllMet(N, new, tools, x)
               /\ new[x] = "none" => after[x] = <<>>
               /\ Len(after[x]) <= 1
    <3>0. x \in Checks!Units
      BY DEF Checks!Units
    <3>1. CASE x # u
      BY <3>0, <3>1, <1>4, <1>6, <1>7 DEF ContextInv, CacheOk, AllMet
    <3>2. CASE x = u
      <4>1. rn[u] = <<>> /\ new[u] = r /\ r # "none"
        BY <3>2, <1>3, <1>4 DEF Checks!Results
      <4>2. after[u] = <<>> \/ after[u] = <<r>>
        BY <4>1, <1>7
      <4>3. Len(after[u]) <= 1
        <5>1. Len(<<>>) = 0 /\ Len(<<r>>) = 1
          OBVIOUS
        <5>2. Len(after[u]) = 0 \/ Len(after[u]) = 1
          BY <4>2, <5>1, Zenon
        <5> DEFINE k == Len(after[u])
        <5>3. k = 0 \/ k = 1
          BY <5>2
        <5> HIDE DEF k
        <5>4. k <= 1
          BY <5>3
        <5> QED BY <5>4 DEF k
      <4>4. r = "ok" => after[u] = <<"ok">>
        <5>1. u \notin BuildTestUnits
          BY <3>2, Apart DEF Checks!Buildable
        <5> QED BY <4>1, <4>2, <5>1, <1>7
      <4>5. AllOk(<<"ok">>)
        BY DEF AllOk, Checks!ToSet
      <4>6. r = "ok" => AllMet(N, new, tools, u)
        BY <1>1, <1>6, <1>7 DEF AllMet
      <4> QED BY <3>2, <4>1, <4>3, <4>4, <4>5, <4>6
    <3> QED BY <3>1, <3>2
  <2>2. \A x \in tools : new[x] = "ok"
    BY <1>5 DEF ContextInv, CacheOk, ContextTyped
  <2>3. \A x \in BuildTestUnits : after[x] = <<>>
    <3>1. BuildTestUnits \subseteq Checks!Units
      BY DEF Checks!Units
    <3> QED BY <3>1, <1>7 DEF ContextInv, CacheOk
  <2> QED BY <2>1, <2>2, <2>3 DEF CacheOk
<1> QED BY <1>9, <1>10, <1>11, <1>12 DEF ContextInv, new, low, u, n

-----------------------------------------------------------------------------
(* What a step of the build context comes to.                              *)

Top == stack[Len(stack)]

ContextOk == ContextInv(Needed, buildCache, toolCache, stack, ret, ran)

(* The innermost call asks for a unit that has no entry in the cache... *)
Calls ==
  \E x \in Checks!Buildable :
    /\ WaitsFor(Needed, toolCache, Top, x) /\ buildCache[x] = "none" /\ ret = "none"
    /\ stack' = Append(stack, [unit |-> x, at |-> 1])
    /\ UNCHANGED <<buildCache, toolCache, ret, ran, panicked>>

(* ...or for one that has. *)
Answers ==
  \E x \in Checks!Buildable :
    /\ WaitsFor(Needed, toolCache, Top, x) /\ buildCache[x] # "none" /\ ret' = buildCache[x]
    /\ UNCHANGED <<buildCache, toolCache, stack, ran, panicked>>

(* It has what it asked for. *)
Advances ==
  /\ Top.at \in DOMAIN Needed[Top.unit]
  /\ toolCache \subseteq toolCache' /\ toolCache' \subseteq Checks!Buildable
  /\ \A x \in toolCache' : buildCache[x] = "ok"
  /\ Met(Needed, buildCache, toolCache', Top.unit, Top.at)
  /\ stack' = [stack EXCEPT ![Len(stack)] = [stack[Len(stack)] EXCEPT !.at = stack[Len(stack)].at + 1]]
  /\ ret' = "none"
  /\ UNCHANGED <<buildCache, ran, panicked>>

(* It is done, with or without a command of its own. *)
Returns ==
  \E r \in Checks!Results :
    /\ MayReturn(Needed, buildCache, toolCache, stack, ret)
    /\ Recorded(Needed, buildCache, toolCache, Top.unit, r, ret, ran, ran')
    /\ stack' = Checks!Front(stack) /\ buildCache' = Stored(buildCache, Top.unit, r) /\ ret' = r
    /\ UNCHANGED <<toolCache, panicked>>

(* The process ends, perhaps in the command of a test. *)
Panics ==
  /\ panicked' = TRUE
  /\ \/ ran' = ran
     \/ Top.unit \in TestUnits /\ ran' = [ran EXCEPT ![Top.unit] = Append(ran[Top.unit], "panic")]
  /\ UNCHANGED <<buildCache, toolCache, stack, ret>>

(* What the invariant says of the innermost call. *)
LEMMA TopOk ==
  ASSUME repo \in Repos, ContextOk, stack # <<>>
  PROVE  /\ stack \in Seq(Frame) /\ Len(stack) \in DOMAIN stack /\ DOMAIN stack = 1 .. Len(stack)
         /\ Len(stack) \in Nat /\ Top \in Frame /\ Top.unit \in Checks!Units /\ Top.at \in Nat \ {0}
         /\ Checks!Innermost = Top
         /\ Checks!Needs(Top.unit) = Needed[Top.unit]
         /\ DOMAIN Needed[Top.unit] = 1 .. Len(Needed[Top.unit]) /\ Len(Needed[Top.unit]) \in Nat
         /\ Top.at <= Len(Needed[Top.unit]) + 1
         /\ \A k \in 1 .. Top.at - 1 : Met(Needed, buildCache, toolCache, Top.unit, k)
<1>1. stack \in Seq(Frame)
  BY DEF ContextOk, ContextInv, ContextTyped
<1>2. /\ Len(stack) \in DOMAIN stack /\ DOMAIN stack = 1 .. Len(stack) /\ Len(stack) \in Nat
      /\ Top \in Frame /\ Top.unit \in Checks!Units /\ Top.at \in Nat \ {0}
  BY <1>1, StackTyped DEF Top
<1>3. Checks!Innermost = Top
  BY DEF Checks!Innermost, Checks!Last, Top
<1>4. Checks!Needs(Top.unit) = Needed[Top.unit]
  BY <1>2 DEF Needed
<1>5. DOMAIN Needed[Top.unit] = 1 .. Len(Needed[Top.unit]) /\ Len(Needed[Top.unit]) \in Nat
  BY <1>2, NeededOk, NeedTyped
<1>6. /\ Top.at <= Len(Needed[Top.unit]) + 1
      /\ \A k \in 1 .. Top.at - 1 : Met(Needed, buildCache, toolCache, Top.unit, k)
  BY <1>2 DEF ContextOk, ContextInv, StackOk, Top
<1> QED BY <1>1, <1>2, <1>3, <1>4, <1>5, <1>6

(* The innermost call waits for something it may ask for. *)
LEMMA NeedingOk ==
  ASSUME repo \in Repos, ContextOk, Checks!Needing
  PROVE  /\ stack # <<>> /\ Top.at \in DOMAIN Needed[Top.unit]
         /\ Checks!CurrentNeed = Needed[Top.unit][Top.at]
         /\ Checks!CurrentNeed.unit \in Checks!Buildable
<1>1. stack # <<>> /\ Checks!Innermost.at <= Len(Checks!Needs(Checks!Innermost.unit))
  BY DEF Checks!Needing
<1>2. Top.at \in DOMAIN Needed[Top.unit]
  BY <1>1, TopOk
<1>3. Checks!CurrentNeed = Needed[Top.unit][Top.at]
  BY <1>1, TopOk DEF Checks!CurrentNeed
<1> QED BY <1>1, <1>2, <1>3, TopOk, NeededOk, NeedTyped

(* A tool that was copied is used again. *)
LEMMA ToolReadyEffect ==
  ASSUME repo \in Repos, ContextOk, Checks!ToolReady
  PROVE  Advances
<1>1. /\ Checks!Needing /\ Checks!CurrentNeed.as = "tool" /\ Checks!CurrentNeed.unit \in toolCache
      /\ Checks!Proceed /\ UNCHANGED <<buildCache, toolCache, ret, ran, panicked>> /\ ret = "none"
  BY DEF Checks!ToolReady
<1>2. Met(Needed, buildCache, toolCache', Top.unit, Top.at)
  BY <1>1, NeedingOk DEF Met, ContextOk, ContextInv, CacheOk
<1>3. stack' = [stack EXCEPT ![Len(stack)] = [stack[Len(stack)] EXCEPT !.at = stack[Len(stack)].at + 1]]
  BY <1>1 DEF Checks!Proceed, Checks!Advance
<1> QED BY <1>1, <1>2, <1>3, NeedingOk DEF Advances, ContextOk, ContextInv, CacheOk, ContextTyped

(* A unit is asked for. *)
LEMMA AskEffect ==
  ASSUME repo \in Repos, ContextOk, Checks!Ask
  PROVE  Calls \/ Answers \/ Panics
<1> DEFINE w == Checks!CurrentNeed.unit
<1>1. /\ Checks!Needing /\ ~(Checks!CurrentNeed.as = "tool" /\ w \in toolCache)
      /\ Checks!BuildWithCache(w) /\ UNCHANGED <<buildCache, toolCache, ran>> /\ ret = "none"
  BY DEF Checks!Ask
<1>2. WaitsFor(Needed, toolCache, Top, w) /\ w \in Checks!Buildable
  BY <1>1, NeedingOk DEF WaitsFor
<1> HIDE DEF w
<1>3. CASE buildCache[w] = "none"
  <2>1. stack' = Append(stack, [unit |-> w, at |-> 1]) /\ UNCHANGED <<ret, panicked>>
    BY <1>1, <1>3 DEF Checks!BuildWithCache, Checks!Call
  <2> QED BY <1>1, <1>2, <1>3, <2>1 DEF Calls
<1>4. CASE buildCache[w] = "error"
  <2>1. panicked' = TRUE /\ UNCHANGED <<stack, ret>>
    BY <1>1, <1>4 DEF Checks!BuildWithCache
  <2> QED BY <1>1, <2>1 DEF Panics
<1>5. CASE buildCache[w] # "none" /\ buildCache[w] # "error"
  <2>1. ret' = buildCache[w] /\ UNCHANGED <<stack, panicked>>
    BY <1>1, <1>5 DEF Checks!BuildWithCache
  <2> QED BY <1>1, <1>2, <1>5, <2>1 DEF Answers
<1> QED BY <1>3, <1>4, <1>5

(* A call returns. *)
LEMMA ReturnEffect ==
  ASSUME repo \in Repos, ContextOk, stack # <<>>, NEW r, Checks!Return(r)
  PROVE  stack' = Checks!Front(stack) /\ buildCache' = Stored(buildCache, Top.unit, r) /\ ret' = r
BY TopOk DEF Checks!Return, Checks!Cached, Stored

(* An answer is how the build of the unit asked for ended. *)
LEMMA AnswerOk ==
  ASSUME repo \in Repos, ContextOk, Checks!Needing, ret # "none"
  PROVE  /\ buildCache[Checks!CurrentNeed.unit] = ret
         /\ ~(Checks!CurrentNeed.as = "tool" /\ Checks!CurrentNeed.unit \in toolCache)
BY NeedingOk DEF ContextOk, ContextInv, RetOk, WaitsFor, Top

(* What was asked for is there. *)
LEMMA NeedMetEffect ==
  ASSUME repo \in Repos, ContextOk, Checks!NeedMet
  PROVE  Advances \/ Returns
<1> DEFINE n == Checks!CurrentNeed
<1>1. Checks!Needing /\ ret = "ok" /\ UNCHANGED <<ran, panicked>>
  BY DEF Checks!NeedMet
<1>2. /\ stack # <<>> /\ Top.at \in DOMAIN Needed[Top.unit] /\ n = Needed[Top.unit][Top.at]
      /\ n.unit \in Checks!Buildable /\ buildCache[n.unit] = "ok"
  BY <1>1, NeedingOk, AnswerOk
<1>3. CASE /\ n.as = "build" /\ Checks!Return("ok") /\ UNCHANGED toolCache
  <2>1. Top.unit \in BuildTestUnits
    BY <1>2, <1>3, TopOk, NeededOk DEF NeedsOk
  <2>2. Len(Needed[Top.unit]) = 1 /\ Top.at = 1
    BY <2>1, <1>2, TopOk, NeededOk DEF NeedsOk
  <2>3. AllMet(Needed, buildCache, toolCache, Top.unit)
    <3>1. DOMAIN Needed[Top.unit] = {1}
      BY <2>2, <1>2, TopOk
    <3> QED BY <3>1, <2>2, <1>2, <1>3 DEF AllMet, Met
  <2>4. stack' = Checks!Front(stack) /\ buildCache' = Stored(buildCache, Top.unit, "ok") /\ ret' = "ok"
    BY <1>2, <1>3, ReturnEffect
  <2>5. MayReturn(Needed, buildCache, toolCache, stack, ret)
    BY <2>3 DEF MayReturn, Top
  <2>6. Recorded(Needed, buildCache, toolCache, Top.unit, "ok", ret, ran, ran')
    BY <2>1, <2>3, <1>1 DEF Recorded
  <2> QED BY <1>1, <1>3, <2>4, <2>5, <2>6 DEF Returns, Checks!Results
<1>4. CASE /\ n.as # "build" /\ Checks!Proceed /\ ret' = "none" /\ UNCHANGED buildCache
           /\ toolCache' = IF n.as = "tool" THEN toolCache \cup {n.unit} ELSE toolCache
  <2>1. stack' = [stack EXCEPT ![Len(stack)] = [stack[Len(stack)] EXCEPT !.at = stack[Len(stack)].at + 1]]
    BY <1>4 DEF Checks!Proceed, Checks!Advance
  <2>2. /\ toolCache \subseteq toolCache' /\ toolCache' \subseteq Checks!Buildable
        /\ \A x \in toolCache' : buildCache[x] = "ok"
    BY <1>2, <1>4 DEF ContextOk, ContextInv, CacheOk, ContextTyped
  <2>3. Met(Needed, buildCache, toolCache', Top.unit, Top.at)
    BY <1>2, <1>4 DEF Met
  <2> QED BY <1>1, <1>2, <1>4, <2>1, <2>2, <2>3 DEF Advances
<1> QED BY <1>3, <1>4 DEF Checks!NeedMet

(* A tool without one executable output is an error. *)
LEMMA ToolUnusableEffect ==
  ASSUME repo \in Repos, ContextOk, Checks!ToolUnusable
  PROVE  Returns
<1> DEFINE n == Checks!CurrentNeed
<1>1. /\ Checks!Needing /\ ret = "ok" /\ n.as = "tool" /\ Checks!Return("error")
      /\ UNCHANGED <<toolCache, panicked>>
      /\ ran' = [ran EXCEPT ![Checks!Innermost.unit] = Append(ran[Checks!Innermost.unit], "error")]
  BY DEF Checks!ToolUnusable
<1>2. /\ stack # <<>> /\ Top.at \in DOMAIN Needed[Top.unit] /\ n = Needed[Top.unit][Top.at]
      /\ n.unit \notin toolCache
  BY <1>1, NeedingOk, AnswerOk
<1>3. Top.unit \notin BuildTestUnits
  <2>1. Top.unit \in BuildTestUnits => Top.at = 1 /\ n.as = "build"
    BY <1>2, TopOk, NeededOk DEF NeedsOk
  <2> QED BY <1>1, <2>1
<1>4. MayReturn(Needed, buildCache, toolCache, stack, ret)
  BY <1>1, <1>2 DEF MayReturn, Met, Top
<1>5. Recorded(Needed, buildCache, toolCache, Top.unit, "error", ret, ran, ran')
  BY <1>1, <1>2, <1>3, TopOk DEF Recorded
<1> QED BY <1>1, <1>2, <1>4, <1>5, ReturnEffect DEF Returns, Checks!Results

(* A unit inherits the failure of what it needs. *)
LEMMA NeedFailedEffect ==
  ASSUME repo \in Repos, ContextOk, Checks!NeedFailed
  PROVE  Returns
<1> DEFINE r == Checks!Inherited(Checks!Innermost.unit, ret)
<1>1. /\ Checks!Needing /\ ret \in Bad /\ Checks!Return(r) /\ UNCHANGED <<toolCache, ran, panicked>>
  BY DEF Checks!NeedFailed, Bad
<1>2. r \in Checks!Results /\ r # "ok"
  BY <1>1 DEF Checks!Inherited, Bad, Checks!Results
<1> HIDE DEF r
<1>3. /\ stack # <<>> /\ ~ Met(Needed, buildCache, toolCache, Top.unit, Top.at)
  BY <1>1, NeedingOk, AnswerOk DEF Met, Bad
<1>4. MayReturn(Needed, buildCache, toolCache, stack, ret)
  BY <1>1, <1>3 DEF MayReturn, Top, Bad
<1>5. Recorded(Needed, buildCache, toolCache, Top.unit, r, ret, ran, ran')
  BY <1>1, <1>2 DEF Recorded
<1> QED BY <1>1, <1>2, <1>3, <1>4, <1>5, ReturnEffect DEF Returns

(* The command of a unit. *)
LEMMA ExecuteEffect ==
  ASSUME repo \in Repos, ContextOk, NEW units \in {Checks!Buildable, TestUnits, Actions},
         Checks!Execute(units)
  PROVE  Returns \/ Panics
<1>1. stack # <<>> /\ ~Checks!Needing /\ Checks!Innermost.unit \in units /\ UNCHANGED toolCache
  BY DEF Checks!Execute
<1>2. PICK o \in Checks!Outcomes(Checks!Innermost.unit) :
        /\ ran' = [ran EXCEPT ![Checks!Innermost.unit] = Append(ran[Checks!Innermost.unit], o)]
        /\ IF o = "panic" THEN panicked' = TRUE /\ UNCHANGED <<stack, buildCache, ret>>
                          ELSE Checks!Return(o) /\ UNCHANGED panicked
  BY DEF Checks!Execute
<1> DEFINE u == Top.unit
<1>3. u \in units /\ ran' = [ran EXCEPT ![u] = Append(ran[u], o)] /\ o \in Checks!Outcomes(u)
  BY <1>1, <1>2, TopOk
<1>4. u \notin BuildTestUnits
  BY <1>3, Apart DEF Checks!Buildable
<1>5. o = "panic" => u \in TestUnits
  BY <1>3 DEF Checks!Outcomes
<1>6. o # "panic" => o \in Checks!Results
  BY <1>3 DEF Checks!Outcomes, Checks!Results
<1>7. AllMet(Needed, buildCache, toolCache, u)
  <2>1. Top.at = Len(Needed[u]) + 1
    BY <1>1, TopOk DEF Checks!Needing
  <2> QED BY <1>1, <2>1, TopOk DEF AllMet
<1> HIDE DEF u
<1>8. CASE o = "panic"
  BY <1>1, <1>2, <1>3, <1>5, <1>8 DEF Panics, u
<1>9. CASE o # "panic"
  <2>1. MayReturn(Needed, buildCache, toolCache, stack, ret)
    BY <1>7 DEF MayReturn, Top, u
  <2>2. Recorded(Needed, buildCache, toolCache, u, o, ret, ran, ran')
    BY <1>3, <1>4, <1>7 DEF Recorded
  <2> QED BY <1>1, <1>2, <1>6, <1>9, <2>1, <2>2, ReturnEffect DEF Returns, u
<1> QED BY <1>8, <1>9

(* Every step of the context has one of these effects. *)
LEMMA ContextEffects ==
  ASSUME repo \in Repos, ContextOk, Checks!ContextStep
  PROVE  /\ stack # <<>> /\ ~panicked /\ repo' = repo
         /\ Calls \/ Answers \/ Advances \/ Returns \/ Panics
<1>1. ASSUME Checks!ToolReady \/ Checks!Ask \/ Checks!NeedMet \/ Checks!ToolUnusable \/ Checks!NeedFailed
      PROVE  stack # <<>> /\ ~panicked /\ repo' = repo
  BY <1>1 DEF Checks!ToolReady, Checks!Ask, Checks!NeedMet, Checks!ToolUnusable, Checks!NeedFailed,
              Checks!Needing
<1>2. ASSUME NEW units, Checks!Execute(units)
      PROVE  stack # <<>> /\ ~panicked /\ repo' = repo
  BY <1>2 DEF Checks!Execute
<1> QED BY <1>1, <1>2, ToolReadyEffect, AskEffect, NeedMetEffect, ToolUnusableEffect, NeedFailedEffect,
           ExecuteEffect
        DEF Checks!ContextStep, Checks!ExecuteBuild, Checks!ExecuteTest, Checks!ExecuteCheck

-----------------------------------------------------------------------------
(* What depends on the files alone stays while they do.                    *)

(* A unit needs what it needed. *)
LEMMA RepoNeeds ==
  ASSUME repo' = repo
  PROVE  /\ \A u : Checks!Needs(u)' = Checks!Needs(u)
         /\ Needed' = Needed
<1>1. \A u : Checks!Needs(u)' = Checks!Needs(u)
  BY DEF Checks!Needs, Checks!Tool, Checks!Deps
<1> QED BY <1>1 DEF Needed

(* What the change asks for stays. *)
LEMMA RepoDemands ==
  ASSUME repo' = repo
  PROVE  Checks!Requested' = Checks!Requested /\ Checks!Demanded' = Checks!Demanded
<1>1. \A l : Checks!Below(l)' = Checks!Below(l)
  BY RepoNeeds DEF Checks!Below
<1>2. \A ps : Checks!Triggered(ps)' = Checks!Triggered(ps)
  BY DEF Checks!Triggered, Checks!Match, Checks!PathExprs, Checks!Includes
<1>3. Checks!Requested' = Checks!Requested
  BY <1>2 DEF Checks!Requested
<1>4. Checks!Roots' = Checks!Roots
  BY <1>3 DEF Checks!Roots, Checks!Applicable
<1> QED BY <1>1, <1>3, <1>4 DEF Checks!Demanded

(* Every step of the context keeps its invariant. *)
LEMMA ContextStepOk ==
  ASSUME repo \in Repos, ContextOk, Checks!ContextStep
  PROVE  ContextOk'
<1>1. /\ stack # <<>> /\ repo' = repo /\ Needed' = Needed /\ NeedsOk(Needed)
      /\ Calls \/ Answers \/ Advances \/ Returns \/ Panics
  BY ContextEffects, RepoNeeds, NeededOk
<1> DEFINE N == Needed
<1>2. NeedsOk(N) /\ ContextInv(N, buildCache, toolCache, stack, ret, ran)
  BY <1>1 DEF ContextOk
<1> SUFFICES ContextInv(N, buildCache', toolCache', stack', ret', ran')
  BY <1>1 DEF ContextOk
<1>3. CASE Calls
  <2>1. PICK x \in Checks!Buildable :
          /\ WaitsFor(N, toolCache, Top, x) /\ buildCache[x] = "none" /\ ret = "none"
          /\ stack' = Append(stack, [unit |-> x, at |-> 1])
          /\ UNCHANGED <<buildCache, toolCache, ret, ran, panicked>>
    BY <1>3 DEF Calls
  <2>2. x \in Checks!Units
    BY DEF Checks!Units
  <2> HIDE DEF N
  <2>3. ContextInv(N, buildCache, toolCache, Append(stack, [unit |-> x, at |-> 1]), "none", ran)
    BY <1>2, <2>1, <2>2, PushOk DEF Top
  <2> QED BY <2>1, <2>3
<1>4. CASE Answers
  <2>1. PICK x \in Checks!Buildable :
          /\ WaitsFor(N, toolCache, Top, x) /\ buildCache[x] # "none" /\ ret' = buildCache[x]
          /\ UNCHANGED <<buildCache, toolCache, stack, ran, panicked>>
    BY <1>4 DEF Answers
  <2> HIDE DEF N
  <2>2. RetOk(N, buildCache, toolCache, stack, buildCache[x])
    BY <2>1 DEF RetOk, Top
  <2>3. ContextTyped(buildCache, toolCache, stack, buildCache[x], ran)
    BY <1>2 DEF ContextInv, ContextTyped
  <2> QED BY <1>2, <2>1, <2>2, <2>3 DEF ContextInv
<1>5. CASE Advances
  <2> HIDE DEF N
  <2>1. ContextInv(N, buildCache, toolCache',
           [stack EXCEPT ![Len(stack)] = [stack[Len(stack)] EXCEPT !.at = stack[Len(stack)].at + 1]], "none", ran)
    BY <1>1, <1>2, <1>5, ProceedOk DEF Advances, Top, N
  <2> QED BY <1>5, <2>1 DEF Advances
<1>6. CASE Returns
  <2>1. PICK r \in Checks!Results :
          /\ MayReturn(N, buildCache, toolCache, stack, ret)
          /\ Recorded(N, buildCache, toolCache, Top.unit, r, ret, ran, ran')
          /\ stack' = Checks!Front(stack) /\ buildCache' = Stored(buildCache, Top.unit, r) /\ ret' = r
          /\ UNCHANGED <<toolCache, panicked>>
    BY <1>6 DEF Returns
  <2> HIDE DEF N
  <2>2. ContextInv(N, Stored(buildCache, stack[Len(stack)].unit, r), toolCache, Checks!Front(stack), r, ran')
    BY <1>1, <1>2, <2>1, PopOk DEF Top
  <2> QED BY <2>1, <2>2 DEF Top
<1>7. CASE Panics
  <2>0. UNCHANGED <<buildCache, toolCache, stack, ret>>
    BY <1>7 DEF Panics
  <2>1. CASE ran' = ran
    BY <2>0, <2>1, <1>2
  <2>2. CASE Top.unit \in TestUnits /\ ran' = [ran EXCEPT ![Top.unit] = Append(ran[Top.unit], "panic")]
    <3>1. Top.unit \in Checks!Units
      BY <2>2 DEF Checks!Units
    <3>2. ran \in [Checks!Units -> Seq(Checks!Results \cup {"panic"})]
      BY <1>2 DEF ContextInv, ContextTyped
    <3>3. Append(ran[Top.unit], "panic") \in Seq(Checks!Results \cup {"panic"})
      BY <3>1, <3>2
    <3>4. /\ ran' \in [Checks!Units -> Seq(Checks!Results \cup {"panic"})]
          /\ \A u \in Checks!Units \ TestUnits : ran'[u] = ran[u]
      BY <2>2, <3>1, <3>2, <3>3
    <3>5. Checks!Buildable \cup BuildTestUnits \subseteq Checks!Units \ TestUnits
      BY Apart DEF Checks!Buildable, Checks!Units
    <3> HIDE DEF N
    <3>6. CacheOk(N, buildCache, toolCache, ran')
      BY <1>2, <3>4, <3>5 DEF ContextInv, CacheOk
    <3>7. ContextTyped(buildCache, toolCache, stack, ret, ran')
      BY <1>2, <3>4 DEF ContextInv, ContextTyped
    <3> QED BY <2>0, <1>2, <3>6, <3>7 DEF ContextInv
  <2> QED BY <1>7, <2>1, <2>2 DEF Panics
<1> QED BY <1>1, <1>3, <1>4, <1>5, <1>6, <1>7

(* What is there stays there. *)
LEMMA CacheGrows ==
  ASSUME repo \in Repos, ContextOk, Checks!ContextStep
  PROVE  /\ \A x \in Checks!Buildable : buildCache[x] = "ok" => buildCache'[x] = "ok"
         /\ toolCache \subseteq toolCache'
<1>1. /\ stack # <<>>
      /\ Calls \/ Answers \/ Advances \/ Returns \/ Panics
  BY ContextEffects
<1>2. CASE ~ Returns
  BY <1>1, <1>2 DEF Calls, Answers, Advances, Panics
<1>3. CASE Returns
  <2>1. PICK r \in Checks!Results : buildCache' = Stored(buildCache, Top.unit, r) /\ toolCache' = toolCache
    BY <1>3 DEF Returns
  <2>2. Top.unit \in Checks!Buildable => buildCache[Top.unit] = "none"
    BY <1>1, TopOk DEF ContextOk, ContextInv, StackOk, Top
  <2> QED BY <2>1, <2>2 DEF Stored, ContextOk, ContextInv, ContextTyped
<1> QED BY <1>2, <1>3

(* A unit that has all it needs keeps it. *)
LEMMA AllMetKept ==
  ASSUME NEW N, NeedsOk(N), NEW cache, NEW tools, NEW cache2, NEW tools2, NEW u \in Checks!Units,
         \A x \in Checks!Buildable : cache[x] = "ok" => cache2[x] = "ok", tools \subseteq tools2,
         AllMet(N, cache, tools, u)
  PROVE  AllMet(N, cache2, tools2, u)
BY NeedTyped DEF AllMet, Met

(* The only call of a unit that is not built for another one is the        *)
(* presubmit's own.                                                        *)
LEMMA TopAlone ==
  ASSUME repo \in Repos, ContextOk, stack # <<>>, Top.unit \notin Checks!Buildable
  PROVE  Len(stack) = 1
<1> SUFFICES ASSUME Len(stack) # 1 PROVE FALSE
  OBVIOUS
<1> DEFINE i == Len(stack) - 1
<1>1. i \in DOMAIN stack /\ i + 1 \in DOMAIN stack /\ i + 1 = Len(stack) /\ stack \in Seq(Frame)
  BY TopOk
<1>2. WaitsFor(Needed, toolCache, stack[i], Top.unit)
  BY <1>1 DEF ContextOk, ContextInv, StackOk, Top
<1> HIDE DEF i
<1>3. stack[i].unit \in Checks!Units
  BY <1>1, StackTyped
<1> QED BY <1>2, <1>3, NeededOk, NeedTyped DEF WaitsFor

(* How a step changes the stack and the history. *)
LEMMA StackMoves ==
  ASSUME repo \in Repos, ContextOk, Checks!ContextStep
  PROVE  \/ /\ stack' # <<>> /\ stack'[1].unit = stack[1].unit
            /\ panicked' \/ ran' = ran
            /\ \/ ran' = ran
               \/ Top.unit \in TestUnits /\ ran' = [ran EXCEPT ![Top.unit] = Append(ran[Top.unit], "panic")]
         \/ /\ panicked' = panicked /\ Returns
            /\ Len(stack) # 1 => stack' # <<>> /\ stack'[1].unit = stack[1].unit
            /\ Len(stack) = 1 => stack' = <<>>
<1>1. /\ stack # <<>>
      /\ Calls \/ Answers \/ Advances \/ Returns \/ Panics
  BY ContextEffects
<1>2. /\ stack \in Seq(Frame) /\ Len(stack) \in Nat \ {0} /\ DOMAIN stack = 1 .. Len(stack)
      /\ Top = stack[Len(stack)] /\ Top \in Frame
  BY <1>1, TopOk DEF Top
<1>3. CASE Calls
  <2>1. PICK x \in Checks!Buildable : stack' = Append(stack, [unit |-> x, at |-> 1]) /\ ran' = ran
    BY <1>3 DEF Calls
  <2> DEFINE f == [unit |-> x, at |-> 1]
  <2>2. f \in Frame
    BY DEF Frame, Checks!Units
  <2> HIDE DEF f
  <2>3. Append(stack, f)[1] = stack[1] /\ Append(stack, f) # <<>>
    BY <1>2, <2>2
  <2> QED BY <2>1, <2>3 DEF f
<1>4. CASE Answers
  BY <1>1, <1>4 DEF Answers
<1>5. CASE Advances
  <2> DEFINE n == Len(stack)
             f == [stack[n] EXCEPT !.at = stack[n].at + 1]
  <2>1. f \in Frame /\ f.unit = stack[n].unit
    BY <1>2 DEF Frame
  <2>2. stack' = [stack EXCEPT ![n] = f] /\ ran' = ran
    BY <1>5 DEF Advances
  <2> HIDE DEF f
  <2>3. stack' # <<>>
    BY <2>1, <2>2, <1>2
  <2>4. stack'[1].unit = stack[1].unit
    <3>1. 1 \in DOMAIN stack
      BY <1>2
    <3>2. CASE n = 1
      BY <2>1, <2>2, <3>1, <3>2
    <3>3. CASE n # 1
      BY <2>2, <3>1, <3>3
    <3> QED BY <3>2, <3>3
  <2> QED BY <2>2, <2>3, <2>4
<1>6. CASE Returns
  <2>1. stack' = Checks!Front(stack) /\ panicked' = panicked
    BY <1>6 DEF Returns
  <2>2. /\ stack' \in Seq(Frame) /\ Len(stack') = Len(stack) - 1
        /\ \A i \in 1 .. Len(stack) - 1 : stack'[i] = stack[i]
    BY <1>1, <1>2, <2>1, FrontOk
  <2>3. Len(stack) # 1 => stack' # <<>> /\ stack'[1] = stack[1]
    BY <1>2, <2>2
  <2>4. Len(stack) = 1 => stack' = <<>>
    BY <2>2
  <2> QED BY <1>6, <2>1, <2>3, <2>4
<1>7. CASE Panics
  BY <1>1, <1>7 DEF Panics
<1> QED BY <1>1, <1>3, <1>4, <1>5, <1>6, <1>7

-----------------------------------------------------------------------------
(* The verdict, while a check runs.                                        *)

(* The elements of a longer history. *)
LEMMA ToSetAppend ==
  ASSUME NEW S, NEW s \in Seq(S), NEW o \in S
  PROVE  Checks!ToSet(Append(s, o)) = Checks!ToSet(s) \cup {o} /\ Append(s, o) # <<>>
<1>1. /\ DOMAIN s = 1 .. Len(s) /\ Len(s) \in Nat /\ DOMAIN Append(s, o) = 1 .. Len(s) + 1
      /\ \A i \in 1 .. Len(s) : Append(s, o)[i] = s[i]
      /\ Append(s, o)[Len(s) + 1] = o
  OBVIOUS
<1>2. ASSUME NEW x \in Checks!ToSet(Append(s, o)) PROVE x \in Checks!ToSet(s) \cup {o}
  <2>1. PICK i \in 1 .. Len(s) + 1 : Append(s, o)[i] = x
    BY <1>1, <1>2 DEF Checks!ToSet
  <2>2. i \in 1 .. Len(s) \/ i = Len(s) + 1
    BY <1>1
  <2> QED BY <1>1, <2>1, <2>2 DEF Checks!ToSet
<1>3. ASSUME NEW x \in Checks!ToSet(s) \cup {o} PROVE x \in Checks!ToSet(Append(s, o))
  <2>1. CASE x = o
    <3>1. Len(s) + 1 \in DOMAIN Append(s, o)
      BY <1>1
    <3> QED BY <1>1, <2>1, <3>1 DEF Checks!ToSet
  <2>2. CASE x \in Checks!ToSet(s)
    <3>1. PICK i \in 1 .. Len(s) : s[i] = x
      BY <1>1, <2>2 DEF Checks!ToSet
    <3>2. i \in DOMAIN Append(s, o)
      BY <1>1
    <3> QED BY <1>1, <3>1, <3>2 DEF Checks!ToSet
  <2> QED BY <1>3, <2>1, <2>2
<1> QED BY <1>2, <1>3

(* The history of a unit is a list of outcomes. *)
LEMMA RanTyped ==
  ASSUME ContextOk, NEW u \in Checks!Units
  PROVE  ran[u] \in Seq(Checks!Results \cup {"panic"}) /\ DOMAIN ran = Checks!Units
BY DEF ContextOk, ContextInv, ContextTyped

(* A command that succeeds, of a unit that has not failed before. *)
LEMMA OkAgain ==
  ASSUME ContextOk, NEW u \in Checks!Units, Checks!ToSet(ran[u]) \subseteq {"ok"}
  PROVE  AllOk(Append(ran[u], "ok"))
BY RanTyped, ToSetAppend DEF AllOk, Checks!Results

(* When the presubmit's own call returns, none is left. *)
LEMMA LastReturns ==
  ASSUME repo \in Repos, ContextOk, stack # <<>>, Returns, Len(stack) = 1
  PROVE  stack' = <<>>
<1>1. PICK f : f = Checks!Front(stack)
  OBVIOUS
<1>2. stack \in Seq(Frame) /\ stack' = f
  BY <1>1, TopOk DEF Returns
<1>3. f \in Seq(Frame) /\ Len(f) = Len(stack) - 1
  BY <1>1, <1>2, FrontOk
<1>4. f = <<>>
  BY <1>3
<1> QED BY <1>2, <1>4

(* While nothing fails, all that was begun has passed or is running. *)
LEMMA ContextPassed ==
  ASSUME repo \in Repos, ContextOk, PassedSoFar, Checks!ContextStep,
         UNCHANGED <<stage, checks, left, success>>
  PROVE  PassedSoFar'
<1> SUFFICES ASSUME stage \in {"run", "done"}, Clean'
             PROVE  /\ \A x \in Actions \cup TestUnits : Checks!ToSet(ran'[x]) \subseteq {"ok"}
                    /\ \A i \in DOMAIN checks \ left :
                         /\ checks[i].kind # "fail"
                         /\ \/ LabelOk(Needed', buildCache', toolCache', ran', checks[i].of)
                            \/ stack' # <<>> /\ stack'[1].unit = checks[i].of
  BY DEF PassedSoFar
<1>1. /\ stack # <<>> /\ ~panicked /\ repo' = repo /\ Needed' = Needed /\ NeedsOk(Needed)
  BY ContextEffects, RepoNeeds, NeededOk
<1>2. Clean
  BY <1>1 DEF Clean
<1>3. /\ \A x \in Actions \cup TestUnits : Checks!ToSet(ran[x]) \subseteq {"ok"}
      /\ \A i \in DOMAIN checks \ left :
           /\ checks[i].kind # "fail"
           /\ \/ LabelOk(Needed, buildCache, toolCache, ran, checks[i].of)
              \/ stack # <<>> /\ stack[1].unit = checks[i].of
  BY <1>2 DEF PassedSoFar
<1>4. ASSUME NEW x \in Checks!Units, AllMet(Needed, buildCache, toolCache, x)
      PROVE  AllMet(Needed, buildCache', toolCache', x)
  BY <1>1, <1>4, CacheGrows, AllMetKept
<1>5. CASE ~ Returns
  <2>1. stack' # <<>> /\ stack'[1].unit = stack[1].unit /\ ran' = ran
    BY <1>5, StackMoves DEF Clean
  <2> QED BY <1>1, <1>3, <1>4, <2>1 DEF LabelOk
<1>6. CASE Returns
  <2> DEFINE u == Top.unit
  <2>1. PICK r \in Checks!Results : Recorded(Needed, buildCache, toolCache, u, r, ret, ran, ran') /\ ret' = r
    BY <1>6 DEF Returns
  <2>2. Len(stack) # 1 => stack' # <<>> /\ stack'[1].unit = stack[1].unit
    <3>1. Len(stack) # 1 \/ stack' = <<>>
      BY StackMoves, <1>1, <1>6, TopOk, FrontOk DEF Returns
    <3> QED BY StackMoves, <1>6, <1>1, TopOk, FrontOk DEF Returns
  <2>3. Len(stack) = 1 => r = "ok"
    <3>1. Len(stack) = 1 => stack' = <<>>
      BY <1>1, <1>6, LastReturns
    <3> QED BY <2>1, <3>1 DEF Clean, Bad, Checks!Results
  <2>4. /\ u \in Checks!Units /\ (Len(stack) = 1 => stack[1].unit = u)
        /\ u \notin Checks!Buildable => Len(stack) = 1
        /\ u \in Checks!Buildable => ran[u] = <<>>
    BY <1>1, TopOk, TopAlone DEF Top, ContextOk, ContextInv, StackOk, CacheOk
  <2>5. /\ \A x \in Checks!Units : x # u => ran'[x] = ran[x]
        /\ ran'[u] = ran[u] \/ ran'[u] = Append(ran[u], r)
        /\ r = "ok" => AllMet(Needed, buildCache, toolCache, u)
        /\ r = "ok" /\ u \notin BuildTestUnits => ran'[u] = Append(ran[u], "ok")
    BY <2>1, <2>4, RanTyped DEF Recorded
  <2> HIDE DEF u
  <2>6. u \notin BuildTestUnits => Checks!ToSet(ran[u]) \subseteq {"ok"}
    <3>1. CASE u \in Checks!Buildable
      BY <3>1, <2>4 DEF Checks!ToSet
    <3>2. CASE u \in Actions \cup TestUnits
      BY <3>2, <1>3
    <3> QED BY <3>1, <3>2, <2>4 DEF Checks!Units
  <2>7. r = "ok" /\ u \notin BuildTestUnits => AllOk(ran'[u])
    BY <2>4, <2>5, <2>6, OkAgain
  <2>8. ASSUME NEW x \in Actions \cup TestUnits PROVE Checks!ToSet(ran'[x]) \subseteq {"ok"}
    <3>1. x \in Checks!Units
      BY DEF Checks!Units
    <3>2. CASE x # u
      BY <3>1, <3>2, <1>3, <2>5
    <3>3. CASE x = u
      <4>1. u \notin Checks!Buildable /\ u \notin BuildTestUnits
        BY <3>3, Apart DEF Checks!Buildable
      <4> QED BY <3>3, <4>1, <2>3, <2>4, <2>7 DEF AllOk
    <3> QED BY <3>2, <3>3
  <2>9. ASSUME NEW i \in DOMAIN checks \ left
        PROVE  \/ LabelOk(Needed, buildCache', toolCache', ran', checks[i].of)
               \/ stack' # <<>> /\ stack'[1].unit = checks[i].of
    <3> DEFINE l == checks[i].of
    <3>1. CASE LabelOk(Needed, buildCache, toolCache, ran, l)
      <4>1. l \in Checks!Units /\ AllMet(Needed, buildCache', toolCache', l)
        BY <3>1, <1>4 DEF LabelOk
      <4>2. ASSUME l \notin BuildTestUnits PROVE AllOk(ran'[l])
        <5>1. AllOk(ran[l])
          BY <3>1, <4>2 DEF LabelOk
        <5>2. CASE l # u
          BY <4>1, <5>1, <5>2, <2>5
        <5>3. CASE l = u
          <6>1. u \notin Checks!Buildable
            BY <5>1, <5>3, <2>4 DEF AllOk
          <6> QED BY <6>1, <5>3, <4>2, <2>3, <2>4, <2>7
        <5> QED BY <5>2, <5>3
      <4> QED BY <4>1, <4>2 DEF LabelOk
    <3>2. CASE stack[1].unit = l
      <4>1. CASE Len(stack) # 1
        BY <3>2, <4>1, <2>2
      <4>2. CASE Len(stack) = 1
        BY <3>2, <4>2, <2>3, <2>4, <2>5, <2>7, <1>4 DEF LabelOk
      <4> QED BY <4>1, <4>2
    <3> QED BY <1>3, <3>1, <3>2
  <2> QED BY <1>1, <1>3, <2>8, <2>9
<1> QED BY <1>5, <1>6

(* A test that is running was not begun before. *)
LEMMA ContextTests ==
  ASSUME repo \in Repos, ContextOk, TestsRunOnce, Checks!ContextStep, UNCHANGED <<stage, checks, left>>
  PROVE  TestsRunOnce'
<1>1. /\ stack # <<>> /\ ~panicked
  BY ContextEffects
<1>2. Top.unit \in Checks!Units /\ Top = stack[Len(stack)]
  BY <1>1, TopOk DEF Top
<1> SUFFICES ASSUME NEW t \in TestUnits
             PROVE  /\ Running(t)' \/ ran'[t] # <<>> => \A i \in left : checks[i] # TestCheck(t)
                    /\ ~panicked' /\ Running(t)' => ran'[t] = <<>>
                    /\ Len(ran'[t]) <= 1
  BY DEF TestsRunOnce
<1>3. /\ Running(t) \/ ran[t] # <<>> => \A i \in left : checks[i] # TestCheck(t)
      /\ Running(t) => ran[t] = <<>>
      /\ Len(ran[t]) <= 1
  BY <1>1 DEF TestsRunOnce
<1>4. t \in Checks!Units /\ t \notin Checks!Buildable
  BY Apart DEF Checks!Units, Checks!Buildable
<1>5. t = Top.unit => Running(t) /\ Len(stack) = 1
  BY <1>1, <1>2, <1>4, TopAlone DEF Running
<1>6. Running(t)' => Running(t)
  BY StackMoves, <1>1 DEF Running
<1>7. /\ ran'[t] = ran[t] \/ (t = Top.unit /\ \E o \in Checks!Results \cup {"panic"} : ran'[t] = Append(ran[t], o))
      /\ ran'[t] = ran[t] \/ panicked' \/ (t = Top.unit /\ Len(stack) = 1 /\ Returns)
  <2>1. CASE Returns
    <3>1. PICK r \in Checks!Results : Recorded(Needed, buildCache, toolCache, Top.unit, r, ret, ran, ran')
      BY <2>1 DEF Returns
    <3>2. ran'[t] = ran[t] \/ (t = Top.unit /\ ran'[t] = Append(ran[t], r))
      BY <3>1, <1>2, <1>4, RanTyped DEF Recorded
    <3> QED BY <2>1, <3>2, <1>5
  <2>2. CASE ~ Returns
    BY <2>2, <1>2, <1>4, StackMoves, RanTyped
  <2> QED BY <2>1, <2>2
<1>8. CASE ran'[t] = ran[t]
  BY <1>3, <1>6, <1>8
<1>9. CASE ran'[t] # ran[t]
  <2>1. t = Top.unit /\ Running(t) /\ ran[t] = <<>>
    BY <1>3, <1>5, <1>7, <1>9
  <2>2. PICK o \in Checks!Results \cup {"panic"} : ran'[t] = Append(<<>>, o)
    BY <1>7, <1>9, <2>1
  <2>3. Len(Append(<<>>, o)) = 1
    OBVIOUS
  <2>4. ASSUME ~panicked', Running(t)' PROVE FALSE
    <3>1. Returns /\ Len(stack) = 1
      BY <1>7, <1>9, <2>4
    <3>2. stack' = <<>>
      BY <3>1, <1>1, LastReturns
    <3> QED BY <2>4, <3>2 DEF Running
  <2>5. Len(ran'[t]) <= 1
    BY <2>2, <2>3
  <2> QED BY <1>3, <2>1, <2>4, <2>5
<1> QED BY <1>8, <1>9

-----------------------------------------------------------------------------
(* What is demanded.                                                       *)

(* The fields of a request. *)
LEMMA RequestsTyped ==
  ASSUME NEW q \in Checks!Requests
  PROVE  /\ q.kind \in {"check", "build", "test"} /\ q.of \in Checks!Labels
         /\ q = [kind |-> q.kind, of |-> q.of]
         /\ q.kind = "check" => q.of \in Actions
<1>1. Actions \subseteq Checks!Labels
  BY DEF Checks!Labels, Checks!Units
<1> QED BY <1>1 DEF Checks!Requests

(* What the triggered presubmits ask for are requests. *)
LEMMA RequestedTyped ==
  ASSUME repo \in Repos
  PROVE  Checks!Requested \subseteq Checks!Requests
<1> DEFINE P == [include : Seq(SUBSET Files \cup {Invalid}), exclude : Seq(SUBSET Files \cup {Invalid}),
                 requests : Seq(Checks!Requests)]
<1>1. repo.presubmits \in Seq(P)
  BY RepoValid DEF Checks!ValidChecks
<1>2. \A p \in P : p.requests \in Seq(Checks!Requests)
  OBVIOUS
<1> HIDE DEF P
<1>3. \A i \in DOMAIN repo.presubmits : repo.presubmits[i].requests \in Seq(Checks!Requests)
  BY <1>1, <1>2
<1>4. \A i \in DOMAIN repo.presubmits : \A j \in DOMAIN repo.presubmits[i].requests :
         repo.presubmits[i].requests[j] \in Checks!Requests
  BY <1>3
<1> QED BY <1>4 DEF Checks!Requested

(* The members of a suite are labels. *)
LEMMA SuiteTyped ==
  ASSUME repo \in Repos, NEW s \in Suites
  PROVE  repo.suite[s] \in Seq(Checks!Labels) /\ Checks!ToSet(repo.suite[s]) \subseteq Checks!Labels
<1>1. repo.suite[s] \in Seq(Checks!Labels)
  BY RepoValid DEF Checks!ValidChecks
<1> QED BY <1>1 DEF Checks!ToSet

(* What a suite stands on are its members... *)
LEMMA BelowSuite ==
  ASSUME NEW s \in Suites
  PROVE  Checks!Below(s) = Checks!ToSet(repo.suite[s])
<1>1. s \notin Checks!Units
  BY Apart DEF Checks!Units, Checks!Buildable
<1> QED BY <1>1 DEF Checks!Below

(* ...and what a unit stands on is what it needs. *)
LEMMA BelowUnit ==
  ASSUME repo \in Repos, NEW u \in Checks!Units
  PROVE  Checks!Below(u) = {Needed[u][k].unit : k \in DOMAIN Needed[u]}
<1>1. u \notin Suites
  BY Apart DEF Checks!Units, Checks!Buildable
<1>2. Needed[u] = Checks!Needs(u)
  BY DEF Needed
<1>3. Checks!Below(u) = {n.unit : n \in Checks!ToSet(Checks!Needs(u))}
  BY <1>1 DEF Checks!Below
<1> QED BY <1>2, <1>3 DEF Checks!ToSet

(* Labels stand on labels. *)
LEMMA BelowTyped ==
  ASSUME repo \in Repos, NEW l \in Checks!Labels
  PROVE  Checks!Below(l) \subseteq Checks!Labels
<1>1. CASE l \in Suites
  BY <1>1, BelowSuite, SuiteTyped
<1>2. CASE l \in Checks!Units
  <2>1. \A k \in DOMAIN Needed[l] : Needed[l][k].unit \in Checks!Buildable
    BY <1>2, NeededOk, NeedTyped
  <2>2. Checks!Buildable \subseteq Checks!Labels
    BY DEF Checks!Labels, Checks!Units
  <2> QED BY <1>2, <2>1, <2>2, BelowUnit
<1>3. CASE l \notin Suites /\ l \notin Checks!Units
  BY <1>3 DEF Checks!Below
<1> QED BY <1>1, <1>2, <1>3

(* A request that applies is demanded... *)
LEMMA RootsDemanded ==
  ASSUME repo \in Repos, NEW q \in Checks!Requested,
         IF q.kind = "check" THEN ~repo.tool[q.of].registered \/ Checks!Applicable(q.of) ELSE ~repo.fixOnly
  PROVE  q.of \in Checks!Demanded
<1>1. q.of \in Checks!Labels
  BY RequestedTyped, RequestsTyped
<1>2. q.of \in Checks!Roots
  BY DEF Checks!Roots
<1> QED BY <1>1, <1>2 DEF Checks!Demanded

(* ...and so is what a demanded label stands on... *)
LEMMA DemandedClosed ==
  ASSUME repo \in Repos, NEW l \in Checks!Demanded, NEW m \in Checks!Below(l)
  PROVE  m \in Checks!Demanded
<1>1. l \in Checks!Labels
  BY DEF Checks!Demanded
<1>2. m \in Checks!Labels
  BY <1>1, BelowTyped
<1> QED BY <1>1, <1>2 DEF Checks!Demanded

(* ...and nothing that some closed set leaves out. *)
LEMMA DemandedLeast ==
  ASSUME NEW D \in SUBSET Checks!Labels, Checks!Roots \subseteq D, \A l \in D : Checks!Below(l) \subseteq D
  PROVE  Checks!Demanded \subseteq D
BY DEF Checks!Demanded

-----------------------------------------------------------------------------
(* A reason for every failure.                                             *)

(* A command that did not pass is a reason that stays one. *)
LEMMA BlameStays ==
  ASSUME repo \in Repos, repo' = repo, Blame, ContextOk,
         \A u \in Checks!Units : ran'[u] = ran[u] \/ \E o \in Checks!Results \cup {"panic"} : ran'[u] = Append(ran[u], o)
  PROVE  Blame'
<1>1. PICK l \in Checks!Demanded : Checks!Broken(l) \/ Checks!NotATest(l) \/ Checks!NotABuild(l)
  BY DEF Blame
<1>2. l \in Checks!Demanded'
  BY RepoDemands
<1>3. CASE Checks!NotATest(l)
  <2>1. Checks!NotATest(l)'
    BY <1>3, RepoDemands DEF Checks!NotATest, Checks!IsTest
  <2> QED BY <1>2, <2>1 DEF Blame
<1>4. CASE Checks!NotABuild(l)
  <2>1. Checks!NotABuild(l)'
    BY <1>4, RepoDemands DEF Checks!NotABuild
  <2> QED BY <1>2, <2>1 DEF Blame
<1>5. CASE l \in Checks!Units /\ ran[l] # <<>> /\ ~ Checks!Passed(l)
  <2>1. ran[l] \in Seq(Checks!Results \cup {"panic"}) /\ Checks!ToSet(ran[l]) # {"ok"}
    BY <1>5, RanTyped DEF Checks!Passed
  <2>2. ran'[l] # <<>> /\ Checks!ToSet(ran'[l]) # {"ok"}
    <3>1. CASE ran'[l] = ran[l]
      BY <3>1, <2>1, <1>5
    <3>2. CASE \E o \in Checks!Results \cup {"panic"} : ran'[l] = Append(ran[l], o)
      <4>1. PICK o \in Checks!Results \cup {"panic"} : ran'[l] = Append(ran[l], o)
        BY <3>2
      <4>2. Checks!ToSet(ran'[l]) = Checks!ToSet(ran[l]) \cup {o} /\ ran'[l] # <<>>
        BY <4>1, <2>1, ToSetAppend
      <4>3. Checks!ToSet(ran[l]) # {}
        <5>1. 1 \in DOMAIN ran[l]
          BY <1>5, <2>1
        <5> QED BY <5>1 DEF Checks!ToSet
      <4> QED BY <4>2, <4>3, <2>1
    <3> QED BY <3>1, <3>2, <1>5
  <2>3. Checks!Broken(l)'
    BY <1>5, <2>2 DEF Checks!Broken, Checks!Passed
  <2> QED BY <1>2, <2>3 DEF Blame
<1>6. CASE l \in {BadLabel, Missing} \/ Checks!Unregistered(l) \/ Checks!HasCheckedInBin(l)
  <2>1. Checks!Broken(l)'
    BY <1>6 DEF Checks!Broken, Checks!Unregistered, Checks!HasCheckedInBin
  <2> QED BY <1>2, <2>1 DEF Blame
<1> QED BY <1>1, <1>3, <1>4, <1>5, <1>6 DEF Checks!Broken

(* Whatever fails in the context was asked for and has a reason. *)
LEMMA ContextBlame ==
  ASSUME repo \in Repos, ContextOk, BuiltAsAsked, Reasons, Checks!ContextStep, UNCHANGED <<checks, success>>
  PROVE  BuiltAsAsked' /\ Reasons'
<1>1. /\ stack # <<>> /\ repo' = repo
      /\ Calls \/ Answers \/ Advances \/ Returns \/ Panics
  BY ContextEffects
<1>2. /\ stack \in Seq(Frame) /\ Len(stack) \in DOMAIN stack /\ DOMAIN stack = 1 .. Len(stack)
      /\ Len(stack) \in Nat \ {0} /\ Top \in Frame /\ Top.unit \in Checks!Units /\ Top.unit \in Checks!Demanded
  BY <1>1, TopOk DEF BuiltAsAsked, Top
<1>3. Checks!Demanded' = Checks!Demanded
  BY <1>1, RepoDemands
<1>4. \A u \in Checks!Units : ran'[u] = ran[u] \/ \E o \in Checks!Results \cup {"panic"} : ran'[u] = Append(ran[u], o)
  <2>1. CASE Returns
    <3>1. PICK r \in Checks!Results : Recorded(Needed, buildCache, toolCache, Top.unit, r, ret, ran, ran')
      BY <2>1 DEF Returns
    <3>2. \A u \in Checks!Units : ran'[u] = ran[u] \/ ran'[u] = Append(ran[u], r)
      BY <3>1, <1>2, RanTyped DEF Recorded
    <3> QED BY <3>2
  <2>2. CASE ~ Returns
    <3>1. ran' = ran \/ ran' = [ran EXCEPT ![Top.unit] = Append(ran[Top.unit], "panic")]
      BY <2>2, StackMoves
    <3>2. \A u \in Checks!Units : ran'[u] = ran[u] \/ ran'[u] = Append(ran[u], "panic")
      BY <3>1, <1>2, RanTyped
    <3> QED BY <3>2
  <2> QED BY <2>1, <2>2
<1>5. Blame => Blame'
  BY <1>1, <1>4, BlameStays
<1>6. CASE Calls
  <2>1. PICK x \in Checks!Buildable :
          /\ WaitsFor(Needed, toolCache, Top, x)
          /\ stack' = Append(stack, [unit |-> x, at |-> 1])
          /\ UNCHANGED <<buildCache, ret, ran>>
    BY <1>6 DEF Calls
  <2>2. x \in Checks!Demanded
    <3>1. x \in Checks!Below(Top.unit)
      BY <1>2, <2>1, BelowUnit DEF WaitsFor
    <3> QED BY <1>2, <3>1, DemandedClosed
  <2> DEFINE f == [unit |-> x, at |-> 1]
  <2>3. f \in Frame /\ f.unit = x
    BY DEF Frame, Checks!Units
  <2> HIDE DEF f
  <2>4. \A i \in DOMAIN Append(stack, f) :
          (i \in DOMAIN stack /\ Append(stack, f)[i] = stack[i]) \/ Append(stack, f)[i] = f
    BY <1>2, <2>3
  <2>5. BuiltAsAsked'
    BY <1>3, <2>1, <2>2, <2>3, <2>4 DEF BuiltAsAsked, f
  <2>6. Reasons'
    BY <1>5, <2>1 DEF Reasons, Failing, HasFail
  <2> QED BY <2>5, <2>6
<1>7. CASE Answers
  <2>1. PICK x \in Checks!Buildable : ret' = buildCache[x] /\ UNCHANGED <<buildCache, stack, ran>>
    BY <1>7 DEF Answers
  <2>2. BuiltAsAsked'
    BY <1>3, <2>1 DEF BuiltAsAsked
  <2>3. Failing' => Failing
    BY <2>1 DEF Failing, HasFail
  <2> QED BY <1>5, <2>2, <2>3 DEF Reasons
<1>8. CASE Advances
  <2> DEFINE n == Len(stack)
             f == [stack[n] EXCEPT !.at = stack[n].at + 1]
  <2>1. f.unit = Top.unit /\ stack' = [stack EXCEPT ![n] = f] /\ ret' = "none" /\ UNCHANGED buildCache
    BY <1>2, <1>8 DEF Advances, Top, Frame
  <2> HIDE DEF f
  <2>2. DOMAIN stack' = DOMAIN stack /\ \A i \in DOMAIN stack : stack'[i] = IF i = n THEN f ELSE stack[i]
    BY <1>2, <2>1
  <2>3. BuiltAsAsked'
    BY <1>2, <1>3, <2>1, <2>2 DEF BuiltAsAsked
  <2>4. Failing' => Failing
    BY <2>1 DEF Failing, HasFail, Bad
  <2> QED BY <1>5, <2>3, <2>4 DEF Reasons
<1>9. CASE Returns
  <2> DEFINE u == Top.unit
  <2>1. PICK r \in Checks!Results :
          /\ Recorded(Needed, buildCache, toolCache, u, r, ret, ran, ran')
          /\ stack' = Checks!Front(stack) /\ buildCache' = Stored(buildCache, u, r) /\ ret' = r
    BY <1>9 DEF Returns
  <2>2. BuiltAsAsked'
    <3>1. DOMAIN stack' = 1 .. Len(stack) - 1 /\ \A i \in 1 .. Len(stack) - 1 : stack'[i] = stack[i]
      BY <1>1, <1>2, <2>1, FrontOk
    <3>2. \A i \in 1 .. Len(stack) - 1 : i \in DOMAIN stack
      BY <1>2
    <3> QED BY <1>3, <3>1, <3>2 DEF BuiltAsAsked
  <2>3. CASE r = "ok"
    <3>1. \A x \in Checks!Buildable : buildCache'[x] \in Bad => buildCache[x] \in Bad
      BY <2>1, <2>3 DEF Stored, Bad, ContextOk, ContextInv, ContextTyped
    <3>2. Failing' => Failing
      BY <2>1, <2>3, <3>1 DEF Failing, HasFail, Bad
    <3> QED BY <1>5, <2>2, <3>2 DEF Reasons
  <2>4. CASE r # "ok" /\ ran' = ran
    <3>1. ran[u] \in Seq(Checks!Results \cup {"panic"}) /\ r \in Checks!Results \cup {"panic"}
      BY <1>2, RanTyped
    <3>2. Append(ran[u], r) # ran[u]
      BY <3>1
    <3>3. ran # [ran EXCEPT ![u] = Append(ran[u], r)]
      BY <1>2, <3>2, RanTyped
    <3>4. ret \in Bad
      BY <2>1, <2>4, <3>3 DEF Recorded
    <3> QED BY <1>5, <2>2, <3>4 DEF Reasons, Failing
  <2>5. CASE r # "ok" /\ ran' # ran
    <3>1. ran'[u] = Append(ran[u], r)
      BY <1>2, <2>1, <2>5, RanTyped DEF Recorded
    <3>2. ran[u] \in Seq(Checks!Results \cup {"panic"}) /\ r \in Checks!Results \cup {"panic"}
      BY <1>2, RanTyped
    <3>3. Checks!ToSet(ran'[u]) = Checks!ToSet(ran[u]) \cup {r} /\ ran'[u] # <<>>
      BY <3>1, <3>2, ToSetAppend
    <3>4. Checks!ToSet(ran'[u]) # {"ok"}
      BY <3>3, <2>5
    <3>5. PICK v \in Checks!Units : v = u
      BY <1>2
    <3>6. v \in Checks!Demanded' /\ Checks!Broken(v)'
      BY <1>2, <1>3, <3>3, <3>4, <3>5 DEF Checks!Broken, Checks!Passed
    <3>7. Blame'
      BY <3>6 DEF Blame
    <3> QED BY <2>2, <3>7 DEF Reasons
  <2> QED BY <2>3, <2>4, <2>5
<1>10. CASE Panics
  <2>1. UNCHANGED <<buildCache, stack, ret>>
    BY <1>10 DEF Panics
  <2>2. BuiltAsAsked'
    BY <1>3, <2>1 DEF BuiltAsAsked
  <2>3. Failing' => Failing
    BY <2>1 DEF Failing, HasFail
  <2> QED BY <1>5, <2>2, <2>3 DEF Reasons
<1> QED BY <1>1, <1>6, <1>7, <1>8, <1>9, <1>10

-----------------------------------------------------------------------------
(* Sequences.  Induction is over a set of counterexamples: it would have a *)
(* least element.                                                          *)

(* A set of numbers that has an element has a least one. *)
LEMMA Least ==
  ASSUME NEW T \in SUBSET Nat, T # {}
  PROVE  \E m \in T : \A k \in T : m <= k
<1>1. \E x \in T : \A y \in T : ~ (<<y, x>> \in OpToRel(<, Nat))
  BY NatLessThanWellFounded, WFMin
<1>2. \A x, y \in Nat : x < y => <<x, y>> \in OpToRel(<, Nat)
  BY DEF OpToRel
<1>3. PICK x \in T : \A y \in T : ~ (<<y, x>> \in OpToRel(<, Nat))
  BY <1>1
<1>4. \A y \in T : ~ (y < x)
  BY <1>2, <1>3
<1>5. \A y \in T : x <= y
  BY <1>4
<1> QED BY <1>5

(* The function that FlattenSeq defines by recursion exists. *)
LEMMA FlattenDef ==
  ASSUME NEW S, NEW ss \in Seq(Seq(S)), Len(ss) # 0
  PROVE  \E f : /\ f = [i \in 1 .. Len(ss) |-> IF i = 1 THEN ss[i] ELSE f[i - 1] \o ss[i]]
                /\ Checks!FlattenSeq(ss) = f[Len(ss)]
<1>1. \E f : f = [i \in 1 .. Len(ss) |-> IF i = 1 THEN ss[i] ELSE f[i - 1] \o ss[i]]
  <2> DEFINE Ok(n) == \E f : f = [i \in 1 .. n |-> IF i = 1 THEN ss[i] ELSE f[i - 1] \o ss[i]]
             Without == {n \in Nat : ~ Ok(n)}
  <2>1. Ok(0)
    <3> DEFINE e == [i \in 1 .. 0 |-> <<>>]
    <3>1. e = [i \in 1 .. 0 |-> IF i = 1 THEN ss[i] ELSE e[i - 1] \o ss[i]]
      OBVIOUS
    <3> QED BY <3>1
  <2>2. ASSUME NEW n \in Nat, Ok(n) PROVE Ok(n + 1)
    <3>1. PICK f : f = [i \in 1 .. n |-> IF i = 1 THEN ss[i] ELSE f[i - 1] \o ss[i]]
      BY <2>2
    <3> DEFINE g == [i \in 1 .. n + 1 |-> IF i = 1 THEN ss[i] ELSE f[i - 1] \o ss[i]]
    <3>2. \A i \in 1 .. n : f[i] = IF i = 1 THEN ss[i] ELSE f[i - 1] \o ss[i]
      BY <3>1, Zenon
    <3>3. \A i \in 1 .. n + 1 : i = 1 \/ i - 1 \in 1 .. n
      OBVIOUS
    <3>4. \A i \in 1 .. n + 1 : g[i] = IF i = 1 THEN ss[i] ELSE f[i - 1] \o ss[i]
      BY Zenon
    <3>5. \A i \in 1 .. n : i \in 1 .. n + 1
      OBVIOUS
    <3>6. \A i \in 1 .. n : g[i] = f[i]
      BY <3>2, <3>4, <3>5, Zenon
    <3>7. \A i \in 1 .. n + 1 : (IF i = 1 THEN ss[i] ELSE f[i - 1] \o ss[i])
                             = (IF i = 1 THEN ss[i] ELSE g[i - 1] \o ss[i])
      BY <3>3, <3>6, Zenon
    <3>8. g = [i \in 1 .. n + 1 |-> IF i = 1 THEN ss[i] ELSE g[i - 1] \o ss[i]]
      BY <3>7, Zenon
    <3> QED BY <3>8
  <2> HIDE DEF Ok
  <2>3. Without = {}
    <3> SUFFICES ASSUME Without # {} PROVE FALSE
      OBVIOUS
    <3>1. PICK m \in Without : \A k \in Without : m <= k
      BY Least
    <3>2. m # 0 /\ m - 1 \in Nat
      BY <2>1
    <3>3. Ok(m - 1)
      BY <3>1, <3>2
    <3>4. Ok(m)
      BY <2>2, <3>2, <3>3
    <3> QED BY <3>4
  <2>4. Ok(Len(ss))
    BY <2>3
  <2> QED BY <2>4 DEF Ok
<1> QED BY <1>1 DEF Checks!FlattenSeq

(* FlattenSeq has the elements of the sequences it joins. *)
LEMMA FlattenRange ==
  ASSUME NEW S, NEW ss \in Seq(Seq(S))
  PROVE  /\ Checks!FlattenSeq(ss) \in Seq(S)
         /\ \A x : (\E i \in DOMAIN Checks!FlattenSeq(ss) : Checks!FlattenSeq(ss)[i] = x)
                    <=> (\E k \in DOMAIN ss : \E j \in DOMAIN ss[k] : ss[k][j] = x)
<1>0. /\ Len(ss) \in Nat /\ DOMAIN ss = 1 .. Len(ss)
      /\ \A k \in 1 .. Len(ss) : ss[k] \in Seq(S)
  OBVIOUS
<1>1. CASE Len(ss) = 0
  <2>1. Checks!FlattenSeq(ss) = ss /\ ss = <<>>
    BY <1>1 DEF Checks!FlattenSeq
  <2> QED BY <2>1
<1>2. CASE Len(ss) # 0
  <2>1. PICK f : /\ f = [i \in 1 .. Len(ss) |-> IF i = 1 THEN ss[i] ELSE f[i - 1] \o ss[i]]
                 /\ Checks!FlattenSeq(ss) = f[Len(ss)]
    BY <1>2, FlattenDef
  <2>2. \A i \in 1 .. Len(ss) : f[i] = IF i = 1 THEN ss[i] ELSE f[i - 1] \o ss[i]
    BY <2>1, Zenon
  <2> DEFINE In(s, x) == \E i \in DOMAIN s : s[i] = x
             Ok(n) == f[n] \in Seq(S) /\ \A x : In(f[n], x) <=> \E k \in 1 .. n : In(ss[k], x)
             Without == {n \in 1 .. Len(ss) : ~ Ok(n)}
  <2>3. Ok(1)
    <3>1. f[1] = ss[1] /\ f[1] \in Seq(S)
      BY <2>2, <1>0, <1>2
    <3>2. \A k \in 1 .. 1 : k = 1
      OBVIOUS
    <3> QED BY <3>1, <3>2
  <2>4. ASSUME NEW n \in 2 .. Len(ss), Ok(n - 1) PROVE Ok(n)
    <3>1. /\ f[n] = f[n - 1] \o ss[n] /\ f[n - 1] \in Seq(S) /\ ss[n] \in Seq(S) /\ n \in 1 .. Len(ss)
      <4>1. n \in 1 .. Len(ss) /\ n # 1
        OBVIOUS
      <4>2. f[n] = f[n - 1] \o ss[n]
        BY <2>2, <4>1, Zenon
      <4> QED BY <2>4, <1>0, <4>1, <4>2
    <3> DEFINE s == f[n - 1]
               t == ss[n]
    <3>2. s \in Seq(S) /\ t \in Seq(S)
      BY <3>1
    <3>3. \A x : In(s, x) <=> \E k \in 1 .. n - 1 : In(ss[k], x)
      BY <2>4
    <3> HIDE DEF s, t
    <3>4. /\ s \o t \in Seq(S) /\ DOMAIN (s \o t) = 1 .. Len(s) + Len(t)
          /\ \A i \in 1 .. Len(s) + Len(t) : (s \o t)[i] = IF i <= Len(s) THEN s[i] ELSE t[i - Len(s)]
          /\ DOMAIN s = 1 .. Len(s) /\ DOMAIN t = 1 .. Len(t) /\ Len(s) \in Nat /\ Len(t) \in Nat
      BY <3>2, ConcatProperties
    <3>5. \A x : In(s \o t, x) => In(s, x) \/ In(t, x)
      <4>1. \A i \in 1 .. Len(s) + Len(t) : i \in 1 .. Len(s) \/ (~(i <= Len(s)) /\ i - Len(s) \in 1 .. Len(t))
        BY <3>4
      <4>2. \A i \in 1 .. Len(s) : i <= Len(s)
        BY <3>4
      <4> QED BY <3>4, <4>1, <4>2
    <3>6. \A x : In(s, x) => In(s \o t, x)
      <4>1. \A i \in 1 .. Len(s) : i <= Len(s) /\ i \in 1 .. Len(s) + Len(t)
        BY <3>4
      <4> QED BY <3>4, <4>1
    <3>7. \A x : In(t, x) => In(s \o t, x)
      <4> SUFFICES ASSUME NEW x, NEW i \in 1 .. Len(t), t[i] = x PROVE In(s \o t, x)
        BY <3>4
      <4> DEFINE k == i + Len(s)
      <4>1. k \in 1 .. Len(s) + Len(t) /\ ~(k <= Len(s)) /\ k - Len(s) = i
        BY <3>4
      <4> HIDE DEF k
      <4>2. (s \o t)[k] = t[i]
        BY <3>4, <4>1
      <4> QED BY <3>4, <4>1, <4>2
    <3>8. \A k : k \in 1 .. n <=> k \in 1 .. n - 1 \/ k = n
      OBVIOUS
    <3>9. \A x : In(s \o t, x) <=> \E k \in 1 .. n : In(ss[k], x)
      <4> HIDE DEF In
      <4>1. \A x : In(s \o t, x) <=> In(s, x) \/ In(ss[n], x)
        BY <3>5, <3>6, <3>7 DEF t
      <4> QED BY <4>1, <3>3, <3>8, Zenon
    <3>10. f[n] = s \o t
      BY <3>1 DEF s, t
    <3> HIDE DEF In
    <3> QED BY <3>4, <3>9, <3>10
  <2> HIDE DEF Ok
  <2>5. Without = {}
    <3> SUFFICES ASSUME Without # {} PROVE FALSE
      OBVIOUS
    <3>1. Without \subseteq Nat
      OBVIOUS
    <3>2. PICK m \in Without : \A k \in Without : m <= k
      BY <3>1, Least
    <3>3. m # 1 /\ m \in 2 .. Len(ss) /\ m - 1 \in 1 .. Len(ss)
      BY <2>3, <1>0
    <3>4. Ok(m - 1)
      BY <3>2, <3>3
    <3> QED BY <2>4, <3>3, <3>4
  <2>6. Ok(Len(ss))
    BY <2>5, <1>0, <1>2
  <2> QED BY <2>1, <2>6, <1>0 DEF Ok
<1> QED BY <1>1, <1>2

(* The elements of a sequence are its head and those of its tail. *)
LEMMA TailElements ==
  ASSUME NEW S, NEW s \in Seq(S), s # <<>>
  PROVE  /\ Head(s) = s[1] /\ Head(s) \in S /\ 1 \in DOMAIN s /\ Tail(s) \in Seq(S)
         /\ \A i \in DOMAIN Tail(s) : i + 1 \in DOMAIN s /\ Tail(s)[i] = s[i + 1] /\ i + 1 # 1
         /\ \A i \in DOMAIN s : i = 1 \/ \E j \in DOMAIN Tail(s) : j + 1 = i /\ Tail(s)[j] = s[i]
         /\ \A i, j \in DOMAIN Tail(s) : i + 1 = j + 1 => i = j
<1>1. /\ Len(s) \in Nat \ {0} /\ DOMAIN s = 1 .. Len(s) /\ Tail(s) \in Seq(S)
      /\ DOMAIN Tail(s) = 1 .. Len(s) - 1 /\ \A i \in 1 .. Len(s) - 1 : Tail(s)[i] = s[i + 1]
      /\ Head(s) = s[1]
  OBVIOUS
<1>2. \A i \in 1 .. Len(s) - 1 : i + 1 \in 1 .. Len(s) /\ i + 1 # 1
  BY <1>1
<1>3. ASSUME NEW i \in 1 .. Len(s), i # 1
      PROVE  i - 1 \in DOMAIN Tail(s) /\ (i - 1) + 1 = i /\ Tail(s)[i - 1] = s[i]
  BY <1>1, <1>3
<1>4. 1 \in DOMAIN s /\ s[1] \in S
  BY <1>1
<1>5. \A i, j \in DOMAIN Tail(s) : i + 1 = j + 1 => i = j
  BY <1>1
<1> QED BY <1>1, <1>2, <1>3, <1>4, <1>5

(* The elements of a longer sequence. *)
LEMMA AppendElements ==
  ASSUME NEW S, NEW s \in Seq(S), NEW x \in S
  PROVE  /\ Append(s, x) \in Seq(S)
         /\ \A i \in DOMAIN s : i \in DOMAIN Append(s, x) /\ Append(s, x)[i] = s[i] /\ i # Len(s) + 1
         /\ Len(s) + 1 \in DOMAIN Append(s, x) /\ Append(s, x)[Len(s) + 1] = x
         /\ \A i \in DOMAIN Append(s, x) : i \in DOMAIN s \/ i = Len(s) + 1
OBVIOUS

-----------------------------------------------------------------------------
(* Collecting the checks.                                                  *)

(* AnalyzeChange collects exactly what is requested. *)
LEMMA AnalyzeTodo ==
  ASSUME repo \in Repos, Checks!AnalyzeChange
  PROVE  /\ todo' \in Seq(Checks!Requests)
         /\ \A q : (\E i \in DOMAIN todo' : todo'[i] = q) <=> q \in Checks!Requested
<1> DEFINE P == [include : Seq(SUBSET Files \cup {Invalid}), exclude : Seq(SUBSET Files \cup {Invalid}),
                 requests : Seq(Checks!Requests)]
           ps == repo.presubmits
           list(i) == IF Checks!Triggered(ps[i]) THEN ps[i].requests ELSE <<>>
           ss == [i \in DOMAIN ps |-> list(i)]
<1>1. ps \in Seq(P)
  BY RepoValid DEF Checks!ValidChecks
<1>2. \A p \in P : p.requests \in Seq(Checks!Requests)
  OBVIOUS
<1> HIDE DEF P
<1>3. /\ DOMAIN ps = 1 .. Len(ps) /\ Len(ps) \in Nat
      /\ \A i \in DOMAIN ps : ps[i].requests \in Seq(Checks!Requests)
  BY <1>1, <1>2
<1>4. \A i \in DOMAIN ps : list(i) \in Seq(Checks!Requests)
  BY <1>3
<1>5. ss \in [1 .. Len(ps) -> Seq(Checks!Requests)]
  BY <1>3, <1>4
<1>6. ss \in Seq(Seq(Checks!Requests))
  <2>1. ss \in UNION {[1 .. n -> Seq(Checks!Requests)] : n \in Nat}
    BY <1>3, <1>5
  <2> QED BY <2>1, SeqDef, Zenon
<1>7. todo' = Checks!FlattenSeq(ss)
  BY DEF Checks!AnalyzeChange
<1>8. \A q : (\E k \in DOMAIN ss : \E j \in DOMAIN ss[k] : ss[k][j] = q) <=> q \in Checks!Requested
  <2>1. DOMAIN ss = DOMAIN ps /\ \A k \in DOMAIN ps : ss[k] = list(k)
    OBVIOUS
  <2>2. \A k \in DOMAIN ps : ~ Checks!Triggered(ps[k]) => DOMAIN list(k) = {}
    OBVIOUS
  <2>3. \A k \in DOMAIN ps : Checks!Triggered(ps[k]) => list(k) = ps[k].requests
    OBVIOUS
  <2> HIDE DEF ss, list
  <2> QED BY <2>1, <2>2, <2>3 DEF Checks!Requested
<1> HIDE DEF ss
<1>9. /\ Checks!FlattenSeq(ss) \in Seq(Checks!Requests)
      /\ \A q : (\E i \in DOMAIN Checks!FlattenSeq(ss) : Checks!FlattenSeq(ss)[i] = q)
                 <=> (\E k \in DOMAIN ss : \E j \in DOMAIN ss[k] : ss[k][j] = q)
  BY <1>6, FlattenRange
<1> QED BY <1>7, <1>8, <1>9, Zenon

(* The covered labels are the greatest set that is supported. *)
LEMMA CoveredTyped ==
  ASSUME NEW cks
  PROVE  /\ Covered(cks) \subseteq Checks!Labels
         /\ \A l \in Covered(cks) :
              HasCheck(cks, l) \/ (l \in Suites /\ Checks!ToSet(repo.suite[l]) \subseteq Covered(cks))
BY DEF Covered, Supported

(* Labels that lead to checks, by way of their suites, are covered. *)
LEMMA CoveredGrows ==
  ASSUME NEW cks, NEW V \in SUBSET Checks!Labels,
         \A l \in V : \/ HasCheck(cks, l) \/ l \in Covered(cks)
                      \/ l \in Suites /\ Checks!ToSet(repo.suite[l]) \subseteq V \cup Covered(cks)
  PROVE  V \subseteq Covered(cks)
<1> DEFINE W == V \cup Covered(cks)
<1>1. W \in SUBSET Checks!Labels
  BY CoveredTyped
<1>2. Supported(W, cks)
  BY CoveredTyped DEF Supported
<1> QED BY <1>1, <1>2 DEF Covered

(* A further check leaves none out. *)
LEMMA CoveredStays ==
  ASSUME repo' = repo, NEW c, checks \in Seq(CheckRecords),
         checks' = checks \/ (c \in CheckRecords /\ checks' = Append(checks, c))
  PROVE  /\ \A i \in DOMAIN checks : i \in DOMAIN checks' /\ checks'[i] = checks[i]
         /\ HasFail(checks) => HasFail(checks)'
         /\ Covered(checks) \subseteq Covered(checks)'
<1>1. \A i \in DOMAIN checks : i \in DOMAIN checks' /\ checks'[i] = checks[i]
  BY AppendElements
<1>2. HasFail(checks) => HasFail(checks)'
  BY <1>1 DEF HasFail
<1>3. \A l : HasCheck(checks, l) => HasCheck(checks', l)
  BY <1>1 DEF HasCheck
<1>4. Covered(checks)' = Covered(checks')
  BY DEF Covered, Supported, HasCheck
<1>5. \A V : Supported(V, checks) => Supported(V, checks')
  BY <1>3 DEF Supported
<1>6. Covered(checks) \subseteq Covered(checks')
  BY <1>5 DEF Covered
<1> QED BY <1>1, <1>2, <1>4, <1>6

(* Nothing has run yet, so that all that has to be shown of a step that    *)
(* collects is what it does to the collection.                             *)
LEMMA Collecting ==
  ASSUME ChecksInv, stage \in {"analyze", "discover", "expand"},
         stage' \in {"analyze", "discover", "expand", "aborted"},
         UNCHANGED <<repo, buildCache, toolCache, stack, ret, ran, panicked, left, success>>,
         StagesOk', CollectInv', Asked', HasFail(checks)' => Blame
  PROVE  ChecksInv'
<1>1. repo \in Repos /\ Fresh
  BY DEF ChecksInv, CollectInv, CollectTyped, StagesOk
<1>2. Needed' = Needed
  BY RepoNeeds
<1>3. ContextInv(Needed, buildCache, toolCache, stack, ret, ran)'
  BY <1>2 DEF ChecksInv
<1>4. PassedSoFar'
  BY DEF PassedSoFar
<1>5. TestsRunOnce'
  <2>1. \A t \in TestUnits : ran[t] = <<>>
    BY <1>1 DEF Fresh, Checks!Units
  <2>2. Len(<<>>) <= 1
    OBVIOUS
  <2> QED BY <1>1, <2>1, <2>2 DEF TestsRunOnce, Fresh, Running
<1>6. BuiltAsAsked'
  BY <1>1 DEF BuiltAsAsked, Fresh
<1>7. Reasons'
  <2>1. Blame => Blame'
    BY <1>1, BlameStays DEF ChecksInv, ContextOk
  <2>2. Failing' => HasFail(checks)'
    BY <1>1 DEF Failing, Fresh, Bad
  <2> QED BY <2>1, <2>2 DEF Reasons
<1> QED BY <1>3, <1>4, <1>5, <1>6, <1>7 DEF ChecksInv, VerdictInv, BlameInv

(* An error of AnalyzeChange ends the presubmit. *)
LEMMA AnalyzeFailsStep ==
  ASSUME ChecksInv, Checks!AnalyzeFails
  PROVE  ChecksInv'
<1>1. /\ stage = "analyze" /\ stage' = "aborted" /\ checks = <<>> /\ seen = {} /\ todo = <<>>
      /\ UNCHANGED <<repo, buildCache, toolCache, stack, ret, ran, panicked, todo, seen, work, visited,
                     expanded, checks, left, success>>
  BY DEF Checks!AnalyzeFails, ChecksInv, StagesOk, Checks!contextVars, Checks!discoverVars
<1>2. StagesOk'
  BY <1>1 DEF ChecksInv, StagesOk, Fresh
<1>3. Asked'
  BY <1>1, RepoDemands DEF ChecksInv, BlameInv, Asked
<1>4. CollectInv'
  <2>1. CollectTyped'
    BY <1>1 DEF ChecksInv, CollectInv, CollectTyped
  <2>2. TestsOnce(checks, expanded, work)'
    BY <1>1 DEF ChecksInv, CollectInv, TestsOnce
  <2>3. SeenCovered' /\ RequestsDealt' /\ ExpandedVisited'
    BY <1>1 DEF ChecksInv, CollectInv, SeenCovered, RequestsDealt, ExpandedVisited
  <2> QED BY <2>1, <2>2, <2>3 DEF CollectInv
<1>5. ~ HasFail(checks)'
  BY <1>1 DEF HasFail
<1> QED BY <1>1, <1>2, <1>3, <1>4, <1>5, Collecting

(* The requests of the triggered presubmits are collected. *)
LEMMA AnalyzeStep ==
  ASSUME ChecksInv, Checks!AnalyzeChange
  PROVE  ChecksInv'
<1>0. repo \in Repos
  BY DEF ChecksInv, CollectInv, CollectTyped
<1>1. /\ stage = "analyze" /\ stage' = "discover" /\ checks = <<>> /\ seen = {} /\ todo = <<>>
      /\ UNCHANGED <<repo, buildCache, toolCache, stack, ret, ran, panicked, seen, work, visited,
                     expanded, checks, left, success>>
  BY DEF Checks!AnalyzeChange, ChecksInv, StagesOk, Checks!contextVars
<1>2. /\ todo' \in Seq(Checks!Requests)
      /\ \A q : (\E i \in DOMAIN todo' : todo'[i] = q) <=> q \in Checks!Requested
  BY <1>0, AnalyzeTodo
<1>3. StagesOk'
  BY <1>1 DEF ChecksInv, StagesOk, Fresh
<1>4. Asked'
  BY <1>1, <1>2, RepoDemands DEF ChecksInv, BlameInv, Asked
<1>5. CollectInv'
  <2>1. CollectTyped'
    BY <1>1, <1>2 DEF ChecksInv, CollectInv, CollectTyped
  <2>2. TestsOnce(checks, expanded, work)'
    BY <1>1 DEF ChecksInv, CollectInv, TestsOnce
  <2>3. SeenCovered' /\ ExpandedVisited'
    BY <1>1 DEF ChecksInv, CollectInv, SeenCovered, ExpandedVisited
  <2>4. RequestsDealt'
    BY <1>1, <1>2, RepoDemands DEF RequestsDealt
  <2> QED BY <2>1, <2>2, <2>3, <2>4 DEF CollectInv
<1>6. ~ HasFail(checks)'
  BY <1>1 DEF HasFail
<1> QED BY <1>1, <1>3, <1>4, <1>5, <1>6, Collecting

(* What a new check must be: it is of something that was asked for, and    *)
(* one that fails has a reason.                                            *)
GoodCheck(c, sn) ==
  /\ c \in CheckRecords
  /\ c.kind = "check" => c.of \in Actions /\ repo.tool[c.of].registered
  /\ c.kind = "build" => c.of \in BuildOrTest /\ c \in Checks!Requested
  /\ c.kind = "test" => c.of \in Tests
  /\ c.kind \in {"build", "test"} => c.of \in sn
  /\ c.kind # "fail" => c.of \in Checks!Demanded
  /\ c.kind = "fail" => Blame

(* A good check leaves the collection good. *)
LEMMA NewCheck ==
  ASSUME ChecksInv, repo' = repo, NEW c, NEW sn, seen \subseteq sn,
         checks' = checks \/ (GoodCheck(c, sn) /\ checks' = Append(checks, c))
  PROVE  /\ checks' \in Seq(CheckRecords)
         /\ \A i \in DOMAIN checks' :
              /\ checks'[i].kind = "check" => checks'[i].of \in Actions /\ repo.tool[checks'[i].of].registered
              /\ checks'[i].kind = "build" => checks'[i].of \in BuildOrTest /\ checks'[i] \in Checks!Requested
              /\ checks'[i].kind = "test" => checks'[i].of \in Tests
              /\ checks'[i].kind \in {"build", "test"} => checks'[i].of \in sn
              /\ checks'[i].kind # "fail" => checks'[i].of \in Checks!Demanded
         /\ HasFail(checks)' => Blame
         /\ HasFail(checks) => HasFail(checks)'
         /\ Covered(checks) \subseteq Covered(checks)'
         /\ \A i \in DOMAIN checks : i \in DOMAIN checks' /\ checks'[i] = checks[i]
<1>1. checks \in Seq(CheckRecords) /\ (checks' = checks \/ (c \in CheckRecords /\ checks' = Append(checks, c)))
  BY DEF ChecksInv, CollectInv, CollectTyped, GoodCheck
<1>2. /\ HasFail(checks) => HasFail(checks)'
      /\ Covered(checks) \subseteq Covered(checks)'
      /\ \A i \in DOMAIN checks : i \in DOMAIN checks' /\ checks'[i] = checks[i]
  BY <1>1, CoveredStays
<1>3. /\ checks' \in Seq(CheckRecords)
      /\ \A i \in DOMAIN checks' : (i \in DOMAIN checks /\ checks'[i] = checks[i])
                                       \/ (checks'[i] = c /\ GoodCheck(c, sn))
  BY <1>1, AppendElements
<1>4. HasFail(checks) => Blame
  BY DEF ChecksInv, BlameInv, Reasons, Failing
<1>5. HasFail(checks)' => Blame
  BY <1>3, <1>4 DEF HasFail, GoodCheck
<1>6. ASSUME NEW i \in DOMAIN checks'
      PROVE  /\ checks'[i].kind = "check" => checks'[i].of \in Actions /\ repo.tool[checks'[i].of].registered
             /\ checks'[i].kind = "build" => checks'[i].of \in BuildOrTest /\ checks'[i] \in Checks!Requested
             /\ checks'[i].kind = "test" => checks'[i].of \in Tests
             /\ checks'[i].kind \in {"build", "test"} => checks'[i].of \in sn
             /\ checks'[i].kind # "fail" => checks'[i].of \in Checks!Demanded
  <2>1. CASE checks'[i] = c /\ GoodCheck(c, sn)
    BY <2>1 DEF GoodCheck
  <2>2. CASE i \in DOMAIN checks /\ checks'[i] = checks[i]
    BY <2>2 DEF ChecksInv, CollectInv, CollectTyped, BlameInv, Asked
  <2> QED BY <1>3, <2>1, <2>2
<1> QED BY <1>2, <1>3, <1>5, <1>6

(* The request at the head of todo has been dealt with. *)
LEMMA Discovered ==
  ASSUME ChecksInv, stage \in {"discover", "expand"}, stage' = "discover",
         todo # <<>>, todo' = Tail(todo), work' = <<>>, visited' = {}, expanded' = <<>>,
         UNCHANGED <<repo, buildCache, toolCache, stack, ret, ran, panicked, left, success>>,
         NEW c, checks' = checks \/ (GoodCheck(c, seen') /\ c.kind # "test" /\ checks' = Append(checks, c)),
         seen \subseteq seen', seen' \subseteq Checks!Labels \ {BadLabel},
         HasFail(checks)' \/ seen' \subseteq Covered(checks)',
         NEW q, q = Head(todo), HasFail(checks)' \/ Dealt(q)'
  PROVE  ChecksInv'
<1>0. repo \in Repos /\ Fresh
  BY DEF ChecksInv, CollectInv, CollectTyped, StagesOk
<1>1. /\ checks' \in Seq(CheckRecords)
      /\ \A i \in DOMAIN checks' :
           /\ checks'[i].kind = "check" => checks'[i].of \in Actions /\ repo.tool[checks'[i].of].registered
           /\ checks'[i].kind = "build" => checks'[i].of \in BuildOrTest /\ checks'[i] \in Checks!Requested
           /\ checks'[i].kind = "test" => checks'[i].of \in Tests
           /\ checks'[i].kind \in {"build", "test"} => checks'[i].of \in seen'
           /\ checks'[i].kind # "fail" => checks'[i].of \in Checks!Demanded
      /\ HasFail(checks)' => Blame
      /\ HasFail(checks) => HasFail(checks)'
      /\ \A i \in DOMAIN checks : i \in DOMAIN checks' /\ checks'[i] = checks[i]
  <2>1. PICK sn : sn = seen'
    OBVIOUS
  <2>2. seen \subseteq sn /\ (checks' = checks \/ (GoodCheck(c, sn) /\ checks' = Append(checks, c)))
    BY <2>1
  <2> QED BY <2>1, <2>2, NewCheck
<1>2. todo \in Seq(Checks!Requests)
  BY DEF ChecksInv, CollectInv, CollectTyped
<1>3. /\ todo' \in Seq(Checks!Requests) /\ todo[1] = q
      /\ \A i \in DOMAIN todo' : i + 1 \in DOMAIN todo /\ todo'[i] = todo[i + 1]
      /\ \A i \in DOMAIN todo : i = 1 \/ \E j \in DOMAIN todo' : todo'[j] = todo[i]
  BY <1>2, TailElements
<1>4. StagesOk'
  BY <1>0 DEF ChecksInv, StagesOk, Fresh
<1>5. Checks!Requested' = Checks!Requested /\ Checks!Demanded' = Checks!Demanded
  BY RepoDemands
<1>6. Asked'
  <2>1. \A i \in DOMAIN todo' : todo'[i] \in Checks!Requested
    BY <1>3 DEF ChecksInv, BlameInv, Asked
  <2>2. Checks!ToSet(work)' = {}
    BY DEF Checks!ToSet
  <2> QED BY <1>1, <1>5, <2>1, <2>2 DEF Asked
<1>7. CollectTyped'
  <2>1. <<>> \in Seq(Checks!Labels) /\ <<>> \in Seq(Tests)
    OBVIOUS
  <2>2. left' \subseteq DOMAIN checks' /\ repo' \in Repos /\ success' \in BOOLEAN /\ panicked' \in BOOLEAN
    BY <1>0 DEF Fresh, ChecksInv, CollectInv, CollectTyped
  <2> QED BY <1>1, <1>3, <2>1, <2>2 DEF CollectTyped
<1>8. TestsOnce(checks, expanded, work)'
  <2>1. \A i \in DOMAIN checks' : checks'[i].kind = "test" => i \in DOMAIN checks /\ checks'[i] = checks[i]
    <3>1. /\ checks \in Seq(CheckRecords)
          /\ checks' = checks \/ (c \in CheckRecords /\ c.kind # "test" /\ checks' = Append(checks, c))
      BY DEF ChecksInv, CollectInv, CollectTyped, GoodCheck
    <3> QED BY <3>1, AppendElements
  <2>2. \A i, j \in DOMAIN checks : checks[i].kind = "test" /\ checks[i] = checks[j] => i = j
    BY DEF ChecksInv, CollectInv, TestsOnce
  <2>3. \A i, j \in DOMAIN checks' : checks'[i].kind = "test" /\ checks'[i] = checks'[j] => i = j
    BY <2>1, <2>2
  <2> QED BY <2>3 DEF TestsOnce
<1>9. SeenCovered' /\ ExpandedVisited'
  BY DEF SeenCovered, ExpandedVisited
<1>10. RequestsDealt'
  <2> SUFFICES ASSUME ~ HasFail(checks)', NEW p \in Checks!Requested
               PROVE  Dealt(p)' \/ \E i \in DOMAIN todo' : todo'[i] = p
    BY <1>5 DEF RequestsDealt
  <2>1. Dealt(p) \/ \E i \in DOMAIN todo : todo[i] = p
    BY <1>1 DEF ChecksInv, CollectInv, RequestsDealt
  <2>2. Dealt(p) => Dealt(p)'
    BY <1>1 DEF Dealt, Checks!Applicable
  <2> QED BY <2>1, <2>2, <1>3
<1>11. CollectInv'
  BY <1>7, <1>8, <1>9, <1>10 DEF CollectInv
<1>12. HasFail(checks)' => Blame
  BY <1>1
<1>13. stage \in {"analyze", "discover", "expand"} /\ stage' \in {"analyze", "discover", "expand", "aborted"}
  OBVIOUS
<1> QED BY <1>4, <1>6, <1>11, <1>12, <1>13, Collecting

(* What is at the head of todo was asked for. *)
LEMMA HeadRequested ==
  ASSUME ChecksInv, todo # <<>>, stage \in {"discover", "expand"}
  PROVE  /\ repo \in Repos /\ Head(todo) \in Checks!Requested /\ Head(todo) \in Checks!Requests
         /\ Head(todo).of \in Checks!Labels
         /\ Head(todo) = [kind |-> Head(todo).kind, of |-> Head(todo).of]
         /\ Head(todo).kind = "check" => Head(todo).of \in Actions
<1>1. todo \in Seq(Checks!Requests) /\ repo \in Repos
  BY DEF ChecksInv, CollectInv, CollectTyped
<1>2. Head(todo) \in Checks!Requests /\ Head(todo) \in Checks!Requested
  BY <1>1, TailElements DEF ChecksInv, BlameInv, Asked
<1> QED BY <1>1, <1>2, RequestsTyped

(* A check that fails is good when there is a reason. *)
LEMMA FailRecord ==
  ASSUME NEW l \in Checks!Labels
  PROVE  /\ Checks!Fail(l) \in CheckRecords /\ Checks!Fail(l).kind = "fail"
         /\ \A sn : Blame => GoodCheck(Checks!Fail(l), sn)
<1>1. Checks!Fail(l) \in CheckRecords /\ Checks!Fail(l).kind = "fail"
  BY DEF Checks!Fail, CheckRecords, Checks!Kinds
<1> QED BY <1>1 DEF GoodCheck

(* The collection has a check that fails. *)
LEMMA FailAppended ==
  ASSUME ChecksInv, NEW l \in Checks!Labels, checks' = Append(checks, Checks!Fail(l))
  PROVE  HasFail(checks)'
<1>1. checks \in Seq(CheckRecords)
  BY DEF ChecksInv, CollectInv, CollectTyped
<1> QED BY <1>1, FailRecord, AppendElements DEF HasFail

(* A label that is demanded and broken is to blame. *)
LEMMA BrokenBlame ==
  ASSUME NEW l \in Checks!Demanded, Checks!Broken(l) \/ Checks!NotATest(l) \/ Checks!NotABuild(l)
  PROVE  Blame
BY DEF Blame

(* Between two requests, all that was seen is covered. *)
LEMMA SeenIsCovered ==
  ASSUME ChecksInv, stage = "discover"
  PROVE  HasFail(checks) \/ seen \subseteq Covered(checks)
BY DEF ChecksInv, CollectInv, SeenCovered

(* A check of a tool: unknown, applicable or left out. *)
LEMMA DiscoverCheckStep ==
  ASSUME ChecksInv, Checks!DiscoverCheck
  PROVE  ChecksInv'
<1>1. /\ stage = "discover" /\ todo # <<>> /\ Head(todo).kind = "check" /\ todo' = Tail(todo)
      /\ UNCHANGED <<repo, buildCache, toolCache, stack, ret, ran, panicked, stage, seen, work, visited,
                     expanded, left, success>>
  BY DEF Checks!DiscoverCheck, Checks!Request, Checks!contextVars
<1>2. work' = <<>> /\ visited' = {} /\ expanded' = <<>> /\ seen \subseteq Checks!Labels \ {BadLabel}
      /\ checks \in Seq(CheckRecords)
  BY <1>1 DEF ChecksInv, StagesOk, CollectInv, CollectTyped
<1>3. PICK q : q = Head(todo)
  OBVIOUS
<1>4. PICK a : a = q.of
  OBVIOUS
<1>5. /\ repo \in Repos /\ q \in Checks!Requested /\ a \in Actions /\ q.kind = "check" /\ a \in Checks!Labels
      /\ q \in Checks!Requests
  BY <1>1, <1>3, <1>4, HeadRequested
<1>6. CASE ~repo.tool[a].registered
  <2>1. checks' = Append(checks, Checks!Fail(a))
    BY <1>3, <1>4, <1>6 DEF Checks!DiscoverCheck
  <2>2. a \in Checks!Demanded
    BY <1>4, <1>5, <1>6, RootsDemanded
  <2>3. Blame
    BY <1>5, <1>6, <2>2, BrokenBlame DEF Checks!Broken, Checks!Unregistered
  <2>4. HasFail(checks)'
    BY <1>5, <2>1, FailAppended
  <2>5. GoodCheck(Checks!Fail(a), seen') /\ Checks!Fail(a).kind # "test"
    BY <1>5, <2>3, FailRecord
  <2> QED BY <1>1, <1>2, <1>3, <2>1, <2>4, <2>5, Discovered
<1>7. CASE repo.tool[a].registered /\ Checks!Applicable(a)
  <2>1. checks' = Append(checks, q)
    BY <1>3, <1>4, <1>7 DEF Checks!DiscoverCheck
  <2>2. a \in Checks!Demanded
    BY <1>4, <1>5, <1>7, RootsDemanded
  <2>3. q \in CheckRecords
    BY <1>5, RequestsTyped DEF CheckRecords, Checks!Kinds
  <2>4. GoodCheck(q, seen')
    BY <1>4, <1>5, <1>7, <2>2, <2>3 DEF GoodCheck
  <2>5. Dealt(q)'
    <3>1. \E i \in DOMAIN checks' : checks'[i] = q
      BY <1>2, <2>1, <2>3, AppendElements
    <3> QED BY <1>1, <1>4, <1>5, <1>7, <3>1 DEF Dealt
  <2>6. HasFail(checks)' \/ seen' \subseteq Covered(checks)'
    BY <1>1, <1>2, <2>1, <2>3, SeenIsCovered, CoveredStays
  <2> QED BY <1>1, <1>2, <1>3, <1>5, <2>1, <2>4, <2>5, <2>6, Discovered
<1>8. CASE repo.tool[a].registered /\ ~Checks!Applicable(a)
  <2>1. checks' = checks
    BY <1>3, <1>4, <1>8 DEF Checks!DiscoverCheck
  <2>2. Dealt(q)'
    BY <1>1, <1>4, <1>5, <1>8 DEF Dealt, Checks!Applicable
  <2>3. HasFail(checks)' \/ seen' \subseteq Covered(checks)'
    BY <1>1, <1>2, <2>1, SeenIsCovered, CoveredStays
  <2> QED BY <1>1, <1>2, <1>3, <2>1, <2>2, <2>3, Discovered
<1> QED BY <1>6, <1>7, <1>8

(* BazelArgs fails only for a unit that is missing or cannot be tested, or *)
(* for something that cannot be built.                                     *)
LEMMA NoArgsBlame ==
  ASSUME repo \in Repos, NEW l \in Checks!Demanded, ~ Checks!HasBazelArgs(l),
         l \in Tests \/ [kind |-> "build", of |-> l] \in Checks!Requested
  PROVE  Blame
<1>0. Missing \in Checks!Below(l) => Blame
  <2>1. Checks!Broken(Missing)
    BY DEF Checks!Broken
  <2> QED BY <2>1, DemandedClosed, BrokenBlame
<1>1. CASE l \in TestUnits
  <2>1. l \notin repo.bazel
    BY <1>1, Apart DEF Checks!HasBazelArgs, Checks!ArgsOf
  <2>2. Checks!ArgsOf(l) = repo.bin[l]
    BY <1>1, <2>1, Apart DEF Checks!ArgsOf
  <2>3. repo.bin[l] \in {CheckedIn, Missing}
    BY <1>1, <2>1, <2>2, RepoValid DEF Checks!HasBazelArgs, Checks!ValidUnits
  <2>4. CASE repo.bin[l] = CheckedIn
    BY <1>1, <2>1, <2>4, BrokenBlame DEF Checks!Broken, Checks!HasCheckedInBin
  <2>5. CASE repo.bin[l] # CheckedIn
    <3> DEFINE n == [as |-> "tool", unit |-> Missing]
    <3>1. n.unit = Missing /\ Checks!Tool(l) = <<n>>
      BY <2>3, <2>5 DEF Checks!Tool
    <3>2. Checks!Needs(l) = Checks!Tool(l) \o Checks!Deps(l)
      BY <1>1, <2>1, Apart DEF Checks!Needs
    <3>3. l \in Checks!Units /\ Needed[l] = <<n>> \o Checks!Deps(l)
      BY <1>1, <3>1, <3>2 DEF Needed, Checks!Units
    <3>4. Checks!Deps(l) \in Seq([as : {"dep"}, unit : Checks!Buildable])
      <4>1. repo.deps[l] \in Seq(Checks!Buildable)
        BY <1>1, <2>1, RepoValid DEF Checks!ValidUnits, Checks!Buildable
      <4>2. /\ Len(repo.deps[l]) \in Nat /\ DOMAIN repo.deps[l] = 1 .. Len(repo.deps[l])
            /\ \A k \in DOMAIN repo.deps[l] : repo.deps[l][k] \in Checks!Buildable
        BY <4>1
      <4> DEFINE Dep == [as : {"dep"}, unit : Checks!Buildable]
      <4>3. Checks!Deps(l) \in [1 .. Len(repo.deps[l]) -> Dep]
        BY <4>2 DEF Checks!Deps
      <4> HIDE DEF Dep
      <4>4. Checks!Deps(l) \in UNION {[1 .. k -> Dep] : k \in Nat}
        BY <4>2, <4>3
      <4>5. Checks!Deps(l) \in Seq(Dep)
        BY <4>4, SeqDef, Zenon
      <4> QED BY <4>5 DEF Dep
    <3> DEFINE A == {n} \cup [as : {"dep"}, unit : Checks!Buildable]
               d == Checks!Deps(l)
    <3>5. d \in Seq(A) /\ n \in A
      BY <3>4, SeqMonotonic
    <3> HIDE DEF n, A, d
    <3>6. 1 \in DOMAIN (<<n>> \o d) /\ (<<n>> \o d)[1] = n
      BY <3>5
    <3>7. 1 \in DOMAIN Needed[l] /\ Needed[l][1].unit = Missing
      BY <3>1, <3>3, <3>6 DEF d
    <3> QED BY <3>3, <3>7, <1>0, BelowUnit
  <2> QED BY <2>4, <2>5
<1>2. CASE l \in BuildTestUnits
  <2>1. Checks!ArgsOf(l) = repo.builds[l]
    BY <1>2, Apart DEF Checks!ArgsOf
  <2>2. repo.builds[l] = Missing
    BY <1>2, <2>1, RepoValid DEF Checks!HasBazelArgs, Checks!ValidUnits
  <2> DEFINE n == [as |-> "build", unit |-> Missing]
  <2>3. n.unit = Missing /\ Checks!Needs(l) = <<n>>
    BY <1>2, <2>2, Apart, RepoValid DEF Checks!Needs, Checks!ValidUnits
  <2>4. l \in Checks!Units /\ Needed[l] = <<n>>
    BY <1>2, <2>3 DEF Needed, Checks!Units
  <2> HIDE DEF n
  <2>5. 1 \in DOMAIN Needed[l] /\ Needed[l][1].unit = Missing
    BY <2>3, <2>4
  <2> QED BY <2>4, <2>5, <1>0, BelowUnit
<1>3. CASE l \notin TestUnits /\ l \notin BuildTestUnits
  <2>1. Checks!ArgsOf(l) = l
    BY <1>3 DEF Checks!ArgsOf
  <2>2. Checks!NotABuild(l)
    BY <1>3, <2>1 DEF Checks!HasBazelArgs, Checks!NotABuild, Tests
  <2> QED BY <2>2, BrokenBlame
<1> QED BY <1>1, <1>2, <1>3

(* The check of a unit is one of the unit, or fails for a reason. *)
LEMMA UnitCheckGood ==
  ASSUME repo \in Repos, NEW l \in Checks!Demanded, l \in Checks!Labels, NEW sn, l \in sn,
         NEW kind \in {"build", "test"}, kind = "test" => l \in Tests,
         kind = "build" => [kind |-> "build", of |-> l] \in Checks!Requested
  PROVE  /\ GoodCheck(Checks!UnitCheck(kind, l), sn)
         /\ \/ Checks!UnitCheck(kind, l) = Checks!Fail(l)
            \/ Checks!UnitCheck(kind, l) = [kind |-> kind, of |-> l]
<1>1. CASE Checks!HasBazelArgs(l)
  <2> DEFINE c == [kind |-> kind, of |-> l]
  <2>1. Checks!UnitCheck(kind, l) = c
    BY <1>1 DEF Checks!UnitCheck
  <2>2. l \in BuildOrTest
    BY <1>1 DEF Checks!HasBazelArgs, Checks!ArgsOf, BuildOrTest
  <2>3. c \in CheckRecords /\ c.kind = kind /\ c.of = l /\ (kind = "build" => c \in Checks!Requested)
    BY DEF CheckRecords, Checks!Kinds
  <2> HIDE DEF c
  <2>4. GoodCheck(c, sn)
    BY <2>2, <2>3 DEF GoodCheck
  <2> QED BY <2>1, <2>4 DEF c
<1>2. CASE ~Checks!HasBazelArgs(l)
  <2>1. Checks!UnitCheck(kind, l) = Checks!Fail(l)
    BY <1>2 DEF Checks!UnitCheck
  <2>2. Blame
    BY <1>2, NoArgsBlame
  <2> QED BY <2>1, <2>2, FailRecord
<1> QED BY <1>1, <1>2

(* A check_build: left out, a bad label, seen before or new. *)
LEMMA DiscoverBuildStep ==
  ASSUME ChecksInv, Checks!DiscoverBuild
  PROVE  ChecksInv'
<1>1. /\ stage = "discover" /\ todo # <<>> /\ Head(todo).kind = "build" /\ todo' = Tail(todo)
      /\ UNCHANGED <<repo, buildCache, toolCache, stack, ret, ran, panicked, stage, work, visited,
                     expanded, left, success>>
  BY DEF Checks!DiscoverBuild, Checks!Request, Checks!contextVars
<1>2. work' = <<>> /\ visited' = {} /\ expanded' = <<>> /\ seen \subseteq Checks!Labels \ {BadLabel}
      /\ checks \in Seq(CheckRecords)
  BY <1>1 DEF ChecksInv, StagesOk, CollectInv, CollectTyped
<1>3. PICK q : q = Head(todo)
  OBVIOUS
<1>4. PICK l : l = q.of
  OBVIOUS
<1>5. /\ repo \in Repos /\ q \in Checks!Requested /\ q.kind = "build" /\ l \in Checks!Labels
      /\ q = [kind |-> "build", of |-> l]
  BY <1>1, <1>3, <1>4, HeadRequested
<1>6. CASE repo.fixOnly \/ (l # BadLabel /\ l \in seen)
  <2>1. checks' = checks /\ seen' = seen
    BY <1>3, <1>4, <1>6 DEF Checks!DiscoverBuild
  <2>2. Dealt(q)'
    BY <1>1, <1>4, <1>5, <1>6, <2>1 DEF Dealt
  <2>3. HasFail(checks)' \/ seen' \subseteq Covered(checks)'
    BY <1>1, <1>2, <2>1, SeenIsCovered, CoveredStays
  <2> QED BY <1>1, <1>2, <1>3, <2>1, <2>2, <2>3, Discovered
<1>7. CASE ~repo.fixOnly /\ l = BadLabel
  <2>1. checks' = Append(checks, Checks!Fail(l)) /\ seen' = seen
    <3>1. l \notin seen
      BY <1>2, <1>7
    <3> QED BY <1>3, <1>4, <1>7, <3>1 DEF Checks!DiscoverBuild
  <2>2. l \in Checks!Demanded
    BY <1>4, <1>5, <1>7, RootsDemanded
  <2>3. Blame
    BY <1>7, <2>2, BrokenBlame DEF Checks!Broken
  <2>4. HasFail(checks)'
    BY <1>5, <2>1, FailAppended
  <2>5. GoodCheck(Checks!Fail(l), seen') /\ Checks!Fail(l).kind # "test"
    BY <1>5, <2>3, FailRecord
  <2> QED BY <1>1, <1>2, <1>3, <2>1, <2>4, <2>5, Discovered
<1>8. CASE ~repo.fixOnly /\ l # BadLabel /\ l \notin seen
  <2> DEFINE c == Checks!UnitCheck("build", l)
  <2>1. checks' = Append(checks, Checks!UnitCheck("build", l)) /\ seen' = seen \cup {l}
    BY <1>3, <1>4, <1>8 DEF Checks!DiscoverBuild
  <2>2. l \in Checks!Demanded
    BY <1>4, <1>5, <1>8, RootsDemanded
  <2>3. PICK d : d = c
    OBVIOUS
  <2>4. GoodCheck(d, seen') /\ (d = Checks!Fail(l) \/ d = [kind |-> "build", of |-> l])
    BY <1>5, <2>1, <2>2, <2>3, UnitCheckGood
  <2>5. d.kind # "test" /\ d \in CheckRecords /\ (d.kind = "fail" \/ (d.kind = "build" /\ d.of = l))
    BY <1>5, <2>4, FailRecord DEF GoodCheck
  <2>6. checks' = Append(checks, d)
    BY <2>1, <2>3
  <2>7. Dealt(q)'
    BY <1>4, <1>5, <2>1 DEF Dealt
  <2>8. HasFail(checks)' \/ seen' \subseteq Covered(checks)'
    <3>1. Len(checks) + 1 \in DOMAIN checks' /\ checks'[Len(checks) + 1] = d
      BY <1>2, <2>5, <2>6, AppendElements
    <3>2. CASE d.kind = "fail"
      BY <3>1, <3>2 DEF HasFail
    <3>3. CASE d.kind = "build" /\ d.of = l
      <4>1. HasCheck(checks', l)
        BY <3>1, <3>3 DEF HasCheck
      <4>2. l \in Covered(checks')
        BY <4>1, <1>5, CoveredGrows
      <4>3. Covered(checks)' = Covered(checks')
        BY <1>1 DEF Covered, Supported, HasCheck
      <4>4. HasFail(checks)' \/ seen \subseteq Covered(checks)'
        BY <1>1, <1>2, <2>5, <2>6, SeenIsCovered, CoveredStays
      <4> QED BY <2>1, <4>2, <4>3, <4>4
    <3> QED BY <2>5, <3>2, <3>3
  <2>9. seen \subseteq seen' /\ seen' \subseteq Checks!Labels \ {BadLabel}
    BY <1>2, <1>5, <1>8, <2>1
  <2> QED BY <1>1, <1>2, <1>3, <2>4, <2>5, <2>6, <2>7, <2>8, <2>9, Discovered
<1> QED BY <1>6, <1>7, <1>8

(* A check_test that needs no expansion. *)
LEMMA DiscoverTestStep ==
  ASSUME ChecksInv, Checks!DiscoverTest
  PROVE  ChecksInv'
<1>1. /\ stage = "discover" /\ todo # <<>> /\ Head(todo).kind = "test" /\ todo' = Tail(todo)
      /\ repo.fixOnly \/ Head(todo).of \in seen \cup {BadLabel}
      /\ checks' = IF ~repo.fixOnly /\ Head(todo).of = BadLabel
                   THEN Append(checks, Checks!Fail(BadLabel)) ELSE checks
      /\ UNCHANGED <<repo, buildCache, toolCache, stack, ret, ran, panicked, stage, seen, work, visited,
                     expanded, left, success>>
  BY DEF Checks!DiscoverTest, Checks!Request, Checks!contextVars
<1>2. work' = <<>> /\ visited' = {} /\ expanded' = <<>> /\ seen \subseteq Checks!Labels \ {BadLabel}
      /\ checks \in Seq(CheckRecords)
  BY <1>1 DEF ChecksInv, StagesOk, CollectInv, CollectTyped
<1>3. PICK q : q = Head(todo)
  OBVIOUS
<1>4. PICK l : l = q.of
  OBVIOUS
<1>5. /\ repo \in Repos /\ q \in Checks!Requested /\ q.kind = "test" /\ l \in Checks!Labels
  BY <1>1, <1>3, <1>4, HeadRequested
<1>6. CASE repo.fixOnly \/ l # BadLabel
  <2>1. checks' = checks
    BY <1>1, <1>3, <1>4, <1>6
  <2>2. Dealt(q)'
    BY <1>1, <1>3, <1>4, <1>5, <1>6, <2>1 DEF Dealt
  <2>3. HasFail(checks)' \/ seen' \subseteq Covered(checks)'
    BY <1>1, <1>2, <2>1, SeenIsCovered, CoveredStays
  <2> QED BY <1>1, <1>2, <1>3, <2>1, <2>2, <2>3, Discovered
<1>7. CASE ~repo.fixOnly /\ l = BadLabel
  <2>1. checks' = Append(checks, Checks!Fail(l))
    BY <1>1, <1>3, <1>4, <1>7
  <2>2. l \in Checks!Demanded
    BY <1>4, <1>5, <1>7, RootsDemanded
  <2>3. Blame
    BY <1>7, <2>2, BrokenBlame DEF Checks!Broken
  <2>4. HasFail(checks)'
    BY <1>5, <2>1, FailAppended
  <2>5. GoodCheck(Checks!Fail(l), seen') /\ Checks!Fail(l).kind # "test"
    BY <1>5, <2>3, FailRecord
  <2> QED BY <1>1, <1>2, <1>3, <2>1, <2>4, <2>5, Discovered
<1> QED BY <1>6, <1>7

(* What was dealt with stays so while a request is expanded. *)
LEMMA DealtStays ==
  ASSUME ChecksInv, stage \in {"discover", "expand"}, repo' = repo, todo' = todo, seen \subseteq seen',
         HasFail(checks) => HasFail(checks)', \A i \in DOMAIN checks : i \in DOMAIN checks' /\ checks'[i] = checks[i]
  PROVE  RequestsDealt'
<1> SUFFICES ASSUME ~ HasFail(checks)', NEW p \in Checks!Requested
             PROVE  Dealt(p)' \/ \E i \in DOMAIN todo' : todo'[i] = p
  BY RepoDemands DEF RequestsDealt
<1>1. Dealt(p) \/ \E i \in DOMAIN todo : todo[i] = p
  BY DEF ChecksInv, CollectInv, RequestsDealt
<1>2. Dealt(p) => Dealt(p)'
  BY DEF Dealt, Checks!Applicable
<1> QED BY <1>1, <1>2

(* A check_test is in seen before it has a check. *)
LEMMA ExpandStartStep ==
  ASSUME ChecksInv, Checks!ExpandStart
  PROVE  ChecksInv'
<1> DEFINE h == Head(todo).of
<1>1. /\ stage = "discover" /\ todo # <<>> /\ Head(todo).kind = "test" /\ ~repo.fixOnly
      /\ h \notin seen \cup {BadLabel} /\ seen' = seen \cup {h} /\ work' = <<h>> /\ visited' = {}
      /\ expanded' = <<>> /\ stage' = "expand"
      /\ UNCHANGED <<repo, buildCache, toolCache, stack, ret, ran, panicked, todo, checks, left, success>>
  BY DEF Checks!ExpandStart, Checks!Request, Checks!contextVars
<1>2. /\ repo \in Repos /\ h \in Checks!Labels /\ Head(todo) \in Checks!Requested
      /\ Head(todo) = TestCheck(h)
  BY <1>1, HeadRequested DEF TestCheck
<1>3. /\ todo \in Seq(Checks!Requests) /\ checks \in Seq(CheckRecords) /\ seen \subseteq Checks!Labels \ {BadLabel}
  BY DEF ChecksInv, CollectInv, CollectTyped
<1>4. h \in Checks!Demanded
  BY <1>1, <1>2, RootsDemanded
<1> HIDE DEF h
<1>5. work' \in Seq(Checks!Labels) /\ DOMAIN work' = {1} /\ work'[1] = h /\ Checks!ToSet(work') = {h}
  BY <1>1, <1>2 DEF Checks!ToSet
<1>6. StagesOk'
  BY <1>1 DEF ChecksInv, StagesOk, Fresh, h
<1>7. Asked'
  <2>1. Checks!ToSet(work)' = {h}
    BY <1>5 DEF Checks!ToSet
  <2>2. h \in Checks!Demanded /\ TestCheck(h) \in Checks!Requested
    BY <1>2, <1>4
  <2>3. \A l : TestCheck(l)' = TestCheck(l)
    BY DEF TestCheck
  <2> QED BY <1>1, <2>1, <2>2, <2>3, RepoDemands DEF ChecksInv, BlameInv, Asked
<1>8. CollectTyped'
  <2>1. seen' \subseteq Checks!Labels \ {BadLabel}
    BY <1>1, <1>2, <1>3
  <2>2. <<>> \in Seq(Tests)
    OBVIOUS
  <2> QED BY <1>1, <1>5, <2>1, <2>2 DEF ChecksInv, CollectInv, CollectTyped
<1>9. TestsOnce(checks, expanded, work)'
  <2>1. \A i \in DOMAIN checks : checks[i] # TestCheck(h)
    <3> SUFFICES ASSUME NEW i \in DOMAIN checks, checks[i] = TestCheck(h) PROVE FALSE
      OBVIOUS
    <3>1. TestCheck(h).kind = "test" /\ TestCheck(h).of = h
      BY DEF TestCheck
    <3>2. h \in seen
      BY <3>1 DEF ChecksInv, CollectInv, CollectTyped
    <3> QED BY <3>2, <1>1
  <2>2. TestCheck(Head(todo).of)' = TestCheck(h)
    BY <1>1 DEF TestCheck, h
  <2> QED BY <1>1, <2>1, <2>2 DEF ChecksInv, CollectInv, TestsOnce
<1>10. SeenCovered'
  <2>1. HasFail(checks) \/ seen \subseteq Covered(checks)
    BY <1>1, SeenIsCovered
  <2>2. HasFail(checks)' = HasFail(checks) /\ Covered(checks)' = Covered(checks)
    BY <1>1 DEF HasFail, Covered, Supported, HasCheck
  <2> QED BY <1>1, <1>5, <2>1, <2>2 DEF SeenCovered, h
<1>11. ExpandedVisited'
  BY <1>1 DEF ExpandedVisited
<1>12. RequestsDealt'
  BY <1>1, DealtStays DEF HasFail
<1>13. HasFail(checks)' => Blame
  BY <1>1 DEF HasFail, ChecksInv, BlameInv, Reasons, Failing
<1>14. CollectInv'
  BY <1>8, <1>9, <1>10, <1>11, <1>12 DEF CollectInv
<1> QED BY <1>1, <1>6, <1>7, <1>13, <1>14, Collecting

-----------------------------------------------------------------------------
(* Expanding a suite.                                                      *)

(* The elements of a sequence that is worked off... *)
LEMMA ToSetTail ==
  ASSUME NEW S, NEW s \in Seq(S), s # <<>>
  PROVE  Checks!ToSet(s) = {Head(s)} \cup Checks!ToSet(Tail(s))
<1>1. ASSUME NEW x \in Checks!ToSet(s) PROVE x \in {Head(s)} \cup Checks!ToSet(Tail(s))
  BY <1>1, TailElements DEF Checks!ToSet
<1>2. ASSUME NEW x \in {Head(s)} \cup Checks!ToSet(Tail(s)) PROVE x \in Checks!ToSet(s)
  BY <1>2, TailElements DEF Checks!ToSet
<1> QED BY <1>1, <1>2

(* ...and of one that is put before another. *)
LEMMA ToSetConcat ==
  ASSUME NEW S, NEW s \in Seq(S), NEW t \in Seq(S)
  PROVE  s \o t \in Seq(S) /\ Checks!ToSet(s \o t) = Checks!ToSet(s) \cup Checks!ToSet(t)
<1>1. /\ s \o t \in Seq(S) /\ DOMAIN (s \o t) = 1 .. Len(s) + Len(t)
      /\ \A i \in 1 .. Len(s) + Len(t) : (s \o t)[i] = IF i <= Len(s) THEN s[i] ELSE t[i - Len(s)]
      /\ DOMAIN s = 1 .. Len(s) /\ DOMAIN t = 1 .. Len(t) /\ Len(s) \in Nat /\ Len(t) \in Nat
  BY ConcatProperties
<1>2. ASSUME NEW x \in Checks!ToSet(s \o t) PROVE x \in Checks!ToSet(s) \cup Checks!ToSet(t)
  <2>1. PICK i \in 1 .. Len(s) + Len(t) : (s \o t)[i] = x
    BY <1>1, <1>2 DEF Checks!ToSet
  <2>2. CASE i <= Len(s)
    <3>1. i \in DOMAIN s /\ s[i] = x
      BY <1>1, <2>1, <2>2
    <3> QED BY <3>1 DEF Checks!ToSet
  <2>3. CASE ~(i <= Len(s))
    <3>1. i - Len(s) \in DOMAIN t /\ t[i - Len(s)] = x
      BY <1>1, <2>1, <2>3
    <3> QED BY <3>1 DEF Checks!ToSet
  <2> QED BY <2>2, <2>3
<1>3. ASSUME NEW x \in Checks!ToSet(s) PROVE x \in Checks!ToSet(s \o t)
  <2>1. PICK i \in DOMAIN s : s[i] = x
    BY <1>3 DEF Checks!ToSet
  <2>2. i \in DOMAIN (s \o t) /\ (s \o t)[i] = x
    BY <1>1, <2>1
  <2> QED BY <2>2 DEF Checks!ToSet
<1>4. ASSUME NEW x \in Checks!ToSet(t) PROVE x \in Checks!ToSet(s \o t)
  <2>1. PICK i \in DOMAIN t : t[i] = x
    BY <1>4 DEF Checks!ToSet
  <2> DEFINE k == i + Len(s)
  <2>2. k \in 1 .. Len(s) + Len(t) /\ ~(k <= Len(s)) /\ k - Len(s) = i
    BY <1>1
  <2> HIDE DEF k
  <2>3. (s \o t)[k] = x /\ k \in DOMAIN (s \o t)
    BY <1>1, <2>1, <2>2
  <2> QED BY <2>3 DEF Checks!ToSet
<1> QED BY <1>1, <1>2, <1>3, <1>4

(* A label is visited: its members are still to be visited, or it is about *)
(* to be added.                                                            *)
LEMMA VisitStep ==
  ASSUME ChecksInv, Checks!Visit
  PROVE  ChecksInv'
<1>1. PICK l : l = Head(work)
  OBVIOUS
<1>2. /\ stage = "expand" /\ work # <<>>
      /\ l \in visited \/ l \in Tests \/ l \in Suites
      /\ visited' = visited \cup {l}
      /\ work' = IF l \in Suites /\ l \notin visited THEN repo.suite[l] \o Tail(work) ELSE Tail(work)
      /\ expanded' = IF l \in Tests /\ l \notin visited THEN Append(expanded, l) ELSE expanded
      /\ UNCHANGED <<repo, buildCache, toolCache, stack, ret, ran, panicked, stage, todo, seen, checks, left, success>>
  BY <1>1 DEF Checks!Visit, Checks!Skipped, Checks!IsTest, Tests, Checks!contextVars
<1>3. /\ repo \in Repos /\ work \in Seq(Checks!Labels) /\ expanded \in Seq(Tests) /\ visited \subseteq Checks!Labels
      /\ todo # <<>>
  BY <1>2 DEF ChecksInv, CollectInv, CollectTyped, StagesOk
<1>4. /\ l \in Checks!Labels /\ Checks!ToSet(work) = {l} \cup Checks!ToSet(Tail(work))
      /\ Tail(work) \in Seq(Checks!Labels)
  BY <1>1, <1>2, <1>3, ToSetTail, TailElements
<1>5. /\ work' \in Seq(Checks!Labels)
      /\ Checks!ToSet(work') = Checks!ToSet(Tail(work)) \cup
           (IF l \in Suites /\ l \notin visited THEN Checks!ToSet(repo.suite[l]) ELSE {})
  <2>1. CASE l \in Suites /\ l \notin visited
    <3>1. PICK s, t : s = repo.suite[l] /\ t = Tail(work)
      OBVIOUS
    <3>2. s \in Seq(Checks!Labels) /\ t \in Seq(Checks!Labels) /\ work' = s \o t
      BY <1>2, <1>3, <1>4, <2>1, <3>1, SuiteTyped
    <3>3. s \o t \in Seq(Checks!Labels) /\ Checks!ToSet(s \o t) = Checks!ToSet(s) \cup Checks!ToSet(t)
      BY <3>2, ToSetConcat
    <3>4. work' \in Seq(Checks!Labels) /\ Checks!ToSet(work') = Checks!ToSet(t) \cup Checks!ToSet(s)
      BY <3>2, <3>3
    <3> QED BY <2>1, <3>1, <3>4
  <2>2. CASE ~(l \in Suites /\ l \notin visited)
    BY <1>2, <1>4, <2>2
  <2> QED BY <2>1, <2>2
<1>6. /\ expanded' \in Seq(Tests)
      /\ \A i \in DOMAIN expanded : i \in DOMAIN expanded' /\ expanded'[i] = expanded[i]
      /\ l \in Tests /\ l \notin visited => \E i \in DOMAIN expanded' : expanded'[i] = l
      /\ \A i \in DOMAIN expanded' :
           \/ i \in DOMAIN expanded /\ expanded'[i] = expanded[i]
           \/ i = Len(expanded) + 1 /\ expanded'[i] = l /\ l \notin visited
  <2>1. CASE l \in Tests /\ l \notin visited
    BY <1>2, <1>3, <2>1, AppendElements
  <2>2. CASE ~(l \in Tests /\ l \notin visited)
    BY <1>2, <1>3, <2>2
  <2> QED BY <2>1, <2>2
<1>7. Checks!ToSet(work)' = Checks!ToSet(work')
  BY DEF Checks!ToSet
<1>8. StagesOk'
  BY <1>2 DEF ChecksInv, StagesOk, Fresh
<1>9. Asked'
  <2>1. l \in Checks!Demanded
    BY <1>4 DEF ChecksInv, BlameInv, Asked
  <2>2. ASSUME NEW m \in Checks!ToSet(work')
        PROVE  /\ m \in Checks!Demanded
               /\ TestCheck(m) \in Checks!Requested \/ \E s \in Suites : m \in Checks!ToSet(repo.suite[s])
    <3>1. CASE m \in Checks!ToSet(Tail(work))
      BY <3>1, <1>4 DEF ChecksInv, BlameInv, Asked
    <3>2. CASE l \in Suites /\ m \in Checks!ToSet(repo.suite[l])
      BY <3>2, <2>1, <1>3, BelowSuite, DemandedClosed
    <3> QED BY <2>2, <1>5, <3>1, <3>2
  <2>3. \A m : TestCheck(m)' = TestCheck(m)
    BY DEF TestCheck
  <2>4. /\ \A i \in DOMAIN todo' : todo'[i] \in Checks!Requested'
        /\ \A i \in DOMAIN checks' :
             /\ checks'[i].kind # "fail" => checks'[i].of \in Checks!Demanded'
             /\ checks'[i].kind = "build" => checks'[i] \in Checks!Requested'
    BY <1>2, RepoDemands DEF ChecksInv, BlameInv, Asked
  <2>5. visited' \subseteq Checks!Demanded'
    BY <1>2, <2>1, RepoDemands DEF ChecksInv, BlameInv, Asked
  <2> QED BY <1>2, <1>7, <2>2, <2>3, <2>4, <2>5, RepoDemands DEF Asked
<1>10. CollectTyped'
  BY <1>2, <1>3, <1>4, <1>5, <1>6 DEF ChecksInv, CollectInv, CollectTyped
<1>11. TestsOnce(checks, expanded, work)'
  <2>1. \A i \in DOMAIN checks : checks[i] # TestCheck(Head(todo).of)
    BY <1>2 DEF ChecksInv, CollectInv, TestsOnce
  <2>2. TestCheck(Head(todo).of)' = TestCheck(Head(todo).of)
    BY <1>2 DEF TestCheck
  <2>3. /\ \A i, j \in DOMAIN checks : checks[i].kind = "test" /\ checks[i] = checks[j] => i = j
        /\ \A i, j \in DOMAIN expanded : expanded[i] = expanded[j] => i = j
        /\ \A i \in DOMAIN expanded : expanded[i] \in visited
    BY DEF ChecksInv, CollectInv, TestsOnce, ExpandedVisited
  <2>4. \A i, j \in DOMAIN expanded' : expanded'[i] = expanded'[j] => i = j
    BY <2>3, <1>6
  <2> QED BY <1>2, <2>1, <2>2, <2>3, <2>4 DEF TestsOnce
<1>12. ExpandedVisited'
  BY <1>2, <1>6 DEF ChecksInv, CollectInv, ExpandedVisited
<1>13. HasFail(checks)' = HasFail(checks) /\ Covered(checks)' = Covered(checks)
  BY <1>2 DEF HasFail, Covered, Supported, HasCheck
<1>14. SeenCovered'
  <2> SUFFICES ASSUME ~ HasFail(checks)
               PROVE  /\ \A x \in seen : x \in Covered(checks) \/ x = Head(todo).of
                      /\ Head(todo).of \in visited' \cup Checks!ToSet(work')
                      /\ \A x \in visited' :
                           \/ x \in Suites /\ Checks!ToSet(repo.suite[x]) \subseteq visited' \cup Checks!ToSet(work')
                           \/ x \in Covered(checks)
                           \/ \E i \in DOMAIN expanded' : expanded'[i] = x
    BY <1>2, <1>7, <1>13 DEF SeenCovered
  <2>1. /\ \A x \in seen : x \in Covered(checks) \/ x = Head(todo).of
        /\ Head(todo).of \in visited \cup Checks!ToSet(work)
        /\ \A x \in visited :
             \/ x \in Suites /\ Checks!ToSet(repo.suite[x]) \subseteq visited \cup Checks!ToSet(work)
             \/ x \in Covered(checks)
             \/ \E i \in DOMAIN expanded : expanded[i] = x
    BY <1>2 DEF ChecksInv, CollectInv, SeenCovered
  <2>2. visited \cup Checks!ToSet(work) \subseteq visited' \cup Checks!ToSet(work')
    BY <1>2, <1>4, <1>5
  <2>3. ASSUME NEW x \in visited'
        PROVE  \/ x \in Suites /\ Checks!ToSet(repo.suite[x]) \subseteq visited' \cup Checks!ToSet(work')
               \/ x \in Covered(checks)
               \/ \E i \in DOMAIN expanded' : expanded'[i] = x
    <3>1. CASE x \in visited
      BY <3>1, <2>1, <2>2, <1>6
    <3>2. CASE x = l /\ l \notin visited
      BY <3>2, <1>2, <1>5, <1>6
    <3> QED BY <2>3, <1>2, <3>1, <3>2
  <2> QED BY <2>1, <2>2, <2>3
<1>15. RequestsDealt'
  BY <1>2, <1>13, DealtStays
<1>16. HasFail(checks)' => Blame
  BY <1>13 DEF ChecksInv, BlameInv, Reasons, Failing
<1>17. CollectInv'
  BY <1>10, <1>11, <1>12, <1>14, <1>15 DEF CollectInv
<1> QED BY <1>2, <1>8, <1>9, <1>16, <1>17, Collecting

(* A label that is no test is a reason to fail. *)
LEMMA ExpandFailsStep ==
  ASSUME ChecksInv, Checks!ExpandFails
  PROVE  ChecksInv'
<1>1. PICK l : l = Head(work)
  OBVIOUS
<1>2. PICK q : q = Head(todo)
  OBVIOUS
<1>3. /\ stage = "expand" /\ work # <<>> /\ l \notin Tests /\ l \notin Suites
      /\ checks' = Append(checks, Checks!Fail(q.of))
      /\ work' = <<>> /\ visited' = {} /\ expanded' = <<>> /\ todo' = Tail(todo) /\ stage' = "discover"
      /\ UNCHANGED <<repo, buildCache, toolCache, stack, ret, ran, panicked, seen, left, success>>
  BY <1>1, <1>2 DEF Checks!ExpandFails, Checks!IsTest, Tests, Checks!contextVars
<1>4. /\ todo # <<>> /\ work \in Seq(Checks!Labels) /\ seen \subseteq Checks!Labels \ {BadLabel}
  BY <1>3 DEF ChecksInv, StagesOk, CollectInv, CollectTyped
<1>5. q.of \in Checks!Labels
  BY <1>2, <1>3, <1>4, HeadRequested
<1>6. l \in Checks!ToSet(work)
  BY <1>1, <1>3, <1>4, ToSetTail
<1>7. Blame
  <2>1. /\ l \in Checks!Demanded
        /\ TestCheck(l) \in Checks!Requested \/ \E s \in Suites : l \in Checks!ToSet(repo.suite[s])
    BY <1>6 DEF ChecksInv, BlameInv, Asked
  <2>2. Checks!NotATest(l)
    BY <1>3, <2>1 DEF Checks!NotATest, Checks!IsTest, Tests, TestCheck
  <2> QED BY <2>1, <2>2, BrokenBlame
<1>8. GoodCheck(Checks!Fail(q.of), seen') /\ Checks!Fail(q.of).kind # "test"
  BY <1>5, <1>7, FailRecord
<1>9. HasFail(checks)'
  BY <1>3, <1>5, FailAppended
<1> QED BY <1>2, <1>3, <1>4, <1>8, <1>9, Discovered

(* Once nothing is left to visit or to add, the request is covered. *)
LEMMA ExpandEndsStep ==
  ASSUME ChecksInv, Checks!ExpandEnds
  PROVE  ChecksInv'
<1>1. PICK q : q = Head(todo)
  OBVIOUS
<1>2. /\ stage = "expand" /\ work = <<>> /\ expanded = <<>> /\ visited' = {} /\ todo' = Tail(todo) /\ stage' = "discover"
      /\ UNCHANGED <<repo, buildCache, toolCache, stack, ret, ran, panicked, seen, work, expanded, checks, left, success>>
  BY DEF Checks!ExpandEnds, Checks!contextVars
<1>3. /\ todo # <<>> /\ q.kind = "test" /\ q.of \in seen /\ seen \subseteq Checks!Labels \ {BadLabel}
      /\ visited \subseteq Checks!Labels
  BY <1>1, <1>2 DEF ChecksInv, StagesOk, CollectInv, CollectTyped
<1>4. HasFail(checks)' = HasFail(checks) /\ Covered(checks)' = Covered(checks)
  BY <1>2 DEF HasFail, Covered, Supported, HasCheck
<1>5. HasFail(checks) \/ seen \subseteq Covered(checks)
  <2> SUFFICES ASSUME ~ HasFail(checks) PROVE seen \subseteq Covered(checks)
    OBVIOUS
  <2>1. Checks!ToSet(work) = {}
    BY <1>2 DEF Checks!ToSet
  <2>2. /\ \A x \in seen : x \in Covered(checks) \/ x = q.of
        /\ q.of \in visited
        /\ \A x \in visited : (x \in Suites /\ Checks!ToSet(repo.suite[x]) \subseteq visited) \/ x \in Covered(checks)
    BY <1>1, <1>2, <2>1 DEF ChecksInv, CollectInv, SeenCovered
  <2>3. visited \subseteq Covered(checks)
    BY <1>3, <2>2, CoveredGrows
  <2> QED BY <2>2, <2>3
<1>6. Dealt(q)'
  BY <1>2, <1>3 DEF Dealt
<1>7. checks' = checks /\ stage \in {"discover", "expand"}
  BY <1>2
<1> QED BY <1>1, <1>2, <1>3, <1>4, <1>5, <1>6, <1>7, Discovered

(* A turn of the loop over the tests of an expansion covers that test. *)
LEMMA AddTestStep ==
  ASSUME ChecksInv, Checks!AddTest
  PROVE  ChecksInv'
<1>1. PICK l : l = Head(expanded)
  OBVIOUS
<1>2. PICK h : h = Head(todo).of
  OBVIOUS
<1>3. PICK c : c = Checks!UnitCheck("test", l)
  OBVIOUS
<1>4. /\ stage = "expand" /\ work = <<>> /\ expanded # <<>>
      /\ checks' = IF l \notin seen \/ l = h THEN Append(checks, c) ELSE checks
      /\ seen' = seen \cup {l} /\ expanded' = Tail(expanded)
      /\ UNCHANGED <<repo, buildCache, toolCache, stack, ret, ran, panicked, stage, todo, work, visited, left, success>>
  BY <1>1, <1>2, <1>3 DEF Checks!AddTest, Checks!IsNew, Checks!contextVars
<1>5. /\ repo \in Repos /\ expanded \in Seq(Tests) /\ visited \subseteq Checks!Demanded
      /\ checks \in Seq(CheckRecords) /\ seen \subseteq Checks!Labels \ {BadLabel} /\ todo # <<>>
      /\ visited \subseteq Checks!Labels
  BY <1>4 DEF ChecksInv, CollectInv, CollectTyped, BlameInv, Asked, StagesOk
<1>6. /\ l = expanded[1] /\ l \in Tests /\ 1 \in DOMAIN expanded /\ expanded' \in Seq(Tests)
      /\ \A i \in DOMAIN expanded' : i + 1 \in DOMAIN expanded /\ expanded'[i] = expanded[i + 1] /\ i + 1 # 1
      /\ \A i \in DOMAIN expanded : i = 1 \/ \E j \in DOMAIN expanded' : j + 1 = i /\ expanded'[j] = expanded[i]
      /\ \A i, j \in DOMAIN expanded' : i + 1 = j + 1 => i = j
  BY <1>1, <1>4, <1>5, TailElements
<1>7. l \in visited /\ l \in Checks!Demanded /\ l \in Checks!Labels /\ l # BadLabel
  <2>1. l \in visited
    BY <1>6 DEF ChecksInv, CollectInv, ExpandedVisited
  <2> QED BY <1>5, <1>6, <2>1, Apart DEF Tests
<1>8. PICK sn : sn = seen'
  OBVIOUS
<1>9. GoodCheck(c, sn) /\ (c = Checks!Fail(l) \/ c = TestCheck(l))
  BY <1>3, <1>4, <1>5, <1>6, <1>7, <1>8, UnitCheckGood DEF TestCheck
<1>10. /\ checks' \in Seq(CheckRecords)
       /\ \A i \in DOMAIN checks' :
            /\ checks'[i].kind = "check" => checks'[i].of \in Actions /\ repo.tool[checks'[i].of].registered
            /\ checks'[i].kind = "build" => checks'[i].of \in BuildOrTest /\ checks'[i] \in Checks!Requested
            /\ checks'[i].kind = "test" => checks'[i].of \in Tests
            /\ checks'[i].kind \in {"build", "test"} => checks'[i].of \in seen'
            /\ checks'[i].kind # "fail" => checks'[i].of \in Checks!Demanded
       /\ HasFail(checks)' => Blame
       /\ HasFail(checks) => HasFail(checks)'
       /\ Covered(checks) \subseteq Covered(checks)'
       /\ \A i \in DOMAIN checks : i \in DOMAIN checks' /\ checks'[i] = checks[i]
  <2>1. seen \subseteq sn /\ (checks' = checks \/ (GoodCheck(c, sn) /\ checks' = Append(checks, c)))
    BY <1>4, <1>8, <1>9
  <2> QED BY <1>4, <1>8, <2>1, NewCheck
<1>11. StagesOk'
  BY <1>4 DEF ChecksInv, StagesOk, Fresh
<1>12. Asked'
  <2>1. Checks!ToSet(work)' = {}
    BY <1>4 DEF Checks!ToSet
  <2> QED BY <1>4, <1>10, <2>1, RepoDemands DEF ChecksInv, BlameInv, Asked
<1>13. CollectTyped'
  <2>1. left' \subseteq DOMAIN checks'
    BY <1>4, <1>10 DEF ChecksInv, CollectInv, CollectTyped
  <2>2. seen' \subseteq Checks!Labels \ {BadLabel}
    BY <1>4, <1>5, <1>7
  <2> QED BY <1>4, <1>6, <1>10, <2>1, <2>2 DEF ChecksInv, CollectInv, CollectTyped
<1>14. /\ \A m : TestCheck(m).kind = "test" /\ TestCheck(m).of = m /\ Checks!Fail(m).kind = "fail"
       /\ TestCheck(h)' = TestCheck(h) /\ h = Head(todo').of
  BY <1>2, <1>4 DEF TestCheck, Checks!Fail
<1>15. TestsOnce(checks, expanded, work)'
  <2>1. /\ \A i, j \in DOMAIN checks : checks[i].kind = "test" /\ checks[i] = checks[j] => i = j
        /\ \A i, j \in DOMAIN expanded : expanded[i] = expanded[j] => i = j
        /\ \A i \in DOMAIN checks : checks[i] = TestCheck(h) => \A j \in DOMAIN expanded : expanded[j] # h
        /\ \A i \in DOMAIN checks : checks[i].kind = "test" => checks[i].of \in seen
    BY <1>2, <1>4 DEF ChecksInv, CollectInv, TestsOnce, CollectTyped
  <2>2. l \notin seen \/ l = h => \A i \in DOMAIN checks : checks[i] # TestCheck(l)
    BY <1>6, <1>14, <2>1
  <2>3. \A i \in DOMAIN checks' : \/ i \in DOMAIN checks /\ checks'[i] = checks[i]
                                  \/ i = Len(checks) + 1 /\ checks'[i] = c /\ (l \notin seen \/ l = h)
    <3>1. c \in CheckRecords
      BY <1>9 DEF GoodCheck
    <3> QED BY <1>4, <1>5, <3>1, AppendElements
  <2>4. ASSUME NEW i \in DOMAIN checks', NEW j \in DOMAIN checks', checks'[i].kind = "test", checks'[i] = checks'[j]
        PROVE  i = j
    <3>1. c.kind = "test" => c = TestCheck(l)
      BY <1>9, <1>14
    <3>2. CASE i \in DOMAIN checks /\ checks'[i] = checks[i] /\ j \in DOMAIN checks /\ checks'[j] = checks[j]
      BY <2>1, <2>4, <3>2
    <3>3. CASE checks'[i] = c /\ i = Len(checks) + 1 /\ (l \notin seen \/ l = h)
      <4>1. checks'[j] = TestCheck(l) /\ ~(j \in DOMAIN checks /\ checks'[j] = checks[j])
        BY <2>2, <2>4, <3>1, <3>3
      <4> QED BY <2>3, <3>3, <4>1
    <3>4. CASE checks'[j] = c /\ j = Len(checks) + 1 /\ (l \notin seen \/ l = h)
      <4>1. checks'[i] = TestCheck(l) /\ ~(i \in DOMAIN checks /\ checks'[i] = checks[i])
        BY <2>2, <2>4, <3>1, <3>4
      <4> QED BY <2>3, <3>4, <4>1
    <3> QED BY <2>3, <3>2, <3>3, <3>4
  <2>5. \A i, j \in DOMAIN expanded' : expanded'[i] = expanded'[j] => i = j
    BY <2>1, <1>6
  <2>6. ASSUME NEW i \in DOMAIN checks', checks'[i] = TestCheck(h), NEW j \in DOMAIN expanded'
        PROVE  expanded'[j] # h
    <3>1. CASE i \in DOMAIN checks /\ checks'[i] = checks[i]
      BY <1>6, <2>1, <2>6, <3>1
    <3>2. CASE checks'[i] = c
      <4>1. l = h
        BY <1>9, <1>14, <2>6, <3>2
      <4> QED BY <4>1, <1>6, <2>1
    <3> QED BY <2>3, <3>1, <3>2
  <2>7. TestCheck(Head(todo).of)' = TestCheck(h)
    BY <1>14 DEF TestCheck
  <2> QED BY <1>4, <1>14, <2>4, <2>5, <2>6, <2>7 DEF TestsOnce
<1>16. ExpandedVisited'
  BY <1>4, <1>6 DEF ChecksInv, CollectInv, ExpandedVisited
<1>17. SeenCovered'
  <2>1. PICK C : C = Covered(checks)'
    OBVIOUS
  <2> SUFFICES ASSUME ~ HasFail(checks)'
               PROVE  /\ \A x \in seen' : x \in C \/ x = h
                      /\ h \in visited \cup Checks!ToSet(work)
                      /\ \A x \in visited :
                           \/ x \in Suites /\ Checks!ToSet(repo.suite[x]) \subseteq visited \cup Checks!ToSet(work)
                           \/ x \in C
                           \/ \E i \in DOMAIN expanded' : expanded'[i] = x
    <3>1. Checks!ToSet(work)' = Checks!ToSet(work)
      BY <1>4 DEF Checks!ToSet
    <3>2. \A x : Checks!ToSet(repo.suite[x])' = Checks!ToSet(repo.suite[x])
      BY <1>4 DEF Checks!ToSet
    <3> QED BY <1>4, <1>14, <2>1, <3>1, <3>2 DEF SeenCovered
  <2>2. /\ \A x \in seen : x \in Covered(checks) \/ x = h
        /\ h \in visited \cup Checks!ToSet(work)
        /\ \A x \in visited :
             \/ x \in Suites /\ Checks!ToSet(repo.suite[x]) \subseteq visited \cup Checks!ToSet(work)
             \/ x \in Covered(checks)
             \/ \E i \in DOMAIN expanded : expanded[i] = x
    BY <1>2, <1>4, <1>10 DEF ChecksInv, CollectInv, SeenCovered
  <2>3. l \in C
    <3>1. CASE l \in seen /\ l # h
      BY <3>1, <2>1, <2>2, <1>10
    <3>2. CASE l \notin seen \/ l = h
      <4>1. c \in CheckRecords
        BY <1>9 DEF GoodCheck
      <4>2. Len(checks) + 1 \in DOMAIN checks' /\ checks'[Len(checks) + 1] = c
        BY <1>4, <1>5, <3>2, <4>1, AppendElements
      <4>3. c.kind = "test" /\ c.of = l
        BY <1>9, <1>14, <4>2 DEF HasFail
      <4>4. HasCheck(checks', l)
        BY <4>2, <4>3 DEF HasCheck
      <4>5. l \in Covered(checks')
        <5> DEFINE V == {l}
        <5>1. V \in SUBSET Checks!Labels /\ \A x \in V : HasCheck(checks', x)
          BY <4>4, <1>7
        <5> HIDE DEF V
        <5>2. V \subseteq Covered(checks')
          BY <5>1, CoveredGrows
        <5> QED BY <5>2 DEF V
      <4>6. Covered(checks)' = Covered(checks')
        BY <1>4 DEF Covered, Supported, HasCheck
      <4> QED BY <2>1, <4>5, <4>6
    <3> QED BY <3>1, <3>2
  <2>4. Covered(checks) \subseteq C
    BY <1>10, <2>1
  <2>5. ASSUME NEW x \in visited
        PROVE  \/ x \in Suites /\ Checks!ToSet(repo.suite[x]) \subseteq visited \cup Checks!ToSet(work)
               \/ x \in C
               \/ \E i \in DOMAIN expanded' : expanded'[i] = x
    <3>1. CASE \E i \in DOMAIN expanded : expanded[i] = x
      BY <3>1, <1>6, <2>3
    <3> QED BY <2>2, <2>4, <3>1
  <2> QED BY <1>4, <2>2, <2>3, <2>4, <2>5
<1>18. RequestsDealt'
  <2>1. seen \subseteq seen' /\ stage \in {"discover", "expand"} /\ repo' = repo /\ todo' = todo
    BY <1>4
  <2> QED BY <1>10, <2>1, DealtStays
<1>19. CollectInv'
  BY <1>13, <1>15, <1>16, <1>17, <1>18 DEF CollectInv
<1>20. HasFail(checks)' => Blame
  BY <1>10
<1> QED BY <1>4, <1>11, <1>12, <1>19, <1>20, Collecting

(* The collection does not change once it has been sorted. *)
LEMMA CollectKept ==
  ASSUME ChecksInv, stage \in {"discover", "run"}, todo = <<>>, stage' \in {"run", "done"},
         UNCHANGED <<repo, todo, seen, work, visited, expanded, checks>>,
         left' \subseteq DOMAIN checks, success' \in BOOLEAN, panicked' \in BOOLEAN
  PROVE  CollectInv' /\ Asked' /\ HasFail(checks)' = HasFail(checks)
<1>0. HasFail(checks)' = HasFail(checks) /\ Covered(checks)' = Covered(checks)
  BY DEF HasFail, Covered, Supported, HasCheck
<1>1. CollectTyped'
  BY DEF ChecksInv, CollectInv, CollectTyped
<1>2. TestsOnce(checks, expanded, work)'
  BY DEF ChecksInv, CollectInv, TestsOnce
<1>3. SeenCovered' /\ ExpandedVisited'
  BY <1>0 DEF ChecksInv, CollectInv, SeenCovered, ExpandedVisited
<1>4. RequestsDealt'
  <2> SUFFICES ASSUME ~ HasFail(checks), NEW p \in Checks!Requested
               PROVE  Dealt(p)' \/ \E i \in DOMAIN todo' : todo'[i] = p
    BY <1>0, RepoDemands DEF RequestsDealt
  <2>1. Dealt(p) \/ \E i \in DOMAIN todo : todo[i] = p
    BY DEF ChecksInv, CollectInv, RequestsDealt
  <2>2. Dealt(p) => Dealt(p)'
    BY DEF Dealt, Checks!Applicable
  <2> QED BY <2>1, <2>2
<1>5. Asked'
  <2>1. Checks!ToSet(work)' = Checks!ToSet(work)
    BY DEF Checks!ToSet
  <2>2. work = <<>>
    BY DEF ChecksInv, StagesOk
  <2>3. Checks!ToSet(work) = {}
    BY <2>2 DEF Checks!ToSet
  <2> QED BY <2>1, <2>3, RepoDemands DEF ChecksInv, BlameInv, Asked
<1> QED BY <1>0, <1>1, <1>2, <1>3, <1>4, <1>5 DEF CollectInv

(* All checks are still to be run. *)
LEMMA SortChecksStep ==
  ASSUME ChecksInv, Checks!SortChecks
  PROVE  ChecksInv'
<1>1. /\ stage = "discover" /\ todo = <<>> /\ left' = DOMAIN checks /\ stage' = "run"
      /\ UNCHANGED <<repo, buildCache, toolCache, stack, ret, ran, panicked, todo, seen, work, visited, expanded,
                     checks, success>>
  BY DEF Checks!SortChecks, Checks!contextVars, Checks!discoverVars
<1>2. repo \in Repos /\ Fresh /\ success \in BOOLEAN /\ panicked \in BOOLEAN
  BY <1>1 DEF ChecksInv, CollectInv, CollectTyped, StagesOk
<1>3. CollectInv' /\ Asked' /\ HasFail(checks)' = HasFail(checks)
  BY <1>1, <1>2, CollectKept
<1>4. Needed' = Needed
  BY <1>1, <1>2, RepoNeeds
<1>5. ContextInv(Needed, buildCache, toolCache, stack, ret, ran)'
  BY <1>1, <1>4 DEF ChecksInv
<1>6. StagesOk'
  BY <1>1 DEF ChecksInv, StagesOk
<1>7. PassedSoFar'
  <2>1. \A u \in Actions \cup TestUnits : ran'[u] = <<>>
    BY <1>1, <1>2 DEF Fresh, Checks!Units
  <2>2. \A u \in Actions \cup TestUnits : Checks!ToSet(ran[u])' = {}
    BY <2>1 DEF Checks!ToSet
  <2> QED BY <1>1, <2>2 DEF PassedSoFar
<1>8. TestsRunOnce'
  <2>1. \A t \in TestUnits : ran[t] = <<>>
    BY <1>2 DEF Fresh, Checks!Units
  <2>2. Len(<<>>) <= 1
    OBVIOUS
  <2> QED BY <1>1, <1>2, <2>1, <2>2 DEF TestsRunOnce, Fresh, Running
<1>9. BuiltAsAsked'
  BY <1>1, <1>2 DEF BuiltAsAsked, Fresh
<1>10. Reasons'
  <2>1. Blame => Blame'
    BY <1>1, <1>2, BlameStays DEF ChecksInv, ContextOk
  <2>2. Failing' => HasFail(checks)
    BY <1>1, <1>2, <1>3 DEF Failing, Fresh, Bad
  <2>3. HasFail(checks) => Blame
    BY DEF ChecksInv, BlameInv, Reasons, Failing
  <2> QED BY <2>1, <2>2, <2>3 DEF Reasons
<1> QED BY <1>3, <1>5, <1>6, <1>7, <1>8, <1>9, <1>10 DEF ChecksInv, VerdictInv, BlameInv

-----------------------------------------------------------------------------
(* Running the checks.                                                     *)

(* What a step of the run leaves alone. *)
LEMMA RunKept ==
  ASSUME ChecksInv, stage = "run", stage' = "run",
         UNCHANGED <<repo, todo, seen, work, visited, expanded, checks>>,
         left' \subseteq left, success' \in BOOLEAN, panicked' \in BOOLEAN
  PROVE  /\ repo \in Repos /\ Needed' = Needed /\ StagesOk' /\ CollectInv' /\ Asked' /\ ContextOk
         /\ HasFail(checks)' = HasFail(checks)
<1>1. repo \in Repos /\ todo = <<>> /\ left' \subseteq DOMAIN checks /\ Needed' = Needed /\ ContextOk
  BY RepoNeeds DEF ChecksInv, CollectInv, CollectTyped, StagesOk, ContextOk
<1>2. CollectInv' /\ Asked' /\ HasFail(checks)' = HasFail(checks)
  BY <1>1, CollectKept
<1>3. StagesOk'
  BY DEF ChecksInv, StagesOk
<1> QED BY <1>1, <1>2, <1>3

(* A check that is run is of a unit, and only a check_build may ask for    *)
(* something that is built in passing.                                     *)
LEMMA CheckTyped ==
  ASSUME ChecksInv, NEW i \in DOMAIN checks
  PROVE  /\ checks[i] = [kind |-> checks[i].kind, of |-> checks[i].of] /\ checks[i].kind \in Checks!Kinds
         /\ checks[i].kind # "fail" => checks[i].of \in Checks!Units /\ checks[i].of \in Checks!Demanded
         /\ checks[i].kind \in {"check", "test"} => checks[i].of \notin Checks!Buildable
         /\ checks[i].kind = "check" => checks[i].of \in Actions
         /\ checks[i].kind = "build" => checks[i] \in Checks!Requested
<1>1. checks \in Seq(CheckRecords)
  BY DEF ChecksInv, CollectInv, CollectTyped
<1>2. checks[i] \in CheckRecords
  BY <1>1
<1>3. checks[i] = [kind |-> checks[i].kind, of |-> checks[i].of] /\ checks[i].kind \in Checks!Kinds
  BY <1>2 DEF CheckRecords
<1>4. /\ checks[i].kind = "check" => checks[i].of \in Actions
      /\ checks[i].kind = "build" => checks[i].of \in BuildOrTest /\ checks[i] \in Checks!Requested
      /\ checks[i].kind = "test" => checks[i].of \in Tests
      /\ checks[i].kind # "fail" => checks[i].of \in Checks!Demanded
  BY DEF ChecksInv, CollectInv, CollectTyped, BlameInv, Asked
<1> QED BY <1>3, <1>4, Apart DEF BuildOrTest, Tests, Checks!Units, Checks!Buildable, Checks!Kinds

(* A check begins, with a call. *)
LEMMA CheckCalls ==
  ASSUME ChecksInv, stage = "run", stage' = "run", stack = <<>>, ret = "none", ~panicked,
         NEW i \in left, left' = left \ {i}, checks[i].kind # "fail",
         checks[i].of \in Checks!Buildable => buildCache[checks[i].of] = "none",
         checks[i].of \in Checks!Buildable <=> checks[i].kind \notin {"check", "test"},
         Checks!Call(checks[i].of),
         UNCHANGED <<repo, buildCache, toolCache, ret, ran, panicked, todo, seen, work, visited, expanded, checks, success>>
  PROVE  ChecksInv'
<1>1. /\ repo \in Repos /\ Needed' = Needed /\ StagesOk' /\ CollectInv' /\ Asked' /\ ContextOk
      /\ HasFail(checks)' = HasFail(checks)
  <2>1. success \in BOOLEAN /\ panicked \in BOOLEAN
    BY DEF ChecksInv, CollectInv, CollectTyped
  <2> QED BY <2>1, RunKept
<1>2. i \in DOMAIN checks
  BY DEF ChecksInv, CollectInv, CollectTyped
<1>3. PICK l : l = checks[i].of
  OBVIOUS
<1>4. l \in Checks!Units /\ l \in Checks!Demanded
  BY <1>2, <1>3, CheckTyped
<1>5. PICK f : f = [unit |-> l, at |-> 1]
  OBVIOUS
<1>6. f.unit = l /\ stack' = <<f>>
  BY <1>3, <1>5 DEF Checks!Call
<1>7. stack' # <<>> /\ DOMAIN stack' = {1} /\ stack'[1].unit = l
  BY <1>6
<1>8. ContextInv(Needed, buildCache, toolCache, stack, ret, ran)'
  <2>1. stack' = Append(stack, [unit |-> l, at |-> 1])
    BY <1>3 DEF Checks!Call
  <2>2. ContextInv(Needed, buildCache, toolCache, stack, "none", ran) /\ NeedsOk(Needed)
    BY <1>1, NeededOk DEF ContextOk
  <2>3. ContextInv(Needed, buildCache, toolCache, Append(stack, [unit |-> l, at |-> 1]), "none", ran)
    BY <1>3, <1>4, <2>2, PushOk
  <2> QED BY <1>1, <2>1, <2>3
<1>9. PassedSoFar'
  <2> SUFFICES ASSUME Clean'
               PROVE  /\ \A u \in Actions \cup TestUnits : Checks!ToSet(ran[u]) \subseteq {"ok"}
                      /\ \A j \in DOMAIN checks \ left' :
                           /\ checks[j].kind # "fail"
                           /\ \/ LabelOk(Needed, buildCache, toolCache, ran, checks[j].of)
                              \/ stack' # <<>> /\ stack'[1].unit = checks[j].of
    <3>1. \A u : Checks!ToSet(ran[u])' = Checks!ToSet(ran[u])
      BY DEF Checks!ToSet
    <3> QED BY <1>1, <3>1 DEF PassedSoFar
  <2>1. Clean
    BY DEF Clean, Bad
  <2>2. /\ \A u \in Actions \cup TestUnits : Checks!ToSet(ran[u]) \subseteq {"ok"}
        /\ \A j \in DOMAIN checks \ left :
             checks[j].kind # "fail" /\ LabelOk(Needed, buildCache, toolCache, ran, checks[j].of)
    BY <2>1 DEF ChecksInv, VerdictInv, PassedSoFar
  <2>3. \A j \in DOMAIN checks \ left' : j = i \/ j \in DOMAIN checks \ left
    OBVIOUS
  <2> QED BY <1>3, <1>7, <2>2, <2>3
<1>10. TestsRunOnce'
  <2> SUFFICES ASSUME NEW t \in TestUnits
               PROVE  /\ Running(t)' \/ ran[t] # <<>> => \A j \in left' : checks[j] # TestCheck(t)
                      /\ Running(t)' => ran[t] = <<>>
                      /\ Len(ran[t]) <= 1
    <3>1. \A t : TestCheck(t)' = TestCheck(t)
      BY DEF TestCheck
    <3> QED BY <3>1 DEF TestsRunOnce
  <2>1. /\ ran[t] # <<>> => \A j \in left : checks[j] # TestCheck(t)
        /\ Len(ran[t]) <= 1
    BY DEF ChecksInv, VerdictInv, TestsRunOnce
  <2>2. CASE ~ Running(t)'
    BY <2>1, <2>2
  <2>3. CASE Running(t)'
    <3>1. t = l
      BY <1>7, <2>3 DEF Running
    <3>2. checks[i].kind = "test"
      BY <1>2, <1>3, <3>1, CheckTyped, Apart DEF Checks!Buildable
    <3>3. checks[i] = TestCheck(t)
      BY <1>2, <1>3, <3>1, <3>2, CheckTyped DEF TestCheck
    <3>4. \A j \in DOMAIN checks : checks[j] = checks[i] => j = i
      BY <1>2, <3>2 DEF ChecksInv, CollectInv, TestsOnce
    <3>5. left \subseteq DOMAIN checks
      BY DEF ChecksInv, CollectInv, CollectTyped
    <3>6. \A j \in left' : checks[j] # TestCheck(t)
      BY <3>3, <3>4, <3>5
    <3> QED BY <2>1, <3>3, <3>6
  <2> QED BY <2>2, <2>3
<1>11. BuiltAsAsked'
  BY <1>4, <1>7, RepoDemands DEF BuiltAsAsked
<1>12. Reasons'
  <2>1. Failing' => Failing
    BY <1>1 DEF Failing
  <2>2. Blame => Blame'
    BY <1>1, BlameStays
  <2> QED BY <2>1, <2>2 DEF Reasons, ChecksInv, BlameInv
<1> QED BY <1>1, <1>8, <1>9, <1>10, <1>11, <1>12 DEF ChecksInv, VerdictInv, BlameInv

(* Nothing is called: the run goes on, its verdict perhaps decided. *)
LEMMA NoCall ==
  ASSUME ChecksInv, stage = "run", stage' = "run", stack = <<>>, left' \subseteq left,
         success' \in BOOLEAN, panicked' \in BOOLEAN, ret' \in Checks!Results \cup {"none"},
         UNCHANGED <<repo, buildCache, toolCache, stack, ran, todo, seen, work, visited, expanded, checks>>,
         Clean' => Clean,
         Clean' => \A i \in left \ left' : checks[i].kind # "fail"
                                           /\ LabelOk(Needed, buildCache, toolCache, ran, checks[i].of),
         ~success' \/ ret' \in Bad => Blame
  PROVE  ChecksInv'
<1>1. /\ repo \in Repos /\ Needed' = Needed /\ StagesOk' /\ CollectInv' /\ Asked' /\ ContextOk
      /\ HasFail(checks)' = HasFail(checks)
  BY RunKept
<1>2. ContextInv(Needed, buildCache, toolCache, stack, ret, ran)'
  <2>1. RetOk(Needed, buildCache, toolCache, stack', ret')
    BY DEF RetOk
  <2>2. ContextTyped(buildCache, toolCache, stack', ret', ran)
    BY <1>1 DEF ContextOk, ContextInv, ContextTyped
  <2>3. ContextInv(Needed, buildCache, toolCache, stack', ret', ran)
    BY <1>1, <2>1, <2>2 DEF ContextOk, ContextInv
  <2> QED BY <1>1, <2>3
<1>3. PassedSoFar'
  <2> SUFFICES ASSUME Clean'
               PROVE  /\ \A u \in Actions \cup TestUnits : Checks!ToSet(ran[u]) \subseteq {"ok"}
                      /\ \A j \in DOMAIN checks \ left' :
                           checks[j].kind # "fail" /\ LabelOk(Needed, buildCache, toolCache, ran, checks[j].of)
    <3>1. \A u : Checks!ToSet(ran[u])' = Checks!ToSet(ran[u])
      BY DEF Checks!ToSet
    <3> QED BY <1>1, <3>1 DEF PassedSoFar
  <2>1. /\ \A u \in Actions \cup TestUnits : Checks!ToSet(ran[u]) \subseteq {"ok"}
        /\ \A j \in DOMAIN checks \ left :
             checks[j].kind # "fail" /\ LabelOk(Needed, buildCache, toolCache, ran, checks[j].of)
    BY DEF ChecksInv, VerdictInv, PassedSoFar
  <2> QED BY <2>1
<1>4. TestsRunOnce'
  <2>1. \A t : TestCheck(t)' = TestCheck(t)
    BY DEF TestCheck
  <2> QED BY <2>1 DEF TestsRunOnce, Running, ChecksInv, VerdictInv
<1>5. BuiltAsAsked'
  BY RepoDemands DEF BuiltAsAsked
<1>6. Reasons'
  <2>1. Failing' => Blame
    BY <1>1 DEF Failing, Reasons, ChecksInv, BlameInv
  <2>2. Blame => Blame'
    BY <1>1, BlameStays
  <2> QED BY <2>1, <2>2 DEF Reasons
<1> QED BY <1>1, <1>2, <1>3, <1>4, <1>5, <1>6 DEF ChecksInv, VerdictInv, BlameInv

(* A check begins: it fails at once, is answered from the cache, or is     *)
(* called.                                                                 *)
LEMMA RunCheckStep ==
  ASSUME ChecksInv, Checks!RunCheck
  PROVE  ChecksInv'
<1>1. /\ stage = "run" /\ stage' = "run" /\ stack = <<>> /\ ret = "none" /\ ~panicked
      /\ UNCHANGED <<repo, buildCache, toolCache, ran, todo, seen, work, visited, expanded, checks>>
  BY DEF Checks!RunCheck, Checks!discoverVars
<1>2. PICK i \in left :
        /\ left' = left \ {i}
        /\ CASE checks[i].kind = "fail" -> success' = FALSE /\ UNCHANGED <<stack, ret, panicked>>
             [] checks[i].kind = "build" -> Checks!Build(checks[i].of) /\ UNCHANGED success
             [] OTHER -> Checks!Call(checks[i].of) /\ UNCHANGED <<ret, panicked, success>>
  BY DEF Checks!RunCheck
<1>3. i \in DOMAIN checks /\ success \in BOOLEAN /\ panicked = FALSE
  BY <1>1 DEF ChecksInv, CollectInv, CollectTyped
<1>4. PICK l : l = checks[i].of
  OBVIOUS
<1>5. Clean <=> success
  BY <1>1 DEF Clean, Bad
<1>6. Failing => Blame
  BY DEF ChecksInv, BlameInv, Reasons
<1>7. \A j \in left \ left' : j = i
  BY <1>2
<1>8. repo \in Repos /\ ContextOk
  BY DEF ChecksInv, CollectInv, CollectTyped, ContextOk
<1>9. CASE checks[i].kind = "fail"
  <2>1. success' = FALSE /\ UNCHANGED <<stack, ret, panicked>>
    BY <1>2, <1>9
  <2>2. Blame
    BY <1>3, <1>6, <1>9 DEF Failing, HasFail
  <2>3. ~ Clean'
    BY <2>1 DEF Clean
  <2> QED BY <1>1, <1>2, <1>3, <2>1, <2>2, <2>3, NoCall
<1>10. CASE checks[i].kind = "build"
  <2>1. Checks!Build(l) /\ UNCHANGED success
    BY <1>2, <1>4, <1>10
  <2>2. l \in Checks!Demanded /\ checks[i] = [kind |-> "build", of |-> l] /\ checks[i] \in Checks!Requested
    BY <1>3, <1>4, <1>10, CheckTyped
  <2>3. CASE l \notin Checks!Buildable
    <3>1. ret' = "error" /\ UNCHANGED <<stack, panicked>>
      BY <2>1, <2>3 DEF Checks!Build
    <3>2. Blame
      <4>1. Checks!NotABuild(l)
        BY <2>2, <2>3 DEF Checks!NotABuild, Checks!Buildable
      <4> QED BY <2>2, <4>1, BrokenBlame
    <3>3. ~ Clean' /\ ret' \in Checks!Results
      BY <1>1, <3>1 DEF Clean, Bad, Checks!Results
    <3> QED BY <1>1, <1>2, <1>3, <2>1, <3>1, <3>2, <3>3, NoCall
  <2>4. CASE l \in Checks!Buildable
    <3>1. Checks!BuildWithCache(l) /\ buildCache[l] \in Checks!Results \cup {"none"}
      BY <1>8, <2>1, <2>4 DEF Checks!Build, ContextOk, ContextInv, ContextTyped
    <3>2. CASE buildCache[l] = "none"
      <4>1. Checks!Call(checks[i].of) /\ UNCHANGED <<ret, panicked>>
        BY <1>4, <3>1, <3>2 DEF Checks!BuildWithCache
      <4> QED BY <1>1, <1>2, <1>4, <1>10, <2>1, <2>4, <3>2, <4>1, CheckCalls
    <3>3. CASE buildCache[l] = "error"
      <4>1. panicked' = TRUE /\ UNCHANGED <<stack, ret>>
        BY <3>1, <3>3 DEF Checks!BuildWithCache
      <4>2. ~ Clean'
        BY <4>1 DEF Clean
      <4>3. ~success' \/ ret' \in Bad => Blame
        BY <1>6, <2>1, <4>1 DEF Failing
      <4>4. ret' \in Checks!Results \cup {"none"}
        BY <1>1, <4>1
      <4> QED BY <1>1, <1>2, <1>3, <2>1, <4>1, <4>2, <4>3, <4>4, NoCall
    <3>4. CASE buildCache[l] \in {"ok", "failed"}
      <4>1. ret' = buildCache[l] /\ UNCHANGED <<stack, panicked>>
        BY <3>1, <3>4 DEF Checks!BuildWithCache
      <4>2. Clean' => Clean /\ buildCache[l] = "ok"
        BY <1>1, <1>5, <2>1, <3>4, <4>1 DEF Clean, Bad
      <4>3. buildCache[l] = "ok" => LabelOk(Needed, buildCache, toolCache, ran, l)
        BY <1>8, <2>4 DEF LabelOk, ContextOk, ContextInv, CacheOk, Checks!Units
      <4>4. ~success' \/ ret' \in Bad => Blame
        BY <1>6, <2>1, <2>4, <4>1 DEF Failing
      <4>5. Clean' => \A j \in left \ left' : checks[j].kind # "fail"
                                              /\ LabelOk(Needed, buildCache, toolCache, ran, checks[j].of)
        BY <1>4, <1>7, <1>10, <4>2, <4>3
      <4>6. ret' \in Checks!Results \cup {"none"} /\ success' \in BOOLEAN /\ panicked' \in BOOLEAN
        BY <1>3, <2>1, <3>1, <4>1
      <4> QED BY <1>1, <1>2, <4>1, <4>2, <4>4, <4>5, <4>6, NoCall
    <3> QED BY <3>1, <3>2, <3>3, <3>4 DEF Checks!Results
  <2> QED BY <2>3, <2>4
<1>11. CASE checks[i].kind \notin {"fail", "build"}
  <2>1. Checks!Call(checks[i].of) /\ UNCHANGED <<ret, panicked, success>>
    BY <1>2, <1>11
  <2>2. checks[i].kind \in {"check", "test"} /\ checks[i].of \notin Checks!Buildable
    BY <1>3, <1>11, CheckTyped DEF Checks!Kinds
  <2> QED BY <1>1, <1>2, <1>11, <2>1, <2>2, CheckCalls
<1> QED BY <1>9, <1>10, <1>11

(* A result that is no success is a failure with a reason. *)
LEMMA CheckResultStep ==
  ASSUME ChecksInv, Checks!CheckResult
  PROVE  ChecksInv'
<1>1. /\ stage = "run" /\ stage' = "run" /\ stack = <<>> /\ ret # "none" /\ ret' = "none"
      /\ success' = (success /\ ret = "ok")
      /\ UNCHANGED <<repo, buildCache, toolCache, stack, ran, panicked, todo, seen, work, visited, expanded, checks, left>>
  BY DEF Checks!CheckResult, Checks!CheckPassed, Checks!discoverVars
<1>2. success \in BOOLEAN /\ panicked \in BOOLEAN /\ ret \in Checks!Results \cup {"none"}
  BY DEF ChecksInv, CollectInv, CollectTyped, ContextInv, ContextTyped
<1>3. success' \in BOOLEAN
  BY <1>1, <1>2
<1>4. Clean' => Clean
  BY <1>1 DEF Clean, Bad
<1>5. ~success' \/ ret' \in Bad => Blame
  <2>1. ret = "ok" \/ ret \in Bad
    BY <1>1, <1>2 DEF Bad, Checks!Results
  <2>2. ret' \notin Bad
    BY <1>1 DEF Bad
  <2>3. ~success' => ~success \/ ret \in Bad
    BY <1>1, <1>2, <2>1
  <2> QED BY <2>2, <2>3 DEF ChecksInv, BlameInv, Reasons, Failing
<1>6. left \ left' = {}
  BY <1>1
<1> QED BY <1>1, <1>2, <1>3, <1>4, <1>5, <1>6, NoCall

(* The presubmit ends when no check is left. *)
LEMMA PresubmitEndStep ==
  ASSUME ChecksInv, Checks!PresubmitEnd
  PROVE  ChecksInv'
<1>1. /\ stage = "run" /\ stage' = "done" /\ left = {} /\ stack = <<>> /\ ret = "none" /\ ~panicked
      /\ UNCHANGED <<repo, buildCache, toolCache, stack, ret, ran, panicked, todo, seen, work, visited, expanded,
                     checks, left, success>>
  BY DEF Checks!PresubmitEnd, Checks!contextVars, Checks!discoverVars
<1>2. /\ repo \in Repos /\ todo = <<>> /\ left \subseteq DOMAIN checks /\ success \in BOOLEAN /\ panicked \in BOOLEAN
      /\ Needed' = Needed /\ ContextOk
  BY <1>1, RepoNeeds DEF ChecksInv, CollectInv, CollectTyped, StagesOk, ContextOk
<1>3. CollectInv' /\ Asked' /\ HasFail(checks)' = HasFail(checks)
  BY <1>1, <1>2, CollectKept
<1>4. ContextInv(Needed, buildCache, toolCache, stack, ret, ran)'
  BY <1>1, <1>2 DEF ContextOk
<1>5. StagesOk'
  BY <1>1 DEF ChecksInv, StagesOk
<1>6. PassedSoFar'
  <2>1. \A u : Checks!ToSet(ran[u])' = Checks!ToSet(ran[u])
    BY <1>1 DEF Checks!ToSet
  <2>2. Clean' => Clean
    BY <1>1 DEF Clean
  <2>3. Clean => /\ \A u \in Actions \cup TestUnits : Checks!ToSet(ran[u]) \subseteq {"ok"}
                 /\ \A j \in DOMAIN checks \ left :
                      checks[j].kind # "fail" /\ LabelOk(Needed, buildCache, toolCache, ran, checks[j].of)
    BY <1>1 DEF ChecksInv, VerdictInv, PassedSoFar
  <2> QED BY <1>1, <1>2, <2>1, <2>2, <2>3 DEF PassedSoFar
<1>7. TestsRunOnce'
  <2>1. \A t : TestCheck(t)' = TestCheck(t)
    BY DEF TestCheck
  <2> QED BY <1>1, <2>1 DEF TestsRunOnce, Running, ChecksInv, VerdictInv
<1>8. BuiltAsAsked'
  BY <1>1, RepoDemands DEF BuiltAsAsked
<1>9. Reasons'
  <2>1. Failing' => Failing
    BY <1>1, <1>3 DEF Failing
  <2>2. Blame => Blame'
    BY <1>1, <1>2, BlameStays
  <2> QED BY <2>1, <2>2 DEF Reasons, ChecksInv, BlameInv
<1> QED BY <1>3, <1>4, <1>5, <1>6, <1>7, <1>8, <1>9 DEF ChecksInv, VerdictInv, BlameInv

(* A step of the check that is running. *)
LEMMA ContextNextStep ==
  ASSUME ChecksInv, Checks!ContextNext
  PROVE  ChecksInv'
<1>1. /\ Checks!ContextStep /\ UNCHANGED <<stage, todo, seen, work, visited, expanded, checks, left, success>>
  BY DEF Checks!ContextNext, Checks!discoverVars
<1>2. /\ repo \in Repos /\ ContextOk /\ success \in BOOLEAN
  BY DEF ChecksInv, CollectInv, CollectTyped, ContextOk
<1>3. stack # <<>> /\ repo' = repo /\ ~panicked
  BY <1>1, <1>2, ContextEffects
<1>4. stage = "run"
  BY <1>3 DEF ChecksInv, StagesOk, Fresh
<1>5. panicked' \in BOOLEAN
  <2>1. panicked \in BOOLEAN
    BY DEF ChecksInv, CollectInv, CollectTyped
  <2>2. panicked' = TRUE \/ panicked' = panicked
    BY <1>1, <1>2, ContextEffects DEF Calls, Answers, Advances, Returns, Panics
  <2> QED BY <2>1, <2>2
<1>6. CollectInv' /\ Asked' /\ StagesOk'
  BY <1>1, <1>2, <1>3, <1>4, <1>5, RunKept
<1>7. ContextInv(Needed, buildCache, toolCache, stack, ret, ran)'
  BY <1>1, <1>2, ContextStepOk DEF ContextOk
<1>8. PassedSoFar' /\ TestsRunOnce'
  BY <1>1, <1>2, ContextPassed, ContextTests DEF ChecksInv, VerdictInv
<1>9. BuiltAsAsked' /\ Reasons'
  BY <1>1, <1>2, ContextBlame DEF ChecksInv, BlameInv
<1> QED BY <1>6, <1>7, <1>8, <1>9 DEF ChecksInv, VerdictInv, BlameInv

-----------------------------------------------------------------------------
(* The invariant, and what it says of the verdict.                         *)

(* A presubmit begins with nothing collected and nothing run. *)
LEMMA ChecksInitOk ==
  ASSUME Checks!Init
  PROVE  ChecksInv
<1>1. /\ repo \in Repos /\ stage = "analyze" /\ todo = <<>> /\ seen = {} /\ work = <<>> /\ visited = {}
      /\ expanded = <<>> /\ checks = <<>> /\ left = {} /\ success = TRUE
      /\ buildCache = [u \in Checks!Buildable |-> "none"] /\ toolCache = {} /\ stack = <<>> /\ ret = "none"
      /\ ran = [u \in Checks!Units |-> <<>>] /\ panicked = FALSE
  BY DEF Checks!Init, Checks!NewContext
<1>2. /\ \A u \in Checks!Buildable : buildCache[u] = "none"
      /\ \A u \in Checks!Units : ran[u] = <<>>
  BY <1>1
<1>3. Len(<<>>) = 0
  OBVIOUS
<1>4. Fresh
  BY <1>1, <1>2 DEF Fresh
<1>5. ContextInv(Needed, buildCache, toolCache, stack, ret, ran)
  <2>1. ContextTyped(buildCache, toolCache, stack, ret, ran)
    <3>1. <<>> \in Seq(Frame) /\ <<>> \in Seq(Checks!Results \cup {"panic"})
      OBVIOUS
    <3> QED BY <1>1, <3>1 DEF ContextTyped
  <2>2. StackOk(Needed, buildCache, toolCache, stack) /\ RetOk(Needed, buildCache, toolCache, stack, ret)
    BY <1>1 DEF StackOk, RetOk
  <2>3. CacheOk(Needed, buildCache, toolCache, ran)
    BY <1>1, <1>2, <1>3 DEF CacheOk, Checks!Units
  <2> QED BY <2>1, <2>2, <2>3 DEF ContextInv
<1>6. StagesOk
  BY <1>1, <1>4 DEF StagesOk
<1>7. CollectInv
  <2>1. <<>> \in Seq(Checks!Requests) /\ <<>> \in Seq(Checks!Labels) /\ <<>> \in Seq(Tests) /\ <<>> \in Seq(CheckRecords)
    OBVIOUS
  <2>2. CollectTyped
    <3>1. success \in BOOLEAN /\ panicked \in BOOLEAN
      BY <1>1, Zenon
    <3>2. left \subseteq DOMAIN checks /\ \A i \in DOMAIN checks : FALSE
      <4>1. DOMAIN <<>> = {}
        OBVIOUS
      <4> QED BY <1>1, <4>1
    <3>3. /\ todo \in Seq(Checks!Requests) /\ work \in Seq(Checks!Labels) /\ expanded \in Seq(Tests)
          /\ checks \in Seq(CheckRecords)
      BY <1>1, <2>1, Zenon
    <3> QED BY <1>1, <3>1, <3>2, <3>3 DEF CollectTyped
  <2> QED BY <1>1, <2>2 DEF CollectInv, TestsOnce, SeenCovered, ExpandedVisited, RequestsDealt
<1>8. VerdictInv
  BY <1>1, <1>2, <1>3 DEF VerdictInv, PassedSoFar, TestsRunOnce, Running, Checks!Units
<1>9. BlameInv
  <2>1. Checks!ToSet(work) = {}
    BY <1>1 DEF Checks!ToSet
  <2>2. ~ Failing
    BY <1>1, <1>2 DEF Failing, HasFail, Bad
  <2> QED BY <1>1, <2>1, <2>2 DEF BlameInv, Asked, BuiltAsAsked, Reasons
<1> QED BY <1>5, <1>6, <1>7, <1>8, <1>9 DEF ChecksInv

(* Every step of a presubmit keeps the invariant. *)
LEMMA ChecksNextOk ==
  ASSUME ChecksInv, Checks!Next
  PROVE  ChecksInv'
BY AnalyzeStep, AnalyzeFailsStep, DiscoverCheckStep, DiscoverBuildStep, DiscoverTestStep, ExpandStartStep,
   VisitStep, ExpandFailsStep, AddTestStep, ExpandEndsStep, SortChecksStep, RunCheckStep, CheckResultStep,
   PresubmitEndStep, ContextNextStep
   DEF Checks!Next

(* And so does a step of anything else. *)
LEMMA ChecksStutter ==
  ASSUME ChecksInv, UNCHANGED checksVars
  PROVE  ChecksInv'
<1>1. UNCHANGED <<repo, buildCache, toolCache, stack, ret, ran, panicked, stage, todo, seen, work, visited, expanded,
                  checks, left, success>>
  BY DEF checksVars
<1>2. repo \in Repos /\ Needed' = Needed /\ ContextOk
  BY <1>1, RepoNeeds DEF ChecksInv, CollectInv, CollectTyped, ContextOk
<1>3. ContextInv(Needed, buildCache, toolCache, stack, ret, ran)'
  BY <1>1, <1>2 DEF ContextOk
<1>4. StagesOk'
  BY <1>1 DEF ChecksInv, StagesOk, Fresh
<1>5. /\ HasFail(checks)' = HasFail(checks) /\ Covered(checks)' = Covered(checks)
      /\ Checks!Requested' = Checks!Requested /\ Checks!Demanded' = Checks!Demanded
      /\ \A s : Checks!ToSet(s)' = Checks!ToSet(s) /\ TestCheck(s)' = TestCheck(s)
  BY <1>1, RepoDemands DEF HasFail, Covered, Supported, HasCheck, Checks!ToSet, TestCheck
<1>6. CollectInv'
  <2>1. CollectTyped'
    BY <1>1 DEF ChecksInv, CollectInv, CollectTyped
  <2>2. TestsOnce(checks, expanded, work)'
    BY <1>1, <1>5 DEF ChecksInv, CollectInv, TestsOnce
  <2>3. SeenCovered' /\ ExpandedVisited'
    BY <1>1, <1>5 DEF ChecksInv, CollectInv, SeenCovered, ExpandedVisited
  <2>4. RequestsDealt'
    BY <1>1, <1>5 DEF ChecksInv, CollectInv, RequestsDealt, Dealt, Checks!Applicable
  <2> QED BY <2>1, <2>2, <2>3, <2>4 DEF CollectInv
<1>7. VerdictInv'
  BY <1>1, <1>2, <1>5 DEF ChecksInv, VerdictInv, PassedSoFar, TestsRunOnce, Running, Clean
<1>8. BlameInv'
  <2>1. Asked' /\ BuiltAsAsked'
    BY <1>1, <1>5 DEF ChecksInv, BlameInv, Asked, BuiltAsAsked
  <2>2. Blame => Blame'
    BY <1>1, <1>2, BlameStays
  <2>3. Failing' => Failing
    BY <1>1, <1>5 DEF Failing
  <2> QED BY <2>1, <2>2, <2>3 DEF ChecksInv, BlameInv, Reasons
<1> QED BY <1>3, <1>4, <1>6, <1>7, <1>8 DEF ChecksInv

(* A presubmit that has ended with success has run all that was asked for: *)
(* what has a check has been run with success, and so has what that needs, *)
(* so that these labels and the suites that lead to them are closed.       *)
LEMMA SuccessSound ==
  ASSUME ChecksInv
  PROVE  Checks!VerdictSound
<1> SUFFICES ASSUME stage = "done", success
             PROVE  \A l \in Checks!Demanded :
                      /\ l # BadLabel /\ ~ Checks!Unregistered(l)
                      /\ l \in Checks!Units \ BuildTestUnits => Checks!Passed(l)
  BY DEF Checks!VerdictSound
<1> DEFINE Good(l) == LabelOk(Needed, buildCache, toolCache, ran, l)
<1>1. /\ repo \in Repos /\ ContextOk /\ left = {} /\ stack = <<>> /\ ret = "none" /\ ~panicked /\ todo = <<>>
      /\ NeedsOk(Needed)
  BY NeededOk DEF ChecksInv, CollectInv, CollectTyped, StagesOk, ContextOk
<1>2. \A i \in DOMAIN checks : checks[i].kind # "fail" /\ Good(checks[i].of)
  <2>1. Clean
    BY <1>1 DEF Clean, Bad
  <2> QED BY <1>1, <2>1 DEF ChecksInv, VerdictInv, PassedSoFar
<1>3. ~ HasFail(checks)
  BY <1>2 DEF HasFail
<1>4. seen \subseteq Covered(checks)
  BY <1>3 DEF ChecksInv, CollectInv, SeenCovered
<1>5. \A q \in Checks!Requested : Dealt(q)
  BY <1>1, <1>3 DEF ChecksInv, CollectInv, RequestsDealt
<1>6. ASSUME NEW l, HasCheck(checks, l)
      PROVE  l \in BuildOrTest /\ Good(l)
  <2>1. PICK i \in DOMAIN checks : checks[i].kind \in {"build", "test"} /\ checks[i].of = l
    BY <1>6 DEF HasCheck
  <2>2. l \in BuildOrTest
    BY <2>1 DEF ChecksInv, CollectInv, CollectTyped, BuildOrTest, Tests
  <2> QED BY <1>2, <2>1, <2>2
<1>7. ASSUME NEW l, Good(l), NEW m \in Checks!Below(l)
      PROVE  Good(m) /\ m \in Checks!Buildable
  <2>1. l \in Checks!Units /\ AllMet(Needed, buildCache, toolCache, l)
    BY <1>7 DEF LabelOk
  <2>2. PICK k \in DOMAIN Needed[l] : m = Needed[l][k].unit
    BY <1>1, <2>1, BelowUnit
  <2>3. m \in Checks!Buildable /\ buildCache[m] = "ok"
    BY <1>1, <2>1, <2>2, NeedTyped DEF AllMet, Met
  <2>4. Good(m)
    BY <1>1, <2>3 DEF LabelOk, ContextOk, ContextInv, CacheOk, Checks!Units
  <2> QED BY <2>3, <2>4
<1> HIDE DEF Good
<1> DEFINE D == {l \in Checks!Labels : l \in Covered(checks) \/ (Good(l) /\ ~ Checks!Unregistered(l))}
<1>8. Checks!Roots \subseteq D
  <2> SUFFICES ASSUME NEW q \in Checks!Requested,
                      IF q.kind = "check" THEN ~repo.tool[q.of].registered \/ Checks!Applicable(q.of) ELSE ~repo.fixOnly
               PROVE  q.of \in D
    BY DEF Checks!Roots
  <2>1. Dealt(q) /\ q.of \in Checks!Labels
    BY <1>1, <1>5, RequestedTyped, RequestsTyped
  <2>2. CASE q.kind = "check"
    <3>1. repo.tool[q.of].registered /\ \E i \in DOMAIN checks : checks[i] = q
      BY <2>1, <2>2 DEF Dealt
    <3>2. Good(q.of) /\ ~ Checks!Unregistered(q.of)
      BY <1>2, <3>1 DEF Checks!Unregistered
    <3> QED BY <2>1, <3>2
  <2>3. CASE q.kind # "check"
    BY <1>4, <2>1, <2>3 DEF Dealt
  <2> QED BY <2>2, <2>3
<1>9. ASSUME NEW l \in D, NEW m \in Checks!Below(l)
      PROVE  m \in D
  <2>1. m \in Checks!Labels
    BY <1>1, BelowTyped
  <2>2. CASE Good(l)
    <3>1. Good(m) /\ m \in Checks!Buildable
      BY <1>7, <2>2
    <3>2. ~ Checks!Unregistered(m)
      BY <3>1, Apart DEF Checks!Unregistered, Checks!Buildable
    <3> QED BY <2>1, <3>1, <3>2
  <2>3. CASE ~ Good(l)
    <3>1. l \in Suites /\ Checks!ToSet(repo.suite[l]) \subseteq Covered(checks)
      BY <1>6, <2>3, CoveredTyped
    <3>2. Checks!Below(l) = Checks!ToSet(repo.suite[l])
      BY <1>1, <3>1, BelowSuite
    <3> QED BY <2>1, <3>1, <3>2
  <2> QED BY <2>2, <2>3
<1>10. Checks!Demanded \subseteq D
  BY <1>8, <1>9, DemandedLeast
<1>11. ASSUME NEW l \in D
       PROVE  /\ l # BadLabel /\ ~ Checks!Unregistered(l)
              /\ l \in Checks!Units \ BuildTestUnits => Checks!Passed(l)
  <2>1. CASE Good(l) /\ ~ Checks!Unregistered(l)
    <3>1. l \in Checks!Units /\ (l \notin BuildTestUnits => AllOk(ran[l]))
      BY <2>1 DEF Good, LabelOk
    <3>2. l # BadLabel
      BY <3>1, Apart DEF Checks!Units, Checks!Buildable
    <3> QED BY <2>1, <3>1, <3>2 DEF AllOk, Checks!Passed
  <2>2. CASE HasCheck(checks, l)
    <3>1. l \in BuildOrTest /\ Good(l)
      BY <1>6, <2>2
    <3>2. l # BadLabel /\ ~ Checks!Unregistered(l)
      BY <3>1, Apart DEF Checks!Unregistered, BuildOrTest
    <3>3. l \notin BuildTestUnits => AllOk(ran[l])
      BY <3>1 DEF Good, LabelOk
    <3> QED BY <3>2, <3>3 DEF AllOk, Checks!Passed
  <2>3. CASE l \in Suites
    BY <2>3, Apart DEF Checks!Unregistered, Checks!Units, Checks!Buildable
  <2> QED BY <2>1, <2>2, <2>3, CoveredTyped
<1> QED BY <1>10, <1>11

(* The invariant gives the three parts of VerdictRight. *)
LEMMA ChecksVerdict ==
  ASSUME ChecksInv
  PROVE  Checks!VerdictSound /\ Checks!NoFalseAlarm /\ Checks!OnceEach
<1>1. Checks!NoFalseAlarm
  BY DEF Checks!NoFalseAlarm, ChecksInv, BlameInv, Reasons, Failing, Blame
<1>2. Checks!OnceEach
  <2>1. \A u \in Checks!Buildable : Len(ran[u]) <= 1
    BY DEF ChecksInv, ContextInv, CacheOk
  <2>2. \A u \in TestUnits : Len(ran[u]) <= 1
    BY DEF ChecksInv, VerdictInv, TestsRunOnce
  <2>3. \A u \in BuildTestUnits : Len(ran[u]) <= 1
    <3>1. Len(<<>>) <= 1
      OBVIOUS
    <3> QED BY <3>1 DEF ChecksInv, ContextInv, CacheOk
  <2> QED BY <2>1, <2>2, <2>3 DEF Checks!OnceEach, Checks!Units
<1> QED BY <1>1, <1>2, SuccessSound

(***************************************************************************)
(* For every repository, every change and every outcome of the commands, a *)
(* presubmit that succeeds has run, and seen pass, all that the change     *)
(* asks for; one that fails has a reason within it; and no unit is built   *)
(* and no test run twice (triggeredSet.run, expandTestSuite,               *)
(* buildWithCache).                                                        *)
(***************************************************************************)
THEOREM VerdictRightCorrect == PresubmitSpec => []VerdictRight
<1> DEFINE Inv == which \in {"search", "checks"} /\ (which = "checks" => ChecksInv)
<1>1. SearchInit \/ ChecksInit => Inv
  BY ChecksInitOk DEF SearchInit, ChecksInit
<1>2. Inv /\ [PresubmitNext]_allVars => Inv'
  <2> SUFFICES ASSUME Inv, [PresubmitNext]_allVars PROVE Inv'
    OBVIOUS
  <2>1. CASE ChecksStep
    BY <2>1, ChecksNextOk DEF ChecksStep
  <2>2. CASE which = "search" /\ which' = which
    BY <2>2
  <2>3. CASE UNCHANGED allVars
    <3>1. UNCHANGED checksVars /\ which' = which
      BY <2>3 DEF allVars
    <3> QED BY <3>1, ChecksStutter
  <2>4. ASSUME \/ \E i \in Inputs : Walk(i)
               \/ LoadAll \/ Answered
               \/ \E p \in Paths : LoadOne(p)
        PROVE  which = "search" /\ which' = which
    BY <2>4 DEF Walk, LoadAll, LoadOne, Answered, OfSearch
  <2> QED BY <2>1, <2>2, <2>3, <2>4 DEF PresubmitNext
<1>3. Inv => VerdictRight
  BY ChecksVerdict DEF VerdictRight
<1> HIDE DEF Inv
<1>4. PresubmitSpec => (SearchInit \/ ChecksInit) /\ [][PresubmitNext]_allVars
  BY PTL DEF PresubmitSpec
<1> QED BY <1>1, <1>2, <1>3, <1>4, PTL
=============================================================================
