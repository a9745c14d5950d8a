------------------------------ MODULE MCTools ------------------------------
(***************************************************************************)
(* The tools beside the CI system, side by side: a behaviour is one of     *)
(* them at work, or one input of a pure algorithm.  The variables s1 ...   *)
(* s11 are those of the tool at work; which names it.                      *)
(***************************************************************************)
EXTENDS P4Client, P4Output, TextDiff, FilePairs, EbertPages, SideBySide

CONSTANTS
    Authors, Ci, DepotFiles, MaxRev, MaxCl,              \* P4Workspace
    SearchDepots, Limit, Terms, MaxSearches, MaxErrors,  \* Poogle
    MaxChange, MaxSessions, Submitters, Excluded,        \* Perculator
    PageSize, BatchSize, Changelists, MaxItems,          \* SwarmApi
    UserCls, ShownFiles, Checks, MaxPresubmits,          \* Gigantick
    Names, Kinds, MaxRuns, MaxEdits,                     \* VendorBender
    Outputs, MaxSaid, MaxCommands,                       \* Log
    Programs, MaxVersion, MaxInstallFaults,              \* EnvInstall
    Links, Apps, AppOf, Exes, OthersSlots, MaxLinkFaults \* Urika

VARIABLES which, input, s1, s2, s3, s4, s5, s6, s7, s8, s9, s10, s11
vars == <<which, input, s1, s2, s3, s4, s5, s6, s7, s8, s9, s10, s11>>

-----------------------------------------------------------------------------
(* The tools. *)

Workspace == INSTANCE P4Workspace WITH
    Files <- DepotFiles,
    head <- s1, have <- s2, opened <- s3, edited <- s4, owner <- s5, shelf <- s6, ci <- s7, unshelved <- s8

Search == INSTANCE Poogle WITH
    Depots <- SearchDepots,
    depot <- s1, ui <- s2, uris <- s3, bg <- s4, chunks <- s5, greps <- s6, sends <- s7

Statistics == INSTANCE Perculator WITH
    MaxCl <- MaxChange, Writers <- Submitters,
    author <- s1, changesFile <- s2, detailsFile <- s3, session <- s4, ctx <- s5, usersChan <- s6,
    changesChan <- s7, detailsChan <- s8, fetching <- s9, jobs <- s10, saver <- s11

Client == INSTANCE SwarmApi WITH
    Changes <- Changelists,
    items <- s1, search <- s2, stable <- s3, ever <- s4, request <- s5

Window == INSTANCE Gigantick WITH
    Cls <- UserCls, Files <- ShownFiles, MaxRuns <- MaxPresubmits,
    submitted <- s1, fetch <- s2, window <- s3, allChanges <- s4, obj <- s5, data <- s6, alive <- s7
\* Presubmits, what comes from Swarm, the session and the files share only the window: one at a time.
OneAtATime ==
    LET sgep == \E c \in DOMAIN s5 : \E s \in DOMAIN s5[c] : s5[c][s].run > 0
        swarm == "swarm" \in s3.done
        session == s2.pc["info"] # "run" \/ s2.pc["users"] # "run"
        files == \E k \in DOMAIN s6 : \E f \in DOMAIN s6[k] : s6[k][f] # "none"
    IN  Cardinality({i \in 1 .. 4 : <<sgep, swarm, session, files>>[i]}) <= 1

Vendoring == INSTANCE VendorBender WITH
    manifest <- s1, disk <- s2, declared <- s3, opened <- s4, plan <- s5, step <- s6, synced <- s7,
    outcome <- s8, runs <- s9, edits <- s10

Logger == INSTANCE Log WITH
    Texts <- Outputs,
    sinks <- s1, main <- s2, writer <- s3, entries <- s4, out <- s5, said <- s6, shown <- s7

Installer == INSTANCE EnvInstall WITH
    MaxFaults <- MaxInstallFaults,
    head <- s1, data <- s2, present <- s3, marker <- s4, prog <- s5, ignored <- s6, faults <- s7

Linking == INSTANCE Urika WITH
    MaxFaults <- MaxLinkFaults,
    allow <- s1, holders <- s2, urika <- s3, instance <- s4, port <- s5, handled <- s6, faults <- s7
\* The registry and the applications share nothing: they start once the registry is dealt with.
InstalledFirst ==
    (\E i \in DOMAIN s4 : s4[i].pc # "none") =>
        \A l \in {x \in DOMAIN s3 : s3[x].pc # "none"} :
            s3[l].pc \in {"send", "launch", "end", "dead"} /\ s3[l].admin
            /\ s3[l].exe = CHOOSE e \in Exes : TRUE

-----------------------------------------------------------------------------
ASSUME WorkspaceAssumption == Workspace!WorkspaceConstants
ASSUME InstallAssumption == Installer!InstallConstants
ASSUME ClientAssumption == Client!ClientConstants
ASSUME WindowAssumption == Window!WindowConstants
ASSUME UrikaAssumption == Linking!UrikaConstants

(* Values of the constants that a configuration cannot write. *)

\* A root with the directories a, a/aa and b; the depot "//" has no files of its own.
Tree(root, inRoot, inA, inB, inAA, bytes) ==
    LET count == [x \in {root, "a", "b", "aa"} |->
                    CASE x = "a" -> inA [] x = "b" -> inB [] x = "aa" -> inAA [] OTHER -> inRoot]
    IN  [root |-> root, parent |-> [x \in DOMAIN count |-> IF x = "aa" THEN "a" ELSE root],
         count |-> count, bytes |-> [x \in DOMAIN count |-> bytes * count[x]]]
MCDepots == {Tree("r", 1, 2, 1, 2, 1), Tree("//", 0, 1, 1, 1, 2), Tree("r", 1, 0, 0, 1, 1), Tree("r", 4, 1, 0, 1, 1)}
\* Lines that are empty, that end in a return, and that are not complete.
MCOutputs == {<<"a", "newline", "b", "return", "newline">>, <<"newline", "a">>}
MCAppOf == [l \in Links |-> "gigantick"]

-----------------------------------------------------------------------------

Idle == [kind |-> "none"]
Unused == 0
Init ==
    /\ input = Idle
    /\ \/ /\ which = "workspace" /\ Workspace!Init /\ s9 = Unused /\ s10 = Unused /\ s11 = Unused
       \/ /\ which = "search" /\ Search!Init /\ s8 = Unused /\ s9 = Unused /\ s10 = Unused /\ s11 = Unused
       \/ which = "statistics" /\ Statistics!Init
       \/ /\ which = "client" /\ Client!Init
          /\ s6 = Unused /\ s7 = Unused /\ s8 = Unused /\ s9 = Unused /\ s10 = Unused /\ s11 = Unused
       \/ /\ which = "window" /\ Window!Init /\ s8 = Unused /\ s9 = Unused /\ s10 = Unused /\ s11 = Unused
       \/ /\ which = "log" /\ Logger!Init /\ s8 = Unused /\ s9 = Unused /\ s10 = Unused /\ s11 = Unused
       \/ /\ which = "install" /\ Installer!Init /\ s8 = Unused /\ s9 = Unused /\ s10 = Unused /\ s11 = Unused
       \/ /\ which = "links" /\ Linking!Init /\ s8 = Unused /\ s9 = Unused /\ s10 = Unused /\ s11 = Unused
       \/ which = "vendoring" /\ Vendoring!Init /\ s11 = Unused
       \/ /\ which = "algorithm"
          /\ s1 = Unused /\ s2 = Unused /\ s3 = Unused /\ s4 = Unused /\ s5 = Unused /\ s6 = Unused
          /\ s7 = Unused /\ s8 = Unused /\ s9 = Unused /\ s10 = Unused /\ s11 = Unused

-----------------------------------------------------------------------------
(* The inputs of the algorithms. *)

Texts == BoundedSeq({"a", "b"}, 4) \cup BoundedSeq({"a", "b", "c"}, 3)
PickTexts == \E from, to \in Texts : input' = [kind |-> "diff", from |-> from, to |-> to]

(* Two paths, in the depot or not, and what a change can do to them: revision 3 of a file that
   is in the depot was synced, a submitted change reports the revision it made. *)
Paths == {"p", "q"}
Depots == [Paths -> {Absent, "d0"}]
Actions(path, depot, rev) ==
    IF depot[path] = Absent THEN [action : {"add"}, digest : {"d1", "d2"}, from : {NoFile}, rev : {1}]
    ELSE [action : {"edit"}, digest : {"d1", "d2"}, from : {NoFile}, rev : {rev}]
            \cup [action : {"delete"}, digest : {""}, from : {NoFile}, rev : {rev}]
Move(depot, rev) ==
    IF depot["p"] = Absent \/ depot["q"] # Absent THEN {}
    ELSE {[x \in Paths |-> IF x = "p"
              THEN [action |-> "move/delete", digest |-> "", from |-> NoFile, rev |-> rev]
              ELSE [action |-> "move/add", digest |-> d, from |-> "p", rev |-> 3]] : d \in {"d0", "d1"}}
Changes(depot, rev) ==
    Move(depot, rev) \cup
    UNION {{f \in [D -> UNION {Actions(x, depot, rev) : x \in D}] :
               \A x \in D : f[x] \in Actions(x, depot, rev)} : D \in SUBSET Paths}
PickChanges ==
    \E depot \in Depots, pending \in BOOLEAN :
       \E base \in Changes(depot, 3), curr \in Changes(depot, IF pending THEN 3 ELSE 4) :
          input' = [kind |-> "pairs", depot |-> depot, pending |-> pending, base |-> base, curr |-> curr]

Values(f) ==
    CASE f = "View:" -> {<<<<"//depot", "//c">>>>, <<<<"//depot", "//c">>, <<"-//x", "//c/x">>>>}
      [] f = "Description:" -> {<<>>, <<<<"some", "text">>>>}
      [] f = "AltRoots:" -> {<<>>, <<"r1", "r2">>}
      [] f \in {"Host:", "Stream:"} -> {<<>>, <<"v">>}
      [] f = "SubmitOptions:" -> {<<"submitunchanged">>}
      [] f = "Options:" -> {<<>>}
      [] f = "ChangeView:" -> {<<>>}
      [] f \in Mandatory -> {<<"v">>}
      [] OTHER -> {<<>>}
Words == {"clobber", "noclobber", "locked", "unlocked"}
PickClient ==
    \E host \in Values("Host:"), stream \in Values("Stream:"), view \in Values("View:"),
       desc \in Values("Description:"), roots \in Values("AltRoots:"),
       words \in BoundedSeq(Words, 3) \ {<<>>} :
        input' = [kind |-> "client", words |-> words,
                  client |-> [f \in DOMAIN EmptyClient |->
                     CASE f = "Host:" -> host [] f = "Stream:" -> stream [] f = "View:" -> view
                       [] f = "Description:" -> desc [] f = "AltRoots:" -> roots
                       [] f = "Options:" -> addOptions(<<>>, words)
                       [] OTHER -> CHOOSE v \in Values(f) : TRUE]]

Tabbed(t) == [text |-> t, tab |-> TRUE]
Plain(t) == [text |-> t, tab |-> FALSE]
Tabs(n) == [i \in 1 .. n |-> Tabbed("old")]
PickChange ==
    \E before, old, after, new \in 0 .. 2 :
        input' = [kind |-> "change",
                  desc |-> [i \in 1 .. new |-> Tabbed("new")],
                  head |-> <<Plain("Change:")>> \o Tabs(before) \o <<Plain("Description:")>>,
                  old |-> Tabs(old),
                  rest |-> <<Plain(""), Plain("Files:")>> \o Tabs(after)]

Lit(t) == <<"lit", t>>
Par(n) == <<"par", n>>
RestPatterns ==
    <<<<Lit("ebert"), Lit("comments"), Par("rid")>>,
      <<Lit("ebert"), Lit("comments"), Par("rid"), Par("cid")>>,
      <<Lit("ebert"), Lit("comments"), Lit("read"), Par("cid")>>,
      <<Lit("ebert"), Lit("diff")>>,
      <<Lit("file"), Par("path")>>>>
Routed == {<<<<"ebert", "comments", "7">>, 1>>, <<<<"ebert", "comments", "7", "8">>, 2>>,
           <<<<"ebert", "comments", "read", "8">>, 3>>, <<<<"ebert", "diff">>, 4>>,
           <<<<"ebert", "diffs">>, 4>>, <<<<"file", "a", "b">>, 5>>, <<<<"file", "">>, 5>>}
\* The routes are added in the order of a Go map, that is, any.
PickRoutes ==
    \E order \in SetToSeqs(1 .. Len(RestPatterns)), x \in Routed :
        input' = [kind |-> "routes", order |-> order, path |-> x[1], route |-> x[2]]
Shapes == UNION {[1 .. n -> {Lit("a"), Par("p")}] : n \in 1 .. 3}
PickPatterns == \E p, q, r \in Shapes : input' = [kind |-> "patterns", added |-> <<p, q, r>>]

Ages == {1, 10, 40}
PickDashboard ==
    \E pending \in BOOLEAN, chAge \in Ages,
       r1, r2 \in [committed : BOOLEAN, archived : BOOLEAN, age : Ages, changes : SUBSET {1}] :
        input' = [kind |-> "dashboard",
                  changes |-> {[cl |-> 1, pending |-> pending, age |-> chAge]},
                  reviews |-> {[id |-> x[1], committed |-> x[2].committed, archived |-> x[2].archived,
                                age |-> x[2].age, changes |-> x[2].changes] : x \in {<<1, r1>>, <<2, r2>>}}]

\* Differences as p4 diff2 prints them: after gap equal lines, dels lines for adds others.
Hunks == [gap : 1 .. 3, dels : 0 .. 2, adds : 0 .. 2] \ [gap : 1 .. 3, dels : {0}, adds : {0}]
DiffLine(l, r, h) ==
    LET l1 == l + h.gap + h.dels
        r1 == r + h.gap + h.adds
        closing(from, to) == IF to > from THEN to ELSE 0
    IN  IF h.dels = 0 THEN <<l1, 0, "a", r + h.gap + 1, closing(r + h.gap + 1, r1)>>
        ELSE IF h.adds = 0 THEN <<l + h.gap + 1, closing(l + h.gap + 1, l1), "d", r1, 0>>
        ELSE <<l + h.gap + 1, closing(l + h.gap + 1, l1), "c", r + h.gap + 1, closing(r + h.gap + 1, r1)>>
PickHunks ==
    \E h1, h2 \in Hunks, comment \in 1 .. 6 :
        input' = [kind |-> "columns", comment |-> comment,
                  diff2 |-> <<DiffLine(0, 0, h1), <<>>,
                              DiffLine(h1.gap + h1.dels, h1.gap + h1.adds, h2), <<>>>>]

\* The records of p4 describe and p4 fstat, whose keys come in any order.
Records ==
    <<<<Description, {<<<<"change", NoIndex>>, "7">>, <<<<"desc", NoIndex>>, "words">>, <<<<"depotFile", 0>>, "f">>,
                      <<<<"depotFile", 1>>, "g">>, <<<<"rev", 0>>, "1">>, <<<<"rev", 1>>, NotANumber>>}>>,
      <<FileStat, {<<<<"otherOpen", NoIndex>>, "2">>, <<<<"otherOpen", 0>>, "u">>, <<<<"otherOpen", 1>>, "v">>,
                   <<<<"otherLock", 0>>, "">>, <<<<"otherChange", 1>>, "5">>, <<<<"unknown", 0>>, "x">>}>>>>
PickRecord ==
    \E i \in DOMAIN Records : \E pairs \in SUBSET Records[i][2] :
        /\ Cardinality(pairs) <= 4
        /\ \E order \in SetToSeqs(pairs) : input' = [kind |-> "record", type |-> Records[i][1], pairs |-> order]

\* What p4 opened prints for a file, and other lines; the lengths of the paths of a directory.
OpenFiles == [path : {"f", "g"}, action : {"edit", "move/add", "import"}, cl : {"0", "7"}, type : {"text", "text+x"}]
Printed(f) == <<f.path, f.action>> \o (IF f.cl = "0" THEN <<"default", "change">> ELSE <<"change", f.cl>>) \o <<f.type>>
PickOpened ==
    \E a, b \in OpenFiles, noise \in 0 .. 2 :
        input' = [kind |-> "opened", files |-> <<a, b>>,
                  lines |-> InsertAt(<<Printed(a), Printed(b)>>, noise + 1, <<"error">>)]
PickTree == \E files \in BoundedSeq(1 .. 4, 4) : input' = [kind |-> "tree", files |-> files]

PickBugs ==
    \E l, m \in [tag : {"BUG", "FIX", ""}, items : {<<1>>, <<2, 1>>, <<2, NoBug>>}],
       bugs, fixes \in {<<>>, <<1>>, <<3, 2>>} :
        input' = [kind |-> "bugs", lines |-> <<l, m>>, aux |-> [bugs |-> bugs, fixes |-> fixes]]

PickFormat == PickClient \/ PickChange \/ PickRecord \/ PickOpened \/ PickTree
PickDiff == PickTexts \/ PickChanges \/ PickHunks
PickPage == PickRoutes \/ PickPatterns \/ PickDashboard \/ PickBugs

WorkspaceStep == which = "workspace" /\ Workspace!Next /\ UNCHANGED <<which, input, s9, s10, s11>>
SearchStep == which = "search" /\ Search!Next /\ UNCHANGED <<which, input, s8, s9, s10, s11>>
StatisticsStep == which = "statistics" /\ Statistics!Next /\ UNCHANGED <<which, input>>
ClientStep == which = "client" /\ Client!Next /\ UNCHANGED <<which, input, s6, s7, s8, s9, s10, s11>>
WindowStep == which = "window" /\ Window!Next /\ OneAtATime' /\ UNCHANGED <<which, input, s8, s9, s10, s11>>
VendoringStep == which = "vendoring" /\ Vendoring!Next /\ UNCHANGED <<which, input, s11>>
LoggerStep == which = "log" /\ Logger!Next /\ UNCHANGED <<which, input, s8, s9, s10, s11>>
InstallerStep == which = "install" /\ Installer!Next /\ UNCHANGED <<which, input, s8, s9, s10, s11>>
LinkingStep == which = "links" /\ Linking!Next /\ InstalledFirst' /\ UNCHANGED <<which, input, s8, s9, s10, s11>>
Pick ==
    /\ which = "algorithm" /\ input = Idle /\ (PickFormat \/ PickDiff \/ PickPage)
    /\ UNCHANGED <<which, s1, s2, s3, s4, s5, s6, s7, s8, s9, s10, s11>>
Next ==
    \/ WorkspaceStep \/ SearchStep \/ StatisticsStep \/ ClientStep \/ WindowStep \/ VendoringStep
    \/ LoggerStep \/ InstallerStep \/ LinkingStep \/ Pick
Spec == Init /\ [][Next]_vars

-----------------------------------------------------------------------------
(* diff.Compute: the lines marked "=" and "-" are the old text, those marked "=" and "+" the new
   one, and as many lines are kept as a longest common subsequence has. *)
DiffMinimal ==
    input.kind = "diff" => IsMinimalDiff(input.from, input.to, Compute(input.from, input.to))

(* getFilePairs shows, for every path whose contents differ between the two versions, what it
   was and what it became, and no other path.  Left out are the paths whose edit or deletion
   the later version takes back, for which the code shows the depot revision. *)
PairsShowChange ==
    input.kind = "pairs" =>
        LET pairs == getFilePairs(input.base, input.curr, input.pending)
        IN  \A p \in Paths \ (Reverted(input.base, input.curr) \cup Restored(input.base, input.curr)) :
                ShowsChange(p, pairs, input.base, input.curr, input.depot)

(* ClientSet followed by Client gives the client back, but for the description and the change
   view, which are not written; of an option and its inverse the last one given is kept. *)
SpecRoundTrip ==
    input.kind = "client" =>
        LET c == input.client
            read == parseClient(String(c))
            last(o) == SelectLastInSeq(input.words, LAMBDA w : w \in {o, clientOptionInverse[o]})
        IN  /\ read.ok
            /\ read.client = [c EXCEPT !["Description:"] = <<>>]
            /\ Range(c["Options:"]) = {o \in Words : last(o) # 0 /\ input.words[last(o)] = o}
            /\ IsInjective(c["Options:"])

(* ChangeUpdate replaces the description and leaves every other line of the change as it was. *)
ChangeUpdateKeeps ==
    input.kind = "change" =>
        ChangeUpdate(input.head \o input.old \o input.rest, input.desc)
            = input.head \o input.desc \o input.rest

(* Mux: in whatever order the handlers are added, the routes are in the order mux.go documents, and
   a request of the front end reaches its handler, which gets the segments of the path as its
   arguments. *)
RoutesStable ==
    /\ input.kind = "patterns" =>
          LET routes == FoldLeft(Handle, <<>>, input.added)
          IN  \A i, j \in DOMAIN routes : i < j => ~MoreSpecific(routes[j], routes[i])
    /\ input.kind = "routes" =>
          LET p == Serve(FoldLeft(Handle, <<>>, [i \in DOMAIN input.order |-> RestPatterns[input.order[i]]]),
                         input.path, {<<"diff", "diffs">>})
          IN  /\ p = RestPatterns[input.route]
              /\ makeArgParser(p, input.path) =
                    [args |-> {<<p[i][2], IF i = Len(p) THEN SubSeq(input.path, i, Len(input.path))
                                          ELSE <<input.path[i]>>>> : i \in Params(p)}]

(* The dashboard lists a review of its user once, as outgoing while it is under review and as
   submitted once Swarm knows it is committed, and a pending change only when no outgoing review
   covers it. *)
DashboardOnce ==
    input.kind = "dashboard" =>
        LET cls == RecentCls(input.changes)
            submitted == {r \in input.reviews : r.committed /\ r.changes \cap cls # {}}
            board == dashboard(input.changes, submitted, input.reviews, {})
        IN  /\ board.outgoing \cap board.submitted = {}
            /\ \A r \in input.reviews : r.age < Week /\ ~r.archived => r \in board.outgoing \cup board.submitted
            /\ \A c \in input.changes : c.pending =>
                  (c \in board.pending <=> ~\E r \in board.outgoing : c.cl \in r.changes)

(* Gigantick's columns: both have the same height, each shows the lines of its file once and in
   order, and an unchanged line stands beside its counterpart; every changed line is on display,
   and the two checks that end the program hold. *)
ColumnsAligned ==
    input.kind = "columns" =>
        LET diffs == diffsBuild(input.diff2)
            cols == Columns(diffs, 1)
            display == PlaceComment(Display(cols), input.comment)
            real(col) == SelectSeq(col, LAMBDA x : x # Pad)
            changedL == UNION {d.l0 .. d.l1 : d \in {x \in Range(diffs) : x.type # "a"}}
            changedR == UNION {d.r0 .. d.r1 : d \in {x \in Range(diffs) : x.type # "d"}}
            rows == 1 .. Len(cols.left)
        IN  /\ Len(cols.left) = Len(cols.right)
            /\ real(cols.left) = Lines(0, cols.l - 1) /\ real(cols.right) = Lines(0, cols.r - 1)
            /\ \A i \in rows : (cols.left[i] \in changedL \cup {Pad}) <=> (cols.right[i] \in changedR \cup {Pad})
            /\ \A i \in rows : cols.left[i] \in changedL \/ cols.right[i] \in changedR =>
                  CodeLine(i - 1) \in Range(display)
            /\ validate(cols.spans) /\ checkConsistency(display)

(* outputStat: in whatever order the keys of a record come, the struct holds the value of each of
   them, and a list is as long as its highest index says. *)
RecordRead ==
    input.kind = "record" =>
        LET type == input.type
            pairs == Range(input.pairs)
            read == outputStat(type, input.pairs)
            length(f) == Max({0} \cup {q[1][2] + 1 : q \in {x \in pairs : x[1][1] \in DOMAIN f.kinds}})
        IN  \A i \in DOMAIN type :
                IF type[i].slice
                THEN /\ Len(read[i]) = length(type[i])
                     /\ \A n \in DOMAIN type[i].kinds, j \in DOMAIN read[i] :
                           read[i][j][n] = ValueOf(pairs, <<n, j - 1>>, type[i].kinds[n])
                ELSE \A n \in DOMAIN type[i].kinds : read[i][n] = ValueOf(pairs, type[i].key, type[i].kinds[n])

(* Opened reads back the files p4 printed, whatever is between them, and fails on an action it does
   not know rather than leave the file out. *)
OpenedRead ==
    input.kind = "opened" =>
        LET read == Opened(input.lines)
        IN  IF \E i \in DOMAIN input.files : input.files[i].action = "import" THEN ~read.ok
            ELSE /\ read.ok
                 /\ read.files = [i \in DOMAIN input.files |->
                       LET f == input.files[i]
                       IN  [Path |-> f.path, Status |-> f.action, CL |-> f.cl,
                            Type |-> IF f.type = "text" THEN "text" ELSE "none"]]

(* AddDir adds every file of the directory once and in order, in commands within the limit unless
   one path alone is longer. *)
AllAdded ==
    input.kind = "tree" =>
        LET cmds == AddDir(input.files, 3)
        IN  /\ FlattenSeq(cmds) = input.files
            /\ \A i \in DOMAIN cmds : FoldLeft(LAMBDA a, b : a + b, 0, cmds[i]) <= 3 \/ Len(cmds[i]) = 1

(* The bugs and fixes of a review are those of its description and of its key, each of the key once
   and after those of the description; a line with an item that is no number gives none. *)
BugsMerged ==
    input.kind = "bugs" =>
        LET read == bugsFromAux(input.lines, input.aux)
            good(tag) == {i \in DOMAIN input.lines : input.lines[i].tag = tag /\ NoBug \notin Range(input.lines[i].items)}
            right(ids, tag, keyed) ==
                LET said == UNION {Range(input.lines[i].items) : i \in good(tag)}
                    fromKey == {i \in DOMAIN ids : ids[i] \notin said}
                IN  /\ Range(ids) = said \cup Range(keyed)
                    /\ Cardinality(fromKey) = Cardinality(Range(keyed) \ said)
                    /\ \A i \in DOMAIN ids \ fromKey, j \in fromKey : i < j
                    /\ Len(ids) = Cardinality(fromKey)
                         + FoldLeft(LAMBDA n, l : n + IF l.tag = tag /\ NoBug \notin Range(l.items)
                                                      THEN Len(l.items) ELSE 0, 0, input.lines)
        IN  right(read.bugs, "BUG", input.aux.bugs) /\ right(read.fixes, "FIX", input.aux.fixes)

-----------------------------------------------------------------------------
(* p4lib gives its callers what Perforce said and Perforce what they asked for. *)
P4Formats == SpecRoundTrip /\ ChangeUpdateKeeps /\ RecordRead /\ OpenedRead /\ AllAdded

(* Every diff a reviewer looks at shows the whole change and nothing else. *)
DiffsRight == DiffMinimal /\ PairsShowChange /\ ColumnsAligned

(* Ebert's pages: the right handler, every review on the dashboard once, every bug of a review. *)
PagesRight == RoutesStable /\ DashboardOnce /\ BugsMerged

(* Unshelving a change for CI never overwrites a file that is newer in the checkout. *)
UnshelveStompsNothing == which = "workspace" => Workspace!UnshelveStompsNothing

(* A poogle search that ends without an error has searched every file of the depot. *)
SearchComplete == which = "search" => Search!SearchComplete

(* perculator counts no change twice and leaves none out of its list, over restarts. *)
NothingTwice == which = "statistics" => Statistics!NothingTwice

(* The Swarm clients: searches are complete over their pages, and writes report what was done. *)
SwarmClientHonest == which = "client" => Client!PagesComplete /\ Client!WritesHonest

(* gigantick shows each presubmit run its own results, and no goroutine waits for a list in vain. *)
WindowHonest == which = "window" => Window!WindowHonest

(* A run of vendor_bender without an error leaves exactly the packages the manifests ask for. *)
VendoredAsAsked == which = "vendoring" => Vendoring!VendoredAsAsked

(* Every sink gets every message and every complete line of a command's output once and in order. *)
LogComplete == which = "log" => Logger!LogComplete

(* What a workstation is told is installed is installed: the marker of the environment, the entries
   of urika in the registry, and, where they lead, the application a link is for. *)
MachineReady ==
    /\ which = "install" => Installer!MarkerHonest
    /\ which = "links" => Linking!RegistrySound /\ Linking!LinksArrive
=============================================================================
