----------------------------- MODULE Gigantick ------------------------------
(***************************************************************************)
(* tools/gigantick: the window of the user's changes.  Goroutines run p4   *)
(* and Swarm requests and each waits on an unbuffered channel until a      *)
(* frame takes its answer; the channels of a change belong to an object    *)
(* made for it when a list arrives, and only the objects in allChanges are *)
(* polled.  Every receive of update is an action: a frame is a run of      *)
(* them.  A presubmit of a change can be run again and again.              *)
(*                                                                         *)
(* An object is named by its change and by the list it was made for.       *)
(* Gigantick's Swarm context has no Ctx, with which each of its requests   *)
(* fails; the answers are here for the code that handles them.             *)
(***************************************************************************)
EXTENDS Naturals, FiniteSets

CONSTANTS
    Cls,        \* changes of the user
    Files,      \* the files whose contents are shown
    Checks,     \* the number of checks of a presubmit
    MaxRuns     \* bound: presubmit runs of a change

WindowConstants == Checks \in Nat /\ MaxRuns \in Nat

Sources == {"pending", "submitted", "dashboard"}
Lists == {"pending", "submitted"}
Goroutines == {"pending", "submitted", "tickets", "users", "info", "reviews", "dashboard"}
Nobody == "none"

VARIABLES
    submitted,  \* the changes that are submitted by now
    fetch,      \* fetchPending ... : where each goroutine is, and what it waits to send
    window,     \* gigantickContext: pendingChangesDone and so on, and the lists shown
    allChanges, \* allChanges[cl]: the source of the object that is in the map
    obj,        \* obj[cl][source]: gigantickChange
    data,       \* allFileData and allFileDiffs: how far each file or pair is
    alive

vars == <<submitted, fetch, window, allChanges, obj, data, alive>>

Pcs == {"none", "run", "send", "ended"}
NewChange ==
    [fstat |-> "none", fileState |-> "none", describe |-> "none", described |-> FALSE,
     reviews |-> [l \in Lists |-> "none"], reviewsState |-> "none", comments |-> [l \in Lists |-> "none"],
     commentsState |-> "none", extracted |-> FALSE,
     sgepState |-> "none", run |-> 0, sgep |-> "none", reported |-> 0, checks |-> 0, output |-> 0,
     waiting |-> [r \in 1 .. MaxRuns |-> 0], results |-> [r \in 1 .. MaxRuns |-> 0]]

Init ==
    /\ submitted \in SUBSET Cls
    /\ fetch = [pc |-> [g \in Goroutines |-> IF g \in {"reviews", "dashboard"} THEN "none" ELSE "run"],
                list |-> [s \in Sources |-> {}]]
    /\ window = [done |-> {}, shown |-> [l \in Lists |-> {}]]
    /\ allChanges = [cl \in Cls |-> Nobody]
    /\ obj = [cl \in Cls |-> [s \in Sources |-> NewChange]]
    /\ data = [k \in {"data", "diffs"} |-> [f \in Files |-> "none"]]
    /\ alive = TRUE

Submit(cl) ==
    /\ cl \notin submitted /\ submitted' = submitted \cup {cl}
    /\ UNCHANGED <<fetch, window, allChanges, obj, data, alive>>

-----------------------------------------------------------------------------
(* The lists. *)

To(g, pc) == fetch' = [fetch EXCEPT !.pc[g] = pc]
\* A list is asked of p4: it is sent, or the error logged and nothing sent.
List(s, cls) ==
    /\ alive /\ fetch.pc[s] = "run"
    /\ fetch' = [fetch EXCEPT !.pc[s] = "send", !.list[s] = cls] \/ To(s, "ended")
    /\ UNCHANGED <<submitted, window, allChanges, obj, data, alive>>
fetchPending == List("pending", Cls \ submitted)
fetchSubmitted == List("submitted", submitted)
\* The goroutine of updateReviewsDashboard: all pending changes.
DashboardChanges == List("dashboard", Cls \ submitted)
\* fetchTickets and fetchUsers drop the error; fetchInfo follows the nil pointer of a failed Info.
fetchTickets ==
    /\ alive /\ fetch.pc["tickets"] = "run" /\ To("tickets", "send")
    /\ UNCHANGED <<submitted, window, allChanges, obj, data, alive>>
fetchUsers ==
    /\ alive /\ fetch.pc["users"] = "run" /\ To("users", "send")
    /\ UNCHANGED <<submitted, window, allChanges, obj, data, alive>>
fetchInfo ==
    /\ alive /\ fetch.pc["info"] = "run"
    /\ alive' \in BOOLEAN /\ To("info", "send")
    /\ UNCHANGED <<submitted, window, allChanges, obj, data>>

\* Mutant: the new object replaces the one that is there.
changeAddMut(cls, s) == [cl \in Cls |-> IF cl \in cls THEN s ELSE allChanges[cl]]
changeAdd(cls, s) == [cl \in Cls |-> IF cl \in cls /\ allChanges[cl] = Nobody THEN s ELSE allChanges[cl]]

\* The pending list: the object's goroutines are started whether or not changeAdd keeps it.
updatePending ==
    /\ alive /\ fetch.pc["pending"] = "send"
    /\ LET cls == fetch.list["pending"]
       IN  /\ allChanges' = changeAdd(cls, "pending")
           /\ obj' = [cl \in Cls |-> IF cl \notin cls THEN obj[cl]
                                     ELSE [obj[cl] EXCEPT !["pending"] = [NewChange EXCEPT !.fileState = "processing",
                                                                          !.fstat = "run", !.describe = "run"]]]
           /\ window' = [window EXCEPT !.done = @ \cup {"pending"}, !.shown["pending"] = cls]
    /\ To("pending", "ended")
    /\ UNCHANGED <<submitted, data, alive>>
updateSubmitted ==
    /\ alive /\ fetch.pc["submitted"] = "send"
    /\ allChanges' = changeAdd(fetch.list["submitted"], "submitted")
    /\ window' = [window EXCEPT !.done = @ \cup {"submitted"}, !.shown["submitted"] = fetch.list["submitted"]]
    /\ To("submitted", "ended")
    /\ UNCHANGED <<submitted, obj, data, alive>>
updateTickets ==
    /\ alive /\ fetch.pc["tickets"] = "send"
    /\ window' = [window EXCEPT !.done = @ \cup {"tickets"}] /\ To("tickets", "ended")
    /\ UNCHANGED <<submitted, allChanges, obj, data, alive>>
updateUsers ==
    /\ alive /\ fetch.pc["users"] = "send" /\ To("users", "ended")
    /\ UNCHANGED <<submitted, window, allChanges, obj, data, alive>>
updateInfo ==
    /\ alive /\ fetch.pc["info"] = "send" /\ To("info", "ended")
    /\ UNCHANGED <<submitted, window, allChanges, obj, data, alive>>

\* swarmInit, once the three are done; without a ticket of the user nothing is asked.
swarmInit(ticket) ==
    /\ alive /\ {"pending", "submitted", "tickets"} \subseteq window.done /\ "swarm" \notin window.done
    /\ window' = [window EXCEPT !.done = @ \cup {"swarm"}]
    /\ IF ticket
       THEN /\ obj' = [cl \in Cls |-> [s \in Sources |->
                 LET asks == {l \in Lists : s = allChanges[cl] /\ cl \in window.shown[l]}
                 IN  IF asks = {} THEN obj[cl][s]
                     ELSE [obj[cl][s] EXCEPT !.reviewsState = "processing",
                                             !.reviews = [l \in Lists |-> IF l \in asks THEN "run" ELSE @[l]]]]]
            /\ To("reviews", "run")
       ELSE UNCHANGED <<obj, fetch>>
    /\ UNCHANGED <<submitted, allChanges, data, alive>>

\* fetchActionDashboard, and updateReviewsDashboard, which asks for the changes if there are reviews.
fetchActionDashboard ==
    /\ alive /\ fetch.pc["reviews"] = "run" /\ \E pc \in {"send", "ended"} : To("reviews", pc)
    /\ UNCHANGED <<submitted, window, allChanges, obj, data, alive>>
updateReviewsDashboard ==
    /\ alive /\ fetch.pc["reviews"] = "send"
    /\ \E pc \in {"none", "run"} : fetch' = [fetch EXCEPT !.pc["reviews"] = "ended", !.pc["dashboard"] = pc]
    /\ UNCHANGED <<submitted, window, allChanges, obj, data, alive>>
updateChangesDashboard ==
    /\ alive /\ fetch.pc["dashboard"] = "send"
    /\ allChanges' = changeAdd(fetch.list["dashboard"], "dashboard") /\ To("dashboard", "ended")
    /\ UNCHANGED <<submitted, window, obj, data, alive>>

-----------------------------------------------------------------------------
(* One change. *)

Become(cl, s, new) ==
    /\ alive /\ obj' = [obj EXCEPT ![cl][s] = new]
    /\ UNCHANGED <<submitted, fetch, window, allChanges, data, alive>>
Polled(cl, s) == allChanges[cl] = s

\* getFiles: a change of another list is asked for when it is looked at.
getFiles(cl, s) ==
    /\ Polled(cl, s) /\ obj[cl][s].fileState = "none"
    /\ Become(cl, s, [obj[cl][s] EXCEPT !.fileState = "processing", !.fstat = "run"])
fetchFstats(cl, s) ==
    /\ obj[cl][s].fstat = "run"
    /\ \E pc \in {"send", "ended"} : Become(cl, s, [obj[cl][s] EXCEPT !.fstat = pc])
updateChangeFstats(cl, s) ==
    /\ Polled(cl, s) /\ obj[cl][s].fstat = "send"
    /\ Become(cl, s, [obj[cl][s] EXCEPT !.fstat = "ended", !.fileState = "done"])
fetchDescription(cl, s) ==
    /\ obj[cl][s].describe = "run"
    /\ \E pc \in {"send", "ended"} : Become(cl, s, [obj[cl][s] EXCEPT !.describe = pc])
updateChangeDescription(cl, s) ==
    /\ Polled(cl, s) /\ obj[cl][s].describe = "send"
    /\ Become(cl, s, [obj[cl][s] EXCEPT !.describe = "ended", !.described = TRUE])

fetchReviewForChangelist(cl, s, l) ==
    /\ obj[cl][s].reviews[l] = "run"
    /\ \E pc \in {"send", "ended"} : Become(cl, s, [obj[cl][s] EXCEPT !.reviews[l] = pc])
\* A change with a review has its comments fetched.
updateChangeReviews(cl, s, l) ==
    /\ Polled(cl, s) /\ obj[cl][s].reviews[l] = "send"
    /\ \E found \in BOOLEAN :
          Become(cl, s, [obj[cl][s] EXCEPT !.reviews[l] = "ended", !.reviewsState = "done",
                                           !.comments[l] = IF found THEN "run" ELSE @,
                                           !.commentsState = IF found THEN "processing" ELSE @])
fetchChangeComments(cl, s, l) ==
    /\ obj[cl][s].comments[l] = "run"
    /\ \E pc \in {"send", "ended"} : Become(cl, s, [obj[cl][s] EXCEPT !.comments[l] = pc])
updateChangeComments(cl, s, l) ==
    /\ Polled(cl, s) /\ obj[cl][s].comments[l] = "send"
    /\ Become(cl, s, [obj[cl][s] EXCEPT !.comments[l] = "ended", !.commentsState = "done"])
\* The end of gigantickChange.update: the comments go to their files, once.
build(cl, s) ==
    /\ Polled(cl, s) /\ ~obj[cl][s].extracted
    /\ obj[cl][s].commentsState = "done" /\ obj[cl][s].fileState = "done"
    /\ Become(cl, s, [obj[cl][s] EXCEPT !.extracted = TRUE])

-----------------------------------------------------------------------------
(* A presubmit of a change. *)

buildSgep(cl, s) ==
    /\ Polled(cl, s) /\ obj[cl][s].sgepState # "processing" /\ obj[cl][s].run < MaxRuns
    /\ Become(cl, s, [obj[cl][s] EXCEPT !.sgepState = "processing", !.run = @ + 1, !.sgep = "checks", !.output = 0,
                                        !.checks = 0, !.reported = 0, !.results = [r \in 1 .. MaxRuns |-> 0]])
\* An error of universe.New or of the runner ends the goroutine without a word.
SgepFails(cl, s) ==
    /\ obj[cl][s].sgep \in {"checks", "run"}
    /\ Become(cl, s, [obj[cl][s] EXCEPT !.sgep = "failed"])
\* Mutant: the run does not wait until the window has its checks.
OnPresubmitStartMut(c) == [c EXCEPT !.sgep = "run"]
\* The runner sends its checks itself, so it goes on only when the window has taken them.
OnPresubmitStart(c) == [c EXCEPT !.sgep = "run", !.checks = c.run]
TakeChecks(cl, s) ==
    /\ Polled(cl, s) /\ obj[cl][s].sgep = "checks"
    /\ Become(cl, s, OnPresubmitStart(obj[cl][s]))
\* A result is sent by a goroutine of its own.
OnCheckResult(cl, s) ==
    /\ obj[cl][s].sgep = "run" /\ obj[cl][s].reported < Checks
    /\ Become(cl, s, [obj[cl][s] EXCEPT !.reported = @ + 1, !.waiting[obj[cl][s].run] = @ + 1])
TakeResult(cl, s, r) ==
    /\ Polled(cl, s) /\ obj[cl][s].waiting[r] > 0
    /\ Become(cl, s, [obj[cl][s] EXCEPT !.waiting[r] = @ - 1, !.results[r] = @ + 1])
\* fetchSgep sends the summary of a run that ended.
TakeOutput(cl, s) ==
    /\ Polled(cl, s) /\ obj[cl][s].sgep = "run" /\ obj[cl][s].reported = Checks
    /\ Become(cl, s, [obj[cl][s] EXCEPT !.sgep = "none", !.sgepState = "done", !.output = obj[cl][s].run])

-----------------------------------------------------------------------------
(* Contents of files and the diffs of pairs, each fetched once. *)

Data(kind, f, from, to) ==
    /\ alive /\ data[kind][f] = from /\ data' = [data EXCEPT ![kind][f] = to]
    /\ UNCHANGED <<submitted, fetch, window, allChanges, obj, alive>>
getFileData(f) == Data("data", f, "none", "run")
fetchFileData(f) == Data("data", f, "run", "send") \/ Data("data", f, "run", "ended")
updateFileData(f) == Data("data", f, "send", "done")
getFileDiffs(f) == Data("diffs", f, "none", "run")
fetchFileDiffs(f) == Data("diffs", f, "run", "send") \/ Data("diffs", f, "run", "ended")
updateFileDiffs(f) == Data("diffs", f, "send", "done")

Next ==
    \/ fetchPending \/ fetchSubmitted \/ DashboardChanges \/ fetchTickets \/ fetchUsers \/ fetchInfo
    \/ updatePending \/ updateSubmitted \/ updateTickets \/ updateUsers \/ updateInfo
    \/ \E t \in BOOLEAN : swarmInit(t)
    \/ fetchActionDashboard \/ updateReviewsDashboard \/ updateChangesDashboard
    \/ \E f \in Files :
        \/ getFileData(f) \/ fetchFileData(f) \/ updateFileData(f)
        \/ getFileDiffs(f) \/ fetchFileDiffs(f) \/ updateFileDiffs(f)
    \/ \E cl \in Cls : Submit(cl)
    \/ \E cl \in Cls, s \in Sources :
        \/ getFiles(cl, s) \/ fetchFstats(cl, s) \/ updateChangeFstats(cl, s)
        \/ fetchDescription(cl, s) \/ updateChangeDescription(cl, s) \/ build(cl, s)
        \/ buildSgep(cl, s) \/ SgepFails(cl, s) \/ TakeChecks(cl, s) \/ OnCheckResult(cl, s) \/ TakeOutput(cl, s)
        \/ \E r \in 1 .. MaxRuns : TakeResult(cl, s, r)
        \/ \E l \in Lists :
            \/ fetchReviewForChangelist(cl, s, l) \/ updateChangeReviews(cl, s, l)
            \/ fetchChangeComments(cl, s, l) \/ updateChangeComments(cl, s, l)

Spec == Init /\ [][Next]_vars

-----------------------------------------------------------------------------
(* The window tells the truth.  A goroutine of a change waits on a channel nobody polls only when
   the change was in another list first, that is, when it was submitted between the two requests.
   A presubmit run shows its own checks with its results, and once it is done every one of its
   results is shown or on its way, none twice.  (Results of the run before may be shown too:
   their goroutines may still wait when the run is started again.) *)
WindowHonest ==
    \A cl \in Cls, s \in Sources :
        LET c == obj[cl][s] IN
        /\ c.fstat = "send" \/ c.describe = "send" => Polled(cl, s) \/ allChanges[cl] = "submitted"
        /\ c.run > 0 /\ c.results[c.run] > 0 => c.checks = c.run
        /\ c.run > 0 => c.results[c.run] + c.waiting[c.run] = c.reported
        /\ c.output = c.run /\ c.run > 0 => c.reported = Checks /\ c.checks = c.run
        /\ c.extracted => c.fileState = "done" /\ c.reviewsState = "done"
=============================================================================
