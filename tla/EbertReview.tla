---------------------------- MODULE EbertReview -----------------------------
(***************************************************************************)
(* The requests Ebert handles for one review (tools/ebert/handlers/        *)
(* review): reading it, patching it together with its list of bugs, which  *)
(* is a p4 key written with check-and-set by a goroutine of the request,   *)
(* approving it and starting its tests.  The number may also be that of a  *)
(* plain change, for which Ebert shows a fake review.  Requests run        *)
(* concurrently; p4, Swarm and Jenkins calls may fail, those to Swarm and  *)
(* Jenkins after they took effect too.                                     *)
(***************************************************************************)
EXTENDS Naturals, Sequences, FiniteSets, Swarm

CONSTANTS
    Users,
    MaxRequests,  \* bound: requests, numbered in the order of their arrival
    MaxVersions,  \* bound: versions of the review
    MaxTries,     \* how often updateBugs tries: 3
    MaxOthers     \* bound: writes of the key by other instances
Requests == 1 .. MaxRequests
Unset == 0

VARIABLES
    review,       \* Swarm's review: whether there is one, its versions, the approved one or 0, the fresh
                  \* upvotes, whether it is committed, and the requests that patched it
    aux,          \* the requests that wrote the key of the bugs; the last one's list is its value (numbers above
                  \* MaxRequests are requests to another instance of Ebert)
    runs, jobs,   \* test runs in Swarm, [run, version], and jobs of Jenkins, the same
    req,          \* the request each handler works on
    up            \* whether the server runs

vars == <<review, aux, runs, jobs, req, up>>

Free == [op |-> "none", pc |-> "idle", bug |-> "none"]
Init ==
    /\ review \in [exists : BOOLEAN, versions : {1}, state : {"needsReview"}, votes : {{}},
                   committed : BOOLEAN, patched : {{}}]
    /\ review.committed => review.exists
    /\ aux = <<>> /\ runs = {} /\ jobs = {}
    /\ req = [r \in Requests |-> Free]
    /\ up = TRUE

Arrive(r, new) ==
    /\ up /\ req[r] = Free /\ \A q \in 1 .. r - 1 : req[q] # Free
    /\ req' = [req EXCEPT ![r] = new]
Become(r, new) == req' = [req EXCEPT ![r] = new]
At(r, op, pc) == up /\ req[r].op = op /\ req[r].pc = pc
\* A patch or an approval that ends before it does anything: UserContext cannot log the user in.
LoginError(r) ==
    /\ Arrive(r, [op |-> "login", pc |-> "answered", bug |-> "none", ok |-> FALSE, shows |-> FALSE])
    /\ UNCHANGED <<review, aux, runs, jobs, up>>
Answer(r, ok, shows) == Become(r, [req[r] EXCEPT !.pc = "answered", !.ok = ok, !.shows = shows])

-----------------------------------------------------------------------------
(* fetchReview and GET. *)

\* A review made up from the description of the change, if p4 can describe it.
fakeReview(p4Ok) == IF p4Ok THEN "fake" ELSE "none"
\* The review by its number or by that of one of its changes, else the fake one.
fetchReview(swarmOk, p4Ok) == IF review.exists /\ swarmOk THEN "review" ELSE fakeReview(p4Ok)
Get(r) ==
    \E s, p \in BOOLEAN :
        /\ Arrive(r, [op |-> "get", pc |-> "answered", bug |-> "none", ok |-> fetchReview(s, p) # "none",
                      shows |-> fetchReview(s, p) # "none"])
        /\ UNCHANGED <<review, aux, runs, jobs, up>>

-----------------------------------------------------------------------------
(* HandleRest with PATCH. *)

Patch(r) ==
    /\ Arrive(r, [op |-> "patch", pc |-> "patch", bug |-> "get", tries |-> 1, orig |-> Unset, bugOk |-> FALSE,
                  ok |-> FALSE, shows |-> FALSE])
    /\ UNCHANGED <<review, aux, runs, jobs, up>>

\* PatchReview.  No error of the swarm package is a swarm.Error, so every error is returned at once,
\* which closes the channel of the goroutine.
PatchReview(r, out) ==
    /\ At(r, "patch", "patch")
    /\ ~review.exists => ~out.applied /\ ~out.ok
    /\ review' = IF out.applied THEN [review EXCEPT !.patched = @ \cup {r}] ELSE review
    /\ IF out.ok THEN Become(r, [req[r] EXCEPT !.pc = "wait"]) ELSE Answer(r, FALSE, FALSE)
    /\ UNCHANGED <<aux, runs, jobs, up>>

\* reviewAux in updateBugs.  A key that is not set, or that could not be read, counts as unset.
Current == IF aux = <<>> THEN Unset ELSE aux[Len(aux)]
ReadAux(r) ==
    /\ up /\ req[r].bug = "get"
    /\ \E orig \in {Unset, Current} : Become(r, [req[r] EXCEPT !.bug = "write", !.orig = orig])
    /\ UNCHANGED <<review, aux, runs, jobs, up>>

BugsDone(r, ok) == Become(r, [req[r] EXCEPT !.bug = "send", !.bugOk = ok])
\* KeySet of an unset key, KeyCas of one that was read.
WriteAux(r) ==
    /\ up /\ req[r].bug = "write" /\ req[r].orig \in {Unset, Current}
    /\ aux' = Append(aux, r) /\ BugsDone(r, TRUE)
    /\ UNCHANGED <<review, runs, jobs, up>>
WriteFails(r) ==
    /\ up /\ req[r].bug = "write"
    /\ BugsDone(r, FALSE)
    /\ UNCHANGED <<review, aux, runs, jobs, up>>

\* Mutant: a mismatch on the last try is taken for success.
GiveUpMut(r) == BugsDone(r, TRUE)
GiveUp(r) == BugsDone(r, FALSE)
\* ErrCasMismatch: MaxTries times at most; an error too when the request's context is done.
Mismatch(r) ==
    /\ up /\ req[r].bug = "write" /\ req[r].orig \notin {Unset, Current}
    /\ IF req[r].tries = MaxTries THEN GiveUp(r)
       ELSE Become(r, [req[r] EXCEPT !.bug = "get", !.tries = @ + 1])
    /\ UNCHANGED <<review, aux, runs, jobs, up>>

\* The handler takes the result, annotates the review from the key, and answers.
TakeBugs(r) ==
    /\ At(r, "patch", "wait") /\ req[r].bug = "send"
    /\ \E annotated \in BOOLEAN :
          Become(r, [req[r] EXCEPT !.pc = "answered", !.bug = "none", !.shows = TRUE,
                                   !.ok = annotated /\ req[r].bugOk])
    /\ UNCHANGED <<review, aux, runs, jobs, up>>
\* The handler has returned and closed the channel: the send panics, and with it the server.
SendOnClosed(r) ==
    /\ At(r, "patch", "answered") /\ req[r].bug = "send"
    /\ up' = FALSE
    /\ UNCHANGED <<review, aux, runs, jobs, req>>
\* The server is started again; what it was doing is lost.
Restart ==
    /\ ~up /\ up' = TRUE
    /\ req' = [r \in Requests |-> IF req[r] = Free THEN Free
                                  ELSE [req[r] EXCEPT !.pc = "answered", !.bug = "none"]]
    /\ UNCHANGED <<review, aux, runs, jobs>>

-----------------------------------------------------------------------------
(* Approve. *)

BeginApprove(r, u) ==
    /\ Arrive(r, [op |-> "approve", pc |-> "state", bug |-> "none", user |-> u, version |-> review.versions,
                  ok |-> FALSE, shows |-> FALSE])
    /\ UNCHANGED <<review, aux, runs, jobs, up>>
\* Swarm approves the latest version and upvotes it; it refuses when it is approved.
Approved(u) == [review EXCEPT !.state = "approved", !.votes = @ \cup {u}]
SetApproved(r, out) ==
    /\ At(r, "approve", "state")
    /\ ~review.exists \/ review.state = "approved" => ~out.applied /\ ~out.ok
    /\ review' = IF out.applied THEN Approved(req[r].user) ELSE review
    /\ IF out.ok THEN Answer(r, TRUE, TRUE) ELSE Become(r, [req[r] EXCEPT !.pc = "check"])
    /\ UNCHANGED <<aux, runs, jobs, up>>

\* Mutant: an approved review is taken to have the user's vote.
NeedsVoteMut(u) == FALSE
NeedsVote(u) == u \notin review.votes
\* The review is fetched to see whether it is approved already.
CheckApproved(r) ==
    /\ At(r, "approve", "check")
    /\ \E s, p \in BOOLEAN :
          IF fetchReview(s, p) # "review" \/ review.state # "approved" THEN Answer(r, FALSE, FALSE)
          ELSE IF NeedsVote(req[r].user) THEN Become(r, [req[r] EXCEPT !.pc = "vote"])
          ELSE Answer(r, TRUE, TRUE)
    /\ UNCHANGED <<review, aux, runs, jobs, up>>
Vote(r, out) ==
    /\ At(r, "approve", "vote")
    /\ review' = IF out.applied THEN [review EXCEPT !.votes = @ \cup {req[r].user}] ELSE review
    /\ Answer(r, out.ok, TRUE)
    /\ UNCHANGED <<aux, runs, jobs, up>>

-----------------------------------------------------------------------------
(* runTests. *)

\* The checks on what rawReview read of Swarm's key.
Testable(version) == review.exists /\ version \in 1 .. review.versions /\ ~review.committed
BeginTests(r, version) ==
    /\ \E ready \in BOOLEAN :  \* Jenkins is connected and p4 reads the key
       IF ready /\ Testable(version)
       THEN Arrive(r, [op |-> "tests", pc |-> "create", bug |-> "none", version |-> version,
                       ok |-> FALSE, shows |-> FALSE])
       ELSE Arrive(r, [op |-> "tests", pc |-> "answered", bug |-> "none", version |-> version,
                       ok |-> FALSE, shows |-> FALSE])
    /\ UNCHANGED <<review, aux, runs, jobs, up>>

TestRun(r) == [run |-> r, version |-> req[r].version]
\* Mutant: the error of CreateTestRun is dropped.
CreatedMut(out) == TRUE
Created(out) == out.ok
CreateTestRun(r, out) ==
    /\ At(r, "tests", "create")
    /\ runs' = IF out.applied THEN runs \cup {TestRun(r)} ELSE runs
    /\ IF Created(out) THEN Become(r, [req[r] EXCEPT !.pc = "send"]) ELSE Answer(r, FALSE, FALSE)
    /\ UNCHANGED <<review, aux, jobs, up>>
SendPresubmitRequest(r, out) ==
    /\ At(r, "tests", "send")
    /\ jobs' = IF out.applied THEN jobs \cup {TestRun(r)} ELSE jobs
    /\ Answer(r, out.ok, out.ok)
    /\ UNCHANGED <<review, aux, runs, up>>

-----------------------------------------------------------------------------
(* Others: a new version of the review makes the votes stale; it may be committed. *)
NewVersion ==
    /\ review.exists /\ ~review.committed /\ review.versions < MaxVersions
    /\ review' = [review EXCEPT !.versions = @ + 1, !.state = "needsReview", !.votes = {}]
    /\ UNCHANGED <<aux, runs, jobs, req, up>>
\* Another instance of Ebert writes the key.
OtherWrite ==
    /\ Cardinality({i \in DOMAIN aux : aux[i] > MaxRequests}) < MaxOthers
    /\ aux' = Append(aux, MaxRequests + 1 + Len(aux))
    /\ UNCHANGED <<review, runs, jobs, req, up>>
Commit ==
    /\ review.exists /\ ~review.committed
    /\ review' = [review EXCEPT !.committed = TRUE]
    /\ UNCHANGED <<aux, runs, jobs, req, up>>

Next ==
    \/ Restart \/ NewVersion \/ Commit \/ OtherWrite
    \/ \E r \in Requests :
        \/ Get(r) \/ LoginError(r) \/ Patch(r) \/ ReadAux(r) \/ WriteAux(r) \/ WriteFails(r) \/ Mismatch(r)
        \/ TakeBugs(r) \/ SendOnClosed(r) \/ CheckApproved(r)
        \/ \E u \in Users : BeginApprove(r, u)
        \/ \E v \in 0 .. MaxVersions : BeginTests(r, v)
        \/ \E out \in Outcomes :
            \/ PatchReview(r, out) \/ SetApproved(r, out) \/ Vote(r, out)
            \/ CreateTestRun(r, out) \/ SendPresubmitRequest(r, out)

Spec == Init /\ [][Next]_vars

-----------------------------------------------------------------------------
Ok(r, op) == req[r].op = op /\ req[r].pc = "answered" /\ req[r].ok

(* A success is one: a patch that is reported done changed the review and its bugs were stored,
   however many writers raced for the key; an approval left the review approved with the vote of
   its user, unless a new version came while it ran; started tests have their run in Swarm and
   their job, and no job runs without its run, for a version the review has. *)
ReviewAnswers ==
    \A r \in Requests :
        /\ Ok(r, "patch") => r \in review.patched /\ \E i \in DOMAIN aux : aux[i] = r
        /\ Ok(r, "approve") /\ req[r].version = review.versions =>
              review.state = "approved" /\ req[r].user \in review.votes
        /\ Ok(r, "tests") => TestRun(r) \in jobs
        /\ jobs \subseteq runs /\ \A j \in jobs : j.version \in 1 .. review.versions
=============================================================================
