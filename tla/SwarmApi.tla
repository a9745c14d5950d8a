------------------------------ MODULE SwarmApi ------------------------------
(***************************************************************************)
(* The Swarm client as its callers see it: libs/go/swarm, and              *)
(* misc/swarmlib, which has the same calls behind the interface SwarmApi.  *)
(* Collections come in pages, each one request, while others create and    *)
(* change reviews; a query for many changelists is split into several;     *)
(* every other call is one request whose reply decides what the caller is  *)
(* told.                                                                   *)
(*                                                                         *)
(* Swarm is external: it orders reviews from the newest and comments from  *)
(* the oldest, and a page continues after an id.  Reviews and comments are *)
(* items [open, changes], numbered from 1.                                 *)
(***************************************************************************)
EXTENDS Integers, Sequences, FiniteSets, FiniteSetsExt, Swarm

CONSTANTS
    PageSize,   \* items of a page
    BatchSize,  \* changelists after which an endpoint is longer than 8000 characters
    Changes,    \* changelists
    MaxItems    \* bound: reviews or comments

ClientConstants == PageSize \in Nat \ {0}

VARIABLES
    items,      \* Swarm's reviews, or its comments
    search,     \* the search under way: what is asked, the query of the endpoint at hand, the
                \* changelists that are in no endpoint yet, and what was collected
    stable,     \* history: the items that match the search and have matched since it began
    ever,       \* history: those that matched at some time since it began
    request     \* the last single request: op, reply and what the caller was told

vars == <<items, search, stable, ever, request>>

\* GetOpenReviews asks for a state, GetReviewsForChangelists for changes.
Everything == [open |-> TRUE, of |-> {}]
Query(cls) == [open |-> FALSE, of |-> cls]
Matches(item, q) == (q.open /\ item.open) \/ item.changes \cap q.of # {}
Matching(all, q) == {i \in DOMAIN all : Matches(all[i], q)}

\* What is kept of a Review: its state and its changes.
Review == [open : BOOLEAN, changes : {{c} : c \in Changes}]
NoSearch ==
    [pc |-> "idle", lib |-> "swarm", kind |-> "reviews", asked |-> Query({}), query |-> Query({}), todo |-> {},
     endpoint |-> 1, after |-> 0, got |-> <<>>, ok |-> TRUE]
NoRequest == [lib |-> "swarm", op |-> "none", reply |-> NoPart, ok |-> FALSE]
Init ==
    /\ items \in UNION {[1 .. n -> Review] : n \in 0 .. 2}
    /\ search = NoSearch /\ stable = {} /\ ever = {}
    /\ request = NoRequest

-----------------------------------------------------------------------------
(* Searches. *)

\* swarmlib has the same calls and none of the decoders.
doSwarmRequestResponse(r) == doSwarmRequest(r) /\ r.form # "odd" /\ UnmarshalJSON(r)

\* The changelists of an endpoint that GetReviewsForChangelists builds: as many as fit of those that
\* are left, in whatever order the caller has them.
Endpoints(cls) == IF Cardinality(cls) <= BatchSize THEN {cls} ELSE kSubset(BatchSize, cls)

Begin(lib, kind, asked, query) ==
    /\ search.pc = "idle" /\ request' = NoRequest
    /\ search' = [NoSearch EXCEPT !.pc = "page", !.lib = lib, !.kind = kind, !.asked = asked, !.query = query,
                                  !.todo = asked.of \ query.of]
    /\ stable' = Matching(items, asked) /\ ever' = stable'
    /\ UNCHANGED items
\* No request is made for no changelists.
BeginEndpoints(lib) ==
    \E cls \in (SUBSET Changes) \ {{}} : \E first \in Endpoints(cls) : Begin(lib, "reviews", Query(cls), Query(first))
GetOpenReviews == Begin("swarm", "reviews", Everything, Everything)
GetReviewsForChangelists == BeginEndpoints("swarm")
GetCommentsForReview == Begin("swarm", "comments", Everything, Everything)
LibGetOpenReviews == Begin("swarmlib", "reviews", Everything, Everything)
LibGetReviewsForChangelists == BeginEndpoints("swarmlib")
LibGetCommentsForReview == Begin("swarmlib", "comments", Everything, Everything)

\* The page Swarm answers, of the first items behind the one last seen: after = 0 asks for the first page.
Behind(kind, i, j) == IF kind = "reviews" THEN i < j ELSE i > j
Page(kind, q, after) ==
    LET rest == {i \in Matching(items, q) : after = 0 \/ Behind(kind, i, after)}
    IN  {i \in rest : Cardinality({j \in rest : Behind(kind, i, j)}) < PageSize}

\* Mutant: the next page leaves out the item after the last one seen.
LastSeenMut(page) == IF search.kind = "reviews" THEN Min(page) - 1 ELSE Max(page) + 1
LastSeen(page) == IF search.kind = "reviews" THEN Min(page) ELSE Max(page)
\* One turn of the loop over pages: an error ends the search, an empty page ends the query.
Turn(lib, kind, ok) ==
    /\ search.pc = "page" /\ search.lib = lib /\ search.kind = kind
    /\ LET page == Page(kind, search.query, search.after)
       IN  \/ ~ ok /\ search' = [search EXCEPT !.pc = "done", !.ok = FALSE]
           \/ /\ ok /\ page # {}
              /\ search' = [search EXCEPT !.got = Append(@, [of |-> search.endpoint, ids |-> page]), !.after = LastSeen(page)]
           \/ /\ ok /\ page = {} /\ search.todo # {}
              /\ \E next \in Endpoints(search.todo) :
                    search' = [search EXCEPT !.query = Query(next), !.todo = @ \ next, !.endpoint = @ + 1, !.after = 0]
           \/ ok /\ page = {} /\ search.todo = {} /\ search' = [search EXCEPT !.pc = "done"]
    /\ UNCHANGED <<items, stable, ever, request>>
GetReviews(r) == Turn("swarm", "reviews", ContextDoSwarmRequest(r))
GetComments(r) == Turn("swarm", "comments", ContextDoSwarmRequest(r))
LibGetReviews(r) == Turn("swarmlib", "reviews", doSwarmRequestResponse(r))
LibGetComments(r) == Turn("swarmlib", "comments", doSwarmRequestResponse(r))
Finish ==
    /\ search.pc = "done"
    /\ search' = NoSearch /\ stable' = {} /\ ever' = {}
    /\ UNCHANGED <<items, request>>

-----------------------------------------------------------------------------
(* Single requests: one action per call.  A caller is told of success when ok holds. *)

Served(reply) == reply.applied /\ UnmarshalJSON(reply)
\* The result is kept until the next search begins.
Told(lib, op, reply, ok) ==
    /\ search.pc = "idle" /\ request = NoRequest
    /\ request' = [lib |-> lib, op |-> op, reply |-> reply, ok |-> ok]
    /\ UNCHANGED <<items, search, stable, ever>>

\* Mutant: a reply without the review or the test run counts too.
HoldsMut(reply) == TRUE
\* The reply holds what was asked for: a request that Swarm did not serve has none of it.
Holds(reply) == Served(reply)

GetReview(r) == Told("swarm", "GetReview", r, ContextDoSwarmRequest(r))
GetActionDashboard(r) == Told("swarm", "GetActionDashboard", r, ContextDoSwarmRequest(r))
TestRunDetails(r) == Told("swarm", "TestRunDetails", r, ContextDoSwarmRequest(r))
\* No struct to decode the reply into.
UpdateComment(r) == Told("swarm", "UpdateComment", r, doSwarmRequest(r))
AddCommentEx(r) == Told("swarm", "AddCommentEx", r, ContextDoSwarmRequest(r))
SendNotifications(r) == Told("swarm", "SendNotifications", r, ContextDoSwarmRequest(r) /\ Holds(r))
\* isValid of the reply is decoded and not looked at.
SetVote(r) == Told("swarm", "SetVote", r, ContextDoSwarmRequest(r))
PatchReview(r) == Told("swarm", "PatchReview", r, ContextDoSwarmRequest(r) /\ Holds(r))
SetState(r) == Told("swarm", "SetState", r, ContextDoSwarmRequest(r) /\ Holds(r))
\* The text of the reply is handed on.
SendTestRunRequest(r) == Told("swarm", "SendTestRunRequest", r, doSwarmRequest(r))
CreateTestRun(r) == Told("swarm", "CreateTestRun", r, ContextDoSwarmRequest(r) /\ Holds(r))

LibUpdateComment(r) == Told("swarmlib", "UpdateComment", r, doSwarmRequest(r))
LibAddCommentEx(r) == Told("swarmlib", "AddCommentEx", r, doSwarmRequestResponse(r))
\* These decode nothing that has two encodings.
LibSendNotifications(r) == Told("swarmlib", "SendNotifications", r, ContextDoSwarmRequest(r) /\ Holds(r))
LibSetVote(r) == Told("swarmlib", "SetVote", r, ContextDoSwarmRequest(r))
LibCreateTestRun(r) == Told("swarmlib", "CreateTestRun", r, ContextDoSwarmRequest(r) /\ Holds(r))
LibPatchReview(r) == Told("swarmlib", "PatchReview", r, doSwarmRequestResponse(r) /\ Holds(r))
LibSetState(r) == Told("swarmlib", "SetState", r, doSwarmRequestResponse(r) /\ Holds(r))
LibGetReview(r) == Told("swarmlib", "GetReview", r, doSwarmRequestResponse(r))
LibGetActionDashboard(r) == Told("swarmlib", "GetActionDashboard", r, doSwarmRequestResponse(r))
LibTestRunDetails(r) == Told("swarmlib", "TestRunDetails", r, doSwarmRequestResponse(r))
LibSendTestRunRequest(r) == Told("swarmlib", "SendTestRunRequest", r, doSwarmRequest(r))

Request(r) ==
    \/ GetReview(r) \/ GetActionDashboard(r) \/ TestRunDetails(r) \/ UpdateComment(r) \/ AddCommentEx(r)
    \/ SendNotifications(r) \/ SetVote(r) \/ PatchReview(r) \/ SetState(r) \/ SendTestRunRequest(r)
    \/ CreateTestRun(r)
    \/ LibUpdateComment(r) \/ LibAddCommentEx(r) \/ LibSendNotifications(r) \/ LibSetVote(r)
    \/ LibCreateTestRun(r) \/ LibPatchReview(r) \/ LibSetState(r) \/ LibGetReview(r)
    \/ LibGetActionDashboard(r) \/ LibTestRunDetails(r) \/ LibSendTestRunRequest(r)

-----------------------------------------------------------------------------
(* Others work in Swarm. *)

Change(new) ==
    /\ items' = new
    /\ stable' = stable \cap Matching(new, search.asked)
    /\ ever' = ever \cup Matching(new, search.asked)
    /\ UNCHANGED <<search, request>>
Create == Len(items) < MaxItems /\ \E c \in Changes : Change(Append(items, [open |-> TRUE, changes |-> {c}]))
SetOpen == \E i \in DOMAIN items : Change([items EXCEPT ![i].open = ~@])
AddChange == \E i \in DOMAIN items, c \in Changes : c \notin items[i].changes /\ Change([items EXCEPT ![i].changes = @ \cup {c}])

Next ==
    \/ GetOpenReviews \/ GetReviewsForChangelists \/ GetCommentsForReview
    \/ LibGetOpenReviews \/ LibGetReviewsForChangelists \/ LibGetCommentsForReview
    \/ \E r \in Replies : GetReviews(r) \/ GetComments(r) \/ LibGetReviews(r) \/ LibGetComments(r)
    \/ Finish
    \/ \E r \in Replies \cup {NoPart} : Request(r)
    \/ Create \/ SetOpen \/ AddChange

Spec == Init /\ [][Next]_vars

-----------------------------------------------------------------------------
(* A search that returns without an error has every review or comment that matched while it ran,
   however many others came, went and changed between two pages; it has nothing that never
   matched, and no item twice for one endpoint.  (GetReviewsForChangelists returns a review once for
   each endpoint that has one of its changes.) *)
PagesComplete ==
    search.pc = "done" /\ search.ok =>
        LET got == search.got
            all == UNION {got[k].ids : k \in DOMAIN got}
        IN  /\ stable \subseteq all /\ all \subseteq ever
            /\ \A k, l \in DOMAIN got : k # l /\ got[k].of = got[l].of => got[k].ids \cap got[l].ids = {}

\* The calls that look whether the reply holds what was asked for.
Demanding == {"SendNotifications", "PatchReview", "SetState", "CreateTestRun"}
(* A caller of a call that looks at the reply is told of success only when Swarm did what was asked,
   whatever came back in place of the answer, and a caller of libs/go/swarm is told of success when
   it was done and the answer arrived, in either encoding.  (UpdateComment and SendTestRunRequest
   take any text for an answer, SetVote and AddCommentEx any JSON.) *)
WritesHonest ==
    /\ request.ok /\ request.op \in Demanding => request.reply.applied
    /\ request.op # "none" /\ request.lib = "swarm" /\ Served(request.reply) => request.ok
=============================================================================
