--------------------------- MODULE EbertComments ----------------------------
(***************************************************************************)
(* The comments of one review in Ebert (tools/ebert/handlers/comments).    *)
(* Draft comments are p4 keys; publishing posts each draft to Swarm and    *)
(* then deletes its key, in a goroutine per draft; a mark as read is       *)
(* written into Swarm's own key of the comment with check-and-set.  The    *)
(* server handles requests concurrently, and any p4 or Swarm call may      *)
(* fail, a Swarm call after it took effect too.                            *)
(*                                                                         *)
(* A draft is [user, id] (the id the front end shows as -id); id 0 is the  *)
(* comment that comes with the request to publish.                         *)
(***************************************************************************)
EXTENDS Naturals, FiniteSets, Swarm

CONSTANTS
    Users,
    MaxRequests,  \* bound: requests to the server, numbered in the order of their arrival
    Bodies,       \* texts of comments
    MaxDrafts,    \* bound: drafts a user adds
    MaxEdits      \* bound: changes of the published comment by others

VARIABLES
    keys,         \* the draft keys: a partial function from [user, id] to the text
    count,        \* the counter key of each user
    swarm,        \* Swarm: the comments published, who notified, approved and voted
    shown,        \* the key of a published comment: its readers, and how often it was changed
    req           \* the request each handler works on

vars == <<keys, count, swarm, shown, req>>

Requests == 1 .. MaxRequests
Free == [op |-> "none", pc |-> "idle"]
Publishing == {r \in Requests : req[r].op = "publish"}

Draft(u, id) == [user |-> u, id |-> id]

\* Drafts may be there from earlier.
Init ==
    /\ count \in [Users -> 0 .. MaxDrafts]
    /\ keys \in [UNION {{Draft(u, id) : id \in 1 .. count[u]} : u \in Users} -> Bodies]
    /\ swarm = [comments |-> {}, notified |-> {}, approved |-> {}, voted |-> {}]
    /\ shown = [readBy |-> {}, version |-> 0]
    /\ req = [r \in Requests |-> Free]

Become(r, new) == req' = [req EXCEPT ![r] = new]
Answer(r, ok) == Become(r, [req[r] EXCEPT !.pc = "answered", !.ok = ok])
Idle(r) == req[r] = Free /\ \A q \in 1 .. r - 1 : req[q] # Free
At(r, op, pc) == req[r].op = op /\ req[r].pc = pc
KeySet(d, body) == keys' = [x \in DOMAIN keys \cup {d} |-> IF x = d THEN body ELSE keys[x]]
KeyDelete(d) == keys' = [x \in DOMAIN keys \ {d} |-> keys[x]]

-----------------------------------------------------------------------------
(* Drafts. *)

\* addComment without publish: KeyInc, then KeySet of the draft.
AddDraft(r, u, body) ==
    /\ Idle(r) /\ count[u] < MaxDrafts
    /\ count' = [count EXCEPT ![u] = @ + 1]
    /\ Become(r, [op |-> "add", pc |-> "set", draft |-> Draft(u, count[u] + 1), body |-> body, ok |-> FALSE])
    /\ UNCHANGED <<keys, swarm, shown>>

\* editComment: the key is read, its text replaced and the key written back.
EditDraft(r, d, body) ==
    /\ Idle(r) /\ d \in DOMAIN keys
    /\ Become(r, [op |-> "edit", pc |-> "set", draft |-> d, body |-> body, ok |-> FALSE])
    /\ UNCHANGED <<keys, count, swarm, shown>>

\* The write of either; it does not look at what is there now.
SetDraft(r) ==
    /\ req[r].op \in {"add", "edit"} /\ req[r].pc = "set"
    /\ KeySet(req[r].draft, req[r].body)
    /\ Answer(r, TRUE)
    /\ UNCHANGED <<count, swarm, shown>>

deleteComment(r, d) ==
    /\ Idle(r) /\ d \in DOMAIN keys
    /\ KeyDelete(d)
    /\ Become(r, [op |-> "delete", pc |-> "answered", ok |-> TRUE])
    /\ UNCHANGED <<count, swarm, shown>>

\* A p4 command fails: the handler returns the error.
KeyFails(r) ==
    /\ \/ req[r].op \in {"add", "edit"} /\ req[r].pc = "set"
       \/ req[r].op = "read" /\ req[r].pc \in {"get", "cas"}
    /\ Answer(r, FALSE)
    /\ UNCHANGED <<keys, count, swarm, shown>>

-----------------------------------------------------------------------------
(* Handle with publish: publishComments, and the approval and the vote beside it. *)

Publish(r, u, body, wants) ==
    /\ Idle(r)
    /\ Become(r, [op |-> "publish", pc |-> "drafts", user |-> u, body |-> body, wants |-> wants,
                  drafts |-> {}, posting |-> {}, deleting |-> {}, errs |-> FALSE, panic |-> FALSE,
                  bg |-> IF wants = "nothing" THEN "ended" ELSE wants,
                  ech |-> IF wants = "nothing" THEN <<TRUE>> ELSE <<>>, ok |-> FALSE])
    /\ UNCHANGED <<keys, count, swarm, shown>>

\* getDraftComments: the drafts as they are now, with the comment of the request if it has a text.
getDraftComments(u) == {[draft |-> d, body |-> keys[d]] : d \in {x \in DOMAIN keys : x.user = u}}
ReadDrafts(r) ==
    /\ At(r, "publish", "drafts")
    /\ LET u == req[r].user
           own == IF req[r].body = "" THEN {} ELSE {[draft |-> Draft(u, 0), body |-> req[r].body]}
           all == getDraftComments(u) \cup own
       IN  Become(r, [req[r] EXCEPT !.pc = "post", !.drafts = all, !.posting = all])
    /\ UNCHANGED <<keys, count, swarm, shown>>
\* Keys fails: there is no collection to add the comment to, and the handler panics.
ReadDraftsFails(r) ==
    /\ At(r, "publish", "drafts")
    /\ Become(r, [req[r] EXCEPT !.pc = "answered", !.panic = TRUE])
    /\ UNCHANGED <<keys, count, swarm, shown>>

\* The Login of publishComments fails, which leaves the goroutine of the vote running.
LoginRefused(r) ==
    /\ At(r, "publish", "drafts")
    /\ Become(r, [req[r] EXCEPT !.pc = "notified", !.errs = TRUE])
    /\ UNCHANGED <<keys, count, swarm, shown>>

\* Mutant: a draft that could not be posted is deleted too.
NextStepMut(c, ok) == c.draft.id # 0
NextStep(c, ok) == ok /\ c.draft.id # 0
\* AddCommentEx of one comment; a draft that was posted is deleted next.
AddCommentEx(r, c, out) ==
    /\ At(r, "publish", "post") /\ c \in req[r].posting
    /\ swarm' = IF out.applied THEN [swarm EXCEPT !.comments = @ \cup {[c |-> c, by |-> r]}] ELSE swarm
    /\ Become(r, [req[r] EXCEPT !.posting = @ \ {c}, !.errs = @ \/ ~out.ok,
                                !.deleting = IF NextStep(c, out.ok) THEN @ \cup {c} ELSE @])
    /\ UNCHANGED <<keys, count, shown>>
DeletePosted(r, c) ==
    /\ c \in req[r].deleting
    /\ \/ KeyDelete(c.draft) /\ Become(r, [req[r] EXCEPT !.deleting = @ \ {c}])
       \/ UNCHANGED keys /\ Become(r, [req[r] EXCEPT !.deleting = @ \ {c}, !.errs = TRUE])
    /\ UNCHANGED <<count, swarm, shown>>

\* wg.Wait, then SendNotifications.
SendNotifications(r, out) ==
    /\ At(r, "publish", "post") /\ req[r].posting = {} /\ req[r].deleting = {}
    /\ swarm' = IF out.applied THEN [swarm EXCEPT !.notified = @ \cup {r}] ELSE swarm
    /\ Become(r, [req[r] EXCEPT !.pc = "notified", !.errs = @ \/ ~out.ok])
    /\ UNCHANGED <<keys, count, shown>>

\* The goroutine: Login, SetState when an approval is wanted, and SetVote for an LGTM or when the
\* approval failed.  The channel has room for both results.
Voter(r) == req[r].op = "publish" /\ req[r].bg \in {"approve", "lgtm"}
LoginFails(r) ==
    /\ Voter(r) /\ req[r].ech = <<>>
    /\ Become(r, [req[r] EXCEPT !.bg = "ended", !.ech = <<FALSE>>])
    /\ UNCHANGED <<keys, count, swarm, shown>>
SetState(r, out) ==
    /\ Voter(r) /\ req[r].bg = "approve"
    /\ swarm' = IF out.applied THEN [swarm EXCEPT !.approved = @ \cup {r}] ELSE swarm
    /\ Become(r, [req[r] EXCEPT !.bg = IF out.ok THEN "ended" ELSE "lgtm", !.ech = <<out.ok>>])
    /\ UNCHANGED <<keys, count, shown>>
SetVote(r, out) ==
    /\ Voter(r) /\ req[r].bg = "lgtm"
    /\ swarm' = IF out.applied THEN [swarm EXCEPT !.voted = @ \cup {r}] ELSE swarm
    /\ Become(r, [req[r] EXCEPT !.bg = "ended", !.ech = IF @ = <<>> THEN <<out.ok>> ELSE @])
    /\ UNCHANGED <<keys, count, shown>>

\* Mutant: the answer does not wait for the goroutine.
VerdictMut(r) == TRUE
Verdict(r) == req[r].ech # <<>>
\* The first result on the channel decides with the errors of the comments.
Respond(r) ==
    /\ At(r, "publish", "notified") /\ Verdict(r)
    /\ Answer(r, ~req[r].errs /\ \A i \in DOMAIN req[r].ech : req[r].ech[i])
    /\ UNCHANGED <<keys, count, swarm, shown>>

-----------------------------------------------------------------------------
(* MarkRead. *)

MarkRead(r, u) ==
    /\ Idle(r)
    /\ Become(r, [op |-> "read", pc |-> "get", user |-> u, old |-> shown, ok |-> FALSE])
    /\ UNCHANGED <<keys, count, swarm, shown>>
ReadComment(r) ==
    /\ At(r, "read", "get")
    /\ IF req[r].user \in shown.readBy THEN Answer(r, TRUE)
       ELSE Become(r, [req[r] EXCEPT !.pc = "cas", !.old = shown])
    /\ UNCHANGED <<keys, count, swarm, shown>>

\* Mutant: the key is set whatever it holds.
KeyCasMut(old) == TRUE
KeyCas(old) == shown = old
\* On a mismatch the whole operation is tried again.
CasComment(r) ==
    /\ At(r, "read", "cas")
    /\ IF KeyCas(req[r].old)
       THEN shown' = [req[r].old EXCEPT !.readBy = @ \cup {req[r].user}] /\ Answer(r, TRUE)
       ELSE UNCHANGED shown /\ Become(r, [req[r] EXCEPT !.pc = "get"])
    /\ UNCHANGED <<keys, count, swarm>>
\* Someone changes the comment in Swarm.
SwarmEdit ==
    /\ shown.version < MaxEdits
    /\ shown' = [shown EXCEPT !.version = @ + 1]
    /\ UNCHANGED <<keys, count, swarm, req>>

-----------------------------------------------------------------------------
Next ==
    \/ SwarmEdit
    \/ \E r \in Requests :
        \/ SetDraft(r) \/ KeyFails(r) \/ ReadDrafts(r) \/ ReadDraftsFails(r) \/ LoginRefused(r) \/ LoginFails(r)
        \/ Respond(r) \/ ReadComment(r) \/ CasComment(r)
        \/ \E u \in Users :
            \/ MarkRead(r, u)
            \/ \E b \in Bodies : AddDraft(r, u, b)
            \/ \E b \in Bodies \cup {""}, w \in {"nothing", "approve", "lgtm"} : Publish(r, u, b, w)
        \/ \E d \in DOMAIN keys : deleteComment(r, d) \/ \E b \in Bodies : EditDraft(r, d, b)
        \/ \E out \in Outcomes : SendNotifications(r, out) \/ SetState(r, out) \/ SetVote(r, out)
        \/ r \in Publishing /\ \E c \in req[r].posting, out \in Outcomes : AddCommentEx(r, c, out)
        \/ r \in Publishing /\ \E c \in req[r].deleting : DeletePosted(r, c)

Spec == Init /\ [][Next]_vars

-----------------------------------------------------------------------------
(* A draft key goes away only when the user deletes the draft or when Swarm has it: however
   requests interleave and calls fail, publishComments never loses a draft.  (It can post one
   twice, and an edit made while it runs is deleted with the draft.) *)
DraftsStay ==
    \A d \in DOMAIN keys \ DOMAIN keys' :
        \/ \E r \in Requests : deleteComment(r, d)
        \/ \E p \in swarm.comments : p.c.draft = d

(* A success told to the front end is one: every draft the request saw and its own comment are in
   Swarm, the participants were notified, and the approval or the vote it asked for was given. *)
AnswerHonest ==
    \A r \in Publishing : req[r].pc = "answered" /\ req[r].ok =>
        /\ \A c \in req[r].drafts : [c |-> c, by |-> r] \in swarm.comments
        /\ r \in swarm.notified
        /\ req[r].wants = "approve" => r \in swarm.approved
        /\ req[r].wants = "lgtm" => r \in swarm.voted

(* A mark as read that was acknowledged stays, and the change somebody else made to the comment
   meanwhile is not undone. *)
ReadersStay == shown.readBy \subseteq shown'.readBy /\ shown.version <= shown'.version
=============================================================================
