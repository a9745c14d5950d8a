---------------------------- MODULE P4Workspace ----------------------------
(***************************************************************************)
(* The commands of p4lib (p4_impl.go) that change a workspace, as cirunner *)
(* and the tools use them: authors open, shelve and submit files, a CI     *)
(* machine syncs and unshelves a changelist with VerifiedUnshelve, three   *)
(* commands between which others go on.                                    *)
(*                                                                         *)
(* The server is external: a command does what Perforce documents for it.  *)
(* A file that is opened is open at a revision, its base; changelist 0 is  *)
(* the default one.                                                        *)
(***************************************************************************)
EXTENDS Naturals, FiniteSets

CONSTANTS
    Authors,    \* workspaces of authors
    Ci,         \* the workspace of the CI machine
    Files,
    MaxRev,     \* bound: revisions of a file
    MaxCl       \* bound: changelists

VARIABLES
    head,       \* head[f]: the newest revision, 0 if the file was never submitted
    have,       \* have[c][f]: the revision c has synced, 0 if none
    opened,     \* opened[c]: the files c has open, each with [action, cl, base]
    edited,     \* edited[c]: files changed on disk and not open
    owner,      \* owner[cl]: the workspace of a pending changelist, "none" or "submitted"
    shelf,      \* shelf[cl]: the shelved files with their base revisions
    ci,         \* the locals of VerifiedUnshelve
    unshelved   \* history: [file, base, had, same] of the files unshelved last

vars == <<head, have, opened, edited, owner, shelf, ci, unshelved>>
Clients == Authors \cup {Ci}
Cls == 1 .. MaxCl
Nothing == [f \in {} |-> 0]
\* The CI machine has a workspace of its own.
WorkspaceConstants == Ci \notin Authors /\ MaxCl \in Nat

IdleCi == [pc |-> "idle", cl |-> 0, files |-> Nothing, haves |-> Nothing]

Init ==
    /\ head = [f \in Files |-> 1]
    /\ have = [c \in Clients |-> [f \in Files |-> 1]]
    /\ opened = [c \in Clients |-> Nothing]
    /\ edited = [c \in Clients |-> {}]
    /\ owner = [cl \in Cls |-> "none"]
    /\ shelf = [cl \in Cls |-> Nothing]
    /\ ci = IdleCi
    /\ unshelved = {}

-----------------------------------------------------------------------------
(* One command each. *)

Closed(c) == Files \ DOMAIN opened[c]
OpenAs(c, files, action, cl) ==
    opened' = [opened EXCEPT ![c] =
        [f \in DOMAIN @ \cup files |->
            IF f \in DOMAIN @ THEN @[f] ELSE [action |-> action, cl |-> cl, base |-> have[c][f]]]]
Owns(c, cl) == cl # 0 => owner[cl] = c

\* The first free number; Change reads it back from the output.
Change(c) ==
    /\ \E cl \in Cls : /\ owner[cl] = "none" /\ \A d \in 1 .. cl - 1 : owner[d] # "none"
                       /\ owner' = [owner EXCEPT ![cl] = c]
    /\ UNCHANGED <<head, have, opened, edited, shelf, ci, unshelved>>

EditFile(c, f) ==
    /\ f \in Closed(c) \ edited[c]
    /\ edited' = [edited EXCEPT ![c] = @ \cup {f}]
    /\ UNCHANGED <<head, have, opened, owner, shelf, ci, unshelved>>

\* Edit and Delete on files that are synced, Add on files that are not.
Open(c, f, cl) ==
    /\ f \in Closed(c) /\ Owns(c, cl)
    /\ \E action \in IF have[c][f] = 0 THEN {"add"} ELSE {"edit", "delete"} :
          OpenAs(c, {f}, action, cl)
    /\ edited' = [edited EXCEPT ![c] = @ \ {f}]
    /\ UNCHANGED <<head, have, owner, shelf, ci, unshelved>>

\* Reconcile opens what differs from the depot.
Reconcile(c, cl) ==
    /\ edited[c] # {} /\ Owns(c, cl)
    /\ OpenAs(c, edited[c], "edit", cl)
    /\ edited' = [edited EXCEPT ![c] = {}]
    /\ UNCHANGED <<head, have, owner, shelf, ci, unshelved>>

Revert(c, f) ==
    /\ f \in DOMAIN opened[c]
    /\ opened' = [opened EXCEPT ![c] = [g \in DOMAIN @ \ {f} |-> @[g]]]
    /\ UNCHANGED <<head, have, edited, owner, shelf, ci, unshelved>>

\* p4 sync; a file that is open is resolved against the revision it is synced to.
Sync(c) ==
    /\ have[c] # head
    /\ have' = [have EXCEPT ![c] = head]
    /\ opened' = [opened EXCEPT ![c] = [f \in DOMAIN @ |-> [@[f] EXCEPT !.base = head[f]]]]
    /\ c = Ci => ci.pc = "idle"
    /\ UNCHANGED <<head, edited, owner, shelf, ci, unshelved>>

InCl(c, cl) == {f \in DOMAIN opened[c] : opened[c][f].cl = cl}
\* p4 shelve -f, by the author of the change (Swarm's review starts with it).
Shelve(c, cl) ==
    /\ owner[cl] = c /\ InCl(c, cl) # {}
    /\ shelf' = [shelf EXCEPT ![cl] = [f \in InCl(c, cl) |-> opened[c][f].base]]
    /\ UNCHANGED <<head, have, opened, edited, owner, ci, unshelved>>

\* p4 submit refuses files that are not open at the newest revision.
Submit(c, cl) ==
    /\ owner[cl] = c /\ InCl(c, cl) # {}
    /\ \A f \in InCl(c, cl) : opened[c][f].base = head[f] /\ head[f] < MaxRev
    /\ head' = [f \in Files |-> IF f \in InCl(c, cl) THEN head[f] + 1 ELSE head[f]]
    /\ have' = [have EXCEPT ![c] = [f \in Files |-> IF f \in InCl(c, cl) THEN head[f] + 1 ELSE @[f]]]
    /\ opened' = [opened EXCEPT ![c] = [f \in DOMAIN @ \ InCl(c, cl) |-> @[f]]]
    /\ owner' = [owner EXCEPT ![cl] = "submitted"]
    /\ shelf' = [shelf EXCEPT ![cl] = Nothing]
    /\ UNCHANGED <<edited, ci, unshelved>>

-----------------------------------------------------------------------------
(* VerifiedUnshelve on the CI machine: DescribeShelved, Have, verifyCL, Unshelve -f. *)

DescribeShelved(cl) ==
    /\ ci.pc = "idle" /\ DOMAIN opened[Ci] = {} /\ shelf[cl] # Nothing
    /\ ci' = [ci EXCEPT !.pc = "have", !.cl = cl, !.files = shelf[cl]]
    /\ UNCHANGED <<head, have, opened, edited, owner, shelf, unshelved>>

\* haveParse keeps the lines of files that are synced.
Have ==
    /\ ci.pc = "have"
    /\ ci' = [ci EXCEPT !.pc = "verify",
                        !.haves = [f \in {g \in DOMAIN ci.files : have[Ci][g] > 0} |-> have[Ci][f]]]
    /\ UNCHANGED <<head, have, opened, edited, owner, shelf, unshelved>>

\* Mutant: the revisions are compared the wrong way round.
verifyCLMut(clFiles, clientFiles) ==
    \A f \in DOMAIN clFiles \cap DOMAIN clientFiles : clientFiles[f] >= clFiles[f]
\* No file of the CL is older than the client's.
verifyCL(clFiles, clientFiles) ==
    \A f \in DOMAIN clFiles \cap DOMAIN clientFiles : clientFiles[f] <= clFiles[f]

Refuse ==
    /\ ci.pc = "verify" /\ ~verifyCL(ci.files, ci.haves)
    /\ ci' = IdleCi
    /\ UNCHANGED <<head, have, opened, edited, owner, shelf, unshelved>>

\* The shelf as it is now, which the author may have replaced since it was described.
Unshelve ==
    LET files == shelf[ci.cl] IN
    /\ ci.pc = "verify" /\ verifyCL(ci.files, ci.haves)
    /\ opened' = [opened EXCEPT ![Ci] =
          [f \in DOMAIN files |-> [action |-> "edit", cl |-> 0, base |-> files[f]]]]
    /\ unshelved' = {[file |-> f, base |-> files[f], had |-> have[Ci][f], same |-> files = ci.files] :
                        f \in DOMAIN files}
    /\ ci' = IdleCi
    /\ UNCHANGED <<head, have, edited, owner, shelf>>

Next ==
    \/ \E a \in Authors :
          \/ Change(a)
          \/ \E f \in Files : EditFile(a, f) \/ Revert(a, f) \/ (\E cl \in 0 .. MaxCl : Open(a, f, cl))
          \/ \E cl \in Cls : Reconcile(a, cl) \/ Shelve(a, cl) \/ Submit(a, cl)
    \/ \E c \in Clients : Sync(c)
    \/ \E f \in Files : ci.pc = "idle" /\ Revert(Ci, f)
    \/ (\E cl \in Cls : DescribeShelved(cl)) \/ Have \/ Refuse \/ Unshelve

Spec == Init /\ [][Next]_vars

-----------------------------------------------------------------------------
(* VerifiedUnshelve "will verify that no file is newer within the checkout" (p4.go:221): a shelf
   that is still the one it described never overwrites a newer file of the checkout, whatever
   was submitted and synced since the author opened the files. *)
UnshelveStompsNothing == \A u \in unshelved : u.same => u.had <= u.base
=============================================================================
