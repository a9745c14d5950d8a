----------------------------- MODULE Perculator -----------------------------
(***************************************************************************)
(* tools/perculator: the statistics of submitted changes.  A session loads *)
(* what the last one saved, asks p4 for the changes after it, describes    *)
(* each in a goroutine, and saves the whole list again whenever an answer  *)
(* arrives.  The window takes one message of each channel in a frame.  The *)
(* process may end at any point, in the middle of a save too.              *)
(*                                                                         *)
(* Change n is the n-th submitted one.  A file holds a sequence of change  *)
(* numbers, or is torn: then it does not parse and reads as empty.         *)
(***************************************************************************)
EXTENDS Naturals, Sequences, FiniteSetsExt

CONSTANTS
    MaxCl,        \* bound: changes submitted
    MaxSessions,  \* bound: times the tool is started
    Writers,      \* the users whose changes are submitted
    Excluded      \* excludedUsers

VARIABLES
    author,       \* the user of each submitted change
    changesFile, detailsFile,
    session,      \* sessions started
    ctx,          \* perculatorContext: users, changes and details, and the statistics of changes and files
    usersChan, changesChan,  \* messages whose sender waits for the window
    detailsChan,  \* messages on detailsChan, in no order: every sender is a goroutine of its own
    fetching,     \* the goroutines to run: fetchUsers, fetchChanges, saveChanges, fetchDetails
    jobs,         \* changes whose processDetails has not run
    saver         \* threadGeneric: the signals it has not taken and the details it is writing

vars == <<author, changesFile, detailsFile, session, ctx, usersChan, changesChan,
          detailsChan, fetching, jobs, saver>>

Torn == [torn |-> TRUE, cls |-> <<>>]
File(cls) == [torn |-> FALSE, cls |-> cls]
NotWriting == <<0>>
Message == "waits"
NoMessage == "none"

ctx0 == [users |-> {}, changes |-> <<>>, details |-> <<>>, clCount |-> 0, counted |-> [n \in 1 .. MaxCl |-> 0]]
saver0 == [signals |-> FALSE, writing |-> NotWriting]

Init ==
    /\ author = <<>>
    /\ changesFile = File(<<>>) /\ detailsFile = File(<<>>)
    /\ session = 1
    /\ ctx = ctx0
    /\ usersChan = NoMessage /\ changesChan = <<>> /\ detailsChan = {}
    /\ fetching = {"users"} /\ jobs = {}
    /\ saver = saver0

Submit(u) ==
    /\ Len(author) < MaxCl
    /\ author' = Append(author, u)
    /\ UNCHANGED <<changesFile, detailsFile, session, ctx, usersChan, changesChan, detailsChan,
                   fetching, jobs, saver>>

\* JsonLoad of a file, and the newest change in it.
JsonLoad(f) == f.cls
firstCl(cls) == Max({0} \cup Range(cls))

-----------------------------------------------------------------------------
(* The goroutines. *)

fetchUsers ==
    /\ "users" \in fetching
    /\ fetching' = fetching \ {"users"}
    /\ usersChan' \in {NoMessage, Message}
    /\ UNCHANGED <<author, changesFile, detailsFile, session, ctx, changesChan, detailsChan, jobs, saver>>

\* Mutant: the newest saved change is asked for again.
NewerMut(cls) == [i \in 1 .. Len(author) + 1 - Max({1, firstCl(cls)}) |-> Len(author) + 1 - i]
\* The changes after the newest saved one: p4 lists the newest first.
Newer(cls) == [i \in 1 .. Len(author) - firstCl(cls) |-> Len(author) + 1 - i]
\* When p4 fails, only the saved changes are shown.
fetchChanges ==
    /\ "changes" \in fetching
    /\ LET first == JsonLoad(changesFile)
       IN  changesChan' \in {<<Message, first \o Newer(first)>>, <<Message, first>>}
    /\ fetching' = fetching \ {"changes"}
    /\ UNCHANGED <<author, changesFile, detailsFile, session, ctx, usersChan, detailsChan, jobs, saver>>

saveChanges ==
    /\ "save" \in fetching
    /\ fetching' = fetching \ {"save"}
    /\ changesFile' = IF ctx.changes = <<>> THEN changesFile ELSE File(ctx.changes)
    /\ UNCHANGED <<author, detailsFile, session, ctx, usersChan, changesChan, detailsChan, jobs, saver>>

\* Mutant: the newest saved change is described again.
UndescribedMut(first) == {i \in Range(ctx.changes) : i >= firstCl(first)}
Undescribed(first) == {i \in Range(ctx.changes) : i > firstCl(first)}
\* The saved details are sent first; only when the window has taken them do the jobs start.
fetchDetails ==
    /\ "details" \in fetching
    /\ detailsChan' = {<<"first", JsonLoad(detailsFile)>>}
    /\ fetching' = fetching \ {"details"}
    /\ UNCHANGED <<author, changesFile, detailsFile, session, ctx, usersChan, changesChan, jobs, saver>>

\* Describe, then Sizes; a change for which either fails is dropped.
processDetails(n) ==
    /\ n \in jobs
    /\ jobs' = jobs \ {n}
    /\ detailsChan' \in {detailsChan, detailsChan \cup {<<"job", <<n>>>>}}
    /\ UNCHANGED <<author, changesFile, detailsFile, session, ctx, usersChan, changesChan, fetching, saver>>

\* threadGeneric with processSaveDetails: the details the window has at this moment are written;
\* more signals may wait behind the one taken.
BeginSave ==
    /\ saver.signals /\ saver.writing = NotWriting /\ ctx.details # <<>>
    /\ \E more \in BOOLEAN : saver' = [signals |-> more, writing |-> ctx.details]
    /\ UNCHANGED <<author, changesFile, detailsFile, session, ctx, usersChan, changesChan, detailsChan,
                   fetching, jobs>>
EndSave ==
    /\ saver.writing # NotWriting
    /\ detailsFile' = File(saver.writing)
    /\ saver' = [saver EXCEPT !.writing = NotWriting]
    /\ UNCHANGED <<author, changesFile, session, ctx, usersChan, changesChan, detailsChan, fetching, jobs>>

-----------------------------------------------------------------------------
(* The window. *)

getFilteredUsers(users) == users \ Excluded
updateUsers ==
    /\ usersChan = Message
    /\ ctx' = [ctx EXCEPT !.users = getFilteredUsers(Writers)]
    /\ usersChan' = NoMessage
    /\ fetching' = fetching \cup {"changes"}
    /\ UNCHANGED <<author, changesFile, detailsFile, session, changesChan, detailsChan, jobs, saver>>

updateChanges ==
    /\ changesChan # <<>>
    /\ LET cls == changesChan[2]
       IN  ctx' = [ctx EXCEPT !.changes = cls,
                              !.clCount = @ + Len(SelectSeq(cls, LAMBDA n : author[n] \in ctx.users))]
    /\ changesChan' = <<>>
    /\ fetching' = fetching \cup {"save", "details"}
    /\ UNCHANGED <<author, changesFile, detailsFile, session, usersChan, detailsChan, jobs, saver>>

\* counted: how often a change was added to its user's file statistics.  A goroutine then asks for
\* a save.
updateDetails(m) ==
    /\ m \in detailsChan
    /\ LET known(n) == n \in Range(ctx.changes) /\ author[n] \in ctx.users
           found(n) == {i \in DOMAIN m[2] : m[2][i] = n /\ known(n)}
       IN  ctx' = [ctx EXCEPT !.details = @ \o m[2],
                              !.counted = [n \in DOMAIN @ |-> @[n] + Cardinality(found(n))]]
    /\ jobs' = IF m[1] = "first" THEN Undescribed(m[2]) ELSE jobs
    /\ detailsChan' = detailsChan \ {m}
    /\ saver' = [saver EXCEPT !.signals = TRUE]
    /\ UNCHANGED <<author, changesFile, detailsFile, session, usersChan, changesChan, fetching>>

\* The tool ends, at any point, and is started again: a file being written is left torn, and the
\* messages and goroutines are gone.  (deinit stops nothing: the break of threadGeneric leaves
\* only its select.)
Restart(savingChanges) ==
    /\ session < MaxSessions
    /\ savingChanges => "save" \in fetching /\ ctx.changes # <<>>
    /\ session' = session + 1
    /\ changesFile' = IF savingChanges THEN Torn ELSE changesFile
    /\ detailsFile' = IF saver.writing = NotWriting THEN detailsFile ELSE Torn
    /\ ctx' = ctx0 /\ saver' = saver0
    /\ usersChan' = NoMessage /\ changesChan' = <<>> /\ detailsChan' = {}
    /\ fetching' = {"users"} /\ jobs' = {}
    /\ UNCHANGED author

Next ==
    \/ \E u \in Writers : Submit(u)
    \/ fetchUsers \/ fetchChanges \/ saveChanges \/ fetchDetails \/ BeginSave \/ EndSave
    \/ \E n \in jobs : processDetails(n)
    \/ updateUsers \/ updateChanges
    \/ \E m \in detailsChan : updateDetails(m)
    \/ \E b \in BOOLEAN : Restart(b)

Spec == Init /\ [][Next]_vars

-----------------------------------------------------------------------------
(* However the sessions end, a change is neither listed nor described twice, in the window or in a
   file, and the list of changes has no gap: after a restart the work goes on exactly after the
   newest change that was saved.  (The details may have gaps, and keep them: a change whose job
   failed or was lost is older than the newest one saved, so no later session describes it.) *)
NothingTwice ==
    /\ \A cls \in {changesFile.cls, detailsFile.cls, ctx.changes, ctx.details} : IsInjective(cls)
    /\ \A cls \in {changesFile.cls, ctx.changes} : Range(cls) = 1 .. Len(cls)
    /\ \A n \in DOMAIN ctx.counted : ctx.counted[n] <= 1
=============================================================================
