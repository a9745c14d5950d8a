----------------------------- MODULE FilePairs -----------------------------
(***************************************************************************)
(* getFilePairs of tools/ebert/handlers/review: which revisions of which   *)
(* files a review shows side by side, between two versions of a change, or *)
(* between the depot and a change when there is no base version.           *)
(*                                                                         *)
(* A change is a function from the paths it touches to file actions        *)
(* [action, digest, from, rev]: from is the path a move/add comes from, or *)
(* NoFile, and rev the revision p4 describe reports.  A file revision is   *)
(* [name, rev, cl], cl is "curr", "base" or "none", for a revision of the  *)
(* depot; NoRev is the empty fileRev.                                      *)
(***************************************************************************)
EXTENDS Integers, FiniteSets, Sequences, Functions

NoFile == "no file"
NoRev == [name |-> NoFile, rev |-> 0, cl |-> "none"]
AtCl(name, cl) == [name |-> name, rev |-> 0, cl |-> cl]
AtRev(name, rev) == [name |-> name, rev |-> rev, cl |-> "none"]

Adds(a) == a \in {"add", "move/add"}
Deletes(a) == a \in {"delete", "move/delete"}
\* strings.ReplaceAll on the action.
AddToDelete(a) == IF a = "move/add" THEN "move/delete" ELSE IF a = "add" THEN "delete" ELSE a
DeleteToAdd(a) == IF a = "move/delete" THEN "move/add" ELSE IF a = "delete" THEN "add" ELSE a

\* The pairs of the current change; a submitted change reports the revision it made.
CurrPair(fa, path, pending) ==
    [action |-> fa.action,
     digest |-> fa.digest,
     to |-> AtCl(path, "curr"),
     from |-> IF fa.from # NoFile THEN AtRev(fa.from, fa.rev)
              ELSE IF fa.action # "add" THEN AtRev(path, IF pending THEN fa.rev ELSE fa.rev - 1)
              ELSE NoRev]

\* A file of the base change that the current one no longer touches.
DroppedPair(fa, path) ==
    IF Adds(fa.action)
    THEN [action |-> AddToDelete(fa.action), digest |-> "", from |-> AtCl(path, "base"), to |-> NoRev]
    ELSE [action |-> IF fa.from # NoFile THEN DeleteToAdd(fa.action) ELSE "add",
          digest |-> "",
          from |-> IF fa.from # NoFile THEN AtRev(fa.from, fa.rev) ELSE AtRev(path, fa.rev),
          to |-> AtCl(path, "curr")]

\* Mutant: the pair still starts from the depot.
UpdatedPairMut(pair, fa, path) == pair
\* A file both changes touch, with different contents.
UpdatedPair(pair, fa, path) ==
    IF Deletes(fa.action) THEN pair
    ELSE [pair EXCEPT !.from = AtCl(path, "base"), !.action = IF Deletes(@) THEN @ ELSE "edit"]

\* The file a move/add comes from shows where it went.
MovedTo(files, path) ==
    {p \in DOMAIN files : files[p].action = "move/add" /\ files[p].from.name = path}
FixupMove(files, path) ==
    IF MovedTo(files, path) = {} THEN files[path]
    ELSE [files[path] EXCEPT !.to = files[CHOOSE p \in MovedTo(files, path) : TRUE].to]

\* base is the empty function when there is no base version.
getFilePairs(base, curr, pending) ==
    LET both == DOMAIN base \cap DOMAIN curr
        same == {p \in both : base[p].digest = curr[p].digest}
        pair(p) == CurrPair(curr[p], p, pending)
        files == [p \in (DOMAIN base \cup DOMAIN curr) \ same |->
                    IF p \in both THEN UpdatedPair(pair(p), base[p], p)
                    ELSE IF p \in DOMAIN curr THEN pair(p)
                    ELSE DroppedPair(base[p], p)]
        moved == [p \in DOMAIN files |-> FixupMove(files, p)]
    IN  [p \in DOMAIN moved |->
            IF moved[p].from = NoRev THEN [moved[p] EXCEPT !.action = "add"] ELSE moved[p]]

-----------------------------------------------------------------------------
(* Diff: what the page of a pair shows.  The contents of a file are one line; the marks of a diff
   are "=", "-" and "+", and an image is shown as it is on either side. *)

Absent == "absent"
Marks(from, to) ==
    IF from = to THEN {"="}
    ELSE {m \in {"-", "+"} : (m = "-" /\ from # Absent) \/ (m = "+" /\ to # Absent)}
textDiff(from, to) == Marks(from, to)
\* Image contents are sent whole, each side that there is.
binaryDiff(from, to, image) ==
    IF ~image THEN Marks(from, to)
    ELSE {m \in {"-", "+"} : (m = "-" /\ from # Absent) \/ (m = "+" /\ to # Absent)}

\* Mutant: the two sides of a deletion are not swapped.
SidesMut(action, first, second) == [from |-> second, to |-> first]
\* PrintEx prints the new revision first; of a deletion it only prints the old one.
Sides(action, first, second) ==
    IF Deletes(action) THEN [from |-> first, to |-> second] ELSE [from |-> second, to |-> first]

\* contents gives what p4 print finds for a revision, Absent when there is none.
Diff(pair, kind, contents) ==
    LET revs == (IF pair.to # NoRev /\ ~Deletes(pair.action) THEN <<pair.to>> ELSE <<>>)
                    \o (IF pair.from # NoRev THEN <<pair.from>> ELSE <<>>)
        sides == Sides(pair.action, contents[revs[1]],
                       IF Len(revs) > 1 THEN contents[revs[2]] ELSE Absent)
    IN  IF pair.action = "move/delete" THEN {"moved"}
        ELSE IF revs = <<>> THEN {"nothing"}
        ELSE IF \E i \in DOMAIN revs : contents[revs[i]] = Absent THEN {"failed"}
        ELSE IF kind = "text" THEN textDiff(sides.from, sides.to)
        ELSE binaryDiff(sides.from, sides.to, kind = "image")

-----------------------------------------------------------------------------
(* The reference: what the two versions make of a path. *)

Content(change, path, depot) ==
    IF path \notin DOMAIN change THEN depot[path]
    ELSE IF Deletes(change[path].action) THEN Absent ELSE change[path].digest
\* What a fileRev denotes; the current version of a file the change does not touch, or deletes,
\* does not exist.
Denotes(fr, base, curr, depot) ==
    CASE fr = NoRev -> Absent
      [] fr.cl = "base" -> IF fr.name \in DOMAIN base THEN Content(base, fr.name, depot) ELSE Absent
      [] fr.cl = "curr" -> IF fr.name \in DOMAIN curr THEN Content(curr, fr.name, depot) ELSE Absent
      [] OTHER -> depot[fr.name]

\* An edit or a move in the base version that the current one no longer makes.
Reverted(base, curr) == {p \in DOMAIN base \ DOMAIN curr : ~Adds(base[p].action)}
\* A deletion in the base version that the current one replaces by something else.
Restored(base, curr) == {p \in DOMAIN base \cap DOMAIN curr : Deletes(base[p].action)}
\* The path a file that the change newly moves comes from, and the path it goes to.
Origin(p, base, curr) ==
    IF p \in DOMAIN curr \ DOMAIN base /\ curr[p].action = "move/add" THEN curr[p].from ELSE p
Target(p, base, curr) ==
    LET to == {q \in DOMAIN curr \ DOMAIN base : Origin(q, base, curr) = p /\ q # p}
    IN  IF to = {} THEN p ELSE CHOOSE q \in to : TRUE
\* The pairs show the change from before to after of every path that differs, and no other; a
\* move is shown on both paths, and starts from the depot's revision of the file.
ShowsChange(p, pairs, base, curr, depot) ==
    LET from == Origin(p, base, curr)
        to == Target(p, base, curr)
        before == IF from = p THEN Content(base, p, depot) ELSE depot[from]
        after == Content(curr, to, depot)
    IN  IF before = after /\ from = to THEN p \notin DOMAIN pairs
        ELSE /\ p \in DOMAIN pairs
             /\ Denotes(pairs[p].from, base, curr, depot) = before
             /\ Denotes(pairs[p].to, base, curr, depot) = after
             /\ pairs[p].action # "move/delete" =>
                    LET found == [fr \in {pairs[p].from, pairs[p].to} |-> Denotes(fr, base, curr, depot)]
                    IN  \A kind \in {"text", "binary"} : Diff(pairs[p], kind, found) = Marks(before, after)
=============================================================================
