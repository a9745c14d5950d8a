----------------------------- MODULE SideBySide -----------------------------
(***************************************************************************)
(* How tools/gigantick shows two revisions of a file side by side: from    *)
(* the output of p4 diff2 (diffsBuild of p4lib) to the two columns and to  *)
(* the lines on display (fileDiff.build and diffSpanner).                  *)
(*                                                                         *)
(* A line of diff2 is <<l0, l1, op, r0, r1>>, l1 and r1 are 0 when they    *)
(* are left out, or <<>> for a line of text.  p4 print puts a header       *)
(* before the file, so line n has index n and index 0 is the header.  An   *)
(* entry of a column is the index of its line, or Pad.                     *)
(***************************************************************************)
EXTENDS Integers, Sequences, SequencesExt, FiniteSetsExt

Pad == 0 - 1

\* diffsBuild: the range of a single line has no closing number.
diffsBuild(lines) ==
    LET diff(x) == [l0 |-> x[1], l1 |-> Max({x[1], x[2]}), type |-> x[3],
                    r0 |-> x[4], r1 |-> Max({x[4], x[5]})]
        hunks == SelectSeq(lines, LAMBDA x : x # <<>>)
    IN  [i \in DOMAIN hunks |-> diff(hunks[i])]

Lines(from, to) == [i \in 1 .. Max({0, to - from + 1}) |-> from + i - 1]
Pads(n) == [i \in 1 .. Max({0, n}) |-> Pad]

\* Mutant: the line an addition follows is left for the next difference.
AddedMut(cols, d) ==
    [cols EXCEPT !.left = @ \o Pads(d.r1 - cols.r + 1), !.right = @ \o Lines(cols.r, d.r1), !.r = d.r1 + 1]
\* The lines of one difference; l and r are the cursors.
Added(cols, d) ==
    [cols EXCEPT !.left = @ \o Lines(cols.l, d.l0) \o Pads(d.r1 - cols.r + 1), !.l = d.l0 + 1,
                 !.right = @ \o Lines(cols.r, d.r1), !.r = d.r1 + 1]
Deleted(cols, d) ==
    [cols EXCEPT !.right = @ \o Lines(cols.r, d.r0) \o Pads(d.l1 - cols.l + 1), !.r = d.r0 + 1,
                 !.left = @ \o Lines(cols.l, d.l1), !.l = d.l1 + 1]
Changed(cols, d) ==
    LET n == d.l1 - cols.l + 1
        m == d.r1 - cols.r + 1
    IN  [cols EXCEPT !.left = @ \o Lines(cols.l, d.l1) \o Pads(m - n), !.l = d.l1 + 1,
                     !.right = @ \o Lines(cols.r, d.r1) \o Pads(n - m), !.r = d.r1 + 1]
Hunk(cols, d) == CASE d.type = "a" -> Added(cols, d) [] d.type = "d" -> Deleted(cols, d) [] OTHER -> Changed(cols, d)

\* diffSpanner.insert: with the lines around it, merged into the first span it meets.
insert(spans, from, to, around) ==
    LET start == Max({0, from - around})
        end == to + around
        meets == SelectInSeq(spans, LAMBDA s : end >= s.start /\ start <= s.end)
        before == {i \in 2 .. Len(spans) : end < spans[i].start /\ start > spans[i - 1].end}
        new == [start |-> start, end |-> end]
    IN  IF meets # 0 /\ (before = {} \/ meets < Min(before))
        THEN [spans EXCEPT ![meets] = [start |-> Min({@.start, start}), end |-> Max({@.end, end})]]
        ELSE IF before # {} THEN InsertAt(spans, Min(before), new)
        ELSE Append(spans, new)
\* validate, which ends the program when it is false.
validate(spans) ==
    /\ \A i \in DOMAIN spans : spans[i].start <= spans[i].end
    /\ \A i \in 2 .. Len(spans) : spans[i - 1].end <= spans[i].start

\* The unchanged lines up to a difference, the difference, and its span.
AddDiff(cols, d, around) ==
    LET upto == [cols EXCEPT !.left = @ \o Lines(cols.l, d.l0 - 1), !.l = Max({@, d.l0}),
                             !.right = @ \o Lines(cols.r, d.r0 - 1), !.r = Max({@, d.r0})]
        after == Hunk(upto, d)
    IN  [after EXCEPT !.spans = insert(@, Len(upto.left), Len(after.left), around)]
Columns(diffs, around) ==
    FoldLeft(LAMBDA cols, d : AddDiff(cols, d, around),
             [left |-> <<>>, right |-> <<>>, l |-> 0, r |-> 0, spans |-> <<>>], diffs)

\* The display: the lines of every span, an expander where lines are left out.  Rows count from 0.
Expander(row) == [type |-> "expander", row |-> row]
CodeLine(row) == [type |-> "code", row |-> row]
Display(cols) ==
    LET size == Len(cols.left)
        show(out, s) ==
            LET gap == (out = <<>> \/ out[Len(out)].type # "expander") /\ s.start > 1
                rows == SelectSeq(Lines(s.start, s.end), LAMBDA j : j > 0 /\ j < size)
            IN  out \o (IF gap THEN <<Expander(s.start - 1)>> ELSE <<>>)
                    \o [i \in DOMAIN rows |-> CodeLine(rows[i])]
                    \o (IF s.end < size THEN <<Expander(s.end + 1)>> ELSE <<>>)
    IN  FoldLeft(show, <<>>, cols.spans)

\* A comment goes behind the first displayed line at or after the one it is on, or to the end.
PlaceComment(display, line) ==
    LET found == SelectInSeq(display, LAMBDA x : x.type = "code" /\ x.row >= line)
    IN  IF found = 0 \/ found >= Len(display) THEN Append(display, [type |-> "comment", row |-> line])
        ELSE InsertAt(display, found + 1, [type |-> "comment", row |-> line])

\* checkConsistency, which ends the program when it is false.
checkConsistency(display) ==
    LET code == SelectSeq(display, LAMBDA x : x.type = "code")
    IN  \A i, j \in DOMAIN code : i < j => code[i].row <= code[j].row
=============================================================================
