------------------------------ MODULE TextDiff ------------------------------
(***************************************************************************)
(* tools/ebert/diff: the line diff Ebert shows, Myers' algorithm on what   *)
(* is left between the common prefix and the common suffix.  A diff is a   *)
(* sequence of <<edit, line>> with the edits "=", "-" and "+".             *)
(***************************************************************************)
EXTENDS Integers, Sequences, SequencesExt

findCommonPrefix(from, to) == Len(LongestCommonPrefix({from, to}))
\* Mutant: the suffix is looked for in the whole of both texts, where it may overlap the prefix.
Common(from, to) == [prefix |-> findCommonPrefix(from, to),
                     suffix |-> findCommonPrefix(Reverse(from), Reverse(to))]
\* The suffix is looked for in what follows the prefix.
PrefixSuffix(from, to) ==
    LET p == findCommonPrefix(from, to)
        rest(s) == SubSeq(s, p + 1, Len(s))
    IN  [prefix |-> p, suffix |-> findCommonPrefix(Reverse(rest(from)), Reverse(rest(to)))]

-----------------------------------------------------------------------------
(* myersDiff: v[k] is the furthest point on the diagonal k, x counts lines of to and y lines of
   from, and path the edits that lead there. *)

Snake(from, to, x, y) ==
    LET same(i) == x + i <= Len(to) /\ y + i <= Len(from) /\ to[x + i] = from[y + i]
        lengths == {n \in 0 .. Len(to) : \A i \in 1 .. n : same(i)}
    IN  CHOOSE n \in lengths : \A m \in lengths : m <= n

\* Mutant: the other neighbour is preferred.
DownMut(v, k, d) == k = -d \/ (k # d /\ v[k - 1].x > v[k + 1].x)
\* Whether the step to diagonal k deletes a line of from.
Down(v, k, d) == k = -d \/ (k # d /\ v[k - 1].x < v[k + 1].x)

\* One pass of the inner loop: the state has v, and the edits once the end is reached.
Pass(from, to, st, d, k) ==
    LET down == Down(st.v, k, d)
        x0 == IF down THEN st.v[k + 1].x ELSE st.v[k - 1].x + 1
        path == IF down THEN Append(st.v[k + 1].path, "-") ELSE Append(st.v[k - 1].path, "+")
        n == Snake(from, to, x0, x0 - k)
        whole == path \o [i \in 1 .. n |-> "="]
    IN  IF st.done THEN st
        ELSE IF x0 + n >= Len(to) /\ x0 + n - k >= Len(from)
        THEN [st EXCEPT !.done = TRUE, !.edits = Tail(whole)]
        ELSE [st EXCEPT !.v[k] = [x |-> x0 + n, path |-> whole]]

\* The diagonals of round d, in the order of the loop.
Diagonals(d) == [i \in 1 .. d + 1 |-> <<d, 2 * (i - 1) - d>>]
myersEdits(from, to) ==
    LET max == Len(from) + Len(to)
        rounds == FlattenSeq([i \in 1 .. max + 1 |-> Diagonals(i - 1)])
        start == [done |-> FALSE, edits |-> <<>>,
                  v |-> [k \in -(max + 1) .. max + 1 |-> [x |-> 0, path |-> <<>>]]]
    IN  IF max = 0 THEN <<>>
        ELSE FoldLeft(LAMBDA st, dk : Pass(from, to, st, dk[1], dk[2]), start, rounds).edits

\* The edits applied, as a fold with the two positions; ok is false where the code returns an
\* error or reads past the end of a slice.
buildDiffs(from, to, edits) ==
    FoldLeft(LAMBDA st, e :
        LET f == st.fi + 1
            t == st.ti + 1
            fits == (e = "+" \/ f <= Len(from)) /\ (e = "-" \/ t <= Len(to))
        IN  IF ~st.ok \/ ~fits \/ (e = "=" /\ from[f] # to[t]) THEN [st EXCEPT !.ok = FALSE]
            ELSE [ok |-> TRUE,
                  fi |-> IF e = "+" THEN st.fi ELSE f,
                  ti |-> IF e = "-" THEN st.ti ELSE t,
                  out |-> Append(st.out, <<e, IF e = "+" THEN to[t] ELSE from[f]>>)],
        [ok |-> TRUE, fi |-> 0, ti |-> 0, out |-> <<>>], edits)

Keep(lines) == [i \in 1 .. Len(lines) |-> <<"=", lines[i]>>]
Compute(from, to) ==
    LET ps == PrefixSuffix(from, to)
        mid(s) == SubSeq(s, ps.prefix + 1, Len(s) - ps.suffix)
        middle == buildDiffs(mid(from), mid(to), myersEdits(mid(from), mid(to)))
    IN  [ok |-> middle.ok,
         diff |-> Keep(SubSeq(from, 1, ps.prefix)) \o middle.out
                     \o Keep(SubSeq(from, Len(from) - ps.suffix + 1, Len(from)))]

-----------------------------------------------------------------------------
(* The reference: the length of a longest common subsequence. *)

LcsLength(s, t) ==
    LET lcs[i \in 0 .. Len(s), j \in 0 .. Len(t)] ==
            IF i = 0 \/ j = 0 THEN 0
            ELSE IF s[i] = t[j] THEN lcs[i - 1, j - 1] + 1
            ELSE IF lcs[i - 1, j] > lcs[i, j - 1] THEN lcs[i - 1, j] ELSE lcs[i, j - 1]
    IN  lcs[Len(s), Len(t)]
Side(diff, edits) ==
    LET picked == SelectSeq(diff, LAMBDA d : d[1] \in edits)
    IN  [i \in 1 .. Len(picked) |-> picked[i][2]]
IsMinimalDiff(from, to, d) ==
    /\ d.ok
    /\ Side(d.diff, {"=", "-"}) = from
    /\ Side(d.diff, {"=", "+"}) = to
    /\ Len(Side(d.diff, {"="})) = LcsLength(from, to)
=============================================================================
