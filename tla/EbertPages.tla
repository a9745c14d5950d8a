----------------------------- MODULE EbertPages -----------------------------
(***************************************************************************)
(* Which handler of Ebert a request goes to and with which arguments       *)
(* (handlers.go, mux.go), what the dashboard lists for a user              *)
(* (dashboard.go), and the bugs a review is about (review.go).             *)
(*                                                                         *)
(* A path is the sequence of its segments; a pattern has segments          *)
(* <<"lit", text>> and <<"par", name>>.                                    *)
(***************************************************************************)
EXTENDS Integers, Sequences, FiniteSets, SequencesExt, FiniteSetsExt

IsParam(seg) == seg[1] = "par"
Params(pattern) == {i \in DOMAIN pattern : IsParam(pattern[i])}

\* Mutant: a parameter costs the same wherever it is.
PenaltyMut(i) == 1
\* In units of 2^-8: 0.5^(i+1) for the part with index i, the part before the first slash being 0.
Penalty(i) == 2 ^ (7 - i)
specificity(pattern) == (Len(pattern) + 1) * 256 - MapThenSumSet(Penalty, Params(pattern))

\* sort.Search, then an insertion before the first less specific route.
Handle(routes, pattern) ==
    LET idx == SelectInSeq(routes, LAMBDA p : specificity(p) < specificity(pattern))
    IN  IF idx = 0 THEN Append(routes, pattern) ELSE InsertAt(routes, idx, pattern)

\* The regular expression is not anchored: it may match from any slash, and a last literal need
\* only be a prefix of its segment (prefixOf, given by its pairs of different texts).
MatchesAt(pattern, path, k, prefixOf) ==
    \A i \in DOMAIN pattern :
        LET last == i = Len(pattern)
            seg == path[k + i]
        IN  /\ k + i \in DOMAIN path
            /\ IF IsParam(pattern[i]) THEN last \/ seg # ""
               ELSE pattern[i][2] = seg \/ (last /\ <<pattern[i][2], seg>> \in prefixOf)
Matches(pattern, path, prefixOf) == \E k \in 0 .. Len(path) - 1 : MatchesAt(pattern, path, k, prefixOf)

\* The first route that matches, or the empty pattern for ErrRouteNotFound.
Serve(routes, path, prefixOf) ==
    LET idx == SelectInSeq(routes, LAMBDA p : Matches(p, path, prefixOf))
    IN  IF idx = 0 THEN <<>> ELSE routes[idx]

\* The values of the parameters, by name; a last parameter takes the rest of the path.  The loop
\* goes on at i = len(parts), where there is no part: it would panic there.
makeArgParser(pattern, path) ==
    LET split == Min(Params(pattern) \cup {Len(pattern) + 1})
        prefix == [i \in 1 .. split - 1 |-> pattern[i][2]]
        segments == SubSeq(pattern, split, Len(pattern))
        parts == IF IsPrefix(prefix, path) /\ Len(path) >= split THEN SubSeq(path, split, Len(path))
                 ELSE <<"">> \o path
        used == {i \in DOMAIN segments : i - 1 <= Len(parts)}
    IN  IF \E i \in used : i > Len(parts) THEN [panic |-> TRUE]
        ELSE IF \E i \in used : ~IsParam(segments[i]) /\ segments[i][2] # parts[i] THEN [error |-> TRUE]
        ELSE [args |-> {<<segments[i][2], IF i = Len(segments) THEN SubSeq(parts, i, Len(parts))
                                          ELSE <<parts[i]>>>> : i \in {j \in used : IsParam(segments[j])}}]

\* What mux.go says of the order: more slashes first, then the one whose first parameter that the
\* other does not share comes later.
MoreSpecific(p, q) ==
    \/ Len(p) > Len(q)
    \/ /\ Len(p) = Len(q)
       /\ \E i \in DOMAIN p : /\ ~IsParam(p[i]) /\ IsParam(q[i])
                              /\ \A j \in 1 .. i - 1 : IsParam(p[j]) = IsParam(q[j])

-----------------------------------------------------------------------------
(* The dashboard.  Ages are in days.  A change is [cl, pending, age], a review [id, changes,
   committed, archived, age]; submitted is what Swarm answers for the recent submitted changes,
   author and participant what it answers for the user. *)
Week == 7
Month == 30

RecentCls(changes) == {c.cl : c \in {x \in changes : ~x.pending /\ x.age < Week}}
\* Committed reviews of the author go to the submitted ones.
ToSubmitted(r) == r.committed /\ r.age < Week
\* Mutant: the reviews of committed changes stay.
OnBoardMut(r) == ~r.archived /\ r.age <= Month
OnBoard(r) == ~r.committed /\ ~r.archived /\ r.age <= Month

dashboard(changes, submitted, author, participant) ==
    LET outgoing == {r \in author : ~ToSubmitted(r) /\ OnBoard(r)}
        covered == UNION {r.changes : r \in outgoing}
    IN  [incoming |-> {r \in participant : OnBoard(r)},
         outgoing |-> outgoing,
         submitted |-> submitted \cup {r \in author : ToSubmitted(r)},
         pending |-> {c \in changes : c.pending /\ c.cl \notin covered}]

-----------------------------------------------------------------------------
(* The bugs of a review.  A line of a description is its tag, "BUG", "FIX" or "", and its items:
   the ids in it, NoBug for an item without a number. *)
NoBug == 0

\* One item without a number loses the whole line.
parseBugs(items) == IF NoBug \in Range(items) THEN <<>> ELSE items
bugsFromDescription(lines, tag) ==
    FoldLeft(LAMBDA ids, l : IF l.tag = tag THEN ids \o parseBugs(l.items) ELSE ids, <<>>, lines)
\* Mutant: an id of the key is added whether or not the description has it.
mergeIdsMut(fromDesc, fromKeys) == fromDesc \o fromKeys
\* What the key adds to the description.
mergeIds(fromDesc, fromKeys) == fromDesc \o SelectSeq(fromKeys, LAMBDA x : x \notin Range(fromDesc))
\* bugsFromAux, once the key has been read.
bugsFromAux(lines, aux) ==
    [bugs |-> mergeIds(bugsFromDescription(lines, "BUG"), aux.bugs),
     fixes |-> mergeIds(bugsFromDescription(lines, "FIX"), aux.fixes)]
=============================================================================
