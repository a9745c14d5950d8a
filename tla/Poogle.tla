------------------------------- MODULE Poogle -------------------------------
(***************************************************************************)
(* The search of tools/poogle on p4lib's GrepLarge.  A search runs in the  *)
(* background: grepChunker splits the depot into groups of directories of  *)
(* at most Limit files, each group is grepped by a goroutine that sends    *)
(* its matches on an unbuffered channel, and the window takes at most one  *)
(* of them in every frame that shows the Search tab.                       *)
(*                                                                         *)
(* The depot is a tree: the files directly in a directory are one unit,    *)
(* named by the directory, and every file matches.  A pattern is           *)
(* [dir, deep]: dir/... when deep, else dir/*.                             *)
(***************************************************************************)
EXTENDS Naturals, Sequences, FiniteSets, SequencesExt, FiniteSetsExt

CONSTANTS
    Depots,       \* depots to search: [parent, count, bytes] functions on directories, and root
    Limit,        \* limit, the most files of one p4 grep
    Terms,        \* search terms
    MaxSearches,  \* bound: searches
    MaxErrors     \* bound: p4 commands that fail

VARIABLES
    depot,        \* the depot
    ui,           \* poogleContext, without what is only drawn
    uris,         \* links posted by other tools, each in a goroutine that waits for the window
    bg,           \* the goroutine of the current search: pc, its term and whether p4 failed
    chunks,       \* patterns of grepChunker calls that have not run
    greps,        \* groups of patterns whose p4 grep has not returned
    sends         \* groups whose goroutine waits to send its matches

vars == <<depot, ui, uris, bg, chunks, greps, sends>>
NoTerm == "no term"

Init ==
    /\ depot \in Depots
    /\ ui = [searching |-> FALSE, term |-> NoTerm, results |-> {}, index |-> 1,
             collection |-> <<>>, history |-> <<>>]
    /\ uris = {}
    /\ bg = [pc |-> "none", term |-> NoTerm, failed |-> FALSE]
    /\ chunks = {} /\ greps = {} /\ sends = {}

-----------------------------------------------------------------------------
(* The depot. *)

Dirs == DOMAIN depot.count
Children(d) == {c \in Dirs : depot.parent[c] = d /\ c # d}
\* The directories at and below d; the trees have three levels.
Below(d) == {c \in Dirs : d \in {c, depot.parent[c], depot.parent[depot.parent[c]]}}
Covers(p) == IF p.deep THEN Below(p.dir) ELSE {p.dir}
FileCount(p) == MapThenSumSet(LAMBDA d : depot.count[d], Covers(p))
FileSize(p) == MapThenSumSet(LAMBDA d : depot.bytes[d], Covers(p))

\* "//..." is too short for the files of the directory itself to be added.
HasFiles(d) == d # "//"
Entries(p) ==
    {[dir |-> c, deep |-> TRUE] : c \in Children(p.dir)}
        \cup IF p.deep /\ HasFiles(p.dir) THEN {[dir |-> p.dir, deep |-> FALSE]} ELSE {}

-----------------------------------------------------------------------------
(* grepChunker. *)

\* Mutant: the last group is forgotten.
FlushMut(st) == st.groups
Flush(st) == IF st.dirs = {} THEN st.groups ELSE st.groups \cup {st.dirs}

\* The groups of the entries that are small enough, filled in the order of their sizes.
Groups(entries) ==
    LET order == SetToSortSeq(entries, LAMBDA p, q : FileCount(p) < FileCount(q))
        add(st, p) ==
            LET full == st.total + FileCount(p) > Limit
                dirs == IF full THEN {} ELSE st.dirs
                total == IF full THEN 0 ELSE st.total
            IN  [groups |-> IF full THEN Flush(st) ELSE st.groups,
                 dirs |-> IF FileCount(p) > 0 THEN dirs \cup {p} ELSE dirs,
                 total |-> total + FileCount(p)]
    IN  Flush(FoldLeft(add, [groups |-> {}, dirs |-> {}, total |-> 0], order))

\* A call: below the limit in bytes nothing is grepped; else the entries that are too large are
\* split further and the others grouped.
Chunked(p) ==
    LET big == {e \in Entries(p) : FileCount(e) > Limit}
    IN  IF FileSize(p) < Limit THEN [chunks |-> {}, groups |-> {}]
        ELSE [chunks |-> big, groups |-> Groups(Entries(p) \ big)]

Error == bg' = [bg EXCEPT !.failed = TRUE]
CanFail == ~bg.failed /\ MaxErrors > 0

\* GrepLarge: the totals of the root, then the chunker for it.  The term is the one the window
\* holds by now.
GrepLarge ==
    /\ bg.pc = "start"
    /\ chunks' = {[dir |-> depot.root, deep |-> TRUE]}
    /\ bg' = [bg EXCEPT !.pc = "chunk", !.term = ui.term]
    /\ UNCHANGED <<depot, ui, uris, greps, sends>>
GrepLargeFails ==
    /\ bg.pc = "start" /\ CanFail
    /\ bg' = [bg EXCEPT !.pc = "done", !.term = ui.term, !.failed = TRUE]
    /\ UNCHANGED <<depot, ui, uris, chunks, greps, sends>>

grepChunker(p) ==
    /\ p \in chunks
    /\ chunks' = (chunks \ {p}) \cup Chunked(p).chunks
    /\ greps' = greps \cup Chunked(p).groups
    /\ UNCHANGED <<depot, ui, uris, bg, sends>>
\* Sizes or Dirs fails: the call returns an error that nobody reads.
ChunkerFails(p) ==
    /\ p \in chunks /\ CanFail
    /\ chunks' = chunks \ {p}
    /\ Error
    /\ UNCHANGED <<depot, ui, uris, greps, sends>>

Grep(g) ==
    /\ g \in greps
    /\ greps' = greps \ {g} /\ sends' = sends \cup {g}
    /\ UNCHANGED <<depot, ui, uris, bg, chunks>>
GrepFails(g) ==
    /\ g \in greps /\ CanFail
    /\ greps' = greps \ {g}
    /\ Error
    /\ UNCHANGED <<depot, ui, uris, chunks, sends>>

\* Mutant: the goroutines that still wait to send are not waited for.
AllDoneMut == chunks = {} /\ greps = {}
AllDone == chunks = {} /\ greps = {} /\ sends = {}
\* wg.Wait returns and the goroutine waits to send on grepCompleted.
Wait ==
    /\ bg.pc = "chunk" /\ AllDone
    /\ bg' = [bg EXCEPT !.pc = "done"]
    /\ UNCHANGED <<depot, ui, uris, chunks, greps, sends>>

-----------------------------------------------------------------------------
(* The window. *)

\* searchBegin does nothing while a search is running.
searchBegin(term) ==
    IF ui.searching
    THEN ui' = [ui EXCEPT !.term = term] /\ UNCHANGED bg
    ELSE /\ Len(ui.collection) < MaxSearches
         /\ ui' = [ui EXCEPT !.term = term, !.searching = TRUE, !.results = {}, !.index = 1,
                             !.history = Append(@, term)]
         /\ bg' = [pc |-> "start", term |-> NoTerm, failed |-> FALSE]

\* The field is read-only during a search; the button is not, and does nothing.
SearchButton(term) ==
    /\ ~ui.searching
    /\ searchBegin(term)
    /\ UNCHANGED <<depot, uris, chunks, greps, sends>>

Post(term) ==
    /\ uris' = uris \cup {term}
    /\ UNCHANGED <<depot, ui, bg, chunks, greps, sends>>
\* update: a link is taken only between searches.
TakeUri ==
    /\ ~ui.searching
    /\ \E term \in uris : uris' = uris \ {term} /\ searchBegin(term)
    /\ UNCHANGED <<depot, chunks, greps, sends>>

\* A line of the History tab: the term changes even when searchBegin then does nothing.
HistoryClick ==
    /\ \E i \in DOMAIN ui.history : searchBegin(ui.history[i])
    /\ UNCHANGED <<depot, uris, chunks, greps, sends>>
ClearHistory ==
    /\ ui.history # <<>>
    /\ ui' = [ui EXCEPT !.history = <<>>]
    /\ UNCHANGED <<depot, uris, bg, chunks, greps, sends>>

Found(g) == UNION {Covers(p) : p \in g}
\* searchTab: one group of matches is taken.
Receive ==
    /\ ui.searching
    /\ \E g \in sends : /\ sends' = sends \ {g}
                        /\ ui' = [ui EXCEPT !.results = @ \cup Found(g)]
    /\ UNCHANGED <<depot, uris, bg, chunks, greps>>
\* searchTab: the end of the search; the result is filed under the term of the window.
Completed ==
    /\ ui.searching /\ bg.pc = "done"
    /\ ui' = [ui EXCEPT !.searching = FALSE,
                        !.index = Len(ui.collection) + 1,
                        !.collection = Append(@, [term |-> ui.term, grepped |-> bg.term,
                                                  results |-> ui.results, failed |-> bg.failed])]
    /\ bg' = [bg EXCEPT !.pc = "none"]
    /\ UNCHANGED <<depot, uris, chunks, greps, sends>>

\* "<" and ">": an earlier or later result.
Browse ==
    /\ ~ui.searching
    /\ \E i \in {ui.index - 1, ui.index + 1} \cap DOMAIN ui.collection :
          ui' = [ui EXCEPT !.index = i, !.results = ui.collection[i].results,
                           !.term = ui.collection[i].term]
    /\ UNCHANGED <<depot, uris, bg, chunks, greps, sends>>

Next ==
    \/ GrepLarge \/ GrepLargeFails \/ Wait
    \/ \E p \in chunks : grepChunker(p) \/ ChunkerFails(p)
    \/ \E g \in greps : Grep(g) \/ GrepFails(g)
    \/ \E t \in Terms : SearchButton(t) \/ Post(t)
    \/ TakeUri \/ HistoryClick \/ ClearHistory \/ Receive \/ Completed \/ Browse

Spec == Init /\ [][Next]_vars

-----------------------------------------------------------------------------
(* A depot the chunker is made for: it is large, no directory has more than Limit files of its
   own, and nothing is directly in "//".  Elsewhere GrepLarge leaves files out: a tree of fewer
   than Limit bytes is not grepped at all, and neither are the files of a directory that has
   more than Limit of them. *)
Regular ==
    /\ FileSize([dir |-> depot.root, deep |-> TRUE]) >= Limit
    /\ \A d \in Dirs : depot.count[d] <= Limit /\ depot.count[d] <= depot.bytes[d]
    /\ "//" \in Dirs => depot.count["//"] = 0

(* A search in which no p4 command failed shows every file of such a depot, whatever the order in
   which the goroutines sent their matches and the frames took them: nothing is still to be
   sent when the search is declared complete. *)
SearchComplete ==
    /\ Regular => \A i \in DOMAIN ui.collection :
          ui.collection[i].failed \/ {d \in Dirs : depot.count[d] > 0} \subseteq ui.collection[i].results
    /\ bg.pc = "done" => sends = {}
=============================================================================
