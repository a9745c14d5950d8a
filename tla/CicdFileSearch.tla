--------------------------- MODULE CicdFileSearch ---------------------------
(***************************************************************************)
(* FindCicdFiles as it is written: one goroutine per input walks up from   *)
(* the input's directory and stops at the first directory another one has  *)
(* already claimed, on the understanding that the other one goes on from   *)
(* there; then one goroutine per file found loads it, and the results are  *)
(* sorted.  Only the sets and the lists are shared, each under its lock.   *)
(***************************************************************************)
EXTENDS CicdFiles, Sequences

VARIABLES
  searched,   \* fileSet searched: directories claimed by a goroutine
  found,      \* fileSet found: the CICD files
  walker,     \* per input: its goroutine
  phase,      \* the caller: in findCicdFiles, in loadCicdFiles, returned
  loading,    \* files whose loading goroutine has not finished
  cicdFiles,  \* the loaded files, in the order they were appended
  errors      \* the files that could not be loaded

vars == <<disk, result, searched, found, walker, phase, loading, cicdFiles,
          errors>>

TypeOK ==
  /\ disk \in Disks
  /\ searched \subseteq Dirs
  /\ found \subseteq Paths /\ loading \subseteq found /\ errors \subseteq found
  /\ walker \in [Inputs -> [pc : {"claim", "look", "done"},
                            dir : Dirs \cup {Dot}]]
  /\ phase \in {"search", "load", "done"}
  /\ \A i \in DOMAIN cicdFiles : cicdFiles[i] \in found

Init ==
  /\ ProvideInit
  /\ searched = {} /\ found = {} /\ loading = {} /\ errors = {}
  /\ walker = [i \in Inputs |-> [pc |-> "claim", dir |-> DirOf[i]]]
  /\ phase = "search"
  /\ cicdFiles = <<>>

(* searched.add reports a directory that is already there.  The mutant is  *)
(* a search that goes on regardless.                                       *)
AlreadySearchedMut(d) == FALSE
AlreadySearched(d) == d \in searched

(* searched.add, under the lock: claim the directory or stop. *)
Claim(i) ==
  LET d == Directory(walker[i].dir) IN
  /\ walker[i].pc = "claim"
  /\ searched' = searched \cup {d}
  /\ walker' = [walker EXCEPT
       ![i] = [pc |-> IF AlreadySearched(d) THEN "done" ELSE "look", dir |-> d]]
  /\ UNCHANGED <<disk, result, found, phase, loading, cicdFiles, errors>>

(* Look for a CICD file, add it to found under the lock, and go up. *)
Look(i) ==
  LET d == walker[i].dir IN
  /\ walker[i].pc = "look"
  /\ found' = found \cup CicdFileIn(d)
  /\ walker' = [walker EXCEPT
       ![i] = IF d = Root THEN [pc |-> "done", dir |-> d]
                          ELSE [pc |-> "claim", dir |-> Parent[d]]]
  /\ UNCHANGED <<disk, result, searched, phase, loading, cicdFiles, errors>>

(* wg.Wait of findCicdFiles; the mutant waits for the first goroutine. *)
WaitMut == Inputs = {} \/ \E i \in Inputs : walker[i].pc = "done"
Wait == \A i \in Inputs : walker[i].pc = "done"

StartLoading ==
  /\ phase = "search" /\ Wait
  /\ phase' = "load" /\ loading' = found
  /\ UNCHANGED <<disk, result, searched, found, walker, cicdFiles, errors>>

(* readCicdFileProto fails. *)
Unreadable(p) == disk[p] = "garbled"

(* A goroutine of loadCicdFiles: read, parse, append under the lock. *)
Load(p) ==
  /\ p \in loading
  /\ loading' = loading \ {p}
  /\ IF Unreadable(p)
     THEN errors' = errors \cup {p} /\ UNCHANGED cicdFiles
     ELSE cicdFiles' = Append(cicdFiles, p) /\ UNCHANGED errors
  /\ UNCHANGED <<disk, result, searched, found, walker, phase>>

(* sort.Slice by path; the mutant returns the list as it was appended. *)
SortedMut(s) == s
Sorted(s) == SortSeq(s, LAMBDA p, q : Rank[p] < Rank[q])

(* wg.Wait of loadCicdFiles, and the return. *)
Return ==
  /\ phase = "load" /\ loading = {}
  /\ phase' = "done"
  /\ result' = IF errors # {}
               THEN Failed
               ELSE [status |-> "files", files |-> Sorted(cicdFiles)]
  /\ UNCHANGED <<disk, searched, found, walker, loading, cicdFiles, errors>>

WalkerStep(i) == Claim(i) \/ Look(i)

Next ==
  \/ \E i \in Inputs : WalkerStep(i)
  \/ StartLoading
  \/ \E p \in Paths : Load(p)
  \/ Return

Spec == Init /\ [][Next]_vars

(* Goroutines are scheduled, and so is the caller. *)
FairSpec ==
  /\ Spec
  /\ \A i \in Inputs : WF_vars(WalkerStep(i))
  /\ \A p \in Paths : WF_vars(Load(p))
  /\ WF_vars(StartLoading) /\ WF_vars(Return)

-----------------------------------------------------------------------------

(* No file is missed and none invented: when loading starts, found holds   *)
(* exactly the CICD files above the inputs, although most goroutines gave  *)
(* up half way in favour of another one that may not have been further up. *)
FoundAll == phase # "search" => found = Wanted

(* No two goroutines look at the same directory: found.add is never called *)
(* twice for one file, and the search is linear in the directories.        *)
Exclusive ==
  \A i, j \in Inputs :
    i # j /\ walker[i].pc = "look" /\ walker[j].pc = "look"
    => walker[i].dir # walker[j].dir
=============================================================================
