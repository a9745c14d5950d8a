----------------------------- MODULE CicdFiles ------------------------------
(***************************************************************************)
(* What a cicdfile.Provider promises: given the files of a change, the     *)
(* CICD files of every directory above one of them, up to the root of the  *)
(* monorepo, in path order; or an error when one of them cannot be read.   *)
(* How it searches (goroutines that walk up and share what they have seen) *)
(* is CicdFileSearch.                                                      *)
(***************************************************************************)
EXTENDS Naturals, FiniteSets, TLC

CONSTANTS
  Dirs,    \* the directories of the monorepo
  Root,    \* its root, the path ""
  Dot,     \* ".", what filepath.Dir says of a path without directory
  Parent,  \* filepath.Dir of every directory but the root
  Inputs,  \* the files of the change
  DirOf,   \* filepath.Dir of each
  Names,   \* CICD and CICD.textpb
  First,   \* CICD, the one that is looked for first
  Disks,   \* the contents of the directories to consider
  Rank     \* the order of the paths

Paths == Dirs \X Names

ASSUME TreeOK ==
  /\ Root \in Dirs /\ Dot \notin Dirs
  /\ Parent \in [Dirs \ {Root} -> (Dirs \ {Root}) \cup {Dot}]
  /\ DirOf \in [Inputs -> (Dirs \ {Root}) \cup {Dot}]
  /\ First \in Names
  /\ Disks \subseteq [Paths -> {"absent", "dir", "file", "garbled"}]

ASSUME RankOK ==
  /\ Rank \in [Paths -> Nat]
  /\ \A p, q \in Paths : Rank[p] = Rank[q] => p = q

VARIABLES
  disk,    \* what os.Stat and ReadFile would find, fixed during a call
  result   \* what FindCicdFiles returned

Pending == [status |-> "pending", files |-> <<>>]
Failed  == [status |-> "error", files |-> <<>>]

(* The directory a path names: "." is the root. *)
DirectoryKeepsDot(d) == d
Directory(d) == IF d = Dot THEN Root ELSE d

IsFile(p) == disk[p] \in {"file", "garbled"}

(* The CICD file of a directory, a set of at most one path: the first name *)
(* that is there and is not a directory.                                   *)
CicdFileIn(d) ==
  {p \in {d} \X Names : IsFile(p) /\ (p[2] = First \/ ~IsFile(<<d, First>>))}

(* Sets of directories that hold those of the inputs and, with every       *)
(* directory, the one above it.  The least of them are the ancestors.      *)
UpwardClosed(S) ==
  /\ \A i \in Inputs : Directory(DirOf[i]) \in S
  /\ \A d \in S \ {Root} : Directory(Parent[d]) \in S

Ancestors == {d \in Dirs : \A S \in SUBSET Dirs : UpwardClosed(S) => d \in S}

Wanted == UNION {CicdFileIn(d) : d \in Ancestors}

InPathOrder(s) == \A i, j \in DOMAIN s : i < j => Rank[s[i]] < Rank[s[j]]

Answer(r) ==
  IF \E p \in Wanted : disk[p] = "garbled"
  THEN r = Failed
  ELSE /\ r.status = "files"
       /\ DOMAIN r.files = 1 .. Cardinality(Wanted)
       /\ {r.files[i] : i \in DOMAIN r.files} = Wanted
       /\ InPathOrder(r.files)

ProvideInit == disk \in Disks /\ result = Pending

Provide == result = Pending /\ Answer(result') /\ UNCHANGED disk

(* FindCicdFiles returns, once, exactly the CICD files above the inputs,   *)
(* in an order that does not depend on which goroutine was faster.         *)
ProviderSpec ==
  /\ ProvideInit
  /\ [][Provide]_<<disk, result>>
  /\ <>(result # Pending)
=============================================================================
