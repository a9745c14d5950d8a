---------------------------- MODULE MCBuildDist -----------------------------
(* Instances of BuildDist; the files are interchangeable. *)
EXTENDS BuildDist, TLC

FileSym == Permutations(Files)
=============================================================================
