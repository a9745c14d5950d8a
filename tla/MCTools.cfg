\* Nine tools and the pure algorithms.
SPECIFICATION Spec
CONSTANTS
\* An author and the CI machine, and two files that may both be in a change.
  Authors = {"a"}
  Ci = "ci"
  DepotFiles = {"f", "g"}
  MaxRev = 2
  MaxCl = 2
\* Trees of which some are regular; two searches, the second of which may be another term's.
  SearchDepots <- MCDepots
  Limit = 3
  Terms = {"t", "u"}
  MaxSearches = 2
  MaxErrors = 1
\* Three changes, by a user who counts and one who is excluded, over three sessions.
  MaxChange = 3
  MaxSessions = 3
  Submitters = {"w", "x"}
  Excluded = {"x"}
\* Pages of one item, so that two items are two pages; an endpoint holds one changelist.
  PageSize = 1
  BatchSize = 1
  Changelists = {1, 2}
  MaxItems = 2
\* A change that is in up to three lists, and a presubmit that is run twice.
  UserCls = {1}
  ShownFiles = {"f"}
  Checks = 2
  MaxPresubmits = 2
\* A package of each sort, through three runs of the tool and two edits of the manifests.
  Names = {"p"}
  Kinds = {"git", "go", "rust", "zip"}
  MaxRuns = 3
  MaxEdits = 2
\* A message and a command.
  Outputs <- MCOutputs
  MaxSaid = 1
  MaxCommands = 1
\* Two programs and two versions of what they install.
  Programs = {"environment", "prewarm"}
  MaxVersion = 2
  MaxInstallFaults = 2
\* Two links to gigantick, with poogle or gigantick already there, and urika run from two places.
  Links = {"g", "h"}
  Apps = {"gigantick", "poogle"}
  AppOf <- MCAppOf
  Exes = {"e1", "e2"}
  OthersSlots = {{1, 3}}
  MaxLinkFaults = 1
INVARIANTS  DiffsRight    NothingTwice SwarmClientHonest WindowHonest   MachineReady
CHECK_DEADLOCK FALSE
