\* Every schedule of four walkers and of the loaders, on every disk; every outcome of the commands.
SPECIFICATION PresubmitSpec
CONSTANTS
  Dirs <- MCDirs
  Root = ""
  Dot = "."
  Parent <- MCParent
  Inputs = {"file", "a/b/file", "a/c/f", "a/c/g"}
  DirOf <- MCDirOf
  Names <- MCNames
  First = "CICD"
  Disks <- MCDisks
  Rank <- MCRankOf
  BuildUnits = {lib, gen}
  TestUnits = {unit, run}
  BuildTestUnits = {wraps}
  Actions = {fmt}
  Suites = {all, sub}
  Files = {f1, f2}
  Repos <- MCRepos
  lib = lib
  gen = gen
  unit = unit
  run = run
  wraps = wraps
  all = all
  sub = sub
  fmt = fmt
  f1 = f1
  f2 = f2
  CheckedIn = CheckedIn
  Missing = Missing
  BadLabel = BadLabel
  Invalid = Invalid
INVARIANTS FoundAll Exclusive VerdictRight
PROPERTIES ProvidesFiles Finishes
CHECK_DEADLOCK FALSE
