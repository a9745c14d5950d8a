\* An upload may fail twice.
SPECIFICATION Spec
CONSTANTS
  Files = {f1, f2, f3}
  MaxConcurrency = 2
  BatchSize = 2
  Calls = {"make"}
  Faults = {"first", "second"}
  MaxBuilds = 1
INVARIANTS BlockedOnlyWhenBusy
CHECK_DEADLOCK FALSE
