\* Everything may overlap and everything may fail.
SPECIFICATION Spec
CONSTANTS
  Files = {f1, f2}
  MaxConcurrency = 2
  BatchSize = 2
  Calls = {"make", "install", "delete"}
  Faults = {"open", "first", "second", "record", "put", "crash", "download",
            "object", "deleteMulti", "deleteCrash"}
  MaxBuilds = 2
SYMMETRY FileSym
INVARIANTS DatastoreHonest InstallDelivers DeletedClean
CHECK_DEADLOCK FALSE
