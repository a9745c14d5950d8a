SPECIFICATION Spec
CONSTANTS
  Calls = {g, h}
  Users = {root, u}
  DefaultUser = root
  Cbs = {"buffer"}
  Emits <- MCEmits
  FinalReports = {TRUE}
  MaxIdle = 1
  MaxIds = 3
  MaxDrops = 1
  MaxErrors = 1
INVARIANTS EachRecordOnce
