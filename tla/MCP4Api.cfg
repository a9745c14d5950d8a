SPECIFICATION FairSpec
CONSTANTS
  Calls = {g, h}
  Users = {root, u}
  DefaultUser = root
  Cbs = {"print", "buffer"}
  Emits <- MCEmits
  FinalReports = {TRUE, FALSE}
  MaxIdle = 1
  MaxIds = 3
  MaxDrops = 1
  MaxErrors = 1
INVARIANTS RunsAsCaller
PROPERTIES ImplementsCommand CallsReturn
