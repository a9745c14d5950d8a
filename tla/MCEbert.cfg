\* Two production processes and one in dev mode share the watcher's key, in a backlog of three
\* changes of which a poll takes one; then the parts that serve requests.
SPECIFICATION EbertSpec
CONSTANTS
  Instances = {a, b, dev}
  DevInstances = {dev}
  MaxPerPoll = 1
  FirstKey = 0
  MaxCL = 3
  Faults = {"get", "changes", "save", "die"}
  MaxFaults = 1
\* Two requests at a time, of a user who may have a draft, or of two on a review with two writes of
\* another instance of Ebert, enough for updateBugs to give up.
  Users = {"u", "v"}
  MaxRequests = 2
  Commenters = {"u"}
  Bodies = {"b"}
  MaxDrafts = 1
  MaxEdits = 1
  MaxVersions = 2
  MaxTries = 2
  MaxOthers = 2
\* Tickets that last three ticks, of which the last two are too short to begin something.
  ApiUser = "api"
  Threshold = 2
  Life = 3
  Latency = 1
  MaxTime = 4
  MaxIssued = 2
INVARIANTS NoneSkipped DevOnce  TicketLasts
PROPERTIES KeyOnlyForward EventuallyStarted 
CHECK_DEADLOCK FALSE
