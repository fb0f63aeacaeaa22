SPECIFICATION Spec
CONSTANTS
  Ids = {i1}
  Requests = {r1}
  Backoffs = {b1, b2}
  Procs = {p1, p2}
  Ports = {n1}
  MaxRestarts = 1
  Operations = {"start", "stop", "reload", "core"}
  Events = {}
  None = None
SYMMETRY Symmetry
INVARIANTS LaunchedConfigTested ReloadReachesItsProcess BackoffIsCancellable WatchdogYieldsToStop CoreGate
PROPERTIES ImplementsSupervisor CrashIsFollowed
