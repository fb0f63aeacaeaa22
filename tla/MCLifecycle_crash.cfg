SPECIFICATION FairSpec
CONSTANTS
  Ids = {i1}
  Requests = {r1}
  Backoffs = {b1}
  Procs = {p1}
  Ports = {n1}
  MaxRestarts = 2
  Operations = {"start", "restart", "stop", "reload", "delete"}
  Events = {"autoRestart"}
  None = None
PROPERTIES CrashIsAnswered RequestsReturn
