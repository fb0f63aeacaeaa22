SPECIFICATION Spec
CONSTANTS
  Ids = {i1}
  Requests = {r1, r2}
  Backoffs = {}
  Procs = {p1}
  Ports = {n1}
  MaxRestarts = 0
  Operations = {"start", "stop"}
  Events = {}
  None = None
SYMMETRY Symmetry
INVARIANTS StopSticks
