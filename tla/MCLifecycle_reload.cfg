SPECIFICATION Spec
CONSTANTS
  Ids = {i1}
  Requests = {r1, r2}
  Backoffs = {}
  Procs = {p1, p2}
  Ports = {n1}
  MaxRestarts = 0
  Operations = {"start", "delete", "reload"}
  Events = {"create", "expire"}
  None = None
SYMMETRY Symmetry
INVARIANTS TypeOK OneProcess WaitsEnd
