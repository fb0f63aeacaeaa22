SPECIFICATION Spec
CONSTANTS
  Ids = {i1, i2}
  Requests = {r1, r2}
  Backoffs = {}
  Procs = {p1, p2}
  Ports = {n1, n2}
  MaxRestarts = 0
  Operations = {"start", "edit"}
  Events = {"create", "listen"}
  None = None
SYMMETRY Symmetry
INVARIANTS PortsExclusive AttemptsAccounted
