SPECIFICATION Spec
CONSTANTS
  Instances = {i1}
  Active = {i1}
  Writers = {w1, w2}
  Contents = {c1, c2}
  URLs = {u1, u2}
  Settings = {s1}
  MaxClock = 2
  None = None
  Keep = Keep
SYMMETRY Symmetry
INVARIANTS ContentFollowsURL
