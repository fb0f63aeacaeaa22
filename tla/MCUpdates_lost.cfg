SPECIFICATION Spec
CONSTANTS
  Last = 1
  Releases = {v1, v2}
  Settles = FALSE
  None = None
SYMMETRY Symmetry
PROPERTIES NothingLost
