SPECIFICATION Spec
CONSTANTS
  Ids = {i1, i2}
  Profiles = {p1, p2}
  Ports = {a, b, c, d}
  Chosen = Chosen
  Bundles <- OneProfile
  None = None
SYMMETRY Symmetry
PROPERTIES RollbackTakesItsOwn
