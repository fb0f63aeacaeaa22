SPECIFICATION GeoSpec
CONSTANTS
  V4Bits = 2
  V6Bits = 4
  Mapped <- MCMapped
  Trees <- MCTrees
  Databases <- MCDatabases
  TreeNodes <- MCTreeNodes
  Last = 2
  Releases = {v1, v2}
  Settles = TRUE
  Instances = {i1}
  Kinds = {"symlink", "hardlink", "copy"}
  None = None
SYMMETRY Symmetry
INVARIANTS TypeOK LooksFindTheFile AnswersAreRight InstalledIsWhole StagedIsWhole StartsUseTheFoundFile UpdatedIsFound
PROPERTIES LastCopyKept
