CONSTANTS
  Goroutines = {g1, g2}
  None = None
  Lists <- MCLists
  HolderKinds = {"hooks", "jobs"}
  Rendered = {TRUE, FALSE}
SPECIFICATION FairSpec
INVARIANTS
  LockDiscipline
  OwnValues
PROPERTIES
  ChainEnds
  NoStarvation
