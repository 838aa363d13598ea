\* Two entries run the same hook, whose list has a rendering suffix.
CONSTANTS
  Goroutines = {g1, g2}
  None = None
  Lists <- MCLists
  HolderKinds = {"hooks"}
  Rendered = {TRUE}
SPECIFICATION Spec
INVARIANT HookOwnValues
