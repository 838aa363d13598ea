\* Two callers, in one process or in two, and a third second in which the
\* files of the first two may be expired.
CONSTANTS
  Callers = {c1, c2}
  Processes = {p1, p2}
  MaxAges <- MCMaxAges
  Chunks = 2
  StartTime = 2
  MaxTime = 3
  MaxVersion = 2
SPECIFICATION Spec
SYMMETRY Symmetry
INVARIANTS
  AnswersFresh
  MemoryFresh
  FilesComplete
PROPERTIES
  FallbackKept
