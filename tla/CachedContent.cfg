\* One caller and one second are enough: a fetch that fails half-way, and a
\* second call.
CONSTANTS
  Callers = {c1}
  Processes = {p1}
  MaxAges = {0}
  Chunks = 2
  StartTime = 1
  MaxTime = 1
  MaxVersion = 1
SPECIFICATION Spec
INVARIANT CachedWhole
