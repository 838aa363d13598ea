CONSTANTS
  Callers = {c1, c2, c3, c4}
  Values = {v1, v2}
  NoValue = NoValue
  MaxCalls = 2
SPECIFICATION LazyFairSpec
INVARIANTS
  OneWriter
PROPERTIES
  ImplementsOnce
  GetReturns
