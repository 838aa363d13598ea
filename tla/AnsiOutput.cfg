CONSTANTS
  Runs <- MCRuns
  MaxCommands = 2
  Threshold = 2
  MaxTicks = 2
SPECIFICATION Spec
INVARIANT NoLineSkipped
PROPERTY FlushersEnd
