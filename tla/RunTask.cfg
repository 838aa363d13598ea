\* Up to three matrix entries for at most two workers: an entry that starts
\* while another runs, and one that must wait for a token to come back.
CONSTANTS
  MaxEntries = 3
  WorkerOptions = {0, 1, 2}
  FailFastOptions = {TRUE, FALSE}
SPECIFICATION FairSpec
INVARIANTS
  WorkerLimit
  TokensAccounted
  HooksAfterEntries
  ErrorsReported
  AfterSuccessSound
  FailFastCancels
  LastIsLast
PROPERTIES
  Returns
  ImplementsTaskPool
