CONSTANTS
  Names <- MCNames
  Setups <- MCSetups
  Documents <- MCDocuments
  Jobs <- MCJobs
SPECIFICATION DocumentsSpec
INVARIANT ConfigResolved
PROPERTY IncludesRead
INVARIANT DiffExact
PROPERTY DocumentsPaired
