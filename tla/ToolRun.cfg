CONSTANTS
  MaxEntries = 8
  Jobs <- MCJobs
SPECIFICATION Spec
INVARIANTS
  MatrixExact
  ContainersRemoved
  PlaceholdersSet
  ImageIsSteps
  ManifestPlatforms
  ManifestsPushedLast
  TestsRun
  TriplesAgree
  SignaturesVerified
