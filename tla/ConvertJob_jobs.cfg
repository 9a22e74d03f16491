SPECIFICATION FairSpec
CONSTANTS
  Retries <- RetryOnce
  Chunks = 2
  MaxMishaps = 1
INVARIANTS
  MissingMeansExpired
  UploadsAreDeleted
  CompletedCanBeDownloaded
PROPERTIES
  PollsNeverGoBack
  ImplementsApi

CHECK_DEADLOCK FALSE
