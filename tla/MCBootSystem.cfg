SPECIFICATION FairSpec
CONSTANTS
  UINT32_MAX = 12
  Versions = {1, 2, 3, 4}
  Results = {0, 1, 2}
  Blank = Blank
  Torn = Torn
  MIN_IMAGE_VERSION = 2
  PayloadBlocks = 3
  BufferBlocks = 2
  RESULT_CANDIDATE_VERIFY_FAILED = 1
  RESULT_ATTEMPTS_EXHAUSTED = 2
  TrialResults = {0}
  Packages <- MCPackages
INVARIANTS
  MetadataMatchesFlash
  TrialBudget
  RunningIsEntitled
PROPERTIES
  ActiveNeverLost
  ConfirmsOnlyItself
  VersionNeverFalls
  TrialResolves
  KeepsRunning
