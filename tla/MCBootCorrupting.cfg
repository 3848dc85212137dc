SPECIFICATION CorruptingSpec
CONSTANTS
  UINT32_MAX = 9
  Versions = {2, 3}
  Results = {0, 1, 2}
  Blank = Blank
  Torn = Torn
  MIN_IMAGE_VERSION = 2
  PayloadBlocks = 2
  BufferBlocks = 2
  RESULT_CANDIDATE_VERIFY_FAILED = 1
  RESULT_ATTEMPTS_EXHAUSTED = 2
  TrialResults = {0}
  Packages <- MCPackages
PROPERTIES
  JumpIsVerified
