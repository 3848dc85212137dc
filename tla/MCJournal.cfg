CONSTANTS
  UINT32_MAX = 5
  Versions = {1, 2}
  Results = {0}
  Blank = Blank
  Torn = Torn
  Requests <- MCRequests
SPECIFICATION Spec
INVARIANTS
  NeverAmbiguous
  AcknowledgedIsRecovered
PROPERTIES
  ImplementsAtomicJournal
