SPECIFICATION DriversSpec
CONSTANTS
  FLASH_BASE = 1
  FLASH_END = 8
  UINT32_MAX = 9
  Sectors <- MCSectors
  MetadataA <- MCMetadataA
  MetadataB <- MCMetadataB
  Candidate <- MCCandidate
  ProtectedRegions <- MCProtected
  LabRequests <- MCLabRequests
  program_alignment = 1
  VerifyChunk = 1
  Programs <- MCPrograms
  IsrReads = {2, 6}
  MaxBytes = 4
  UART_FLUSH_RX_MAX_DRAINS = 2
  UART_TX_READY_MAX_POLLS = 1
  Timeouts = {0, 2}
  Lengths = {0, 2}
INVARIANTS
  AnswersAreTrue
  OkMeansWritten
PROPERTIES
  OnlyEntitledCells
