SPECIFICATION ToolsSpec
CONSTANTS
  HEADER_SIZE = 2
  CAPABILITY_SIZE = 2
  MAX_PACKAGE = 40
  MAX_CAPABILITIES = 2
  WordBits = 4
  ImmBits = 3
  BYTECODE_HEADER_SIZE = 2
  INSTRUCTION_SIZE = 2
  MAX_CODE_SIZE = 20
  MAX_STACK_LIMIT = 64
  MAX_SYSCALL_ARGS = 4
  MaxShift = 3
  instruction_budget = 7
  rcc <- MCRcc
  NATIVE_HEADER_SIZE = 4
  Align = 4
  MaxNativeCode = 4
  MaxRodata = 4
  MaxData = 4
  MaxBss = 2
  MaxStack = 4
  MaxRam = 4
  StackAlign = 2
  failure_threshold = 2
  Inputs <- MCInputs
  Key = "signer"
  Policy <- MCPolicy
  m1 = m1
  Modules <- MCModuleSet
  Packages <- MCPackages
  ModuleSigner = "module"
  FirmwareSigner = "firmware"
  OtherSigner = "other"
  FailureThreshold = 2
  RecordUnits = 2
  MaxSequence = 9
  Layout <- MCLayout
  Dumps <- MCDumps
  Prng <- MCPrng
  CanarySpecs <- MCCanarySpecs
  OptionNames = {"OPTCR"}
  BlockSizes = {2, 3}
  MaxWrites = 2
CHECK_DEADLOCK FALSE
INVARIANTS
  VerdictIsDifference
  
  AcceptedIsCanonical
PROPERTIES
  ConfirmedKept
  FollowsSource
