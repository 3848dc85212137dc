SPECIFICATION PlatformOnly
CONSTANTS
  ENTRY_COUNT = 3
  entry_kinds <- MCKinds
  STEP_BUDGET = 2
  COUNTER_MAX = 3
  BadValues <- MCBadValues
  BadVtors = {"misaligned"}
  TestStates = {"HEALTHY", "SECURITY_FAILURE"}
  TEMPORARY_TICKS = 2
  RESTRICTED = TRUE
  Builds <- MCBuilds
  ATTEMPTS = 2
  LOG_CAPACITY = 2
  UINT32_MAX = 6
  BOOT_COUNTER_MAX = 2
  SCENARIO_TICK = 1
  STABLE_TICK = 2
  MaxCommands = 1
  MaxStrikes = 1
CHECK_DEADLOCK FALSE
PROPERTIES
  FaultHandlerIsReset
