SPECIFICATION Spec
CONSTANTS
  UINT32_MAX <- MCUint32Max
  Slots <- MCSlots
  HEADER_SIZE = 512
  APPLICATION_MIN_SIZE = 8
  APPLICATION_VECTOR_MIN_SIZE = 8
  APPLICATION_MSP_BASE <- MCMspBase
  APPLICATION_MSP_END <- MCMspEnd
  APPLICATION_MSP_ALIGNMENT = 8
  APPLICATION_VTOR_ALIGNMENT = 256
  FLAGS_ALLOWED <- MCNoFlags
  MIN_IMAGE_VERSION = 2
  SIGNED_IMAGE_MAGIC = 826755411
  SIGNED_HEADER_VERSION = 1
  UPDATE_PACKAGE_FORMAT_VERSION = 2
  UPDATE_TARGET = 4
  UPDATE_IMAGE_TYPE = 1
  DeviceKey = "device"
  LEGACY_BASE <- MCLegacyBase
  LEGACY_PAYLOAD <- MCLegacyPayload
  LEGACY_END <- MCLegacyEnd
  Configs <- MCConfigs
  RepositoryConfig <- MCRepositoryConfig
  Applications <- MCApplications
  Versions <- MCVersions
  Others <- MCOthers
  VerifyArgs <- MCVerifyArgs
  ReleaseArgs <- MCReleaseArgs
  Trees <- MCTrees
  Resident <- MCResident
  LegacyImages <- MCLegacyImages
  Words <- MCWords
  MaxFaults = 1
CHECK_DEADLOCK FALSE
INVARIANTS
  LayoutIsPartition
  HostAgreesWithDevice
  OutputIsAccepted
  EntersVerified
  RefusedOnlyByFault
