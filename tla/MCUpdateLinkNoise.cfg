SPECIFICATION NoisyLineSpec
CONSTANTS
  ByteValues = 4
  Magic <- ThreeByteMagic
  MAX_PAYLOAD_SIZE = 2
  p1 = p1
  p2 = p2
  Packages <- OnePackage
  PayloadBlocks = 2
  SequenceModulus = 4
  MAX_FRAME_TIMEOUTS = 2
  Retries = 1
  LinkCapacity = 2
  MaxInvocations = 1
PROPERTY
  GarbageEndsSession
