SPECIFICATION Spec
CONSTANTS
  MAX_MEMORY_REGIONS = 8
  PAGE_SIZE = 256
  U64_BOUND = 8192
  Images <- MCImages
  Memories <- MCMemories
  FirmwareDescriptors <- MCFirmwareDescriptors
  StackGuardPage = 3
  MAX_ELF_FILE_SIZE = 3
  MAX_SCENARIO_BYTES = 2
  FILE_READ_CHUNK_BYTES = 2
INVARIANTS
  ScenarioVerdict
  MapDescribesMemory
  FailureExplained
PROPERTIES
  KeepsProtocol
  Stops
CHECK_DEADLOCK FALSE
