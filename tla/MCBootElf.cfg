SPECIFICATION Spec
CONSTANTS
  MIN_LOAD_ADDRESS = 8
  MAX_LOAD_ADDRESS_EXCLUSIVE = 28
  MAX_ELF_FILE_SIZE = 16
  MAX_PROGRAM_HEADERS = 4
  MAX_LOAD_SEGMENTS = 3
  MAX_TOTAL_LOAD_SIZE = 14
  PAGE_SIZE = 4
  MAX_SEGMENT_ALIGNMENT = 8
  ELF_HEADER_SIZE = 4
  PROGRAM_HEADER_SIZE = 2
  U64_BOUND = 40
  Frames <- MCFrames
  Headers <- MCHeaders
INVARIANTS
  AcceptedIsLoadPlan
  EntryIsProtected
  LoadPlanIsAccepted
CHECK_DEADLOCK FALSE
