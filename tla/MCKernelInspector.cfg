SPECIFICATION Spec
CONSTANTS
  PAGE_SIZE = 2
  KERNEL_BASE_ADDRESS = 4
  STACK_GUARD_ADDRESS = 14
  STACK_BASE_ADDRESS = 16
  STACK_SIZE_BYTES = 4
  MIN_LOAD_ADDRESS = 2
  MAX_LOAD_ADDRESS_EXCLUSIVE = 22
  MAX_TOTAL_LOAD_SIZE = 16
  MAX_SEGMENT_ALIGNMENT = 8
  U64 = 24
  Kernels <- MCKernels
  Drifts <- MCDrifts
  MaxFaults = 2
  NONE = NONE
  BAD = BAD
INVARIANTS
  SoundLayout
  DamageIsDetected
  LinkedIsAccepted
CHECK_DEADLOCK FALSE
