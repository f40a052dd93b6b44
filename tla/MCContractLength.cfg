SPECIFICATION BoundarySpec
CONSTANTS
  MAX_MEMORY_REGIONS = 3
  PAGE_SIZE = 16
  U64_BOUND = 512
  Regions <- MCRegions
  Handoffs <- MCHandoffs
  Encoded <- MCEncoded
  Values = {0, 1, 32, 496}
INVARIANTS
  SizesAreLengthErrors
CHECK_DEADLOCK FALSE
