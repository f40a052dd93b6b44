SPECIFICATION Spec
CONSTANTS
  GPT_ENTRY_ARRAY_SECTORS = 2
  ESP_FIRST_LBA = 6
  ESP_LAST_LBA = 32
  BACKUP_GPT_ENTRIES_LBA = 35
  FAT_SECTORS = 4
  FAT_WIDTH = 4
  MAX_PAYLOAD = 3
  MAX_ELF_FILE_SIZE = 2
  Payloads <- MCPayloads
  Alien <- MCAlien
  Spots <- MCSpots
  Rewrites <- MCRewrites
INVARIANTS
  BuiltIsAccepted
  NothingHidden
  ManifestDescribesVolume
  ReadsAreBounded
PROPERTY ValidationEnds
CHECK_DEADLOCK FALSE
