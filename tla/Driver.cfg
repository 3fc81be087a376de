SPECIFICATION Spec
CONSTANTS
  bit = bit
  Bits <- MCBits
  FLASHWORD = 3
  SECTOR_WORDS = 3
  SectorsPerBank = 2
  MaxWords = 5
  MaxProgrammed = 2
INVARIANTS
  TypeOK
  LockedWhenIdle
  ProgramsAligned
PROPERTIES
  MemorySpec
  CallsShorten
  CallsReturn
