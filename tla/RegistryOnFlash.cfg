SPECIFICATION FairSpec
CONSTANTS
  c1 = c1
  c2 = c2
  k1 = k1
  v1 = v1
  v2 = v2
  Clients <- MCClients
  Registry = Registry
  Nobody = Nobody
  Keys <- MCKeys
  Values <- MCValues
  Partial = Partial
  Absent = Absent
  NameSize <- MCNameSize
  ValueSize <- MCValueSize
  MaxFlashSize = 8
  NUM_MESSAGE = 1
  NoPayload = NoPayload
  Damaged = Damaged
  MaxCalls = 2
  NumSectors = 2
  BlocksPerSector = 2
  WordsPerBlock = 2
  Garbled = Garbled
  UINT32_MAX = 4
  CounterBound = 4
  PowerFaults = TRUE
  ProgramFaults = FALSE
INVARIANTS
  LocksReleased
PROPERTIES
  RegistrySpec
  ChangesReachFlash
