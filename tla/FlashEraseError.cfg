SPECIFICATION HistorySpec
CONSTANTS
  p1 = p1
  p2 = p2
  Payloads <- MCPayloads
  EmptyPayload = p1
  NoPayload = NoPayload
  Garbled = Garbled
  NumSectors = 2
  BlocksPerSector = 2
  WordsPerBlock = 2
  UINT32_MAX = 12
  CounterBound = 12
  PowerFaults = TRUE
  EraseFaults = TRUE
  EraseTears = FALSE
  ProgramFaults = FALSE
INVARIANT NeverRollsBack
