SPECIFICATION FairSpec
CONSTANTS
  c1 = c1
  c2 = c2
  k1 = k1
  k2 = k2
  v1 = v1
  v2 = v2
  big = big
  Clients <- MCClients
  Registry = Registry
  Nobody = Nobody
  Keys <- MCKeys
  Values <- MCValues
  Partial = Partial
  Absent = Absent
  NameSize <- MCNameSize
  ValueSize <- MCValueSize
  MaxFlashSize = 8
  NUM_MESSAGE = 1
  NoPayload = NoPayload
  Damaged = Damaged
  MaxCalls = 3
  PowerFaults = FALSE
  WriteErrors = FALSE
PROPERTY ChangesReachFlash
\* The leaked mutex stops the whole system: that is what the property rules out.
CHECK_DEADLOCK FALSE
