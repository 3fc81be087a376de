SPECIFICATION FairSpec
CONSTANTS
  t1 = t1
  t2 = t2
  Threads <- MCThreads
  Priorities = {1, 2}
  TimeWrap = 6
  MsPerTick = 2
  SleepTimes <- MCSleepTimes
  QueueSize = 1
  MaxMessages = 1
CONSTRAINT FirstUrgent
INVARIANTS
  TypeOK
  WaitsInTime
PROPERTIES
  SleepsLongEnough
  StartProtocol
