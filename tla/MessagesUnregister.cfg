SPECIFICATION Spec
CONSTANTS
  t1 = t1
  t2 = t2
  event = event
  timer1 = timer1
  n1 = n1
  n2 = n2
  n3 = n3
  Tasks <- MCTasks
  Events <- MCEvents
  Timers = {}
  Invokers <- MCInvokers
  None = None
  QueueSize = 2
  MaxInvokes = 1
  Careful = FALSE
SYMMETRY Symmetry
INVARIANTS
  UnregisteredIsSilent
