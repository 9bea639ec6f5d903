SPECIFICATION FairSpec
CONSTANTS
  p1 = p1
  p2 = p2
  Procs = {p1, p2}
  Gone = Gone
  NoSession = NoSession
  MaxVersion = 1
  MaxInterruptions = 1
  MaxDetaches = 1
  Faults = {}
PROPERTIES PendingEvictionFinishes
CHECK_DEADLOCK FALSE
