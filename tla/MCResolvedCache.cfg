SPECIFICATION Spec
CONSTANTS
  p1 = p1
  p2 = p2
  Procs = {p1, p2}
  Gone = Gone
  NoSession = NoSession
  MaxVersion = 2
  MaxInterruptions = 1
  MaxDetaches = 0
  Faults = {"alter", "decay", "rot", "tomb"}
SYMMETRY MCSymmetry
INVARIANTS CacheTypeOK LeaseProtected OwnerUndisturbed PinHonoured ReceiptBacksComplete
PROPERTIES ServedWhole SoleCopyKept
CHECK_DEADLOCK FALSE
