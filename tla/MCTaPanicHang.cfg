SPECIFICATION Spec
CONSTANTS
  Threads = {t1, t2}
  MaxSess = 2
  MaxCtx = 1
  Tas <- PanickyTas
  None = None
INVARIANTS
  UnlinkWaitsForOthers
CHECK_DEADLOCK FALSE
