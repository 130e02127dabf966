SPECIFICATION LiveSpec
CONSTANTS
  Threads = {t1, t2, t3}
  MaxSess = 2
  MaxCtx = 2
  MaxCalls = 4
  Tas <- CalmTas
  None = None
PROPERTIES
  CallsReturn
CHECK_DEADLOCK FALSE
