SPECIFICATION Spec
CONSTANTS
  Threads = {t1, t2, t3}
  MaxSess = 2
  MaxCtx = 2
  Tas <- AllTas
  None = None
SYMMETRY Symmetry
INVARIANTS
  TypeOK
  OneCallInTa
  SessionExclusive
  ContextRefs
  NoLostSignal
  UnlinkWaitsUnlessPanic
  ContextOutlivesUnlessPanic
  SessionsExistUnlessPanic
  OneSession
CHECK_DEADLOCK FALSE
