SPECIFICATION LiveSpec
CONSTANTS
  Threads = {t1, t2, t3}
  CondVars = {c1}
  LossyWake = TRUE
  MaxCalls = 5
INVARIANTS
  TypeOK
  StateMatchesHolders
  NoLostWakeup
  WqeLinkedWhileWaiting
PROPERTIES
  ImplementsMonitor
  LockReturns
CHECK_DEADLOCK FALSE
