SPECIFICATION Spec
CONSTANTS
  Uses <- DeepUses
  GoesOn = FALSE
  None = None
INVARIANTS
  SyncedFileOpens
CHECK_DEADLOCK FALSE
