SPECIFICATION Spec
CONSTANTS
  Uses <- AllUses
  GoesOn = FALSE
  None = None
INVARIANTS
  TypeOK
  SyncedFileOpens
PROPERTIES
  ImplementsAtomicFile
CHECK_DEADLOCK FALSE
