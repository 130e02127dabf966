SPECIFICATION Spec
CONSTANTS
  Blocks = {b1, b2}
  Vals = {v1, v2}
  Fat = b1
  LastEntry = v1
  MaxRetries = 3
  MaxBlkCnt = 2
  MaxCnt = 9
  MaxUnpaired = 4
  Pairing = {TRUE, FALSE}
  None = None
INVARIANTS
  TypeOK
  StaleRefused
PROPERTIES
  ImplementsBlockStore
